SPECIFICATION LiveSpec
CONSTANTS
  x = x
  y = y
  z = z
  Off = Off
  Pool = {x, y}
  Heap = {z}
  IntReserve = 1
  MaxDelay = 3
INVARIANTS TypeOK PoolAgrees
PROPERTIES ImplementsTimers InterruptEnds
