SPECIFICATION CondSpec
CONSTANTS
  a = a
  b = b
  c = c
  mx = mx
  None = None
  Thread = {a, b, c}
  Mutex = {mx}
  Mortal = {a, b, c}
SYMMETRY Symm
INVARIANTS CondTypeOK OneOwner NeverLost SignalSeesWaiters BroadcastWakesAll
PROPERTIES NoUseWhileInconsistent WaitReturnsWithMutex
CHECK_DEADLOCK FALSE
