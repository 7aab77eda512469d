SPECIFICATION LiveSpec
CONSTANTS
  a = a
  b = b
  c = c
  p = p
  Idle = Idle
  None = None
  MaxPrio = 2
  RRTicks = 1
  BasePrio <- MCBasePrio
  Task = {Idle, a, b}
  Sem = {p}
  SemMax = 1
  CountFloor = 2
  Prealloc = 1
  Deletable = {a, b}
  Restartable = {a, b}
  TimedTasks = {a, b}
INVARIANTS WaitsemAgrees NoStrayTimeout DogsConserved
PROPERTY TimedWaitEnds
