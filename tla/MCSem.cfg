SPECIFICATION Spec
CONSTANTS
  a = a
  b = b
  c = c
  p = p
  Idle = Idle
  None = None
  MaxPrio = 2
  RRTicks = 1
  BasePrio <- MCBasePrio
  Task = {Idle, a, b, c}
  Sem = {p}
  SemMax = 1
  CountFloor = 4
  Prealloc = 1
  Deletable = {}
  Restartable = {a, b, c}
  TimedTasks = {a}
SYMMETRY Symm
INVARIANTS TypeOK CountMatchesWaiters
PROPERTIES HighestWaiterFirst ImplementsAbstractSem
