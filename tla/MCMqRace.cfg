SPECIFICATION Spec
CONSTANTS
  a = a
  b = b
  c = c
  u = u
  Idle = Idle
  None = None
  MaxPrio = 2
  RRTicks = 1
  BasePrio <- MCBasePrio
  Task = {Idle, a, b}
  Mq = {u}
  IrqMq = {}
  MaxMsgs = 1
  MaxLen = 2
  MsgPrio = {1}
  Prealloc = 1
  IrqPrealloc = 0
  MallocFails = FALSE
  Deletable = {}
  WaitCap = 1
  Restartable = {}
INVARIANTS WaiterIsFound
