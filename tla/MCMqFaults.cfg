SPECIFICATION Spec
CONSTANTS
  a = a
  b = b
  c = c
  u = u
  Idle = Idle
  None = None
  MaxPrio = 2
  RRTicks = 1
  BasePrio <- MCBasePrio
  Task = {Idle, a, b}
  Mq = {u}
  IrqMq = {u}
  MaxMsgs = 1
  MaxLen = 2
  MsgPrio = {1, 2}
  Prealloc = 1
  IrqPrealloc = 0
  MallocFails = TRUE
  Deletable = {b}
  WaitCap = 1
  Restartable = {b}
INVARIANTS TypeOK WaitCountsAgree PoolConserved
PROPERTIES ImplementsMailbox
