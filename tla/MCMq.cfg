SPECIFICATION Spec
CONSTANTS
  a = a
  b = b
  c = c
  u = u
  Idle = Idle
  None = None
  MaxPrio = 2
  RRTicks = 1
  BasePrio <- MCBasePrio
  Task = {Idle, a, b, c}
  Mq = {u}
  IrqMq = {u}
  MaxMsgs = 2
  MaxLen = 2
  MsgPrio = {1}
  Prealloc = 0
  IrqPrealloc = 1
  MallocFails = FALSE
  Deletable = {}
  WaitCap = 1
  Restartable = {}
SYMMETRY Symm
INVARIANTS WaitCountsAgree NoReceiverLeftBehind NoSenderLeftBehind LimitKept
