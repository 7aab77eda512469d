SPECIFICATION Spec
CONSTANTS
  a = a
  b = b
  c = c
  Idle = Idle
  Task = {Idle, a, b, c}
  MaxPrio = 2
  RRTicks = 1
  MaxLock = 1
  Waits = {"WAIT_SEM", "WAIT_SIG"}
  Policies = {"FIFO"}
SYMMETRY Symm
INVARIANTS TypeOK ListsAgree PendingOnlyWhileLocked HighestPriorityRuns ListsSorted
PROPERTY FifoAmongEquals
