SPECIFICATION RRSpec
CONSTANTS
  a = a
  b = b
  c = c
  Idle = Idle
  Task = {Idle, a, b}
  MaxPrio = 2
  RRTicks = 2
  MaxLock = 1
  Waits = {"WAIT_SEM"}
  Policies = {"RR"}
  LockBudget = 2
PROPERTY TopPriorityServed
