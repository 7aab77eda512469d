SPECIFICATION LiveSpec
CONSTANTS
  wka = wka
  wkb = wkb
  cla = cla
  clb = clb
  Work = {wka, wkb}
  Client = {cla, clb}
  NThreads = 2
  MaxDelay = 2
  UsecPerTick = 3
  UsecRange = 4
INVARIANTS TypeOK QueueIntact WorkerWillLook
PROPERTY QueuedWorkRuns
