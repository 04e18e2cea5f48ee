CONSTANTS
  e1 = e1
  e2 = e2
  e3 = e3
  m1 = m1
  p = p
  Nil = Nil
  NoOne = NoOne
  InitG = InitG
  ControlG = ControlG
  Err = Err
  NilCall = NilCall
  Concurrency = 1
  Subs = {0}
  BatchSubs = {}
  Batch <- MCBatch
  Markers = {m1}
  Cancelled = {}
  Weight <- MCWeight
  BufLimit = 2
  FutCap = 1
  MaxSessions = 2
  MaxFaults = 1
  MaxDialFails = 1
  Async = TRUE
  Reconnect = TRUE
  PingSub = 0
  Deadline = TRUE
SPECIFICATION Spec
PROPERTY CloseTakesEffect
