CONSTANTS
  e1 = e1
  e2 = e2
  e3 = e3
  m1 = m1
  Nil = Nil
  NoOne = NoOne
  InitG = InitG
  ControlG = ControlG
  Err = Err
  NilCall = NilCall
  Concurrency = 1
  Subs = {1, 2, 3}
  Batch <- MCBatch
  Markers = {m1}
  Cancelled = {}
  Weight <- MCWeightSmall
  PacketLimit = 10
  MaxSessions = 2
  MaxFaults = 1
  MaxDialFails = 1
  Async = TRUE
  Reconnect = TRUE
SPECIFICATION Spec
INVARIANT TypeOK
INVARIANT NoLostWakeup
INVARIANT ResponsesPaired
INVARIANT ResolvedAtMostOnce
INVARIANT ConnectedHasSocket
PROPERTY ClosedIsFinal
PROPERTY NoSendOnClosedDirty
