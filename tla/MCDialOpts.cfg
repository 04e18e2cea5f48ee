CONSTANTS
  OptsIn <- MCOptsIODisabled
  Addrs <- MCAddrsShort
  MaxProcs <- MCMaxProcs
SPECIFICATION Spec
INVARIANT TypeOK
INVARIANT DialTimeoutInRange
