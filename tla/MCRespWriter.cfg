CONSTANTS
  IntBits <- MCIntBits
  Args <- MCArgs
  Requests <- MCRequests
  MaxReqs = 2
SPECIFICATION Spec
INVARIANT TypeOK
INVARIANT RoundTrip
INVARIANT ArgToStringAgrees
