CONSTANTS
  IntBits <- MCIntBits
  Args <- MCArgsUintZero
  Requests <- MCRequestsUintZero
  MaxReqs = 2
SPECIFICATION Spec
INVARIANT RoundTrip
