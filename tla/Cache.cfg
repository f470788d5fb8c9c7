SPECIFICATION FairSpec
CONSTANTS
  Queue = {q1, q2, q3, q4}
  MaxFile = 2
  MaxSize = 5
  MaxEntries = 4
  NULL = NULL
INVARIANTS SlotsAgree SizeIsSum ScanInBounds
PROPERTY GetReturns
