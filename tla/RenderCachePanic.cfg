\* Put evicts: the type assertion on the popped entry.
CONSTANTS
  None = None
  Keys = {k1, k2}
  Sizes = {1, 3}
  Capacity = 4
  Word = 8
  MaxOps = 6
SPECIFICATION Spec
INVARIANT PutReturns
