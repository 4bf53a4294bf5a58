\* Two keys, renderings of one or three bytes, room for four.
CONSTANTS
  None = None
  Keys = {k1, k2}
  Sizes = {1, 3}
  Capacity = 4
  Word = 8
  MaxOps = 6
SPECIFICATION Spec
SYMMETRY KeySymmetry
INVARIANTS TypeOK NoEarlyPanic SizeCovers
PROPERTIES ImplementsCacheSpec
