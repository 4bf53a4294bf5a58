\* Two uploads at once, two of three images with one hash.
CONSTANTS
  None = None
  a = a
  b = b
  hx = hx
  hy = hy
  Handlers = {h1, h2}
  Images = {a, b, c}
  Hashes = {hx, hy}
  HashOf <- Colliding
  FileLimit = 1
  MaxFiles = 2
  MaxRecords = 3
SPECIFICATION Spec
SYMMETRY Symmetry
INVARIANTS TypeOK WrittenOnce TornIsLast
