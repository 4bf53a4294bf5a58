\* Two requests at once on one election.
CONSTANTS
  None = None
  Threads = {t1, t2}
  Ids = {e1}
  Docs = {d1, d2}
  TTL = 2
  MaxTime = 3
SPECIFICATION Spec
SYMMETRY Symmetry
INVARIANTS TypeOK StaleBounded
