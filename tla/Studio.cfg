\* One reader and two savers on one election, two owners, two contents.
CONSTANTS
  None = None
  n1 = n1  n2 = n2  i1 = i1  i2 = i2
  Readers = {r1}
  Savers = {s1, s2}
  Names = {n1}
  Ids = {i1}
  Users = {u1, u2}
  Docs = {d1, d2}
  IdOf <- OneRow
SPECIFICATION Spec
SYMMETRY Symmetry
INVARIANTS TypeOK CoherentUnlessRaced ReadsFresh
PROPERTIES OwnerKept SaveHeals
