\* Two calls at once over one prefix map, documents of two nodes.
CONSTANTS
  n1 = n1
  n2 = n2
  Absent = Absent
  Handlers = {h1, h2}
  Nodes = {n1, n2}
  Types <- MCTypes
  Listed <- MCListed
  PrefixOf <- MCPrefixOf
  InputIds <- MCFewIds
  Inputs <- AllInputs
  MaxNumber = 3
SPECIFICATION FixFair
INVARIANTS FixTypeOK UniquePerType KeepsGoodIds
PROPERTY AloneReturns
