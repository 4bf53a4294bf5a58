\* Three requests at once on a new file or one of the first version.
CONSTANTS
  None = None
  Threads = {t1, t2, t3}
  Ids = {e1, e2}
  DemoId = e1
  Docs = {demo, d1}
  Demo = demo
SPECIFICATION Spec
SYMMETRY Symmetry
INVARIANTS TypeOK UsableUnlessCut AppliedIfRecorded
PROPERTY DemoKeepsOut
