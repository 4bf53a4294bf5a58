\* Two starts of ballotstudio, one after another or at once; the draw server of one has a
\* reloader.
CONSTANTS
  Nobody = Nobody
  Mains = {m1, m2}
  Reloading = {m1}
  Requests = {r1}
  MaxPolls = 3
SPECIFICATION LifeFair
CHECK_DEADLOCK FALSE
INVARIANTS LifeTypeOK NoStrayBackend BackendStays
PROPERTY SigtermEnds
