\* Fourteen scans on one context; two hotspots chosen from four draws.
CONSTANTS
  None = None
  Images <- SomeImages
  Y <- Shade
  White = 6
  Size = 336
  Width = 26
  Height = 12
  Stride = 28
  Tall = 3
  DarkPx = 4
  ProbeFrom = 2
  ProbeStep = 3
  Margin = 4
  MinPoints = 3
  SeekStep = 2
  MinDist = 1
  Printed <- PrintedEnds
  Origs = {"plain", "ballot"}
  good = good
  fair = fair
  bare = bare
  Places = {good, fair, bare}
  Quality <- SomeQuality
  NHotspots = 2
  PerSpot = 2
SPECIFICATION FairSpec
CHECK_DEADLOCK FALSE
INVARIANTS TypeOK FirstEdge CornersAtEnds OwnTransform BestSpots
PROPERTY ScanEnds
