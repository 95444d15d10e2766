SPECIFICATION ClipSpec
CONSTANTS
  Columns = 4
  Rows = 3
  ScreenWidth = 4
  ScreenHeight = 3
  MinCoord <- LeastCoord
  MaxCoord = 6
  Cuts <- CutSets
  Requests <- EveryRequest
VIEW Relevant
INVARIANTS
  CacheIsTrue
  DrawsWhatIsVisible
