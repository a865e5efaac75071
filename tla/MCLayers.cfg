SPECIFICATION Spec
CONSTANTS
  ScreenWidth = 5
  Width <- MCWidth
  Start <- MCStart
  MaxMoves = 3
  MaxKeys = 1
  MaxLogs = 1
INVARIANTS
  ActiveOnTop
  ScreenShowsLayers
