CONSTANTS
  Code = {plain, thunk, empty}
  Framed = {plain}
  Hollow = {empty}
  Missing = {m1}
  Outside = {beyond}
  Null = null
  Handlers = {thunk}
  Budget = 1
  MaxDepth = 1
  MaxMiss = 2
  MaxFrames = 3
  MaxOwn = 2
  MaxStack = 14
SPECIFICATION Spec
INVARIANTS TypeOK Level DepthCounts OneHandler
