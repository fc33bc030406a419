CONSTANTS
  Planes = 2
  Depth = 4
  Radix = 2
  RowBytes = 1
  Rows = 2
  Colour = {0, 1}
  Black = 0
  Masks = {{0}, {0, 1}}
  Pixels = 2
  Page = {g1, g2}
  Shade = {a, b}
  ByteSize = 8
  Address = {1, 2, 3, 4, 5}
  Base = {3}
  Valid = {1, 5}
  Handlers = {5}
  Nowhere = none
  MaxMiss = 2
SPECIFICATION HostSpec
INVARIANTS
  HostTypeOK
  WholeFrames
  OneBadSample
  ListGrows
PROPERTY OneBytePaints
