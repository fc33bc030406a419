CONSTANTS
  Total = 3
  NHandles = 3
  NPhys = 2
  Contents = {blank, ink}
  Blank = blank
SPECIFICATION AnySpec
INVARIANT HandlesShareNoPage
