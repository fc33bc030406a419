CONSTANTS
  Total = 3
  NHandles = 3
  NPhys = 2
  Contents = {blank, ink}
  Blank = blank
SPECIFICATION Spec
INVARIANTS TypeOK Accounting LivePagesInStore RunsDisjoint
PROPERTIES WrittenBack LowerRunsStay
