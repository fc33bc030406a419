CONSTANTS
  N = 4
  Value = {0, 1, 2}
  Zero = 0
  Nothing = 9
  Button = {0, 1}
  Left = 0
  Width = 1
  Places = {0, 1}
  ScriptPlaces = {0}
  Ranges = {}
  MaxMail = 2
  MaxCount = 1
  MaxFind = 3
  Area = {d1, d2}
  None = None
  HeapLo = 3
  HeapHi = 5
  Width16 = 16
  Sizes = {0, 1, 2, 15}
  DigiSlots = 2
  Spot = {p1, p2}
  Sound = {a, b}
  Silence = none
  Sign = 8
  Nibble = 4
  Offsets = 6
  Byte = {0, 1}
SPECIFICATION ServicesSpec
INVARIANTS
  ServicesTypeOK
  SingleClickSettles
  CountsAgree
  SearchKept
  BlocksDisjoint
  OneChannel
  JccTellsOrder
  StackGivesBack
PROPERTY KeepsQueue
