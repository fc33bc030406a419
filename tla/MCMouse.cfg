CONSTANTS
  Button = {0, 1}
  Left = 0
  Width = 2
  Places = {0, 1}
  ScriptPlaces = {}
  Ranges <- MCRanges
  MaxMail = 1
  MaxCount = 1
SPECIFICATION MouseSpec
INVARIANT RangeHonoured
