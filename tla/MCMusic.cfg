CONSTANTS
  MaxEvents = 4
  Tune <- MCTunes
  NoTune = notune
  Note = {60, 62}
  MaxPlayers = 2
  MayTimeOut = TRUE
SPECIFICATION Spec
INVARIANTS TypeOK ParsedTune OnePlayer SilentAtRest WholeTune
PROPERTIES TableIsStill PlayersEnd
