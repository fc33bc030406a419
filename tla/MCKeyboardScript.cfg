CONSTANTS
  Code = {1, 2}
  Typed = {2}
  HostSize = 2
  RingSize = 2
  NamedScript <- MCScript
  Space = 1
  MaxMessages = 2
  IsrService = {"other"}
SPECIFICATION Spec
INVARIANT ScriptOnlyUnattended
