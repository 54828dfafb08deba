\* The keyboard driver under each set of keys.  A machine that restarts stops.
SPECIFICATION FairSpec
CONSTANTS
  KeySets <- MCKeySets
  WireMax = 2
  Polls = 2
INVARIANTS
  TypeOK
  MaskHolds
  ModifiersFollow
  LedsTell
  RebootMeant
PROPERTIES
  HandlerReturns
CHECK_DEADLOCK FALSE
