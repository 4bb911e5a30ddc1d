SPECIFICATION FairSpec
CONSTANTS
  MaxTurns = 2
  MaxFaults = 1
  Limit = 1
  Window = 2
  Roles = {"guest", "renter"}
  Offered = {"search", "book", "pay", "apply"}
  Texts <- MCTexts
INVARIANTS TypeOK SeesTheLatest RefsKept WriteIsAnswered DateIsGrounded PrototypesOnce
PROPERTIES EveryTurnEnds
CHECK_DEADLOCK FALSE
