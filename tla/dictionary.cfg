SPECIFICATION FairSpec
CONSTANTS
  Files <- MCFiles
  Property = {"a", "b", "c"}
  CAN_SFF_MASK = 7
  SUPPORT_PROPERTY_LIMIT = 2
  BITS_OF_BYTE = 4
  BYTE_OF_FRAME = 2
  M8 = 8
  M16 = 16
  M32 = 16
INVARIANTS TypeOK TreeIsRight SlotIsKnown NothingIsLost FirstDefinitionWins StarIsEverything SentHasTimer Usable
PROPERTIES LoadEnds LoadsWhatIsMeant
