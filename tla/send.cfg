SPECIFICATION FairSpec
CONSTANTS
  c1 = c1
  c2 = c2
  Nobody = Nobody
  Client <- Clients
  Property = {"right", "wide", "name"}
  Field <- MCField
  Type <- MCType
  SetValue <- Mixed
  Foreign <- Others
  BITS_OF_BYTE = 2
  BYTE_OF_FRAME = 2
  M8 = 4
  M16 = 8
  M32 = 8
INVARIANTS TypeOK NoSetIsLost SendInvariant CurrentIsInFrame CurrentIsGiven
PROPERTIES SentIsWhole LastSetIsSent SendsWhatIsGiven
