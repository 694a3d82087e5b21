SPECIFICATION Spec
CONSTANTS
  c1 = c1
  c2 = c2
  Nobody = Nobody
  Client <- Clients
  Property = {"left", "dial"}
  Field <- MCField
  Type <- MCType
  SetValue <- Fitting
  Foreign <- Others
  BITS_OF_BYTE = 2
  BYTE_OF_FRAME = 2
  M8 = 4
  M16 = 8
  M32 = 8
PROPERTIES ReceivedIsIgnored
