SPECIFICATION Spec
CONSTANTS
  c1 = c1
  c2 = c2
  Client <- Clients
  Property = {"beam", "horn"}
  CanId = {3, 4}
  CanIdOf <- MCCanIdOf
  Readonly = {3, 4}
  Chain <- MCChain
  Unthinned = {}
  Listed = {"beam"}
  SUPPORT_PROPERTY_LIMIT = 1
  SUPPORT_CANID_MAX = 1
  CAN_SFF_MASK = 7
  Settable = {}
  SetValue = {0, 2}
  AfbSubscribeFails = FALSE
  AfbPushFails = FALSE
  M8 = 4
  M16 = 8
  M32 = 8
SYMMETRY Symmetry
INVARIANTS FilterCoversEvents
