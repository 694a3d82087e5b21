SPECIFICATION Spec
CONSTANTS
  c1 = c1
  c2 = c2
  Client <- Clients
  Property = {"gear", "beam"}
  CanId = {2, 3}
  CanIdOf <- MCCanIdOf
  Readonly = {2}
  Chain <- MCChain
  Unthinned = {}
  Listed = {"gear", "beam"}
  SUPPORT_PROPERTY_LIMIT = 4
  SUPPORT_CANID_MAX = 4
  CAN_SFF_MASK = 7
  Settable = {"beam"}
  SetValue = {0, 2}
  AfbSubscribeFails = TRUE
  AfbPushFails = TRUE
  M8 = 4
  M16 = 8
  M32 = 8
SYMMETRY Symmetry
INVARIANTS TypeOK WatchedIsRegistered FilterCoversEvents FeedInSync FeedInvariant
PROPERTIES IgnoredIsSame
