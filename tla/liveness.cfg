SPECIFICATION FairSpec
CONSTANTS
  c1 = c1
  c2 = c2
  Client = {c1}
  Property = {"beam", "horn"}
  CanId = {3, 4}
  CanIdOf <- MCCanIdOf
  Readonly = {3, 4}
  Chain <- MCChain
  Unthinned = {}
  Listed = {"beam", "horn"}
  SUPPORT_PROPERTY_LIMIT = 4
  SUPPORT_CANID_MAX = 4
  CAN_SFF_MASK = 7
  Settable = {}
  SetValue = {0, 2}
  AfbSubscribeFails = TRUE
  AfbPushFails = TRUE
  M8 = 2
  M16 = 2
  M32 = 2
PROPERTIES UnusedEventIsDropped SubscriberIsFed MissedPushIsMadeUp ServesFeeds
