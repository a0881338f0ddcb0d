SPECIFICATION FairSpec
CONSTANTS
  HdrLen = 2
  MaxMsgLen = 8
  FragmentThreshold = 2
  DataCopyThreshold = 2
  Message <- Messages
  ConnCap = 4
  MaxMsgs = 3
INVARIANTS TypeOK NoStall StaysOpen
PROPERTIES Delivery FairDelivery
CHECK_DEADLOCK FALSE
