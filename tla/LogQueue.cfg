CONSTANTS
  BLK_CNT = 8
  Sizes = {2, 3, 7, 8}
  MaxMsgs = 6
  Builds = {TRUE, FALSE}
SPECIFICATION FairSpec
CHECK_DEADLOCK FALSE
PROPERTIES FifoSpec AllocSucceeds AllHandled
