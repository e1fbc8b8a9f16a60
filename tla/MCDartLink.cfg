SPECIFICATION FairSpec
CONSTANTS
  a = a
  b = b
  StationA = a
  StationB = b
  NoMsg = NoMsg
  Msg <- Messages
  DART_BYTE_TIMER_VAL = 1
  DART_CLOSING_TIMER_VAL = 1
  DART_CHILL_TIMER_VAL = 2
  DART_ACK_TIMER_VAL = 3
  DART_WAKEUP_TIMER_VAL = 4
  DART_RESPONSE_TIMER_VAL = 5
  DART_WAKEUP_ATTEMPTS = 2
  DART_TX_ATTEMPTS = 2
  MaxFaults = 2
INVARIANT TypeOK
INVARIANT OneOwner
INVARIANT DoneMeansReceived
INVARIANT InOrder
INVARIANT CleanLine
INVARIANT NobodySleepsThrough
PROPERTY Reported
PROPERTY Closes
