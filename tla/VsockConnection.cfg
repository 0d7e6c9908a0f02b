CONSTANTS
  Modulus = 3
  CONN_TX_BUF_SIZE = 2
  CONN_CREDIT_UPDATE_THRESHOLD = 1
  GuestAllocs = {1}
  MaxPkt = 2
  RxQueueSize = 1
  TxQueueSize = 1
SPECIFICATION FairSpec
CHECK_DEADLOCK FALSE
INVARIANTS TxBufFits GuestBufFits
PROPERTIES NoStarvation 
