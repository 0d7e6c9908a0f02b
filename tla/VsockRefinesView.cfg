CONSTANTS
  Modulus = 3
  CONN_TX_BUF_SIZE = 1
  CONN_CREDIT_UPDATE_THRESHOLD = 1
  GuestAllocs = {1, 2}
  MaxPkt = 1
  RxQueueSize = 1
  TxQueueSize = 1
SPECIFICATION Spec
INVARIANT WindowInv
PROPERTY ImplementsView
CHECK_DEADLOCK FALSE
