CONSTANTS
  PeerKeys <- OnePeer
  GuestOps = {"REQUEST", "RST", "RESPONSE"}
  NPorts = 2
  GuestPort = 9
  MAX_CONNECTIONS = 2
  MUXER_RXQ_SIZE = 1
  MUXER_KILLQ_SIZE = 1
  Timeout = 1
  MaxStreams = 1
  MaxPend = 1
SPECIFICATION Spec
INVARIANTS RxqSync 
