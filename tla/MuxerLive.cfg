CONSTANTS
  PeerKeys <- TwoPeers
  GuestOps = {"REQUEST", "RST", "RW", "BAD_TYPE", "SHUTDOWN"}
  NPorts = 1
  GuestPort = 9
  MAX_CONNECTIONS = 2
  MUXER_RXQ_SIZE = 1
  MUXER_KILLQ_SIZE = 1
  Timeout = 1
  MaxStreams = 0
  MaxPend = 2
SPECIFICATION FairSpec
PROPERTY Drains
