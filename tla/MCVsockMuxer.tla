---------------------------- MODULE MCVsockMuxer ----------------------------
EXTENDS VsockMuxer

\* Two guest ports connecting to the same host service, which is below the ports
\* the muxer allocates.
TwoPeers == [local : {0}, peer : {1, 2}]
OnePeer == [local : {0}, peer : {1}]
=============================================================================
