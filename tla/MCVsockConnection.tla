------------------------- MODULE MCVsockConnection -------------------------
(* VsockConnection for TLC.                                                   *)
EXTENDS VsockConnection
=============================================================================
