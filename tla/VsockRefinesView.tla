-------------------------- MODULE VsockRefinesView --------------------------
(* The connection of csm/connection.rs implements the muxer's view of it.     *)
EXTENDS VsockConnection

\* Besides an RST, pending_rx may hold Request or Response, Rw and CreditUpdate.
MaxPend == 3

\* pending_rx is a set of flags; the number of those that are set, but for an RST.
Count(p) ==
  LET Bit(x) == IF x \in p THEN 1 ELSE 0
  IN Bit("Request") + Bit("Response") + Bit("Rw") + Bit("CreditUpdate")

ViewOf(c) ==
  [state  |-> IF c.state = "PeerClosed" /\ "rcv" \in c.off THEN "PeerShut" ELSE c.state,
   pend   |-> IF "Rst" \in c.pending_rx THEN MaxPend + 1 ELSE Count(c.pending_rx),
   expiry |-> c.expiry]

Abs == INSTANCE VsockViewSpec
         WITH NoExpiry <- "None", Fresh <- "Armed", Expired <- "Expired",
              view <- ViewOf(conn)

\* Every behaviour of a connection is one of the view: in particular a kill timer
\* is never set twice, a killed connection always has its RST to yield until it
\* is removed, and recv_pkt reports NoData only when nothing is left to yield.
ImplementsView == Abs!ViewSpec
=============================================================================
