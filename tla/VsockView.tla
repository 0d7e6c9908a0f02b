----------------------------- MODULE VsockView -----------------------------
(* A vsock connection as the muxer sees it: its state, how much it has to      *)
(* yield, and its kill timer. The counters, the TX buffer and the packets of   *)
(* csm/connection.rs are abstracted to the set of outcomes they allow;         *)
(* VsockConnection implements this view (VsockViewSpec).                       *)
EXTENDS Naturals

CONSTANTS NoExpiry,   \* the kill timer is not set
          Fresh,      \* the kill timer has just been set
          MaxPend     \* pending_rx holds at most this many items besides an RST

\* A view has the state of the connection, with "PeerShut" for PeerClosed(true, _): the
\* peer does not receive any more.

\* pending_rx: the number of its items, or HasRst when an RST is among them.
HasRst == MaxPend + 1

PacketOps == {"RW", "RESPONSE", "SHUTDOWN", "CREDIT_REQUEST", "CREDIT_UPDATE"}

NewView(st) == [state |-> st, pend |-> 1, expiry |-> NoExpiry]

has_pending_rx(c) == c.pend > 0

\* Inserts items, which may be there already.
Indicate(c) == {[c EXCEPT !.pend = p] : p \in {c.pend} \cup c.pend .. MaxPend}

IndicateRst(c) == [c EXCEPT !.pend = HasRst]

kill(c) == [c EXCEPT !.state = "Killed", !.pend = HasRst]

\* What a packet of the guest may make of the connection.
send_pkt(c, op) ==
  LET shut == [c EXCEPT !.state = "PeerShut"]
      peerClosed == c.state \in {"PeerClosed", "PeerShut"}
  IN CASE op = "RW" /\ (peerClosed \/ c.state = "Established") ->
            {kill(c)} \cup Indicate(c)
       [] op = "RESPONSE" /\ c.state = "LocalInit" ->
            {[c EXCEPT !.state = "Established", !.expiry = NoExpiry]}
       [] op = "SHUTDOWN" /\ c.state = "Established" ->
            {[c EXCEPT !.state = "PeerClosed"], shut, IndicateRst(shut),
             [shut EXCEPT !.expiry = Fresh]}
       [] op = "SHUTDOWN" /\ peerClosed -> {c, shut, IndicateRst(shut)}
       [] /\ op = "CREDIT_REQUEST"
          /\ peerClosed \/ c.state \in {"Established", "PeerInit"} ->
            Indicate(c)
       [] OTHER -> {c}

\* What recv_pkt may yield: the connection after it and the kind of packet, or
\* "none" for VsockError::NoData.
Yields(cs, pkt) == {[conn |-> c, pkt |-> pkt] : c \in cs}

recv_pkt(c) ==
  LET Left(d) == {[d EXCEPT !.pend = p] : p \in {n \in 0 .. MaxPend : n < d.pend}}
      Empty(d) == {[d EXCEPT !.pend = 0]}
      Rst == Yields(Left(c), "RST")
      Credit == Yields(Empty(c), "other")
  IN CASE c.pend = HasRst -> Rst
       [] c.pend = 0 -> Yields({c}, "none")
       [] c.pend \in 1 .. MaxPend /\ c.state = "PeerInit" ->
            Yields(Left([c EXCEPT !.state = "Established"]), "other")
       [] c.pend \in 1 .. MaxPend /\ c.state = "LocalInit" ->
            IF c.expiry = NoExpiry
            THEN Yields(Left([c EXCEPT !.expiry = Fresh]), "other")
            ELSE Rst
       [] c.pend \in 1 .. MaxPend /\ c.state \in {"Established", "PeerClosed"} ->
            Yields(Left(c), "other")
            \cup Yields(Left([c EXCEPT !.state = "LocalClosed", !.expiry = Fresh]), "other")
            \cup Rst \cup Yields(Empty(c), "none")
       [] OTHER -> Rst \cup Credit

\* What an event on the host stream may do.
notify(c) ==
  {kill(c)} \cup Indicate(c)
  \cup (IF c.state = "PeerShut" THEN {IndicateRst(c)} ELSE {})
=============================================================================
