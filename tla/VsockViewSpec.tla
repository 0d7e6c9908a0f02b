--------------------------- MODULE VsockViewSpec ---------------------------
(* The life of one connection in the muxer's view: the abstract               *)
(* specification that VsockConnection implements and VsockMuxer relies on.    *)
EXTENDS VsockView

CONSTANT Expired      \* the kill timer has run out

VARIABLES view, in_map

\* What stands for a connection that has been dropped.
Gone == [state |-> "Killed", pend |-> 0, expiry |-> NoExpiry]

\* After every mutation the muxer may have to kill the connection: its ack or its
\* epoll listener failed.
Mutated(d) == view' \in {d, kill(d)}

Remove == in_map' = FALSE /\ view' = Gone

ViewInit == in_map = TRUE /\ view \in {NewView("PeerInit"), NewView("LocalInit")}

ViewNext ==
  /\ in_map
  /\ \/ UNCHANGED in_map /\ \E op \in PacketOps : \E d \in send_pkt(view, op) : Mutated(d)
     \/ Remove
     \/ \E r \in recv_pkt(view) :
          /\ r.pkt # "RST"
          /\ Mutated(r.conn)
          /\ UNCHANGED in_map
     \/ UNCHANGED in_map /\ \E d \in notify(view) : Mutated(d)
     \/ /\ view.expiry = Fresh
        /\ view' = [view EXCEPT !.expiry = Expired]
        /\ UNCHANGED in_map
     \/ view.expiry = Expired /\ view' = kill(view) /\ UNCHANGED in_map

ViewSpec == ViewInit /\ [][ViewNext]_<<view, in_map>>
=============================================================================
