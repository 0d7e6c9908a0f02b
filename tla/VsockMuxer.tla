---------------------------- MODULE VsockMuxer ----------------------------
(* The vsock multiplexer (vsock/muxer): the pool of connections, the bounded   *)
(* RX queue and the bounded kill queue that may lose track of it, and the      *)
(* allocation of host ports. Connections are those of VsockView. The device    *)
(* thread runs one handler at a time; the loop of recv_pkt takes one step per  *)
(* queue item, during which no other handler runs.                             *)
EXTENDS Integers, FiniteSets, FiniteSetsExt, SequencesExt

CONSTANTS
  PeerKeys,            \* connections the guest may open: [local, peer] ports
  NPorts,              \* number of host ports to allocate (2^30 in the code)
  GuestPort,           \* the guest port host programs connect to
  MAX_CONNECTIONS, MUXER_RXQ_SIZE, MUXER_KILLQ_SIZE,
  Timeout,             \* ticks from setting a kill timer to its kill time
  MaxPend,             \* items a connection's pending_rx may hold besides an RST
  GuestOps,            \* the operations of the guest's packets
  MaxStreams           \* bound: host streams that have not sent their port yet

NoExpiry == -2

INSTANCE VsockView WITH NoExpiry <- NoExpiry, Fresh <- Timeout

HostKeys == [local : 1 .. NPorts, peer : {GuestPort}]
Keys == PeerKeys \cup HostKeys

ASSUME MuxerAssumption ==
  /\ {MAX_CONNECTIONS, MUXER_RXQ_SIZE, MUXER_KILLQ_SIZE, Timeout, NPorts} \subseteq Nat \ {0}
  /\ MUXER_RXQ_SIZE < MAX_CONNECTIONS
  /\ \A k \in PeerKeys : k.local \notin 1 .. NPorts

VARIABLES
  muxer,       \* conn_map, rxq, killq, local_port_set, local_port_last
  streams,     \* listeners LocalStream and PassFdStream, by kind
  recving      \* recv_pkt is in its loop

vars == <<muxer, streams, recving>>

\* Times are relative to now: a kill time t is in the future while t > 0 and
\* strictly past when t < 0.
will_expire(c) == c.expiry > 0
has_expired(c) == c.expiry \in {-1, 0}

ConnRx(k) == [kind |-> "ConnRx", key |-> k]
RstPkt(k) == [kind |-> "RstPkt", key |-> k]
-----------------------------------------------------------------------------
(* muxer_rxq.rs *)

\* Bug: the loss of sync by an eviction is not recorded.
rxq_push_KeepsSync(q, rx) ==
  IF q.synced /\ Len(q.q) < MUXER_RXQ_SIZE THEN [q EXCEPT !.q = Append(@, rx)]
  ELSE LET conns == {i \in DOMAIN q.q : q.q[i].kind = "ConnRx"}
       IN IF rx.kind = "ConnRx" THEN [q EXCEPT !.synced = FALSE]
          ELSE IF conns = {} THEN q
          ELSE [q EXCEPT !.q[Max(conns)] = rx]

\* When there is no room, an RST evicts the last connection; a connection is left
\* out. Either way the queue is no longer in sync.
rxq_push(q, rx) ==
  IF q.synced /\ Len(q.q) < MUXER_RXQ_SIZE THEN [q EXCEPT !.q = Append(@, rx)]
  ELSE LET conns == {i \in DOMAIN q.q : q.q[i].kind = "ConnRx"}
       IN IF rx.kind = "ConnRx" THEN [q EXCEPT !.synced = FALSE]
          ELSE IF conns = {} THEN q
          ELSE [q |-> [q.q EXCEPT ![Max(conns)] = rx], synced |-> FALSE]

\* The queues a walk of the map may build: a HashMap's order is arbitrary.
Walk(S, size) == UNION {SetToSeqs(T) : T \in kSubset(Min({size, Cardinality(S)}), S)}

rxq_from_conn_map(m) ==
  LET pending == {k \in DOMAIN m : has_pending_rx(m[k])}
  IN {[q |-> [i \in DOMAIN s |-> ConnRx(s[i])],
       synced |-> Cardinality(pending) <= MUXER_RXQ_SIZE] : s \in Walk(pending, MUXER_RXQ_SIZE)}
-----------------------------------------------------------------------------
(* muxer_killq.rs *)

killq_push(q, k, t) ==
  IF q.synced /\ Len(q.q) < MUXER_KILLQ_SIZE
  THEN [q EXCEPT !.q = Append(@, [key |-> k, kill_time |-> t])]
  ELSE [q EXCEPT !.synced = FALSE]

\* The walk takes the connections that will expire, in the order of their kill time.
killq_from_conn_map(m) ==
  LET expiring == {k \in DOMAIN m : will_expire(m[k])}
      Item(k) == [key |-> k, kill_time |-> m[k].expiry]
      Sorted(s) == \A i, j \in DOMAIN s : i < j => m[s[i]].expiry <= m[s[j]].expiry
  IN {[q |-> [i \in DOMAIN s |-> Item(s[i])],
       synced |-> Cardinality(expiring) <= MUXER_KILLQ_SIZE] :
        s \in {w \in Walk(expiring, MUXER_KILLQ_SIZE) : Sorted(w)}}
-----------------------------------------------------------------------------
(* The muxer's helpers: each takes the muxer and returns it, or the set of     *)
(* its possible values, after the call.                                        *)

enq_rst(mx, k) == [mx EXCEPT !.rxq = rxq_push(@, RstPkt(k))]

kill_connection(mx, k) ==
  LET c == mx.conn_map[k]
  IN [mx EXCEPT !.conn_map[k] = kill(c),
                !.rxq = IF has_pending_rx(c) THEN @ ELSE rxq_push(@, ConnRx(k))]

\* Every expired item is popped; its connection is killed if it has indeed
\* expired. An emptied queue that lost sync is built anew; nothing in it is due.
sweep_killq(mx) ==
  LET q    == mx.killq.q
      due  == Cardinality({i \in DOMAIN q : \A j \in 1 .. i : q[j].kill_time < 0})
      left == SubSeq(q, due + 1, Len(q))
      Sweep(m, item) == IF item.key \in DOMAIN m.conn_map /\ has_expired(m.conn_map[item.key])
                        THEN kill_connection(m, item.key) ELSE m
      swept == FoldLeft(Sweep, [mx EXCEPT !.killq.q = left], SubSeq(q, 1, due))
  IN IF left = <<>> /\ ~mx.killq.synced
     THEN {[swept EXCEPT !.killq = kq] : kq \in killq_from_conn_map(swept.conn_map)}
     ELSE {swept}

\* Fails when the pool is full, or when epoll refuses the listener.
add_connection(mx, k, c) ==
  UNION {{[mx |-> s, ok |-> FALSE]}
         \cup (IF Cardinality(DOMAIN s.conn_map) >= MAX_CONNECTIONS THEN {}
               ELSE {[ok |-> TRUE,
                      mx |-> [s EXCEPT !.conn_map = (k :> c) @@ @,
                                       !.rxq = rxq_push(@, ConnRx(k))]]}) :
         s \in sweep_killq(mx)}

\* The entries of both queues stay behind.
remove_connection(mx, k) ==
  [mx EXCEPT !.conn_map = Restrict(@, DOMAIN @ \ {k}), !.local_port_set = @ \ {k.local}]

\* The next free port after the last one; with none free the loop never ends.
allocate_local_port(mx) ==
  LET Port(d) == 1 + ((mx.local_port_last - 1 + d) % NPorts)
      free == {d \in 1 .. NPorts : Port(d) \notin mx.local_port_set}
      port == Port(Min(free))
  IN IF free = {} THEN {}
     ELSE {[port |-> port, mx |-> [mx EXCEPT !.local_port_last = port,
                                             !.local_port_set = @ \cup {port}]]}

\* Bug: a connection whose timer was set is not scheduled for its kill.
apply_conn_mutation_NoKillq(mx, k, d) ==
  LET c == mx.conn_map[k]
      rx == IF ~has_pending_rx(c) /\ has_pending_rx(d)
            THEN rxq_push(mx.rxq, ConnRx(k)) ELSE mx.rxq
      mutated == [mx EXCEPT !.conn_map[k] = d, !.rxq = rx]
  IN {mutated, kill_connection(mutated, k)}

\* The connection becomes d. It is queued if it now has something to yield, and
\* scheduled for its kill if its timer was set. A failed ack to the host program
\* or a failed epoll update kills it.
apply_conn_mutation(mx, k, d) ==
  LET c == mx.conn_map[k]
      rx == IF ~has_pending_rx(c) /\ has_pending_rx(d)
            THEN rxq_push(mx.rxq, ConnRx(k)) ELSE mx.rxq
      kq == IF ~will_expire(c) /\ will_expire(d)
            THEN killq_push(mx.killq, k, d.expiry) ELSE mx.killq
      mutated == [mx EXCEPT !.conn_map[k] = d, !.rxq = rx, !.killq = kq]
  IN {mutated, kill_connection(mutated, k)}
-----------------------------------------------------------------------------
(* The handlers *)

\* No host program listens on the port (as on every port the muxer allocates), or
\* the connection cannot be added: reset.
handle_peer_request_pkt(mx, k) ==
  {enq_rst(mx, k)}
  \cup {IF r.ok THEN r.mx ELSE enq_rst(r.mx, k) :
          r \in IF k \in PeerKeys THEN add_connection(mx, k, NewView("PeerInit")) ELSE {}}

\* A packet of the guest. "BAD_TYPE" is a packet that is not of a stream socket.
MuxerSendPkt(k, op) ==
  /\ ~recving
  /\ IF op = "BAD_TYPE" THEN muxer' = enq_rst(muxer, k)
     ELSE IF k \notin DOMAIN muxer.conn_map
     THEN IF op = "REQUEST" THEN muxer' \in handle_peer_request_pkt(muxer, k)
          ELSE muxer' = enq_rst(muxer, k)
     ELSE IF op = "RST" THEN muxer' = remove_connection(muxer, k)
     ELSE \E d \in send_pkt(muxer.conn_map[k], op) : muxer' \in apply_conn_mutation(muxer, k, d)
  /\ UNCHANGED <<streams, recving>>

Pop(mx) == [mx EXCEPT !.rxq.q = Tail(@)]

\* One round of recv_pkt's loop on the front item ConnRx(k): the item is popped
\* when the connection has nothing left, and a connection that yields an RST is
\* removed. NoData goes on to the next item.
YieldFrom(mx, k) ==
  IF k \notin DOMAIN mx.conn_map THEN {[mx |-> Pop(mx), recving |-> TRUE]}
  ELSE LET After(b, r) == IF has_pending_rx(r.conn) THEN b ELSE Pop(b)
       IN UNION {{[mx |-> IF r.pkt = "RST" THEN remove_connection(After(b, r), k) ELSE After(b, r),
                   recving |-> r.pkt = "none"] : b \in apply_conn_mutation(mx, k, r.conn)} :
                 r \in recv_pkt(mx.conn_map[k])}

\* Bug: the queue is not built anew.
Resync_Never(mx) == {mx}

\* On entry: a drained queue that lost sync is built anew.
Resync(mx) ==
  IF mx.rxq.q = <<>> /\ ~mx.rxq.synced
  THEN {[mx EXCEPT !.rxq = q] : q \in rxq_from_conn_map(mx.conn_map)}
  ELSE {mx}

MuxerRecvPkt ==
  /\ muxer.rxq.q # <<>> \/ ~muxer.rxq.synced \/ recving
  /\ \E mx \in IF recving THEN {muxer} ELSE Resync(muxer) :
       IF mx.rxq.q = <<>> THEN muxer' = mx /\ recving' = FALSE
       ELSE LET rx == Head(mx.rxq.q)
            IN IF rx.kind = "RstPkt" THEN muxer' = Pop(mx) /\ recving' = FALSE
               ELSE \E y \in YieldFrom(mx, rx.key) : muxer' = y.mx /\ recving' = y.recving
  /\ UNCHANGED streams

\* An event on the stream of a connection.
NotifyConnection(k) ==
  /\ ~recving /\ k \in DOMAIN muxer.conn_map
  /\ \E d \in notify(muxer.conn_map[k]) : muxer' \in apply_conn_mutation(muxer, k, d)
  /\ UNCHANGED <<streams, recving>>

\* A host program connects. The limit is compared with the length of the RX queue.
Accept ==
  /\ ~recving /\ streams.local + streams.passfd < MaxStreams
  /\ Len(muxer.rxq.q) # MAX_CONNECTIONS
  /\ streams' = [streams EXCEPT !.local = @ + 1]
  /\ UNCHANGED <<muxer, recving>>

\* The port is allocated before the connection is added, and stays allocated when
\* that fails.
AddHostConnection ==
  \E p \in allocate_local_port(muxer) :
    \E r \in add_connection(p.mx, [local |-> p.port, peer |-> GuestPort], NewView("LocalInit")) :
      muxer' = r.mx

\* What reading a stream may tell: a port to connect to, that a stream is about to be
\* passed, or an error.
read_local_stream_port == {"Connect", "PassFd", "Err"}
passfd_read_port_and_fd == {"Ok", "Err"}

\* A host program sends its connect command; after an error the stream is dropped.
LocalStreamReady ==
  /\ ~recving /\ streams.local > 0
  /\ \E r \in read_local_stream_port :
       /\ streams' = [local |-> streams.local - 1,
                      passfd |-> streams.passfd + IF r = "PassFd" THEN 1 ELSE 0]
       /\ IF r = "Connect" THEN AddHostConnection ELSE UNCHANGED muxer
  /\ UNCHANGED recving

\* A host program passes its stream; set_nonblocking may fail after the allocation.
PassFdStreamReady ==
  /\ ~recving /\ streams.passfd > 0
  /\ streams' = [streams EXCEPT !.passfd = @ - 1]
  /\ \E r \in passfd_read_port_and_fd :
       IF r = "Ok"
       THEN AddHostConnection \/ \E p \in allocate_local_port(muxer) : muxer' = p.mx
       ELSE UNCHANGED muxer
  /\ UNCHANGED recving

Tick ==
  LET Older(t) == IF t \in {NoExpiry, -1} THEN t ELSE t - 1
  IN /\ ~recving
     /\ muxer' = [muxer EXCEPT
          !.conn_map = [k \in DOMAIN @ |-> [@[k] EXCEPT !.expiry = Older(@)]],
          !.killq.q = [i \in DOMAIN @ |-> [@[i] EXCEPT !.kill_time = Older(@)]]]
     /\ UNCHANGED <<streams, recving>>

Init ==
  /\ muxer = [conn_map |-> <<>>,
              rxq |-> [q |-> <<>>, synced |-> TRUE], killq |-> [q |-> <<>>, synced |-> TRUE],
              local_port_set |-> {}, local_port_last |-> NPorts]
  /\ streams = [local |-> 0, passfd |-> 0]
  /\ recving = FALSE

Next ==
  \/ \E k \in Keys, op \in GuestOps : MuxerSendPkt(k, op)
  \/ MuxerRecvPkt
  \/ \E k \in Keys : NotifyConnection(k)
  \/ Accept
  \/ LocalStreamReady
  \/ PassFdStreamReady
  \/ Tick

Spec == Init /\ [][Next]_vars

\* The guest keeps giving RX buffers back, so that the device keeps calling recv_pkt.
FairSpec == Spec /\ WF_vars(MuxerRecvPkt)
-----------------------------------------------------------------------------
(* Properties *)

\* While the RX queue says it is in sync, every connection with something to yield
\* is in it, through evictions by RSTs, entries left behind by removed connections
\* and ports used again: no pending data is forgotten.
RxqSync ==
  muxer.rxq.synced =>
    \A k \in DOMAIN muxer.conn_map :
      has_pending_rx(muxer.conn_map[k]) =>
        \E i \in DOMAIN muxer.rxq.q : muxer.rxq.q[i] = ConnRx(k)

\* While the kill queue says it is in sync, every connection whose kill timer is
\* running has an item with that very kill time, even if its key is also in the
\* queue from an earlier timer that was cancelled.
KillqSync ==
  muxer.killq.synced =>
    \A k \in DOMAIN muxer.conn_map :
      will_expire(muxer.conn_map[k]) =>
        \E i \in DOMAIN muxer.killq.q :
          muxer.killq.q[i] = [key |-> k, kill_time |-> muxer.conn_map[k].expiry]

\* When guest and host programs fall silent, everything the connections have to yield
\* is yielded, including what RSTs evicted from the RX queue or a full queue refused.
Drains ==
  \/ []<><<~MuxerRecvPkt>>_vars
  \/ <>[](\A k \in DOMAIN muxer.conn_map : ~has_pending_rx(muxer.conn_map[k]))
=============================================================================
