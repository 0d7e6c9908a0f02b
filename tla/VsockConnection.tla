-------------------------- MODULE VsockConnection --------------------------
(* One virtio-vsock connection of the Dragonball VMM: the connection state    *)
(* machine of vsock/csm/connection.rs, the length of its TX buffer            *)
(* (csm/txbuf.rs), the part of vsock/muxer/muxer_impl.rs that wraps every     *)
(* call to a connection, and the two virtqueues to the guest driver.          *)
(* The guest driver and the host socket are environment: the guest keeps to   *)
(* the flow control of the vsock protocol, the host socket may accept any     *)
(* part of a write, block, fail, or reach its end at any time.                *)
(* Payload bytes are abstracted to their number.                              *)
EXTENDS Integers, Sequences, FiniteSets

CONSTANTS Modulus,                      \* 2^32: the counters are Wrapping<u32>
          CONN_TX_BUF_SIZE,
          CONN_CREDIT_UPDATE_THRESHOLD,
          GuestAllocs,                  \* receive buffer sizes a guest announces
          MaxPkt,                       \* largest payload of one packet
          RxQueueSize, TxQueueSize      \* descriptors of the virtqueues

ASSUME ModulusAssumption == Modulus \in Nat
ASSUME TxBufAssumption == CONN_TX_BUF_SIZE \in 1 .. (Modulus - 1)
ASSUME ThresholdAssumption == CONN_CREDIT_UPDATE_THRESHOLD \in 1 .. CONN_TX_BUF_SIZE
ASSUME GuestAssumption == GuestAllocs \subseteq 1 .. (Modulus - 1)
ASSUME BoundsAssumption ==
  MaxPkt \in 1 .. (Modulus - 1) /\ RxQueueSize \in Nat \ {0} /\ TxQueueSize \in Nat \ {0}

VARIABLES conn,     \* the VsockConnection object
          in_map,   \* it is in the muxer's conn_map
          evset,    \* the events its epoll listener is registered for
          rst_due,  \* the muxer's RX queue holds an RST for this port pair
          toHost,   \* TX virtqueue: guest to host
          toGuest,  \* filled RX descriptors: host to guest
          guest     \* the guest's socket

vars == <<conn, in_map, evset, rst_due, toHost, toGuest, guest>>

----------------------------------------------------------------------------
\* Wrapping<u32> addition and subtraction, on values below the modulus.
Counter == 0 .. (Modulus - 1)
WAdd(a, b) == IF a + b < Modulus THEN a + b ELSE a + b - Modulus
WSub(a, b) == IF a >= b THEN a - b ELSE a - b + Modulus

Least(a, b) == IF a <= b THEN a ELSE b

ConnStates == {"LocalInit", "PeerInit", "Established", "LocalClosed",
               "PeerClosed", "Killed"}
PendingRx == {"Request", "Response", "Rst", "Rw", "CreditUpdate"}
Flags == {"rcv", "send"}
Ops == {"REQUEST", "RESPONSE", "RST", "SHUTDOWN", "RW", "CREDIT_UPDATE",
        "CREDIT_REQUEST"}

\* `off` holds the two booleans of PeerClosed(recv_off, send_off).
Connections ==
  [state: ConnStates, off: SUBSET Flags, tx_len: 0 .. CONN_TX_BUF_SIZE,
   fwd_cnt: Counter, peer_buf_alloc: Counter, peer_fwd_cnt: Counter,
   rx_cnt: Counter, last_fwd_cnt_to_peer: Counter,
   pending_rx: SUBSET PendingRx, expiry: {"None", "Armed", "Expired"}]

\* A guest packet. `seq` is not in the header: it is the number of payload
\* bytes the guest sent before this packet, kept to state the properties.
GuestPkts == [op: Ops, len: 0 .. MaxPkt, flags: SUBSET Flags,
              buf_alloc: Counter, fwd_cnt: Counter, seq: Counter]

\* A host packet; its buf_alloc is always CONN_TX_BUF_SIZE (init_pkt).
HostPkts == [op: Ops, len: 0 .. MaxPkt, flags: SUBSET Flags, fwd_cnt: Counter]

\* The guest's socket: bytes sent, the host's fwd_cnt as last heard, bytes
\* received and read, its buffer size and the directions it has shut down.
Guests == [state: {"Listen", "Connecting", "Open", "Closed"}, off: SUBSET Flags,
           tx_cnt: Counter, peer_fwd_cnt: Counter, rx_cnt: Counter,
           fwd_cnt: Counter, buf_alloc: Counter]

----------------------------------------------------------------------------
(* The connection (csm/connection.rs).                                       *)

NewConnection(st, alloc, pend) ==
  [state |-> st, off |-> {}, tx_len |-> 0, fwd_cnt |-> 0,
   peer_buf_alloc |-> alloc, peer_fwd_cnt |-> 0, rx_cnt |-> 0,
   last_fwd_cnt_to_peer |-> 0, pending_rx |-> {pend}, expiry |-> "None"]

new_peer_init(alloc) == NewConnection("PeerInit", alloc, "Response")

new_local_init == NewConnection("LocalInit", 0, "Request")

\* Bug: the bytes still under way to the peer are forgotten.
peer_avail_credit_NoInFlight(c) == c.peer_buf_alloc

peer_avail_credit(c) ==
  WSub(c.peer_buf_alloc, WSub(c.rx_cnt, c.peer_fwd_cnt))

need_credit_update_from_peer(c) == peer_avail_credit(c) = 0

\* Bug: the operands of the subtraction are swapped.
peer_needs_credit_update_Swapped(c) ==
  WSub(c.last_fwd_cnt_to_peer, c.fwd_cnt) > CONN_TX_BUF_SIZE

peer_needs_credit_update(c) ==
  WSub(CONN_TX_BUF_SIZE, WSub(c.fwd_cnt, c.last_fwd_cnt_to_peer))
    < CONN_CREDIT_UPDATE_THRESHOLD

Indicate(c, it) == [c EXCEPT !.pending_rx = @ \cup {it}]

\* Bug: the killed connection has no RST to yield.
kill_NoRst(c) == [c EXCEPT !.state = "Killed", !.off = {}]

kill(c) == [Indicate(c, "Rst") EXCEPT !.state = "Killed", !.off = {}]

PeerSends(c) ==
  c.state = "Established" \/ (c.state = "PeerClosed" /\ "send" \notin c.off)

PeerReceives(c) ==
  c.state = "Established" \/ (c.state = "PeerClosed" /\ "rcv" \notin c.off)

get_polled_evset(c) ==
  (IF c.tx_len > 0 THEN {"EPOLLOUT"} ELSE {})
  \cup
  (IF \/ c.state \in {"Killed", "LocalClosed"}
      \/ c.state = "PeerClosed" /\ "rcv" \in c.off
      \/ need_credit_update_from_peer(c)
   THEN {} ELSE {"EPOLLIN"})

IndicateCredit(c) ==
  IF peer_needs_credit_update(c) THEN Indicate(c, "CreditUpdate") ELSE c

\* TxBuf::push: all of the data or TxBufFull, which kills the connection.
push(c, n) ==
  IF c.tx_len + n > CONN_TX_BUF_SIZE THEN kill(c)
  ELSE IndicateCredit([c EXCEPT !.tx_len = @ + n])

\* Bug: the whole packet is counted as forwarded, not only what was written.
send_bytes_CountsAll(c, n) ==
  IF c.tx_len > 0 THEN {push(c, n)}
  ELSE {push([c EXCEPT !.fwd_cnt = WAdd(@, n)], n - w) : w \in 0 .. n}
       \cup {kill(c)}

\* The outcomes of a RW packet of n bytes: queued behind buffered data, written
\* in part (0: EWOULDBLOCK) with the rest queued, or a write error.
send_bytes(c, n) ==
  IF c.tx_len > 0 THEN {push(c, n)}
  ELSE {push([c EXCEPT !.fwd_cnt = WAdd(@, w)], n - w) : w \in 0 .. n}
       \cup {kill(c)}

\* The states send_pkt may leave the connection in.
send_pkt(c0, pkt) ==
  LET c == [c0 EXCEPT !.peer_buf_alloc = pkt.buf_alloc,
                      !.peer_fwd_cnt = pkt.fwd_cnt]
      closed == [c EXCEPT !.state = "PeerClosed", !.off = @ \cup pkt.flags]
  IN CASE PeerSends(c) /\ pkt.op = "RW" ->
            IF pkt.len = 0 THEN {c} ELSE send_bytes(c, pkt.len)
       [] c.state = "LocalInit" /\ pkt.op = "RESPONSE" ->
            {[c EXCEPT !.expiry = "None", !.state = "Established"]}
       [] c.state = "Established" /\ pkt.op = "SHUTDOWN" ->
            {IF closed.off # Flags THEN closed
             ELSE IF c.tx_len = 0 THEN Indicate(closed, "Rst")
             ELSE [closed EXCEPT !.expiry = "Armed"]}
       [] c.state = "PeerClosed" /\ pkt.op = "SHUTDOWN" ->
            {IF closed.off = Flags /\ c.tx_len = 0
             THEN Indicate(closed, "Rst") ELSE closed}
       [] /\ PeerSends(c) \/ c.state = "PeerInit"
          /\ pkt.op = "CREDIT_REQUEST" -> {Indicate(c, "CreditUpdate")}
       [] OTHER -> {c}

----------------------------------------------------------------------------
HostPkt(c, op, len, flags) ==
  [op |-> op, len |-> len, flags |-> flags, fwd_cnt |-> c.fwd_cnt]

Yield(c, op) == [conn |-> c, pkts |-> <<HostPkt(c, op, 0, {})>>]

\* recv_pkt on its last resort: a credit update, or VsockError::NoData.
YieldCredit(c) ==
  LET d == [c EXCEPT !.pending_rx = @ \ {"CreditUpdate"}]
  IN IF "CreditUpdate" \in c.pending_rx /\ d.pending_rx = {}
     THEN Yield([d EXCEPT !.last_fwd_cnt_to_peer = d.fwd_cnt], "CREDIT_UPDATE")
     ELSE [conn |-> d, pkts |-> <<>>]

\* The outcomes of reading the host stream: data, end of file, EWOULDBLOCK or
\* an error.
YieldData(c) ==
  LET told == [c EXCEPT !.last_fwd_cnt_to_peer = c.fwd_cnt]
      max_len == Least(MaxPkt, peer_avail_credit(c))
  IN {[conn |-> [told EXCEPT !.rx_cnt = WAdd(@, n)],
       pkts |-> <<HostPkt(c, "RW", n, {})>>] : n \in 1 .. max_len}
     \cup {[conn |-> [told EXCEPT !.state = "LocalClosed", !.off = {},
                                  !.expiry = "Armed"],
            pkts |-> <<HostPkt(c, "SHUTDOWN", 0, Flags)>>],
           Yield(told, "RST"),
           YieldCredit(c)}

\* The outcomes of recv_pkt: the connection after it and the packet, if any.
recv_pkt(c) ==
  LET Without(it) == [c EXCEPT !.pending_rx = @ \ {it}]
  IN CASE "Rst" \in c.pending_rx -> {Yield(Without("Rst"), "RST")}
       [] "Response" \in c.pending_rx /\ "Rst" \notin c.pending_rx ->
            {Yield([Without("Response") EXCEPT !.state = "Established", !.off = {}],
                   "RESPONSE")}
       [] /\ "Request" \in c.pending_rx
          /\ c.pending_rx \cap {"Rst", "Response"} = {} ->
            {Yield([Without("Request") EXCEPT !.expiry = "Armed"], "REQUEST")}
       [] /\ "Rw" \in c.pending_rx
          /\ c.pending_rx \cap {"Rst", "Response", "Request"} = {} ->
            LET d == Without("Rw")
            IN IF ~PeerReceives(d) THEN {Yield(d, "RST")}
               ELSE IF need_credit_update_from_peer(d)
               THEN {Yield([d EXCEPT !.last_fwd_cnt_to_peer = d.fwd_cnt],
                           "CREDIT_REQUEST")}
               ELSE YieldData(d)
       [] OTHER -> {YieldCredit(c)}

\* Bug: the RST that was waiting for the buffer to drain is not scheduled.
FlushOut_NoRst(c) ==
  {IndicateCredit([c EXCEPT !.tx_len = @ - n, !.fwd_cnt = WAdd(@, n)])
     : n \in 0 .. c.tx_len}
  \cup {IndicateCredit(kill(c))}

\* The outcomes of flushing the TX buffer on EPOLLOUT (0: EWOULDBLOCK).
FlushOut(c) ==
  LET After(d) == IF d.state = "PeerClosed" /\ d.off = Flags /\ d.tx_len = 0
                  THEN Indicate(d, "Rst") ELSE IndicateCredit(d)
  IN {After([c EXCEPT !.tx_len = @ - n, !.fwd_cnt = WAdd(@, n)])
        : n \in 0 .. c.tx_len}
     \cup {After(kill(c))}

notify(c, ev) ==
  LET d == IF "EPOLLIN" \in ev THEN Indicate(c, "Rw") ELSE c
  IN IF "EPOLLOUT" \in ev /\ c.tx_len > 0 THEN FlushOut(d) ELSE {d}

----------------------------------------------------------------------------
(* The muxer around the connection (muxer/muxer_impl.rs).                    *)

\* apply_conn_mutation after the mutation: the "OK port" line to a host client
\* whose connection was accepted, then the epoll listener. Writing the line
\* or updating the listener may fail, and each failure kills the connection;
\* a listener that cannot be added or modified stays as it was.
apply_conn_mutation(d) ==
  LET acked == IF conn.state = "LocalInit" /\ d.state = "Established"
               THEN {d, kill(d)} ELSE {d}
  IN \E e \in acked :
       \/ conn' = e /\ evset' = get_polled_evset(e)
       \/ /\ get_polled_evset(e) \notin {{}, evset}
          /\ conn' = kill(e) /\ evset' = evset

\* The connection object is dropped; a fixed value stands for it from then on.
Dropped == [NewConnection("Killed", 0, "Rst") EXCEPT !.pending_rx = {}]

remove_connection == in_map' = FALSE /\ evset' = {} /\ conn' = Dropped

\* muxer.send_pkt for one descriptor of the TX queue (process_tx).
MuxerSendPkt ==
  /\ toHost # <<>>
  /\ toHost' = Tail(toHost)
  /\ LET pkt == Head(toHost)
     IN \/ /\ ~in_map
           /\ rst_due' = TRUE
           /\ UNCHANGED <<conn, in_map, evset>>
        \/ /\ in_map
           /\ pkt.op = "RST"
           /\ remove_connection
           /\ UNCHANGED rst_due
        \/ /\ in_map
           /\ pkt.op # "RST"
           /\ \E d \in send_pkt(conn, pkt) : apply_conn_mutation(d)
           /\ UNCHANGED <<in_map, rst_due>>
  /\ UNCHANGED <<toGuest, guest>>

\* muxer.recv_pkt for one descriptor of the RX queue (process_rx): the packet of
\* the connection, which is removed once it has yielded an RST.
MuxerRecvPkt ==
  /\ in_map
  /\ conn.pending_rx # {}
  /\ Len(toGuest) < RxQueueSize
  /\ \E r \in recv_pkt(conn) :
       /\ toGuest' = toGuest \o r.pkts
       /\ IF r.pkts # <<>> /\ Head(r.pkts).op = "RST"
          THEN remove_connection
          ELSE apply_conn_mutation(r.conn) /\ UNCHANGED in_map
  /\ UNCHANGED <<rst_due, toHost, guest>>

\* muxer.recv_pkt for an RstPkt of the RX queue.
MuxerRecvRst ==
  /\ rst_due
  /\ Len(toGuest) < RxQueueSize
  /\ toGuest' = Append(toGuest, [op |-> "RST", len |-> 0, flags |-> {}, fwd_cnt |-> 0])
  /\ rst_due' = FALSE
  /\ UNCHANGED <<conn, in_map, evset, toHost, guest>>

\* An epoll event on the host stream, for registered events only.
HandleEvent(ev) ==
  /\ in_map
  /\ ev \subseteq evset /\ ev # {}
  /\ \E d \in notify(conn, ev) : apply_conn_mutation(d)
  /\ UNCHANGED <<in_map, rst_due, toHost, toGuest, guest>>

\* Time passes the connection's kill timer.
ExpiryPasses ==
  /\ in_map
  /\ conn.expiry = "Armed"
  /\ conn' = [conn EXCEPT !.expiry = "Expired"]
  /\ UNCHANGED <<in_map, evset, rst_due, toHost, toGuest, guest>>

\* sweep_killq, when another connection is added, finds this one expired. The
\* epoll listener is left as it is.
SweepKillq ==
  /\ in_map
  /\ conn.expiry = "Expired"
  /\ conn.state # "Killed"
  /\ conn' = kill(conn)
  /\ UNCHANGED <<in_map, evset, rst_due, toHost, toGuest, guest>>

----------------------------------------------------------------------------
(* The guest driver (external).                                              *)

GuestPkt(g, op, len, flags) ==
  [op |-> op, len |-> len, flags |-> flags, buf_alloc |-> g.buf_alloc,
   fwd_cnt |-> g.fwd_cnt, seq |-> g.tx_cnt]

GuestPost(g, op, len, flags) ==
  /\ Len(toHost) < TxQueueSize
  /\ toHost' = Append(toHost, GuestPkt(g, op, len, flags))

GuestCredit == WSub(CONN_TX_BUF_SIZE, WSub(guest.tx_cnt, guest.peer_fwd_cnt))

Heard(pkt) == [guest EXCEPT !.peer_fwd_cnt = pkt.fwd_cnt]

NewGuest(st, alloc) ==
  [state |-> st, off |-> {}, tx_cnt |-> 0, peer_fwd_cnt |-> 0, rx_cnt |-> 0,
   fwd_cnt |-> 0, buf_alloc |-> alloc]

GuestClosed == NewGuest("Closed", guest.buf_alloc)

\* The guest takes the next packet off its RX queue.
GuestRecv ==
  /\ toGuest # <<>>
  /\ toGuest' = Tail(toGuest)
  /\ LET pkt == Head(toGuest)
         g == Heard(pkt)
     IN \/ /\ guest.state = "Closed"
           /\ UNCHANGED <<guest, toHost>>
        \/ /\ guest.state # "Closed" /\ pkt.op = "RST"
           /\ guest' = GuestClosed
           /\ UNCHANGED toHost
        \/ /\ guest.state = "Listen" /\ pkt.op = "REQUEST"
           /\ \/ guest' = [g EXCEPT !.state = "Open"] /\ GuestPost(g, "RESPONSE", 0, {})
              \/ guest' = GuestClosed /\ GuestPost(g, "RST", 0, {})
        \/ /\ guest.state = "Connecting" /\ pkt.op = "RESPONSE"
           /\ guest' = [g EXCEPT !.state = "Open"]
           /\ UNCHANGED toHost
        \/ /\ guest.state = "Open" /\ pkt.op = "RW"
           /\ guest' = [g EXCEPT !.rx_cnt = WAdd(@, pkt.len)]
           /\ UNCHANGED toHost
        \/ /\ guest.state = "Open" /\ pkt.op = "CREDIT_UPDATE"
           /\ guest' = g
           /\ UNCHANGED toHost
        \/ /\ guest.state = "Open" /\ pkt.op = "CREDIT_REQUEST"
           /\ guest' = g
           /\ GuestPost(g, "CREDIT_UPDATE", 0, {})
        \/ /\ guest.state = "Open" /\ pkt.op = "SHUTDOWN"
           /\ guest' = [g EXCEPT !.off = Flags]
           /\ UNCHANGED toHost
  /\ UNCHANGED <<conn, in_map, evset, rst_due>>

\* The guest sends n bytes, at most its credit.
GuestSend(n) ==
  /\ guest.state = "Open" /\ "send" \notin guest.off
  /\ n <= GuestCredit
  /\ GuestPost(guest, "RW", n, {})
  /\ guest' = [guest EXCEPT !.tx_cnt = WAdd(@, n)]
  /\ UNCHANGED <<conn, in_map, evset, rst_due, toGuest>>

\* The guest's application reads n bytes; the driver may announce it.
GuestRead(n) ==
  /\ guest.state = "Open"
  /\ n <= WSub(guest.rx_cnt, guest.fwd_cnt)
  /\ guest' = [guest EXCEPT !.fwd_cnt = WAdd(@, n)]
  /\ UNCHANGED toHost \/ GuestPost(guest', "CREDIT_UPDATE", 0, {})
  /\ UNCHANGED <<conn, in_map, evset, rst_due, toGuest>>

\* The guest resizes its receive buffer and announces it.
GuestResize(a) ==
  /\ guest.state = "Open"
  /\ a # guest.buf_alloc
  /\ guest' = [guest EXCEPT !.buf_alloc = a]
  /\ GuestPost(guest', "CREDIT_UPDATE", 0, {})
  /\ UNCHANGED <<conn, in_map, evset, rst_due, toGuest>>

\* The guest, out of credit, asks for an update.
GuestAskCredit ==
  /\ guest.state = "Open" /\ GuestCredit = 0
  /\ GuestPost(guest, "CREDIT_REQUEST", 0, {})
  /\ UNCHANGED <<conn, in_map, evset, rst_due, toGuest, guest>>

\* The guest shuts one or both directions down.
GuestShutdown(flags) ==
  /\ guest.state = "Open"
  /\ ~(flags \subseteq guest.off)
  /\ guest' = [guest EXCEPT !.off = @ \cup flags]
  /\ GuestPost(guest, "SHUTDOWN", 0, flags)
  /\ UNCHANGED <<conn, in_map, evset, rst_due, toGuest>>

\* The guest resets the connection.
GuestReset ==
  /\ guest.state \in {"Open", "Connecting"}
  /\ guest' = GuestClosed
  /\ GuestPost(guest, "RST", 0, {})
  /\ UNCHANGED <<conn, in_map, evset, rst_due, toGuest>>

----------------------------------------------------------------------------
\* The connection has just been added (add_connection) for a guest's request or
\* for a host client.
Init ==
  /\ in_map = TRUE
  /\ rst_due = FALSE
  /\ toHost = <<>>
  /\ toGuest = <<>>
  /\ \E alloc \in GuestAllocs :
       \/ /\ conn = new_peer_init(alloc)
          /\ guest = NewGuest("Connecting", alloc)
       \/ /\ conn = new_local_init
          /\ guest = NewGuest("Listen", alloc)
  /\ evset = get_polled_evset(conn)

Host == \/ MuxerSendPkt
        \/ MuxerRecvPkt
        \/ MuxerRecvRst
        \/ \E ev \in SUBSET {"EPOLLIN", "EPOLLOUT"} : HandleEvent(ev)
        \/ ExpiryPasses
        \/ SweepKillq

Guest == \/ GuestRecv
         \/ \E n \in 1 .. MaxPkt : GuestSend(n)
         \/ \E n \in 1 .. MaxPkt : GuestRead(n)
         \/ \E a \in GuestAllocs : GuestResize(a)
         \/ GuestAskCredit
         \/ \E flags \in SUBSET Flags : GuestShutdown(flags)
         \/ GuestReset

Next == Host \/ Guest

Spec == Init /\ [][Next]_vars

\* The device thread serves both virtqueues, the guest's driver keeps taking
\* packets off its RX queue, and the host's peer keeps reading its socket. Nothing
\* else is promised of the guest, and no timer is needed.
Drain == HandleEvent({"EPOLLOUT"}) /\ conn'.tx_len < conn.tx_len

Fairness == /\ WF_vars(MuxerSendPkt)
            /\ WF_vars(MuxerRecvPkt)
            /\ WF_vars(MuxerRecvRst)
            /\ WF_vars(GuestRecv)
            /\ WF_vars(Drain)

FairSpec == Spec /\ Fairness

----------------------------------------------------------------------------
\* Every variable has its type, and the TX buffer holds at most its capacity.
TypeOK ==
  /\ conn \in Connections
  /\ in_map \in BOOLEAN
  /\ evset \subseteq {"EPOLLIN", "EPOLLOUT"}
  /\ rst_due \in BOOLEAN
  /\ toHost \in Seq(GuestPkts)
  /\ toGuest \in Seq(HostPkts)
  /\ guest \in Guests

\* "Vsock flow control ensures that our TX buffer doesn't overflow": the next
\* data packet of a guest that keeps to its credit always fits the TX buffer,
\* so that send_bytes never kills the connection with TxBufFull.
TxBufFits ==
  in_map /\ toHost # <<>> /\ Head(toHost).op = "RW" /\ PeerSends(conn)
    => conn.tx_len + Head(toHost).len <= CONN_TX_BUF_SIZE

\* The host never has more unread bytes under way to the guest than the guest's
\* receive buffer holds (peer_avail_credit, recv_pkt), across counter wraps.
GuestBufFits ==
  in_map /\ guest.state # "Closed"
    => WSub(conn.rx_cnt, guest.fwd_cnt) <= guest.buf_alloc

\* Nothing but an RST follows an RST, and no data follows a SHUTDOWN, in what the
\* guest is given to read (recv_pkt, remove_connection).
HostPktOrder ==
  \A i, j \in 1 .. Len(toGuest) : i < j =>
    /\ toGuest[i].op = "RST" => toGuest[j].op = "RST"
    /\ toGuest[i].op = "SHUTDOWN" => toGuest[j].op # "RW"
    /\ toGuest[j].op \notin {"REQUEST", "RESPONSE"}

----------------------------------------------------------------------------
\* How far a count of guest bytes is ahead of what reached the host socket.
Ahead(x) == WSub(x, conn.fwd_cnt)

IsData(pkt) == pkt.op = "RW"

\* The guest's view: it stays within its credit, the fwd_cnt it last heard is not
\* ahead of the host's, and the TX buffer holds only bytes the guest has sent.
GuestWindow ==
  guest.state # "Closed" =>
    /\ WSub(guest.tx_cnt, guest.peer_fwd_cnt) <= CONN_TX_BUF_SIZE
    /\ WSub(conn.fwd_cnt, guest.peer_fwd_cnt) <= WSub(guest.tx_cnt, guest.peer_fwd_cnt)
    /\ conn.tx_len <= Ahead(guest.tx_cnt)

\* The fwd_cnts under way to the guest lie, in order, between the one it last
\* heard and the host's own.
CreditWindow ==
  guest.state # "Closed" =>
    \A i \in 1 .. Len(toGuest) : toGuest[i].op # "RST" =>
      /\ WSub(toGuest[i].fwd_cnt, guest.peer_fwd_cnt)
           <= WSub(conn.fwd_cnt, guest.peer_fwd_cnt)
      /\ \A j \in (i + 1) .. Len(toGuest) : toGuest[j].op # "RST" =>
           WSub(toGuest[i].fwd_cnt, guest.peer_fwd_cnt)
             <= WSub(toGuest[j].fwd_cnt, guest.peer_fwd_cnt)

\* The data under way to the host starts behind what the TX buffer holds, ends
\* within one buffer of fwd_cnt, and does not overlap.
DataWindow ==
  \A i \in 1 .. Len(toHost) : IsData(toHost[i]) =>
    /\ conn.tx_len <= Ahead(toHost[i].seq)
    /\ Ahead(toHost[i].seq) + toHost[i].len <= CONN_TX_BUF_SIZE
    /\ guest.state # "Closed" =>
         Ahead(toHost[i].seq) + toHost[i].len <= Ahead(guest.tx_cnt)
    /\ \A j \in (i + 1) .. Len(toHost) : IsData(toHost[j]) =>
         Ahead(toHost[i].seq) + toHost[i].len <= Ahead(toHost[j].seq)

\* Every byte the guest has been allowed to send, wherever it is (TX virtqueue,
\* TX buffer), lies within one TX buffer of the bytes written to the host
\* socket: the inductive form of TxBufFits.
WindowInv == in_map => GuestWindow /\ CreditWindow /\ DataWindow

----------------------------------------------------------------------------
GuestMaySend == guest.state = "Open" /\ "send" \notin guest.off /\ in_map

\* A guest that has used up its credit gets more, or the connection ends: the
\* credit updates (peer_needs_credit_update, send_pkt, notify) are enough.
NoStarvation == GuestMaySend /\ GuestCredit = 0 ~> ~GuestMaySend \/ GuestCredit > 0

\* A connection the peer has closed in both directions is removed (send_pkt,
\* notify, recv_pkt, remove_connection).
ClosedIsRemoved ==
  in_map /\ conn.state = "PeerClosed" /\ conn.off = Flags ~> ~in_map
=============================================================================
