----------------------- MODULE VsockConnectionProofs -----------------------
(***************************************************************************)
(* Proofs about VsockConnection, for every buffer size, threshold, counter *)
(* width, packet size and queue length: its type invariant; that the TX    *)
(* buffer of a connection never overflows (TxBufFits); and the order of    *)
(* the packets a guest is given (HostPktOrder). A fact that one proof only *)
(* needs is a step of that proof.                                          *)
(***************************************************************************)
EXTENDS VsockConnection, TLAPS

\* The provers a step is given to, in turn, where it does not name one.
USE SMTT(10), ZenonT(20), SMTT(40)

USE ModulusAssumption, TxBufAssumption, ThresholdAssumption, GuestAssumption,
    BoundsAssumption

----------------------------------------------------------------------------
(* The facts about sequences the proofs need.                                *)

\* The entries of a queue.
LEMMA SeqEntries ==
  ASSUME NEW S, NEW q \in Seq(S)
  PROVE  Len(q) \in Nat /\ q \in [1 .. Len(q) -> S]
OBVIOUS

\* One entry of a queue.
LEMMA SeqEntry ==
  ASSUME NEW S, NEW q \in Seq(S), NEW k \in 1 .. Len(q)
  PROVE  q[k] \in S
OBVIOUS

\* The empty queue, and how another is told from it.
LEMMA SeqEmpty ==
  ASSUME NEW S
  PROVE  /\ <<>> \in Seq(S) /\ Len(<<>>) = 0
         /\ \A q \in Seq(S) : q # <<>> => Len(q) \in Nat \ {0}
OBVIOUS

\* A queue is extended by no entry or by one.
LEMMA SeqConcat ==
  ASSUME NEW S, NEW q \in Seq(S)
  PROVE  /\ q \o <<>> = q
         /\ \A e \in S : q \o <<e>> = Append(q, e)
OBVIOUS

\* The first entry is taken from a queue.
LEMMA SeqTake ==
  ASSUME NEW S, NEW q \in Seq(S), q # <<>>
  PROVE  /\ Head(q) \in S /\ Tail(q) \in Seq(S)
         /\ Len(Tail(q)) = Len(q) - 1
         /\ \A k \in 1 .. Len(Tail(q)) : Tail(q)[k] = q[k + 1]
OBVIOUS

\* An entry is added to a queue.
LEMMA SeqAdd ==
  ASSUME NEW S, NEW q \in Seq(S), NEW e \in S
  PROVE  /\ Append(q, e) \in Seq(S) /\ Append(q, e) # <<>>
         /\ Len(Append(q, e)) = Len(q) + 1 /\ Append(q, e)[Len(q) + 1] = e
         /\ \A k \in 1 .. Len(q) : Append(q, e)[k] = q[k]
OBVIOUS

----------------------------------------------------------------------------
(* Wrapping arithmetic.                                                       *)

\* Wrapping addition and subtraction stay within the counter's width.
LEMMA CounterClosed ==
  ASSUME NEW a \in Counter, NEW b \in Counter
  PROVE  WAdd(a, b) \in Counter /\ WSub(a, b) \in Counter /\ WSub(a, b) \in Nat
BY DEF Counter, WAdd, WSub

\* What is n beyond a counter is n closer once the counter advanced by n.
LEMMA AdvanceBase ==
  ASSUME NEW a \in Counter, NEW f \in Counter, NEW n \in 0 .. WSub(a, f)
  PROVE  WSub(a, WAdd(f, n)) = WSub(a, f) - n
BY DEF Counter, WAdd, WSub

\* Distances from a common origin subtract.
LEMMA Distance ==
  ASSUME NEW a \in Counter, NEW b \in Counter, NEW p \in Counter,
         WSub(b, p) <= WSub(a, p)
  PROVE  WSub(a, b) = WSub(a, p) - WSub(b, p)
BY DEF Counter, WSub

\* Advancing a counter moves it n further from its origin.
LEMMA AdvanceEnd ==
  ASSUME NEW a \in Counter, NEW p \in Counter, NEW n \in Nat,
         WSub(a, p) + n < Modulus
  PROVE  WAdd(a, n) \in Counter /\ WSub(WAdd(a, n), p) = WSub(a, p) + n
BY DEF Counter, WAdd, WSub

----------------------------------------------------------------------------
(* What the operations of a connection do to its TX accounting.              *)

\* kill, Indicate and IndicateCredit keep the type and touch no counter.
LEMMA KillType ==
  ASSUME NEW c \in Connections
  PROVE  /\ kill(c) \in Connections
         /\ kill(c).fwd_cnt = c.fwd_cnt /\ kill(c).tx_len = c.tx_len
BY Zenon DEF kill, Indicate, Connections, ConnStates, PendingRx

\* Something more to yield.
LEMMA IndicateType ==
  ASSUME NEW c \in Connections, NEW it \in PendingRx
  PROVE  /\ Indicate(c, it) \in Connections
         /\ Indicate(c, it).fwd_cnt = c.fwd_cnt /\ Indicate(c, it).tx_len = c.tx_len
         /\ Indicate(c, it).state = c.state /\ Indicate(c, it).off = c.off
BY DEF Indicate, Connections, PendingRx

\* A credit update to yield.
LEMMA IndicateCreditType ==
  ASSUME NEW c \in Connections
  PROVE  /\ IndicateCredit(c) \in Connections
         /\ IndicateCredit(c).fwd_cnt = c.fwd_cnt /\ IndicateCredit(c).tx_len = c.tx_len
BY IndicateType DEF IndicateCredit, PendingRx

\* Accounting(c, d, n): d is a connection that has taken n guest bytes more than c,
\* whether they are in the TX buffer or already written to the host socket.
Accounting(c, d, n) ==
  /\ d \in Connections
  /\ \/ d.fwd_cnt = c.fwd_cnt /\ d.tx_len = c.tx_len
     \/ \E w \in 0 .. (c.tx_len + n) :
          d.fwd_cnt = WAdd(c.fwd_cnt, w) /\ d.tx_len = c.tx_len + n - w

\* send_pkt takes the payload of a data packet the peer may send, if it fits, and
\* leaves the TX accounting alone otherwise.
LEMMA SendPktAccounting ==
  \A c \in Connections, pkt \in GuestPkts : \A d \in send_pkt(c, pkt) :
    (pkt.op = "RW" /\ PeerSends(c) => c.tx_len + pkt.len <= CONN_TX_BUF_SIZE)
      => Accounting(c, d, IF pkt.op = "RW" THEN pkt.len ELSE 0)
\* TxBuf::push of data that fits.
<1>PushType.
  ASSUME NEW c \in Connections, NEW n \in Nat,
         c.tx_len + n <= CONN_TX_BUF_SIZE
  PROVE  /\ push(c, n) \in Connections
         /\ push(c, n).fwd_cnt = c.fwd_cnt /\ push(c, n).tx_len = c.tx_len + n
  <2> USE <1>PushType
  <2> DEFINE d == [c EXCEPT !.tx_len = @ + n]
  <2>1. /\ d \in Connections /\ d.fwd_cnt = c.fwd_cnt /\ d.tx_len = c.tx_len + n
        /\ c.tx_len \in Int
    BY DEF Connections
  <2>2. push(c, n) = IndicateCredit(d)
    BY <2>1 DEF push
  <2> HIDE DEF d
  <2> QED BY <2>1, <2>2, IndicateCreditType

\* send_bytes takes the whole packet, unless the host socket fails.
<1>SendBytesAccounting.
  ASSUME NEW c \in Connections, NEW n \in Nat,
         c.tx_len + n <= CONN_TX_BUF_SIZE,
         NEW d \in send_bytes(c, n)
  PROVE  Accounting(c, d, n)
  <2> USE <1>SendBytesAccounting
  <2>0. c.tx_len \in 0 .. CONN_TX_BUF_SIZE /\ c.fwd_cnt \in Counter
    BY DEF Connections
  <2>1. CASE c.tx_len > 0
    <3>1. d = push(c, n)
      BY <2>1 DEF send_bytes
    <3>2. d.fwd_cnt = WAdd(c.fwd_cnt, 0) /\ d.tx_len = c.tx_len + n - 0
      BY <2>0, <3>1, <1>PushType DEF WAdd, Counter
    <3> QED BY <2>0, <3>1, <3>2, <1>PushType DEF Accounting
  <2>2. CASE c.tx_len = 0 /\ d = kill(c)
    BY <2>2, KillType DEF Accounting
  <2>3. CASE /\ c.tx_len = 0
             /\ \E w \in 0 .. n : d = push([c EXCEPT !.fwd_cnt = WAdd(@, w)], n - w)
    <3>1. PICK w \in 0 .. n : d = push([c EXCEPT !.fwd_cnt = WAdd(@, w)], n - w)
      BY <2>3
    <3> DEFINE e == [c EXCEPT !.fwd_cnt = WAdd(@, w)]
    <3>2. WAdd(c.fwd_cnt, w) \in Counter
      <4>1. w \in Counter
        BY <2>0 DEF Counter
      <4> QED BY <2>0, <4>1, CounterClosed, Zenon
    <3>3. e \in Connections /\ e.fwd_cnt = WAdd(c.fwd_cnt, w) /\ e.tx_len = 0
      BY <2>3, <3>2 DEF Connections
    <3>4. d = push(e, n - w)
      BY <3>1
    <3> HIDE DEF e
    <3>5. d \in Connections /\ d.fwd_cnt = WAdd(c.fwd_cnt, w) /\ d.tx_len = n - w
      <4>1. n - w \in Nat /\ e.tx_len + (n - w) <= CONN_TX_BUF_SIZE
        BY <2>3, <3>3
      <4> QED BY <3>3, <3>4, <4>1, <1>PushType
    <3> QED BY <2>0, <2>3, <3>5 DEF Accounting
  <2> QED BY <2>0, <2>1, <2>2, <2>3 DEF send_bytes

<1>Step.
  ASSUME NEW c \in Connections, NEW pkt \in GuestPkts,
         pkt.op = "RW" /\ PeerSends(c) => c.tx_len + pkt.len <= CONN_TX_BUF_SIZE,
         NEW d \in send_pkt(c, pkt)
  PROVE  Accounting(c, d, IF pkt.op = "RW" THEN pkt.len ELSE 0)
  <2> USE <1>Step
  <2> DEFINE b == [c EXCEPT !.peer_buf_alloc = pkt.buf_alloc,
                            !.peer_fwd_cnt = pkt.fwd_cnt]
             closed == [b EXCEPT !.state = "PeerClosed", !.off = @ \cup pkt.flags]
             Same(e) == /\ e \in Connections
                        /\ e.fwd_cnt = c.fwd_cnt /\ e.tx_len = c.tx_len
  <2>1. Same(b) /\ b.state = c.state /\ b.off = c.off
    BY Zenon DEF Connections, GuestPkts
  <2>2. Same(closed)
    BY Zenon DEF Connections, GuestPkts, ConnStates
  <2>3. ASSUME NEW e, Same(e), NEW it \in PendingRx PROVE Same(Indicate(e, it))
    BY <2>3, IndicateType
  <2>4. Same([closed EXCEPT !.expiry = "Armed"])
    BY <2>2, Zenon DEF Connections
  <2>5. Same([b EXCEPT !.expiry = "None", !.state = "Established"])
    BY <2>1, Zenon DEF Connections, ConnStates
  <2>6. PeerSends(b) = PeerSends(c)
    BY <2>1 DEF PeerSends
  <2>7. CASE PeerSends(b) /\ pkt.op = "RW" /\ pkt.len # 0
    <3>1. d \in send_bytes(b, pkt.len)
      BY <2>7 DEF send_pkt
    <3>2. b.tx_len + pkt.len <= CONN_TX_BUF_SIZE /\ pkt.len \in Nat
      BY <2>1, <2>6, <2>7 DEF GuestPkts
    <3> HIDE DEF b
    <3>3. Accounting(b, d, pkt.len)
      BY <2>1, <3>1, <3>2, <1>SendBytesAccounting
    <3> QED BY <2>1, <2>7, <3>3 DEF Accounting
  <2>8. CASE ~(PeerSends(b) /\ pkt.op = "RW" /\ pkt.len # 0)
    <3> DEFINE rst == Indicate(closed, "Rst")
               upd == Indicate(b, "CreditUpdate")
    <3>1. Same(rst) /\ Same(upd)
      BY <2>1, <2>2, <2>3, Zenon DEF PendingRx
    <3>2. d \in {b, closed, rst, upd, [closed EXCEPT !.expiry = "Armed"],
                 [b EXCEPT !.expiry = "None", !.state = "Established"]}
      BY <2>8 DEF send_pkt
    <3>3. Same(d)
      BY <2>1, <2>2, <2>4, <2>5, <3>1, <3>2, Zenon
    <3> QED BY <3>3 DEF Accounting
  <2> QED BY <2>7, <2>8
<1> QED BY <1>Step

\* What recv_pkt yields: the connection with the same TX accounting and at most
\* one packet, which carries the connection's fwd_cnt.
Yielded(c, r) ==
  /\ r.conn \in Connections
  /\ r.conn.fwd_cnt = c.fwd_cnt /\ r.conn.tx_len = c.tx_len
  /\ \/ r.pkts = <<>>
     \/ \E p \in HostPkts : r.pkts = <<p>> /\ p.fwd_cnt = c.fwd_cnt

\* recv_pkt yields at most one packet and keeps the TX accounting.
LEMMA RecvPktType ==
  \A c \in Connections : \A r \in recv_pkt(c) : Yielded(c, r)
\* Yielding a packet without data.
<1>YieldType.
  ASSUME NEW c \in Connections, NEW d \in Connections, NEW op \in Ops,
         d.fwd_cnt = c.fwd_cnt, d.tx_len = c.tx_len
  PROVE  Yielded(c, Yield(d, op))
  <2> USE <1>YieldType
  <2> DEFINE p == HostPkt(d, op, 0, {})
  <2>1. p \in HostPkts /\ p.fwd_cnt = c.fwd_cnt
    BY DEF HostPkt, HostPkts, Connections
  <2>2. Yield(d, op).conn = d /\ Yield(d, op).pkts = <<p>>
    BY DEF Yield
  <2> HIDE DEF p
  <2> QED BY <2>1, <2>2 DEF Yielded

\* Yielding a credit update, if one is still needed.
<1>YieldCreditType.
  ASSUME NEW c \in Connections
  PROVE  Yielded(c, YieldCredit(c))
  <2> USE <1>YieldCreditType
  <2> DEFINE d == [c EXCEPT !.pending_rx = @ \ {"CreditUpdate"}]
             e == [d EXCEPT !.last_fwd_cnt_to_peer = d.fwd_cnt]
             none == [conn |-> d, pkts |-> <<>>]
  <2>1. d \in Connections /\ d.fwd_cnt = c.fwd_cnt /\ d.tx_len = c.tx_len
    BY DEF Connections
  <2>2. e \in Connections /\ e.fwd_cnt = c.fwd_cnt /\ e.tx_len = c.tx_len
    BY Zenon DEF Connections
  <2>3. Yielded(c, none)
    BY <2>1, Zenon DEF Yielded
  <2>4. YieldCredit(c) \in {Yield(e, "CREDIT_UPDATE"), none}
    BY DEF YieldCredit
  <2>5. Yielded(c, Yield(e, "CREDIT_UPDATE"))
    BY <2>2, <1>YieldType, Zenon DEF Ops
  <2> QED BY <2>3, <2>4, <2>5, Zenon

\* Yielding data of the host stream.
<1>YieldDataType.
  ASSUME NEW c \in Connections, NEW r \in YieldData(c)
  PROVE  Yielded(c, r)
  <2> USE <1>YieldDataType
  <2> DEFINE told == [c EXCEPT !.last_fwd_cnt_to_peer = c.fwd_cnt]
             max_len == Least(MaxPkt, peer_avail_credit(c))
             data(n) == [conn |-> [told EXCEPT !.rx_cnt = WAdd(@, n)],
                         pkts |-> <<HostPkt(c, "RW", n, {})>>]
             eof == [conn |-> [told EXCEPT !.state = "LocalClosed", !.off = {},
                                           !.expiry = "Armed"],
                     pkts |-> <<HostPkt(c, "SHUTDOWN", 0, Flags)>>]
  <2>1. told \in Connections /\ told.fwd_cnt = c.fwd_cnt /\ told.tx_len = c.tx_len
    BY DEF Connections
  <2>2. ASSUME NEW n \in 1 .. max_len PROVE Yielded(c, data(n))
    <3>1. peer_avail_credit(c) \in Counter
      BY CounterClosed DEF peer_avail_credit, Connections
    <3>2. n \in Counter /\ n \in 0 .. MaxPkt
      BY <3>1 DEF Least, Counter
    <3>3. WAdd(told.rx_cnt, n) \in Counter
      BY <2>1, <3>2, CounterClosed DEF Connections
    <3>4. /\ data(n).conn \in Connections
          /\ data(n).conn.fwd_cnt = c.fwd_cnt /\ data(n).conn.tx_len = c.tx_len
      BY <2>1, <3>3, Zenon DEF Connections
    <3>5. HostPkt(c, "RW", n, {}) \in HostPkts /\ HostPkt(c, "RW", n, {}).fwd_cnt = c.fwd_cnt
      BY <3>2 DEF HostPkt, HostPkts, Connections, Ops
    <3> QED BY <3>4, <3>5 DEF Yielded
  <2>3. Yielded(c, eof)
    <3>1. /\ eof.conn \in Connections
          /\ eof.conn.fwd_cnt = c.fwd_cnt /\ eof.conn.tx_len = c.tx_len
      BY <2>1, Zenon DEF Connections, ConnStates
    <3>2. /\ HostPkt(c, "SHUTDOWN", 0, Flags) \in HostPkts
          /\ HostPkt(c, "SHUTDOWN", 0, Flags).fwd_cnt = c.fwd_cnt
      BY DEF HostPkt, HostPkts, Connections, Ops
    <3> QED BY <3>1, <3>2 DEF Yielded
  <2>4. Yielded(c, Yield(told, "RST"))
    BY <2>1, <1>YieldType, Zenon DEF Ops
  <2>5. \/ \E n \in 1 .. max_len : r = data(n)
        \/ r \in {eof, Yield(told, "RST"), YieldCredit(c)}
    BY Zenon DEF YieldData
  <2> HIDE DEF told, data, eof, max_len
  <2> QED BY <2>2, <2>3, <2>4, <2>5, <1>YieldCreditType

<1>Step.
  ASSUME NEW c \in Connections, NEW r \in recv_pkt(c)
  PROVE  Yielded(c, r)
  <2> USE <1>Step
  <2> DEFINE Without(it) == [c EXCEPT !.pending_rx = @ \ {it}]
             Same(e) == /\ e \in Connections
                        /\ e.fwd_cnt = c.fwd_cnt /\ e.tx_len = c.tx_len
             d == Without("Rw")
             resp == [Without("Response") EXCEPT !.state = "Established", !.off = {}]
             req == [Without("Request") EXCEPT !.expiry = "Armed"]
             ask == [d EXCEPT !.last_fwd_cnt_to_peer = d.fwd_cnt]
  <2>1. ASSUME NEW it PROVE Same(Without(it))
    BY DEF Connections
  <2>2. Same(resp) /\ Same(req) /\ Same(ask)
    BY Zenon DEF Connections, ConnStates
  <2>3. \/ r \in {Yield(Without("Rst"), "RST"), Yield(resp, "RESPONSE"),
                  Yield(req, "REQUEST"), Yield(d, "RST"), Yield(ask, "CREDIT_REQUEST")}
        \/ r \in YieldData(d)
        \/ r = YieldCredit(c)
    BY DEF recv_pkt
  <2>4. Same(Without("Rst")) /\ Same(d)
    BY <2>1, Zenon
  <2>5. {"RST", "RESPONSE", "REQUEST", "CREDIT_REQUEST"} \subseteq Ops
    BY DEF Ops
  <2>6. ASSUME NEW e, Same(e), Yielded(e, r) PROVE Yielded(c, r)
    BY <2>6 DEF Yielded
  <2> HIDE DEF Without, d, resp, req, ask
  <2>7. CASE r \in {Yield(Without("Rst"), "RST"), Yield(resp, "RESPONSE"),
                    Yield(req, "REQUEST"), Yield(d, "RST"), Yield(ask, "CREDIT_REQUEST")}
    BY <2>2, <2>4, <2>5, <2>7, <1>YieldType
  <2>8. CASE r \in YieldData(d)
    BY <2>4, <2>6, <2>8, <1>YieldDataType
  <2> QED BY <2>3, <2>7, <2>8, <1>YieldCreditType
<1> QED BY <1>Step

\* notify writes n buffered bytes to the host socket, or none if it fails.
LEMMA NotifyAccounting ==
  ASSUME NEW c \in Connections, NEW ev, NEW d \in notify(c, ev)
  PROVE  Accounting(c, d, 0)
<1> DEFINE b == IF "EPOLLIN" \in ev THEN Indicate(c, "Rw") ELSE c
           After(x) == IF x.state = "PeerClosed" /\ x.off = Flags /\ x.tx_len = 0
                       THEN Indicate(x, "Rst") ELSE IndicateCredit(x)
           flushed(n) == [b EXCEPT !.tx_len = @ - n, !.fwd_cnt = WAdd(@, n)]
<1>1. b \in Connections /\ b.fwd_cnt = c.fwd_cnt /\ b.tx_len = c.tx_len
  BY IndicateType DEF PendingRx
<1>2. \/ d = b
      \/ d = After(kill(b))
      \/ \E n \in 0 .. c.tx_len : d = After(flushed(n))
  BY <1>1, Zenon DEF notify, FlushOut
<1>3. ASSUME NEW x \in Connections
      PROVE  /\ After(x) \in Connections
             /\ After(x).fwd_cnt = x.fwd_cnt /\ After(x).tx_len = x.tx_len
  BY IndicateType, IndicateCreditType DEF PendingRx
<1>4. ASSUME NEW n \in 0 .. c.tx_len
      PROVE  /\ flushed(n) \in Connections
             /\ flushed(n).fwd_cnt = WAdd(c.fwd_cnt, n)
             /\ flushed(n).tx_len = c.tx_len + 0 - n
  <2> HIDE DEF b
  <2>1. c.tx_len \in 0 .. CONN_TX_BUF_SIZE /\ c.fwd_cnt \in Counter /\ n \in Counter
    BY DEF Connections, Counter
  <2>2. WAdd(c.fwd_cnt, n) \in Counter
    BY <2>1, CounterClosed, Zenon
  <2>3. c.tx_len - n \in 0 .. CONN_TX_BUF_SIZE /\ c.tx_len + 0 - n = c.tx_len - n
    BY <2>1
  <2>4. flushed(n) = [b EXCEPT !.tx_len = c.tx_len - n, !.fwd_cnt = WAdd(c.fwd_cnt, n)]
    BY <1>1
  <2> HIDE DEF flushed
  <2>5. /\ flushed(n) \in Connections
        /\ flushed(n).fwd_cnt = WAdd(c.fwd_cnt, n) /\ flushed(n).tx_len = c.tx_len - n
    BY <1>1, <2>2, <2>3, <2>4, ZenonT(40) DEF Connections
  <2> QED BY <2>3, <2>5
<1>5. c.tx_len \in Nat
  BY DEF Connections
<1> HIDE DEF b, After, flushed
<1>6. CASE d = After(kill(b))
  BY <1>1, <1>3, <1>6, KillType DEF Accounting
<1>7. CASE \E n \in 0 .. c.tx_len : d = After(flushed(n))
  <2>1. PICK n \in 0 .. c.tx_len : d = After(flushed(n))
    BY <1>7
  <2>2. /\ d \in Connections /\ d.fwd_cnt = WAdd(c.fwd_cnt, n)
        /\ d.tx_len = c.tx_len + 0 - n
    BY <1>3, <1>4, <2>1
  <2> QED BY <1>5, <2>2 DEF Accounting
<1> QED BY <1>1, <1>2, <1>6, <1>7 DEF Accounting

\* The events a connection is polled for.
LEMMA EvsetType ==
  ASSUME NEW c
  PROVE  get_polled_evset(c) \subseteq {"EPOLLIN", "EPOLLOUT"}
BY DEF get_polled_evset

\* A new connection.
LEMMA NewConnectionType ==
  ASSUME NEW st \in ConnStates, NEW a \in Counter, NEW it \in PendingRx
  PROVE  /\ NewConnection(st, a, it) \in Connections
         /\ NewConnection(st, a, it).fwd_cnt = 0
         /\ NewConnection(st, a, it).tx_len = 0
BY DEF NewConnection, Connections, Counter

\* The sizes of the guest's buffer.
LEMMA GuestAllocType ==
  ASSUME NEW a \in GuestAllocs
  PROVE  a \in Counter
BY DEF Counter

\* The guest at the start of a connection.
LEMMA NewGuestType ==
  ASSUME NEW st \in {"Listen", "Connecting", "Open", "Closed"}, NEW a \in Counter
  PROVE  NewGuest(st, a) \in Guests
BY DEF NewGuest, Guests, Counter

\* A packet of the guest.
LEMMA GuestPktType ==
  ASSUME NEW g \in Guests, NEW op \in Ops, NEW n \in 0 .. MaxPkt,
         NEW fl \in SUBSET Flags
  PROVE  GuestPkt(g, op, n, fl) \in GuestPkts
BY DEF GuestPkt, GuestPkts, Guests

----------------------------------------------------------------------------
(* The window.                                                               *)

\* The types of what the windows are made of.
LEMMA TypeFacts ==
  ASSUME TypeOK
  PROVE  /\ conn.fwd_cnt \in Counter
         /\ conn.tx_len \in 0 .. CONN_TX_BUF_SIZE
         /\ guest.tx_cnt \in Counter /\ guest.peer_fwd_cnt \in Counter
         /\ Len(toHost) \in Nat /\ Len(toGuest) \in Nat
         /\ \A i \in 1 .. Len(toHost) :
              /\ toHost[i] \in GuestPkts
              /\ toHost[i].seq \in Counter /\ toHost[i].len \in Nat
         /\ \A i \in 1 .. Len(toGuest) :
              toGuest[i] \in HostPkts /\ toGuest[i].fwd_cnt \in Counter
<1>1. /\ conn.fwd_cnt \in Counter
      /\ conn.tx_len \in 0 .. CONN_TX_BUF_SIZE
      /\ guest.tx_cnt \in Counter /\ guest.peer_fwd_cnt \in Counter
  BY DEF TypeOK, Connections, Guests
<1>2. toHost \in Seq(GuestPkts) /\ toGuest \in Seq(HostPkts)
  BY DEF TypeOK
<1>3. ASSUME NEW i \in 1 .. Len(toHost)
      PROVE  /\ toHost[i] \in GuestPkts
             /\ toHost[i].seq \in Counter /\ toHost[i].len \in Nat
  <2>1. toHost[i] \in GuestPkts
    BY <1>2, SeqEntry
  <2>2. toHost[i].seq \in Counter /\ toHost[i].len \in 0 .. MaxPkt
    BY <2>1 DEF GuestPkts
  <2> QED BY <2>1, <2>2
<1>4. ASSUME NEW i \in 1 .. Len(toGuest)
      PROVE  toGuest[i] \in HostPkts /\ toGuest[i].fwd_cnt \in Counter
  <2>1. toGuest[i] \in HostPkts
    BY <1>2, SeqEntry
  <2> QED BY <2>1 DEF HostPkts
<1> QED BY <1>1, <1>2, <1>3, <1>4, SeqEntries

\* The next data packet fits: it starts where the TX buffer ends, at the earliest,
\* and ends within one buffer of fwd_cnt.
LEMMA WindowFits == TypeOK /\ WindowInv => TxBufFits
<1> SUFFICES ASSUME TypeOK, WindowInv, in_map, toHost # <<>>,
                    Head(toHost).op = "RW", PeerSends(conn)
             PROVE  conn.tx_len + Head(toHost).len <= CONN_TX_BUF_SIZE
  BY DEF TxBufFits
<1>1. 1 \in 1 .. Len(toHost) /\ Head(toHost) = toHost[1]
  BY SeqEmpty DEF TypeOK
<1>2. /\ conn.tx_len <= Ahead(toHost[1].seq)
      /\ Ahead(toHost[1].seq) + toHost[1].len <= CONN_TX_BUF_SIZE
  BY <1>1 DEF WindowInv, DataWindow, IsData
<1>3. Ahead(toHost[1].seq) \in Counter
  BY <1>1, TypeFacts, CounterClosed DEF Ahead
<1>4. conn.tx_len \in Nat /\ toHost[1].len \in Nat
  BY <1>1, TypeFacts
<1> QED BY <1>1, <1>2, <1>3, <1>4 DEF Counter

\* The window of the packets under way to the host, as a fact about a queue q, a
\* count f of bytes written and a TX buffer of t bytes, the guest apart.
QueueWindow(q, f, t) ==
  \A i \in 1 .. Len(q) : IsData(q[i]) =>
    /\ t <= WSub(q[i].seq, f)
    /\ WSub(q[i].seq, f) + q[i].len <= CONN_TX_BUF_SIZE
    /\ \A j \in (i + 1) .. Len(q) : IsData(q[j]) =>
         WSub(q[i].seq, f) + q[i].len <= WSub(q[j].seq, f)

\* The part of the data window that concerns the guest's count of bytes.
QueueBelow(q, f, x) ==
  \A i \in 1 .. Len(q) : IsData(q[i]) => WSub(q[i].seq, f) + q[i].len <= WSub(x, f)

\* The credit window as a fact about a queue q of host packets, the host's count
\* f and the count p the guest last heard.
CreditQueue(q, f, p) ==
  \A i \in 1 .. Len(q) : q[i].op # "RST" =>
    /\ WSub(q[i].fwd_cnt, p) <= WSub(f, p)
    /\ \A j \in (i + 1) .. Len(q) : q[j].op # "RST" =>
         WSub(q[i].fwd_cnt, p) <= WSub(q[j].fwd_cnt, p)

\* The counters of a guest that is not closed: f is what the host wrote, t what
\* its TX buffer holds, x what the guest sent and p what it last heard.
GuestCounts(f, t, x, p) ==
  /\ WSub(x, p) <= CONN_TX_BUF_SIZE
  /\ WSub(f, p) <= WSub(x, p)
  /\ t <= WSub(x, f)

----------------------------------------------------------------------------
(* The invariant and what follows from it.                                   *)

\* The invariant the theorems rest on: the types and the window together. The TX
\* buffer has its type only because the next packet always fits it.
IInv == TypeOK /\ WindowInv

\* Every step keeps the types and the windows.
LEMMA IInvInductive == IInv /\ [Next]_vars => IInv'
\* Queueing what recv_pkt yielded.
<1>YieldedQueue.
  ASSUME NEW c, NEW r, Yielded(c, r), NEW q \in Seq(HostPkts)
  PROVE  \/ q \o r.pkts = q
         \/ \E p \in HostPkts : q \o r.pkts = Append(q, p) /\ p.fwd_cnt = c.fwd_cnt
  <2> USE <1>YieldedQueue
  <2>1. CASE r.pkts = <<>>
    BY <2>1, SeqConcat
  <2>2. ASSUME NEW p \in HostPkts, r.pkts = <<p>>, p.fwd_cnt = c.fwd_cnt
        PROVE  q \o r.pkts = Append(q, p)
    BY <2>2, SeqConcat
  <2> QED BY <2>1, <2>2 DEF Yielded

\* The muxer's bookkeeping after a mutation keeps the TX accounting.
<1>MutationType.
  ASSUME NEW d \in Connections, evset \subseteq {"EPOLLIN", "EPOLLOUT"},
         apply_conn_mutation(d)
  PROVE  /\ conn' \in Connections
         /\ conn'.fwd_cnt = d.fwd_cnt /\ conn'.tx_len = d.tx_len
         /\ evset' \subseteq {"EPOLLIN", "EPOLLOUT"}
  <2> USE <1>MutationType
  <2>1. PICK e \in {d, kill(d)} :
          \/ conn' = e /\ evset' = get_polled_evset(e)
          \/ conn' = kill(e) /\ evset' = evset
    BY DEF apply_conn_mutation
  <2>2. e \in Connections /\ e.fwd_cnt = d.fwd_cnt /\ e.tx_len = d.tx_len
    BY KillType
  <2> QED BY <2>1, <2>2, KillType, EvsetType, Zenon

\* A connection that is not in the map.
<1>DroppedType. Dropped \in Connections
  <2>1. NewConnection("Killed", 0, "Rst") \in Connections
    BY NewConnectionType DEF ConnStates, Counter, PendingRx
  <2> QED BY <2>1 DEF Dropped, Connections

\* What the guest's driver posts is a queue of packets.
<1>GuestPostType.
  ASSUME NEW q \in Seq(GuestPkts), NEW g \in Guests, NEW op \in Ops,
         NEW n \in 0 .. MaxPkt, NEW fl \in SUBSET Flags
  PROVE  Append(q, GuestPkt(g, op, n, fl)) \in Seq(GuestPkts)
  BY <1>GuestPostType, GuestPktType, SeqAdd

\* Host steps keep the types, given that the next data packet fits.
<1>HostType.
  ASSUME TypeOK, TxBufFits, Host
  PROVE  TypeOK'
  <2> USE <1>HostType
  <2> USE DEF TypeOK
  <2>1. CASE MuxerSendPkt
    <3> DEFINE pkt == Head(toHost)
    <3>1. toHost # <<>> /\ pkt \in GuestPkts /\ toHost' \in Seq(GuestPkts)
      BY <2>1 DEF MuxerSendPkt
    <3>2. UNCHANGED <<toGuest, guest>>
      BY <2>1 DEF MuxerSendPkt
    <3>3. CASE ~in_map
      BY <2>1, <3>1, <3>2, <3>3, Zenon DEF MuxerSendPkt
    <3>4. CASE in_map /\ pkt.op = "RST"
      BY <2>1, <3>1, <3>2, <3>4, <1>DroppedType, Zenon DEF MuxerSendPkt, remove_connection
    <3>5. CASE in_map /\ pkt.op # "RST"
      <4>1. PICK d \in send_pkt(conn, pkt) : apply_conn_mutation(d)
        BY <2>1, <3>5, Zenon DEF MuxerSendPkt
      <4>2. pkt.op = "RW" /\ PeerSends(conn) => conn.tx_len + pkt.len <= CONN_TX_BUF_SIZE
        BY <3>1, <3>5 DEF TxBufFits
      <4> HIDE DEF pkt
      <4>3. d \in Connections
        BY <3>1, <4>2, SendPktAccounting DEF Accounting
      <4>4. conn' \in Connections /\ evset' \subseteq {"EPOLLIN", "EPOLLOUT"}
        BY <4>1, <4>3, <1>MutationType
      <4> QED BY <2>1, <3>1, <3>2, <3>5, <4>4, Zenon DEF MuxerSendPkt, pkt
    <3> QED BY <3>3, <3>4, <3>5
  <2>2. CASE MuxerRecvPkt
    <3>1. PICK r \in recv_pkt(conn) :
            /\ toGuest' = toGuest \o r.pkts
            /\ IF r.pkts # <<>> /\ Head(r.pkts).op = "RST"
               THEN remove_connection
               ELSE apply_conn_mutation(r.conn) /\ UNCHANGED in_map
      BY <2>2, Zenon DEF MuxerRecvPkt
    <3>2. Yielded(conn, r)
      BY RecvPktType
    <3>3. r.conn \in Connections
      BY <3>2 DEF Yielded
    <3>4. toGuest' \in Seq(HostPkts)
      <4>1. toGuest' = toGuest \o r.pkts
        BY <3>1
      <4>2. \/ toGuest' = toGuest
            \/ \E p \in HostPkts : toGuest' = Append(toGuest, p)
        BY <3>2, <4>1, <1>YieldedQueue
      <4> QED BY <4>2, SeqAdd
    <3>5. conn' \in Connections /\ evset' \subseteq {"EPOLLIN", "EPOLLOUT"} /\ in_map' \in BOOLEAN
      BY <3>1, <3>3, <1>MutationType, <1>DroppedType, Zenon DEF remove_connection
    <3> QED BY <2>2, <3>4, <3>5 DEF MuxerRecvPkt
  <2>3. CASE MuxerRecvRst
    <3>1. [op |-> "RST", len |-> 0, flags |-> {}, fwd_cnt |-> 0] \in HostPkts
      BY DEF HostPkts, Ops, Counter
    <3>2. toGuest' \in Seq(HostPkts)
      BY <2>3, <3>1, SeqAdd DEF MuxerRecvRst
    <3> QED BY <2>3, <3>2, Zenon DEF MuxerRecvRst
  <2>4. ASSUME NEW ev \in SUBSET {"EPOLLIN", "EPOLLOUT"}, HandleEvent(ev)
        PROVE  TypeOK'
    <3>1. PICK d \in notify(conn, ev) : apply_conn_mutation(d)
      BY <2>4 DEF HandleEvent
    <3>2. d \in Connections
      BY NotifyAccounting DEF Accounting
    <3> QED BY <2>4, <3>1, <3>2, <1>MutationType DEF HandleEvent
  <2>5. CASE ExpiryPasses
    BY <2>5 DEF ExpiryPasses, Connections
  <2>6. CASE SweepKillq
    BY <2>6, KillType DEF SweepKillq
  <2> QED BY <2>1, <2>2, <2>3, <2>4, <2>5, <2>6 DEF Host

\* The guest's steps keep the types.
<1>GuestType.
  ASSUME TypeOK, Guest
  PROVE  TypeOK'
  <2> USE <1>GuestType
  <2> USE DEF TypeOK
  <2>0. /\ GuestClosed \in Guests
        /\ \A f \in SUBSET Flags : [guest EXCEPT !.off = @ \cup f] \in Guests
        /\ \A a \in Counter : [guest EXCEPT !.buf_alloc = a] \in Guests
    <3>1. guest.buf_alloc \in Counter
      BY DEF Guests
    <3> QED BY <3>1, NewGuestType, Zenon DEF GuestClosed, Guests
  <2>a. ASSUME NEW g \in Guests, NEW op \in Ops, NEW f \in SUBSET Flags,
               GuestPost(g, op, 0, f)
        PROVE  toHost' \in Seq(GuestPkts)
    <3>1. 0 \in 0 .. MaxPkt
      OBVIOUS
    <3> QED BY <2>a, <3>1, <1>GuestPostType DEF GuestPost
  <2>b. {"RESPONSE", "RST", "CREDIT_UPDATE", "CREDIT_REQUEST", "SHUTDOWN", "RW"} \subseteq Ops
    BY DEF Ops
  <2>1. CASE GuestRecv
    <3> DEFINE pkt == Head(toGuest)
               g == Heard(pkt)
    <3>1. pkt \in HostPkts /\ toGuest' \in Seq(HostPkts)
      BY <2>1, SeqTake DEF GuestRecv
    <3>2. g \in Guests
      BY <3>1, Zenon DEF Heard, Guests, HostPkts
    <3>3. /\ [g EXCEPT !.state = "Open"] \in Guests
          /\ [g EXCEPT !.off = Flags] \in Guests
      BY <3>2 DEF Guests
    <3>4. [g EXCEPT !.rx_cnt = WAdd(@, pkt.len)] \in Guests
      <4> HIDE DEF pkt, g
      <4>1. pkt.len \in 0 .. MaxPkt /\ g.rx_cnt \in Counter
        BY <3>1, <3>2 DEF HostPkts, Guests
      <4>2. pkt.len \in Counter
        BY <4>1 DEF Counter
      <4>3. WAdd(g.rx_cnt, pkt.len) \in Counter
        BY <4>1, <4>2, CounterClosed
      <4> QED BY <3>2, <4>3 DEF Guests
    <3>5. /\ \/ guest' \in {guest, GuestClosed, g, [g EXCEPT !.state = "Open"],
                            [g EXCEPT !.off = Flags]}
             \/ guest' = [g EXCEPT !.rx_cnt = WAdd(@, pkt.len)]
          /\ \/ UNCHANGED toHost
             \/ GuestPost(g, "RESPONSE", 0, {})
             \/ GuestPost(g, "RST", 0, {})
             \/ GuestPost(g, "CREDIT_UPDATE", 0, {})
      BY <2>1 DEF GuestRecv
    <3> HIDE DEF pkt, g
    <3>6. guest' \in Guests
      BY <2>0, <3>2, <3>3, <3>4, <3>5, Zenon
    <3>7. toHost' \in Seq(GuestPkts)
      BY <2>a, <2>b, <3>2, <3>5
    <3> QED BY <2>1, <3>1, <3>6, <3>7 DEF GuestRecv
  <2>2. ASSUME NEW n \in 1 .. MaxPkt, GuestSend(n) PROVE TypeOK'
    <3>1. n \in Counter /\ guest.tx_cnt \in Counter
      BY DEF Counter, Guests
    <3>2. WAdd(guest.tx_cnt, n) \in Counter
      BY <3>1, CounterClosed, Zenon
    <3>3. guest' \in Guests
      BY <2>2, <3>2 DEF GuestSend, Guests
    <3>4. toHost' \in Seq(GuestPkts)
      BY <2>2, <2>b, <1>GuestPostType DEF GuestSend, GuestPost
    <3> QED BY <2>2, <3>3, <3>4 DEF GuestSend
  <2>3. ASSUME NEW n \in 1 .. MaxPkt, GuestRead(n) PROVE TypeOK'
    <3>1. n \in Counter /\ guest.fwd_cnt \in Counter
      BY DEF Counter, Guests
    <3>2. WAdd(guest.fwd_cnt, n) \in Counter
      BY <3>1, CounterClosed, Zenon
    <3>3. guest' \in Guests
      BY <2>3, <3>2 DEF GuestRead, Guests
    <3>4. toHost' \in Seq(GuestPkts)
      BY <2>3, <2>a, <2>b, <3>3 DEF GuestRead
    <3> QED BY <2>3, <3>3, <3>4 DEF GuestRead
  <2>4. ASSUME NEW a \in GuestAllocs, GuestResize(a) PROVE TypeOK'
    <3>1. guest' \in Guests
      BY <2>0, <2>4, GuestAllocType DEF GuestResize
    <3>2. toHost' \in Seq(GuestPkts)
      BY <2>4, <2>a, <2>b, <3>1 DEF GuestResize
    <3> QED BY <2>4, <3>1, <3>2 DEF GuestResize
  <2>5. CASE GuestAskCredit
    <3>1. toHost' \in Seq(GuestPkts)
      BY <2>5, <2>a, <2>b DEF GuestAskCredit
    <3> QED BY <2>5, <3>1 DEF GuestAskCredit
  <2>6. ASSUME NEW f \in SUBSET Flags, GuestShutdown(f) PROVE TypeOK'
    <3>1. guest' \in Guests
      BY <2>0, <2>6, Zenon DEF GuestShutdown
    <3>2. toHost' \in Seq(GuestPkts)
      BY <2>6, <2>a, <2>b DEF GuestShutdown
    <3> QED BY <2>6, <3>1, <3>2 DEF GuestShutdown
  <2>7. CASE GuestReset
    <3>1. toHost' \in Seq(GuestPkts)
      BY <2>7, <2>a, <2>b DEF GuestReset
    <3> QED BY <2>0, <2>7, <3>1 DEF GuestReset
  <2> QED BY <2>1, <2>2, <2>3, <2>4, <2>5, <2>6, <2>7 DEF Guest

\* The window of the data under way, by its parts.
<1>DataWindowParts.
  DataWindow <=> /\ QueueWindow(toHost, conn.fwd_cnt, conn.tx_len)
                 /\ guest.state # "Closed" =>
                      QueueBelow(toHost, conn.fwd_cnt, guest.tx_cnt)
  BY DEF DataWindow, QueueWindow, QueueBelow, Ahead

\* The window of the credit under way, as one of a queue.
<1>CreditWindowParts.
  CreditWindow <=> (guest.state # "Closed" =>
                      CreditQueue(toGuest, conn.fwd_cnt, guest.peer_fwd_cnt))
  BY DEF CreditWindow, CreditQueue

\* The window of the guest, as one of its counters.
<1>GuestWindowParts.
  GuestWindow <=> (guest.state # "Closed" =>
                     GuestCounts(conn.fwd_cnt, conn.tx_len,
                                 guest.tx_cnt, guest.peer_fwd_cnt))
  BY DEF GuestWindow, GuestCounts, Ahead

\* The window in the next state, from its parts.
<1>WindowNext.
  ASSUME QueueWindow(toHost', conn'.fwd_cnt, conn'.tx_len),
         guest'.state # "Closed" =>
           /\ GuestCounts(conn'.fwd_cnt, conn'.tx_len, guest'.tx_cnt, guest'.peer_fwd_cnt)
           /\ CreditQueue(toGuest', conn'.fwd_cnt, guest'.peer_fwd_cnt)
           /\ QueueBelow(toHost', conn'.fwd_cnt, guest'.tx_cnt)
  PROVE  WindowInv'
  <2> USE <1>WindowNext
  <2>1. GuestWindow'
    BY DEF GuestWindow, GuestCounts, Ahead
  <2>2. CreditWindow'
    BY DEF CreditWindow, CreditQueue
  <2>3. DataWindow'
    BY DEF DataWindow, QueueWindow, QueueBelow, Ahead
  <2> QED BY <2>1, <2>2, <2>3 DEF WindowInv

\* The steps of the host keep the windows.
<1>HostWindow. TypeOK /\ TypeOK' /\ WindowInv /\ Host => WindowInv'
\* Writing w bytes to the host socket, n bytes having joined the TX buffer.
  <2>QueueAdvance.
    ASSUME NEW q \in Seq(GuestPkts), NEW f \in Counter, NEW t \in Nat, NEW n \in Nat,
           NEW w \in 0 .. (t + n), QueueWindow(q, f, t + n)
    PROVE  QueueWindow(q, WAdd(f, w), t + n - w)
    <3> USE <2>QueueAdvance
    <3>1. ASSUME NEW i \in 1 .. Len(q)
          PROVE  q[i].seq \in Counter /\ q[i].len \in Nat
      <4>1. q[i] \in GuestPkts
        BY SeqEntry
      <4>2. q[i].seq \in Counter /\ q[i].len \in 0 .. MaxPkt
        BY <4>1 DEF GuestPkts
      <4> QED BY <4>2
    <3>2. ASSUME NEW i \in 1 .. Len(q), IsData(q[i])
          PROVE  /\ WSub(q[i].seq, f) \in Nat
                 /\ WSub(q[i].seq, WAdd(f, w)) = WSub(q[i].seq, f) - w
      <4>1. t + n <= WSub(q[i].seq, f)
        BY <3>2 DEF QueueWindow
      <4>2. WSub(q[i].seq, f) \in Nat
        BY <3>1, CounterClosed
      <4>3. w \in 0 .. WSub(q[i].seq, f)
        BY <4>1, <4>2
      <4> QED BY <3>1, <4>2, <4>3, AdvanceBase
    <3> SUFFICES ASSUME NEW i \in 1 .. Len(q), IsData(q[i])
                 PROVE  /\ t + n - w <= WSub(q[i].seq, WAdd(f, w))
                        /\ WSub(q[i].seq, WAdd(f, w)) + q[i].len <= CONN_TX_BUF_SIZE
                        /\ \A j \in (i + 1) .. Len(q) : IsData(q[j]) =>
                             WSub(q[i].seq, WAdd(f, w)) + q[i].len
                               <= WSub(q[j].seq, WAdd(f, w))
      BY DEF QueueWindow
    <3>3. /\ t + n <= WSub(q[i].seq, f)
          /\ WSub(q[i].seq, f) + q[i].len <= CONN_TX_BUF_SIZE
          /\ \A j \in (i + 1) .. Len(q) : IsData(q[j]) =>
               WSub(q[i].seq, f) + q[i].len <= WSub(q[j].seq, f)
      BY DEF QueueWindow
    <3>4. \A j \in (i + 1) .. Len(q) : j \in 1 .. Len(q)
      BY SeqEntries
    <3>5. ASSUME NEW j \in (i + 1) .. Len(q), IsData(q[j])
          PROVE  WSub(q[i].seq, WAdd(f, w)) + q[i].len <= WSub(q[j].seq, WAdd(f, w))
      <4>1. /\ WSub(q[j].seq, f) \in Nat
            /\ WSub(q[j].seq, WAdd(f, w)) = WSub(q[j].seq, f) - w
        BY <3>2, <3>4, <3>5
      <4>2. /\ WSub(q[i].seq, f) \in Nat /\ q[i].len \in Nat
            /\ WSub(q[i].seq, WAdd(f, w)) = WSub(q[i].seq, f) - w
        BY <3>1, <3>2
      <4>3. WSub(q[i].seq, f) + q[i].len <= WSub(q[j].seq, f)
        BY <3>3, <3>5
      <4> QED BY <4>1, <4>2, <4>3
    <3> QED BY <3>1, <3>2, <3>3, <3>5

  \* Taking the first packet off the queue, and its payload into the TX buffer.
  <2>QueueTake.
    ASSUME NEW q \in Seq(GuestPkts), q # <<>>, NEW f \in Counter, NEW t \in Nat,
           QueueWindow(q, f, t)
    PROVE  /\ QueueWindow(Tail(q), f, t)
           /\ IsData(Head(q)) => QueueWindow(Tail(q), f, t + Head(q).len)
    <3> USE <2>QueueTake
    <3>1. /\ Len(q) \in Nat /\ Len(q) >= 1
          /\ Head(q) = q[1]
          /\ Len(Tail(q)) = Len(q) - 1
          /\ \A i \in 1 .. Len(Tail(q)) : Tail(q)[i] = q[i + 1]
      BY SeqTake, SeqEmpty
    <3>2. QueueWindow(Tail(q), f, t)
      BY <3>1 DEF QueueWindow
    <3>3. ASSUME IsData(q[1]) PROVE QueueWindow(Tail(q), f, t + q[1].len)
      <4>1. ASSUME NEW i \in 2 .. Len(q), IsData(q[i])
            PROVE  t + q[1].len <= WSub(q[i].seq, f)
        <5>1. WSub(q[1].seq, f) + q[1].len <= WSub(q[i].seq, f) /\ t <= WSub(q[1].seq, f)
          BY <3>1, <3>3, <4>1 DEF QueueWindow
        <5>2. q[1] \in GuestPkts /\ q[i] \in GuestPkts
          BY <3>1, SeqEntry
        <5>3. /\ q[1].seq \in Counter /\ q[1].len \in 0 .. MaxPkt
              /\ q[i].seq \in Counter
          BY <5>2 DEF GuestPkts
        <5>4. WSub(q[1].seq, f) \in Counter /\ WSub(q[i].seq, f) \in Counter
          BY <5>3, CounterClosed
        <5>5. /\ WSub(q[1].seq, f) \in Int /\ WSub(q[i].seq, f) \in Int
              /\ q[1].len \in Int
          BY <5>3, <5>4 DEF Counter
        <5> QED BY <5>1, <5>5
      <4> QED BY <3>1, <3>2, <4>1 DEF QueueWindow
    <3> QED BY <3>1, <3>2, <3>3

  \* Writing w bytes to the host socket keeps the guest's counters in order.
  <2>CountsAdvance.
    ASSUME NEW f \in Counter, NEW t \in Nat, NEW x \in Counter, NEW p \in Counter,
           NEW w \in 0 .. t, GuestCounts(f, t, x, p)
    PROVE  /\ GuestCounts(WAdd(f, w), t - w, x, p)
           /\ WSub(x, WAdd(f, w)) = WSub(x, f) - w
           /\ WSub(f, p) <= WSub(WAdd(f, w), p)
    <3> USE <2>CountsAdvance
    <3>1. /\ WSub(x, p) <= CONN_TX_BUF_SIZE /\ WSub(f, p) <= WSub(x, p)
          /\ t <= WSub(x, f)
      BY DEF GuestCounts
    <3>2. WSub(x, p) \in Nat /\ WSub(f, p) \in Nat /\ WSub(x, f) \in Nat
      BY CounterClosed
    <3>3. WSub(x, f) = WSub(x, p) - WSub(f, p)
      BY <3>1, Distance
    <3>4. w \in 0 .. WSub(x, f)
      BY <3>1, <3>2
    <3>5. WSub(x, WAdd(f, w)) = WSub(x, f) - w
      BY <3>4, AdvanceBase
    <3>6. WSub(f, p) + w < Modulus /\ w \in Nat
      BY <3>1, <3>2, <3>3, <3>4
    <3>7. WSub(WAdd(f, w), p) = WSub(f, p) + w
      BY <3>6, AdvanceEnd
    <3> QED BY <3>1, <3>2, <3>3, <3>4, <3>5, <3>7 DEF GuestCounts

  \* A larger count of written bytes keeps the credit window.
  <2>CreditAdvance.
    ASSUME NEW q \in Seq(HostPkts), NEW f \in Counter, NEW g \in Counter,
           NEW p \in Counter, CreditQueue(q, f, p), WSub(f, p) <= WSub(g, p)
    PROVE  CreditQueue(q, g, p)
    <3> USE <2>CreditAdvance
    <3>1. WSub(f, p) \in Nat /\ WSub(g, p) \in Nat
      BY CounterClosed
    <3>2. ASSUME NEW i \in 1 .. Len(q) PROVE WSub(q[i].fwd_cnt, p) \in Nat
      <4>1. q[i] \in HostPkts
        BY SeqEntry
      <4>2. q[i].fwd_cnt \in Counter
        BY <4>1 DEF HostPkts
      <4> QED BY <4>2, CounterClosed
    <3> QED BY <3>1, <3>2 DEF CreditQueue

  \* The guest's count stays beyond the queue when its first packet is taken, and
  \* when w bytes are written.
  <2>BelowTake.
    ASSUME NEW q \in Seq(GuestPkts), q # <<>>, NEW f \in Counter, NEW t \in Nat,
           NEW x \in Counter, QueueWindow(q, f, t), QueueBelow(q, f, x)
    PROVE  /\ QueueBelow(Tail(q), f, x)
           /\ IsData(Head(q)) => t + Head(q).len <= WSub(x, f)
    <3> USE <2>BelowTake
    <3>1. /\ Len(q) \in Nat /\ Len(q) >= 1
          /\ Head(q) = q[1]
          /\ Len(Tail(q)) = Len(q) - 1
          /\ \A i \in 1 .. Len(Tail(q)) : Tail(q)[i] = q[i + 1]
      BY SeqTake, SeqEmpty
    <3>2. QueueBelow(Tail(q), f, x)
      BY <3>1 DEF QueueBelow
    <3>3. ASSUME IsData(q[1]) PROVE t + q[1].len <= WSub(x, f)
      <4>1. t <= WSub(q[1].seq, f) /\ WSub(q[1].seq, f) + q[1].len <= WSub(x, f)
        BY <3>1, <3>3 DEF QueueWindow, QueueBelow
      <4>2. q[1] \in GuestPkts
        BY <3>1, SeqEntry
      <4>3. q[1].seq \in Counter /\ q[1].len \in 0 .. MaxPkt
        BY <4>2 DEF GuestPkts
      <4>4. WSub(q[1].seq, f) \in Nat /\ WSub(x, f) \in Nat
        BY <4>3, CounterClosed
      <4> QED BY <4>1, <4>3, <4>4
    <3> QED BY <3>1, <3>2, <3>3

  \* Data under way stays below what the guest has sent when bytes are written.
  <2>BelowAdvance.
    ASSUME NEW q \in Seq(GuestPkts), NEW f \in Counter, NEW t \in Nat,
           NEW x \in Counter, NEW w \in 0 .. t, w <= WSub(x, f),
           QueueWindow(q, f, t), QueueBelow(q, f, x)
    PROVE  QueueBelow(q, WAdd(f, w), x)
    <3> USE <2>BelowAdvance
    <3> SUFFICES ASSUME NEW i \in 1 .. Len(q), IsData(q[i])
                 PROVE  WSub(q[i].seq, WAdd(f, w)) + q[i].len <= WSub(x, WAdd(f, w))
      BY DEF QueueBelow
    <3>1. q[i] \in GuestPkts
      BY SeqEntry
    <3>2. q[i].seq \in Counter /\ q[i].len \in 0 .. MaxPkt
      BY <3>1 DEF GuestPkts
    <3>3. WSub(q[i].seq, f) \in Nat /\ WSub(x, f) \in Nat
      BY <3>2, CounterClosed
    <3>4. t <= WSub(q[i].seq, f) /\ WSub(q[i].seq, f) + q[i].len <= WSub(x, f)
      BY DEF QueueWindow, QueueBelow
    <3>5. w \in 0 .. WSub(q[i].seq, f) /\ w \in 0 .. WSub(x, f)
      BY <3>3, <3>4
    <3>6. /\ WSub(q[i].seq, WAdd(f, w)) = WSub(q[i].seq, f) - w
          /\ WSub(x, WAdd(f, w)) = WSub(x, f) - w
      BY <3>2, <3>5, AdvanceBase
    <3> QED BY <3>2, <3>3, <3>4, <3>6

  \* A step of the host that takes n bytes off the queue to the host and writes w
  \* bytes to the socket.
  <2>TakeStep.
    ASSUME TypeOK, TypeOK', in_map, WindowInv,
           NEW n \in Nat, NEW w \in 0 .. (conn.tx_len + n),
           conn'.fwd_cnt = WAdd(conn.fwd_cnt, w), conn'.tx_len = conn.tx_len + n - w,
           UNCHANGED <<toGuest, guest>>,
           \/ n = 0 /\ UNCHANGED toHost
           \/ /\ toHost # <<>> /\ toHost' = Tail(toHost)
              /\ n = 0 \/ (IsData(Head(toHost)) /\ n = Head(toHost).len)
    PROVE  WindowInv'
    <3> USE <2>TakeStep
    <3> DEFINE f == conn.fwd_cnt
               t == conn.tx_len
               x == guest.tx_cnt
               p == guest.peer_fwd_cnt
    <3>1. /\ f \in Counter /\ t \in Nat /\ x \in Counter /\ p \in Counter
          /\ toHost \in Seq(GuestPkts) /\ toGuest \in Seq(HostPkts)
          /\ conn'.fwd_cnt \in Counter /\ conn'.tx_len \in Nat
      BY TypeFacts DEF TypeOK, Connections
    <3>2. QueueWindow(toHost, f, t)
      BY <1>DataWindowParts DEF WindowInv
    <3>3. QueueWindow(toHost', f, t + n)
      <4>1. t + 0 = t
        BY <3>1
      <4> QED BY <3>1, <3>2, <4>1, <2>QueueTake, Zenon
    <3>4. QueueWindow(toHost', conn'.fwd_cnt, conn'.tx_len)
      <4>1. toHost' \in Seq(GuestPkts)
        BY DEF TypeOK
      <4> HIDE DEF f, t
      <4>2. QueueWindow(toHost', WAdd(f, w), t + n - w)
        BY <3>1, <3>3, <4>1, <2>QueueAdvance, Zenon DEF t
      <4> QED BY <4>2 DEF f, t
    <3>5. ASSUME guest.state # "Closed"
          PROVE  /\ GuestCounts(conn'.fwd_cnt, conn'.tx_len, x, p)
                 /\ CreditQueue(toGuest, conn'.fwd_cnt, p)
                 /\ QueueBelow(toHost', conn'.fwd_cnt, x)
      <4>0. conn'.fwd_cnt = WAdd(f, w) /\ conn'.tx_len = t + n - w
        OBVIOUS
      <4>1. /\ GuestCounts(f, t, x, p) /\ CreditQueue(toGuest, f, p)
            /\ QueueBelow(toHost, f, x)
        BY <3>5, <1>GuestWindowParts, <1>CreditWindowParts, <1>DataWindowParts DEF WindowInv
      <4>2. QueueBelow(toHost', f, x)
        BY <3>1, <3>2, <4>1, <2>BelowTake, ZenonT(40)
      <4>3. t + n <= WSub(x, f)
        <5>1. t <= WSub(x, f) /\ t + 0 = t
          BY <3>1, <4>1 DEF GuestCounts
        <5> QED BY <3>1, <3>2, <4>1, <5>1, <2>BelowTake
      <4>4. GuestCounts(f, t + n, x, p)
        BY <4>1, <4>3 DEF GuestCounts
      <4>5. t + n \in Nat /\ w \in 0 .. (t + n) /\ w <= WSub(x, f)
        <5>1. WSub(x, f) \in Nat
          BY <3>1, CounterClosed
        <5> QED BY <3>1, <4>3, <5>1
      <4>6. toHost' \in Seq(GuestPkts)
        BY DEF TypeOK
      <4> DEFINE s == t + n
      <4> HIDE DEF f, t, x, p
      <4>7. /\ GuestCounts(WAdd(f, w), s - w, x, p)
            /\ WSub(f, p) <= WSub(WAdd(f, w), p)
        <5> HIDE DEF s
        <5> QED BY <3>1, <4>4, <4>5, <2>CountsAdvance DEF s
      <4>8. QueueBelow(toHost', WAdd(f, w), x)
        <5>1. s \in Nat /\ w \in 0 .. s /\ QueueWindow(toHost', f, s)
          BY <3>3, <4>5
        <5> HIDE DEF s
        <5> QED BY <3>1, <4>2, <4>5, <4>6, <5>1, <2>BelowAdvance
      <4>9. WAdd(f, w) \in Counter
        BY <3>1 DEF f
      <4>10. CreditQueue(toGuest, WAdd(f, w), p)
        BY <3>1, <4>1, <4>7, <4>9, <2>CreditAdvance
      <4> DEFINE fw == WAdd(f, w)
                 tw == s - w
      <4>11. /\ conn'.fwd_cnt = fw /\ conn'.tx_len = tw
             /\ GuestCounts(fw, tw, x, p) /\ QueueBelow(toHost', fw, x)
             /\ CreditQueue(toGuest, fw, p)
        BY <3>1, <4>0, <4>7, <4>8, <4>10
      <4> HIDE DEF fw, tw
      <4> QED BY <4>11
    <3> QED BY <3>4, <3>5, <1>WindowNext

  \* Queueing a host packet with the current count, or an RST.
  <2>CreditAppend.
    ASSUME NEW q \in Seq(HostPkts), NEW e \in HostPkts, NEW f \in Counter,
           NEW p \in Counter, e.op = "RST" \/ e.fwd_cnt = f, CreditQueue(q, f, p)
    PROVE  CreditQueue(Append(q, e), f, p)
    <3> USE <2>CreditAppend
    <3> DEFINE r == Append(q, e)
    <3>1. /\ Len(q) \in Nat /\ Len(r) = Len(q) + 1
          /\ \A i \in 1 .. Len(q) : r[i] = q[i]
          /\ r[Len(q) + 1] = e
      BY SeqAdd, SeqEntries
    <3> HIDE DEF r
    <3>2. WSub(f, p) \in Nat
      BY CounterClosed
    <3> SUFFICES ASSUME NEW i \in 1 .. Len(r), r[i].op # "RST"
                 PROVE  /\ WSub(r[i].fwd_cnt, p) <= WSub(f, p)
                        /\ \A j \in (i + 1) .. Len(r) : r[j].op # "RST" =>
                             WSub(r[i].fwd_cnt, p) <= WSub(r[j].fwd_cnt, p)
      BY DEF CreditQueue, r
    <3>3. CASE i = Len(q) + 1
      BY <3>1, <3>2, <3>3
    <3>4. CASE i \in 1 .. Len(q)
      <4>1. /\ r[i] = q[i] /\ WSub(q[i].fwd_cnt, p) <= WSub(f, p)
            /\ \A j \in (i + 1) .. Len(q) : q[j].op # "RST" =>
                 WSub(q[i].fwd_cnt, p) <= WSub(q[j].fwd_cnt, p)
        BY <3>1, <3>4 DEF CreditQueue
      <4>2. ASSUME NEW j \in (i + 1) .. Len(r), r[j].op # "RST"
            PROVE  WSub(q[i].fwd_cnt, p) <= WSub(r[j].fwd_cnt, p)
        <5>1. CASE j = Len(q) + 1
          BY <3>1, <4>1, <4>2, <5>1
        <5>2. CASE j # Len(q) + 1
          <6>1. j \in (i + 1) .. Len(q) /\ r[j] = q[j]
            BY <3>1, <3>4, <5>2
          <6> QED BY <4>1, <4>2, <6>1
        <5> QED BY <5>1, <5>2
      <4> QED BY <4>1, <4>2
    <3> QED BY <3>1, <3>3, <3>4

  \* A mutation that accounts for n bytes taken off the queue to the host.
  <2>AccountedStep.
    ASSUME TypeOK, TypeOK', in_map, WindowInv, NEW n \in Nat, NEW d,
           Accounting(conn, d, n), apply_conn_mutation(d),
           UNCHANGED <<toGuest, guest>>,
           \/ n = 0 /\ UNCHANGED toHost
           \/ /\ toHost # <<>> /\ toHost' = Tail(toHost)
              /\ n = 0 \/ (IsData(Head(toHost)) /\ n = Head(toHost).len)
    PROVE  WindowInv'
    <3> USE <2>AccountedStep
    <3>1. /\ conn'.fwd_cnt = d.fwd_cnt /\ conn'.tx_len = d.tx_len
      BY <1>MutationType DEF Accounting, TypeOK
    <3>2. conn.fwd_cnt \in Counter /\ conn.tx_len \in Nat
      BY TypeFacts
    <3>3. CASE d.fwd_cnt = conn.fwd_cnt /\ d.tx_len = conn.tx_len
      <4>1. /\ conn'.fwd_cnt = WAdd(conn.fwd_cnt, 0)
            /\ conn'.tx_len = conn.tx_len + 0 - 0
            /\ 0 \in 0 .. (conn.tx_len + 0) /\ 0 \in Nat
        BY <3>1, <3>2, <3>3 DEF WAdd, Counter
      <4>2. \/ UNCHANGED toHost
            \/ toHost # <<>> /\ toHost' = Tail(toHost)
        OBVIOUS
      <4> QED BY <4>1, <4>2, <2>TakeStep
    <3>4. CASE \E w \in 0 .. (conn.tx_len + n) :
                 d.fwd_cnt = WAdd(conn.fwd_cnt, w) /\ d.tx_len = conn.tx_len + n - w
      BY <3>1, <3>4, <2>TakeStep
    <3> QED BY <3>3, <3>4 DEF Accounting

  <2>Step.
    ASSUME TypeOK, TypeOK', WindowInv, Host
    PROVE  WindowInv'
    <3> USE <2>Step
    <3> SUFFICES ASSUME in_map' PROVE WindowInv'
      BY DEF WindowInv
    <3>0. in_map
      BY Zenon DEF Host, MuxerSendPkt, MuxerRecvPkt, MuxerRecvRst, HandleEvent, ExpiryPasses,
             SweepKillq, remove_connection
    <3>1. CASE MuxerSendPkt
      <4> DEFINE pkt == Head(toHost)
                 n == IF pkt.op = "RW" THEN pkt.len ELSE 0
      <4>1. PICK d \in send_pkt(conn, pkt) : apply_conn_mutation(d)
        BY <3>0, <3>1 DEF MuxerSendPkt, remove_connection
      <4>2. toHost # <<>> /\ toHost' = Tail(toHost) /\ UNCHANGED <<toGuest, guest>>
        BY <3>1 DEF MuxerSendPkt
      <4>3. pkt \in GuestPkts /\ conn \in Connections
        BY <4>2, SeqTake DEF TypeOK
      <4>4. pkt.op = "RW" /\ PeerSends(conn) => conn.tx_len + pkt.len <= CONN_TX_BUF_SIZE
        BY <3>0, <4>2, WindowFits DEF TxBufFits
      <4>5. n \in Nat /\ (n = 0 \/ (IsData(pkt) /\ n = pkt.len))
        BY <4>3 DEF GuestPkts, IsData
      <4> HIDE DEF pkt
      <4>6. Accounting(conn, d, n)
        BY <4>3, <4>4, SendPktAccounting
      <4> HIDE DEF n
      <4> QED BY <3>0, <4>1, <4>2, <4>5, <4>6, <2>AccountedStep DEF pkt
    <3>2. CASE MuxerRecvPkt
      <4>1. PICK r \in recv_pkt(conn) :
              /\ toGuest' = toGuest \o r.pkts
              /\ apply_conn_mutation(r.conn)
        BY <3>2 DEF MuxerRecvPkt, remove_connection
      <4>2. Yielded(conn, r)
        BY RecvPktType DEF TypeOK
      <4>3. /\ conn'.fwd_cnt = conn.fwd_cnt /\ conn'.tx_len = conn.tx_len
            /\ UNCHANGED <<toHost, guest>>
        BY <3>2, <4>1, <4>2, <1>MutationType DEF Yielded, TypeOK, MuxerRecvPkt
      <4>4. \/ toGuest' = toGuest
            \/ \E e \in HostPkts : toGuest' = Append(toGuest, e) /\ e.fwd_cnt = conn.fwd_cnt
        <5>1. toGuest \in Seq(HostPkts) /\ toGuest' = toGuest \o r.pkts
          BY <4>1 DEF TypeOK
        <5> QED BY <4>2, <5>1, <1>YieldedQueue
      <4>5. QueueWindow(toHost, conn.fwd_cnt, conn.tx_len)
        BY <3>0, <1>DataWindowParts DEF WindowInv
      <4>6. ASSUME guest.state # "Closed"
            PROVE  /\ GuestCounts(conn.fwd_cnt, conn.tx_len, guest.tx_cnt, guest.peer_fwd_cnt)
                   /\ CreditQueue(toGuest', conn.fwd_cnt, guest.peer_fwd_cnt)
                   /\ QueueBelow(toHost, conn.fwd_cnt, guest.tx_cnt)
        <5>1. /\ GuestCounts(conn.fwd_cnt, conn.tx_len, guest.tx_cnt, guest.peer_fwd_cnt)
              /\ CreditQueue(toGuest, conn.fwd_cnt, guest.peer_fwd_cnt)
              /\ QueueBelow(toHost, conn.fwd_cnt, guest.tx_cnt)
          BY <3>0, <4>6, <1>GuestWindowParts, <1>CreditWindowParts, <1>DataWindowParts DEF WindowInv
        <5>2. /\ conn.fwd_cnt \in Counter /\ guest.peer_fwd_cnt \in Counter
              /\ toGuest \in Seq(HostPkts)
          BY TypeFacts DEF TypeOK
        <5>3. CreditQueue(toGuest', conn.fwd_cnt, guest.peer_fwd_cnt)
          BY <4>4, <5>1, <5>2, <2>CreditAppend, Zenon
        <5> QED BY <5>1, <5>3
      <4> QED BY <4>3, <4>5, <4>6, <1>WindowNext
    <3>3. CASE MuxerRecvRst
      <4> DEFINE e == [op |-> "RST", len |-> 0, flags |-> {}, fwd_cnt |-> 0]
      <4>1. e \in HostPkts /\ e.op = "RST"
        BY DEF HostPkts, Ops, Counter
      <4>2. toGuest' = Append(toGuest, e) /\ UNCHANGED <<conn, toHost, guest>>
        BY <3>3 DEF MuxerRecvRst
      <4> HIDE DEF e
      <4>3. QueueWindow(toHost, conn.fwd_cnt, conn.tx_len)
        BY <3>0, <1>DataWindowParts DEF WindowInv
      <4>4. ASSUME guest.state # "Closed"
            PROVE  /\ GuestCounts(conn.fwd_cnt, conn.tx_len, guest.tx_cnt, guest.peer_fwd_cnt)
                   /\ CreditQueue(toGuest', conn.fwd_cnt, guest.peer_fwd_cnt)
                   /\ QueueBelow(toHost, conn.fwd_cnt, guest.tx_cnt)
        <5>1. /\ GuestCounts(conn.fwd_cnt, conn.tx_len, guest.tx_cnt, guest.peer_fwd_cnt)
              /\ CreditQueue(toGuest, conn.fwd_cnt, guest.peer_fwd_cnt)
              /\ QueueBelow(toHost, conn.fwd_cnt, guest.tx_cnt)
          BY <3>0, <4>4, <1>GuestWindowParts, <1>CreditWindowParts, <1>DataWindowParts DEF WindowInv
        <5>2. /\ conn.fwd_cnt \in Counter /\ guest.peer_fwd_cnt \in Counter
              /\ toGuest \in Seq(HostPkts)
          BY TypeFacts DEF TypeOK
        <5>3. CreditQueue(toGuest', conn.fwd_cnt, guest.peer_fwd_cnt)
          BY <4>1, <4>2, <5>1, <5>2, <2>CreditAppend
        <5> QED BY <5>1, <5>3
      <4> QED BY <4>2, <4>3, <4>4, <1>WindowNext
    <3>4. ASSUME NEW ev \in SUBSET {"EPOLLIN", "EPOLLOUT"}, HandleEvent(ev)
          PROVE  WindowInv'
      <4>1. PICK d \in notify(conn, ev) : apply_conn_mutation(d)
        BY <3>4 DEF HandleEvent
      <4>2. Accounting(conn, d, 0) /\ UNCHANGED <<toHost, toGuest, guest>>
        BY <3>4, NotifyAccounting DEF HandleEvent, TypeOK
      <4>3. 0 \in Nat
        OBVIOUS
      <4> QED BY <3>0, <4>1, <4>2, <4>3, <2>AccountedStep
    <3>5. CASE ExpiryPasses \/ SweepKillq
      <4>1. /\ conn'.fwd_cnt = conn.fwd_cnt /\ conn'.tx_len = conn.tx_len
            /\ UNCHANGED <<toHost, toGuest, guest>>
        BY <3>5, KillType, ZenonT(40) DEF ExpiryPasses, SweepKillq, TypeOK, Connections
      <4> QED BY <3>0, <4>1 DEF WindowInv, GuestWindow, CreditWindow, DataWindow, Ahead
    <3> QED BY <3>1, <3>2, <3>3, <3>4, <3>5 DEF Host
  <2> QED BY <2>Step

\* The steps of the guest keep the windows.
<1>GuestWindowStep. TypeOK /\ TypeOK' /\ WindowInv /\ Guest => WindowInv'
\* Posting a packet without data keeps the data window.
  <2>QueueAppendOther.
    ASSUME NEW q \in Seq(GuestPkts), NEW e \in GuestPkts, ~IsData(e),
           NEW f \in Counter, NEW t, NEW x
    PROVE  /\ QueueWindow(q, f, t) => QueueWindow(Append(q, e), f, t)
           /\ QueueBelow(q, f, x) => QueueBelow(Append(q, e), f, x)
    <3> USE <2>QueueAppendOther
    <3>1. /\ Len(q) \in Nat /\ Len(Append(q, e)) = Len(q) + 1
          /\ \A i \in 1 .. Len(q) : Append(q, e)[i] = q[i]
          /\ Append(q, e)[Len(q) + 1] = e
      BY SeqAdd, SeqEntries
    <3> DEFINE r == Append(q, e)
    <3>2. \A i \in 1 .. Len(r) : IsData(r[i]) => i \in 1 .. Len(q) /\ r[i] = q[i]
      BY <3>1
    <3>3. \A i \in 1 .. Len(r) : \A j \in (i + 1) .. Len(r) : j \in 1 .. Len(r)
      BY <3>1
    <3> HIDE DEF r
    <3>4. ASSUME QueueWindow(q, f, t) PROVE QueueWindow(r, f, t)
      <4> SUFFICES ASSUME NEW i \in 1 .. Len(r), IsData(r[i])
                   PROVE  /\ t <= WSub(r[i].seq, f)
                          /\ WSub(r[i].seq, f) + r[i].len <= CONN_TX_BUF_SIZE
                          /\ \A j \in (i + 1) .. Len(r) : IsData(r[j]) =>
                               WSub(r[i].seq, f) + r[i].len <= WSub(r[j].seq, f)
        BY DEF QueueWindow
      <4>1. i \in 1 .. Len(q) /\ r[i] = q[i]
        BY <3>2
      <4>2. /\ t <= WSub(q[i].seq, f)
            /\ WSub(q[i].seq, f) + q[i].len <= CONN_TX_BUF_SIZE
            /\ \A j \in (i + 1) .. Len(q) : IsData(q[j]) =>
                 WSub(q[i].seq, f) + q[i].len <= WSub(q[j].seq, f)
        BY <3>4, <4>1 DEF QueueWindow
      <4>3. ASSUME NEW j \in (i + 1) .. Len(r), IsData(r[j])
            PROVE  j \in (i + 1) .. Len(q) /\ r[j] = q[j]
        BY <3>2, <3>3, <4>3
      <4> QED BY <4>1, <4>2, <4>3
    <3>5. QueueBelow(q, f, x) => QueueBelow(r, f, x)
      BY <3>2 DEF QueueBelow
    <3> QED BY <3>4, <3>5 DEF r

  \* Posting data that starts where the guest's count is and fits the window.
  <2>QueueAppendData.
    ASSUME NEW q \in Seq(GuestPkts), NEW e \in GuestPkts, NEW f \in Counter,
           NEW t \in Nat, NEW x \in Counter, NEW y \in Counter, e.seq = x,
           QueueWindow(q, f, t), QueueBelow(q, f, x),
           t <= WSub(x, f), WSub(x, f) + e.len <= CONN_TX_BUF_SIZE,
           WSub(y, f) = WSub(x, f) + e.len
    PROVE  QueueWindow(Append(q, e), f, t) /\ QueueBelow(Append(q, e), f, y)
    <3> USE <2>QueueAppendData
    <3>1. /\ Len(q) \in Nat /\ Len(Append(q, e)) = Len(q) + 1
          /\ \A i \in 1 .. Len(q) : Append(q, e)[i] = q[i]
          /\ Append(q, e)[Len(q) + 1] = e
      BY SeqAdd, SeqEntries
    <3>2. ASSUME NEW i \in 1 .. Len(q)
          PROVE  q[i].seq \in Counter /\ q[i].len \in 0 .. MaxPkt /\ WSub(q[i].seq, f) \in Nat
      <4>1. q[i] \in GuestPkts
        BY SeqEntry
      <4>2. q[i].seq \in Counter /\ q[i].len \in 0 .. MaxPkt
        BY <4>1 DEF GuestPkts
      <4> QED BY <4>2, CounterClosed
    <3>3. e.len \in Nat /\ WSub(x, f) \in Nat
      BY CounterClosed DEF GuestPkts
    <3> DEFINE r == Append(q, e)
    <3>4. /\ Len(r) = Len(q) + 1 /\ r[Len(q) + 1] = e
          /\ \A i \in 1 .. Len(q) : r[i] = q[i]
      BY <3>1
    <3> HIDE DEF r
    <3>5. QueueBelow(r, f, y)
      <4> SUFFICES ASSUME NEW i \in 1 .. Len(r), IsData(r[i])
                   PROVE  WSub(r[i].seq, f) + r[i].len <= WSub(y, f)
        BY DEF QueueBelow
      <4>1. CASE i = Len(q) + 1
        BY <3>3, <3>4, <4>1
      <4>2. CASE i \in 1 .. Len(q)
        <5>1. WSub(q[i].seq, f) + q[i].len <= WSub(x, f) /\ r[i] = q[i]
          BY <3>4, <4>2 DEF QueueBelow
        <5> QED BY <3>2, <3>3, <4>2, <5>1
      <4> QED BY <3>1, <3>4, <4>1, <4>2
    <3>6. QueueWindow(r, f, t)
      <4> SUFFICES ASSUME NEW i \in 1 .. Len(r), IsData(r[i])
                   PROVE  /\ t <= WSub(r[i].seq, f)
                          /\ WSub(r[i].seq, f) + r[i].len <= CONN_TX_BUF_SIZE
                          /\ \A j \in (i + 1) .. Len(r) : IsData(r[j]) =>
                               WSub(r[i].seq, f) + r[i].len <= WSub(r[j].seq, f)
        BY DEF QueueWindow
      <4>1. CASE i = Len(q) + 1
        BY <3>1, <3>3, <3>4, <4>1
      <4>2. CASE i \in 1 .. Len(q)
        <5>1. /\ r[i] = q[i]
              /\ t <= WSub(q[i].seq, f)
              /\ WSub(q[i].seq, f) + q[i].len <= CONN_TX_BUF_SIZE
              /\ WSub(q[i].seq, f) + q[i].len <= WSub(x, f)
              /\ \A j \in (i + 1) .. Len(q) : IsData(q[j]) =>
                   WSub(q[i].seq, f) + q[i].len <= WSub(q[j].seq, f)
          BY <3>4, <4>2 DEF QueueWindow, QueueBelow
        <5>2. ASSUME NEW j \in (i + 1) .. Len(r), IsData(r[j])
              PROVE  WSub(q[i].seq, f) + q[i].len <= WSub(r[j].seq, f)
          <6>1. CASE j = Len(q) + 1
            BY <3>4, <5>1, <6>1
          <6>2. CASE j # Len(q) + 1
            <7>1. j \in (i + 1) .. Len(q) /\ j \in 1 .. Len(q)
              BY <3>1, <3>4, <4>2, <6>2
            <7> QED BY <3>4, <5>1, <5>2, <7>1
          <6> QED BY <6>1, <6>2
        <5> QED BY <5>1, <5>2
      <4> QED BY <3>1, <3>4, <4>1, <4>2
    <3> QED BY <3>5, <3>6 DEF r

  \* The guest hears the count of the first packet of its queue.
  <2>Hear.
    ASSUME NEW q \in Seq(HostPkts), q # <<>>, Head(q).op # "RST", NEW f \in Counter,
           NEW t, NEW x \in Counter, NEW p \in Counter,
           CreditQueue(q, f, p), GuestCounts(f, t, x, p)
    PROVE  /\ CreditQueue(Tail(q), f, Head(q).fwd_cnt)
           /\ GuestCounts(f, t, x, Head(q).fwd_cnt)
    <3> USE <2>Hear
    <3> DEFINE r == Tail(q)
               h == Head(q).fwd_cnt
    <3>1. /\ Len(q) \in Nat /\ Len(q) >= 1
          /\ Head(q) = q[1]
          /\ Len(r) = Len(q) - 1
          /\ \A i \in 1 .. Len(r) : r[i] = q[i + 1]
      BY SeqTake, SeqEmpty
    <3>2. ASSUME NEW i \in 1 .. Len(q) PROVE q[i].fwd_cnt \in Counter
      <4>1. q[i] \in HostPkts
        BY SeqEntry
      <4> QED BY <4>1 DEF HostPkts
    <3>3. h \in Counter /\ h = q[1].fwd_cnt
      BY <3>1, <3>2
    <3>4. WSub(h, p) <= WSub(f, p)
      BY <3>1 DEF CreditQueue
    <3>5. ASSUME NEW i \in 2 .. Len(q), q[i].op # "RST"
          PROVE  /\ WSub(q[i].fwd_cnt, p) \in Nat
                 /\ WSub(q[i].fwd_cnt, h) = WSub(q[i].fwd_cnt, p) - WSub(h, p)
      <4>1. WSub(h, p) <= WSub(q[i].fwd_cnt, p)
        BY <3>1, <3>5 DEF CreditQueue
      <4>2. q[i].fwd_cnt \in Counter
        BY <3>1, <3>2
      <4> HIDE DEF h
      <4> QED BY <3>3, <4>1, <4>2, Distance, CounterClosed
    <3> HIDE DEF r, h
    <3>6. WSub(h, p) \in Nat /\ WSub(f, p) \in Nat /\ WSub(x, p) \in Nat
      BY <3>3, CounterClosed
    <3>7. WSub(f, h) = WSub(f, p) - WSub(h, p)
      BY <3>3, <3>4, Distance
    <3>8. GuestCounts(f, t, x, h)
      <4>1. /\ WSub(x, p) <= CONN_TX_BUF_SIZE /\ WSub(f, p) <= WSub(x, p)
            /\ t <= WSub(x, f)
        BY DEF GuestCounts
      <4>2. WSub(h, p) <= WSub(x, p)
        BY <3>4, <3>6, <4>1
      <4>3. WSub(x, h) = WSub(x, p) - WSub(h, p)
        BY <3>3, <4>2, Distance
      <4> QED BY <3>6, <3>7, <4>1, <4>3 DEF GuestCounts
    <3>9. CreditQueue(r, f, h)
      <4> SUFFICES ASSUME NEW i \in 1 .. Len(r), r[i].op # "RST"
                   PROVE  /\ WSub(r[i].fwd_cnt, h) <= WSub(f, h)
                          /\ \A j \in (i + 1) .. Len(r) : r[j].op # "RST" =>
                               WSub(r[i].fwd_cnt, h) <= WSub(r[j].fwd_cnt, h)
        BY DEF CreditQueue
      <4>1. i + 1 \in 2 .. Len(q) /\ i + 1 \in 1 .. Len(q) /\ r[i] = q[i + 1]
        BY <3>1
      <4>2. /\ WSub(q[i + 1].fwd_cnt, p) \in Nat
            /\ WSub(q[i + 1].fwd_cnt, h) = WSub(q[i + 1].fwd_cnt, p) - WSub(h, p)
        BY <3>5, <4>1
      <4>3. WSub(q[i + 1].fwd_cnt, p) <= WSub(f, p)
        BY <4>1 DEF CreditQueue
      <4>4. ASSUME NEW j \in (i + 1) .. Len(r), r[j].op # "RST"
            PROVE  WSub(r[i].fwd_cnt, h) <= WSub(r[j].fwd_cnt, h)
        <5>1. /\ j + 1 \in 2 .. Len(q) /\ j + 1 \in (i + 1 + 1) .. Len(q)
              /\ r[j] = q[j + 1]
          BY <3>1
        <5>2. /\ WSub(q[j + 1].fwd_cnt, p) \in Nat
              /\ WSub(q[j + 1].fwd_cnt, h) = WSub(q[j + 1].fwd_cnt, p) - WSub(h, p)
          BY <3>5, <4>4, <5>1
        <5>3. WSub(q[i + 1].fwd_cnt, p) <= WSub(q[j + 1].fwd_cnt, p)
          BY <4>1, <4>4, <5>1 DEF CreditQueue
        <5> QED BY <3>6, <4>1, <4>2, <5>1, <5>2, <5>3
      <4> QED BY <3>6, <3>7, <4>1, <4>2, <4>3, <4>4
    <3> QED BY <3>8, <3>9 DEF r, h

  \* The guest sends n bytes of its credit.
  <2>CountsSend.
    ASSUME NEW f \in Counter, NEW t \in Nat, NEW x \in Counter, NEW p \in Counter,
           NEW n \in Nat, GuestCounts(f, t, x, p), WSub(x, p) + n <= CONN_TX_BUF_SIZE
    PROVE  /\ WAdd(x, n) \in Counter
           /\ GuestCounts(f, t, WAdd(x, n), p)
           /\ WSub(WAdd(x, n), f) = WSub(x, f) + n
           /\ WSub(x, f) + n <= CONN_TX_BUF_SIZE
    <3> USE <2>CountsSend
    <3>1. /\ WSub(f, p) <= WSub(x, p) /\ t <= WSub(x, f)
      BY DEF GuestCounts
    <3>2. WSub(x, p) \in Nat /\ WSub(f, p) \in Nat /\ WSub(x, f) \in Nat
      BY CounterClosed
    <3>3. WSub(x, f) = WSub(x, p) - WSub(f, p)
      BY <3>1, Distance
    <3>4. WSub(x, p) + n < Modulus /\ WSub(x, f) + n < Modulus
      BY <3>2, <3>3
    <3>5. /\ WAdd(x, n) \in Counter /\ WSub(WAdd(x, n), p) = WSub(x, p) + n
          /\ WSub(WAdd(x, n), f) = WSub(x, f) + n
      BY <3>4, AdvanceEnd
    <3> QED BY <3>1, <3>2, <3>3, <3>5 DEF GuestCounts

  \* A step of the guest that sends no data, and hears nothing.
  <2>QuietStep.
    ASSUME TypeOK, in_map, WindowInv, UNCHANGED <<conn, toGuest>>,
           \/ guest'.state = "Closed"
           \/ /\ guest.state # "Closed"
              /\ guest'.tx_cnt = guest.tx_cnt /\ guest'.peer_fwd_cnt = guest.peer_fwd_cnt,
           \/ UNCHANGED toHost
           \/ \E e \in GuestPkts : ~IsData(e) /\ toHost' = Append(toHost, e)
    PROVE  WindowInv'
    <3> USE <2>QuietStep
    <3>1. /\ conn.fwd_cnt \in Counter /\ toHost \in Seq(GuestPkts)
          /\ QueueWindow(toHost, conn.fwd_cnt, conn.tx_len)
      BY TypeFacts, <1>DataWindowParts DEF WindowInv, TypeOK
    <3>2. QueueWindow(toHost', conn.fwd_cnt, conn.tx_len)
      BY <3>1, <2>QueueAppendOther, ZenonT(40)
    <3>3. ASSUME guest'.state # "Closed"
          PROVE  /\ GuestCounts(conn.fwd_cnt, conn.tx_len, guest.tx_cnt, guest.peer_fwd_cnt)
                 /\ CreditQueue(toGuest, conn.fwd_cnt, guest.peer_fwd_cnt)
                 /\ QueueBelow(toHost', conn.fwd_cnt, guest.tx_cnt)
      <4>1. /\ GuestCounts(conn.fwd_cnt, conn.tx_len, guest.tx_cnt, guest.peer_fwd_cnt)
            /\ CreditQueue(toGuest, conn.fwd_cnt, guest.peer_fwd_cnt)
            /\ QueueBelow(toHost, conn.fwd_cnt, guest.tx_cnt)
        BY <3>3, <1>GuestWindowParts, <1>CreditWindowParts, <1>DataWindowParts DEF WindowInv
      <4>2. QueueBelow(toHost', conn.fwd_cnt, guest.tx_cnt)
        BY <3>1, <4>1, <2>QueueAppendOther, Zenon
      <4> QED BY <4>1, <4>2
    <3> QED BY <3>2, <3>3, <1>WindowNext

  <2>Step.
    ASSUME TypeOK, TypeOK', WindowInv, Guest
    PROVE  WindowInv'
    <3> USE <2>Step
    <3> SUFFICES ASSUME in_map' PROVE WindowInv'
      BY DEF WindowInv
    <3>0. in_map /\ conn' = conn
      BY Zenon DEF Guest, GuestRecv, GuestSend, GuestRead, GuestResize, GuestAskCredit,
             GuestShutdown, GuestReset
    <3>a. ASSUME NEW g \in Guests, NEW op \in Ops \ {"RW"}, NEW fl \in SUBSET Flags,
                 GuestPost(g, op, 0, fl)
          PROVE  \E e \in GuestPkts : ~IsData(e) /\ toHost' = Append(toHost, e)
      <4>1. 0 \in 0 .. MaxPkt
        OBVIOUS
      <4>2. GuestPkt(g, op, 0, fl) \in GuestPkts /\ ~IsData(GuestPkt(g, op, 0, fl))
        BY <4>1, GuestPktType DEF GuestPkt, IsData
      <4> QED BY <3>a, <4>2 DEF GuestPost
    <3>b. {"RESPONSE", "RST", "CREDIT_UPDATE", "CREDIT_REQUEST", "SHUTDOWN"}
            \subseteq Ops \ {"RW"}
      BY DEF Ops
    <3>c. guest \in Guests /\ guest' \in Guests
      BY DEF TypeOK
    <3>d. GuestClosed.state = "Closed"
      BY DEF GuestClosed, NewGuest
    <3>1. CASE GuestRecv
      <4> DEFINE pkt == Head(toGuest)
                 g == Heard(pkt)
      <4>1. toGuest # <<>> /\ toGuest' = Tail(toGuest) /\ pkt \in HostPkts
        BY <3>1, SeqTake DEF GuestRecv, TypeOK
      <4>2. /\ g \in Guests /\ g.tx_cnt = guest.tx_cnt /\ g.peer_fwd_cnt = pkt.fwd_cnt
        BY <3>c, <4>1 DEF Heard, Guests, HostPkts
      <4>3. \/ UNCHANGED toHost
            \/ GuestPost(g, "RESPONSE", 0, {})
            \/ GuestPost(g, "RST", 0, {})
            \/ GuestPost(g, "CREDIT_UPDATE", 0, {})
        BY <3>1 DEF GuestRecv
      <4>4. \/ guest'.state = "Closed"
            \/ /\ guest.state # "Closed" /\ pkt.op # "RST"
               /\ guest'.tx_cnt = guest.tx_cnt /\ guest'.peer_fwd_cnt = pkt.fwd_cnt
        BY <3>1, <3>c, <3>d, <4>2 DEF GuestRecv, Guests
      <4> HIDE DEF g
      <4>5. \/ UNCHANGED toHost
            \/ \E e \in GuestPkts : ~IsData(e) /\ toHost' = Append(toHost, e)
        BY <3>a, <3>b, <4>2, <4>3
      <4>6. /\ conn.fwd_cnt \in Counter /\ toHost \in Seq(GuestPkts)
            /\ guest.tx_cnt \in Counter /\ guest.peer_fwd_cnt \in Counter
            /\ toGuest \in Seq(HostPkts)
            /\ QueueWindow(toHost, conn.fwd_cnt, conn.tx_len)
        BY <3>0, TypeFacts, <1>DataWindowParts DEF WindowInv, TypeOK
      <4>7. QueueWindow(toHost', conn.fwd_cnt, conn.tx_len)
        BY <4>5, <4>6, <2>QueueAppendOther, ZenonT(40)
      <4>8. ASSUME guest'.state # "Closed"
            PROVE  /\ GuestCounts(conn.fwd_cnt, conn.tx_len, guest.tx_cnt, pkt.fwd_cnt)
                   /\ CreditQueue(Tail(toGuest), conn.fwd_cnt, pkt.fwd_cnt)
                   /\ QueueBelow(toHost', conn.fwd_cnt, guest.tx_cnt)
        <5>1. /\ GuestCounts(conn.fwd_cnt, conn.tx_len, guest.tx_cnt, guest.peer_fwd_cnt)
              /\ CreditQueue(toGuest, conn.fwd_cnt, guest.peer_fwd_cnt)
              /\ QueueBelow(toHost, conn.fwd_cnt, guest.tx_cnt)
          BY <3>0, <4>4, <4>8, <1>GuestWindowParts, <1>CreditWindowParts, <1>DataWindowParts
             DEF WindowInv
        <5>2. QueueBelow(toHost', conn.fwd_cnt, guest.tx_cnt)
          BY <4>5, <4>6, <5>1, <2>QueueAppendOther, ZenonT(40)
        <5> QED BY <4>1, <4>4, <4>6, <4>8, <5>1, <5>2, <2>Hear
      <4> HIDE DEF pkt
      <4> QED BY <3>0, <4>1, <4>4, <4>7, <4>8, <1>WindowNext
    <3>2. ASSUME NEW n \in 1 .. MaxPkt, GuestSend(n) PROVE WindowInv'
      <4> DEFINE f == conn.fwd_cnt
                 t == conn.tx_len
                 x == guest.tx_cnt
                 p == guest.peer_fwd_cnt
                 e == GuestPkt(guest, "RW", n, {})
      <4>1. /\ guest.state # "Closed" /\ n <= GuestCredit
            /\ toHost' = Append(toHost, e) /\ toGuest' = toGuest
            /\ guest'.state = guest.state /\ guest'.tx_cnt = WAdd(x, n)
            /\ guest'.peer_fwd_cnt = p
        BY <3>2, <3>c DEF GuestSend, GuestPost, Guests
      <4>2. /\ f \in Counter /\ t \in Nat /\ x \in Counter /\ p \in Counter
            /\ n \in Nat /\ toHost \in Seq(GuestPkts)
        BY TypeFacts DEF TypeOK
      <4>3. /\ GuestCounts(f, t, x, p) /\ CreditQueue(toGuest, f, p)
            /\ QueueBelow(toHost, f, x) /\ QueueWindow(toHost, f, t)
        BY <3>0, <4>1, <1>GuestWindowParts, <1>CreditWindowParts, <1>DataWindowParts DEF WindowInv
      <4>4. e \in GuestPkts /\ e.seq = x /\ e.len = n
        <5>1. "RW" \in Ops /\ n \in 0 .. MaxPkt
          BY DEF Ops
        <5> QED BY <3>c, <5>1, GuestPktType DEF GuestPkt
      <4>5. WSub(x, p) + n <= CONN_TX_BUF_SIZE
        <5>1. WSub(x, p) <= CONN_TX_BUF_SIZE
          BY <4>3 DEF GuestCounts
        <5>2. n <= WSub(CONN_TX_BUF_SIZE, WSub(x, p))
          BY <4>1 DEF GuestCredit
        <5>3. WSub(x, p) \in Nat
          BY <4>2, CounterClosed
        <5>4. WSub(CONN_TX_BUF_SIZE, WSub(x, p)) = CONN_TX_BUF_SIZE - WSub(x, p)
          <6> DEFINE a == WSub(x, p)
          <6> HIDE DEF a
          <6>1. a \in Nat /\ a <= CONN_TX_BUF_SIZE
            BY <5>1, <5>3 DEF a
          <6> QED BY <6>1 DEF a, WSub
        <5> QED BY <5>1, <5>2, <5>3, <5>4
      <4> HIDE DEF f, t, x, p, e
      <4>6. /\ WAdd(x, n) \in Counter
            /\ GuestCounts(f, t, WAdd(x, n), p)
            /\ WSub(WAdd(x, n), f) = WSub(x, f) + n
            /\ WSub(x, f) + n <= CONN_TX_BUF_SIZE
        BY <4>2, <4>3, <4>5, <2>CountsSend
      <4>7. t <= WSub(x, f)
        BY <4>3 DEF GuestCounts
      <4>8. QueueWindow(Append(toHost, e), f, t) /\ QueueBelow(Append(toHost, e), f, WAdd(x, n))
        BY <4>2, <4>3, <4>4, <4>6, <4>7, <2>QueueAppendData
      <4>9. conn'.fwd_cnt = f /\ conn'.tx_len = t
        BY <3>0 DEF f, t
      <4> QED BY <4>1, <4>3, <4>6, <4>8, <4>9, <1>WindowNext
    <3>3. ASSUME NEW n \in 1 .. MaxPkt, GuestRead(n) PROVE WindowInv'
      <4>1. /\ guest.state # "Closed" /\ toGuest' = toGuest
            /\ guest'.tx_cnt = guest.tx_cnt /\ guest'.peer_fwd_cnt = guest.peer_fwd_cnt
        BY <3>3, <3>c DEF GuestRead, Guests
      <4>2. UNCHANGED toHost \/ GuestPost(guest', "CREDIT_UPDATE", 0, {})
        BY <3>3 DEF GuestRead
      <4> QED BY <3>0, <3>a, <3>b, <3>c, <4>1, <4>2, <2>QuietStep
    <3>4. ASSUME NEW a \in GuestAllocs, GuestResize(a) PROVE WindowInv'
      <4>1. /\ guest.state # "Closed" /\ toGuest' = toGuest
            /\ guest'.tx_cnt = guest.tx_cnt /\ guest'.peer_fwd_cnt = guest.peer_fwd_cnt
        BY <3>4, <3>c DEF GuestResize, Guests
      <4>2. GuestPost(guest', "CREDIT_UPDATE", 0, {})
        BY <3>4 DEF GuestResize
      <4> QED BY <3>0, <3>a, <3>b, <3>c, <4>1, <4>2, <2>QuietStep
    <3>5. CASE GuestAskCredit
      <4>1. /\ guest.state # "Closed" /\ toGuest' = toGuest /\ guest' = guest
            /\ GuestPost(guest, "CREDIT_REQUEST", 0, {})
        BY <3>5 DEF GuestAskCredit
      <4> QED BY <3>0, <3>a, <3>b, <3>c, <4>1, <2>QuietStep
    <3>6. ASSUME NEW fl \in SUBSET Flags, GuestShutdown(fl) PROVE WindowInv'
      <4>1. /\ guest.state # "Closed" /\ toGuest' = toGuest
            /\ guest'.tx_cnt = guest.tx_cnt /\ guest'.peer_fwd_cnt = guest.peer_fwd_cnt
        BY <3>6, <3>c DEF GuestShutdown, Guests
      <4>2. GuestPost(guest, "SHUTDOWN", 0, fl)
        BY <3>6 DEF GuestShutdown
      <4> QED BY <3>0, <3>a, <3>b, <3>c, <4>1, <4>2, <2>QuietStep
    <3>7. CASE GuestReset
      <4>1. guest'.state = "Closed" /\ toGuest' = toGuest /\ GuestPost(guest, "RST", 0, {})
        BY <3>7, <3>d DEF GuestReset
      <4> QED BY <3>0, <3>a, <3>b, <3>c, <4>1, <2>QuietStep
    <3> QED BY <3>1, <3>2, <3>3, <3>4, <3>5, <3>6, <3>7 DEF Guest
  <2> QED BY <2>Step

<1> SUFFICES ASSUME IInv, [Next]_vars PROVE IInv'
  OBVIOUS
<1>0. TypeOK /\ WindowInv /\ TxBufFits
  BY WindowFits DEF IInv
<1>1. CASE Host
  BY <1>0, <1>1, <1>HostType, <1>HostWindow DEF IInv
<1>2. CASE Guest
  BY <1>0, <1>2, <1>GuestType, <1>GuestWindowStep DEF IInv
<1>3. CASE UNCHANGED vars
  BY <1>0, <1>3, Zenon DEF vars, IInv, TypeOK, WindowInv, GuestWindow, CreditWindow,
                    DataWindow, Ahead
<1> QED BY <1>1, <1>2, <1>3 DEF Next

\* The window of bytes under way never exceeds one TX buffer, and the state of
\* the connection (csm/connection.rs) stays well-typed, whatever the constants.
THEOREM VsockInvariant == Spec => [](TypeOK /\ WindowInv)
\* The types hold in the beginning.
<1>InitType. Init => TypeOK
  <2> SUFFICES ASSUME Init PROVE TypeOK
    OBVIOUS
  <2>1. PICK alloc \in GuestAllocs :
          \/ /\ conn = new_peer_init(alloc)
             /\ guest = NewGuest("Connecting", alloc)
          \/ /\ conn = new_local_init
             /\ guest = NewGuest("Listen", alloc)
    BY DEF Init
  <2>2. conn \in Connections
    BY <2>1, NewConnectionType, GuestAllocType
       DEF new_peer_init, new_local_init, ConnStates, PendingRx, Counter
  <2>3. guest \in Guests
    BY <2>1, NewGuestType, GuestAllocType
  <2>4. evset \subseteq {"EPOLLIN", "EPOLLOUT"}
    BY EvsetType DEF Init
  <2>5. toHost \in Seq(GuestPkts) /\ toGuest \in Seq(HostPkts)
    BY SeqEmpty DEF Init
  <2> QED BY <2>2, <2>3, <2>4, <2>5, Zenon DEF Init, TypeOK

\* The windows of a new connection are empty.
<1>InitWindow. Init => WindowInv
  <2> SUFFICES ASSUME Init PROVE WindowInv
    OBVIOUS
  <2>1. TypeOK /\ toHost = <<>> /\ toGuest = <<>>
    BY <1>InitType DEF Init
  <2>2. /\ conn.fwd_cnt = 0 /\ conn.tx_len = 0
        /\ guest.tx_cnt = 0 /\ guest.peer_fwd_cnt = 0
    BY DEF Init, new_peer_init, new_local_init, NewConnection, NewGuest
  <2>3. WSub(0, 0) = 0
    BY DEF WSub
  <2>4. GuestWindow
    BY <2>2, <2>3 DEF GuestWindow, Ahead
  <2>5. CreditWindow /\ DataWindow
    BY <2>1 DEF CreditWindow, DataWindow
  <2> QED BY <2>4, <2>5 DEF WindowInv

<1>1. Init => IInv
  BY <1>InitType, <1>InitWindow DEF IInv
<1> QED BY <1>1, IInvInductive, PTL DEF Spec, IInv

\* Every state of the connection, the queues and the guest is well-typed.
THEOREM VsockTypeOK == Spec => []TypeOK
BY VsockInvariant, PTL

\* "Vsock flow control ensures that our TX buffer doesn't overflow": send_bytes
\* never kills a connection whose guest keeps to its credit with TxBufFull.
THEOREM VsockTxBufFits == Spec => []TxBufFits
BY VsockInvariant, WindowFits, PTL

----------------------------------------------------------------------------
(* The order of the packets a guest is given.                                *)

Ended == {"LocalClosed", "Killed"}

Opening == {"Request", "Response"}

\* Keeps(c, d): a connection that has ended stays so, and none is opened again.
Keeps(c, d) ==
  /\ c.state \in Ended => d.state \in Ended
  /\ d.pending_rx \cap Opening \subseteq c.pending_rx

\* Several changes of the connection in one step.
LEMMA KeepsTrans ==
  ASSUME NEW c, NEW d, NEW e, Keeps(c, d), Keeps(d, e)
  PROVE  Keeps(c, e)
BY DEF Keeps

\* Killing a connection ends it.
LEMMA KillKeeps ==
  ASSUME NEW c \in Connections
  PROVE  Keeps(c, kill(c)) /\ kill(c).state = "Killed"
BY DEF kill, Indicate, Connections, Keeps, Ended, Opening

\* What may be indicated later does not open it again.
LEMMA IndicateKeeps ==
  ASSUME NEW c \in Connections, NEW it \in {"Rst", "Rw", "CreditUpdate"}
  PROVE  Keeps(c, Indicate(c, it))
BY DEF Indicate, Connections, Keeps, Ended, Opening

\* Nor does a credit update.
LEMMA IndicateCreditKeeps ==
  ASSUME NEW c \in Connections
  PROVE  Keeps(c, IndicateCredit(c))
<1>1. Keeps(c, c) BY DEF Keeps
<1> QED BY <1>1, IndicateKeeps DEF IndicateCredit

\* Buffering data of the guest.
LEMMA PushKeeps ==
  ASSUME NEW c \in Connections, NEW n \in Nat, c.tx_len + n <= CONN_TX_BUF_SIZE
  PROVE  Keeps(c, push(c, n))
<1> DEFINE d == [c EXCEPT !.tx_len = @ + n]
<1>1. d \in Connections /\ Keeps(c, d) /\ c.tx_len \in Int BY DEF Connections, Keeps
<1>2. push(c, n) = IndicateCredit(d) BY <1>1 DEF push
<1> HIDE DEF d
<1> QED BY <1>1, <1>2, IndicateCreditKeeps, KeepsTrans

\* Data written to the host socket, buffered, or lost with the connection.
LEMMA SendBytesKeeps ==
  ASSUME NEW c \in Connections, NEW n \in Nat, c.tx_len + n <= CONN_TX_BUF_SIZE,
         NEW d \in send_bytes(c, n)
  PROVE  Keeps(c, d)
<1>0. c.tx_len \in 0 .. CONN_TX_BUF_SIZE /\ c.fwd_cnt \in Counter
  BY DEF Connections
<1>1. CASE d = push(c, n) BY <1>1, PushKeeps
<1>2. CASE d = kill(c) BY <1>2, KillKeeps
<1>3. CASE /\ c.tx_len = 0
           /\ \E w \in 0 .. n : d = push([c EXCEPT !.fwd_cnt = WAdd(@, w)], n - w)
  <2>1. PICK w \in 0 .. n : d = push([c EXCEPT !.fwd_cnt = WAdd(@, w)], n - w)
    BY <1>3
  <2> DEFINE e == [c EXCEPT !.fwd_cnt = WAdd(@, w)]
  <2>2. WAdd(c.fwd_cnt, w) \in Counter
    <3>1. w \in Counter BY <1>0, <1>3 DEF Counter
    <3> QED BY <1>0, <3>1, CounterClosed, Zenon
  <2>3. e \in Connections /\ e.tx_len = 0 /\ Keeps(c, e)
    BY <1>3, <2>2 DEF Connections, Keeps
  <2>4. d = push(e, n - w) BY <2>1
  <2> HIDE DEF e
  <2>5. n - w \in Nat /\ e.tx_len + (n - w) <= CONN_TX_BUF_SIZE BY <1>3, <2>3
  <2> QED BY <2>3, <2>4, <2>5, PushKeeps, KeepsTrans
<1> QED BY <1>0, <1>1, <1>2, <1>3 DEF send_bytes

\* send_pkt: only a connection that is open is closed by the peer, and only one that was
\* never established is established by its RESPONSE.
LEMMA SendPktKeeps ==
  ASSUME NEW c \in Connections, NEW pkt \in GuestPkts,
         pkt.op = "RW" /\ PeerSends(c) => c.tx_len + pkt.len <= CONN_TX_BUF_SIZE,
         NEW d \in send_pkt(c, pkt)
  PROVE  Keeps(c, d)
<1> DEFINE b == [c EXCEPT !.peer_buf_alloc = pkt.buf_alloc,
                          !.peer_fwd_cnt = pkt.fwd_cnt]
           closed == [b EXCEPT !.state = "PeerClosed", !.off = @ \cup pkt.flags]
           armed == [closed EXCEPT !.expiry = "Armed"]
           est == [b EXCEPT !.expiry = "None", !.state = "Established"]
           upd == Indicate(b, "CreditUpdate")
           rst == Indicate(closed, "Rst")
<1>1. /\ b \in Connections /\ b.state = c.state /\ b.off = c.off /\ b.tx_len = c.tx_len
      /\ b.pending_rx = c.pending_rx
  BY Zenon DEF Connections, GuestPkts
<1>2. closed \in Connections /\ closed.pending_rx = c.pending_rx
  BY Zenon DEF Connections, GuestPkts, ConnStates
<1>3. armed.pending_rx = c.pending_rx BY <1>2 DEF Connections
<1>4. est.pending_rx = c.pending_rx BY <1>1 DEF Connections
<1>5. Keeps(c, b) BY <1>1 DEF Keeps
<1>6. CASE PeerSends(b) /\ pkt.op = "RW" /\ pkt.len # 0
  <2>1. d \in send_bytes(b, pkt.len) BY <1>6 DEF send_pkt
  <2>2. b.tx_len + pkt.len <= CONN_TX_BUF_SIZE /\ pkt.len \in Nat
    BY <1>1, <1>6 DEF GuestPkts, PeerSends
  <2> HIDE DEF b
  <2> QED BY <1>1, <1>5, <2>1, <2>2, SendBytesKeeps, KeepsTrans
<1>7. CASE ~(PeerSends(b) /\ pkt.op = "RW" /\ pkt.len # 0)
  <2>1. \/ d \in {b, upd}
        \/ b.state \in {"Established", "PeerClosed"} /\ d \in {closed, rst, armed}
        \/ b.state = "LocalInit" /\ d = est
    BY <1>7 DEF send_pkt
  <2>2. Keeps(b, upd) /\ Keeps(closed, rst)
    BY <1>1, <1>2, IndicateKeeps
  <2> HIDE DEF b, closed, armed, est, upd, rst
  <2>3. c.state \notin Ended => Keeps(c, closed) /\ Keeps(c, armed) /\ Keeps(c, est)
    BY <1>2, <1>3, <1>4 DEF Keeps
  <2>4. {"Established", "PeerClosed", "LocalInit"} \cap Ended = {} BY DEF Ended
  <2> QED BY <1>1, <1>5, <2>1, <2>2, <2>3, <2>4, KeepsTrans
<1> QED BY <1>6, <1>7

----------------------------------------------------------------------------
\* What recv_pkt yields, by the kind of the packet.
Plain(c) == c.pending_rx \cap Opening = {}

Kinds(c, d, op) ==
  \/ op = "RST"
  \/ op \in {"REQUEST", "RESPONSE"} /\ ~Plain(c) /\ (~(Opening \subseteq c.pending_rx) => Plain(d))
  \/ op \in {"CREDIT_UPDATE", "CREDIT_REQUEST"} /\ Plain(c) /\ Keeps(c, d)
  \/ op = "RW" /\ Plain(c) /\ Keeps(c, d) /\ c.state \notin Ended
  \/ op = "SHUTDOWN" /\ Plain(c) /\ Keeps(c, d) /\ d.state \in Ended

Yields(c, r) ==
  \/ r.pkts = <<>> /\ Keeps(c, r.conn)
  \/ \E p \in HostPkts : r.pkts = <<p>> /\ Kinds(c, r.conn, p.op)

----------------------------------------------------------------------------
\* The order of a queue of packets to the guest.
Ordered(q) ==
  \A i, j \in 1 .. Len(q) : i < j =>
    /\ q[i].op = "RST" => q[j].op = "RST"
    /\ q[i].op = "SHUTDOWN" => q[j].op # "RW"
    /\ q[j].op \notin {"REQUEST", "RESPONSE"}

\* What is under way to the guest from a connection that is still in the map: no RST,
\* a SHUTDOWN only once it has ended, and nothing before the handshake.
Matches(c, q) ==
  /\ \A i \in 1 .. Len(q) : /\ q[i].op # "RST"
                            /\ q[i].op = "SHUTDOWN" => c.state \in Ended
  /\ ~Plain(c) => q = <<>>
  /\ ~(Opening \subseteq c.pending_rx)

\* The inductive form of HostPktOrder.
OrderInv ==
  /\ rst_due => ~in_map
  /\ in_map => Matches(conn, toGuest)
  /\ Ordered(toGuest)

----------------------------------------------------------------------------
\* The invariant of the order.
LEMMA OrderInvariant == Spec => []OrderInv
\* The guest takes the first packet.
<1>TailOrder.
  ASSUME NEW q \in Seq(HostPkts), q # <<>>
  PROVE  /\ Ordered(q) => Ordered(Tail(q))
         /\ \A c : Matches(c, q) => Matches(c, Tail(q))
  <2> USE <1>TailOrder
  <2> DEFINE t == Tail(q)
  <2>1. t \in Seq(HostPkts) /\ Len(t) = Len(q) - 1 /\ Len(q) \in Nat
    BY SeqTake
  <2>2. \A i \in 1 .. Len(t) : t[i] = q[i + 1] /\ i + 1 \in 1 .. Len(q)
    BY <2>1, SeqTake
  <2> HIDE DEF t
  <2>3. Ordered(q) => Ordered(t)
    <3> SUFFICES ASSUME Ordered(q), NEW i \in 1 .. Len(t), NEW j \in 1 .. Len(t), i < j
                 PROVE  /\ t[i].op = "RST" => t[j].op = "RST"
                        /\ t[i].op = "SHUTDOWN" => t[j].op # "RW"
                        /\ t[j].op \notin {"REQUEST", "RESPONSE"}
      BY DEF Ordered
    <3>1. i + 1 < j + 1 BY <2>1
    <3> QED BY <2>2, <3>1 DEF Ordered
  <2>4. ASSUME NEW c, Matches(c, q) PROVE Matches(c, t)
    BY <2>2, <2>4 DEF Matches
  <2> QED BY <2>3, <2>4 DEF t

\* The steps of the host.
<1>HostOrder. TypeOK /\ TxBufFits /\ OrderInv /\ Host => OrderInv'
\* Every event of the host socket.
  <2>NotifyKeeps.
    ASSUME NEW c \in Connections, NEW ev, NEW d \in notify(c, ev)
    PROVE  Keeps(c, d)
    <3> USE <2>NotifyKeeps
    <3> DEFINE b == IF "EPOLLIN" \in ev THEN Indicate(c, "Rw") ELSE c
               After(x) == IF x.state = "PeerClosed" /\ x.off = Flags /\ x.tx_len = 0
                           THEN Indicate(x, "Rst") ELSE IndicateCredit(x)
               flushed(n) == [b EXCEPT !.tx_len = @ - n, !.fwd_cnt = WAdd(@, n)]
    <3>0. b \in Connections /\ b.tx_len = c.tx_len /\ b.fwd_cnt = c.fwd_cnt
      BY IndicateType DEF PendingRx
    <3>1. Keeps(c, b)
      <4>1. Keeps(c, c) BY DEF Keeps
      <4> QED BY <4>1, IndicateKeeps
    <3>2. \/ d = b
          \/ d = After(kill(b))
          \/ \E n \in 0 .. c.tx_len : d = After(flushed(n))
      BY <3>0, Zenon DEF notify, FlushOut
    <3>3. ASSUME NEW x \in Connections PROVE Keeps(x, After(x))
      BY IndicateKeeps, IndicateCreditKeeps
    <3>4. ASSUME NEW n \in 0 .. c.tx_len PROVE flushed(n) \in Connections /\ Keeps(b, flushed(n))
      <4> HIDE DEF b
      <4>1. c.tx_len \in 0 .. CONN_TX_BUF_SIZE /\ c.fwd_cnt \in Counter /\ n \in Counter
        BY DEF Connections, Counter
      <4>2. WAdd(c.fwd_cnt, n) \in Counter
        BY <4>1, CounterClosed, Zenon
      <4>4. c.tx_len - n \in 0 .. CONN_TX_BUF_SIZE
        BY <4>1
      <4>3. flushed(n) = [b EXCEPT !.tx_len = c.tx_len - n, !.fwd_cnt = WAdd(c.fwd_cnt, n)]
        BY <3>0
      <4> HIDE DEF flushed
      <4> QED BY <3>0, <4>2, <4>3, <4>4, ZenonT(40) DEF Connections, Keeps
    <3> HIDE DEF b, After, flushed
    <3>5. CASE d = After(kill(b)) BY <3>0, <3>1, <3>3, <3>5, KillType, KillKeeps, KeepsTrans
    <3>6. CASE \E n \in 0 .. c.tx_len : d = After(flushed(n))
      BY <3>0, <3>1, <3>3, <3>4, <3>6, KeepsTrans
    <3> QED BY <3>1, <3>2, <3>5, <3>6

  \* The failures of the muxer after a change only kill the connection.
  <2>MutationKeeps.
    ASSUME NEW d \in Connections, apply_conn_mutation(d)
    PROVE  Keeps(d, conn')
    <3> USE <2>MutationKeeps
    <3>1. PICK e \in {d, kill(d)} : conn' = e \/ conn' = kill(e)
      BY DEF apply_conn_mutation
    <3>2. e \in Connections /\ Keeps(d, e)
      <4>1. Keeps(d, d) BY DEF Keeps
      <4> QED BY <4>1, KillType, KillKeeps
    <3> QED BY <3>1, <3>2, KillKeeps, KeepsTrans

  \* A packet without data.
  <2>YieldYields.
    ASSUME NEW c \in Connections, NEW d \in Connections, NEW op \in Ops, Kinds(c, d, op)
    PROVE  Yields(c, Yield(d, op))
    <3> USE <2>YieldYields
    <3> DEFINE p == HostPkt(d, op, 0, {})
    <3>1. p \in HostPkts /\ p.op = op BY DEF HostPkt, HostPkts, Connections
    <3>2. Yield(d, op).conn = d /\ Yield(d, op).pkts = <<p>> BY DEF Yield
    <3> HIDE DEF p
    <3> QED BY <3>1, <3>2 DEF Yields

  \* The last resort: a credit update or nothing.
  <2>YieldCreditYields.
    ASSUME NEW c \in Connections
    PROVE  Yields(c, YieldCredit(c))
    <3> USE <2>YieldCreditYields
    <3> DEFINE d == [c EXCEPT !.pending_rx = @ \ {"CreditUpdate"}]
               e == [d EXCEPT !.last_fwd_cnt_to_peer = d.fwd_cnt]
               none == [conn |-> d, pkts |-> <<>>]
    <3>1. d \in Connections /\ Keeps(c, d) /\ d.pending_rx = c.pending_rx \ {"CreditUpdate"}
      BY DEF Connections, Keeps
    <3>2. e \in Connections /\ Keeps(c, e) BY Zenon DEF Connections, Keeps
    <3>3. Yields(c, none) BY <3>1 DEF Yields
    <3>4. \/ YieldCredit(c) = none
          \/ YieldCredit(c) = Yield(e, "CREDIT_UPDATE") /\ d.pending_rx = {}
      BY DEF YieldCredit
    <3> HIDE DEF d, e, none
    <3>5. d.pending_rx = {} => Plain(c) BY <3>1 DEF Plain, Opening
    <3>6. d.pending_rx = {} => Yields(c, Yield(e, "CREDIT_UPDATE"))
      BY <3>2, <3>5, <2>YieldYields DEF Ops, Kinds
    <3> QED BY <3>3, <3>4, <3>6

  \* Reading the host socket: data, a SHUTDOWN at its end, an RST after an error.
  <2>YieldDataYields.
    ASSUME NEW c \in Connections, Plain(c), c.state \notin Ended, NEW r \in YieldData(c)
    PROVE  Yields(c, r)
    <3> USE <2>YieldDataYields
    <3> DEFINE told == [c EXCEPT !.last_fwd_cnt_to_peer = c.fwd_cnt]
               max_len == Least(MaxPkt, peer_avail_credit(c))
               data(n) == [conn |-> [told EXCEPT !.rx_cnt = WAdd(@, n)],
                           pkts |-> <<HostPkt(c, "RW", n, {})>>]
               eof == [conn |-> [told EXCEPT !.state = "LocalClosed", !.off = {},
                                             !.expiry = "Armed"],
                       pkts |-> <<HostPkt(c, "SHUTDOWN", 0, Flags)>>]
    <3>1. told \in Connections /\ told.state = c.state /\ told.pending_rx = c.pending_rx
      BY DEF Connections
    <3>2. ASSUME NEW n \in 1 .. max_len PROVE Yields(c, data(n))
      <4> DEFINE p == HostPkt(c, "RW", n, {})
      <4>1. peer_avail_credit(c) \in Counter
        BY CounterClosed DEF peer_avail_credit, Connections
      <4>2. n \in 0 .. MaxPkt
        BY <4>1 DEF Least, Counter
      <4>3. data(n).conn.state = c.state /\ data(n).conn.pending_rx = c.pending_rx
        BY <3>1, ZenonT(40) DEF Connections
      <4>4. p \in HostPkts /\ p.op = "RW"
        BY <4>2 DEF HostPkt, HostPkts, Connections, Ops
      <4>5. data(n).pkts = <<p>>
        OBVIOUS
      <4> HIDE DEF data, told, p
      <4>6. Keeps(c, data(n).conn)
        BY <4>3 DEF Keeps
      <4> QED BY <4>4, <4>5, <4>6 DEF Yields, Kinds
    <3>3. Yields(c, eof)
      <4> DEFINE p == HostPkt(c, "SHUTDOWN", 0, Flags)
      <4>1. eof.conn.state = "LocalClosed" /\ eof.conn.pending_rx = c.pending_rx
        BY <3>1, Zenon DEF Connections
      <4>2. p \in HostPkts /\ p.op = "SHUTDOWN"
        BY DEF HostPkt, HostPkts, Connections, Ops
      <4>3. eof.pkts = <<p>>
        OBVIOUS
      <4> HIDE DEF eof, told, p
      <4>4. Keeps(c, eof.conn) /\ eof.conn.state \in Ended
        BY <4>1 DEF Keeps, Ended
      <4> QED BY <4>2, <4>3, <4>4 DEF Yields, Kinds
    <3>5. \/ \E n \in 1 .. max_len : r = data(n)
          \/ r \in {eof, Yield(told, "RST"), YieldCredit(c)}
      BY ZenonT(40) DEF YieldData
    <3> HIDE DEF told, data, eof, max_len
    <3>4. Yields(c, Yield(told, "RST"))
      BY <3>1, <2>YieldYields DEF Ops, Kinds
    <3> QED BY <3>2, <3>3, <3>4, <3>5, <2>YieldCreditYields

  \* Every outcome of recv_pkt.
  <2>RecvPktYields.
    ASSUME NEW c \in Connections, NEW r \in recv_pkt(c)
    PROVE  Yields(c, r)
    <3> USE <2>RecvPktYields
    <3> DEFINE Without(it) == [c EXCEPT !.pending_rx = @ \ {it}]
               d == Without("Rw")
               resp == [Without("Response") EXCEPT !.state = "Established", !.off = {}]
               req == [Without("Request") EXCEPT !.expiry = "Armed"]
               ask == [d EXCEPT !.last_fwd_cnt_to_peer = d.fwd_cnt]
               rst == Without("Rst")
    <3>1. rst \in Connections
      BY DEF Connections
    <3>2. resp \in Connections /\ resp.pending_rx = c.pending_rx \ {"Response"}
      BY Zenon DEF Connections, ConnStates
    <3>3. req \in Connections /\ req.pending_rx = c.pending_rx \ {"Request"}
      BY Zenon DEF Connections
    <3>4. d \in Connections /\ d.state = c.state /\ d.pending_rx = c.pending_rx \ {"Rw"}
      BY DEF Connections
    <3>5. ask \in Connections /\ ask.state = c.state /\ ask.pending_rx = c.pending_rx \ {"Rw"}
      BY <3>4, Zenon DEF Connections
    <3>6. \/ r = Yield(rst, "RST")
          \/ r = Yield(resp, "RESPONSE") /\ "Response" \in c.pending_rx
          \/ r = Yield(req, "REQUEST") /\ "Request" \in c.pending_rx
          \/ /\ c.pending_rx \cap {"Rst", "Response", "Request"} = {}
             /\ \/ r \in {Yield(d, "RST"), Yield(ask, "CREDIT_REQUEST")}
                \/ PeerReceives(d) /\ r \in YieldData(d)
          \/ r = YieldCredit(c)
      BY DEF recv_pkt
    <3> HIDE DEF Without, d, resp, req, ask, rst
    <3>7. CASE r = Yield(rst, "RST")
      BY <3>1, <3>7, <2>YieldYields DEF Kinds, Ops
    <3>8. CASE r = Yield(resp, "RESPONSE") /\ "Response" \in c.pending_rx
      BY <3>2, <3>8, <2>YieldYields DEF Kinds, Ops, Plain, Opening
    <3>9. CASE r = Yield(req, "REQUEST") /\ "Request" \in c.pending_rx
      BY <3>3, <3>9, <2>YieldYields DEF Kinds, Ops, Plain, Opening
    <3>10. CASE /\ c.pending_rx \cap {"Rst", "Response", "Request"} = {}
                /\ \/ r \in {Yield(d, "RST"), Yield(ask, "CREDIT_REQUEST")}
                   \/ PeerReceives(d) /\ r \in YieldData(d)
      <4>1. Plain(c) /\ Plain(d) /\ Keeps(c, d) /\ Keeps(c, ask)
        BY <3>4, <3>5, <3>10 DEF Plain, Opening, Keeps
      <4>2. CASE r = Yield(d, "RST") BY <3>4, <4>2, <2>YieldYields DEF Kinds, Ops
      <4>3. CASE r = Yield(ask, "CREDIT_REQUEST")
        BY <3>5, <4>1, <4>3, <2>YieldYields DEF Kinds, Ops
      <4>4. CASE PeerReceives(d) /\ r \in YieldData(d)
        <5>1. d.state \notin Ended BY <4>4 DEF PeerReceives, Ended
        <5>2. Yields(d, r) BY <3>4, <4>1, <4>4, <5>1, <2>YieldDataYields
        <5>3. ASSUME NEW e, Keeps(d, e) PROVE Keeps(c, e) BY <4>1, <5>3, KeepsTrans
        <5>4. ASSUME NEW op, Kinds(d, r.conn, op) PROVE Kinds(c, r.conn, op)
          BY <3>4, <4>1, <5>3, <5>4 DEF Kinds
        <5> QED BY <5>2, <5>3, <5>4 DEF Yields
      <4> QED BY <3>10, <4>2, <4>3, <4>4
    <3> QED BY <3>6, <3>7, <3>8, <3>9, <3>10, <2>YieldCreditYields

  \* A packet is added behind the others.
  <2>AppendOrder.
    ASSUME NEW q \in Seq(HostPkts), NEW p \in HostPkts, Ordered(q),
           \/ p.op = "RST"
           \/ /\ \A i \in 1 .. Len(q) : /\ q[i].op # "RST"
                                        /\ p.op = "RW" => q[i].op # "SHUTDOWN"
              /\ p.op \in {"REQUEST", "RESPONSE"} => q = <<>>
    PROVE  Ordered(Append(q, p))
    <3> USE <2>AppendOrder
    <3> DEFINE r == Append(q, p)
    <3>1. /\ Len(r) = Len(q) + 1 /\ Len(q) \in Nat /\ r[Len(q) + 1] = p
          /\ \A i \in 1 .. Len(q) : r[i] = q[i]
      BY SeqAdd
    <3>2. q = <<>> => Len(q) = 0 OBVIOUS
    <3> HIDE DEF r
    <3> SUFFICES ASSUME NEW i \in 1 .. Len(r), NEW j \in 1 .. Len(r), i < j
                 PROVE  /\ r[i].op = "RST" => r[j].op = "RST"
                        /\ r[i].op = "SHUTDOWN" => r[j].op # "RW"
                        /\ r[j].op \notin {"REQUEST", "RESPONSE"}
      BY DEF Ordered, r
    <3>3. i \in 1 .. Len(q) /\ r[i] = q[i] BY <3>1
    <3>4. CASE j = Len(q) + 1 BY <3>1, <3>2, <3>3, <3>4
    <3>5. CASE j \in 1 .. Len(q) BY <3>1, <3>3, <3>5 DEF Ordered
    <3> QED BY <3>1, <3>4, <3>5

  \* A step of the connection that sends nothing.
  <2>KeepsMatch.
    ASSUME NEW c, NEW d, NEW q, Keeps(c, d), Matches(c, q)
    PROVE  Matches(d, q)
    BY <2>KeepsMatch DEF Keeps, Matches, Plain, Opening

  \* A step of the connection that sends a packet.
  <2>AppendMatch.
    ASSUME NEW q \in Seq(HostPkts), NEW p \in HostPkts, NEW c, NEW d,
           Matches(c, q), p.op # "RST", Kinds(c, d, p.op)
    PROVE  Matches(d, Append(q, p))
    <3> USE <2>AppendMatch
    <3> DEFINE r == Append(q, p)
    <3>1. /\ Len(r) = Len(q) + 1 /\ Len(q) \in Nat /\ r[Len(q) + 1] = p
          /\ \A i \in 1 .. Len(q) : r[i] = q[i]
      BY SeqAdd
    <3> HIDE DEF r
    <3>2. Plain(d) /\ ~(Opening \subseteq d.pending_rx)
      BY DEF Kinds, Matches, Keeps, Plain, Opening
    <3>3. p.op = "SHUTDOWN" => d.state \in Ended BY DEF Kinds
    <3>4. \A i \in 1 .. Len(q) : q[i].op = "SHUTDOWN" => d.state \in Ended
      <4>1. CASE Keeps(c, d) BY <4>1 DEF Matches, Keeps
      <4>2. CASE q = <<>> BY <4>2
      <4> QED BY <4>1, <4>2 DEF Kinds, Matches
    <3>5. \A i \in 1 .. Len(r) : i \in 1 .. Len(q) \/ i = Len(q) + 1 BY <3>1
    <3> QED BY <3>1, <3>2, <3>3, <3>4, <3>5 DEF Matches, r

  \* Steps that send the guest nothing.
  <2>SilentStep.
    ASSUME OrderInv, UNCHANGED toGuest,
           \/ ~in_map /\ UNCHANGED in_map
           \/ ~in_map' /\ UNCHANGED rst_due
           \/ in_map /\ Keeps(conn, conn') /\ UNCHANGED <<in_map, rst_due>>
    PROVE  OrderInv'
    BY <2>SilentStep, <2>KeepsMatch DEF OrderInv, Ordered

  \* muxer.send_pkt.
  <2>SendPktOrder.
    ASSUME TypeOK, TxBufFits, OrderInv, MuxerSendPkt
    PROVE  OrderInv'
    <3> USE <2>SendPktOrder
    <3> DEFINE pkt == Head(toHost)
    <3>1. toHost # <<>> /\ pkt \in GuestPkts /\ UNCHANGED toGuest
      BY DEF MuxerSendPkt, TypeOK
    <3>2. CASE ~in_map BY <3>1, <3>2, <2>SilentStep DEF MuxerSendPkt
    <3>3. CASE in_map /\ pkt.op = "RST"
      BY <3>1, <3>3, <2>SilentStep, Zenon DEF MuxerSendPkt, remove_connection
    <3>4. CASE in_map /\ pkt.op # "RST"
      <4>1. PICK d \in send_pkt(conn, pkt) : apply_conn_mutation(d)
        BY <3>4, Zenon DEF MuxerSendPkt
      <4>2. pkt.op = "RW" /\ PeerSends(conn) => conn.tx_len + pkt.len <= CONN_TX_BUF_SIZE
        BY <3>1, <3>4 DEF TxBufFits
      <4>3. UNCHANGED <<in_map, rst_due>> BY <3>4, Zenon DEF MuxerSendPkt
      <4> HIDE DEF pkt
      <4>4. d \in Connections /\ Keeps(conn, d)
        BY <3>1, <4>2, SendPktAccounting, SendPktKeeps DEF Accounting, TypeOK
      <4>5. Keeps(conn, conn') BY <4>1, <4>4, <2>MutationKeeps, KeepsTrans
      <4> QED BY <3>1, <3>4, <4>3, <4>5, <2>SilentStep
    <3> QED BY <3>2, <3>3, <3>4

  \* muxer.recv_pkt.
  <2>RecvPktOrder.
    ASSUME TypeOK, OrderInv, MuxerRecvPkt
    PROVE  OrderInv'
    <3> USE <2>RecvPktOrder
    <3>1. PICK r \in recv_pkt(conn) :
            /\ toGuest' = toGuest \o r.pkts
            /\ IF r.pkts # <<>> /\ Head(r.pkts).op = "RST"
               THEN remove_connection
               ELSE apply_conn_mutation(r.conn) /\ UNCHANGED in_map
      BY Zenon DEF MuxerRecvPkt
    <3>2. in_map /\ UNCHANGED rst_due /\ Matches(conn, toGuest) /\ Ordered(toGuest) /\ ~rst_due
      BY DEF MuxerRecvPkt, OrderInv
    <3>3. r.conn \in Connections
      BY RecvPktType DEF Yielded, TypeOK
    <3>4. toGuest \in Seq(HostPkts) BY DEF TypeOK
    <3>5. CASE r.pkts = <<>> /\ Keeps(conn, r.conn)
      <4>1. UNCHANGED toGuest BY <3>1, <3>4, <3>5
      <4>2. Keeps(conn, conn') /\ UNCHANGED in_map
        BY <3>1, <3>3, <3>5, <2>MutationKeeps, KeepsTrans
      <4> QED BY <3>2, <4>1, <4>2, <2>SilentStep
    <3>6. ASSUME NEW p \in HostPkts, r.pkts = <<p>>, Kinds(conn, r.conn, p.op)
          PROVE  OrderInv'
      <4>1. toGuest' = Append(toGuest, p) BY <3>1, <3>4, <3>6
      <4>2. Head(r.pkts) = p /\ r.pkts # <<>> BY <3>6
      <4>3. Ordered(toGuest')
        <5>1. \/ p.op = "RST"
              \/ /\ \A i \in 1 .. Len(toGuest) :
                      /\ toGuest[i].op # "RST"
                      /\ p.op = "RW" => toGuest[i].op # "SHUTDOWN"
                 /\ p.op \in {"REQUEST", "RESPONSE"} => toGuest = <<>>
          BY <3>2, <3>6 DEF Kinds, Matches
        <5> QED BY <3>2, <3>4, <4>1, <5>1, <2>AppendOrder
      <4>4. CASE p.op = "RST"
        BY <3>1, <4>2, <4>3, <4>4 DEF remove_connection, OrderInv
      <4>5. CASE p.op # "RST"
        <5>1. apply_conn_mutation(r.conn) /\ UNCHANGED in_map BY <3>1, <4>2, <4>5
        <5>2. Keeps(r.conn, conn') BY <3>3, <5>1, <2>MutationKeeps
        <5>3. Matches(r.conn, toGuest') BY <3>2, <3>4, <3>6, <4>1, <4>5, <2>AppendMatch
        <5>4. Matches(conn', toGuest') BY <5>2, <5>3, <2>KeepsMatch
        <5> QED BY <3>2, <4>3, <5>4 DEF OrderInv
      <4> QED BY <4>4, <4>5
    <3>7. Yields(conn, r) BY <2>RecvPktYields DEF TypeOK
    <3> QED BY <3>5, <3>6, <3>7 DEF Yields

  <2>Step.
    ASSUME TypeOK, TxBufFits, OrderInv, Host
    PROVE  OrderInv'
    <3> USE <2>Step
    <3>1. CASE MuxerRecvRst
      <4> DEFINE p == [op |-> "RST", len |-> 0, flags |-> {}, fwd_cnt |-> 0]
      <4>1. p \in HostPkts /\ p.op = "RST" BY DEF HostPkts, Ops, Counter
      <4>2. toGuest' = Append(toGuest, p) /\ rst_due /\ UNCHANGED in_map
        BY <3>1 DEF MuxerRecvRst
      <4> HIDE DEF p
      <4>3. Ordered(toGuest') BY <4>1, <4>2, <2>AppendOrder DEF OrderInv, TypeOK
      <4> QED BY <4>2, <4>3 DEF OrderInv
    <3>2. ASSUME NEW ev \in SUBSET {"EPOLLIN", "EPOLLOUT"}, HandleEvent(ev) PROVE OrderInv'
      <4>1. PICK d \in notify(conn, ev) : apply_conn_mutation(d) BY <3>2 DEF HandleEvent
      <4>2. d \in Connections /\ Keeps(conn, d)
        BY NotifyAccounting, <2>NotifyKeeps DEF Accounting, TypeOK
      <4>3. Keeps(conn, conn') BY <4>1, <4>2, <2>MutationKeeps, KeepsTrans
      <4> QED BY <3>2, <4>3, <2>SilentStep DEF HandleEvent
    <3>3. CASE ExpiryPasses
      <4>1. conn'.state = conn.state /\ conn'.pending_rx = conn.pending_rx
        BY <3>3 DEF ExpiryPasses, TypeOK, Connections
      <4>2. Keeps(conn, conn') BY <4>1 DEF Keeps
      <4> QED BY <3>3, <4>2, <2>SilentStep DEF ExpiryPasses
    <3>4. CASE SweepKillq
      <4>1. Keeps(conn, conn') BY <3>4, KillKeeps DEF SweepKillq, TypeOK
      <4> QED BY <3>4, <4>1, <2>SilentStep DEF SweepKillq
    <3> QED BY <3>1, <3>2, <3>3, <3>4, <2>SendPktOrder, <2>RecvPktOrder DEF Host
  <2> QED BY <2>Step

\* The steps of the guest only take packets.
<1>GuestOrder.
  ASSUME TypeOK, OrderInv, Guest
  PROVE  OrderInv'
  <2> USE <1>GuestOrder
  <2>1. UNCHANGED <<conn, in_map, rst_due>>
    BY DEF Guest, GuestRecv, GuestSend, GuestRead, GuestResize, GuestAskCredit,
           GuestShutdown, GuestReset
  <2>2. CASE UNCHANGED toGuest BY <2>1, <2>2 DEF OrderInv, Ordered
  <2>3. CASE toGuest # <<>> /\ toGuest' = Tail(toGuest)
    BY <2>1, <2>3, <1>TailOrder DEF OrderInv, TypeOK
  <2> QED BY <2>2, <2>3 DEF Guest, GuestRecv, GuestSend, GuestRead, GuestResize,
                            GuestAskCredit, GuestShutdown, GuestReset

\* The connection has just been added.
<1>InitOrder. Init => OrderInv
  <2> SUFFICES ASSUME Init PROVE OrderInv
    OBVIOUS
  <2>1. ~(Opening \subseteq conn.pending_rx)
    BY DEF Init, new_peer_init, new_local_init, NewConnection, Opening
  <2> QED BY <2>1 DEF Init, OrderInv, Ordered, Matches

<1>1. ASSUME OrderInv, TypeOK, WindowInv, [Next]_vars PROVE OrderInv'
  <2>1. CASE UNCHANGED vars BY <1>1, <2>1, ZenonT(40) DEF vars, OrderInv, Ordered
  <2>2. CASE Next BY <1>1, <2>2, WindowFits, <1>HostOrder, <1>GuestOrder DEF Next
  <2> QED BY <1>1, <2>1, <2>2
<1> QED BY <1>1, <1>InitOrder, VsockInvariant, PTL DEF Spec

\* What the guest is given to read is ordered, for every length of its queue: after an
\* RST only RSTs, after a SHUTDOWN no data, and the handshake only at the front.
THEOREM VsockHostPktOrder == Spec => []HostPktOrder
<1>1. OrderInv => HostPktOrder BY DEF OrderInv, Ordered, HostPktOrder
<1> QED BY <1>1, OrderInvariant, PTL
============================================================================
