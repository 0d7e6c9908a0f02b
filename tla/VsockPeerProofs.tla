-------------------------- MODULE VsockPeerProofs --------------------------
(***************************************************************************)
(* What the two peers of a connection rely on, for every buffer size,      *)
(* threshold, counter width, packet size and queue length: the guest, that *)
(* the receive buffer it announces is not overrun as long as it does not   *)
(* shrink it (GuestBufFits); the muxer, that a connection behaves as in    *)
(* the view the muxer has of it (ImplementsView).                          *)
(***************************************************************************)
EXTENDS VsockConnectionProofs, VsockRefinesView

\* The provers a step is given to, in turn, where it does not name one.
USE SMTT(10), ZenonT(20), SMTT(40)

USE ModulusAssumption, TxBufAssumption, ThresholdAssumption, GuestAssumption,
    BoundsAssumption

----------------------------------------------------------------------------
(* The guest's receive buffer.                                               *)

\* The payload of a host packet.
Load(pkt) == IF pkt.op = "RW" THEN pkt.len ELSE 0

\* The packets of q carry d bytes in all: pos[i] is what the ones before i carry.
InTransit(q, d) ==
  \E pos \in [1 .. Len(q) + 1 -> Nat] :
    /\ pos[1] = 0
    /\ pos[Len(q) + 1] = d
    /\ \A i \in 1 .. Len(q) : pos[i + 1] = pos[i] + Load(q[i])
    /\ \A i, j \in 1 .. Len(q) + 1 : i <= j => pos[i] <= pos[j]

\* What the guest announces in the packets q under way: counts of bytes read
\* that lie, in order, between the count p the host last heard and the guest's
\* own f, and buffer sizes that grow from a, the last one heard, to s, its own.
ReadQueue(q, p, f, a, s) ==
  /\ \A i \in 1 .. Len(q) :
       /\ WSub(q[i].fwd_cnt, p) <= WSub(f, p)
       /\ a <= q[i].buf_alloc /\ q[i].buf_alloc <= s
  /\ \A i, j \in 1 .. Len(q) : i < j =>
       /\ WSub(q[i].fwd_cnt, p) <= WSub(q[j].fwd_cnt, p)
       /\ q[i].buf_alloc <= q[j].buf_alloc

\* The host has sent x bytes, of which the guest received r and read f; it knows
\* of p bytes read and a buffer of a bytes, and the guest's buffer has s.
RecvCounts(x, p, a, r, f, s) ==
  /\ WSub(x, p) <= a
  /\ a <= s
  /\ WSub(f, p) <= WSub(r, p)
  /\ WSub(r, p) <= WSub(x, p)

\* What the host has sent stays within the buffer it was told of, however late
\* the counts and sizes it heard are, and every byte of it the guest has not
\* received is under way.
RecvBounds(c, g, qh, qg) ==
  /\ RecvCounts(c.rx_cnt, c.peer_fwd_cnt, c.peer_buf_alloc, g.rx_cnt, g.fwd_cnt,
                g.buf_alloc)
  /\ ReadQueue(qh, c.peer_fwd_cnt, g.fwd_cnt, c.peer_buf_alloc, g.buf_alloc)
  /\ InTransit(qg, WSub(c.rx_cnt, g.rx_cnt))

\* The inductive form of GuestBufFits, for a guest that never shrinks its buffer.
RecvWindow ==
  in_map /\ guest.state # "Closed" => RecvBounds(conn, guest, toHost, toGuest)

\* The counts after the host has sent n bytes.
Sent(x, p, a, r, f, s, n) ==
  /\ RecvCounts(WAdd(x, n), p, a, r, f, s)
  /\ WSub(WAdd(x, n), r) = WSub(x, r) + n

\* HasRx(c), RxSame(c, d): what a change of the connection leaves alone when it
\* neither sends data to the guest nor hears from it.
HasRx(c) == {"rx_cnt", "peer_fwd_cnt", "peer_buf_alloc"} \subseteq DOMAIN c

RxSame(c, d) ==
  /\ HasRx(d)
  /\ d.rx_cnt = c.rx_cnt /\ d.peer_fwd_cnt = c.peer_fwd_cnt
  /\ d.peer_buf_alloc = c.peer_buf_alloc

\* What recv_pkt yields carries no data, or n bytes that the credit allows, which
\* rx_cnt counts.
Carries(c, r) ==
  \/ /\ RxSame(c, r.conn)
     /\ r.pkts = <<>> \/ \E e : r.pkts = <<e>> /\ e.op # "RW"
  \/ \E n \in 1 .. MaxPkt :
       /\ n <= peer_avail_credit(c)
       /\ HasRx(r.conn) /\ r.conn.rx_cnt = WAdd(c.rx_cnt, n)
       /\ r.conn.peer_fwd_cnt = c.peer_fwd_cnt
       /\ r.conn.peer_buf_alloc = c.peer_buf_alloc
       /\ \E e : r.pkts = <<e>> /\ e.op = "RW" /\ e.len = n

\* The guest posts nothing, or a packet with its own count and buffer size.
Announces(g) ==
  \/ UNCHANGED toHost
  \/ \E e \in GuestPkts : /\ e.fwd_cnt = g.fwd_cnt /\ e.buf_alloc = g.buf_alloc
                         /\ toHost' = Append(toHost, e)

\* A guest that never shrinks the receive buffer it has announced.
NeverShrinks == [][guest.buf_alloc <= guest'.buf_alloc]_vars

\* The host never has more unread bytes under way to a guest than its receive
\* buffer holds (peer_avail_credit, recv_pkt), for every counter width, buffer
\* size and delay of what the guest announces. A guest that shrinks its buffer
\* while data is under way is not covered, and cannot be: the host learns of it
\* too late.
THEOREM VsockGuestBufFits == Spec /\ NeverShrinks => []GuestBufFits
\* The types of what the receive window is made of.
<1>RecvTypes.
  ASSUME TypeOK
  PROVE  /\ conn.rx_cnt \in Counter /\ conn.peer_fwd_cnt \in Counter
         /\ conn.peer_buf_alloc \in Counter
         /\ guest.rx_cnt \in Counter /\ guest.fwd_cnt \in Counter
         /\ guest.buf_alloc \in Counter
         /\ toHost \in Seq(GuestPkts) /\ toGuest \in Seq(HostPkts)
         /\ WSub(conn.rx_cnt, guest.rx_cnt) \in Nat
  <2> USE <1>RecvTypes
  <2>1. /\ conn.rx_cnt \in Counter /\ conn.peer_fwd_cnt \in Counter
        /\ conn.peer_buf_alloc \in Counter
        /\ guest.rx_cnt \in Counter /\ guest.fwd_cnt \in Counter
        /\ guest.buf_alloc \in Counter
    BY DEF TypeOK, Connections, Guests
  <2>2. toHost \in Seq(GuestPkts) /\ toGuest \in Seq(HostPkts)
    BY DEF TypeOK
  <2> QED BY <2>1, <2>2, CounterClosed

\* The steps of the host keep the receive window.
<1>HostRecv. TypeOK /\ TypeOK' /\ RecvWindow /\ Host => RecvWindow'
\* The host sends n bytes of the credit it has.
  <2>CountsSent.
    ASSUME NEW x \in Counter, NEW p \in Counter, NEW a \in Counter, NEW r \in Counter,
           NEW f \in Counter, NEW s \in Counter, NEW n \in Nat,
           n <= WSub(a, WSub(x, p)), RecvCounts(x, p, a, r, f, s)
    PROVE  Sent(x, p, a, r, f, s, n)
    <3> USE <2>CountsSent
    <3>1. PICK w : w = WSub(x, p)
      OBVIOUS
    <3>2. w \in Counter /\ w <= a
      BY <3>1, CounterClosed DEF RecvCounts
    <3>3. WSub(a, w) = a - w
      BY <3>2 DEF WSub, Counter
    <3>4. w + n <= a /\ w + n < Modulus /\ w \in Nat
      BY <3>1, <3>2, <3>3 DEF Counter
    <3>5. WAdd(x, n) \in Counter /\ WSub(WAdd(x, n), p) = w + n
      BY <3>1, <3>4, AdvanceEnd
    <3>6. WSub(r, p) \in Nat /\ WSub(r, p) <= w
      BY <3>1, CounterClosed DEF RecvCounts
    <3>7. WSub(WAdd(x, n), r) = w + n - WSub(r, p)
      <4>1. PICK y \in Counter : y = WAdd(x, n) /\ WSub(y, p) = w + n
        BY <3>5
      <4>2. WSub(r, p) <= WSub(y, p)
        BY <3>4, <3>6, <4>1
      <4>3. WSub(y, r) = WSub(y, p) - WSub(r, p)
        BY <4>2, Distance
      <4> QED BY <3>4, <3>6, <4>1, <4>3
    <3>8. WSub(x, r) = w - WSub(r, p)
      BY <3>1, <3>6, Distance
    <3>9. RecvCounts(WAdd(x, n), p, a, r, f, s)
      BY <3>4, <3>5, <3>6 DEF RecvCounts
    <3>10. WSub(WAdd(x, n), r) = WSub(x, r) + n
      BY <3>4, <3>6, <3>7, <3>8
    <3> QED BY <3>9, <3>10 DEF Sent

  \* The host hears a later count h and a buffer that has not shrunk.
  <2>CountsHeard.
    ASSUME NEW x \in Counter, NEW p \in Counter, NEW a \in Counter, NEW r \in Counter,
           NEW f \in Counter, NEW s \in Counter, NEW h \in Counter, NEW b \in Counter,
           WSub(h, p) <= WSub(f, p), a <= b, b <= s, RecvCounts(x, p, a, r, f, s)
    PROVE  RecvCounts(x, h, b, r, f, s)
    <3> USE <2>CountsHeard
    <3>1. WSub(x, p) <= a /\ WSub(f, p) <= WSub(r, p) /\ WSub(r, p) <= WSub(x, p)
      BY DEF RecvCounts
    <3>2. /\ WSub(f, p) \in Nat /\ WSub(r, p) \in Nat /\ WSub(x, p) \in Nat
          /\ WSub(h, p) \in Nat /\ a \in Nat /\ b \in Nat
      BY CounterClosed DEF Counter
    <3>3. WSub(h, p) <= WSub(r, p) /\ WSub(h, p) <= WSub(x, p)
      BY <3>1, <3>2
    <3>4. /\ WSub(x, h) = WSub(x, p) - WSub(h, p)
          /\ WSub(r, h) = WSub(r, p) - WSub(h, p)
          /\ WSub(f, h) = WSub(f, p) - WSub(h, p)
      BY <3>3, Distance
    <3> QED BY <3>1, <3>2, <3>4 DEF RecvCounts

  \* The host hears the first packet of its queue.
  <2>ReadTaken.
    ASSUME NEW q \in Seq(GuestPkts), q # <<>>, NEW p \in Counter, NEW f \in Counter,
           NEW a \in Counter, NEW s \in Counter, ReadQueue(q, p, f, a, s)
    PROVE  /\ Head(q).fwd_cnt \in Counter /\ Head(q).buf_alloc \in Counter
           /\ WSub(Head(q).fwd_cnt, p) <= WSub(f, p)
           /\ a <= Head(q).buf_alloc /\ Head(q).buf_alloc <= s
           /\ ReadQueue(Tail(q), Head(q).fwd_cnt, f, Head(q).buf_alloc, s)
    <3> USE <2>ReadTaken
    <3> DEFINE r == Tail(q)
               h == Head(q).fwd_cnt
               b == Head(q).buf_alloc
    <3>1. /\ Len(q) \in Nat /\ Len(q) >= 1
          /\ Head(q) = q[1]
          /\ Len(r) = Len(q) - 1
          /\ \A i \in 1 .. Len(r) : r[i] = q[i + 1]
      BY SeqTake, SeqEmpty
    <3>2. ASSUME NEW i \in 1 .. Len(q)
          PROVE  q[i].fwd_cnt \in Counter /\ q[i].buf_alloc \in Counter
      <4>1. q[i] \in GuestPkts
        BY SeqEntry
      <4> QED BY <4>1 DEF GuestPkts
    <3>3. h \in Counter /\ h = q[1].fwd_cnt /\ b \in Counter /\ b = q[1].buf_alloc
      BY <3>1, <3>2
    <3>4. WSub(h, p) <= WSub(f, p) /\ a <= b /\ b <= s
      BY <3>1 DEF ReadQueue
    <3> HIDE DEF r, h, b
    <3>5. WSub(h, p) \in Nat /\ WSub(f, p) \in Nat
      BY <3>3, CounterClosed
    <3>6. WSub(f, h) = WSub(f, p) - WSub(h, p)
      BY <3>3, <3>4, Distance
    <3>7. ASSUME NEW i \in 2 .. Len(q)
          PROVE  /\ WSub(q[i].fwd_cnt, p) \in Nat
                 /\ WSub(q[i].fwd_cnt, h) = WSub(q[i].fwd_cnt, p) - WSub(h, p)
                 /\ WSub(q[i].fwd_cnt, p) <= WSub(f, p)
                 /\ b <= q[i].buf_alloc /\ q[i].buf_alloc <= s
      <4>1. i \in 1 .. Len(q) /\ 1 \in 1 .. Len(q) /\ 1 < i
        BY <3>1
      <4>2. /\ WSub(h, p) <= WSub(q[i].fwd_cnt, p) /\ b <= q[i].buf_alloc
            /\ WSub(q[i].fwd_cnt, p) <= WSub(f, p) /\ q[i].buf_alloc <= s
        BY <3>3, <4>1 DEF ReadQueue
      <4>3. q[i].fwd_cnt \in Counter
        BY <3>2, <4>1
      <4>4. WSub(q[i].fwd_cnt, h) = WSub(q[i].fwd_cnt, p) - WSub(h, p)
        BY <3>3, <4>2, <4>3, Distance
      <4>5. WSub(q[i].fwd_cnt, p) \in Nat
        BY <4>3, CounterClosed
      <4> QED BY <4>2, <4>4, <4>5
    <3>8. ASSUME NEW i \in 1 .. Len(r)
          PROVE  /\ WSub(r[i].fwd_cnt, h) <= WSub(f, h)
                 /\ b <= r[i].buf_alloc /\ r[i].buf_alloc <= s
      <4>1. i + 1 \in 2 .. Len(q) /\ r[i] = q[i + 1]
        BY <3>1
      <4>2. /\ WSub(q[i + 1].fwd_cnt, p) \in Nat
            /\ WSub(q[i + 1].fwd_cnt, h) = WSub(q[i + 1].fwd_cnt, p) - WSub(h, p)
            /\ WSub(q[i + 1].fwd_cnt, p) <= WSub(f, p)
            /\ b <= q[i + 1].buf_alloc /\ q[i + 1].buf_alloc <= s
        BY <3>7, <4>1
      <4> QED BY <3>5, <3>6, <4>1, <4>2
    <3>9. ASSUME NEW i \in 1 .. Len(r), NEW j \in 1 .. Len(r), i < j
          PROVE  /\ WSub(r[i].fwd_cnt, h) <= WSub(r[j].fwd_cnt, h)
                 /\ r[i].buf_alloc <= r[j].buf_alloc
      <4>1. /\ i + 1 \in 2 .. Len(q) /\ r[i] = q[i + 1] /\ i + 1 \in 1 .. Len(q)
            /\ j + 1 \in 2 .. Len(q) /\ r[j] = q[j + 1] /\ j + 1 \in 1 .. Len(q)
            /\ i + 1 < j + 1
        BY <3>1, <3>9
      <4>2. /\ WSub(q[i + 1].fwd_cnt, p) <= WSub(q[j + 1].fwd_cnt, p)
            /\ q[i + 1].buf_alloc <= q[j + 1].buf_alloc
        BY <4>1 DEF ReadQueue
      <4>3. /\ WSub(q[i + 1].fwd_cnt, p) \in Nat /\ WSub(q[j + 1].fwd_cnt, p) \in Nat
            /\ WSub(q[i + 1].fwd_cnt, h) = WSub(q[i + 1].fwd_cnt, p) - WSub(h, p)
            /\ WSub(q[j + 1].fwd_cnt, h) = WSub(q[j + 1].fwd_cnt, p) - WSub(h, p)
        BY <3>7, <4>1
      <4> QED BY <3>5, <4>1, <4>2, <4>3
    <3>10. ReadQueue(r, h, f, b, s)
      BY <3>8, <3>9 DEF ReadQueue
    <3> QED BY <3>3, <3>4, <3>10 DEF r, h, b

  \* One more packet under way to the guest.
  <2>TransitAppend.
    ASSUME NEW q \in Seq(HostPkts), NEW d \in Nat, NEW e \in HostPkts, InTransit(q, d)
    PROVE  InTransit(Append(q, e), d + Load(e))
    <3> USE <2>TransitAppend
    <3> DEFINE r == Append(q, e)
               l == Load(e)
    <3>1. /\ Len(q) \in Nat /\ Len(r) = Len(q) + 1
          /\ \A i \in 1 .. Len(q) : r[i] = q[i]
          /\ r[Len(q) + 1] = e
      BY SeqAdd, SeqEntries
    <3>2. l \in Nat
      BY DEF Load, HostPkts
    <3>3. PICK pos \in [1 .. Len(q) + 1 -> Nat] :
            /\ pos[1] = 0
            /\ pos[Len(q) + 1] = d
            /\ \A i \in 1 .. Len(q) : pos[i + 1] = pos[i] + Load(q[i])
            /\ \A i, j \in 1 .. Len(q) + 1 : i <= j => pos[i] <= pos[j]
      BY DEF InTransit
    <3> HIDE DEF r, l
    <3>4. PICK new : new = [i \in 1 .. Len(r) + 1 |-> IF i <= Len(q) + 1 THEN pos[i] ELSE d + l]
      BY Zenon
    <3>5. /\ \A i \in 1 .. Len(q) + 1 : new[i] = pos[i] /\ pos[i] \in Nat
          /\ new[Len(r) + 1] = d + l
          /\ new \in [1 .. Len(r) + 1 -> Nat]
      BY <3>1, <3>2, <3>4
    <3>6. new[1] = 0 /\ new[Len(r) + 1] = d + l
      BY <3>1, <3>3, <3>5
    <3>7. ASSUME NEW i \in 1 .. Len(r) PROVE new[i + 1] = new[i] + Load(r[i])
      <4>1. CASE i = Len(q) + 1
        <5>1. i + 1 = Len(r) + 1 /\ i \in 1 .. Len(q) + 1 /\ Load(r[i]) = l
          BY <3>1, <4>1 DEF l
        <5> QED BY <3>3, <3>5, <4>1, <5>1
      <4>2. CASE i # Len(q) + 1
        <5>1. i \in 1 .. Len(q) /\ i \in 1 .. Len(q) + 1 /\ i + 1 \in 1 .. Len(q) + 1
          BY <3>1, <4>2
        <5>2. pos[i + 1] = pos[i] + Load(q[i]) /\ r[i] = q[i]
          BY <3>1, <3>3, <5>1
        <5>3. new[i] = pos[i] /\ new[i + 1] = pos[i + 1]
          BY <3>5, <5>1
        <5> QED BY <5>2, <5>3
      <4> QED BY <4>1, <4>2
    <3>8. ASSUME NEW i \in 1 .. Len(r) + 1, NEW j \in 1 .. Len(r) + 1, i <= j
          PROVE  new[i] <= new[j]
      <4>1. CASE j \in 1 .. Len(q) + 1
        <5>1. i \in 1 .. Len(q) + 1
          BY <3>1, <3>8, <4>1
        <5>2. pos[i] <= pos[j] /\ new[i] = pos[i] /\ new[j] = pos[j]
          BY <3>3, <3>5, <3>8, <4>1, <5>1
        <5> QED BY <5>2
      <4>2. CASE j = Len(r) + 1 /\ i \in 1 .. Len(q) + 1
        <5>1. Len(q) + 1 \in 1 .. Len(q) + 1 /\ i <= Len(q) + 1
          BY <3>1, <4>2
        <5>2. pos[i] <= d /\ pos[i] \in Nat /\ new[i] = pos[i] /\ new[j] = d + l
          BY <3>3, <3>5, <4>2, <5>1
        <5> QED BY <3>2, <5>2
      <4>3. CASE j = Len(r) + 1 /\ i = Len(r) + 1
        BY <3>2, <3>5, <4>3
      <4> QED BY <3>1, <4>1, <4>2, <4>3
    <3>9. InTransit(r, d + l)
      BY <3>5, <3>6, <3>7, <3>8, Zenon DEF InTransit
    <3> QED BY <3>9 DEF r, l

  \* A connection has these fields.
  <2>ConnectionRx.
    ASSUME NEW c \in Connections
    PROVE  HasRx(c) /\ RxSame(c, c)
    BY <2>ConnectionRx DEF Connections, HasRx, RxSame

  \* kill, Indicate and IndicateCredit keep them.
  <2>KillRx.
    ASSUME NEW c, HasRx(c), NEW it
    PROVE  RxSame(c, kill(c)) /\ RxSame(c, Indicate(c, it)) /\ RxSame(c, IndicateCredit(c))
    <3> USE <2>KillRx
    <3>1. RxSame(c, c) /\ RxSame(c, Indicate(c, it)) /\ RxSame(c, Indicate(c, "CreditUpdate"))
      BY DEF HasRx, RxSame, Indicate
    <3>2. RxSame(c, IndicateCredit(c))
      BY <3>1 DEF IndicateCredit
    <3>3. RxSame(c, kill(c))
      BY DEF HasRx, RxSame, Indicate, kill
    <3> QED BY <3>1, <3>2, <3>3

  \* So do TxBuf::push and send_bytes.
  <2>SendBytesRx.
    ASSUME NEW c, HasRx(c), NEW n, NEW d \in send_bytes(c, n)
    PROVE  RxSame(c, d)
    <3> USE <2>SendBytesRx
    <3>1. ASSUME NEW e, HasRx(e), NEW m PROVE RxSame(e, push(e, m))
      <4>1. PICK b : b = [e EXCEPT !.tx_len = @ + m]
        BY Zenon
      <4>2. RxSame(e, b) /\ HasRx(b)
        BY <3>1, <4>1 DEF HasRx, RxSame
      <4>3. RxSame(b, IndicateCredit(b)) /\ RxSame(e, kill(e))
        BY <3>1, <4>2, <2>KillRx
      <4>4. push(e, m) \in {kill(e), IndicateCredit(b)}
        BY <4>1 DEF push
      <4> QED BY <4>2, <4>3, <4>4 DEF RxSame
    <3>2. CASE d = push(c, n) \/ d = kill(c)
      BY <3>1, <3>2, <2>KillRx
    <3>3. ASSUME NEW w \in 0 .. n, d = push([c EXCEPT !.fwd_cnt = WAdd(@, w)], n - w)
          PROVE  RxSame(c, d)
      <4>1. PICK e : e = [c EXCEPT !.fwd_cnt = WAdd(@, w)]
        BY Zenon
      <4>2. RxSame(c, e) /\ HasRx(e)
        BY <4>1 DEF HasRx, RxSame
      <4>3. RxSame(e, d)
        BY <3>1, <3>3, <4>1, <4>2
      <4> QED BY <4>2, <4>3 DEF RxSame
    <3> QED BY <3>2, <3>3, Zenon DEF send_bytes

  \* send_pkt takes the guest's count and buffer size from the packet, whatever
  \* becomes of the packet.
  <2>SendPktRx.
    ASSUME NEW c \in Connections, NEW pkt, NEW d \in send_pkt(c, pkt)
    PROVE  /\ HasRx(d) /\ d.rx_cnt = c.rx_cnt
           /\ d.peer_fwd_cnt = pkt.fwd_cnt /\ d.peer_buf_alloc = pkt.buf_alloc
    <3> USE <2>SendPktRx
    <3> DEFINE b == [c EXCEPT !.peer_buf_alloc = pkt.buf_alloc,
                              !.peer_fwd_cnt = pkt.fwd_cnt]
               closed == [b EXCEPT !.state = "PeerClosed", !.off = @ \cup pkt.flags]
               armed == [closed EXCEPT !.expiry = "Armed"]
               est == [b EXCEPT !.expiry = "None", !.state = "Established"]
               upd == Indicate(b, "CreditUpdate")
               rst == Indicate(closed, "Rst")
    <3>1. /\ HasRx(b) /\ b.rx_cnt = c.rx_cnt
          /\ b.peer_fwd_cnt = pkt.fwd_cnt /\ b.peer_buf_alloc = pkt.buf_alloc
      BY DEF HasRx, Connections
    <3>2. d \in send_bytes(b, pkt.len) \/ d \in {b, closed, armed, est, upd, rst}
      BY DEF send_pkt
    <3> HIDE DEF b
    <3>3. RxSame(b, closed) /\ HasRx(closed)
      BY <3>1 DEF HasRx, RxSame
    <3>4. RxSame(b, est)
      BY <3>1 DEF HasRx, RxSame
    <3> HIDE DEF closed, est
    <3>5. RxSame(closed, armed)
      BY <3>3 DEF HasRx, RxSame
    <3>6. RxSame(b, upd) /\ RxSame(closed, rst)
      BY <3>1, <3>3, <2>KillRx
    <3> HIDE DEF armed, upd, rst
    <3>7. RxSame(b, armed) /\ RxSame(b, rst) /\ RxSame(b, b)
      BY <3>1, <3>3, <3>5, <3>6 DEF RxSame
    <3>8. RxSame(b, d)
      BY <3>1, <3>2, <3>3, <3>4, <3>6, <3>7, <2>SendBytesRx
    <3> QED BY <3>1, <3>8 DEF RxSame

  \* notify and the muxer's bookkeeping after a mutation keep them.
  <2>NotifyRx.
    ASSUME NEW c, HasRx(c), NEW ev, NEW d \in notify(c, ev)
    PROVE  RxSame(c, d)
    <3> USE <2>NotifyRx
    <3> DEFINE b == IF "EPOLLIN" \in ev THEN Indicate(c, "Rw") ELSE c
               After(x) == IF x.state = "PeerClosed" /\ x.off = Flags /\ x.tx_len = 0
                           THEN Indicate(x, "Rst") ELSE IndicateCredit(x)
               flushed(n) == [b EXCEPT !.tx_len = @ - n, !.fwd_cnt = WAdd(@, n)]
    <3>1. \/ d = b
          \/ d = After(kill(b))
          \/ \E n \in 0 .. b.tx_len : d = After(flushed(n))
      BY Zenon DEF notify, FlushOut
    <3>2. RxSame(c, b) /\ HasRx(b)
      <4>1. RxSame(c, c) /\ RxSame(c, Indicate(c, "Rw"))
        BY <2>KillRx DEF RxSame
      <4> QED BY <4>1 DEF RxSame
    <3>3. ASSUME NEW x, HasRx(x) PROVE RxSame(x, After(x))
      <4>1. RxSame(x, Indicate(x, "Rst")) /\ RxSame(x, IndicateCredit(x))
        BY <3>3, <2>KillRx
      <4> QED BY <4>1
    <3> HIDE DEF b, After
    <3>4. ASSUME NEW n PROVE RxSame(b, flushed(n)) /\ HasRx(flushed(n))
      BY <3>2 DEF HasRx, RxSame
    <3> HIDE DEF flushed
    <3>5. RxSame(b, kill(b)) /\ HasRx(kill(b))
      BY <3>2, <2>KillRx DEF RxSame
    <3>6. CASE d = After(kill(b))
      <4>1. RxSame(kill(b), d)
        BY <3>3, <3>5, <3>6
      <4> QED BY <3>2, <3>5, <4>1 DEF RxSame
    <3>7. ASSUME NEW n, d = After(flushed(n)) PROVE RxSame(c, d)
      <4>1. RxSame(b, flushed(n)) /\ RxSame(flushed(n), d)
        BY <3>3, <3>4, <3>7
      <4> QED BY <3>2, <4>1 DEF RxSame
    <3> QED BY <3>1, <3>2, <3>6, <3>7

  \* The muxer's bookkeeping after a mutation keeps them.
  <2>MutationRx.
    ASSUME NEW d, HasRx(d), apply_conn_mutation(d)
    PROVE  RxSame(d, conn')
    <3> USE <2>MutationRx
    <3>1. PICK e \in {d, kill(d)} : conn' = e \/ conn' = kill(e)
      BY DEF apply_conn_mutation
    <3>2. RxSame(d, e) /\ HasRx(e)
      BY <2>KillRx DEF RxSame
    <3>3. RxSame(e, kill(e))
      BY <3>2, <2>KillRx
    <3> QED BY <3>1, <3>2, <3>3 DEF RxSame

  \* A packet without data.
  <2>YieldRx.
    ASSUME NEW c, NEW d, RxSame(c, d), NEW op, op # "RW"
    PROVE  Carries(c, Yield(d, op))
    <3> USE <2>YieldRx
    <3>1. PICK e : e = HostPkt(d, op, 0, {})
      OBVIOUS
    <3>2. e.op # "RW"
      BY <3>1 DEF HostPkt
    <3>3. Yield(d, op).conn = d /\ Yield(d, op).pkts = <<e>>
      BY <3>1 DEF Yield
    <3> QED BY <3>2, <3>3 DEF Carries

  \* The last resort of recv_pkt.
  <2>YieldCreditRx.
    ASSUME NEW c, HasRx(c)
    PROVE  Carries(c, YieldCredit(c))
    <3> USE <2>YieldCreditRx
    <3> DEFINE d == [c EXCEPT !.pending_rx = @ \ {"CreditUpdate"}]
               told == [d EXCEPT !.last_fwd_cnt_to_peer = d.fwd_cnt]
    <3>1. RxSame(c, d) /\ HasRx(d)
      BY DEF HasRx, RxSame
    <3> HIDE DEF d
    <3>2. RxSame(d, told)
      BY <3>1 DEF HasRx, RxSame
    <3> HIDE DEF told
    <3>3. RxSame(c, told)
      BY <3>1, <3>2 DEF RxSame
    <3>4. Carries(c, Yield(told, "CREDIT_UPDATE"))
      BY <3>3, <2>YieldRx
    <3>5. Carries(c, [conn |-> d, pkts |-> <<>>])
      BY <3>1 DEF Carries
    <3>6. YieldCredit(c) \in {Yield(told, "CREDIT_UPDATE"), [conn |-> d, pkts |-> <<>>]}
      BY DEF YieldCredit, told, d
    <3> QED BY <3>4, <3>5, <3>6

  \* Data of the host stream, its end, or an error.
  <2>YieldDataRx.
    ASSUME NEW c \in Connections, NEW r \in YieldData(c)
    PROVE  Carries(c, r)
    <3> USE <2>YieldDataRx
    <3> DEFINE told == [c EXCEPT !.last_fwd_cnt_to_peer = c.fwd_cnt]
               max_len == Least(MaxPkt, peer_avail_credit(c))
               sent(n) == [told EXCEPT !.rx_cnt = WAdd(@, n)]
               shut == [told EXCEPT !.state = "LocalClosed", !.off = {}, !.expiry = "Armed"]
               data(n) == [conn |-> sent(n), pkts |-> <<HostPkt(c, "RW", n, {})>>]
               eof == [conn |-> shut, pkts |-> <<HostPkt(c, "SHUTDOWN", 0, Flags)>>]
    <3>0. HasRx(c)
      BY <2>ConnectionRx
    <3>1. RxSame(c, told) /\ HasRx(told)
      BY <3>0 DEF HasRx, RxSame
    <3>2. \/ \E n \in 1 .. max_len : r = data(n)
          \/ r \in {eof, Yield(told, "RST"), YieldCredit(c)}
      BY Zenon DEF YieldData
    <3> HIDE DEF told
    <3>3. RxSame(told, shut)
      BY <3>1 DEF HasRx, RxSame
    <3>4. ASSUME NEW n
          PROVE  /\ HasRx(sent(n)) /\ sent(n).rx_cnt = WAdd(c.rx_cnt, n)
                 /\ sent(n).peer_fwd_cnt = c.peer_fwd_cnt
                 /\ sent(n).peer_buf_alloc = c.peer_buf_alloc
      BY <3>1 DEF HasRx, RxSame
    <3> HIDE DEF sent, shut
    <3>5. CASE r = eof
      <4>1. PICK e : e = HostPkt(c, "SHUTDOWN", 0, Flags)
        OBVIOUS
      <4>2. e.op # "RW"
        BY <4>1 DEF HostPkt
      <4>3. r.conn = shut /\ r.pkts = <<e>>
        BY <3>5, <4>1
      <4>4. RxSame(c, shut)
        BY <3>1, <3>3 DEF RxSame
      <4> QED BY <4>2, <4>3, <4>4 DEF Carries
    <3>6. ASSUME NEW n \in 1 .. max_len, r = data(n) PROVE Carries(c, r)
      <4>1. PICK e : e = HostPkt(c, "RW", n, {})
        OBVIOUS
      <4>2. e.op = "RW" /\ e.len = n
        BY <4>1 DEF HostPkt
      <4>3. r.conn = sent(n) /\ r.pkts = <<e>>
        BY <3>6, <4>1
      <4>4. peer_avail_credit(c) \in Counter
        BY CounterClosed DEF peer_avail_credit, Connections
      <4>5. n \in 1 .. MaxPkt /\ n <= peer_avail_credit(c)
        BY <4>4 DEF Least, Counter
      <4> HIDE DEF max_len, data, eof
      <4> QED BY <3>4, <4>2, <4>3, <4>5 DEF Carries
    <3>7. Carries(c, Yield(told, "RST")) /\ Carries(c, YieldCredit(c))
      BY <3>0, <3>1, <2>YieldRx, <2>YieldCreditRx
    <3> HIDE DEF data, eof, max_len
    <3> QED BY <3>2, <3>5, <3>6, <3>7

  \* recv_pkt sends no more than the credit it has.
  <2>RecvPktRx.
    ASSUME NEW c \in Connections, NEW r \in recv_pkt(c)
    PROVE  Carries(c, r)
    <3> USE <2>RecvPktRx
    <3> DEFINE Without(it) == [c EXCEPT !.pending_rx = @ \ {it}]
               d == Without("Rw")
               rst == Without("Rst")
               resp == [Without("Response") EXCEPT !.state = "Established", !.off = {}]
               req == [Without("Request") EXCEPT !.expiry = "Armed"]
               ask == [d EXCEPT !.last_fwd_cnt_to_peer = d.fwd_cnt]
    <3>1. d \in Connections
      BY DEF Connections
    <3>2. RxSame(c, d) /\ RxSame(c, rst)
      BY DEF Connections, HasRx, RxSame
    <3>3. RxSame(c, resp)
      BY DEF Connections, HasRx, RxSame
    <3>4. RxSame(c, req)
      BY DEF Connections, HasRx, RxSame
    <3>5. \/ r \in {Yield(rst, "RST"), Yield(resp, "RESPONSE"), Yield(req, "REQUEST"),
                    Yield(d, "RST"), Yield(ask, "CREDIT_REQUEST")}
          \/ r \in YieldData(d)
          \/ r = YieldCredit(c)
      BY DEF recv_pkt
    <3> HIDE DEF Without, d, rst, resp, req
    <3>6. RxSame(d, ask)
      BY <3>2 DEF HasRx, RxSame
    <3> HIDE DEF ask
    <3>7. RxSame(c, ask)
      BY <3>2, <3>6 DEF RxSame
    <3>8. ASSUME Carries(d, r) PROVE Carries(c, r)
      <4>1. peer_avail_credit(d) = peer_avail_credit(c)
        BY <3>2 DEF RxSame, peer_avail_credit
      <4>2. RxSame(d, r.conn) => RxSame(c, r.conn)
        BY <3>2 DEF RxSame
      <4>3. /\ d.rx_cnt = c.rx_cnt /\ d.peer_fwd_cnt = c.peer_fwd_cnt
            /\ d.peer_buf_alloc = c.peer_buf_alloc
        BY <3>2 DEF RxSame
      <4> QED BY <3>8, <4>1, <4>2, <4>3 DEF Carries
    <3>9. CASE r \in YieldData(d)
      BY <3>1, <3>8, <3>9, <2>YieldDataRx
    <3>10. CASE r = YieldCredit(c)
      BY <3>10, <2>ConnectionRx, <2>YieldCreditRx
    <3>11. CASE r \in {Yield(rst, "RST"), Yield(resp, "RESPONSE"), Yield(req, "REQUEST"),
                       Yield(d, "RST"), Yield(ask, "CREDIT_REQUEST")}
      BY <3>2, <3>3, <3>4, <3>7, <3>11, <2>YieldRx
    <3> QED BY <3>5, <3>9, <3>10, <3>11

  \* A step that changes nothing of the receive window.
  <2>RecvQuiet.
    ASSUME RecvBounds(conn, guest, toHost, toGuest), RxSame(conn, conn'),
           UNCHANGED <<toHost, toGuest, guest>>
    PROVE  RecvBounds(conn, guest, toHost, toGuest)'
    BY <2>RecvQuiet DEF RecvBounds, RxSame

  \* The host hears the guest.
  <2>RecvHeard.
    ASSUME TypeOK, RecvBounds(conn, guest, toHost, toGuest), toHost # <<>>,
           toHost' = Tail(toHost), UNCHANGED <<toGuest, guest>>,
           conn'.rx_cnt = conn.rx_cnt, conn'.peer_fwd_cnt = Head(toHost).fwd_cnt,
           conn'.peer_buf_alloc = Head(toHost).buf_alloc
    PROVE  RecvBounds(conn, guest, toHost, toGuest)'
    <3> USE <2>RecvHeard
    <3>1. PICK x, p, a, r, f, s, h, b :
            /\ x = conn.rx_cnt /\ p = conn.peer_fwd_cnt /\ a = conn.peer_buf_alloc
            /\ r = guest.rx_cnt /\ f = guest.fwd_cnt /\ s = guest.buf_alloc
            /\ h = Head(toHost).fwd_cnt /\ b = Head(toHost).buf_alloc
      OBVIOUS
    <3>2. /\ x \in Counter /\ p \in Counter /\ a \in Counter /\ r \in Counter
          /\ f \in Counter /\ s \in Counter /\ toHost \in Seq(GuestPkts)
      BY <3>1, <1>RecvTypes
    <3>3. /\ RecvCounts(x, p, a, r, f, s) /\ ReadQueue(toHost, p, f, a, s)
          /\ InTransit(toGuest, WSub(x, r))
      BY <3>1 DEF RecvBounds
    <3>4. /\ h \in Counter /\ b \in Counter /\ WSub(h, p) <= WSub(f, p)
          /\ a <= b /\ b <= s /\ ReadQueue(Tail(toHost), h, f, b, s)
      BY <3>1, <3>2, <3>3, <2>ReadTaken
    <3>5. RecvCounts(x, h, b, r, f, s)
      BY <3>2, <3>3, <3>4, <2>CountsHeard, Zenon
    <3> QED BY <3>1, <3>3, <3>4, <3>5 DEF RecvBounds

  \* A packet without data for the guest.
  <2>RecvSilent.
    ASSUME TypeOK, RecvBounds(conn, guest, toHost, toGuest), RxSame(conn, conn'),
           NEW e \in HostPkts, e.op # "RW", toGuest' = Append(toGuest, e),
           UNCHANGED <<toHost, guest>>
    PROVE  RecvBounds(conn, guest, toHost, toGuest)'
    <3> USE <2>RecvSilent
    <3>1. PICK d : d = WSub(conn.rx_cnt, guest.rx_cnt)
      OBVIOUS
    <3>2. d \in Nat /\ toGuest \in Seq(HostPkts) /\ InTransit(toGuest, d)
      BY <3>1, <1>RecvTypes DEF RecvBounds
    <3>3. InTransit(Append(toGuest, e), d + Load(e))
      BY <3>2, <2>TransitAppend
    <3>4. d + Load(e) = d
      BY <3>2 DEF Load
    <3>5. InTransit(toGuest', WSub(conn'.rx_cnt, guest'.rx_cnt))
      BY <3>1, <3>3, <3>4 DEF RxSame
    <3> QED BY <3>5 DEF RecvBounds, RxSame

  \* A packet of data for the guest.
  <2>RecvData.
    ASSUME TypeOK, RecvBounds(conn, guest, toHost, toGuest),
           NEW n \in 1 .. MaxPkt, n <= peer_avail_credit(conn),
           conn'.rx_cnt = WAdd(conn.rx_cnt, n),
           conn'.peer_fwd_cnt = conn.peer_fwd_cnt,
           conn'.peer_buf_alloc = conn.peer_buf_alloc,
           NEW e \in HostPkts, e.op = "RW", e.len = n, toGuest' = Append(toGuest, e),
           UNCHANGED <<toHost, guest>>
    PROVE  RecvBounds(conn, guest, toHost, toGuest)'
    <3> USE <2>RecvData
    <3>1. PICK x, p, a, r, f, s :
            /\ x = conn.rx_cnt /\ p = conn.peer_fwd_cnt /\ a = conn.peer_buf_alloc
            /\ r = guest.rx_cnt /\ f = guest.fwd_cnt /\ s = guest.buf_alloc
      OBVIOUS
    <3>2. /\ x \in Counter /\ p \in Counter /\ a \in Counter /\ r \in Counter
          /\ f \in Counter /\ s \in Counter /\ toGuest \in Seq(HostPkts)
          /\ WSub(x, r) \in Nat
      BY <3>1, <1>RecvTypes
    <3>3. /\ RecvCounts(x, p, a, r, f, s) /\ ReadQueue(toHost, p, f, a, s)
          /\ InTransit(toGuest, WSub(x, r))
      BY <3>1 DEF RecvBounds
    <3>4. n \in Nat /\ n <= WSub(a, WSub(x, p)) /\ Load(e) = n
      BY <3>1 DEF peer_avail_credit, Load
    <3>5. RecvCounts(WAdd(x, n), p, a, r, f, s) /\ WSub(WAdd(x, n), r) = WSub(x, r) + n
      <4>1. n <= WSub(a, WSub(x, p))
        BY <3>4
      <4>2. RecvCounts(x, p, a, r, f, s)
        BY <3>3
      <4>3. n \in Nat
        BY <3>4
      <4>4. Sent(x, p, a, r, f, s, n)
        BY <3>2, <4>1, <4>2, <4>3, <2>CountsSent, ZenonT(40)
      <4> QED BY <4>4 DEF Sent
    <3>6. InTransit(Append(toGuest, e), WSub(x, r) + n)
      BY <3>2, <3>3, <3>4, <2>TransitAppend
    <3> QED BY <3>1, <3>3, <3>5, <3>6 DEF RecvBounds

  <2>Step.
    ASSUME TypeOK, TypeOK', RecvWindow, Host
    PROVE  RecvWindow'
    <3> USE <2>Step
    <3> SUFFICES ASSUME in_map', guest'.state # "Closed"
                 PROVE  RecvBounds(conn, guest, toHost, toGuest)'
      BY DEF RecvWindow
    <3>0. in_map /\ guest' = guest
      BY Zenon DEF Host, MuxerSendPkt, MuxerRecvPkt, MuxerRecvRst, HandleEvent, ExpiryPasses,
             SweepKillq, remove_connection
    <3>a. RecvBounds(conn, guest, toHost, toGuest)
      BY <3>0 DEF RecvWindow
    <3>b. conn \in Connections /\ HasRx(conn) /\ RxSame(conn, conn) /\ toGuest \in Seq(HostPkts)
      BY <2>ConnectionRx DEF TypeOK
    <3>1. CASE MuxerSendPkt
      <4>1. PICK d \in send_pkt(conn, Head(toHost)) : apply_conn_mutation(d)
        BY <3>0, <3>1 DEF MuxerSendPkt, remove_connection
      <4>2. toHost # <<>> /\ toHost' = Tail(toHost) /\ UNCHANGED <<toGuest, guest>>
        BY <3>1 DEF MuxerSendPkt
      <4>3. /\ d.rx_cnt = conn.rx_cnt /\ d.peer_fwd_cnt = Head(toHost).fwd_cnt
            /\ d.peer_buf_alloc = Head(toHost).buf_alloc /\ HasRx(d)
        BY <3>b, <4>1, <2>SendPktRx
      <4>4. RxSame(d, conn')
        BY <4>1, <4>3, <2>MutationRx
      <4> QED BY <3>a, <4>2, <4>3, <4>4, <2>RecvHeard DEF RxSame
    <3>2. CASE MuxerRecvPkt
      <4>1. PICK r \in recv_pkt(conn) :
              toGuest' = toGuest \o r.pkts /\ apply_conn_mutation(r.conn)
        BY <3>2 DEF MuxerRecvPkt, remove_connection
      <4>2. UNCHANGED <<toHost, guest>>
        BY <3>2 DEF MuxerRecvPkt
      <4>3. Carries(conn, r) /\ Yielded(conn, r)
        BY <3>b, <2>RecvPktRx, RecvPktType
      <4>4. RxSame(r.conn, conn')
        <5>1. HasRx(r.conn)
          BY <4>3 DEF Carries, RxSame
        <5> QED BY <4>1, <5>1, <2>MutationRx
      <4>5. CASE r.pkts = <<>>
        <5>1. toGuest' = toGuest
          BY <3>b, <4>1, <4>5, SeqConcat
        <5>2. RxSame(conn, r.conn)
          BY <4>3, <4>5 DEF Carries
        <5>3. RxSame(conn, conn')
          BY <4>4, <5>2 DEF RxSame
        <5> QED BY <3>a, <4>2, <5>1, <5>3, <2>RecvQuiet
      <4>6. ASSUME NEW e, r.pkts = <<e>> PROVE RecvBounds(conn, guest, toHost, toGuest)'
        <5>1. e \in HostPkts
          BY <4>3, <4>6 DEF Yielded
        <5>2. toGuest' = Append(toGuest, e)
          BY <3>b, <4>1, <4>6, <5>1, SeqConcat
        <5>3. CASE RxSame(conn, r.conn) /\ e.op # "RW"
          <6>1. RxSame(conn, conn')
            BY <4>4, <5>3 DEF RxSame
          <6> QED BY <3>a, <4>2, <5>1, <5>2, <5>3, <6>1, <2>RecvSilent
        <5>4. ASSUME NEW n \in 1 .. MaxPkt, n <= peer_avail_credit(conn),
                     r.conn.rx_cnt = WAdd(conn.rx_cnt, n),
                     r.conn.peer_fwd_cnt = conn.peer_fwd_cnt,
                     r.conn.peer_buf_alloc = conn.peer_buf_alloc, e.op = "RW", e.len = n
              PROVE  RecvBounds(conn, guest, toHost, toGuest)'
          <6>1. /\ conn'.rx_cnt = WAdd(conn.rx_cnt, n)
                /\ conn'.peer_fwd_cnt = conn.peer_fwd_cnt
                /\ conn'.peer_buf_alloc = conn.peer_buf_alloc
            BY <4>4, <5>4 DEF RxSame
          <6> QED BY <3>a, <4>2, <5>1, <5>2, <5>4, <6>1, <2>RecvData
        <5> QED BY <4>3, <4>6, <5>3, <5>4 DEF Carries
      <4> QED BY <4>3, <4>5, <4>6 DEF Carries
    <3>3. CASE MuxerRecvRst
      <4>1. PICK e : e = [op |-> "RST", len |-> 0, flags |-> {}, fwd_cnt |-> 0]
        BY Zenon
      <4>2. e \in HostPkts /\ e.op # "RW"
        BY <4>1 DEF HostPkts, Ops, Counter
      <4>3. toGuest' = Append(toGuest, e) /\ conn' = conn /\ UNCHANGED <<toHost, guest>>
        BY <3>3, <4>1 DEF MuxerRecvRst
      <4>4. RxSame(conn, conn')
        BY <3>b, <4>3
      <4> QED BY <3>a, <4>2, <4>3, <4>4, <2>RecvSilent
    <3>4. ASSUME NEW ev \in SUBSET {"EPOLLIN", "EPOLLOUT"}, HandleEvent(ev)
          PROVE  RecvBounds(conn, guest, toHost, toGuest)'
      <4>1. PICK d \in notify(conn, ev) : apply_conn_mutation(d)
        BY <3>4 DEF HandleEvent
      <4>2. RxSame(conn, d) /\ HasRx(d)
        BY <3>b, <2>NotifyRx DEF RxSame
      <4>3. RxSame(d, conn')
        BY <4>1, <4>2, <2>MutationRx
      <4>4. RxSame(conn, conn') /\ UNCHANGED <<toHost, toGuest, guest>>
        BY <3>4, <4>2, <4>3 DEF RxSame, HandleEvent
      <4> QED BY <3>a, <4>4, <2>RecvQuiet
    <3>5. CASE ExpiryPasses \/ SweepKillq
      <4>1. RxSame(conn, [conn EXCEPT !.expiry = "Expired"])
        BY <3>b DEF HasRx, RxSame
      <4>2. RxSame(conn, kill(conn))
        BY <3>b, <2>KillRx
      <4>3. RxSame(conn, conn') /\ UNCHANGED <<toHost, toGuest, guest>>
        BY <3>5, <4>1, <4>2, Zenon DEF ExpiryPasses, SweepKillq
      <4> QED BY <3>a, <4>3, <2>RecvQuiet
    <3> QED BY <3>1, <3>2, <3>3, <3>4, <3>5 DEF Host
  <2> QED BY <2>Step

\* The steps of a guest that does not shrink its buffer keep the receive window.
<1>GuestRecvWindow. TypeOK /\ TypeOK' /\ RecvWindow /\ Guest /\ guest.buf_alloc <= guest'.buf_alloc => RecvWindow'
\* The guest reads n of the bytes it has received.
  <2>CountsRead.
    ASSUME NEW x \in Counter, NEW p \in Counter, NEW a \in Counter, NEW r \in Counter,
           NEW f \in Counter, NEW s \in Counter, NEW n \in Nat, n <= WSub(r, f),
           RecvCounts(x, p, a, r, f, s)
    PROVE  /\ RecvCounts(x, p, a, r, WAdd(f, n), s)
           /\ WSub(f, p) <= WSub(WAdd(f, n), p)
    <3> USE <2>CountsRead
    <3>1. WSub(f, p) <= WSub(r, p)
      BY DEF RecvCounts
    <3>2. WSub(r, f) = WSub(r, p) - WSub(f, p)
      BY <3>1, Distance
    <3>3. WSub(f, p) \in Nat /\ WSub(r, p) \in Nat /\ WSub(r, p) < Modulus
      BY CounterClosed DEF Counter
    <3>4. WSub(f, p) + n < Modulus
      BY <3>2, <3>3
    <3>5. WSub(WAdd(f, n), p) = WSub(f, p) + n
      BY <3>4, AdvanceEnd
    <3> QED BY <3>2, <3>3, <3>5 DEF RecvCounts

  \* The guest receives n of the bytes that are under way.
  <2>CountsReceived.
    ASSUME NEW x \in Counter, NEW p \in Counter, NEW a \in Counter, NEW r \in Counter,
           NEW f \in Counter, NEW s \in Counter, NEW n \in Nat, n <= WSub(x, r),
           RecvCounts(x, p, a, r, f, s)
    PROVE  RecvCounts(x, p, a, WAdd(r, n), f, s)
    <3> USE <2>CountsReceived
    <3>1. WSub(r, p) <= WSub(x, p) /\ WSub(f, p) <= WSub(r, p)
      BY DEF RecvCounts
    <3>2. WSub(x, r) = WSub(x, p) - WSub(r, p)
      BY <3>1, Distance
    <3>3. /\ WSub(f, p) \in Nat /\ WSub(r, p) \in Nat /\ WSub(x, p) \in Nat
          /\ WSub(x, p) < Modulus
      BY CounterClosed DEF Counter
    <3>4. WSub(r, p) + n < Modulus
      BY <3>2, <3>3
    <3>5. WSub(WAdd(r, n), p) = WSub(r, p) + n
      BY <3>4, AdvanceEnd
    <3> QED BY <3>1, <3>2, <3>3, <3>5 DEF RecvCounts

  \* The guest posts a packet, or none, after a step that only lets it read more.
  <2>ReadPosted.
    ASSUME NEW q \in Seq(GuestPkts), NEW p \in Counter, NEW f \in Counter, NEW a \in Counter,
           NEW s \in Counter, ReadQueue(q, p, f, a, s), a <= s,
           NEW g \in Counter, NEW t \in Counter, WSub(f, p) <= WSub(g, p), s <= t,
           NEW e \in GuestPkts, e.fwd_cnt = g, e.buf_alloc = t
    PROVE  ReadQueue(q, p, g, a, t) /\ ReadQueue(Append(q, e), p, g, a, t)
    <3> USE <2>ReadPosted
    <3> DEFINE r == Append(q, e)
    <3>1. /\ Len(q) \in Nat /\ Len(r) = Len(q) + 1
          /\ \A i \in 1 .. Len(q) : r[i] = q[i]
          /\ r[Len(q) + 1] = e
      BY SeqAdd, SeqEntries
    <3> HIDE DEF r
    <3>2. WSub(f, p) \in Nat /\ WSub(g, p) \in Nat /\ s \in Nat /\ t \in Nat /\ a \in Nat
      BY CounterClosed DEF Counter
    <3>3. ASSUME NEW i \in 1 .. Len(q)
          PROVE  WSub(q[i].fwd_cnt, p) \in Nat /\ q[i].buf_alloc \in Nat
      <4>1. q[i] \in GuestPkts
        BY SeqEntry
      <4>2. q[i].fwd_cnt \in Counter /\ q[i].buf_alloc \in Counter
        BY <4>1 DEF GuestPkts
      <4>3. WSub(q[i].fwd_cnt, p) \in Nat
        BY <4>2, CounterClosed
      <4> QED BY <4>2, <4>3 DEF Counter
    <3>4. ASSUME NEW i \in 1 .. Len(q)
          PROVE  /\ WSub(q[i].fwd_cnt, p) <= WSub(g, p)
                 /\ a <= q[i].buf_alloc /\ q[i].buf_alloc <= t
      <4>1. /\ WSub(q[i].fwd_cnt, p) <= WSub(f, p)
            /\ a <= q[i].buf_alloc /\ q[i].buf_alloc <= s
        BY DEF ReadQueue
      <4> QED BY <3>2, <3>3, <4>1
    <3>5. ASSUME NEW i \in 1 .. Len(q), NEW j \in 1 .. Len(q), i < j
          PROVE  /\ WSub(q[i].fwd_cnt, p) <= WSub(q[j].fwd_cnt, p)
                 /\ q[i].buf_alloc <= q[j].buf_alloc
      BY <3>5 DEF ReadQueue
    <3>6. ReadQueue(q, p, g, a, t)
      BY <3>4, <3>5 DEF ReadQueue
    <3>7. ASSUME NEW i \in 1 .. Len(r)
          PROVE  /\ WSub(r[i].fwd_cnt, p) <= WSub(g, p)
                 /\ a <= r[i].buf_alloc /\ r[i].buf_alloc <= t
      <4>1. CASE i = Len(q) + 1
        BY <3>1, <3>2, <4>1
      <4>2. CASE i # Len(q) + 1
        <5>1. i \in 1 .. Len(q) /\ r[i] = q[i]
          BY <3>1, <4>2
        <5> QED BY <3>4, <5>1
      <4> QED BY <4>1, <4>2
    <3>8. ASSUME NEW i \in 1 .. Len(r), NEW j \in 1 .. Len(r), i < j
          PROVE  /\ WSub(r[i].fwd_cnt, p) <= WSub(r[j].fwd_cnt, p)
                 /\ r[i].buf_alloc <= r[j].buf_alloc
      <4>1. i \in 1 .. Len(q) /\ r[i] = q[i]
        BY <3>1, <3>8
      <4>2. CASE j = Len(q) + 1
        BY <3>1, <3>4, <4>1, <4>2
      <4>3. CASE j # Len(q) + 1
        <5>1. j \in 1 .. Len(q) /\ r[j] = q[j]
          BY <3>1, <4>3
        <5> QED BY <3>5, <3>8, <4>1, <5>1
      <4> QED BY <4>2, <4>3
    <3>9. ReadQueue(r, p, g, a, t)
      BY <3>7, <3>8 DEF ReadQueue
    <3> QED BY <3>6, <3>9 DEF r

  \* The guest takes the first packet under way to it.
  <2>TransitTake.
    ASSUME NEW q \in Seq(HostPkts), q # <<>>, NEW d \in Nat, InTransit(q, d)
    PROVE  /\ Load(Head(q)) \in Nat /\ Load(Head(q)) <= d
           /\ InTransit(Tail(q), d - Load(Head(q)))
    <3> USE <2>TransitTake
    <3> DEFINE r == Tail(q)
               l == Load(Head(q))
    <3>1. /\ Len(q) \in Nat /\ Len(q) >= 1
          /\ Head(q) = q[1]
          /\ Len(r) = Len(q) - 1
          /\ \A i \in 1 .. Len(r) : r[i] = q[i + 1]
      BY SeqTake, SeqEmpty
    <3>2. PICK pos \in [1 .. Len(q) + 1 -> Nat] :
            /\ pos[1] = 0
            /\ pos[Len(q) + 1] = d
            /\ \A i \in 1 .. Len(q) : pos[i + 1] = pos[i] + Load(q[i])
            /\ \A i, j \in 1 .. Len(q) + 1 : i <= j => pos[i] <= pos[j]
      BY DEF InTransit
    <3>3. l \in Nat
      <4>1. Head(q) \in HostPkts
        BY SeqTake
      <4> QED BY <4>1 DEF Load, HostPkts
    <3>4. l = pos[2]
      <4>1. 1 \in 1 .. Len(q) /\ l = Load(q[1])
        BY <3>1
      <4>2. pos[1 + 1] = pos[1] + Load(q[1])
        BY <3>2, <4>1
      <4> HIDE DEF l
      <4> QED BY <3>2, <3>3, <4>1, <4>2
    <3> HIDE DEF r, l
    <3>5. ASSUME NEW i \in 1 .. Len(r) + 1
          PROVE  /\ i + 1 \in 1 .. Len(q) + 1 /\ pos[i + 1] \in Nat
                 /\ l <= pos[i + 1] /\ pos[i + 1] - l \in Nat
      <4>1. i + 1 \in 1 .. Len(q) + 1 /\ 2 \in 1 .. Len(q) + 1 /\ 2 <= i + 1
        BY <3>1
      <4>2. pos[i + 1] \in Nat /\ pos[2] <= pos[i + 1]
        BY <3>2, <4>1
      <4> QED BY <3>3, <3>4, <4>1, <4>2
    <3>6. PICK new : new = [i \in 1 .. Len(r) + 1 |-> pos[i + 1] - l]
      BY Zenon
    <3>7. /\ new \in [1 .. Len(r) + 1 -> Nat]
          /\ \A i \in 1 .. Len(r) + 1 : new[i] = pos[i + 1] - l
      BY <3>5, <3>6
    <3>8. new[1] = 0
      <4>1. 1 \in 1 .. Len(r) + 1 /\ 1 + 1 = 2
        BY <3>1
      <4> QED BY <3>3, <3>4, <3>7, <4>1
    <3>9. new[Len(r) + 1] = d - l /\ l <= d
      <4>1. Len(r) + 1 \in 1 .. Len(r) + 1 /\ Len(r) + 1 + 1 = Len(q) + 1
        BY <3>1
      <4> QED BY <3>2, <3>5, <3>7, <4>1, Zenon
    <3>10. ASSUME NEW i \in 1 .. Len(r) PROVE new[i + 1] = new[i] + Load(r[i])
      <4>1. /\ i \in 1 .. Len(r) + 1 /\ i + 1 \in 1 .. Len(r) + 1 /\ i + 1 \in 1 .. Len(q)
            /\ r[i] = q[i + 1]
        BY <3>1
      <4>2. pos[i + 1 + 1] = pos[i + 1] + Load(r[i])
        BY <3>2, <4>1
      <4>3. new[i] = pos[i + 1] - l /\ new[i + 1] = pos[i + 1 + 1] - l /\ pos[i + 1] \in Nat
        BY <3>5, <3>7, <4>1
      <4>4. Load(r[i]) \in Nat
        <5>1. q[i + 1] \in HostPkts
          BY <4>1, SeqEntry
        <5> QED BY <4>1, <5>1 DEF Load, HostPkts
      <4> QED BY <3>3, <4>2, <4>3, <4>4
    <3>11. ASSUME NEW i \in 1 .. Len(r) + 1, NEW j \in 1 .. Len(r) + 1, i <= j
           PROVE  new[i] <= new[j]
      <4>1. i + 1 \in 1 .. Len(q) + 1 /\ j + 1 \in 1 .. Len(q) + 1 /\ i + 1 <= j + 1
        BY <3>5, <3>11
      <4>2. pos[i + 1] <= pos[j + 1] /\ pos[i + 1] \in Nat /\ pos[j + 1] \in Nat
        BY <3>2, <4>1
      <4> QED BY <3>3, <3>7, <4>2
    <3>12. InTransit(r, d - l)
      BY <3>7, <3>8, <3>9, <3>10, <3>11, Zenon DEF InTransit
    <3> QED BY <3>3, <3>9, <3>12 DEF r, l

  \* Every packet of the guest does.
  <2>PostAnnounces.
    ASSUME NEW g \in Guests, NEW op \in Ops, NEW n \in 0 .. MaxPkt, NEW fl \in SUBSET Flags,
           GuestPost(g, op, n, fl)
    PROVE  Announces(g)
    <3> USE <2>PostAnnounces
    <3>1. PICK e : e = GuestPkt(g, op, n, fl)
      OBVIOUS
    <3>2. e \in GuestPkts
      BY <3>1, GuestPktType
    <3>3. e.fwd_cnt = g.fwd_cnt /\ e.buf_alloc = g.buf_alloc
      BY <3>1 DEF GuestPkt
    <3>4. toHost' = Append(toHost, e)
      BY <3>1 DEF GuestPost
    <3> QED BY <3>2, <3>3, <3>4 DEF Announces

  \* The guest reads, announces or resizes, and receives nothing.
  <2>RecvPosted.
    ASSUME TypeOK, TypeOK', RecvBounds(conn, guest, toHost, toGuest),
           NEW n \in Nat, n <= WSub(guest.rx_cnt, guest.fwd_cnt),
           guest'.fwd_cnt = WAdd(guest.fwd_cnt, n) \/ guest'.fwd_cnt = guest.fwd_cnt,
           guest'.rx_cnt = guest.rx_cnt, guest.buf_alloc <= guest'.buf_alloc,
           Announces(guest'), UNCHANGED <<conn, toGuest>>
    PROVE  RecvBounds(conn, guest, toHost, toGuest)'
    <3> USE <2>RecvPosted
    <3>1. PICK x, p, a, r, f, s :
            /\ x = conn.rx_cnt /\ p = conn.peer_fwd_cnt /\ a = conn.peer_buf_alloc
            /\ r = guest.rx_cnt /\ f = guest.fwd_cnt /\ s = guest.buf_alloc
      OBVIOUS
    <3>2. PICK g, t : g = guest'.fwd_cnt /\ t = guest'.buf_alloc
      OBVIOUS
    <3>3. /\ x \in Counter /\ p \in Counter /\ a \in Counter /\ r \in Counter
          /\ f \in Counter /\ s \in Counter /\ toHost \in Seq(GuestPkts)
      BY <3>1, <1>RecvTypes
    <3>4. g \in Counter /\ t \in Counter
      BY <3>2 DEF TypeOK, Guests
    <3>5. /\ RecvCounts(x, p, a, r, f, s) /\ ReadQueue(toHost, p, f, a, s)
          /\ InTransit(toGuest, WSub(x, r))
      BY <3>1 DEF RecvBounds
    <3>6. RecvCounts(x, p, a, r, g, s) /\ WSub(f, p) <= WSub(g, p)
      <4>1. CASE g = f
        <5>1. WSub(f, p) \in Nat
          BY <3>3, CounterClosed
        <5> QED BY <3>5, <4>1, <5>1
      <4>2. CASE g = WAdd(f, n)
        <5>1. n <= WSub(r, f)
          BY <3>1
        <5>2. RecvCounts(x, p, a, r, WAdd(f, n), s) /\ WSub(f, p) <= WSub(WAdd(f, n), p)
          BY <3>3, <3>5, <5>1, <2>CountsRead
        <5> QED BY <4>2, <5>2
      <4> QED BY <3>1, <3>2, <4>1, <4>2
    <3>7. a <= s /\ s <= t
      BY <3>1, <3>2, <3>5 DEF RecvCounts
    <3>8. RecvCounts(x, p, a, r, g, t)
      <4>1. a \in Nat /\ s \in Nat /\ t \in Nat
        BY <3>3, <3>4 DEF Counter
      <4> QED BY <3>6, <3>7, <4>1 DEF RecvCounts
    <3>9. ASSUME NEW e \in GuestPkts, e.fwd_cnt = g, e.buf_alloc = t
          PROVE  ReadQueue(toHost, p, g, a, t) /\ ReadQueue(Append(toHost, e), p, g, a, t)
      BY <3>3, <3>4, <3>5, <3>6, <3>7, <3>9, <2>ReadPosted
    <3>10. ReadQueue(toHost', p, g, a, t)
      <4>1. CASE UNCHANGED toHost
        <5>1. PICK e \in GuestPkts : e.fwd_cnt = g /\ e.buf_alloc = t
          <6>1. PICK e : e = GuestPkt(guest', "RST", 0, {})
            OBVIOUS
          <6>2. guest' \in Guests /\ "RST" \in Ops /\ 0 \in 0 .. MaxPkt
            BY DEF TypeOK, Ops
          <6>3. e \in GuestPkts
            BY <6>1, <6>2, GuestPktType
          <6>4. e.fwd_cnt = g /\ e.buf_alloc = t
            BY <3>2, <6>1 DEF GuestPkt
          <6> QED BY <6>3, <6>4
        <5> QED BY <3>9, <4>1, <5>1
      <4>2. ASSUME NEW e \in GuestPkts, e.fwd_cnt = g, e.buf_alloc = t,
                   toHost' = Append(toHost, e)
            PROVE  ReadQueue(toHost', p, g, a, t)
        BY <3>9, <4>2
      <4> QED BY <3>2, <4>1, <4>2 DEF Announces
    <3> QED BY <3>1, <3>2, <3>5, <3>8, <3>10 DEF RecvBounds

  \* The guest takes a packet off its RX queue: its data is received.
  <2>RecvTaken.
    ASSUME TypeOK, TypeOK', RecvBounds(conn, guest, toHost, toGuest), toGuest # <<>>,
           toGuest' = Tail(toGuest), guest'.fwd_cnt = guest.fwd_cnt,
           guest'.buf_alloc = guest.buf_alloc, Announces(guest'), UNCHANGED conn,
           \/ Head(toGuest).op # "RW" /\ guest'.rx_cnt = guest.rx_cnt
           \/ /\ Head(toGuest).op = "RW"
              /\ guest'.rx_cnt = WAdd(guest.rx_cnt, Head(toGuest).len)
    PROVE  RecvBounds(conn, guest, toHost, toGuest)'
    <3> USE <2>RecvTaken
    <3>1. PICK x, p, a, r, f, s, n :
            /\ x = conn.rx_cnt /\ p = conn.peer_fwd_cnt /\ a = conn.peer_buf_alloc
            /\ r = guest.rx_cnt /\ f = guest.fwd_cnt /\ s = guest.buf_alloc
            /\ n = Load(Head(toGuest))
      OBVIOUS
    <3>2. /\ x \in Counter /\ p \in Counter /\ a \in Counter /\ r \in Counter
          /\ f \in Counter /\ s \in Counter /\ toHost \in Seq(GuestPkts)
          /\ toGuest \in Seq(HostPkts) /\ WSub(x, r) \in Nat
      BY <3>1, <1>RecvTypes
    <3>3. /\ RecvCounts(x, p, a, r, f, s) /\ ReadQueue(toHost, p, f, a, s)
          /\ InTransit(toGuest, WSub(x, r))
      BY <3>1 DEF RecvBounds
    <3>4. n \in Nat /\ n <= WSub(x, r) /\ InTransit(Tail(toGuest), WSub(x, r) - n)
      BY <3>1, <3>2, <3>3, <2>TransitTake
    <3>5. guest'.rx_cnt = WAdd(r, n)
      <4>1. CASE Head(toGuest).op # "RW"
        <5>1. n = 0 /\ guest'.rx_cnt = r
          BY <3>1, <4>1 DEF Load
        <5>2. WAdd(r, 0) = r
          BY <3>2 DEF WAdd, Counter
        <5> QED BY <5>1, <5>2
      <4>2. CASE Head(toGuest).op = "RW"
        BY <3>1, <4>2 DEF Load
      <4> QED BY <4>1, <4>2
    <3>6. RecvCounts(x, p, a, WAdd(r, n), f, s) /\ WSub(x, WAdd(r, n)) = WSub(x, r) - n
      <4>1. n <= WSub(x, r)
        BY <3>4
      <4>2. RecvCounts(x, p, a, r, f, s)
        BY <3>3
      <4>3. n \in Nat
        BY <3>4
      <4>4. RecvCounts(x, p, a, WAdd(r, n), f, s)
        BY <3>2, <4>1, <4>2, <4>3, <2>CountsReceived
      <4>5. WSub(x, WAdd(r, n)) = WSub(x, r) - n
        <5>1. n \in 0 .. WSub(x, r)
          BY <3>2, <4>1, <4>3
        <5> QED BY <3>2, <5>1, AdvanceBase
      <4> QED BY <4>4, <4>5
    <3>7. ReadQueue(toHost', p, f, a, s)
      <4>1. /\ WSub(f, p) <= WSub(f, p) /\ s <= s /\ a <= s
        <5>1. WSub(f, p) \in Nat
          BY <3>2, CounterClosed
        <5>2. s \in Nat
          BY <3>2 DEF Counter
        <5> QED BY <3>3, <5>1, <5>2 DEF RecvCounts
      <4>2. ASSUME NEW e \in GuestPkts, e.fwd_cnt = f, e.buf_alloc = s
            PROVE  ReadQueue(Append(toHost, e), p, f, a, s)
        BY <3>2, <3>3, <4>1, <4>2, <2>ReadPosted
      <4> QED BY <3>1, <3>3, <4>2, Zenon DEF Announces
    <3> QED BY <3>1, <3>4, <3>5, <3>6, <3>7, ZenonT(40) DEF RecvBounds

  <2>Step.
    ASSUME TypeOK, TypeOK', RecvWindow, Guest, guest.buf_alloc <= guest'.buf_alloc
    PROVE  RecvWindow'
    <3> USE <2>Step
    <3> SUFFICES ASSUME in_map', guest'.state # "Closed"
                 PROVE  RecvBounds(conn, guest, toHost, toGuest)'
      BY DEF RecvWindow
    <3>0. in_map /\ conn' = conn
      BY Zenon DEF Guest, GuestRecv, GuestSend, GuestRead, GuestResize, GuestAskCredit,
             GuestShutdown, GuestReset
    <3>a. guest \in Guests /\ guest' \in Guests /\ {} \in SUBSET Flags /\ 0 \in 0 .. MaxPkt
      BY DEF TypeOK
    <3>b. {"RESPONSE", "RST", "CREDIT_UPDATE", "CREDIT_REQUEST", "SHUTDOWN", "RW"} \subseteq Ops
      BY DEF Ops
    <3>c. GuestClosed.state = "Closed"
      BY DEF GuestClosed, NewGuest
    <3>d. 0 \in Nat /\ 0 <= WSub(guest.rx_cnt, guest.fwd_cnt)
      <4>1. WSub(guest.rx_cnt, guest.fwd_cnt) \in Nat
        BY <1>RecvTypes, CounterClosed
      <4> QED BY <4>1
    <3>e. ASSUME guest.state # "Closed", toGuest' = toGuest, guest'.rx_cnt = guest.rx_cnt,
                 guest'.fwd_cnt = guest.fwd_cnt, Announces(guest')
          PROVE  RecvBounds(conn, guest, toHost, toGuest)'
      <4>1. RecvBounds(conn, guest, toHost, toGuest)
        BY <3>0, <3>e DEF RecvWindow
      <4> QED BY <3>0, <3>d, <3>e, <4>1, <2>RecvPosted
    <3>1. CASE GuestRecv
      <4>1. PICK pkt : pkt = Head(toGuest)
        OBVIOUS
      <4>2. PICK g : g = Heard(pkt)
        OBVIOUS
      <4>3. toGuest # <<>> /\ toGuest' = Tail(toGuest) /\ pkt \in HostPkts
        BY <3>1, <4>1, SeqTake DEF GuestRecv, TypeOK
      <4>4. /\ g \in Guests /\ g.rx_cnt = guest.rx_cnt /\ g.fwd_cnt = guest.fwd_cnt
            /\ g.buf_alloc = guest.buf_alloc
        BY <3>a, <4>2, <4>3 DEF Heard, Guests, HostPkts
      <4>5. guest.state # "Closed"
        BY <3>1 DEF GuestRecv
      <4>6. /\ guest'.fwd_cnt = guest.fwd_cnt /\ guest'.buf_alloc = guest.buf_alloc
            /\ \/ pkt.op # "RW" /\ guest'.rx_cnt = guest.rx_cnt
               \/ pkt.op = "RW" /\ guest'.rx_cnt = WAdd(guest.rx_cnt, pkt.len)
        <5>1. \/ /\ pkt.op # "RW"
                 /\ guest' \in {[g EXCEPT !.state = "Open"], g, [g EXCEPT !.off = Flags]}
              \/ pkt.op = "RW" /\ guest' = [g EXCEPT !.rx_cnt = WAdd(@, pkt.len)]
          BY <3>1, <3>c, <4>1, <4>2, <4>5 DEF GuestRecv
        <5>2. CASE guest' = [g EXCEPT !.state = "Open"] /\ pkt.op # "RW"
          BY <4>4, <5>2 DEF Guests
        <5>3. CASE guest' = g /\ pkt.op # "RW"
          BY <4>4, <5>3
        <5>4. CASE guest' = [g EXCEPT !.off = Flags] /\ pkt.op # "RW"
          BY <4>4, <5>4 DEF Guests
        <5>5. CASE guest' = [g EXCEPT !.rx_cnt = WAdd(@, pkt.len)] /\ pkt.op = "RW"
          BY <4>4, <5>5 DEF Guests
        <5> QED BY <5>1, <5>2, <5>3, <5>4, <5>5
      <4>7. \/ UNCHANGED toHost
            \/ GuestPost(g, "RESPONSE", 0, {})
            \/ GuestPost(g, "CREDIT_UPDATE", 0, {})
        BY <3>1, <3>c, <4>1, <4>2 DEF GuestRecv
      <4>8. Announces(g)
        <5>1. CASE UNCHANGED toHost
          BY <5>1 DEF Announces
        <5>2. CASE GuestPost(g, "RESPONSE", 0, {}) \/ GuestPost(g, "CREDIT_UPDATE", 0, {})
          BY <3>a, <3>b, <4>4, <5>2, <2>PostAnnounces
        <5> QED BY <4>7, <5>1, <5>2
      <4>9. Announces(guest')
        BY <4>4, <4>6, <4>8 DEF Announces
      <4>10. RecvBounds(conn, guest, toHost, toGuest)
        BY <3>0, <4>5 DEF RecvWindow
      <4> QED BY <3>0, <4>1, <4>3, <4>6, <4>9, <4>10, <2>RecvTaken
    <3>2. ASSUME NEW n \in 1 .. MaxPkt, GuestSend(n)
          PROVE  RecvBounds(conn, guest, toHost, toGuest)'
      <4>1. /\ guest.state # "Closed" /\ toGuest' = toGuest
            /\ guest' = [guest EXCEPT !.tx_cnt = WAdd(@, n)] /\ GuestPost(guest, "RW", n, {})
        BY <3>2 DEF GuestSend
      <4>2. /\ guest'.rx_cnt = guest.rx_cnt /\ guest'.fwd_cnt = guest.fwd_cnt
            /\ guest'.buf_alloc = guest.buf_alloc
        BY <3>a, <4>1 DEF Guests
      <4>3. Announces(guest)
        <5>1. n \in 0 .. MaxPkt
          OBVIOUS
        <5> QED BY <3>a, <3>b, <4>1, <5>1, <2>PostAnnounces
      <4>4. Announces(guest')
        BY <4>2, <4>3 DEF Announces
      <4> QED BY <3>e, <4>1, <4>2, <4>4
    <3>3. ASSUME NEW n \in 1 .. MaxPkt, GuestRead(n)
          PROVE  RecvBounds(conn, guest, toHost, toGuest)'
      <4>1. /\ guest.state # "Closed" /\ toGuest' = toGuest
            /\ n <= WSub(guest.rx_cnt, guest.fwd_cnt)
            /\ guest' = [guest EXCEPT !.fwd_cnt = WAdd(@, n)]
            /\ UNCHANGED toHost \/ GuestPost(guest', "CREDIT_UPDATE", 0, {})
        BY <3>3 DEF GuestRead
      <4>2. guest'.rx_cnt = guest.rx_cnt /\ guest'.fwd_cnt = WAdd(guest.fwd_cnt, n)
        BY <3>a, <4>1 DEF Guests
      <4>3. Announces(guest')
        <5>1. CASE UNCHANGED toHost
          BY <5>1 DEF Announces
        <5>2. CASE GuestPost(guest', "CREDIT_UPDATE", 0, {})
          BY <3>a, <3>b, <5>2, <2>PostAnnounces
        <5> QED BY <4>1, <5>1, <5>2
      <4>4. RecvBounds(conn, guest, toHost, toGuest)
        BY <3>0, <4>1 DEF RecvWindow
      <4>5. n \in Nat
        OBVIOUS
      <4> QED BY <3>0, <4>1, <4>2, <4>3, <4>4, <4>5, <2>RecvPosted
    <3>4. ASSUME NEW a \in GuestAllocs, GuestResize(a)
          PROVE  RecvBounds(conn, guest, toHost, toGuest)'
      <4>1. /\ guest.state # "Closed" /\ toGuest' = toGuest
            /\ guest' = [guest EXCEPT !.buf_alloc = a]
            /\ GuestPost(guest', "CREDIT_UPDATE", 0, {})
        BY <3>4 DEF GuestResize
      <4>2. guest'.rx_cnt = guest.rx_cnt /\ guest'.fwd_cnt = guest.fwd_cnt
        BY <3>a, <4>1 DEF Guests
      <4>3. Announces(guest')
        BY <3>a, <3>b, <4>1, <2>PostAnnounces
      <4> QED BY <3>e, <4>1, <4>2, <4>3
    <3>5. CASE GuestAskCredit
      <4>1. /\ guest.state # "Closed" /\ toGuest' = toGuest /\ guest' = guest
            /\ GuestPost(guest, "CREDIT_REQUEST", 0, {})
        BY <3>5 DEF GuestAskCredit
      <4>2. Announces(guest')
        BY <3>a, <3>b, <4>1, <2>PostAnnounces
      <4> QED BY <3>e, <4>1, <4>2
    <3>6. ASSUME NEW fl \in SUBSET Flags, GuestShutdown(fl)
          PROVE  RecvBounds(conn, guest, toHost, toGuest)'
      <4>1. /\ guest.state # "Closed" /\ toGuest' = toGuest
            /\ guest' = [guest EXCEPT !.off = @ \cup fl] /\ GuestPost(guest, "SHUTDOWN", 0, fl)
        BY <3>6 DEF GuestShutdown
      <4>2. /\ guest'.rx_cnt = guest.rx_cnt /\ guest'.fwd_cnt = guest.fwd_cnt
            /\ guest'.buf_alloc = guest.buf_alloc
        BY <3>a, <4>1 DEF Guests
      <4>3. Announces(guest)
        BY <3>a, <3>b, <4>1, <2>PostAnnounces
      <4>4. Announces(guest')
        BY <4>2, <4>3 DEF Announces
      <4> QED BY <3>e, <4>1, <4>2, <4>4
    <3>7. ~GuestReset
      BY <3>c, Zenon DEF GuestReset
    <3> QED BY <3>1, <3>2, <3>3, <3>4, <3>5, <3>6, <3>7 DEF Guest
  <2> QED BY <2>Step

\* Nothing is under way in the beginning.
<1>InitRecv. Init => RecvWindow
  <2> SUFFICES ASSUME Init PROVE RecvBounds(conn, guest, toHost, toGuest)
    BY DEF RecvWindow
  <2>1. PICK alloc \in GuestAllocs :
          /\ \/ conn = new_peer_init(alloc)
             \/ conn = new_local_init
          /\ guest.rx_cnt = 0 /\ guest.fwd_cnt = 0 /\ guest.buf_alloc = alloc
    BY DEF Init, NewGuest
  <2>2. /\ conn.rx_cnt = 0 /\ conn.peer_fwd_cnt = 0 /\ conn.peer_buf_alloc \in {0, alloc}
    BY <2>1 DEF new_peer_init, new_local_init, NewConnection
  <2>3. toHost = <<>> /\ toGuest = <<>> /\ Len(toHost) = 0 /\ Len(toGuest) = 0
    BY DEF Init
  <2>4. alloc \in Nat
    OBVIOUS
  <2>5. WSub(0, 0) = 0
    BY DEF WSub
  <2>6. RecvCounts(conn.rx_cnt, conn.peer_fwd_cnt, conn.peer_buf_alloc, guest.rx_cnt,
                   guest.fwd_cnt, guest.buf_alloc)
    BY <2>1, <2>2, <2>4, <2>5 DEF RecvCounts
  <2>7. ReadQueue(toHost, conn.peer_fwd_cnt, guest.fwd_cnt, conn.peer_buf_alloc,
                  guest.buf_alloc)
    BY <2>3 DEF ReadQueue
  <2>8. InTransit(toGuest, 0)
    <3>1. PICK pos : pos = [i \in 1 .. 1 |-> 0]
      BY Zenon
    <3>2. pos \in [1 .. Len(toGuest) + 1 -> Nat] /\ pos[1] = 0
      BY <2>3, <3>1
    <3>3. /\ Len(toGuest) + 1 = 1
          /\ \A i, j \in 1 .. Len(toGuest) + 1 : pos[i] <= pos[j]
          /\ \A i \in 1 .. Len(toGuest) : FALSE
      BY <2>3, <3>1
    <3> QED BY <3>2, <3>3 DEF InTransit
  <2> QED BY <2>1, <2>2, <2>5, <2>6, <2>7, <2>8 DEF RecvBounds

\* Within the receive window the guest's buffer holds what is under way to it.
<1>RecvFits. TypeOK /\ RecvWindow => GuestBufFits
  <2> SUFFICES ASSUME TypeOK, RecvBounds(conn, guest, toHost, toGuest)
               PROVE  WSub(conn.rx_cnt, guest.fwd_cnt) <= guest.buf_alloc
    BY DEF RecvWindow, GuestBufFits
  <2>1. PICK x, p, a, r, f, s :
          /\ x = conn.rx_cnt /\ p = conn.peer_fwd_cnt /\ a = conn.peer_buf_alloc
          /\ r = guest.rx_cnt /\ f = guest.fwd_cnt /\ s = guest.buf_alloc
    OBVIOUS
  <2>2. /\ x \in Counter /\ p \in Counter /\ a \in Counter /\ r \in Counter
        /\ f \in Counter /\ s \in Counter
    BY <2>1, <1>RecvTypes
  <2>3. RecvCounts(x, p, a, r, f, s)
    BY <2>1 DEF RecvBounds
  <2>4. /\ WSub(x, p) <= a /\ a <= s /\ WSub(f, p) <= WSub(r, p) /\ WSub(r, p) <= WSub(x, p)
    BY <2>3 DEF RecvCounts
  <2>5. /\ WSub(x, p) \in Nat /\ WSub(f, p) \in Nat /\ WSub(r, p) \in Nat
    BY <2>2, CounterClosed
  <2>6. a \in Nat /\ s \in Nat
    BY <2>2 DEF Counter
  <2>7. WSub(f, p) <= WSub(x, p)
    BY <2>4, <2>5
  <2>8. WSub(x, f) = WSub(x, p) - WSub(f, p)
    BY <2>2, <2>7, Distance
  <2>9. WSub(x, f) <= s
    BY <2>4, <2>5, <2>6, <2>8
  <2> QED BY <2>1, <2>9

<1>1. Init => RecvWindow
  BY <1>InitRecv
<1>2. /\ TypeOK /\ TypeOK' /\ RecvWindow /\ [Next]_vars
      /\ [guest.buf_alloc <= guest'.buf_alloc]_vars
      => RecvWindow'
  <2> SUFFICES ASSUME TypeOK, TypeOK', RecvWindow, [Next]_vars,
                      [guest.buf_alloc <= guest'.buf_alloc]_vars
               PROVE  RecvWindow'
    OBVIOUS
  <2>1. CASE UNCHANGED vars
    BY <2>1 DEF vars, RecvWindow, RecvBounds
  <2>2. CASE Host
    BY <2>2, <1>HostRecv
  <2>3. CASE Guest /\ guest.buf_alloc <= guest'.buf_alloc
    BY <2>3, <1>GuestRecvWindow
  <2> QED BY <2>1, <2>2, <2>3 DEF Next
<1> QED BY <1>1, <1>2, VsockTypeOK, <1>RecvFits, PTL DEF Spec, NeverShrinks

----------------------------------------------------------------------------
(* The refinement of the muxer's view.                                       *)

\* What a connection that is in the map has to yield in each of its states: the
\* handshake only while it lasts, and an RST once it is killed.
Yielding(c) ==
  /\ c.state = "Killed" => "Rst" \in c.pending_rx
  /\ c.state = "PeerInit" => "Response" \in c.pending_rx
  /\ "Response" \in c.pending_rx => c.state \in {"PeerInit", "Killed"}
  /\ "Request" \in c.pending_rx => c.state \in {"LocalInit", "Killed"} /\ c.expiry = "None"
  /\ c.state = "LocalInit" => "CreditUpdate" \notin c.pending_rx /\ c.tx_len = 0

\* The guest answers a request only after it was asked, and sends none itself.
NotAsked ==
  /\ guest.state \in {"Listen", "Closed"}
  /\ \A i \in 1 .. Len(toHost) : toHost[i].op # "RESPONSE"

ViewInv ==
  /\ in_map => Yielding(conn)
  /\ in_map /\ "Request" \in conn.pending_rx => NotAsked
  /\ \A i \in 1 .. Len(toHost) : toHost[i].op # "REQUEST"

----------------------------------------------------------------------------
\* The number of flags, each counted once.
LEMMA CountType ==
  ASSUME NEW p
  PROVE  /\ Count(p) \in 0 .. 4
         /\ Count(p) = 0 <=> p \cap {"Request", "Response", "Rw", "CreditUpdate"} = {}
         /\ ~({"Request", "Response"} \subseteq p) => Count(p) <= 3
BY DEF Count

\* Fewer flags, and strictly fewer.
LEMMA CountShrink ==
  ASSUME NEW q, NEW p \in SUBSET q
  PROVE  /\ Count(p) <= Count(q)
         /\ (q \ p) \cap {"Request", "Response", "Rw", "CreditUpdate"} # {} => Count(p) < Count(q)
BY DEF Count

\* At most three items are pending besides an RST.
LEMMA PendBound ==
  ASSUME NEW c \in Connections, Yielding(c), "Rst" \notin c.pending_rx
  PROVE  /\ Count(c.pending_rx) \in 0 .. 3
         /\ Count(c.pending_rx) = 0 <=> c.pending_rx = {}
<1>1. /\ ~({"Request", "Response"} \subseteq c.pending_rx)
      /\ c.pending_rx \subseteq {"Request", "Response", "Rw", "CreditUpdate"}
  BY DEF Yielding, Connections, PendingRx
<1> QED BY <1>1, CountType

\* Fewer items, and strictly fewer.
LEMMA PendShrink ==
  ASSUME NEW c \in Connections, Yielding(c), "Rst" \notin c.pending_rx, NEW p \in SUBSET c.pending_rx
  PROVE  /\ Count(p) \in 0 .. 3 /\ Count(p) <= Count(c.pending_rx)
         /\ p # c.pending_rx => Count(p) < Count(c.pending_rx)
<1>1. Count(c.pending_rx) \in 0 .. 3 BY PendBound
<1>2. c.pending_rx \subseteq {"Request", "Response", "Rw", "CreditUpdate"}
  BY DEF Connections, PendingRx
<1>3. p # c.pending_rx => (c.pending_rx \ p) \cap {"Request", "Response", "Rw", "CreditUpdate"} # {}
  BY <1>2
<1>4. Count(p) \in 0 .. 4 BY CountType
<1>5. /\ Count(p) <= Count(c.pending_rx)
      /\ p # c.pending_rx => Count(p) < Count(c.pending_rx)
  BY <1>3, CountShrink
<1> QED BY <1>1, <1>4, <1>5

\* A view is a record of its three fields.
IsView(v) == v = [state |-> v.state, pend |-> v.pend, expiry |-> v.expiry]

\* The view of a connection is such a record.
LEMMA ViewShape ==
  ASSUME NEW c
  PROVE  IsView(ViewOf(c))
BY DEF IsView, ViewOf

\* A view with two of its fields replaced.
LEMMA ViewStatePend ==
  ASSUME NEW v, IsView(v), NEW s, NEW p
  PROVE  [v EXCEPT !.state = s, !.pend = p] = [state |-> s, pend |-> p, expiry |-> v.expiry]
<1>1. PICK x, y, z : v = [state |-> x, pend |-> y, expiry |-> z] BY DEF IsView
<1>2. PICK w : w = [v EXCEPT !.state = s] BY Zenon
<1>3. w = [state |-> s, pend |-> y, expiry |-> z] BY <1>1, <1>2
<1>4. [w EXCEPT !.pend = p] = [state |-> s, pend |-> p, expiry |-> z] BY <1>3
<1>5. v.expiry = z BY <1>1
<1>6. [v EXCEPT !.state = s, !.pend = p] = [w EXCEPT !.pend = p] BY <1>2
<1> QED BY <1>4, <1>5, <1>6

\* The same for the state and the kill timer.
LEMMA ViewStateExpiry ==
  ASSUME NEW v, IsView(v), NEW s, NEW e
  PROVE  [v EXCEPT !.state = s, !.expiry = e] = [state |-> s, pend |-> v.pend, expiry |-> e]
<1>1. PICK x, y, z : v = [state |-> x, pend |-> y, expiry |-> z] BY DEF IsView
<1>2. PICK w : w = [v EXCEPT !.state = s] BY Zenon
<1>3. w = [state |-> s, pend |-> y, expiry |-> z] BY <1>1, <1>2
<1>4. [w EXCEPT !.expiry = e] = [state |-> s, pend |-> y, expiry |-> e] BY <1>3
<1>5. v.pend = y BY <1>1
<1>6. [v EXCEPT !.state = s, !.expiry = e] = [w EXCEPT !.expiry = e] BY <1>2
<1> QED BY <1>4, <1>5, <1>6

\* What killing makes of a view.
LEMMA AbsKill ==
  ASSUME NEW v, IsView(v)
  PROVE  Abs!kill(v) = [state |-> "Killed", pend |-> 4, expiry |-> v.expiry]
<1>1. Abs!kill(v) = [v EXCEPT !.state = "Killed", !.pend = 4] BY DEF Abs!kill, Abs!HasRst, MaxPend
<1> QED BY <1>1, ViewStatePend, Zenon

\* Killing a connection is killing its view.
LEMMA KillView ==
  ASSUME NEW c \in Connections
  PROVE  ViewOf(kill(c)) = Abs!kill(ViewOf(c))
<1>1. /\ kill(c).state = "Killed" /\ "Rst" \in kill(c).pending_rx /\ kill(c).expiry = c.expiry
  BY DEF kill, Indicate, Connections
<1>2. ViewOf(kill(c)) = [state |-> "Killed", pend |-> 4, expiry |-> c.expiry]
  BY <1>1 DEF ViewOf, MaxPend
<1>3. ViewOf(c).expiry = c.expiry BY DEF ViewOf
<1>4. Abs!kill(ViewOf(c)) = [state |-> "Killed", pend |-> 4, expiry |-> ViewOf(c).expiry]
  BY ViewShape, AbsKill
<1> QED BY <1>2, <1>3, <1>4

\* A killed connection has its RST to yield.
LEMMA KillYielding ==
  ASSUME NEW c \in Connections, Yielding(c)
  PROVE  Yielding(kill(c)) /\ kill(c).pending_rx = c.pending_rx \cup {"Rst"}
BY DEF kill, Indicate, Connections, Yielding

\* What the muxer does after a mutation.
LEMMA MutationView ==
  ASSUME NEW d \in Connections, Yielding(d), apply_conn_mutation(d)
  PROVE  /\ Abs!Mutated(ViewOf(d))
         /\ Yielding(conn')
         /\ "Request" \in conn'.pending_rx => "Request" \in d.pending_rx
<1>1. PICK e \in {d, kill(d)} : conn' = e \/ conn' = kill(e)
  BY DEF apply_conn_mutation
<1>2. kill(d) \in Connections BY KillType
<1>3. conn' = d \/ conn' = kill(d) \/ conn' = kill(kill(d)) BY <1>1
<1>4. ViewOf(kill(kill(d))) = ViewOf(kill(d))
  <2>1. ViewOf(kill(kill(d))) = Abs!kill(Abs!kill(ViewOf(d))) BY <1>2, KillView
  <2>2. ViewOf(kill(d)) = Abs!kill(ViewOf(d)) BY KillView
  <2> QED BY <2>1, <2>2, ZenonT(40) DEF Abs!kill, ViewOf
<1>5. ViewOf(conn)' \in {ViewOf(d), ViewOf(kill(d))} BY <1>3, <1>4 DEF ViewOf
<1>6. Abs!Mutated(ViewOf(d)) BY <1>5, KillView DEF Abs!Mutated
<1>7. Yielding(kill(d)) /\ Yielding(kill(kill(d))) BY <1>2, KillYielding
<1>8. "Request" \in kill(kill(d)).pending_rx => "Request" \in d.pending_rx
  BY <1>2, <1>7, KillYielding
<1>9. "Request" \in kill(d).pending_rx => "Request" \in d.pending_rx BY KillYielding
<1> QED BY <1>3, <1>6, <1>7, <1>8, <1>9

\* More is indicated, and nothing else changes in the view.
LEMMA IndicateView ==
  ASSUME NEW c \in Connections, NEW d \in Connections, Yielding(c), Yielding(d),
         c.pending_rx \subseteq d.pending_rx,
         "Rst" \in d.pending_rx => "Rst" \in c.pending_rx,
         d.state = c.state, d.off = c.off, d.expiry = c.expiry
  PROVE  ViewOf(d) \in Abs!Indicate(ViewOf(c))
<1>1. CASE "Rst" \in c.pending_rx
  <2>1. ViewOf(d) = ViewOf(c) BY <1>1 DEF ViewOf
  <2>2. ViewOf(c) = [ViewOf(c) EXCEPT !.pend = ViewOf(c).pend] BY DEF ViewOf
  <2> QED BY <2>1, <2>2 DEF Abs!Indicate
<1>2. CASE "Rst" \notin c.pending_rx
  <2>1. "Rst" \notin d.pending_rx BY <1>2
  <2>2. /\ Count(c.pending_rx) <= Count(d.pending_rx) 
        /\ Count(d.pending_rx) \in 0 .. 3 /\ Count(c.pending_rx) \in 0 .. 3
    BY <2>1, PendShrink, PendBound
  <2> DEFINE n == Count(d.pending_rx)
  <2>3. ViewOf(c).pend = Count(c.pending_rx) BY <1>2 DEF ViewOf
  <2>4. n \in ViewOf(c).pend .. MaxPend BY <2>2, <2>3 DEF MaxPend
  <2>5. ViewOf(d) = [ViewOf(c) EXCEPT !.pend = n] BY <1>2, <2>1 DEF ViewOf
  <2> HIDE DEF n
  <2> QED BY <2>4, <2>5 DEF Abs!Indicate
<1> QED BY <1>1, <1>2

----------------------------------------------------------------------------
\* A credit update may be indicated, and nothing else changes in the view.
LEMMA IndicateCreditFields ==
  ASSUME NEW c \in Connections
  PROVE  LET d == IndicateCredit(c) IN
         /\ d \in Connections
         /\ d.state = c.state /\ d.off = c.off /\ d.expiry = c.expiry /\ d.tx_len = c.tx_len
         /\ d.pending_rx \in {c.pending_rx, c.pending_rx \cup {"CreditUpdate"}}
<1>1. CASE peer_needs_credit_update(c)
  BY <1>1 DEF IndicateCredit, Indicate, Connections, PendingRx
<1>2. CASE ~peer_needs_credit_update(c)
  BY <1>2 DEF IndicateCredit
<1> QED BY <1>1, <1>2

\* send_pkt does what the view allows.
LEMMA SendPktView ==
  \A c \in Connections, pkt \in GuestPkts : \A d \in send_pkt(c, pkt) :
    /\ Yielding(c) /\ pkt.op \in Abs!PacketOps
    /\ pkt.op = "RW" /\ PeerSends(c) => c.tx_len + pkt.len <= CONN_TX_BUF_SIZE
    /\ "Request" \in c.pending_rx => pkt.op # "RESPONSE"
    => ViewOf(d) \in Abs!send_pkt(ViewOf(c), pkt.op) /\ Yielding(d)
\* What the view allows a packet of the guest to do, by operation and state.
<1>AbsSendPkt.
  ASSUME NEW v, IsView(v), NEW op \in Abs!PacketOps
  PROVE  /\ op = "RW" /\ v.state \in {"Established", "PeerClosed", "PeerShut"} =>
              {Abs!kill(v)} \cup Abs!Indicate(v) \subseteq Abs!send_pkt(v, op)
         /\ op = "RESPONSE" /\ v.state = "LocalInit" =>
              [v EXCEPT !.state = "Established", !.expiry = "None"] \in Abs!send_pkt(v, op)
         /\ op = "SHUTDOWN" /\ v.state = "Established" =>
              {[v EXCEPT !.state = "PeerClosed"], [v EXCEPT !.state = "PeerShut"],
               [v EXCEPT !.state = "PeerShut", !.pend = 4],
               [v EXCEPT !.state = "PeerShut", !.expiry = "Armed"]} \subseteq Abs!send_pkt(v, op)
         /\ op = "SHUTDOWN" /\ v.state \in {"PeerClosed", "PeerShut"} =>
              {v, [v EXCEPT !.state = "PeerShut"], [v EXCEPT !.state = "PeerShut", !.pend = 4]}
                \subseteq Abs!send_pkt(v, op)
         /\ op = "CREDIT_REQUEST" /\ v.state \in {"Established", "PeerClosed", "PeerShut", "PeerInit"} =>
              Abs!Indicate(v) \subseteq Abs!send_pkt(v, op)
         /\ ~(op = "RESPONSE" /\ v.state = "LocalInit") /\ ~(op = "SHUTDOWN" /\ v.state = "Established") =>
              v \in Abs!send_pkt(v, op)
  <2> USE <1>AbsSendPkt
  <2>1. v \in Abs!Indicate(v)
    <3>1. v = [v EXCEPT !.pend = v.pend] BY DEF IsView
    <3> QED BY <3>1 DEF Abs!Indicate
  <2>2. CASE op = "RW"
    <3>1. v.state \in {"Established", "PeerClosed", "PeerShut"} =>
            Abs!send_pkt(v, op) = {Abs!kill(v)} \cup Abs!Indicate(v)
      BY <2>2 DEF Abs!send_pkt
    <3>2. v.state \notin {"Established", "PeerClosed", "PeerShut"} => Abs!send_pkt(v, op) = {v}
      BY <2>2 DEF Abs!send_pkt
    <3> QED BY <2>1, <2>2, <3>1, <3>2
  <2>3. CASE op = "RESPONSE"
    <3>1. v.state = "LocalInit" =>
            Abs!send_pkt(v, op) = {[v EXCEPT !.state = "Established", !.expiry = "None"]}
      BY <2>3 DEF Abs!send_pkt
    <3>2. v.state # "LocalInit" => Abs!send_pkt(v, op) = {v} BY <2>3 DEF Abs!send_pkt
    <3> QED BY <2>3, <3>1, <3>2
  <2>4. CASE op = "SHUTDOWN"
    <3> DEFINE shut == [v EXCEPT !.state = "PeerShut"]
    <3>1. Abs!IndicateRst(shut) = [v EXCEPT !.state = "PeerShut", !.pend = 4]
      BY DEF Abs!IndicateRst, Abs!HasRst, MaxPend, IsView
    <3>2. [shut EXCEPT !.expiry = "Armed"] = [v EXCEPT !.state = "PeerShut", !.expiry = "Armed"]
      BY DEF IsView
    <3>3. v.state = "Established" =>
            Abs!send_pkt(v, op) = {[v EXCEPT !.state = "PeerClosed"], shut, Abs!IndicateRst(shut),
                                   [shut EXCEPT !.expiry = "Armed"]}
      BY <2>4 DEF Abs!send_pkt
    <3>4. v.state \in {"PeerClosed", "PeerShut"} =>
            Abs!send_pkt(v, op) = {v, shut, Abs!IndicateRst(shut)}
      BY <2>4 DEF Abs!send_pkt
    <3>5. v.state \notin {"Established", "PeerClosed", "PeerShut"} => Abs!send_pkt(v, op) = {v}
      BY <2>4 DEF Abs!send_pkt
    <3> QED BY <2>4, <3>1, <3>2, <3>3, <3>4, <3>5
  <2>5. CASE op = "CREDIT_REQUEST"
    <3>1. v.state \in {"Established", "PeerClosed", "PeerShut", "PeerInit"} =>
            Abs!send_pkt(v, op) = Abs!Indicate(v)
      BY <2>5 DEF Abs!send_pkt
    <3>2. v.state \notin {"Established", "PeerClosed", "PeerShut", "PeerInit"} =>
            Abs!send_pkt(v, op) = {v}
      BY <2>5 DEF Abs!send_pkt
    <3> QED BY <2>1, <2>5, <3>1, <3>2
  <2>6. CASE op = "CREDIT_UPDATE"
    <3>1. Abs!send_pkt(v, op) = {v} BY <2>6 DEF Abs!send_pkt
    <3> QED BY <2>6, <3>1
  <2> QED BY <2>2, <2>3, <2>4, <2>5, <2>6 DEF Abs!PacketOps

\* Data of the guest: the connection is killed, or may have a credit update to yield.
<1>SendBytesFields.
  ASSUME NEW c \in Connections, NEW n \in Nat, c.tx_len + n <= CONN_TX_BUF_SIZE,
         NEW d \in send_bytes(c, n)
  PROVE  \/ d = kill(c)
         \/ /\ d \in Connections
            /\ d.state = c.state /\ d.off = c.off /\ d.expiry = c.expiry
            /\ d.pending_rx \in {c.pending_rx, c.pending_rx \cup {"CreditUpdate"}}
  <2> USE <1>SendBytesFields
  <2>0. c.tx_len \in 0 .. CONN_TX_BUF_SIZE /\ c.fwd_cnt \in Counter BY DEF Connections
  <2>1. ASSUME NEW e \in Connections, NEW m \in Nat, e.tx_len + m <= CONN_TX_BUF_SIZE,
               e.state = c.state, e.off = c.off, e.expiry = c.expiry, e.pending_rx = c.pending_rx,
               d = push(e, m)
        PROVE  /\ d \in Connections
               /\ d.state = c.state /\ d.off = c.off /\ d.expiry = c.expiry
               /\ d.pending_rx \in {c.pending_rx, c.pending_rx \cup {"CreditUpdate"}}
    <3> DEFINE f == [e EXCEPT !.tx_len = @ + m]
    <3>1. /\ f \in Connections /\ f.state = e.state /\ f.off = e.off /\ f.expiry = e.expiry
          /\ f.pending_rx = e.pending_rx /\ e.tx_len \in Int
      BY <2>1 DEF Connections
    <3>2. d = IndicateCredit(f) BY <2>1, <3>1 DEF push
    <3> HIDE DEF f
    <3> QED BY <2>1, <3>1, <3>2, IndicateCreditFields
  <2>2. CASE d = push(c, n) BY <2>1, <2>2
  <2>3. CASE /\ c.tx_len = 0
             /\ \E w \in 0 .. n : d = push([c EXCEPT !.fwd_cnt = WAdd(@, w)], n - w)
    <3>1. PICK w \in 0 .. n : d = push([c EXCEPT !.fwd_cnt = WAdd(@, w)], n - w)
      BY <2>3
    <3> DEFINE e == [c EXCEPT !.fwd_cnt = WAdd(@, w)]
    <3>2. WAdd(c.fwd_cnt, w) \in Counter
      <4>1. w \in Counter BY <2>0, <2>3 DEF Counter
      <4> QED BY <2>0, <4>1, CounterClosed, Zenon
    <3>3. /\ e \in Connections /\ e.tx_len = 0 /\ e.state = c.state /\ e.off = c.off
          /\ e.expiry = c.expiry /\ e.pending_rx = c.pending_rx
      BY <2>3, <3>2 DEF Connections
    <3>4. d = push(e, n - w) BY <3>1
    <3> HIDE DEF e
    <3>5. n - w \in Nat /\ e.tx_len + (n - w) <= CONN_TX_BUF_SIZE BY <2>3, <3>3
    <3> QED BY <2>1, <3>3, <3>4, <3>5
  <2> QED BY <2>0, <2>2, <2>3 DEF send_bytes

<1>Step.
  ASSUME NEW c \in Connections, Yielding(c), NEW pkt \in GuestPkts, pkt.op \in Abs!PacketOps,
         pkt.op = "RW" /\ PeerSends(c) => c.tx_len + pkt.len <= CONN_TX_BUF_SIZE,
         "Request" \in c.pending_rx => pkt.op # "RESPONSE",
         NEW d \in send_pkt(c, pkt)
  PROVE  /\ ViewOf(d) \in Abs!send_pkt(ViewOf(c), pkt.op)
         /\ Yielding(d)
  <2> USE <1>Step
  <2> DEFINE b == [c EXCEPT !.peer_buf_alloc = pkt.buf_alloc,
                            !.peer_fwd_cnt = pkt.fwd_cnt]
             closed == [b EXCEPT !.state = "PeerClosed", !.off = @ \cup pkt.flags]
             armed == [closed EXCEPT !.expiry = "Armed"]
             est == [b EXCEPT !.expiry = "None", !.state = "Established"]
             upd == Indicate(b, "CreditUpdate")
             rst == Indicate(closed, "Rst")
             v == ViewOf(c)
  <2>1. /\ b \in Connections /\ b.state = c.state /\ b.off = c.off /\ b.tx_len = c.tx_len
        /\ b.pending_rx = c.pending_rx /\ b.expiry = c.expiry
    BY Zenon DEF Connections, GuestPkts
  <2>2. ViewOf(b) = v /\ Yielding(b) /\ IsView(v)
    BY <2>1, ViewShape DEF ViewOf, Yielding
  <2>3. v.state = IF c.state = "PeerClosed" /\ "rcv" \in c.off THEN "PeerShut" ELSE c.state
    BY DEF ViewOf
  <2>4. CASE PeerSends(b) /\ pkt.op = "RW" /\ pkt.len # 0
    <3>1. d \in send_bytes(b, pkt.len) BY <2>4 DEF send_pkt
    <3>2. b.tx_len + pkt.len <= CONN_TX_BUF_SIZE /\ pkt.len \in Nat
      BY <2>1, <2>4 DEF GuestPkts, PeerSends
    <3>3. v.state \in {"Established", "PeerClosed", "PeerShut"} /\ c.state \in {"Established", "PeerClosed"}
      BY <2>1, <2>3, <2>4 DEF PeerSends
    <3> SUFFICES ViewOf(d) \in Abs!send_pkt(v, pkt.op) /\ Yielding(d) OBVIOUS
    <3> HIDE DEF b, v
    <3>4. {Abs!kill(v)} \cup Abs!Indicate(v) \subseteq Abs!send_pkt(v, pkt.op)
      BY <2>2, <2>4, <3>3, <1>AbsSendPkt, ZenonT(40)
    <3>5. CASE d = kill(b)
      <4>1. ViewOf(kill(b)) = Abs!kill(v) BY <2>1, <2>2, KillView
      <4>2. Yielding(kill(b)) BY <2>1, <2>2, KillYielding
      <4>3. Abs!kill(v) \in Abs!send_pkt(v, pkt.op)
        <5> HIDE DEF Abs!kill, Abs!Indicate, Abs!send_pkt
        <5> QED BY <3>4
      <4> QED BY <3>5, <4>1, <4>2, <4>3
    <3>6. CASE /\ d \in Connections
               /\ d.state = b.state /\ d.off = b.off /\ d.expiry = b.expiry
               /\ d.pending_rx \in {b.pending_rx, b.pending_rx \cup {"CreditUpdate"}}
      <4>1. Yielding(d) BY <2>1, <2>2, <3>3, <3>6 DEF Yielding
      <4>2. ViewOf(d) \in Abs!Indicate(v) BY <2>1, <2>2, <3>6, <4>1, IndicateView
      <4>3. ViewOf(d) \in Abs!send_pkt(v, pkt.op) BY <3>4, <4>2
      <4> QED BY <4>1, <4>3
    <3>7. ViewOf(d) \in Abs!send_pkt(v, pkt.op) /\ Yielding(d)
      <4>1. \/ d = kill(b)
            \/ /\ d \in Connections
               /\ d.state = b.state /\ d.off = b.off /\ d.expiry = b.expiry
               /\ d.pending_rx \in {b.pending_rx, b.pending_rx \cup {"CreditUpdate"}}
        BY <2>1, <3>1, <3>2, <1>SendBytesFields
      <4> QED BY <4>1, <3>5, <3>6
    <3> QED BY <3>7
  <2>5. CASE d = b /\ ~(pkt.op = "RESPONSE" /\ c.state = "LocalInit")
                   /\ ~(pkt.op = "SHUTDOWN" /\ c.state = "Established")
    <3>1. v \in Abs!send_pkt(v, pkt.op)
      BY <2>2, <2>3, <2>5, <1>AbsSendPkt, Zenon
    <3> QED BY <2>2, <2>5, <3>1
  <2>6. CASE d = est /\ c.state = "LocalInit" /\ pkt.op = "RESPONSE"
    <3>1. /\ est.state = "Established" /\ est.expiry = "None" /\ est.pending_rx = c.pending_rx
      BY <2>1 DEF Connections
    <3>2. ViewOf(est) = [v EXCEPT !.state = "Established", !.expiry = "None"]
      <4>1. ViewOf(est) = [state |-> "Established", pend |-> v.pend, expiry |-> "None"]
        BY <3>1 DEF ViewOf
      <4>2. [v EXCEPT !.state = "Established", !.expiry = "None"]
              = [state |-> "Established", pend |-> v.pend, expiry |-> "None"]
        BY <2>2, ViewStateExpiry, Zenon
      <4> QED BY <4>1, <4>2
    <3>3. Yielding(est) BY <2>6, <3>1 DEF Yielding
    <3>4. [v EXCEPT !.state = "Established", !.expiry = "None"] \in Abs!send_pkt(v, pkt.op)
      BY <2>2, <2>3, <2>6, <1>AbsSendPkt, ZenonT(40)
    <3> QED BY <2>6, <3>2, <3>3, <3>4
  <2>7. CASE d = upd /\ pkt.op = "CREDIT_REQUEST" /\ c.state \in {"Established", "PeerClosed", "PeerInit"}
    <3>1. /\ upd \in Connections /\ upd.state = b.state /\ upd.off = b.off /\ upd.expiry = b.expiry
          /\ upd.pending_rx = b.pending_rx \cup {"CreditUpdate"}
      BY <2>1, Zenon DEF Indicate, Connections, PendingRx
    <3>2. v.state \in {"Established", "PeerClosed", "PeerShut", "PeerInit"} BY <2>3, <2>7
    <3> HIDE DEF b, upd, v
    <3>3. Yielding(upd) BY <2>1, <2>2, <2>7, <3>1 DEF Yielding
    <3>4. ViewOf(upd) \in Abs!Indicate(v) BY <2>1, <2>2, <3>1, <3>3, IndicateView
    <3>5. Abs!Indicate(v) \subseteq Abs!send_pkt(v, pkt.op)
      BY <2>2, <2>7, <3>2, <1>AbsSendPkt, ZenonT(40)
    <3> QED BY <2>7, <3>3, <3>4, <3>5 DEF v
  <2>8. CASE /\ pkt.op = "SHUTDOWN" /\ c.state \in {"Established", "PeerClosed"}
             /\ \/ d = closed
                \/ d = rst /\ closed.off = Flags
                \/ d = armed /\ closed.off = Flags /\ c.state = "Established"
    <3>1. /\ closed \in Connections /\ closed.state = "PeerClosed" /\ closed.off = c.off \cup pkt.flags
          /\ closed.pending_rx = c.pending_rx /\ closed.expiry = c.expiry
      BY <2>1, Zenon DEF Connections, GuestPkts, ConnStates
    <3>2. /\ rst.state = "PeerClosed" /\ rst.off = closed.off /\ rst.expiry = c.expiry
          /\ rst.pending_rx = c.pending_rx \cup {"Rst"}
      BY <3>1 DEF Indicate, Connections
    <3>3. /\ armed.state = "PeerClosed" /\ armed.off = closed.off /\ armed.expiry = "Armed"
          /\ armed.pending_rx = c.pending_rx
      BY <3>1 DEF Connections
    <3> HIDE DEF b, closed, rst, armed
    <3>4. "Request" \notin c.pending_rx /\ "Response" \notin c.pending_rx BY <2>8 DEF Yielding
    <3>5. Yielding(closed) /\ Yielding(rst) /\ Yielding(armed)
      BY <3>1, <3>2, <3>3, <3>4 DEF Yielding
    <3>6. /\ "rcv" \in closed.off => ViewOf(closed) = [v EXCEPT !.state = "PeerShut"]
          /\ "rcv" \notin closed.off => ViewOf(closed) = [v EXCEPT !.state = "PeerClosed"]
      BY <3>1 DEF ViewOf
    <3>7. "rcv" \notin closed.off /\ c.state = "PeerClosed" => ViewOf(closed) = v
      BY <3>1, Zenon DEF ViewOf
    <3>8. closed.off = Flags => ViewOf(rst) = [v EXCEPT !.state = "PeerShut", !.pend = 4]
      <4>1. closed.off = Flags => ViewOf(rst) = [state |-> "PeerShut", pend |-> 4, expiry |-> v.expiry]
        <5>1. closed.off = Flags => "rcv" \in rst.off BY <3>2 DEF Flags
        <5>2. "Rst" \in rst.pending_rx /\ rst.expiry = v.expiry BY <3>2 DEF ViewOf
        <5>3. MaxPend + 1 = 4 BY DEF MaxPend
        <5> QED BY <3>2, <5>1, <5>2, <5>3 DEF ViewOf
      <4>2. [v EXCEPT !.state = "PeerShut", !.pend = 4] = [state |-> "PeerShut", pend |-> 4, expiry |-> v.expiry]
        BY <2>2, ViewStatePend, Zenon
      <4> QED BY <4>1, <4>2
    <3>9. closed.off = Flags => ViewOf(armed) = [v EXCEPT !.state = "PeerShut", !.expiry = "Armed"]
      <4>1. closed.off = Flags => ViewOf(armed) = [state |-> "PeerShut", pend |-> v.pend, expiry |-> "Armed"]
        BY <3>3 DEF ViewOf, Flags
      <4>2. [v EXCEPT !.state = "PeerShut", !.expiry = "Armed"]
              = [state |-> "PeerShut", pend |-> v.pend, expiry |-> "Armed"]
        BY <2>2, ViewStateExpiry, ZenonT(40)
      <4> QED BY <4>1, <4>2
    <3>10. CASE c.state = "Established"
      <4>1. v.state = "Established" BY <2>3, <3>10
      <4> HIDE DEF v
      <4>2. {[v EXCEPT !.state = "PeerClosed"], [v EXCEPT !.state = "PeerShut"],
             [v EXCEPT !.state = "PeerShut", !.pend = 4],
             [v EXCEPT !.state = "PeerShut", !.expiry = "Armed"]} \subseteq Abs!send_pkt(v, pkt.op)
        BY <2>2, <2>8, <4>1, <1>AbsSendPkt, ZenonT(40)
      <4>3. ViewOf(d) \in Abs!send_pkt(v, pkt.op) BY <2>8, <3>6, <3>8, <3>9, <4>2
      <4> QED BY <2>8, <3>5, <4>3 DEF v
    <3>11. CASE c.state = "PeerClosed"
      <4>1. v.state \in {"PeerClosed", "PeerShut"} BY <2>3, <3>11
      <4> HIDE DEF v
      <4>2. {v, [v EXCEPT !.state = "PeerShut"], [v EXCEPT !.state = "PeerShut", !.pend = 4]}
               \subseteq Abs!send_pkt(v, pkt.op)
        BY <2>2, <2>8, <4>1, <1>AbsSendPkt, ZenonT(40)
      <4>3. ViewOf(d) \in Abs!send_pkt(v, pkt.op) BY <2>8, <3>6, <3>7, <3>8, <3>11, <4>2
      <4> QED BY <2>8, <3>5, <4>3 DEF v
    <3> QED BY <2>8, <3>10, <3>11
  <2>9. \/ PeerSends(b) /\ pkt.op = "RW" /\ pkt.len # 0
        \/ /\ d = b
           /\ ~(pkt.op = "RESPONSE" /\ b.state = "LocalInit") 
           /\ ~(pkt.op = "SHUTDOWN" /\ b.state = "Established")
        \/ d = est /\ b.state = "LocalInit" /\ pkt.op = "RESPONSE"
        \/ d = upd /\ pkt.op = "CREDIT_REQUEST" /\ b.state \in {"Established", "PeerClosed", "PeerInit"}
        \/ /\ pkt.op = "SHUTDOWN" /\ b.state \in {"Established", "PeerClosed"}
           /\ \/ d = closed
              \/ d = rst /\ closed.off = Flags
              \/ d = armed /\ closed.off = Flags /\ b.state = "Established"
    <3> HIDE DEF est, upd, closed, rst, armed
    <3>1. CASE pkt.op = "RW"
      BY <3>1 DEF send_pkt
    <3>2. CASE pkt.op = "RESPONSE"
      BY <3>2 DEF send_pkt, est
    <3>3. CASE pkt.op = "SHUTDOWN"
      BY <3>3 DEF send_pkt, closed, rst, armed
    <3>4. CASE pkt.op = "CREDIT_REQUEST"
      BY <3>4 DEF send_pkt, upd, PeerSends
    <3>5. CASE pkt.op = "CREDIT_UPDATE"
      BY <3>5 DEF send_pkt
    <3> QED BY <3>1, <3>2, <3>3, <3>4, <3>5 DEF Abs!PacketOps
  <2> QED BY <2>1, <2>4, <2>5, <2>6, <2>7, <2>8, <2>9
<1> QED BY <1>Step

----------------------------------------------------------------------------
\* An event of the host socket does what the view allows.
LEMMA NotifyView ==
  ASSUME NEW c \in Connections, Yielding(c), NEW ev, NEW d \in notify(c, ev)
  PROVE  /\ ViewOf(d) \in Abs!notify(ViewOf(c))
         /\ Yielding(d)
         /\ "Request" \in d.pending_rx => "Request" \in c.pending_rx
<1> DEFINE b == IF "EPOLLIN" \in ev THEN Indicate(c, "Rw") ELSE c
           After(x) == IF x.state = "PeerClosed" /\ x.off = Flags /\ x.tx_len = 0
                       THEN Indicate(x, "Rst") ELSE IndicateCredit(x)
           flushed(n) == [b EXCEPT !.tx_len = @ - n, !.fwd_cnt = WAdd(@, n)]
           v == ViewOf(c)
<1>1. /\ b \in Connections /\ b.state = c.state /\ b.off = c.off /\ b.tx_len = c.tx_len
      /\ b.expiry = c.expiry /\ b.pending_rx \in {c.pending_rx, c.pending_rx \cup {"Rw"}}
      /\ b.fwd_cnt = c.fwd_cnt
  BY DEF Indicate, Connections, PendingRx
<1>2. Yielding(b) BY <1>1 DEF Yielding
<1> HIDE DEF b
<1>3. {Abs!kill(v)} \cup Abs!Indicate(v) \subseteq Abs!notify(v) BY DEF Abs!notify
<1>4. ASSUME NEW e \in Connections, e.state = c.state, e.off = c.off, e.expiry = c.expiry,
             e.state = "LocalInit" => e.tx_len = 0 /\ "CreditUpdate" \notin e.pending_rx,
             c.pending_rx \subseteq e.pending_rx,
             e.pending_rx \subseteq c.pending_rx \cup {"Rw", "CreditUpdate"}
      PROVE  /\ ViewOf(e) \in Abs!notify(v)
             /\ Yielding(e)
             /\ "Request" \in e.pending_rx => "Request" \in c.pending_rx
  <2>1. Yielding(e) /\ ("Request" \in e.pending_rx => "Request" \in c.pending_rx)
    BY <1>4 DEF Yielding
  <2>2. ViewOf(e) \in Abs!Indicate(v) BY <1>4, <2>1, IndicateView
  <2> QED BY <1>3, <2>1, <2>2
<1>5. CASE d = b
  BY <1>1, <1>2, <1>4, <1>5 DEF Yielding
<1>6. CASE \E n \in 0 .. b.tx_len : d = After(flushed(n)) /\ c.tx_len > 0
  <2>1. PICK n \in 0 .. b.tx_len : d = After(flushed(n)) BY <1>6, Zenon
  <2> DEFINE f == flushed(n)
  <2>2. WAdd(b.fwd_cnt, n) \in Counter /\ b.tx_len - n \in 0 .. CONN_TX_BUF_SIZE
    <3>1. b.tx_len \in 0 .. CONN_TX_BUF_SIZE /\ b.fwd_cnt \in Counter BY <1>1 DEF Connections
    <3>2. n \in Counter /\ b.tx_len - n \in 0 .. CONN_TX_BUF_SIZE BY <3>1 DEF Counter
    <3> QED BY <3>1, <3>2, CounterClosed, Zenon
  <2>3. /\ f \in Connections /\ f.state = c.state /\ f.off = c.off /\ f.expiry = c.expiry
        /\ f.pending_rx = b.pending_rx
    BY <1>1, <2>2, Zenon DEF Connections
  <2>4. c.state # "LocalInit" BY <1>6 DEF Yielding
  <2>5. d = After(f) BY <2>1
  <2> HIDE DEF f
  <2>6. CASE f.state = "PeerClosed" /\ f.off = Flags /\ d = Indicate(f, "Rst")
    <3>1. /\ d.state = "PeerClosed" /\ d.off = Flags /\ d.expiry = c.expiry
          /\ d.pending_rx = b.pending_rx \cup {"Rst"}
      BY <2>3, <2>6 DEF Indicate, Connections
    <3>2. Yielding(d) /\ ("Request" \in d.pending_rx => "Request" \in c.pending_rx)
      BY <1>1, <2>3, <2>6, <3>1 DEF Yielding
    <3>3. c.state = "PeerClosed" /\ "rcv" \in c.off BY <2>3, <2>6 DEF Flags
    <3>4. v.state = "PeerShut" BY <3>3 DEF ViewOf
    <3>5. ViewOf(d) = Abs!IndicateRst(v)
      BY <3>1, <3>3 DEF ViewOf, Abs!IndicateRst, Abs!HasRst, Flags, MaxPend
    <3>6. Abs!IndicateRst(v) \in Abs!notify(v) BY <3>4 DEF Abs!notify
    <3> QED BY <3>2, <3>5, <3>6
  <2>7. CASE d = IndicateCredit(f)
    <3>1. /\ d \in Connections
          /\ d.state = f.state /\ d.off = f.off /\ d.expiry = f.expiry
          /\ d.pending_rx \in {f.pending_rx, f.pending_rx \cup {"CreditUpdate"}}
      BY <2>3, <2>7, IndicateCreditFields
    <3>2. /\ c.pending_rx \subseteq d.pending_rx
          /\ d.pending_rx \subseteq c.pending_rx \cup {"Rw", "CreditUpdate"}
      BY <1>1, <2>3, <3>1
    <3> QED BY <1>4, <2>3, <2>4, <3>1, <3>2
  <2> QED BY <2>5, <2>6, <2>7
<1>7. CASE d = After(kill(b))
  <2>1. kill(b) \in Connections /\ kill(b).state = "Killed" BY <1>1, KillType, KillKeeps
  <2>2. Yielding(kill(b)) /\ kill(b).pending_rx = b.pending_rx \cup {"Rst"}
    BY <1>1, <1>2, KillYielding
  <2>3. d = IndicateCredit(kill(b)) BY <1>7, <2>1
  <2>4. /\ d \in Connections /\ d.state = "Killed" /\ d.expiry = kill(b).expiry
        /\ d.pending_rx \in {kill(b).pending_rx, kill(b).pending_rx \cup {"CreditUpdate"}}
    BY <2>1, <2>3, IndicateCreditFields
  <2>5. Yielding(d) /\ ("Request" \in d.pending_rx => "Request" \in c.pending_rx)
    BY <1>1, <2>2, <2>4 DEF Yielding
  <2>6. kill(b).expiry = c.expiry BY <1>1 DEF kill, Indicate, Connections
  <2>7. ViewOf(d) = Abs!kill(v)
    <3>1. ViewOf(d) = [state |-> "Killed", pend |-> 4, expiry |-> c.expiry]
      BY <2>2, <2>4, <2>6 DEF ViewOf, MaxPend
    <3>2. v.expiry = c.expiry /\ IsView(v) BY ViewShape DEF ViewOf
    <3> HIDE DEF v
    <3> QED BY <3>1, <3>2, AbsKill
  <2> QED BY <1>3, <2>5, <2>7
<1>8. \/ d = b
      \/ \E n \in 0 .. b.tx_len : d = After(flushed(n)) /\ c.tx_len > 0
      \/ d = After(kill(b))
  BY Zenon DEF notify, FlushOut, b
<1> QED BY <1>5, <1>6, <1>7, <1>8, Zenon

----------------------------------------------------------------------------
\* A packet other than an RST, as the view yields it.
YieldsInView(c, d) ==
  /\ \E r \in Abs!recv_pkt(ViewOf(c)) : r.pkt # "RST" /\ r.conn = ViewOf(d)
  /\ Yielding(d)
  /\ "Request" \notin d.pending_rx

\* recv_pkt takes something off pending_rx, and nothing opens the connection again.
Taken(c, d) ==
  /\ d.pending_rx \subseteq c.pending_rx
  /\ d.pending_rx # c.pending_rx
  /\ d.pending_rx \cap {"Request", "Response"} = {}

\* The connection before and after it yields something other than an RST.
YieldChange(c, d) ==
  \/ c.state = "PeerInit" /\ d.state = "Established" /\ d.expiry = c.expiry
  \/ /\ c.state = "LocalInit" /\ c.expiry = "None" /\ d.state = "LocalInit"
     /\ d.expiry = "Armed" /\ d.tx_len = 0
  \/ /\ PeerReceives(c)
     /\ \/ d.state = c.state /\ d.off = c.off /\ d.expiry = c.expiry
        \/ d.state = "LocalClosed" /\ d.expiry = "Armed"
  \/ /\ c.state \in {"Established", "PeerClosed", "LocalClosed"}
     /\ d.state = c.state /\ d.off = c.off /\ d.expiry = c.expiry /\ d.pending_rx = {}

----------------------------------------------------------------------------
IsRst(r) == r.pkts # <<>> /\ Head(r.pkts).op = "RST"

\* recv_pkt yields an RST, or what the view yields.
LEMMA RecvPktView ==
  \A c \in Connections : \A r \in recv_pkt(c) :
    Yielding(c) /\ c.pending_rx # {} /\ ~IsRst(r) => YieldsInView(c, r.conn)
\* What the view allows recv_pkt to yield, by state.
<1>AbsRecvPkt.
  ASSUME NEW v, IsView(v), v.pend \in 1 .. 3, NEW n \in 0 .. 3, n < v.pend
  PROVE  /\ v.state = "PeerInit" =>
              [conn |-> [state |-> "Established", pend |-> n, expiry |-> v.expiry],
               pkt |-> "other"] \in Abs!recv_pkt(v)
         /\ v.state = "LocalInit" /\ v.expiry = "None" =>
              [conn |-> [state |-> "LocalInit", pend |-> n, expiry |-> "Armed"],
               pkt |-> "other"] \in Abs!recv_pkt(v)
         /\ v.state \in {"Established", "PeerClosed"} =>
              /\ [conn |-> [state |-> v.state, pend |-> n, expiry |-> v.expiry],
                  pkt |-> "other"] \in Abs!recv_pkt(v)
              /\ [conn |-> [state |-> "LocalClosed", pend |-> n, expiry |-> "Armed"],
                  pkt |-> "other"] \in Abs!recv_pkt(v)
              /\ [conn |-> [state |-> v.state, pend |-> 0, expiry |-> v.expiry],
                  pkt |-> "none"] \in Abs!recv_pkt(v)
         /\ v.state \in {"LocalClosed", "PeerShut"} =>
              [conn |-> [state |-> v.state, pend |-> 0, expiry |-> v.expiry],
               pkt |-> "other"] \in Abs!recv_pkt(v)
  <2> USE <1>AbsRecvPkt
  <2> DEFINE Left(w) == {[w EXCEPT !.pend = p] : p \in {m \in 0 .. MaxPend : m < w.pend}}
             Rst == Abs!Yields(Left(v), "RST")
  <2>0. MaxPend = 3 /\ Abs!HasRst = 4 /\ v.pend # 4 /\ v.pend # 0 /\ v.pend \in Int
    BY DEF MaxPend, Abs!HasRst
  <2>1. ASSUME NEW w, IsView(w), w.pend = v.pend
        PROVE  [state |-> w.state, pend |-> n, expiry |-> w.expiry] \in Left(w)
    <3>1. [state |-> w.state, pend |-> n, expiry |-> w.expiry] = [w EXCEPT !.pend = n]
      BY <2>1 DEF IsView
    <3>2. n \in {m \in 0 .. MaxPend : m < w.pend} BY <2>0, <2>1
    <3> QED BY <3>1, <3>2
  <2>2. ASSUME NEW S, NEW x \in S, NEW k
        PROVE  [conn |-> x, pkt |-> k] \in Abs!Yields(S, k)
    BY DEF Abs!Yields
  <2>3. CASE v.state = "PeerInit"
    <3> DEFINE w == [v EXCEPT !.state = "Established"]
    <3>1. IsView(w) /\ w.pend = v.pend /\ w.state = "Established" /\ w.expiry = v.expiry
      BY DEF IsView
    <3>2. Abs!recv_pkt(v) = Abs!Yields(Left(w), "other")
      BY <2>0, <2>3, Zenon DEF Abs!recv_pkt
    <3>3. [state |-> "Established", pend |-> n, expiry |-> v.expiry] \in Left(w)
      <4> HIDE DEF w
      <4> QED BY <2>1, <3>1
    <3> HIDE DEF w, Left
    <3> QED BY <2>2, <2>3, <3>2, <3>3
  <2>4. CASE v.state = "LocalInit"
    <3> DEFINE w == [v EXCEPT !.expiry = "Armed"]
    <3>1. IsView(w) /\ w.pend = v.pend /\ w.state = "LocalInit" /\ w.expiry = "Armed"
      BY <2>4 DEF IsView
    <3>2. v.expiry = "None" => Abs!recv_pkt(v) = Abs!Yields(Left(w), "other")
      BY <2>0, <2>4, Zenon DEF Abs!recv_pkt
    <3>3. [state |-> "LocalInit", pend |-> n, expiry |-> "Armed"] \in Left(w)
      <4> HIDE DEF w
      <4> QED BY <2>1, <3>1
    <3> HIDE DEF w, Left
    <3> QED BY <2>2, <2>4, <3>2, <3>3
  <2>5. CASE v.state \in {"Established", "PeerClosed"}
    <3> DEFINE w == [v EXCEPT !.state = "LocalClosed", !.expiry = "Armed"]
               A == Abs!Yields(Left(v), "other")
               B == Abs!Yields(Left(w), "other")
               C == Abs!Yields({[v EXCEPT !.pend = 0]}, "none")
    <3>1. IsView(w) /\ w.pend = v.pend /\ w.state = "LocalClosed" /\ w.expiry = "Armed"
      <4>1. w = [state |-> "LocalClosed", pend |-> v.pend, expiry |-> "Armed"]
        BY ViewStateExpiry, ZenonT(40)
      <4> HIDE DEF w
      <4> QED BY <4>1 DEF IsView
    <3>2. Abs!recv_pkt(v) = A \cup B \cup Rst \cup C
      BY <2>0, <2>5, Zenon DEF Abs!recv_pkt
    <3>3. [state |-> "LocalClosed", pend |-> n, expiry |-> "Armed"] \in Left(w)
      <4> HIDE DEF w
      <4> QED BY <2>1, <3>1
    <3>4. [state |-> v.state, pend |-> n, expiry |-> v.expiry] \in Left(v) BY <2>1, ZenonT(40)
    <3>5. [state |-> v.state, pend |-> 0, expiry |-> v.expiry] \in {[v EXCEPT !.pend = 0]}
      BY DEF IsView
    <3> HIDE DEF w, Left
    <3>6. /\ [conn |-> [state |-> v.state, pend |-> n, expiry |-> v.expiry], pkt |-> "other"] \in A
          /\ [conn |-> [state |-> "LocalClosed", pend |-> n, expiry |-> "Armed"], pkt |-> "other"] \in B
          /\ [conn |-> [state |-> v.state, pend |-> 0, expiry |-> v.expiry], pkt |-> "none"] \in C
      BY <2>2, <3>3, <3>4, <3>5
    <3> HIDE DEF A, B, C, Rst
    <3> QED BY <2>5, <3>2, <3>6
  <2>6. CASE v.state \in {"LocalClosed", "PeerShut"}
    <3> DEFINE C == Abs!Yields({[v EXCEPT !.pend = 0]}, "other")
    <3>1. Abs!recv_pkt(v) = Rst \cup C BY <2>0, <2>6, Zenon DEF Abs!recv_pkt
    <3>2. [state |-> v.state, pend |-> 0, expiry |-> v.expiry] \in {[v EXCEPT !.pend = 0]}
      BY DEF IsView
    <3>3. [conn |-> [state |-> v.state, pend |-> 0, expiry |-> v.expiry], pkt |-> "other"] \in C
      BY <2>2, <3>2
    <3> HIDE DEF C, Rst
    <3> QED BY <2>6, <3>1, <3>3
  <2> QED BY <2>3, <2>4, <2>5, <2>6

\* What a yielded connection looks like in the view.
<1>YieldView.
  ASSUME NEW c \in Connections, Yielding(c), "Rst" \notin c.pending_rx,
         NEW d \in Connections, Taken(c, d), YieldChange(c, d)
  PROVE  YieldsInView(c, d)
  <2> USE <1>YieldView
  <2> DEFINE v == ViewOf(c)
             n == Count(d.pending_rx)
  <2>1. /\ Count(c.pending_rx) \in 1 .. 3 /\ n \in 0 .. 3 /\ n < Count(c.pending_rx)
        /\ d.pending_rx = {} => n = 0
    <3>1. c.pending_rx # {} BY DEF Taken
    <3>2. Count(c.pending_rx) \in 0 .. 3 /\ Count(c.pending_rx) # 0 BY <3>1, PendBound
    <3>3. d.pending_rx \in SUBSET c.pending_rx /\ d.pending_rx # c.pending_rx BY DEF Taken
    <3>4. n \in 0 .. 3 /\ n < Count(c.pending_rx) BY <3>3, PendShrink
    <3>5. d.pending_rx = {} => n = 0 BY CountType
    <3> HIDE DEF n
    <3>6. Count(c.pending_rx) \in 1 .. 3 BY <3>2
    <3> QED BY <3>4, <3>5, <3>6
  <2>2. v.pend \in 1 .. 3 /\ n < v.pend /\ v.expiry = c.expiry BY <2>1 DEF ViewOf
  <2>3. v.state = IF c.state = "PeerClosed" /\ "rcv" \in c.off THEN "PeerShut" ELSE c.state
    BY DEF ViewOf
  <2>4. IsView(v) BY ViewShape
  <2>5. "Rst" \notin d.pending_rx /\ "Request" \notin d.pending_rx /\ "Response" \notin d.pending_rx
    BY DEF Taken
  <2>6. ViewOf(d) = [state |-> IF d.state = "PeerClosed" /\ "rcv" \in d.off THEN "PeerShut" ELSE d.state,
                     pend |-> n, expiry |-> d.expiry]
    BY <2>5 DEF ViewOf
  <2>7. Yielding(d)
    <3>1. d.state # "Killed" /\ d.state # "PeerInit"
      <4>1. c.state # "Killed" BY DEF Yielding
      <4> QED BY <4>1 DEF YieldChange, PeerReceives
    <3>2. d.state = "LocalInit" => "CreditUpdate" \notin d.pending_rx /\ d.tx_len = 0
      <4>1. d.state = "LocalInit" => c.state = "LocalInit" /\ d.tx_len = 0
        BY DEF YieldChange, PeerReceives
      <4> QED BY <4>1 DEF Yielding, Taken
    <3> QED BY <2>5, <3>1, <3>2 DEF Yielding
  <2>8. [conn |-> ViewOf(d), pkt |-> "other"] \in Abs!recv_pkt(v)
    <3> HIDE DEF v, n
    <3>1. CASE c.state = "PeerInit" /\ d.state = "Established" /\ d.expiry = c.expiry
      BY <2>1, <2>2, <2>3, <2>4, <2>6, <3>1, <1>AbsRecvPkt, Zenon
    <3>2. CASE c.state = "LocalInit" /\ c.expiry = "None" /\ d.state = "LocalInit" /\ d.expiry = "Armed"
      BY <2>1, <2>2, <2>3, <2>4, <2>6, <3>2, <1>AbsRecvPkt, Zenon
    <3>3. CASE PeerReceives(c) /\ d.state = c.state /\ d.off = c.off /\ d.expiry = c.expiry
      <4>1. v.state = c.state /\ v.state \in {"Established", "PeerClosed"}
        BY <2>3, <3>3 DEF PeerReceives
      <4>2. ViewOf(d) = [state |-> v.state, pend |-> n, expiry |-> v.expiry]
        BY <2>2, <2>3, <2>6, <3>3, <4>1
      <4> QED BY <2>1, <2>2, <2>4, <4>1, <4>2, <1>AbsRecvPkt, ZenonT(40)
    <3>4. CASE PeerReceives(c) /\ d.state = "LocalClosed" /\ d.expiry = "Armed"
      <4>1. v.state \in {"Established", "PeerClosed"} BY <2>3, <3>4 DEF PeerReceives
      <4>2. ViewOf(d) = [state |-> "LocalClosed", pend |-> n, expiry |-> "Armed"] BY <2>6, <3>4
      <4> QED BY <2>1, <2>2, <2>4, <4>1, <4>2, <1>AbsRecvPkt, ZenonT(40)
    <3>5. CASE /\ c.state \in {"Established", "PeerClosed", "LocalClosed"}
               /\ d.state = c.state /\ d.off = c.off /\ d.expiry = c.expiry /\ d.pending_rx = {}
      <4>1. v.state \in {"Established", "PeerClosed", "LocalClosed", "PeerShut"} BY <2>3, <3>5
      <4>2. ViewOf(d) = [state |-> v.state, pend |-> 0, expiry |-> v.expiry]
        BY <2>1, <2>2, <2>3, <2>6, <3>5
      <4>3. 0 \in 0 .. 3 /\ 0 < v.pend BY <2>2
      <4> QED BY <2>2, <2>4, <4>1, <4>2, <4>3, <1>AbsRecvPkt, ZenonT(40)
    <3> QED BY <3>1, <3>2, <3>3, <3>4, <3>5, ZenonT(40) DEF YieldChange
  <2> QED BY <2>5, <2>7, <2>8 DEF YieldsInView

\* A packet of operation op.
<1>YieldRst.
  ASSUME NEW d, NEW op
  PROVE  Yield(d, op).conn = d /\ (IsRst(Yield(d, op)) <=> op = "RST")
  BY <1>YieldRst DEF Yield, HostPkt, IsRst

<1>Step.
  ASSUME NEW c \in Connections, Yielding(c), c.pending_rx # {}, NEW r \in recv_pkt(c), ~IsRst(r)
  PROVE  YieldsInView(c, r.conn)
  <2> USE <1>Step
  <2> DEFINE Without(it) == [c EXCEPT !.pending_rx = @ \ {it}]
             d == Without("Rw")
             resp == [Without("Response") EXCEPT !.state = "Established", !.off = {}]
             req == [Without("Request") EXCEPT !.expiry = "Armed"]
             ask == [d EXCEPT !.last_fwd_cnt_to_peer = d.fwd_cnt]
             rst == Without("Rst")
             Plainly == c.pending_rx \cap {"Rst", "Response", "Request"} = {}
  <2>1. /\ resp.pending_rx = c.pending_rx \ {"Response"} /\ resp.state = "Established"
        /\ resp.expiry = c.expiry /\ resp \in Connections
    BY Zenon DEF Connections, ConnStates
  <2>2. /\ req.pending_rx = c.pending_rx \ {"Request"} /\ req.state = c.state
        /\ req.expiry = "Armed" /\ req.tx_len = c.tx_len /\ req \in Connections
    BY Zenon DEF Connections
  <2>3. /\ d \in Connections /\ d.pending_rx = c.pending_rx \ {"Rw"} /\ d.state = c.state
        /\ d.off = c.off /\ d.expiry = c.expiry
    BY DEF Connections
  <2>4. /\ ask \in Connections /\ ask.pending_rx = c.pending_rx \ {"Rw"} /\ ask.state = c.state
        /\ ask.off = c.off /\ ask.expiry = c.expiry
    BY ZenonT(40) DEF Connections
  <2>5. \/ r = Yield(rst, "RST")
        \/ r = Yield(resp, "RESPONSE") /\ "Response" \in c.pending_rx /\ "Rst" \notin c.pending_rx
        \/ /\ r = Yield(req, "REQUEST") /\ "Request" \in c.pending_rx
           /\ c.pending_rx \cap {"Rst", "Response"} = {}
        \/ /\ Plainly /\ "Rw" \in c.pending_rx
           /\ \/ r = Yield(d, "RST")
              \/ PeerReceives(d) /\ r = Yield(ask, "CREDIT_REQUEST")
              \/ PeerReceives(d) /\ r \in YieldData(d)
        \/ Plainly /\ "Rw" \notin c.pending_rx /\ r = YieldCredit(c)
    <3> HIDE DEF d, resp, req, ask, rst
    <3>1. CASE "Rst" \in c.pending_rx BY <3>1 DEF recv_pkt, rst
    <3>2. CASE "Rst" \notin c.pending_rx /\ "Response" \in c.pending_rx
      BY <3>2 DEF recv_pkt, resp
    <3>3. CASE c.pending_rx \cap {"Rst", "Response"} = {} /\ "Request" \in c.pending_rx
      BY <3>3 DEF recv_pkt, req
    <3>4. CASE Plainly /\ "Rw" \in c.pending_rx
      <4>1. r \in IF ~PeerReceives(d) THEN {Yield(d, "RST")}
                  ELSE IF need_credit_update_from_peer(d) THEN {Yield(ask, "CREDIT_REQUEST")}
                  ELSE YieldData(d)
        BY <3>4 DEF recv_pkt, d, ask
      <4> QED BY <3>4, <4>1
    <3>5. CASE Plainly /\ "Rw" \notin c.pending_rx
      BY <3>5 DEF recv_pkt
    <3> QED BY <3>1, <3>2, <3>3, <3>4, <3>5, ZenonT(40)
  <2>6. ASSUME NEW e \in Connections, Plainly, YieldCredit(e).conn = r.conn,
               e.state = c.state, e.off = c.off, e.expiry = c.expiry,
               e.pending_rx = c.pending_rx \ {"Rw"},
               "Rw" \in c.pending_rx => PeerReceives(c)
        PROVE  YieldsInView(c, r.conn)
    <3> DEFINE f == YieldCredit(e).conn
    <3>1. /\ f \in Connections /\ f.pending_rx = e.pending_rx \ {"CreditUpdate"}
          /\ f.state = c.state /\ f.off = c.off /\ f.expiry = c.expiry
      BY <2>6, ZenonT(40) DEF YieldCredit, Yield, Connections
    <3> HIDE DEF f
    <3>2. f.pending_rx = {} BY <2>6, <3>1, ZenonT(40) DEF Connections, PendingRx
    <3>3. c.state \in {"Established", "PeerClosed", "LocalClosed"}
      <4>1. "CreditUpdate" \in c.pending_rx \/ PeerReceives(c)
        BY <2>6 DEF Connections, PendingRx
      <4> QED BY <2>6, <4>1 DEF Yielding, PeerReceives, Connections, ConnStates
    <3>4. Taken(c, f) /\ "Rst" \notin c.pending_rx BY <2>6, <3>2 DEF Taken
    <3>5. YieldChange(c, f) BY <3>1, <3>2, <3>3 DEF YieldChange
    <3>6. YieldsInView(c, f) BY <3>1, <3>4, <3>5, <1>YieldView
    <3> QED BY <2>6, <3>6 DEF f
  <2> HIDE DEF Without, d, resp, req, ask, rst
  <2>7. CASE r = Yield(resp, "RESPONSE") /\ "Response" \in c.pending_rx /\ "Rst" \notin c.pending_rx
    <3>1. c.state = "PeerInit" /\ "Request" \notin c.pending_rx BY <2>7 DEF Yielding
    <3>2. Taken(c, resp) BY <2>1, <2>7, <3>1 DEF Taken
    <3>3. YieldChange(c, resp) BY <2>1, <3>1 DEF YieldChange
    <3>4. YieldsInView(c, resp) BY <2>1, <2>7, <3>2, <3>3, <1>YieldView
    <3> QED BY <2>7, <3>4, <1>YieldRst
  <2>8. CASE /\ r = Yield(req, "REQUEST") /\ "Request" \in c.pending_rx
             /\ c.pending_rx \cap {"Rst", "Response"} = {}
    <3>1. c.state = "LocalInit" /\ c.expiry = "None" /\ c.tx_len = 0 BY <2>8 DEF Yielding
    <3>2. Taken(c, req) /\ "Rst" \notin c.pending_rx BY <2>2, <2>8 DEF Taken
    <3>3. YieldChange(c, req) BY <2>2, <3>1 DEF YieldChange
    <3>4. YieldsInView(c, req) BY <2>2, <3>2, <3>3, <1>YieldView
    <3> QED BY <2>8, <3>4, <1>YieldRst
  <2>9. CASE Plainly /\ "Rw" \in c.pending_rx /\ PeerReceives(d) /\ r = Yield(ask, "CREDIT_REQUEST")
    <3>1. PeerReceives(c) BY <2>3, <2>9 DEF PeerReceives
    <3>2. Taken(c, ask) /\ "Rst" \notin c.pending_rx BY <2>4, <2>9 DEF Taken
    <3>3. YieldChange(c, ask) BY <2>4, <3>1 DEF YieldChange
    <3>4. YieldsInView(c, ask) BY <2>4, <3>2, <3>3, <1>YieldView
    <3> QED BY <2>9, <3>4, <1>YieldRst
  <2>10. CASE Plainly /\ "Rw" \in c.pending_rx /\ PeerReceives(d) /\ r \in YieldData(d)
    <3>1. PeerReceives(c) BY <2>3, <2>10 DEF PeerReceives
    <3>2. r.conn \in Connections BY RecvPktType DEF Yielded
    <3>3. \/ /\ r.conn.state = d.state /\ r.conn.off = d.off /\ r.conn.expiry = d.expiry
             /\ r.conn.pending_rx = d.pending_rx
          \/ /\ r.conn.state = "LocalClosed" /\ r.conn.expiry = "Armed"
             /\ r.conn.pending_rx = d.pending_rx
          \/ IsRst(r)
          \/ r = YieldCredit(d)
      <4> DEFINE told == [d EXCEPT !.last_fwd_cnt_to_peer = d.fwd_cnt]
                 data(n) == [conn |-> [told EXCEPT !.rx_cnt = WAdd(@, n)],
                             pkts |-> <<HostPkt(d, "RW", n, {})>>]
                 eof == [conn |-> [told EXCEPT !.state = "LocalClosed", !.off = {},
                                               !.expiry = "Armed"],
                         pkts |-> <<HostPkt(d, "SHUTDOWN", 0, Flags)>>]
      <4>1. \/ \E n \in 1 .. Least(MaxPkt, peer_avail_credit(d)) : r = data(n)
            \/ r \in {eof, Yield(told, "RST"), YieldCredit(d)}
        BY <2>10, Zenon DEF YieldData
      <4>2. \A n : /\ data(n).conn.state = d.state /\ data(n).conn.off = d.off
                   /\ data(n).conn.expiry = d.expiry /\ data(n).conn.pending_rx = d.pending_rx
        BY <2>3, Zenon DEF Connections
      <4>3. /\ eof.conn.state = "LocalClosed" /\ eof.conn.expiry = "Armed"
            /\ eof.conn.pending_rx = d.pending_rx
        BY <2>3, ZenonT(40) DEF Connections
      <4> HIDE DEF told, data, eof
      <4>4. IsRst(Yield(told, "RST")) BY <1>YieldRst
      <4> QED BY <4>1, <4>2, <4>3, <4>4, ZenonT(40)
    <3>4. CASE r = YieldCredit(d) BY <2>3, <2>6, <2>10, <3>1, <3>4
    <3>5. CASE /\ r.conn.state = d.state /\ r.conn.off = d.off /\ r.conn.expiry = d.expiry
               /\ r.conn.pending_rx = d.pending_rx
      <4>1. Taken(c, r.conn) /\ "Rst" \notin c.pending_rx BY <2>3, <2>10, <3>5 DEF Taken
      <4>2. YieldChange(c, r.conn) BY <2>3, <3>1, <3>5 DEF YieldChange
      <4> QED BY <3>2, <4>1, <4>2, <1>YieldView
    <3>6. CASE /\ r.conn.state = "LocalClosed" /\ r.conn.expiry = "Armed"
               /\ r.conn.pending_rx = d.pending_rx
      <4>1. Taken(c, r.conn) /\ "Rst" \notin c.pending_rx BY <2>3, <2>10, <3>6 DEF Taken
      <4>2. YieldChange(c, r.conn) BY <3>1, <3>6 DEF YieldChange
      <4> QED BY <3>2, <4>1, <4>2, <1>YieldView
    <3> QED BY <3>3, <3>4, <3>5, <3>6
  <2>11. CASE Plainly /\ "Rw" \notin c.pending_rx /\ r = YieldCredit(c)
    <3>1. c.pending_rx = c.pending_rx \ {"Rw"} BY <2>11
    <3> QED BY <2>6, <2>11, <3>1
  <2>12. CASE r = Yield(rst, "RST") \/ r = Yield(d, "RST")
    <3>1. IsRst(Yield(rst, "RST")) /\ IsRst(Yield(d, "RST")) BY <1>YieldRst
    <3> QED BY <2>12, <3>1
  <2> QED BY <2>5, <2>7, <2>8, <2>9, <2>10, <2>11, <2>12, ZenonT(40)
<1> QED BY <1>Step

----------------------------------------------------------------------------
\* A new connection is a new view.
LEMMA InitView == Init => Abs!ViewInit /\ ViewInv
<1> SUFFICES ASSUME Init PROVE Abs!ViewInit /\ ViewInv
  OBVIOUS
<1>1. PICK x \in {"Request", "Response"} : 
        /\ conn.pending_rx = {x} /\ conn.off = {} /\ conn.expiry = "None" /\ conn.tx_len = 0
        /\ conn.state = IF x = "Request" THEN "LocalInit" ELSE "PeerInit"
        /\ x = "Request" => guest.state = "Listen"
  <2>1. PICK alloc \in GuestAllocs :
          \/ conn = new_peer_init(alloc)
          \/ conn = new_local_init /\ guest = NewGuest("Listen", alloc)
    BY DEF Init
  <2>2. CASE conn = new_peer_init(alloc)
    <3>1. /\ conn.pending_rx = {"Response"} /\ conn.off = {} /\ conn.expiry = "None"
          /\ conn.tx_len = 0 /\ conn.state = "PeerInit"
      BY <2>2 DEF new_peer_init, NewConnection
    <3> QED BY <3>1
  <2>3. CASE conn = new_local_init /\ guest = NewGuest("Listen", alloc)
    <3>1. /\ conn.pending_rx = {"Request"} /\ conn.off = {} /\ conn.expiry = "None"
          /\ conn.tx_len = 0 /\ conn.state = "LocalInit"
      BY <2>3 DEF new_local_init, NewConnection
    <3>2. guest.state = "Listen" BY <2>3 DEF NewGuest
    <3> QED BY <3>1, <3>2
  <2> QED BY <2>1, <2>2, <2>3
<1>2. in_map = TRUE /\ toHost = <<>> BY DEF Init
<1>3. Count({x}) = 1 BY DEF Count
<1>4. ViewOf(conn) = [state |-> conn.state, pend |-> 1, expiry |-> "None"]
  BY <1>1, <1>3 DEF ViewOf
<1>5. Abs!ViewInit BY <1>1, <1>2, <1>4 DEF Abs!ViewInit, Abs!NewView
<1>6. ViewInv BY <1>1, <1>2 DEF ViewInv, Yielding, NotAsked
<1> QED BY <1>5, <1>6

\* Every step of the connection and its surroundings is a step of the view or leaves it
\* unchanged.
LEMMA StepView ==
  TypeOK /\ WindowInv /\ OrderInv /\ ViewInv /\ [Next]_vars =>
    [Abs!ViewNext]_<<ViewOf(conn), in_map>> /\ ViewInv'
\* The packets of the guest under way.
<1>TakenPkt.
  ASSUME TypeOK, ViewInv, toHost # <<>>
  PROVE  /\ Head(toHost) \in GuestPkts
         /\ Head(toHost).op # "REQUEST"
         /\ in_map /\ "Request" \in conn.pending_rx => Head(toHost).op # "RESPONSE"
         /\ Tail(toHost) \in Seq(GuestPkts)
         /\ Len(Tail(toHost)) = Len(toHost) - 1 /\ Len(toHost) \in Nat
         /\ \A i \in 1 .. Len(Tail(toHost)) : Tail(toHost)[i] = toHost[i + 1]
  <2> USE <1>TakenPkt
  <2>1. toHost \in Seq(GuestPkts) BY DEF TypeOK
  <2>2. Len(toHost) \in Nat /\ Len(toHost) >= 1 /\ Head(toHost) = toHost[1] BY <2>1
  <2>3. 1 \in 1 .. Len(toHost) BY <2>2
  <2> QED BY <2>1, <2>2, <2>3 DEF ViewInv, NotAsked

\* A step of the host on the connection, in the view.
<1>SendPktStep.
  ASSUME TypeOK, TxBufFits, ViewInv, MuxerSendPkt
  PROVE  [Abs!ViewNext]_<<ViewOf(conn), in_map>> /\ ViewInv'
  <2> USE <1>SendPktStep
  <2> DEFINE pkt == Head(toHost)
  <2>1. /\ toHost # <<>> /\ toHost' = Tail(toHost) /\ UNCHANGED guest
    BY DEF MuxerSendPkt
  <2>2. /\ pkt \in GuestPkts /\ pkt.op # "REQUEST"
        /\ in_map /\ "Request" \in conn.pending_rx => pkt.op # "RESPONSE"
        /\ \A i \in 1 .. Len(toHost') : i + 1 \in 1 .. Len(toHost) /\ toHost'[i] = toHost[i + 1]
    BY <2>1, <1>TakenPkt
  <2>3. /\ \A i \in 1 .. Len(toHost') : toHost'[i].op # "REQUEST"
        /\ NotAsked => NotAsked'
    BY <2>1, <2>2 DEF ViewInv, NotAsked
  <2>4. CASE ~in_map
    <3>1. UNCHANGED <<conn, in_map>> BY <2>4 DEF MuxerSendPkt
    <3>2. UNCHANGED <<ViewOf(conn), in_map>> BY <3>1 DEF ViewOf
    <3> QED BY <2>3, <2>4, <3>1, <3>2 DEF ViewInv
  <2>5. CASE in_map /\ pkt.op = "RST"
    <3>1. conn' = Dropped /\ in_map' = FALSE BY <2>5, ZenonT(40) DEF MuxerSendPkt, remove_connection
    <3>2. ViewOf(Dropped) = Abs!Gone
      <4>1. /\ Dropped.state = "Killed" /\ Dropped.pending_rx = {} /\ Dropped.expiry = "None"
        BY DEF Dropped, NewConnection
      <4>2. Count(Dropped.pending_rx) = 0 BY <4>1, CountType
      <4> QED BY <4>1, <4>2 DEF ViewOf, Abs!Gone
    <3>3. Abs!Remove BY <3>1, <3>2 DEF Abs!Remove, ViewOf
    <3>4. Abs!ViewNext BY <2>5, <3>3 DEF Abs!ViewNext
    <3> QED BY <2>3, <3>1, <3>4 DEF ViewInv
  <2>6. CASE in_map /\ pkt.op # "RST"
    <3>1. PICK d \in send_pkt(conn, pkt) : apply_conn_mutation(d)
      BY <2>6, Zenon DEF MuxerSendPkt
    <3>2. pkt.op = "RW" /\ PeerSends(conn) => conn.tx_len + pkt.len <= CONN_TX_BUF_SIZE
      BY <2>1, <2>6 DEF TxBufFits
    <3>3. UNCHANGED in_map BY <2>6, ZenonT(40) DEF MuxerSendPkt
    <3>4. pkt.op \in Abs!PacketOps BY <2>2, <2>6 DEF GuestPkts, Ops, Abs!PacketOps
    <3>5. conn \in Connections /\ Yielding(conn) BY <2>6 DEF TypeOK, ViewInv
    <3> HIDE DEF pkt
    <3>6. d \in Connections /\ Keeps(conn, d)
      BY <2>2, <3>2, <3>5, SendPktAccounting, SendPktKeeps DEF Accounting
    <3>7. ViewOf(d) \in Abs!send_pkt(ViewOf(conn), pkt.op) /\ Yielding(d)
      BY <2>2, <2>6, <3>2, <3>4, <3>5, SendPktView
    <3>8. /\ Abs!Mutated(ViewOf(d)) /\ Yielding(conn')
          /\ "Request" \in conn'.pending_rx => "Request" \in d.pending_rx
      BY <3>1, <3>6, <3>7, MutationView
    <3>9. "Request" \in conn'.pending_rx => "Request" \in conn.pending_rx
      BY <3>6, <3>8 DEF Keeps, Opening
    <3>10. Abs!ViewNext BY <2>6, <3>3, <3>4, <3>7, <3>8 DEF Abs!ViewNext
    <3> QED BY <2>3, <2>6, <3>3, <3>8, <3>9, <3>10 DEF ViewInv
  <2> QED BY <2>4, <2>5, <2>6

\* The muxer yields a packet of the connection to the guest.
<1>RecvPktStep.
  ASSUME TypeOK, ViewInv, MuxerRecvPkt
  PROVE  [Abs!ViewNext]_<<ViewOf(conn), in_map>> /\ ViewInv'
  <2> USE <1>RecvPktStep
  <2>1. PICK r \in recv_pkt(conn) :
          IF r.pkts # <<>> /\ Head(r.pkts).op = "RST"
          THEN remove_connection
          ELSE apply_conn_mutation(r.conn) /\ UNCHANGED in_map
    BY ZenonT(40) DEF MuxerRecvPkt
  <2>2. in_map /\ conn.pending_rx # {} /\ UNCHANGED <<toHost, guest>> BY DEF MuxerRecvPkt
  <2>3. conn \in Connections /\ Yielding(conn) BY <2>2 DEF TypeOK, ViewInv
  <2>4. \A i \in 1 .. Len(toHost') : toHost'[i].op # "REQUEST" BY <2>2 DEF ViewInv
  <2>5. CASE IsRst(r)
    <3>1. conn' = Dropped /\ in_map' = FALSE BY <2>1, <2>5 DEF IsRst, remove_connection
    <3>2. ViewOf(Dropped) = Abs!Gone
      <4>1. /\ Dropped.state = "Killed" /\ Dropped.pending_rx = {} /\ Dropped.expiry = "None"
        BY DEF Dropped, NewConnection
      <4>2. Count(Dropped.pending_rx) = 0 BY <4>1, CountType
      <4> QED BY <4>1, <4>2 DEF ViewOf, Abs!Gone
    <3>3. Abs!Remove BY <3>1, <3>2 DEF Abs!Remove, ViewOf
    <3>4. Abs!ViewNext BY <2>2, <3>3 DEF Abs!ViewNext
    <3> QED BY <2>4, <3>1, <3>4 DEF ViewInv
  <2>6. CASE ~IsRst(r)
    <3>1. apply_conn_mutation(r.conn) /\ UNCHANGED in_map BY <2>1, <2>6 DEF IsRst
    <3>2. YieldsInView(conn, r.conn) BY <2>2, <2>3, <2>6, RecvPktView
    <3>3. r.conn \in Connections BY <2>3, RecvPktType DEF Yielded
    <3>4. /\ Abs!Mutated(ViewOf(r.conn)) /\ Yielding(conn')
          /\ "Request" \in conn'.pending_rx => "Request" \in r.conn.pending_rx
      BY <3>1, <3>2, <3>3, MutationView DEF YieldsInView
    <3>5. PICK a \in Abs!recv_pkt(ViewOf(conn)) : a.pkt # "RST" /\ a.conn = ViewOf(r.conn)
      BY <3>2 DEF YieldsInView
    <3>6. Abs!Mutated(a.conn) BY <3>4, <3>5
    <3>7. Abs!ViewNext BY <2>2, <3>1, <3>5, <3>6 DEF Abs!ViewNext
    <3>8. "Request" \notin conn'.pending_rx BY <3>2, <3>4 DEF YieldsInView
    <3> QED BY <2>4, <3>1, <3>4, <3>7, <3>8 DEF ViewInv
  <2> QED BY <2>5, <2>6

\* The host stream has an event.
<1>EventStep.
  ASSUME TypeOK, ViewInv, NEW ev \in SUBSET {"EPOLLIN", "EPOLLOUT"}, HandleEvent(ev)
  PROVE  [Abs!ViewNext]_<<ViewOf(conn), in_map>> /\ ViewInv'
  <2> USE <1>EventStep
  <2>1. PICK d \in notify(conn, ev) : apply_conn_mutation(d) BY DEF HandleEvent
  <2>2. in_map /\ UNCHANGED <<in_map, toHost, guest>> BY DEF HandleEvent
  <2>3. conn \in Connections /\ Yielding(conn) BY <2>2 DEF TypeOK, ViewInv
  <2>4. d \in Connections BY <2>3, NotifyAccounting DEF Accounting
  <2>5. /\ ViewOf(d) \in Abs!notify(ViewOf(conn)) /\ Yielding(d)
        /\ "Request" \in d.pending_rx => "Request" \in conn.pending_rx
    BY <2>3, NotifyView
  <2>6. /\ Abs!Mutated(ViewOf(d)) /\ Yielding(conn')
        /\ "Request" \in conn'.pending_rx => "Request" \in d.pending_rx
    BY <2>1, <2>4, <2>5, MutationView
  <2>7. Abs!ViewNext BY <2>2, <2>5, <2>6 DEF Abs!ViewNext
  <2>8. ViewInv' BY <2>2, <2>5, <2>6 DEF ViewInv, NotAsked
  <2> QED BY <2>7, <2>8

\* The kill timer expires.
<1>TimerStep.
  ASSUME TypeOK, ViewInv, ExpiryPasses \/ SweepKillq
  PROVE  [Abs!ViewNext]_<<ViewOf(conn), in_map>> /\ ViewInv'
  <2> USE <1>TimerStep
  <2>1. in_map /\ UNCHANGED <<in_map, toHost, guest>> BY DEF ExpiryPasses, SweepKillq
  <2>2. conn \in Connections /\ Yielding(conn) BY <2>1 DEF TypeOK, ViewInv
  <2>3. CASE ExpiryPasses
    <3>1. conn.expiry = "Armed" /\ conn' = [conn EXCEPT !.expiry = "Expired"]
      BY <2>3 DEF ExpiryPasses
    <3>2. /\ conn'.state = conn.state /\ conn'.off = conn.off /\ conn'.tx_len = conn.tx_len
          /\ conn'.pending_rx = conn.pending_rx /\ conn'.expiry = "Expired"
      BY <2>2, <3>1 DEF Connections
    <3>3. ViewOf(conn).expiry = "Armed" BY <3>1 DEF ViewOf
    <3>4. ViewOf(conn)' = [ViewOf(conn) EXCEPT !.expiry = "Expired"] BY <3>2 DEF ViewOf
    <3>5. Abs!ViewNext BY <2>1, <3>3, <3>4 DEF Abs!ViewNext
    <3>6. Yielding(conn') /\ "Request" \notin conn'.pending_rx BY <2>2, <3>1, <3>2 DEF Yielding
    <3> QED BY <2>1, <3>5, <3>6 DEF ViewInv
  <2>4. CASE SweepKillq
    <3>1. conn.expiry = "Expired" /\ conn' = kill(conn) BY <2>4 DEF SweepKillq
    <3>2. ViewOf(conn).expiry = "Expired" BY <3>1 DEF ViewOf
    <3>3. ViewOf(kill(conn)) = Abs!kill(ViewOf(conn)) BY <2>2, KillView
    <3>4. ViewOf(conn)' = ViewOf(kill(conn)) BY <3>1 DEF ViewOf
    <3>5. Abs!ViewNext BY <2>1, <3>2, <3>3, <3>4 DEF Abs!ViewNext
    <3>6. Yielding(conn') /\ ("Request" \in conn'.pending_rx => "Request" \in conn.pending_rx)
      BY <2>2, <3>1, KillYielding
    <3> QED BY <2>1, <3>5, <3>6 DEF ViewInv, NotAsked
  <2> QED BY <2>3, <2>4

\* A packet the guest posts.
<1>PostedPkt.
  ASSUME TypeOK, NEW g, NEW op, NEW len, NEW flags, GuestPost(g, op, len, flags)
  PROVE  /\ Len(toHost') = Len(toHost) + 1
         /\ \A i \in 1 .. Len(toHost') :
              \/ i \in 1 .. Len(toHost) /\ toHost'[i] = toHost[i]
              \/ toHost'[i].op = op
  <2> USE <1>PostedPkt
  <2> DEFINE p == GuestPkt(g, op, len, flags)
  <2>1. p.op = op BY DEF GuestPkt
  <2>2. toHost' = Append(toHost, p) BY DEF GuestPost
  <2> HIDE DEF p
  <2>3. toHost \in Seq(GuestPkts) BY DEF TypeOK
  <2> QED BY <2>1, <2>2, <2>3

\* The guest's own steps do not touch the connection.
<1>GuestStep.
  ASSUME TypeOK, OrderInv, ViewInv, Guest
  PROVE  [Abs!ViewNext]_<<ViewOf(conn), in_map>> /\ ViewInv'
  <2> USE <1>GuestStep
  <2>1. UNCHANGED <<conn, in_map>>
    BY DEF Guest, GuestRecv, GuestSend, GuestRead, GuestResize, GuestAskCredit,
           GuestShutdown, GuestReset
  <2>2. UNCHANGED <<ViewOf(conn), in_map>> BY <2>1 DEF ViewOf
  <2>3. \/ UNCHANGED toHost
        \/ \E g, len, flags : \E op \in Ops \ {"REQUEST"} : GuestPost(g, op, len, flags)
    <3>1. CASE GuestRecv
      <4>1. \/ UNCHANGED toHost
            \/ GuestPost(Heard(Head(toGuest)), "RESPONSE", 0, {})
            \/ GuestPost(Heard(Head(toGuest)), "RST", 0, {})
            \/ GuestPost(Heard(Head(toGuest)), "CREDIT_UPDATE", 0, {})
        BY <3>1 DEF GuestRecv
      <4> QED BY <4>1 DEF Ops
    <3>2. CASE \E n \in 1 .. MaxPkt : GuestSend(n) BY <3>2 DEF GuestSend, Ops
    <3>3. CASE \E n \in 1 .. MaxPkt : GuestRead(n) BY <3>3 DEF GuestRead, Ops
    <3>4. CASE \E a \in GuestAllocs : GuestResize(a) BY <3>4 DEF GuestResize, Ops
    <3>5. CASE GuestAskCredit BY <3>5 DEF GuestAskCredit, Ops
    <3>6. CASE \E flags \in SUBSET Flags : GuestShutdown(flags) BY <3>6 DEF GuestShutdown, Ops
    <3>7. CASE GuestReset BY <3>7 DEF GuestReset, Ops
    <3> QED BY <3>1, <3>2, <3>3, <3>4, <3>5, <3>6, <3>7 DEF Guest
  <2>4. \A i \in 1 .. Len(toHost') : toHost'[i].op # "REQUEST"
    BY <2>3, <1>PostedPkt DEF ViewInv
  <2>5. in_map /\ "Request" \in conn.pending_rx => FALSE
    <3> HAVE in_map /\ "Request" \in conn.pending_rx
    <3>1. toGuest = <<>> BY DEF OrderInv, Matches, Plain, Opening
    <3>2. guest.state \notin {"Open", "Connecting"} BY DEF ViewInv, NotAsked
    <3> QED BY <3>1, <3>2, Zenon DEF Guest, GuestRecv, GuestSend, GuestRead, GuestResize,
                              GuestAskCredit, GuestShutdown, GuestReset
  <2> QED BY <2>1, <2>2, <2>4, <2>5 DEF ViewInv

<1>Step.
  ASSUME TypeOK, WindowInv, OrderInv, ViewInv, [Next]_vars
  PROVE  [Abs!ViewNext]_<<ViewOf(conn), in_map>> /\ ViewInv'
  <2> USE <1>Step
  <2>1. CASE UNCHANGED vars
    <3>1. UNCHANGED <<conn, in_map, toHost, guest>> BY <2>1 DEF vars
    <3> QED BY <3>1 DEF ViewOf, ViewInv, NotAsked
  <2>2. CASE MuxerRecvRst
    <3>1. UNCHANGED <<conn, in_map, toHost, guest>> BY <2>2 DEF MuxerRecvRst
    <3> QED BY <3>1 DEF ViewOf, ViewInv, NotAsked
  <2>3. CASE MuxerSendPkt BY <2>3, WindowFits, <1>SendPktStep
  <2>4. CASE Guest BY <2>4, <1>GuestStep
  <2> QED BY <2>1, <2>2, <2>3, <2>4, <1>RecvPktStep, <1>EventStep, <1>TimerStep DEF Next, Host
<1> QED BY <1>Step

\* The connection implements the muxer's view of it.
THEOREM VsockImplementsView == Spec => ImplementsView
<1>1. TypeOK /\ WindowInv /\ OrderInv /\ ViewInv /\ [Next]_vars =>
        [Abs!ViewNext]_<<ViewOf(conn), in_map>> /\ ViewInv'
  BY StepView
<1>2. Init => Abs!ViewInit /\ ViewInv BY InitView
<1> QED BY <1>1, <1>2, OrderInvariant, VsockInvariant, PTL DEF Spec, ImplementsView, Abs!ViewSpec

=============================================================================
