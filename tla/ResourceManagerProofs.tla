------------------------ MODULE ResourceManagerProofs ------------------------
(***************************************************************************)
(* The devices of the containers of a sandbox, for any number of           *)
(* containers, devices and requests: IndexUnique and AttachedWhileHeld of  *)
(* ResourceManager.                                                        *)
(*                                                                         *)
(* Neither is inductive. DmInv adds that a registered device is attached   *)
(* exactly while it has users (Registered) and that an index is released   *)
(* once and not taken again before (Released); TaskInv adds which          *)
(* containers hold a device at which place of their request.               *)
(***************************************************************************)
EXTENDS ResourceManager, FiniteSetTheorems, TLAPS

\* The provers a step is given to, in turn, where it does not name one.
USE SMTT(10), ZenonT(20), SMTT(40)

Device == [path : Paths, index : Nat, count : Nat]

\* The types of a device manager m and of the devices h of the hypervisor.
DmType(m, h) ==
  /\ m = [devices |-> m.devices, index |-> m.index, released |-> m.released]
  /\ m.devices \in [DOMAIN m.devices -> Device]
  /\ m.index \in Nat /\ m.released \in Seq(Nat)
  /\ h \in [DOMAIN h -> Nat]

Known(m, h) == DOMAIN m.devices \cup DOMAIN h
IndexOf(m, h, id) == IF id \in DOMAIN m.devices THEN m.devices[id].index ELSE h[id]

\* A registered device is attached, under its index, while it has users.
Registered(m, h) ==
  \A id \in DOMAIN m.devices : /\ m.devices[id].count > 0 <=> id \in DOMAIN h
                               /\ id \in DOMAIN h => h[id] = m.devices[id].index

\* An index is in use by one device, or was released once, or was never taken.
Distinct(m, h) ==
  \A i, j \in Known(m, h) : i # j => IndexOf(m, h, i) # IndexOf(m, h, j)
InUse(m, h) ==
  \A i \in Known(m, h) : /\ IndexOf(m, h, i) < m.index
                         /\ \A k \in 1 .. Len(m.released) : m.released[k] # IndexOf(m, h, i)
Released(m) ==
  /\ \A k \in 1 .. Len(m.released) : m.released[k] < m.index
  /\ \A k, l \in 1 .. Len(m.released) : k # l => m.released[k] # m.released[l]

DmInv(m, h) ==
  DmType(m, h) /\ Registered(m, h) /\ Distinct(m, h) /\ InUse(m, h) /\ Released(m)

Working == {"set", "calc", "check", "old", "resize", "online"}

\* A container holds its device from the attachment until it is stopped.
MayHold(p, o, h) ==
  /\ h \in BOOLEAN
  /\ p \in {"idle", "new"} => ~h
  /\ p = "run" => h /\ o # "Del"
  /\ p \in Working /\ o # "Del" => h

Holding(t) ==
  /\ t = [pc |-> t.pc, op |-> t.op, id |-> t.id, held |-> t.held, req |-> t.req, old |-> t.old]
  /\ MayHold(t.pc, t.op, t.held)

TaskInv == /\ task = [c \in Containers |-> task[c]]
           /\ \A c \in Containers : Holding(task[c])

HistType == hist = [dropped |-> hist.dropped, unsure |-> hist.unsure]

\* The request of a container with other fields.
Step(t, p, o, h, r, u) ==
  [pc |-> p, op |-> o, id |-> t.id, held |-> h, req |-> r, old |-> u]

\* The changes of a request that the steps make.
Pc(c, p) == [task EXCEPT ![c].pc = p]
PcOp(c, p, o) == [task EXCEPT ![c].pc = p, ![c].op = o]
PcHeld(c, p, h) == [task EXCEPT ![c].pc = p, ![c].held = h]
PcOpHeld(c, p, o, h) == [task EXCEPT ![c].pc = p, ![c].op = o, ![c].held = h]
PcReq(c, p, r) == [task EXCEPT ![c].pc = p, ![c].req = r]
PcOld(c, p, u) == [task EXCEPT ![c].pc = p, ![c].old = u]
PcReqOld(c, p, r, u) == [task EXCEPT ![c].pc = p, ![c].req = r, ![c].old = u]

\* A step that drops no device.
DropsNone == hist' = hist \/ \E b : hist' = [hist EXCEPT !.unsure = b]

Holders(id) == {c \in Containers : task[c].held /\ task[c].id = id}

RmInv == DmInv(dm, hyp) /\ TaskInv /\ HistType /\ AttachedWhileHeld

-----------------------------------------------------------------------------
\* The place of an index in the list of the released ones.
LEMMA PlaceInList ==
  ASSUME NEW s \in Seq(Nat), NEW i \in Nat
  PROVE  Cardinality({j \in DOMAIN s : s[j] > i}) \in 0 .. Len(s)
<1>1. /\ Len(s) \in Nat
      /\ DOMAIN s = 1 .. Len(s)
  OBVIOUS
<1>2. /\ IsFiniteSet(1 .. Len(s))
      /\ Cardinality(1 .. Len(s)) = Len(s)
  <2>1. Cardinality(1 .. Len(s)) = IF 1 > Len(s) THEN 0 ELSE Len(s) - 1 + 1
    BY <1>1, FS_Interval
  <2>2. IsFiniteSet(1 .. Len(s))
    BY <1>1, FS_Interval
  <2>3. QED
    BY <2>1, <2>2, <1>1
<1>3. PICK S : S = {j \in DOMAIN s : s[j] > i}
  BY Zenon
<1>4. S \subseteq 1 .. Len(s)
  BY <1>1, <1>3
<1>5. IsFiniteSet(S) /\ Cardinality(S) <= Cardinality(1 .. Len(s))
  BY <1>2, <1>4, FS_Subset, Zenon
<1>6. Cardinality(S) \in Nat
  BY <1>5, FS_CardinalityType
<1>7. QED
  BY <1>1, <1>2, <1>3, <1>5, <1>6

\* Two lists, one after the other.
LEMMA Concat ==
  ASSUME NEW s \in Seq(Nat), NEW t \in Seq(Nat)
  PROVE  /\ s \o t \in Seq(Nat)
         /\ Len(s \o t) = Len(s) + Len(t)
         /\ \A n \in 1 .. Len(s) : (s \o t)[n] = s[n]
         /\ \A n \in 1 .. Len(t) : (s \o t)[Len(s) + n] = t[n]
OBVIOUS

\* A part of a list.
LEMMA Part ==
  ASSUME NEW s \in Seq(Nat), NEW a \in Nat, NEW b \in Nat, a <= b, b <= Len(s)
  PROVE  /\ SubSeq(s, a + 1, b) \in Seq(Nat)
         /\ Len(SubSeq(s, a + 1, b)) = b - a
         /\ \A n \in 1 .. b - a : SubSeq(s, a + 1, b)[n] = s[a + n]
<1>1. PICK m : m = a + 1
  OBVIOUS
<1>2. m \in Nat /\ m >= 1 /\ m <= b + 1 /\ b - m + 1 = b - a /\ Len(s) \in Nat
  BY <1>1
<1>3. PICK t : t = SubSeq(s, m, b)
  BY Zenon
<1>4. Len(t) = b - m + 1
  BY <1>2, <1>3
<1>5. \A n \in 1 .. b - m + 1 : t[n] = s[m + n - 1]
  BY <1>2, <1>3
<1>6. t \in Seq(Nat)
  BY <1>2, <1>3
<1>7. \A n \in 1 .. b - a : m + n - 1 = a + n
  BY <1>1
<1>8. QED
  BY <1>1, <1>2, <1>3, <1>4, <1>5, <1>6, <1>7

\* A list with i after the first k elements, element by element.
LEMMA Inserted ==
  ASSUME NEW s \in Seq(Nat), NEW i \in Nat, NEW k \in 0 .. Len(s)
  PROVE  /\ Insert(s, k, i) \in Seq(Nat)
         /\ Len(Insert(s, k, i)) = Len(s) + 1
         /\ \A n \in 1 .. k : Insert(s, k, i)[n] = s[n]
         /\ Insert(s, k, i)[k + 1] = i
         /\ \A n \in 1 .. Len(s) - k : Insert(s, k, i)[k + 1 + n] = s[k + n]
<1>1. k \in Nat /\ Len(s) \in Nat /\ k <= Len(s)
  OBVIOUS
<1>2. PICK a : a = SubSeq(s, 1, k)
  BY Zenon
<1>3. a \in Seq(Nat) /\ Len(a) = k /\ \A n \in 1 .. k : a[n] = s[n]
  BY <1>1, <1>2
<1>4. PICK b : b = SubSeq(s, k + 1, Len(s))
  BY Zenon
<1>5. b \in Seq(Nat) /\ Len(b) = Len(s) - k /\ \A n \in 1 .. Len(s) - k : b[n] = s[k + n]
  BY <1>1, <1>4, Part
<1>6. PICK w : w = <<i>>
  BY Zenon
<1>7. w \in Seq(Nat) /\ Len(w) = 1 /\ w[1] = i
  BY <1>6
<1>8. PICK u : u = a \o w
  BY Zenon
<1>9. /\ u \in Seq(Nat)
      /\ Len(u) = Len(a) + Len(w)
      /\ \A n \in 1 .. Len(a) : u[n] = a[n]
      /\ \A n \in 1 .. Len(w) : u[Len(a) + n] = w[n]
  BY <1>3, <1>7, <1>8, Concat, ZenonT(40)
<1>10. u \in Seq(Nat) /\ Len(u) = k + 1 /\ (\A n \in 1 .. k : u[n] = s[n]) /\ u[k + 1] = i
  BY <1>1, <1>3, <1>7, <1>9
<1>11. Insert(s, k, i) = u \o b
  BY <1>2, <1>4, <1>6, <1>8 DEF Insert
<1>12. /\ Insert(s, k, i) \in Seq(Nat)
       /\ Len(Insert(s, k, i)) = Len(u) + Len(b)
       /\ \A n \in 1 .. Len(u) : Insert(s, k, i)[n] = u[n]
       /\ \A n \in 1 .. Len(b) : Insert(s, k, i)[Len(u) + n] = b[n]
  <2>1. u \in Seq(Nat) /\ b \in Seq(Nat)
    BY <1>5, <1>10
  <2>2. /\ u \o b \in Seq(Nat)
        /\ Len(u \o b) = Len(u) + Len(b)
        /\ \A n \in 1 .. Len(u) : (u \o b)[n] = u[n]
        /\ \A n \in 1 .. Len(b) : (u \o b)[Len(u) + n] = b[n]
    BY <2>1, Concat
  <2>3. QED
    BY <2>2, <1>11
<1>13. PICK t : t = Insert(s, k, i)
  OBVIOUS
<1>14. /\ t \in Seq(Nat)
       /\ Len(t) = Len(u) + Len(b)
       /\ \A n \in 1 .. Len(u) : t[n] = u[n]
       /\ \A n \in 1 .. Len(b) : t[Len(u) + n] = b[n]
  BY <1>12, <1>13, Zenon
<1>15. Len(t) = Len(s) + 1 /\ (\A n \in 1 .. k : t[n] = s[n]) /\ t[k + 1] = i
  <2>1. Len(t) = Len(s) + 1
    BY <1>1, <1>5, <1>10, <1>14
  <2>2. \A n \in 1 .. k + 1 : t[n] = u[n]
    BY <1>10, <1>14
  <2>3. k + 1 \in 1 .. k + 1 /\ \A n \in 1 .. k : n \in 1 .. k + 1
    BY <1>1
  <2>4. QED
    BY <1>10, <2>1, <2>2, <2>3
<1>16. \A n \in 1 .. Len(s) - k : t[k + 1 + n] = s[k + n]
  BY <1>1, <1>5, <1>10, <1>14, Zenon
<1>17. QED
  BY <1>13, <1>14, <1>15, <1>16, Zenon

\* A list of different numbers stays one when a new number is put into it.
LEMMA InsertedOnce ==
  ASSUME NEW s \in Seq(Nat), NEW i \in Nat, NEW k \in 0 .. Len(s),
         \A n \in 1 .. Len(s) : s[n] # i,
         \A n, l \in 1 .. Len(s) : n # l => s[n] # s[l]
  PROVE  /\ Insert(s, k, i) \in Seq(Nat)
         /\ \A n \in 1 .. Len(Insert(s, k, i)) :
              Insert(s, k, i)[n] = i \/ \E l \in 1 .. Len(s) : Insert(s, k, i)[n] = s[l]
         /\ \A n, l \in 1 .. Len(Insert(s, k, i)) :
              n # l => Insert(s, k, i)[n] # Insert(s, k, i)[l]
<1>1. PICK t : t = Insert(s, k, i)
  OBVIOUS
<1>2. k \in Nat /\ Len(s) \in Nat /\ k <= Len(s)
  OBVIOUS
<1>3. /\ t \in Seq(Nat)
      /\ Len(t) = Len(s) + 1
      /\ \A n \in 1 .. k : t[n] = s[n]
      /\ t[k + 1] = i
      /\ \A n \in 1 .. Len(s) - k : t[k + 1 + n] = s[k + n]
  <2>1. /\ Insert(s, k, i) \in Seq(Nat)
        /\ Len(Insert(s, k, i)) = Len(s) + 1
        /\ \A n \in 1 .. k : Insert(s, k, i)[n] = s[n]
        /\ Insert(s, k, i)[k + 1] = i
        /\ \A n \in 1 .. Len(s) - k : Insert(s, k, i)[k + 1 + n] = s[k + n]
    BY Inserted, ZenonT(40)
  <2>2. QED
    BY <1>1, <2>1, Zenon
<1>4. ASSUME NEW n \in 1 .. Len(t), n # k + 1
      PROVE  t[n] = s[IF n <= k THEN n ELSE n - 1] /\ (IF n <= k THEN n ELSE n - 1) \in 1 .. Len(s)
  <2>1. CASE n <= k
    BY <1>2, <1>3, <2>1
  <2>2. CASE n > k + 1
    <3>1. n - (k + 1) \in 1 .. Len(s) - k /\ k + 1 + (n - (k + 1)) = n /\ k + (n - (k + 1)) = n - 1
      BY <1>2, <1>3, <2>2
    <3>2. t[k + 1 + (n - (k + 1))] = s[k + (n - (k + 1))]
      BY <1>3, <3>1, Zenon
    <3>3. t[n] = s[n - 1]
      BY <3>1, <3>2
    <3>4. n - 1 \in 1 .. Len(s) /\ (IF n <= k THEN n ELSE n - 1) = n - 1
      BY <1>2, <1>3, <2>2
    <3>5. QED
      BY <3>3, <3>4
  <2>3. QED
    BY <1>2, <1>3, <1>4, <2>1, <2>2
<1>5. \A n \in 1 .. Len(t) : t[n] = i \/ \E l \in 1 .. Len(s) : t[n] = s[l]
  BY <1>3, <1>4, Zenon
<1>6. ASSUME NEW n \in 1 .. Len(t), NEW l \in 1 .. Len(t), n # l
      PROVE  t[n] # t[l]
  <2>1. CASE n = k + 1
    <3>1. l # k + 1
      BY <1>6, <2>1
    <3>2. QED
      BY <1>3, <1>4, <2>1, <3>1, ZenonT(40)
  <2>2. CASE l = k + 1
    <3>1. n # k + 1
      BY <1>6, <2>2
    <3>2. QED
      BY <1>3, <1>4, <2>2, <3>1, ZenonT(40)
  <2>3. CASE n # k + 1 /\ l # k + 1
    <3>1. PICK p : p = IF n <= k THEN n ELSE n - 1
      OBVIOUS
    <3>2. PICK q : q = IF l <= k THEN l ELSE l - 1
      OBVIOUS
    <3>3. p \in 1 .. Len(s) /\ q \in 1 .. Len(s) /\ t[n] = s[p] /\ t[l] = s[q]
      BY <1>4, <2>3, <3>1, <3>2
    <3>4. p # q
      BY <1>2, <1>3, <1>6, <2>3, <3>1, <3>2
    <3>5. QED
      BY <3>3, <3>4
  <2>4. QED
    BY <2>1, <2>2, <2>3
<1>7. QED
  BY <1>1, <1>3, <1>5, <1>6

-----------------------------------------------------------------------------
\* The types, conjunct by conjunct.
LEMMA DmFields ==
  ASSUME NEW m, NEW h, DmType(m, h)
  PROVE  /\ m.index \in Nat
         /\ m.released \in Seq(Nat)
         /\ Len(m.released) \in Nat
         /\ \A k \in 1 .. Len(m.released) : m.released[k] \in Nat
         /\ \A id \in DOMAIN m.devices : /\ m.devices[id] \in Device
                                         /\ m.devices[id].index \in Nat
                                         /\ m.devices[id].count \in Nat
         /\ \A id \in DOMAIN h : h[id] \in Nat
         /\ \A id \in Known(m, h) : IndexOf(m, h, id) \in Nat
<1>1. \A id \in DOMAIN m.devices : m.devices[id] \in Device
  BY DEF DmType
<1>2. \A id \in DOMAIN m.devices : m.devices[id].index \in Nat /\ m.devices[id].count \in Nat
  BY <1>1 DEF Device
<1>3. \A id \in DOMAIN h : h[id] \in Nat
  BY DEF DmType
<1>4. \A id \in Known(m, h) : IndexOf(m, h, id) \in Nat
  BY <1>2, <1>3 DEF Known, IndexOf
<1>5. m.index \in Nat /\ m.released \in Seq(Nat)
  BY DEF DmType
<1>6. Len(m.released) \in Nat /\ \A k \in 1 .. Len(m.released) : m.released[k] \in Nat
  BY <1>5
<1>7. QED
  BY <1>1, <1>2, <1>3, <1>4, <1>5, <1>6

\* A list without its last element.
LEMMA Popped ==
  ASSUME NEW s \in Seq(Nat), s # <<>>
  PROVE  /\ SubSeq(s, 1, Len(s) - 1) \in Seq(Nat)
         /\ Len(SubSeq(s, 1, Len(s) - 1)) = Len(s) - 1
         /\ Len(s) \in 1 .. Len(s)
         /\ \A k \in 1 .. Len(s) - 1 : /\ k \in 1 .. Len(s) /\ k # Len(s)
                                       /\ SubSeq(s, 1, Len(s) - 1)[k] = s[k]
<1>1. Len(s) \in Nat /\ Len(s) > 0
  OBVIOUS
<1>2. 0 \in Nat /\ Len(s) - 1 \in Nat /\ 0 <= Len(s) - 1 /\ Len(s) - 1 <= Len(s)
  BY <1>1
<1>3. /\ SubSeq(s, 0 + 1, Len(s) - 1) \in Seq(Nat)
      /\ Len(SubSeq(s, 0 + 1, Len(s) - 1)) = Len(s) - 1 - 0
      /\ \A n \in 1 .. Len(s) - 1 - 0 : SubSeq(s, 0 + 1, Len(s) - 1)[n] = s[0 + n]
  BY <1>2, Part, Zenon
<1>4. 0 + 1 = 1 /\ Len(s) - 1 - 0 = Len(s) - 1 /\ \A n \in 1 .. Len(s) - 1 : 0 + n = n
  BY <1>1
<1>5. /\ SubSeq(s, 1, Len(s) - 1) \in Seq(Nat)
      /\ Len(SubSeq(s, 1, Len(s) - 1)) = Len(s) - 1
      /\ \A n \in 1 .. Len(s) - 1 : SubSeq(s, 1, Len(s) - 1)[n] = s[n]
  BY <1>3, <1>4
<1>6. Len(s) \in 1 .. Len(s) /\ \A k \in 1 .. Len(s) - 1 : k \in 1 .. Len(s) /\ k # Len(s)
  BY <1>1
<1>7. QED
  BY <1>5, <1>6

\* The index that declare_device_index takes is not in use, and no longer released.
LEMMA Declared ==
  ASSUME NEW m, NEW h, DmInv(m, h)
  PROVE  LET d == declare_device_index(m) IN
         /\ d.m = [devices |-> m.devices, index |-> m.index + 1, released |-> d.m.released]
         /\ d.i \in Nat /\ d.i < m.index + 1
         /\ d.m.released \in Seq(Nat)
         /\ Len(d.m.released) \in Nat
         /\ \A k \in 1 .. Len(d.m.released) : /\ k \in 1 .. Len(m.released)
                                              /\ d.m.released[k] = m.released[k]
                                              /\ d.m.released[k] # d.i
         /\ \A i \in Known(m, h) : IndexOf(m, h, i) # d.i
<1>1. PICK r : r = m.released
  OBVIOUS
<1>2. PICK x : x = IF r # <<>> THEN r[Len(r)] ELSE m.index
  OBVIOUS
<1>3. PICK q : q = IF r # <<>> THEN SubSeq(r, 1, Len(r) - 1) ELSE r
  BY Zenon
<1>4. DmType(m, h) /\ InUse(m, h) /\ Released(m)
  BY DEF DmInv
<1>5. m = [devices |-> m.devices, index |-> m.index, released |-> m.released]
  BY <1>4 DEF DmType
<1>6. PICK d : d = declare_device_index(m)
  OBVIOUS
<1>7. d.i = x /\ d.m = [devices |-> m.devices, index |-> m.index + 1, released |-> q]
  <2>1. d.i = x
    BY <1>1, <1>2, <1>6 DEF declare_device_index
  <2>2. d.m = [m EXCEPT !.index = @ + 1, !.released = q]
    BY <1>1, <1>3, <1>6 DEF declare_device_index
  <2>3. PICK e, n : e = m.devices /\ n = m.index
    OBVIOUS
  <2>4. m = [devices |-> e, index |-> n, released |-> r]
    BY <1>1, <1>5, <2>3
  <2>5. d.m = [devices |-> e, index |-> n + 1, released |-> q]
    BY <2>2, <2>4, Zenon
  <2>6. QED
    BY <2>1, <2>3, <2>5
<1>8. d.m.released = q
  BY <1>7
<1>9. r \in Seq(Nat) /\ Len(r) \in Nat /\ m.index \in Nat
  BY <1>1, <1>4, DmFields
<1>10. /\ x \in Nat /\ x < m.index + 1
       /\ q \in Seq(Nat) /\ Len(q) \in Nat
       /\ \A k \in 1 .. Len(q) : k \in 1 .. Len(r) /\ q[k] = r[k] /\ q[k] # x
  <2>1. CASE r = <<>>
    <3>1. x = m.index /\ q = r /\ Len(q) = 0
      BY <1>2, <1>3, <2>1
    <3>2. QED
      BY <3>1, <1>9
  <2>2. CASE r # <<>>
    <3>1. x = r[Len(r)] /\ q = SubSeq(r, 1, Len(r) - 1)
      BY <1>2, <1>3, <2>2
    <3>2. /\ q \in Seq(Nat)
          /\ Len(q) = Len(r) - 1
          /\ Len(r) \in 1 .. Len(r)
          /\ \A k \in 1 .. Len(r) - 1 : k \in 1 .. Len(r) /\ k # Len(r) /\ q[k] = r[k]
      BY <1>9, <2>2, <3>1, Popped
    <3>3. \A k \in 1 .. Len(r) : r[k] \in Nat /\ r[k] < m.index
      BY <1>1, <1>4, <1>9 DEF Released
    <3>4. \A k, l \in 1 .. Len(r) : k # l => r[k] # r[l]
      BY <1>1, <1>4 DEF Released
    <3>5. x \in Nat /\ x < m.index + 1
      <4>1. x \in Nat /\ x < m.index
        BY <3>1, <3>2, <3>3
      <4>2. QED
        BY <4>1, <1>9
    <3>6. \A k \in 1 .. Len(q) : k \in 1 .. Len(r) /\ q[k] = r[k] /\ q[k] # x
      BY <3>1, <3>2, <3>4
    <3>7. QED
      BY <3>2, <3>5, <3>6, <1>9
  <2>3. QED
    BY <2>1, <2>2
<1>11. ASSUME NEW i \in Known(m, h)
       PROVE  IndexOf(m, h, i) # x
  <2>1. /\ IndexOf(m, h, i) < m.index
        /\ \A k \in 1 .. Len(r) : r[k] # IndexOf(m, h, i)
    BY <1>1, <1>4 DEF InUse
  <2>2. IndexOf(m, h, i) \in Nat
    BY <1>4, DmFields
  <2>3. CASE r = <<>>
    BY <1>2, <1>9, <2>1, <2>2, <2>3
  <2>4. CASE r # <<>>
    <3>1. Len(r) \in 1 .. Len(r) /\ x = r[Len(r)]
      BY <1>2, <1>9, <2>4, Popped
    <3>2. QED
      BY <2>1, <3>1
  <2>5. QED
    BY <2>3, <2>4
<1>12. QED
  <2>1. /\ d.m = [devices |-> m.devices, index |-> m.index + 1, released |-> d.m.released]
        /\ d.i \in Nat /\ d.i < m.index + 1
        /\ d.m.released \in Seq(Nat)
        /\ Len(d.m.released) \in Nat
        /\ \A k \in 1 .. Len(d.m.released) : /\ k \in 1 .. Len(m.released)
                                             /\ d.m.released[k] = m.released[k]
                                             /\ d.m.released[k] # d.i
        /\ \A i \in Known(m, h) : IndexOf(m, h, i) # d.i
    BY <1>1, <1>7, <1>8, <1>10, <1>11
  <2>2. QED
    BY <2>1, <1>6, Zenon

\* What the indexes depend on: the devices, the counter and the released indexes.
LEMMA SameIndexes ==
  ASSUME NEW m, NEW n, NEW h, n.devices = m.devices
  PROVE  /\ Known(n, h) = Known(m, h)
         /\ \A i : IndexOf(n, h, i) = IndexOf(m, h, i)
BY DEF Known, IndexOf

\* An index is taken for a device that is not created.
LEMMA DeclareKeeps ==
  ASSUME NEW m, NEW h, DmInv(m, h)
  PROVE  DmInv(declare_device_index(m).m, h)
<1>1. PICK d : d = declare_device_index(m)
  OBVIOUS
<1>2. /\ d.m = [devices |-> m.devices, index |-> m.index + 1, released |-> d.m.released]
      /\ d.m.released \in Seq(Nat)
      /\ Len(d.m.released) \in Nat
      /\ \A k \in 1 .. Len(d.m.released) : /\ k \in 1 .. Len(m.released)
                                           /\ d.m.released[k] = m.released[k]
  BY <1>1, Declared, Zenon
<1>3. PICK n : n = d.m
  OBVIOUS
<1>4. /\ n = [devices |-> m.devices, index |-> m.index + 1, released |-> n.released]
      /\ n.released \in Seq(Nat)
      /\ Len(n.released) \in Nat
      /\ \A k \in 1 .. Len(n.released) : /\ k \in 1 .. Len(m.released)
                                         /\ n.released[k] = m.released[k]
  BY <1>2, <1>3, Zenon
<1>5. n.devices = m.devices /\ n.index = m.index + 1
  BY <1>4
<1>6. /\ DmType(m, h) /\ Registered(m, h) /\ Distinct(m, h) /\ InUse(m, h) /\ Released(m)
      /\ m.index \in Nat
      /\ \A k \in 1 .. Len(m.released) : m.released[k] \in Nat
      /\ \A i \in Known(m, h) : IndexOf(m, h, i) \in Nat
  BY DmFields DEF DmInv
<1>7. Known(n, h) = Known(m, h) /\ \A i : IndexOf(n, h, i) = IndexOf(m, h, i)
  BY <1>5, SameIndexes
<1>8. DmType(n, h)
  BY <1>4, <1>5, <1>6 DEF DmType
<1>9. Registered(n, h)
  BY <1>5, <1>6 DEF Registered
<1>10. Distinct(n, h)
  BY <1>6, <1>7 DEF Distinct
<1>11. InUse(n, h)
  <2>1. ASSUME NEW i \in Known(m, h)
        PROVE  /\ IndexOf(m, h, i) < m.index + 1
               /\ \A k \in 1 .. Len(n.released) : n.released[k] # IndexOf(m, h, i)
    <3>1. /\ IndexOf(m, h, i) < m.index
          /\ \A k \in 1 .. Len(m.released) : m.released[k] # IndexOf(m, h, i)
      BY <1>6 DEF InUse
    <3>2. IndexOf(m, h, i) \in Nat /\ m.index \in Nat
      BY <1>6
    <3>3. IndexOf(m, h, i) < m.index + 1
      BY <3>1, <3>2
    <3>4. \A k \in 1 .. Len(n.released) : n.released[k] # IndexOf(m, h, i)
      BY <1>4, <3>1, Zenon
    <3>5. QED
      BY <3>3, <3>4
  <2>2. QED
    BY <1>5, <1>7, <2>1 DEF InUse
<1>12. Released(n)
  BY <1>4, <1>5, <1>6 DEF Released
<1>13. QED
  BY <1>1, <1>3, <1>8, <1>9, <1>10, <1>11, <1>12, Zenon DEF DmInv

-----------------------------------------------------------------------------
\* A new device has an index of its own.
LEMMA RegisterKeeps ==
  ASSUME NEW m, NEW h, DmInv(m, h), NEW id, id \notin Known(m, h), NEW path \in Paths
  PROVE  DmInv(create_block_device(m, id, path), h)
<1>1. PICK d : d = declare_device_index(m)
  OBVIOUS
<1>2. /\ d.m = [devices |-> m.devices, index |-> m.index + 1, released |-> d.m.released]
      /\ d.i \in Nat /\ d.i < m.index + 1
      /\ d.m.released \in Seq(Nat)
      /\ Len(d.m.released) \in Nat
      /\ \A k \in 1 .. Len(d.m.released) : /\ k \in 1 .. Len(m.released)
                                           /\ d.m.released[k] = m.released[k]
                                           /\ d.m.released[k] # d.i
      /\ \A i \in Known(m, h) : IndexOf(m, h, i) # d.i
  BY <1>1, Declared, Zenon
<1>3. PICK x, r : x = d.i /\ r = d.m.released
  OBVIOUS
<1>4. PICK v : v = [path |-> path, index |-> x, count |-> 0]
  BY Zenon
<1>5. PICK e : e = With(m.devices, id, v)
  OBVIOUS
<1>6. PICK n : n = create_block_device(m, id, path)
  OBVIOUS
<1>7. n = [devices |-> e, index |-> m.index + 1, released |-> r]
  <2>1. n = [d.m EXCEPT !.devices = With(@, id, v)]
    BY <1>1, <1>3, <1>4, <1>6 DEF create_block_device
  <2>2. d.m = [devices |-> m.devices, index |-> m.index + 1, released |-> r]
    BY <1>2, <1>3
  <2>3. QED
    BY <2>1, <2>2, <1>5
<1>8. /\ n.devices = e /\ n.index = m.index + 1 /\ n.released = r
      /\ n = [devices |-> n.devices, index |-> n.index, released |-> n.released]
  BY <1>7
<1>9. v \in Device /\ v.index = x /\ v.count = 0
  BY <1>2, <1>3, <1>4 DEF Device
<1>10. /\ DmType(m, h) /\ Registered(m, h) /\ Distinct(m, h) /\ InUse(m, h) /\ Released(m)
       /\ m.index \in Nat
       /\ \A k \in 1 .. Len(m.released) : m.released[k] \in Nat
       /\ \A i \in Known(m, h) : IndexOf(m, h, i) \in Nat
       /\ \A i \in DOMAIN m.devices : m.devices[i] \in Device
  BY DmFields DEF DmInv
<1>11. id \notin DOMAIN m.devices /\ id \notin DOMAIN h
  BY DEF Known
<1>12. /\ DOMAIN e = DOMAIN m.devices \cup {id}
       /\ e[id] = v
       /\ \A i \in DOMAIN m.devices : e[i] = m.devices[i]
       /\ e \in [DOMAIN e -> Device]
  BY <1>5, <1>9, <1>10, <1>11 DEF With
<1>13. /\ Known(n, h) = Known(m, h) \cup {id}
       /\ IndexOf(n, h, id) = x
       /\ \A i \in Known(m, h) : IndexOf(n, h, i) = IndexOf(m, h, i)
  BY <1>8, <1>9, <1>11, <1>12 DEF Known, IndexOf
<1>14. DmType(n, h)
  BY <1>2, <1>3, <1>8, <1>10, <1>12 DEF DmType
<1>15. Registered(n, h)
  BY <1>8, <1>9, <1>10, <1>11, <1>12 DEF Registered
<1>16. Distinct(n, h)
  BY <1>2, <1>3, <1>10, <1>13 DEF Distinct
<1>17. ASSUME NEW i \in Known(n, h)
       PROVE  /\ IndexOf(n, h, i) < m.index + 1
              /\ \A k \in 1 .. Len(r) : r[k] # IndexOf(n, h, i)
  <2>1. CASE i = id
    BY <1>2, <1>3, <1>13, <2>1
  <2>2. CASE i \in Known(m, h)
    <3>1. /\ IndexOf(m, h, i) < m.index
          /\ \A k \in 1 .. Len(m.released) : m.released[k] # IndexOf(m, h, i)
      BY <1>10, <2>2 DEF InUse
    <3>2. IndexOf(m, h, i) \in Nat /\ m.index \in Nat /\ IndexOf(n, h, i) = IndexOf(m, h, i)
      BY <1>10, <1>13, <2>2
    <3>3. IndexOf(n, h, i) < m.index + 1
      BY <3>1, <3>2
    <3>4. \A k \in 1 .. Len(r) : r[k] # IndexOf(n, h, i)
      BY <1>2, <1>3, <3>1, <3>2, Zenon
    <3>5. QED
      BY <3>3, <3>4
  <2>3. QED
    BY <1>13, <2>1, <2>2
<1>18. InUse(n, h)
  BY <1>8, <1>17 DEF InUse
<1>19. Released(n)
  <2>1. \A k \in 1 .. Len(r) : /\ k \in 1 .. Len(m.released)
                               /\ r[k] = m.released[k]
    BY <1>2, <1>3
  <2>2. /\ \A k \in 1 .. Len(m.released) : m.released[k] < m.index /\ m.released[k] \in Nat
        /\ \A k, l \in 1 .. Len(m.released) : k # l => m.released[k] # m.released[l]
    BY <1>10 DEF Released
  <2>3. \A k \in 1 .. Len(r) : r[k] < m.index + 1
    BY <1>10, <2>1, <2>2
  <2>4. \A k, l \in 1 .. Len(r) : k # l => r[k] # r[l]
    BY <2>1, <2>2, Zenon
  <2>5. QED
    BY <1>8, <2>3, <2>4 DEF Released
<1>20. QED
  BY <1>6, <1>14, <1>15, <1>16, <1>18, <1>19, Zenon DEF DmInv

\* A device with another number of users.
LEMMA Counted ==
  ASSUME NEW m, NEW h, DmType(m, h), NEW id \in DOMAIN m.devices, NEW k \in Nat,
         NEW n, n = SetCount(m, id, k)
  PROVE  /\ n = [devices |-> n.devices, index |-> m.index, released |-> m.released]
         /\ n.devices \in [DOMAIN m.devices -> Device]
         /\ DOMAIN n.devices = DOMAIN m.devices
         /\ \A i \in DOMAIN m.devices : /\ n.devices[i].index = m.devices[i].index
                                        /\ i # id => n.devices[i] = m.devices[i]
         /\ n.devices[id].count = k
<1>1. PICK e, x, r : e = m.devices /\ x = m.index /\ r = m.released
  OBVIOUS
<1>2. m = [devices |-> e, index |-> x, released |-> r] /\ e \in [DOMAIN e -> Device]
  BY <1>1 DEF DmType
<1>3. PICK f : f = [e EXCEPT ![id].count = k]
  BY Zenon
<1>4. n = [devices |-> f, index |-> x, released |-> r]
  BY <1>2, <1>3 DEF SetCount
<1>5. e[id] \in Device
  BY <1>1, <1>2
<1>6. PICK v : v = [e[id] EXCEPT !.count = k]
  BY Zenon
<1>7. v \in Device /\ v.index = e[id].index /\ v.count = k
  BY <1>5, <1>6 DEF Device
<1>8. f = [e EXCEPT ![id] = v]
  BY <1>3, <1>6
<1>9. /\ f \in [DOMAIN e -> Device]
       /\ DOMAIN f = DOMAIN e
       /\ f[id] = v
       /\ \A i \in DOMAIN e : i # id => f[i] = e[i]
  BY <1>1, <1>2, <1>7, <1>8
<1>10. QED
  <2>1. /\ n = [devices |-> n.devices, index |-> m.index, released |-> m.released]
        /\ n.devices = f
    BY <1>1, <1>4
  <2>2. QED
    BY <1>1, <1>7, <1>9, <2>1

-----------------------------------------------------------------------------
\* What makes the indexes of a manager n those of m.
LEMMA IndexesKeep ==
  ASSUME NEW m, NEW h, NEW n, NEW g, DmInv(m, h),
         Known(n, g) = Known(m, h), n.index = m.index, n.released = m.released,
         \A i \in Known(m, h) : IndexOf(n, g, i) = IndexOf(m, h, i)
  PROVE  Distinct(n, g) /\ InUse(n, g) /\ Released(n)
<1>1. Distinct(m, h) /\ InUse(m, h) /\ Released(m)
  BY DEF DmInv
<1>2. Distinct(n, g)
  BY <1>1 DEF Distinct
<1>3. InUse(n, g)
  BY <1>1 DEF InUse
<1>4. Released(n)
  BY <1>1 DEF Released
<1>5. QED
  BY <1>2, <1>3, <1>4

\* One more user of a device that is attached.
LEMMA AttachAgainKeeps ==
  ASSUME NEW m, NEW h, DmInv(m, h), NEW id \in DOMAIN m.devices, m.devices[id].count > 0
  PROVE  DmInv(AttachAgain(m, id), h)
<1>1. DmType(m, h) /\ Registered(m, h) /\ m.devices[id].count \in Nat
  BY DmFields DEF DmInv
<1>2. PICK k : k = m.devices[id].count + 1
  OBVIOUS
<1>3. k \in Nat /\ k > 0
  BY <1>1, <1>2
<1>4. PICK n : n = SetCount(m, id, k)
  OBVIOUS
<1>5. /\ n = [devices |-> n.devices, index |-> m.index, released |-> m.released]
      /\ n.devices \in [DOMAIN m.devices -> Device]
      /\ DOMAIN n.devices = DOMAIN m.devices
      /\ \A i \in DOMAIN m.devices : /\ n.devices[i].index = m.devices[i].index
                                     /\ i # id => n.devices[i] = m.devices[i]
      /\ n.devices[id].count = k
  BY <1>1, <1>3, <1>4, Counted
<1>6. n.index = m.index /\ n.released = m.released
  BY <1>5
<1>7. Known(n, h) = Known(m, h) /\ \A i \in Known(m, h) : IndexOf(n, h, i) = IndexOf(m, h, i)
  BY <1>5 DEF Known, IndexOf
<1>8. DmType(n, h)
  BY <1>1, <1>5, <1>6 DEF DmType
<1>9. Registered(n, h)
  BY <1>1, <1>3, <1>5 DEF Registered
<1>10. Distinct(n, h) /\ InUse(n, h) /\ Released(n)
  BY <1>6, <1>7, IndexesKeep
<1>11. QED
  BY <1>2, <1>4, <1>8, <1>9, <1>10 DEF DmInv, AttachAgain

\* The first user of a device has it attached.
LEMMA AttachKeeps ==
  ASSUME NEW m, NEW h, DmInv(m, h), NEW id \in DOMAIN m.devices, m.devices[id].count = 0
  PROVE  DmInv(SetCount(m, id, 1), With(h, id, m.devices[id].index))
<1>1. /\ DmType(m, h) /\ Registered(m, h) /\ m.devices[id].index \in Nat
      /\ \A i \in DOMAIN h : h[i] \in Nat
  BY DmFields DEF DmInv
<1>2. id \notin DOMAIN h
  BY <1>1 DEF Registered
<1>3. PICK n : n = SetCount(m, id, 1)
  OBVIOUS
<1>4. /\ n = [devices |-> n.devices, index |-> m.index, released |-> m.released]
      /\ n.devices \in [DOMAIN m.devices -> Device]
      /\ DOMAIN n.devices = DOMAIN m.devices
      /\ \A i \in DOMAIN m.devices : /\ n.devices[i].index = m.devices[i].index
                                     /\ i # id => n.devices[i] = m.devices[i]
      /\ n.devices[id].count = 1
  <2>1. 1 \in Nat
    OBVIOUS
  <2>2. QED
    BY <1>1, <1>3, <2>1, Counted
<1>5. n.index = m.index /\ n.released = m.released
  BY <1>4
<1>6. PICK g : g = With(h, id, m.devices[id].index)
  OBVIOUS
<1>7. /\ DOMAIN g = DOMAIN h \cup {id}
      /\ g[id] = m.devices[id].index
      /\ \A i \in DOMAIN h : g[i] = h[i]
      /\ g \in [DOMAIN g -> Nat]
  BY <1>1, <1>2, <1>6 DEF With
<1>8. Known(n, g) = Known(m, h) /\ \A i \in Known(m, h) : IndexOf(n, g, i) = IndexOf(m, h, i)
  BY <1>4, <1>7 DEF Known, IndexOf
<1>9. DmType(n, g)
  BY <1>1, <1>4, <1>5, <1>7 DEF DmType
<1>10. Registered(n, g)
  BY <1>1, <1>4, <1>7 DEF Registered
<1>11. Distinct(n, g) /\ InUse(n, g) /\ Released(n)
  BY <1>5, <1>8, IndexesKeep
<1>12. QED
  BY <1>3, <1>6, <1>9, <1>10, <1>11, Zenon DEF DmInv

\* A device is forgotten while it is attached: its index stays in use.
LEMMA ForgetKeeps ==
  ASSUME NEW m, NEW h, DmInv(m, h), NEW id \in DOMAIN m.devices, id \in DOMAIN h
  PROVE  DmInv(DetachShared(m, id), h)
<1>1. /\ DmType(m, h) /\ Registered(m, h)
      /\ \A i \in DOMAIN m.devices : m.devices[i] \in Device
  BY DmFields DEF DmInv
<1>2. PICK n : n = DetachShared(m, id)
  OBVIOUS
<1>3. PICK f : f = Without(m.devices, id)
  OBVIOUS
<1>4. n = [devices |-> f, index |-> m.index, released |-> m.released]
  <2>1. m = [devices |-> m.devices, index |-> m.index, released |-> m.released]
    BY <1>1 DEF DmType
  <2>2. n = [m EXCEPT !.devices = f]
    BY <1>2, <1>3 DEF DetachShared
  <2>3. QED
    BY <2>1, <2>2
<1>5. /\ DOMAIN f = DOMAIN m.devices \ {id}
      /\ \A i \in DOMAIN m.devices \ {id} : f[i] = m.devices[i]
      /\ f \in [DOMAIN f -> Device]
  BY <1>1, <1>3 DEF Without
<1>6. n.devices = f /\ n.index = m.index /\ n.released = m.released
  BY <1>4
<1>7. h[id] = m.devices[id].index
  BY <1>1 DEF Registered
<1>8. Known(n, h) = Known(m, h) /\ \A i \in Known(m, h) : IndexOf(n, h, i) = IndexOf(m, h, i)
  BY <1>5, <1>6, <1>7 DEF Known, IndexOf
<1>9. DmType(n, h)
  BY <1>1, <1>4, <1>5, <1>6 DEF DmType
<1>10. Registered(n, h)
  BY <1>1, <1>5, <1>6 DEF Registered
<1>11. Distinct(n, h) /\ InUse(n, h) /\ Released(n)
  BY <1>6, <1>8, IndexesKeep
<1>12. QED
  BY <1>2, <1>9, <1>10, <1>11, Zenon DEF DmInv

\* A device is forgotten with its attachment, if it has one: its index is released.
LEMMA ReleaseKeeps ==
  ASSUME NEW m, NEW h, DmInv(m, h), NEW id \in DOMAIN m.devices
  PROVE  DmInv(AttachFails(m, id), Without(h, id))
<1>1. /\ DmType(m, h) /\ Registered(m, h) /\ Distinct(m, h) /\ InUse(m, h) /\ Released(m)
      /\ \A i \in DOMAIN m.devices : m.devices[i] \in Device /\ m.devices[i].index \in Nat
      /\ \A i \in DOMAIN h : h[i] \in Nat
      /\ m.index \in Nat /\ m.released \in Seq(Nat)
  BY DmFields DEF DmInv
<1>2. PICK x, s : x = m.devices[id].index /\ s = m.released
  OBVIOUS
<1>3. x = IndexOf(m, h, id) /\ id \in Known(m, h) /\ x \in Nat /\ s \in Seq(Nat)
  BY <1>1, <1>2 DEF IndexOf, Known
<1>4. PICK k : k = Cardinality({j \in DOMAIN s : s[j] > x})
  OBVIOUS
<1>5. k \in 0 .. Len(s)
  BY <1>3, <1>4, PlaceInList
<1>6. PICK r : r = Insert(s, k, x)
  OBVIOUS
<1>7. x < m.index /\ \A l \in 1 .. Len(s) : s[l] # x
  BY <1>1, <1>2, <1>3 DEF InUse
<1>8. /\ \A l \in 1 .. Len(s) : s[l] < m.index
      /\ \A l, j \in 1 .. Len(s) : l # j => s[l] # s[j]
  BY <1>1, <1>2 DEF Released
<1>9. /\ r \in Seq(Nat)
      /\ \A l \in 1 .. Len(r) : r[l] = x \/ \E j \in 1 .. Len(s) : r[l] = s[j]
      /\ \A l, j \in 1 .. Len(r) : l # j => r[l] # r[j]
  <2>1. /\ Insert(s, k, x) \in Seq(Nat)
        /\ \A n \in 1 .. Len(Insert(s, k, x)) :
             Insert(s, k, x)[n] = x \/ \E l \in 1 .. Len(s) : Insert(s, k, x)[n] = s[l]
        /\ \A n, l \in 1 .. Len(Insert(s, k, x)) :
             n # l => Insert(s, k, x)[n] # Insert(s, k, x)[l]
    BY <1>3, <1>5, <1>7, <1>8, InsertedOnce
  <2>2. QED
    BY <1>6, <2>1, Zenon
<1>10. PICK f : f = Without(m.devices, id)
  OBVIOUS
<1>11. PICK n : n = AttachFails(m, id)
  OBVIOUS
<1>12. n = [devices |-> f, index |-> m.index, released |-> r]
  <2>1. PICK o : o = release_device_index(m, x)
    OBVIOUS
  <2>2. o = [m EXCEPT !.released = r]
    BY <1>2, <1>4, <1>6, <2>1 DEF release_device_index
  <2>3. m = [devices |-> m.devices, index |-> m.index, released |-> m.released]
    BY <1>1 DEF DmType
  <2>4. o = [devices |-> m.devices, index |-> m.index, released |-> r]
    BY <2>2, <2>3
  <2>5. n = [o EXCEPT !.devices = Without(@, id)]
    BY <1>2, <1>11, <2>1 DEF AttachFails
  <2>6. QED
    BY <2>4, <2>5, <1>10
<1>13. n.devices = f /\ n.index = m.index /\ n.released = r
  BY <1>12
<1>14. PICK g : g = Without(h, id)
  OBVIOUS
<1>15. /\ DOMAIN f = DOMAIN m.devices \ {id}
       /\ \A i \in DOMAIN m.devices \ {id} : f[i] = m.devices[i]
       /\ f \in [DOMAIN f -> Device]
  BY <1>1, <1>10 DEF Without
<1>16. /\ DOMAIN g = DOMAIN h \ {id}
       /\ \A i \in DOMAIN h \ {id} : g[i] = h[i]
       /\ g \in [DOMAIN g -> Nat]
  BY <1>1, <1>14 DEF Without
<1>17. /\ Known(n, g) = Known(m, h) \ {id}
       /\ \A i \in Known(m, h) \ {id} : IndexOf(n, g, i) = IndexOf(m, h, i)
  BY <1>13, <1>15, <1>16 DEF Known, IndexOf
<1>18. DmType(n, g)
  BY <1>1, <1>9, <1>12, <1>13, <1>15, <1>16 DEF DmType
<1>19. Registered(n, g)
  BY <1>1, <1>13, <1>15, <1>16 DEF Registered
<1>20. Distinct(n, g)
  BY <1>1, <1>17 DEF Distinct
<1>21. ASSUME NEW i \in Known(m, h) \ {id}
       PROVE  /\ IndexOf(m, h, i) < m.index
              /\ \A l \in 1 .. Len(r) : r[l] # IndexOf(m, h, i)
  <2>1. /\ IndexOf(m, h, i) < m.index
        /\ \A l \in 1 .. Len(s) : s[l] # IndexOf(m, h, i)
    BY <1>1, <1>2 DEF InUse
  <2>2. IndexOf(m, h, i) # x
    BY <1>1, <1>3 DEF Distinct
  <2>3. QED
    BY <2>1, <2>2, <1>9
<1>22. InUse(n, g)
  BY <1>13, <1>17, <1>21 DEF InUse
<1>23. Released(n)
  <2>1. \A l \in 1 .. Len(r) : r[l] < m.index
    BY <1>7, <1>8, <1>9
  <2>2. QED
    BY <1>9, <1>13, <2>1 DEF Released
<1>24. QED
  BY <1>11, <1>14, <1>18, <1>19, <1>20, <1>22, <1>23, ZenonT(40) DEF DmInv

-----------------------------------------------------------------------------
\* AttachedWhileHeld, in terms of the holders.
LEMMA Attached ==
  /\ AttachedWhileHeld <=>
       /\ \A id \in DOMAIN dm.devices : dm.devices[id].count = Cardinality(Holders(id))
       /\ \A c \in Containers : task[c].held => task[c].id \in DOMAIN hyp
       /\ \A id \in DOMAIN hyp \ hist.dropped : Holders(id) # {}
  /\ AttachedWhileHeld' <=>
       /\ \A id \in DOMAIN dm'.devices : dm'.devices[id].count = Cardinality(Holders(id)')
       /\ \A c \in Containers : task'[c].held => task'[c].id \in DOMAIN hyp'
       /\ \A id \in DOMAIN hyp' \ hist'.dropped : Holders(id)' # {}
BY DEF AttachedWhileHeld, Holders

\* The holders of a device are finitely many.
LEMMA HoldersFinite ==
  /\ \A id : IsFiniteSet(Holders(id)) /\ Cardinality(Holders(id)) \in Nat
  /\ \A id : IsFiniteSet(Holders(id)') /\ Cardinality(Holders(id)') \in Nat
<1>1. \A id : Holders(id) \subseteq Containers /\ Holders(id)' \subseteq Containers
  BY DEF Holders
<1>2. \A S : S \subseteq Containers => IsFiniteSet(S)
  BY ContainersAssumption, FS_Subset
<1>3. \A S : S \subseteq Containers => Cardinality(S) \in Nat
  BY <1>2, FS_CardinalityType
<1>4. QED
  BY <1>1, <1>2, <1>3

\* A step after which the same containers hold the same devices. The manager may have
\* forgotten devices, or know new ones without users.
LEMMA SameHolders ==
  ASSUME AttachedWhileHeld,
         \A d \in Containers : /\ task'[d].held = task[d].held
                               /\ task[d].held => task'[d].id = task[d].id,
         hyp' = hyp, hist'.dropped = hist.dropped,
         \A id \in DOMAIN dm'.devices :
           \/ id \in DOMAIN dm.devices /\ dm'.devices[id].count = dm.devices[id].count
           \/ id \notin DOMAIN hyp /\ dm'.devices[id].count = 0
  PROVE  AttachedWhileHeld'
<1>1. /\ \A id \in DOMAIN dm.devices : dm.devices[id].count = Cardinality(Holders(id))
      /\ \A c \in Containers : task[c].held => task[c].id \in DOMAIN hyp
      /\ \A id \in DOMAIN hyp \ hist.dropped : Holders(id) # {}
  BY Attached
<1>2. \A id : Holders(id)' = Holders(id)
  BY DEF Holders
<1>3. ASSUME NEW id \in DOMAIN dm'.devices
      PROVE  dm'.devices[id].count = Cardinality(Holders(id)')
  <2>1. CASE id \in DOMAIN dm.devices /\ dm'.devices[id].count = dm.devices[id].count
    BY <1>1, <1>2, <2>1
  <2>2. CASE id \notin DOMAIN hyp /\ dm'.devices[id].count = 0
    <3>1. Holders(id) = {}
      BY <1>1, <2>2 DEF Holders
    <3>2. Cardinality(Holders(id)) = 0
      BY <3>1, FS_EmptySet
    <3>3. QED
      BY <1>2, <2>2, <3>2
  <2>3. QED
    BY <2>1, <2>2
<1>4. \A c \in Containers : task'[c].held => task'[c].id \in DOMAIN hyp'
  BY <1>1
<1>5. \A id \in DOMAIN hyp' \ hist'.dropped : Holders(id)' # {}
  BY <1>1, <1>2
<1>6. QED
  BY <1>3, <1>4, <1>5, Attached

\* One container takes the next step of its request.
LEMMA Moved ==
  ASSUME TaskInv, NEW c \in Containers, NEW v, task' = [task EXCEPT ![c] = v], Holding(v)
  PROVE  TaskInv' /\ task'[c] = v /\ \A d \in Containers \ {c} : task'[d] = task[d]
<1>1. DOMAIN task = Containers /\ \A d \in Containers : Holding(task[d])
  BY DEF TaskInv
<1>2. task'[c] = v /\ (\A d \in Containers \ {c} : task'[d] = task[d])
  BY <1>1
<1>3. task' = [d \in Containers |-> task'[d]]
  BY <1>1, Zenon
<1>4. \A d \in Containers : Holding(task'[d])
  BY <1>1, <1>2
<1>5. QED
  BY <1>2, <1>3, <1>4 DEF TaskInv, Holding

\* The fields of a request that steps change.
LEMMA Fields ==
  ASSUME TaskInv, NEW c \in Containers
  PROVE  /\ \A p : Pc(c, p) =
              [task EXCEPT ![c] = Step(task[c], p, task[c].op, task[c].held, task[c].req, task[c].old)]
         /\ \A p, o : PcOp(c, p, o) =
              [task EXCEPT ![c] = Step(task[c], p, o, task[c].held, task[c].req, task[c].old)]
         /\ \A p, h : PcHeld(c, p, h) =
              [task EXCEPT ![c] = Step(task[c], p, task[c].op, h, task[c].req, task[c].old)]
         /\ \A p, o, h : PcOpHeld(c, p, o, h) =
              [task EXCEPT ![c] = Step(task[c], p, o, h, task[c].req, task[c].old)]
         /\ \A p, r : PcReq(c, p, r) =
              [task EXCEPT ![c] = Step(task[c], p, task[c].op, task[c].held, r, task[c].old)]
         /\ \A p, u : PcOld(c, p, u) =
              [task EXCEPT ![c] = Step(task[c], p, task[c].op, task[c].held, task[c].req, u)]
         /\ \A p, r, u : PcReqOld(c, p, r, u) =
              [task EXCEPT ![c] = Step(task[c], p, task[c].op, task[c].held, r, u)]
<1>1. task = [d \in Containers |-> task[d]]
  BY DEF TaskInv
<1>2. PICK t : t = task[c]
  OBVIOUS
<1>3. t = [pc |-> t.pc, op |-> t.op, id |-> t.id, held |-> t.held, req |-> t.req, old |-> t.old]
  BY <1>2 DEF TaskInv, Holding
<1>4. PICK a, b, i, e, f, g : /\ a = t.pc /\ b = t.op /\ i = t.id /\ e = t.held
                              /\ f = t.req /\ g = t.old
  OBVIOUS
<1>5. t = [pc |-> a, op |-> b, id |-> i, held |-> e, req |-> f, old |-> g]
  BY <1>3, <1>4
<1>6. ASSUME NEW p
      PROVE  Pc(c, p) =
            [task EXCEPT ![c] = Step(task[c], p, task[c].op, task[c].held, task[c].req, task[c].old)]
  <2>1. [t EXCEPT !.pc = p] = Step(t, p, t.op, t.held, t.req, t.old)
    <3>1. [t EXCEPT !.pc = p] =
            [pc |-> p, op |-> b, id |-> i, held |-> e, req |-> f, old |-> g]
      BY <1>5
    <3>2. QED
      BY <1>4, <3>1 DEF Step
  <2>2. [task EXCEPT ![c].pc = p] = [task EXCEPT ![c] = [t EXCEPT !.pc = p]]
    BY <1>1, <1>2
  <2>3. QED
    BY <1>2, <2>1, <2>2, Zenon DEF Pc
<1>7. ASSUME NEW p, NEW o
      PROVE  PcOp(c, p, o) =
            [task EXCEPT ![c] = Step(task[c], p, o, task[c].held, task[c].req, task[c].old)]
  <2>1. [t EXCEPT !.pc = p, !.op = o] = Step(t, p, o, t.held, t.req, t.old)
    <3>1. [t EXCEPT !.pc = p, !.op = o] =
            [pc |-> p, op |-> o, id |-> i, held |-> e, req |-> f, old |-> g]
      <4>1. PICK s : s = [t EXCEPT !.pc = p]
        BY Zenon
      <4>2. s = [pc |-> p, op |-> b, id |-> i, held |-> e, req |-> f, old |-> g]
        BY <1>5, <4>1
      <4>3. [s EXCEPT !.op = o] = [pc |-> p, op |-> o, id |-> i, held |-> e, req |-> f, old |-> g]
        BY <4>2
      <4>4. [t EXCEPT !.pc = p, !.op = o] =
              [[t EXCEPT !.pc = p] EXCEPT !.op = o]
        BY Zenon
      <4>5. QED
        BY <4>1, <4>3, <4>4, Zenon
    <3>2. QED
      BY <1>4, <3>1 DEF Step
  <2>2. [task EXCEPT ![c].pc = p, ![c].op = o] = [task EXCEPT ![c] = [t EXCEPT !.pc = p, !.op = o]]
    BY <1>1, <1>2, Zenon
  <2>3. QED
    BY <1>2, <2>1, <2>2, Zenon DEF PcOp
<1>8. ASSUME NEW p, NEW h
      PROVE  PcHeld(c, p, h) =
            [task EXCEPT ![c] = Step(task[c], p, task[c].op, h, task[c].req, task[c].old)]
  <2>1. [t EXCEPT !.pc = p, !.held = h] = Step(t, p, t.op, h, t.req, t.old)
    <3>1. [t EXCEPT !.pc = p, !.held = h] =
            [pc |-> p, op |-> b, id |-> i, held |-> h, req |-> f, old |-> g]
      <4>1. PICK s : s = [t EXCEPT !.pc = p]
        BY Zenon
      <4>2. s = [pc |-> p, op |-> b, id |-> i, held |-> e, req |-> f, old |-> g]
        BY <1>5, <4>1
      <4>3. [s EXCEPT !.held = h] = [pc |-> p, op |-> b, id |-> i, held |-> h, req |-> f, old |-> g]
        BY <4>2
      <4>4. [t EXCEPT !.pc = p, !.held = h] =
              [[t EXCEPT !.pc = p] EXCEPT !.held = h]
        BY Zenon
      <4>5. QED
        BY <4>1, <4>3, <4>4, Zenon
    <3>2. QED
      BY <1>4, <3>1 DEF Step
  <2>2. [task EXCEPT ![c].pc = p, ![c].held = h] =
        [task EXCEPT ![c] = [t EXCEPT !.pc = p, !.held = h]]
    BY <1>1, <1>2, Zenon
  <2>3. QED
    BY <1>2, <2>1, <2>2, Zenon DEF PcHeld
<1>9. ASSUME NEW p, NEW o, NEW h
      PROVE  PcOpHeld(c, p, o, h) =
            [task EXCEPT ![c] = Step(task[c], p, o, h, task[c].req, task[c].old)]
  <2>1. [t EXCEPT !.pc = p, !.op = o, !.held = h] = Step(t, p, o, h, t.req, t.old)
    <3>1. [t EXCEPT !.pc = p, !.op = o, !.held = h] =
            [pc |-> p, op |-> o, id |-> i, held |-> h, req |-> f, old |-> g]
      <4>1. PICK s : s = [t EXCEPT !.pc = p]
        BY Zenon
      <4>2. s = [pc |-> p, op |-> b, id |-> i, held |-> e, req |-> f, old |-> g]
        BY <1>5, <4>1
      <4>3. PICK w : w = [s EXCEPT !.op = o]
        BY Zenon
      <4>4. w = [pc |-> p, op |-> o, id |-> i, held |-> e, req |-> f, old |-> g]
        BY <4>2, <4>3
      <4>5. [w EXCEPT !.held = h] = [pc |-> p, op |-> o, id |-> i, held |-> h, req |-> f, old |-> g]
        BY <4>4
      <4>6. [t EXCEPT !.pc = p, !.op = o, !.held = h] =
              [[[t EXCEPT !.pc = p] EXCEPT !.op = o] EXCEPT !.held = h]
        BY Zenon
      <4>7. QED
        BY <4>1, <4>3, <4>5, <4>6, Zenon
    <3>2. QED
      BY <1>4, <3>1 DEF Step
  <2>2. [task EXCEPT ![c].pc = p, ![c].op = o, ![c].held = h] =
        [task EXCEPT ![c] = [t EXCEPT !.pc = p, !.op = o, !.held = h]]
    BY <1>1, <1>2, Zenon
  <2>3. QED
    BY <1>2, <2>1, <2>2, Zenon DEF PcOpHeld
<1>10. ASSUME NEW p, NEW r
      PROVE  PcReq(c, p, r) =
            [task EXCEPT ![c] = Step(task[c], p, task[c].op, task[c].held, r, task[c].old)]
  <2>1. [t EXCEPT !.pc = p, !.req = r] = Step(t, p, t.op, t.held, r, t.old)
    <3>1. [t EXCEPT !.pc = p, !.req = r] =
            [pc |-> p, op |-> b, id |-> i, held |-> e, req |-> r, old |-> g]
      <4>1. PICK s : s = [t EXCEPT !.pc = p]
        BY Zenon
      <4>2. s = [pc |-> p, op |-> b, id |-> i, held |-> e, req |-> f, old |-> g]
        BY <1>5, <4>1
      <4>3. [s EXCEPT !.req = r] = [pc |-> p, op |-> b, id |-> i, held |-> e, req |-> r, old |-> g]
        BY <4>2
      <4>4. [t EXCEPT !.pc = p, !.req = r] =
              [[t EXCEPT !.pc = p] EXCEPT !.req = r]
        BY Zenon
      <4>5. QED
        BY <4>1, <4>3, <4>4, Zenon
    <3>2. QED
      BY <1>4, <3>1 DEF Step
  <2>2. [task EXCEPT ![c].pc = p, ![c].req = r] =
        [task EXCEPT ![c] = [t EXCEPT !.pc = p, !.req = r]]
    BY <1>1, <1>2, Zenon
  <2>3. QED
    BY <1>2, <2>1, <2>2, Zenon DEF PcReq
<1>11. ASSUME NEW p, NEW u
      PROVE  PcOld(c, p, u) =
            [task EXCEPT ![c] = Step(task[c], p, task[c].op, task[c].held, task[c].req, u)]
  <2>1. [t EXCEPT !.pc = p, !.old = u] = Step(t, p, t.op, t.held, t.req, u)
    <3>1. [t EXCEPT !.pc = p, !.old = u] =
            [pc |-> p, op |-> b, id |-> i, held |-> e, req |-> f, old |-> u]
      <4>1. PICK s : s = [t EXCEPT !.pc = p]
        BY Zenon
      <4>2. s = [pc |-> p, op |-> b, id |-> i, held |-> e, req |-> f, old |-> g]
        BY <1>5, <4>1
      <4>3. [s EXCEPT !.old = u] = [pc |-> p, op |-> b, id |-> i, held |-> e, req |-> f, old |-> u]
        BY <4>2
      <4>4. [t EXCEPT !.pc = p, !.old = u] =
              [[t EXCEPT !.pc = p] EXCEPT !.old = u]
        BY Zenon
      <4>5. QED
        BY <4>1, <4>3, <4>4, Zenon
    <3>2. QED
      BY <1>4, <3>1 DEF Step
  <2>2. [task EXCEPT ![c].pc = p, ![c].old = u] =
        [task EXCEPT ![c] = [t EXCEPT !.pc = p, !.old = u]]
    BY <1>1, <1>2, Zenon
  <2>3. QED
    BY <1>2, <2>1, <2>2, ZenonT(40) DEF PcOld
<1>12. ASSUME NEW p, NEW r, NEW u
      PROVE  PcReqOld(c, p, r, u) =
            [task EXCEPT ![c] = Step(task[c], p, task[c].op, task[c].held, r, u)]
  <2>1. [t EXCEPT !.pc = p, !.req = r, !.old = u] = Step(t, p, t.op, t.held, r, u)
    <3>1. [t EXCEPT !.pc = p, !.req = r, !.old = u] =
            [pc |-> p, op |-> b, id |-> i, held |-> e, req |-> r, old |-> u]
      <4>1. PICK s : s = [t EXCEPT !.pc = p]
        BY Zenon
      <4>2. s = [pc |-> p, op |-> b, id |-> i, held |-> e, req |-> f, old |-> g]
        BY <1>5, <4>1
      <4>3. PICK w : w = [s EXCEPT !.req = r]
        BY Zenon
      <4>4. w = [pc |-> p, op |-> b, id |-> i, held |-> e, req |-> r, old |-> g]
        BY <4>2, <4>3
      <4>5. [w EXCEPT !.old = u] = [pc |-> p, op |-> b, id |-> i, held |-> e, req |-> r, old |-> u]
        BY <4>4
      <4>6. [t EXCEPT !.pc = p, !.req = r, !.old = u] =
              [[[t EXCEPT !.pc = p] EXCEPT !.req = r] EXCEPT !.old = u]
        BY Zenon
      <4>7. QED
        BY <4>1, <4>3, <4>5, <4>6, Zenon
    <3>2. QED
      BY <1>4, <3>1 DEF Step
  <2>2. [task EXCEPT ![c].pc = p, ![c].req = r, ![c].old = u] =
        [task EXCEPT ![c] = [t EXCEPT !.pc = p, !.req = r, !.old = u]]
    BY <1>1, <1>2, Zenon
  <2>3. QED
    BY <1>2, <2>1, <2>2, Zenon DEF PcReqOld
<1>13. QED
  BY <1>6, <1>7, <1>8, <1>9, <1>10, <1>11, <1>12

-----------------------------------------------------------------------------
\* A request with other fields.
LEMMA Stepped ==
  ASSUME NEW t, NEW p, NEW o, NEW h, NEW r, NEW u, MayHold(p, o, h)
  PROVE  /\ Holding(Step(t, p, o, h, r, u))
         /\ Step(t, p, o, h, r, u).held = h /\ Step(t, p, o, h, r, u).id = t.id
<1>1. PICK v : v = Step(t, p, o, h, r, u)
  OBVIOUS
<1>2. /\ v.pc = p /\ v.op = o /\ v.id = t.id /\ v.held = h /\ v.req = r /\ v.old = u
      /\ v = [pc |-> v.pc, op |-> v.op, id |-> v.id, held |-> v.held, req |-> v.req, old |-> v.old]
  BY <1>1 DEF Step
<1>3. Holding(v)
  BY <1>2 DEF Holding
<1>4. QED
  BY <1>1, <1>2, <1>3

\* The history of a step that drops no device.
LEMMA HistKeeps ==
  ASSUME HistType, DropsNone
  PROVE  HistType' /\ hist'.dropped = hist.dropped
BY DEF HistType, DropsNone

\* A container moves on and holds what it held, and nothing else changes.
LEMMA MovesOn ==
  ASSUME RmInv, NEW c \in Containers, NEW p, NEW o, NEW r, NEW u,
         task' = [task EXCEPT ![c] = Step(task[c], p, o, task[c].held, r, u)],
         MayHold(p, o, task[c].held), dm' = dm, hyp' = hyp, DropsNone
  PROVE  RmInv'
<1>1. TaskInv /\ HistType /\ AttachedWhileHeld /\ DmInv(dm, hyp)
  BY DEF RmInv
<1>3. PICK v : v = Step(task[c], p, o, task[c].held, r, u)
  OBVIOUS
<1>4. Holding(v) /\ v.held = task[c].held /\ v.id = task[c].id
  BY <1>3, Stepped
<1>5. TaskInv' /\ task'[c] = v /\ \A d \in Containers \ {c} : task'[d] = task[d]
  BY <1>1, <1>3, <1>4, Moved, Zenon
<1>6. HistType' /\ hist'.dropped = hist.dropped
  BY <1>1, HistKeeps
<1>7. \A d \in Containers : /\ task'[d].held = task[d].held
                            /\ task[d].held => task'[d].id = task[d].id
  BY <1>4, <1>5
<1>8. AttachedWhileHeld'
  BY <1>1, <1>6, <1>7, SameHolders
<1>9. DmInv(dm, hyp)'
  BY <1>1
<1>10. QED
  BY <1>5, <1>6, <1>8, <1>9 DEF RmInv

\* What a container at a place of its request holds.
LEMMA AtPlace ==
  ASSUME RmInv, NEW c \in Containers
  PROVE  /\ task[c].held \in BOOLEAN
         /\ At(c, "idle") \/ At(c, "new") => ~task[c].held
         /\ At(c, "run") => task[c].held /\ task[c].op # "Del"
         /\ task[c].pc \in Working /\ task[c].op # "Del" => task[c].held
BY DEF RmInv, TaskInv, Holding, MayHold, At

\* The steps of an update of the vCPUs.
LEMMA RmInvUpdate ==
  ASSUME RmInv, NEW c \in Containers,
         update(c) \/ SetResources(c) \/ CalcResources(c) \/ CheckCurrent(c)
  PROVE  RmInv'
<1>1. TaskInv
  BY DEF RmInv
<1>2. /\ task[c].held \in BOOLEAN
      /\ At(c, "run") => task[c].held /\ task[c].op # "Del"
      /\ task[c].pc \in Working /\ task[c].op # "Del" => task[c].held
  BY AtPlace
<1>3. CASE update(c)
  <2>2. task' = [task EXCEPT ![c].pc = "set", ![c].op = "Update"]
    BY <1>3 DEF update, Go
  <2>3. task' = [task EXCEPT ![c] = Step(task[c], "set", "Update", task[c].held, task[c].req, task[c].old)]
    <3>1. PcOp(c, "set", "Update") =
          [task EXCEPT ![c] = Step(task[c], "set", "Update", task[c].held, task[c].req, task[c].old)]
      BY <1>1, Fields
    <3>2. QED
      BY <2>2, <3>1 DEF Pc, PcOp, PcReq
  <2>4. MayHold("set", "Update", task[c].held)
    BY <1>2, <1>3 DEF update, At, Working, MayHold
  <2>5. dm' = dm /\ hyp' = hyp /\ DropsNone
    BY <1>3 DEF update, DropsNone
  <2>6. QED
    BY <2>3, <2>4, <2>5, MovesOn, Zenon
<1>4. CASE SetResources(c)
  <2>2. task' = [task EXCEPT ![c].pc = "calc"]
    BY <1>4 DEF SetResources, Go
  <2>3. task' = [task EXCEPT ![c] = Step(task[c], "calc", task[c].op, task[c].held, task[c].req, task[c].old)]
    <3>1. Pc(c, "calc") =
          [task EXCEPT ![c] = Step(task[c], "calc", task[c].op, task[c].held, task[c].req, task[c].old)]
      BY <1>1, Fields
    <3>2. QED
      BY <2>2, <3>1 DEF Pc, PcOp, PcReq
  <2>4. MayHold("calc", task[c].op, task[c].held)
    BY <1>2, <1>4 DEF SetResources, At, Working, MayHold
  <2>5. dm' = dm /\ hyp' = hyp /\ DropsNone
    BY <1>4, Zenon DEF SetResources, DropsNone
  <2>6. QED
    BY <2>3, <2>4, <2>5, MovesOn, Zenon
<1>5. CASE CalcResources(c)
  <2>2. task' = [task EXCEPT ![c].pc = "check", ![c].req = calc_cpu_resources(res)]
    BY <1>5 DEF CalcResources, Go
  <2>3. task' = [task EXCEPT ![c] = Step(task[c], "check", task[c].op, task[c].held, calc_cpu_resources(res), task[c].old)]
    <3>1. PcReq(c, "check", calc_cpu_resources(res)) =
          [task EXCEPT ![c] = Step(task[c], "check", task[c].op, task[c].held, calc_cpu_resources(res), task[c].old)]
      BY <1>1, Fields
    <3>2. QED
      BY <2>2, <3>1 DEF Pc, PcOp, PcReq
  <2>4. MayHold("check", task[c].op, task[c].held)
    BY <1>2, <1>5 DEF CalcResources, At, Working, MayHold
  <2>5. dm' = dm /\ hyp' = hyp /\ DropsNone
    BY <1>5 DEF CalcResources, DropsNone
  <2>6. QED
    BY <2>3, <2>4, <2>5, MovesOn, ZenonT(40)
<1>6. CASE CheckCurrent(c)
  <2>1. PICK p : p = IF task[c].req = current THEN Finished(c) ELSE "old"
    OBVIOUS
  <2>2. task' = [task EXCEPT ![c].pc = p]
    BY <1>6, <2>1 DEF CheckCurrent, Go
  <2>3. task' = [task EXCEPT ![c] = Step(task[c], p, task[c].op, task[c].held, task[c].req, task[c].old)]
    <3>1. Pc(c, p) = [task EXCEPT ![c] = Step(task[c], p, task[c].op, task[c].held, task[c].req, task[c].old)]
      BY <1>1, Fields
    <3>2. QED
      BY <2>2, <3>1 DEF Pc, PcOp, PcReq
  <2>4. MayHold(p, task[c].op, task[c].held)
    BY <1>2, <1>6, <2>1 DEF CheckCurrent, At, Working, MayHold, Finished
  <2>5. dm' = dm /\ hyp' = hyp /\ DropsNone
    BY <1>6 DEF CheckCurrent, DropsNone
  <2>6. QED
    BY <2>3, <2>4, <2>5, MovesOn, Zenon
<1>7. QED
  BY <1>3, <1>4, <1>5, <1>6

\* current_vcpu is read again.
LEMMA RmInvRead ==
  ASSUME RmInv, NEW c \in Containers, ReadCurrent(c)
  PROVE  RmInv'
<1>1. TaskInv
  BY DEF RmInv
<1>2. /\ task[c].held \in BOOLEAN
      /\ At(c, "run") => task[c].held /\ task[c].op # "Del"
      /\ task[c].pc \in Working /\ task[c].op # "Del" => task[c].held
  BY AtPlace
<1>3. PICK p, r : /\ p \in {"online", "resize"}
                  /\ task' =
                        [task EXCEPT ![c] = Step(task[c], p, task[c].op, task[c].held, r, current)]
  <2>1. PcReqOld(c, "online", current, current) =
          [task EXCEPT ![c] = Step(task[c], "online", task[c].op, task[c].held, current, current)]
    BY <1>1, Fields
  <2>2. PcOld(c, "resize", current) =
          [task EXCEPT ![c] = Step(task[c], "resize", task[c].op, task[c].held, task[c].req, current)]
    BY <1>1, Fields
  <2>3. \/ task' = [task EXCEPT ![c].pc = "online", ![c].req = current, ![c].old = current]
        \/ task' = [task EXCEPT ![c].pc = "resize", ![c].old = current]
    BY DEF ReadCurrent
  <2>4. QED
    BY <2>1, <2>2, <2>3 DEF PcReqOld, PcOld
<1>4. MayHold(p, task[c].op, task[c].held)
  BY <1>2, <1>3 DEF ReadCurrent, At, Working, MayHold
<1>5. dm' = dm /\ hyp' = hyp /\ DropsNone
  BY DEF ReadCurrent, DropsNone
<1>6. QED
  BY <1>3, <1>4, <1>5, MovesOn, ZenonT(40)

\* A request that fails ends, with what it holds.
LEMMA RmInvFails ==
  ASSUME RmInv, NEW c \in Containers, Fails(c), dm' = dm, hyp' = hyp,
         task[c].op # "Del" => task[c].held
  PROVE  RmInv'
<1>1. TaskInv /\ task[c].held \in BOOLEAN
  BY AtPlace DEF RmInv
<1>2. PICK p : p = IF task[c].op = "Add" THEN "failed" ELSE Finished(c)
  OBVIOUS
<1>3. MayHold(p, task[c].op, task[c].held)
  BY <1>1, <1>2 DEF Finished, MayHold, Working
<1>4. task' = [task EXCEPT ![c] = Step(task[c], p, task[c].op, task[c].held, task[c].req, task[c].old)]
  <2>1. Pc(c, p) = [task EXCEPT ![c] = Step(task[c], p, task[c].op, task[c].held, task[c].req, task[c].old)]
    BY <1>1, Fields
  <2>2. QED
    BY <1>2, <2>1 DEF Fails, Go, Pc
<1>5. DropsNone
  BY Zenon DEF Fails, DropsNone
<1>6. QED
  BY <1>3, <1>4, <1>5, MovesOn, Zenon

\* The hypervisor and the agent change the vCPUs.
LEMMA RmInvResize ==
  ASSUME RmInv, NEW c \in Containers, resize_vcpu(c) \/ online_cpu_mem(c)
  PROVE  RmInv'
<1>1. TaskInv /\ task[c].held \in BOOLEAN
  BY AtPlace DEF RmInv
<1>2. task[c].op # "Del" => task[c].held
  BY AtPlace DEF resize_vcpu, online_cpu_mem, At, Working
<1>3. dm' = dm /\ hyp' = hyp
  BY DEF resize_vcpu, online_cpu_mem
<1>4. CASE Fails(c)
  BY <1>2, <1>3, <1>4, RmInvFails
<1>5. CASE resize_vcpu(c) /\ ~Fails(c)
  <2>1. PICK r : task' = [task EXCEPT ![c].pc = "online", ![c].req = r]
    BY <1>5 DEF resize_vcpu
  <2>2. PcReq(c, "online", r) =
          [task EXCEPT ![c] = Step(task[c], "online", task[c].op, task[c].held, r, task[c].old)]
    BY <1>1, Fields
  <2>3. task' = [task EXCEPT ![c] = Step(task[c], "online", task[c].op, task[c].held, r, task[c].old)]
    BY <2>1, <2>2 DEF PcReq
  <2>4. MayHold("online", task[c].op, task[c].held)
    BY <1>1, <1>2 DEF MayHold, Working
  <2>5. DropsNone
    BY <1>5 DEF resize_vcpu, DropsNone
  <2>6. QED
    BY <1>3, <2>3, <2>4, <2>5, MovesOn, ZenonT(40)
<1>6. CASE online_cpu_mem(c) /\ ~Fails(c)
  <2>1. PICK p : p = Finished(c)
    OBVIOUS
  <2>2. MayHold(p, task[c].op, task[c].held)
    BY <1>1, <1>2, <2>1 DEF Finished, MayHold, Working
  <2>3. Pc(c, p) = [task EXCEPT ![c] = Step(task[c], p, task[c].op, task[c].held, task[c].req, task[c].old)]
    BY <1>1, Fields
  <2>4. task' = [task EXCEPT ![c] = Step(task[c], p, task[c].op, task[c].held, task[c].req, task[c].old)]
    BY <1>6, <2>1, <2>3 DEF online_cpu_mem, Go, Pc
  <2>5. DropsNone
    BY <1>6 DEF online_cpu_mem, DropsNone
  <2>6. QED
    BY <1>3, <2>2, <2>4, <2>5, MovesOn, Zenon
<1>7. QED
  BY <1>4, <1>5, <1>6

-----------------------------------------------------------------------------
\* The request of a container that begins.
LEMMA IdleWith ==
  /\ \A p, i : [Idle EXCEPT !.pc = p, !.id = i] =
                [pc |-> p, op |-> "Add", id |-> i, held |-> FALSE, req |-> 0, old |-> 0]
  /\ \A p : [Idle EXCEPT !.pc = p] =
             [pc |-> p, op |-> "Add", id |-> 0, held |-> FALSE, req |-> 0, old |-> 0]
<1>1. PICK s, a, h, z : s = "idle" /\ a = "Add" /\ h = FALSE /\ z = 0
  BY Zenon
<1>2. Idle = [pc |-> s, op |-> a, id |-> z, held |-> h, req |-> z, old |-> z]
  BY <1>1, Zenon DEF Idle
<1>3. ASSUME NEW t, NEW p, NEW i,
             t = [pc |-> s, op |-> a, id |-> z, held |-> h, req |-> z, old |-> z]
      PROVE  /\ [t EXCEPT !.pc = p] = [pc |-> p, op |-> a, id |-> z, held |-> h, req |-> z, old |-> z]
             /\ [t EXCEPT !.pc = p, !.id = i] =
                  [pc |-> p, op |-> a, id |-> i, held |-> h, req |-> z, old |-> z]
  <2>1. PICK w : w = [t EXCEPT !.pc = p]
    BY Zenon
  <2>2. w = [pc |-> p, op |-> a, id |-> z, held |-> h, req |-> z, old |-> z]
    BY <1>3, <2>1
  <2>3. [w EXCEPT !.id = i] = [pc |-> p, op |-> a, id |-> i, held |-> h, req |-> z, old |-> z]
    BY <2>2
  <2>4. [t EXCEPT !.pc = p, !.id = i] = [[t EXCEPT !.pc = p] EXCEPT !.id = i]
    BY Zenon
  <2>5. QED
    BY <2>1, <2>2, <2>3, <2>4, Zenon
<1>4. ASSUME NEW p, NEW i
      PROVE  /\ [Idle EXCEPT !.pc = p] = [pc |-> p, op |-> a, id |-> z, held |-> h, req |-> z, old |-> z]
             /\ [Idle EXCEPT !.pc = p, !.id = i] =
                  [pc |-> p, op |-> a, id |-> i, held |-> h, req |-> z, old |-> z]
  BY <1>2, <1>3, ZenonT(40)
<1>5. QED
  BY <1>1, <1>4, Zenon

\* A container without a device begins anew.
LEMMA Begins ==
  ASSUME TaskInv, NEW c \in Containers, ~task[c].held, NEW p \in {"new", "failed"}, NEW i,
         task' = [task EXCEPT ![c] = [Idle EXCEPT !.pc = p, !.id = i]]
  PROVE  /\ TaskInv'
         /\ \A d \in Containers : /\ task'[d].held = task[d].held
                                  /\ task[d].held => task'[d].id = task[d].id
<1>1. PICK v : v = [Idle EXCEPT !.pc = p, !.id = i]
  OBVIOUS
<1>2. v = [pc |-> p, op |-> "Add", id |-> i, held |-> FALSE, req |-> 0, old |-> 0]
  BY <1>1, IdleWith, Zenon
<1>3. Holding(v) /\ v.held = FALSE
  BY <1>2 DEF Holding, MayHold, Working
<1>4. TaskInv' /\ task'[c] = v /\ \A d \in Containers \ {c} : task'[d] = task[d]
  BY <1>1, <1>3, Moved, Zenon
<1>5. task[c].held = FALSE
  BY DEF TaskInv, Holding, MayHold
<1>6. QED
  BY <1>3, <1>4, <1>5, Zenon

\* A device is found or created for a container.
LEMMA RmInvNew ==
  ASSUME RmInv, NEW c \in Containers, NEW path \in Paths, new_device(c, path)
  PROVE  RmInv'
<1>1. TaskInv /\ HistType /\ AttachedWhileHeld /\ DmInv(dm, hyp)
  BY DEF RmInv
<1>2. ~task[c].held
  BY AtPlace, Zenon DEF new_device
<1>3. hyp' = hyp /\ HistType' /\ hist'.dropped = hist.dropped
  <2>1. hyp' = hyp /\ DropsNone
    BY ZenonT(40) DEF new_device, DropsNone
  <2>2. QED
    BY <1>1, <2>1, HistKeeps
<1>4. PICK p \in {"new", "failed"}, i \in UNION {Ids, {0}, DOMAIN dm.devices} :
        task' = [task EXCEPT ![c] = [Idle EXCEPT !.pc = p, !.id = i]]
  <2>1. CASE \E i \in find_device(dm, path) :
               task' = [task EXCEPT ![c] = [Idle EXCEPT !.pc = "new", !.id = i]]
    BY <2>1, ZenonT(40) DEF find_device
  <2>2. CASE \E i \in new_device_id :
               task' = [task EXCEPT ![c] = [Idle EXCEPT !.pc = "new", !.id = i]]
    BY <2>2, ZenonT(40) DEF new_device_id
  <2>3. CASE task' = [task EXCEPT ![c] = [Idle EXCEPT !.pc = "failed"]]
    <3>1. [Idle EXCEPT !.pc = "failed"] = [Idle EXCEPT !.pc = "failed", !.id = 0]
      BY IdleWith, ZenonT(40)
    <3>2. QED
      BY <2>3, <3>1, Zenon
  <2>4. QED
    BY <2>1, <2>2, <2>3, ZenonT(40) DEF new_device
<1>5. /\ TaskInv'
      /\ \A d \in Containers : /\ task'[d].held = task[d].held
                               /\ task[d].held => task'[d].id = task[d].id
  BY <1>1, <1>2, <1>4, Begins, ZenonT(40)
<1>6. DmInv(dm', hyp) /\ \A id \in DOMAIN dm'.devices :
        \/ id \in DOMAIN dm.devices /\ dm'.devices[id].count = dm.devices[id].count
        \/ id \notin DOMAIN hyp /\ dm'.devices[id].count = 0
  <2>1. CASE dm' = dm
    BY <1>1, <2>1
  <2>2. CASE dm' = declare_device_index(dm).m
    <3>1. DmInv(dm', hyp)
      BY <1>1, <2>2, DeclareKeeps
    <3>2. dm' = [devices |-> dm.devices, index |-> dm.index + 1, released |-> dm'.released]
      BY <1>1, <2>2, Declared, Zenon
    <3>3. dm'.devices = dm.devices
      BY <3>2
    <3>4. QED
      BY <3>1, <3>3
  <2>3. CASE \E id \in new_device_id : dm' = create_block_device(dm, id, path)
    <3>1. PICK id \in new_device_id : dm' = create_block_device(dm, id, path)
      BY <2>3
    <3>2. id \notin Known(dm, hyp)
      BY DEF new_device_id, Known
    <3>3. DmInv(dm', hyp)
      BY <1>1, <3>1, <3>2, RegisterKeeps
    <3>4. PICK d : d = declare_device_index(dm)
      OBVIOUS
    <3>5. d.m = [devices |-> dm.devices, index |-> dm.index + 1, released |-> d.m.released]
      BY <1>1, <3>4, Declared, ZenonT(40)
    <3>6. PICK v : v = [path |-> path, index |-> d.i, count |-> 0]
      BY ZenonT(40)
    <3>7. dm' = [d.m EXCEPT !.devices = With(@, id, v)]
      BY <3>1, <3>4, <3>6 DEF create_block_device
    <3>8. dm'.devices = With(dm.devices, id, v)
      BY <3>5, <3>7
    <3>9. v.count = 0 /\ id \notin DOMAIN hyp
      BY <3>2, <3>6 DEF Known
    <3>10. QED
      BY <3>3, <3>8, <3>9 DEF With
  <2>4. QED
    BY <2>1, <2>2, <2>3, ZenonT(40) DEF new_device
<1>7. AttachedWhileHeld'
  BY <1>1, <1>3, <1>5, <1>6, SameHolders
<1>8. QED
  BY <1>3, <1>5, <1>6, <1>7 DEF RmInv

\* A container takes a device that it may hold from now on.
LEMMA Takes ==
  ASSUME RmInv, NEW c \in Containers, At(c, "new"), task' = PcHeld(c, "set", TRUE)
  PROVE  /\ TaskInv'
         /\ \A id : Holders(id)' = IF id = task[c].id THEN Holders(id) \cup {c} ELSE Holders(id)
         /\ c \notin Holders(task[c].id)
         /\ \A d \in Containers : /\ task'[d].id = task[d].id
                                  /\ task'[d].held => task[d].held \/ d = c
<1>1. TaskInv /\ ~task[c].held
  BY AtPlace DEF RmInv
<1>2. PICK v : v = Step(task[c], "set", task[c].op, TRUE, task[c].req, task[c].old)
  BY Zenon
<1>3. task' = [task EXCEPT ![c] = v]
  BY <1>1, <1>2, Fields, ZenonT(40)
<1>4. PICK b : b = TRUE
  OBVIOUS
<1>5. Holding(v) /\ v.held = TRUE /\ v.id = task[c].id
  <2>1. MayHold("set", task[c].op, b)
    BY <1>4 DEF MayHold
  <2>2. v = Step(task[c], "set", task[c].op, b, task[c].req, task[c].old)
    BY <1>2, <1>4
  <2>3. Holding(v) /\ v.held = b /\ v.id = task[c].id
    BY <2>1, <2>2, Stepped
  <2>4. QED
    BY <1>4, <2>3
<1>6. TaskInv' /\ task'[c] = v /\ \A d \in Containers \ {c} : task'[d] = task[d]
  BY <1>1, <1>3, <1>5, Moved, Zenon
<1>7. \A id : Holders(id)' = IF id = task[c].id THEN Holders(id) \cup {c} ELSE Holders(id)
  BY <1>1, <1>5, <1>6, ZenonT(40) DEF Holders
<1>8. c \notin Holders(task[c].id)
  BY <1>1 DEF Holders
<1>9. QED
  BY <1>5, <1>6, <1>7, <1>8, ZenonT(40)

\* A container has its device attached, and its user count raised.
LEMMA RmInvTakes ==
  ASSUME RmInv, NEW c \in Containers, At(c, "new"), task' = PcHeld(c, "set", TRUE),
         hist' = hist, task[c].id \in DOMAIN dm.devices, DmInv(dm', hyp'),
         dm' = SetCount(dm, task[c].id, dm.devices[task[c].id].count + 1),
         DOMAIN hyp' = DOMAIN hyp \cup {task[c].id}
  PROVE  RmInv'
<1>1. TaskInv /\ HistType /\ AttachedWhileHeld /\ DmInv(dm, hyp)
  BY DEF RmInv
<1>2. /\ TaskInv'
      /\ \A id : Holders(id)' = IF id = task[c].id THEN Holders(id) \cup {c} ELSE Holders(id)
      /\ c \notin Holders(task[c].id)
      /\ \A d \in Containers : /\ task'[d].id = task[d].id
                               /\ task'[d].held => task[d].held \/ d = c
  BY Takes, ZenonT(40)
<1>3. /\ \A id \in DOMAIN dm.devices : dm.devices[id].count = Cardinality(Holders(id))
      /\ \A d \in Containers : task[d].held => task[d].id \in DOMAIN hyp
      /\ \A id \in DOMAIN hyp \ hist.dropped : Holders(id) # {}
  BY <1>1, Attached, ZenonT(40)
<1>4. PICK i, k : i = task[c].id /\ k = dm.devices[task[c].id].count + 1
  OBVIOUS
<1>5. k \in Nat /\ DmType(dm, hyp)
  <2>1. DmType(dm, hyp)
    BY <1>1 DEF DmInv
  <2>2. dm.devices[task[c].id].count \in Nat
    BY <2>1, DmFields
  <2>3. QED
    BY <1>4, <2>1, <2>2
<1>6. /\ DOMAIN dm'.devices = DOMAIN dm.devices
      /\ \A j \in DOMAIN dm.devices : j # i => dm'.devices[j] = dm.devices[j]
      /\ dm'.devices[i].count = k
  <2>1. i \in DOMAIN dm.devices /\ dm' = SetCount(dm, i, k)
    BY <1>4
  <2>2. PICK n : n = dm'
    OBVIOUS
  <2>3. /\ n = [devices |-> n.devices, index |-> dm.index, released |-> dm.released]
        /\ n.devices \in [DOMAIN dm.devices -> Device]
        /\ DOMAIN n.devices = DOMAIN dm.devices
        /\ \A j \in DOMAIN dm.devices : /\ n.devices[j].index = dm.devices[j].index
                                        /\ j # i => n.devices[j] = dm.devices[j]
        /\ n.devices[i].count = k
    <3>1. n = SetCount(dm, i, k)
      BY <2>1, <2>2
    <3>2. QED
      BY <1>5, <2>1, <3>1, Counted
  <2>4. QED
    BY <2>2, <2>3, ZenonT(40)
<1>7. Cardinality(Holders(i) \cup {c}) = Cardinality(Holders(i)) + 1
  BY <1>2, <1>4, HoldersFinite, FS_AddElement, Zenon
<1>8. \A id \in DOMAIN dm'.devices : dm'.devices[id].count = Cardinality(Holders(id)')
  <2>1. Cardinality(Holders(i)') = k
    BY <1>2, <1>3, <1>4, <1>7, ZenonT(40)
  <2>2. \A j \in DOMAIN dm.devices : j # i => Cardinality(Holders(j)') = dm.devices[j].count
    BY <1>2, <1>3, <1>4, Zenon
  <2>3. QED
    BY <1>6, <2>1, <2>2, ZenonT(40)
<1>9. \A d \in Containers : task'[d].held => task'[d].id \in DOMAIN hyp'
  BY <1>2, <1>3, ZenonT(40)
<1>10. \A id \in DOMAIN hyp' \ hist'.dropped : Holders(id)' # {}
  BY <1>2, <1>3
<1>11. AttachedWhileHeld'
  BY <1>8, <1>9, <1>10, Attached, ZenonT(40)
<1>12. HistType'
  BY <1>1 DEF HistType
<1>13. QED
  BY <1>2, <1>11, <1>12 DEF RmInv

\* A device is attached, or its index released if that fails.
LEMMA RmInvAdd ==
  ASSUME RmInv, NEW c \in Containers, try_add_device(c)
  PROVE  RmInv'
<1>1. TaskInv /\ HistType /\ AttachedWhileHeld /\ DmInv(dm, hyp) /\ ~task[c].held
  BY AtPlace DEF RmInv, try_add_device
<1>2. At(c, "new") /\ hist' = hist
  BY DEF try_add_device
<1>3. PICK i : i = task[c].id
  OBVIOUS
<1>4. CASE /\ Go(c, "failed") /\ hyp' = hyp
           /\ \/ dm' = dm
              \/ i \in DOMAIN dm.devices /\ dm.devices[i].count = 0 /\ dm' = AttachFails(dm, i)
  <2>1. task' = Pc(c, "failed")
    BY <1>4 DEF Go, Pc
  <2>2. PICK v : v = Step(task[c], "failed", task[c].op, task[c].held, task[c].req, task[c].old)
    OBVIOUS
  <2>3. task' = [task EXCEPT ![c] = v]
    BY <1>1, <2>1, <2>2, Fields
  <2>4. MayHold("failed", task[c].op, task[c].held)
    BY AtPlace DEF MayHold, Working
  <2>5. Holding(v) /\ v.held = task[c].held /\ v.id = task[c].id
    BY <2>2, <2>4, Stepped
  <2>6. TaskInv' /\ task'[c] = v /\ \A d \in Containers \ {c} : task'[d] = task[d]
    BY <1>1, <2>3, <2>5, Moved, ZenonT(40)
  <2>7. \A d \in Containers : /\ task'[d].held = task[d].held
                              /\ task[d].held => task'[d].id = task[d].id
    BY <2>5, <2>6
  <2>8. /\ hyp' = hyp
        /\ \/ dm' = dm
           \/ i \in DOMAIN dm.devices /\ dm.devices[i].count = 0 /\ dm' = AttachFails(dm, i)
    BY <1>4
  <2>9. DmInv(dm', hyp) /\ \A id \in DOMAIN dm'.devices :
          id \in DOMAIN dm.devices /\ dm'.devices[id].count = dm.devices[id].count
    <3>1. CASE dm' = dm
      BY <1>1, <3>1
    <3>2. CASE i \in DOMAIN dm.devices /\ dm.devices[i].count = 0 /\ dm' = AttachFails(dm, i)
      <4>1. i \notin DOMAIN hyp /\ DOMAIN hyp \ {i} = DOMAIN hyp
        BY <1>1, <3>2 DEF DmInv, Registered
      <4>2. hyp \in [DOMAIN hyp -> Nat]
        BY <1>1 DEF DmInv, DmType
      <4>3. Without(hyp, i) = hyp
        BY <4>1, <4>2 DEF Without
      <4>4. DmInv(AttachFails(dm, i), Without(hyp, i))
        BY <1>1, <3>2, ReleaseKeeps
      <4>5. DmInv(dm', hyp)
        BY <3>2, <4>3, <4>4
      <4>6. dm'.devices = Without(dm.devices, i)
        <5>1. PICK o : o = release_device_index(dm, dm.devices[i].index)
          OBVIOUS
        <5>2. dm = [devices |-> dm.devices, index |-> dm.index, released |-> dm.released]
          BY <1>1 DEF DmInv, DmType
        <5>3. PICK r : o = [dm EXCEPT !.released = r]
          BY <5>1, ZenonT(40) DEF release_device_index
        <5>4. o = [devices |-> dm.devices, index |-> dm.index, released |-> r]
          BY <5>2, <5>3
        <5>5. dm' = [o EXCEPT !.devices = Without(@, i)]
          BY <3>2, <5>1 DEF AttachFails
        <5>6. QED
          BY <5>4, <5>5
      <4>7. QED
        BY <4>5, <4>6 DEF Without
    <3>3. QED
      BY <2>8, <3>1, <3>2
  <2>10. AttachedWhileHeld'
    BY <1>1, <1>2, <2>7, <2>8, <2>9, SameHolders
  <2>11. HistType'
    BY <1>1, <1>2 DEF HistType
  <2>12. QED
    BY <2>6, <2>8, <2>9, <2>10, <2>11 DEF RmInv
<1>5. CASE /\ i \in DOMAIN dm.devices /\ dm.devices[i].count > 0
           /\ dm' = AttachAgain(dm, i) /\ hyp' = hyp
           /\ task' = [task EXCEPT ![c].pc = "set", ![c].held = TRUE]
  <2>1. DmInv(dm', hyp')
    BY <1>1, <1>5, AttachAgainKeeps
  <2>2. i \in DOMAIN hyp
    BY <1>1, <1>5 DEF DmInv, Registered
  <2>3. DOMAIN hyp' = DOMAIN hyp \cup {i}
    BY <1>5, <2>2
  <2>4. dm' = SetCount(dm, i, dm.devices[i].count + 1)
    BY <1>5 DEF AttachAgain
  <2>5. task' = PcHeld(c, "set", TRUE)
    BY <1>5 DEF PcHeld
  <2>6. QED
    BY <1>2, <1>3, <1>5, <2>1, <2>3, <2>4, <2>5, RmInvTakes, ZenonT(40)
<1>6. CASE /\ i \in DOMAIN dm.devices /\ dm.devices[i].count = 0
           /\ dm' = SetCount(dm, i, 1) /\ hyp' = With(hyp, i, dm.devices[i].index)
           /\ task' = [task EXCEPT ![c].pc = "set", ![c].held = TRUE]
  <2>1. DmInv(dm', hyp')
    BY <1>1, <1>6, AttachKeeps
  <2>2. DOMAIN hyp' = DOMAIN hyp \cup {i}
    BY <1>6 DEF With
  <2>3. dm' = SetCount(dm, i, dm.devices[i].count + 1)
    BY <1>6
  <2>4. task' = PcHeld(c, "set", TRUE)
    BY <1>6 DEF PcHeld
  <2>5. QED
    BY <1>2, <1>3, <1>6, <2>1, <2>2, <2>3, <2>4, RmInvTakes, ZenonT(40)
<1>7. QED
  BY <1>3, <1>4, <1>5, <1>6 DEF try_add_device

-----------------------------------------------------------------------------
\* A container that is stopped gives its device up.
LEMMA GivesUp ==
  ASSUME RmInv, NEW c \in Containers, At(c, "run"), task' = PcOpHeld(c, "set", "Del", FALSE)
  PROVE  /\ TaskInv'
         /\ \A id : Holders(id)' = IF id = task[c].id THEN Holders(id) \ {c} ELSE Holders(id)
         /\ c \in Holders(task[c].id)
         /\ \A d \in Containers : /\ task'[d].id = task[d].id
                                  /\ task'[d].held => task[d].held /\ d # c
<1>1. TaskInv /\ task[c].held
  BY AtPlace DEF RmInv
<1>2. PICK b : b = FALSE
  BY Zenon
<1>3. PICK v : v = Step(task[c], "set", "Del", b, task[c].req, task[c].old)
  OBVIOUS
<1>4. task' = [task EXCEPT ![c] = v]
  <2>1. PcOpHeld(c, "set", "Del", b) =
          [task EXCEPT ![c] = Step(task[c], "set", "Del", b, task[c].req, task[c].old)]
    BY <1>1, Fields
  <2>2. QED
    BY <1>2, <1>3, <2>1, ZenonT(40)
<1>5. MayHold("set", "Del", b)
  BY <1>2, ZenonT(40) DEF MayHold
<1>6. Holding(v) /\ v.held = b /\ v.id = task[c].id
  BY <1>3, <1>5, Stepped
<1>7. TaskInv' /\ task'[c] = v /\ \A d \in Containers \ {c} : task'[d] = task[d]
  BY <1>1, <1>4, <1>6, Moved, Zenon
<1>8. task'[c].held = FALSE /\ task'[c].id = task[c].id
  BY <1>2, <1>6, <1>7, Zenon
<1>9. \A id : Holders(id)' = IF id = task[c].id THEN Holders(id) \ {c} ELSE Holders(id)
  BY <1>7, <1>8, Zenon DEF Holders
<1>10. c \in Holders(task[c].id)
  BY <1>1 DEF Holders
<1>11. QED
  BY <1>7, <1>8, <1>9, <1>10, ZenonT(40)

\* The last holder of a device.
LEMMA OnlyHolder ==
  ASSUME NEW i, NEW c \in Holders(i), Cardinality(Holders(i)) = 1
  PROVE  Holders(i) = {c}
<1>1. IsFiniteSet(Holders(i))
  BY HoldersFinite
<1>2. IsFiniteSet(Holders(i) \ {c}) /\ Cardinality(Holders(i) \ {c}) = Cardinality(Holders(i)) - 1
  BY <1>1, FS_RemoveElement
<1>3. Cardinality(Holders(i) \ {c}) = 0
  BY <1>2
<1>4. Holders(i) \ {c} = {}
  BY <1>2, <1>3, FS_EmptySet
<1>5. QED
  BY <1>4

\* A device is detached by its last user, and only forgotten by another one.
LEMMA RmInvRemove ==
  ASSUME RmInv, NEW c \in Containers, try_remove_device(c)
  PROVE  RmInv'
<1>1. TaskInv /\ HistType /\ AttachedWhileHeld /\ DmInv(dm, hyp)
  BY DEF RmInv
<1>2. At(c, "run") /\ task[c].held
  BY AtPlace DEF try_remove_device
<1>3. PICK i : i = task[c].id
  OBVIOUS
<1>4. /\ \A id \in DOMAIN dm.devices : dm.devices[id].count = Cardinality(Holders(id))
      /\ \A d \in Containers : task[d].held => task[d].id \in DOMAIN hyp
      /\ \A id \in DOMAIN hyp \ hist.dropped : Holders(id) # {}
  BY <1>1, Attached
<1>5. i \in DOMAIN hyp
  BY <1>2, <1>3, <1>4
<1>6. CASE /\ task' = [task EXCEPT ![c].pc = "set", ![c].op = "Del"]
           /\ dm' = dm /\ hyp' = hyp /\ hist' = hist
  <2>1. task' = PcOp(c, "set", "Del")
    BY <1>6 DEF PcOp
  <2>2. task' = [task EXCEPT ![c] = Step(task[c], "set", "Del", task[c].held, task[c].req, task[c].old)]
    BY <1>1, <2>1, Fields
  <2>3. MayHold("set", "Del", task[c].held)
    BY AtPlace DEF MayHold
  <2>4. DropsNone
    BY <1>6 DEF DropsNone
  <2>5. QED
    BY <1>6, <2>2, <2>3, <2>4, MovesOn, ZenonT(40)
<1>7. CASE /\ i \in DOMAIN dm.devices /\ hyp' = hyp /\ dm' = DetachShared(dm, i)
           /\ hist' = [hist EXCEPT !.dropped = @ \cup {i}]
           /\ task' = [task EXCEPT ![c].pc = "set", ![c].op = "Del", ![c].held = FALSE]
  <2>1. task' = PcOpHeld(c, "set", "Del", FALSE)
    BY <1>7 DEF PcOpHeld
  <2>2. /\ TaskInv'
        /\ \A id : Holders(id)' = IF id = i THEN Holders(id) \ {c} ELSE Holders(id)
        /\ \A d \in Containers : /\ task'[d].id = task[d].id
                                 /\ task'[d].held => task[d].held /\ d # c
    BY <1>2, <1>3, <2>1, GivesUp, Zenon
  <2>3. DmInv(dm', hyp')
    BY <1>1, <1>5, <1>7, ForgetKeeps
  <2>4. HistType' /\ hist'.dropped = hist.dropped \cup {i}
    BY <1>1, <1>7 DEF HistType
  <2>5. dm'.devices = Without(dm.devices, i)
    <3>1. dm = [devices |-> dm.devices, index |-> dm.index, released |-> dm.released]
      BY <1>1 DEF DmInv, DmType
    <3>2. dm' = [dm EXCEPT !.devices = Without(@, i)]
      BY <1>7 DEF DetachShared
    <3>3. QED
      BY <3>1, <3>2
  <2>6. \A id \in DOMAIN dm'.devices : dm'.devices[id].count = Cardinality(Holders(id)')
    BY <1>4, <2>2, <2>5 DEF Without
  <2>7. \A d \in Containers : task'[d].held => task'[d].id \in DOMAIN hyp'
    BY <1>4, <1>7, <2>2, Zenon
  <2>8. \A id \in DOMAIN hyp' \ hist'.dropped : Holders(id)' # {}
    BY <1>4, <1>7, <2>2, <2>4
  <2>9. QED
    BY <2>2, <2>3, <2>4, <2>6, <2>7, <2>8, Attached DEF RmInv
<1>8. CASE /\ i \in DOMAIN dm.devices /\ LastUser(dm, i) /\ hist' = hist
           /\ dm' = DetachLast(dm, i) /\ hyp' = Without(hyp, i)
           /\ task' = [task EXCEPT ![c].pc = "set", ![c].op = "Del", ![c].held = FALSE]
  <2>1. task' = PcOpHeld(c, "set", "Del", FALSE)
    BY <1>8 DEF PcOpHeld
  <2>2. /\ TaskInv'
        /\ \A id : Holders(id)' = IF id = i THEN Holders(id) \ {c} ELSE Holders(id)
        /\ \A d \in Containers : /\ task'[d].id = task[d].id
                                 /\ task'[d].held => task[d].held /\ d # c
        /\ c \in Holders(i)
    BY <1>2, <1>3, <2>1, GivesUp, ZenonT(40)
  <2>3. DmInv(dm', hyp')
    BY <1>1, <1>8, ReleaseKeeps DEF DetachLast
  <2>4. HistType' /\ hist'.dropped = hist.dropped
    BY <1>1, <1>8 DEF HistType
  <2>5. dm'.devices = Without(dm.devices, i)
    <3>1. PICK o : o = release_device_index(dm, dm.devices[i].index)
      OBVIOUS
    <3>2. dm = [devices |-> dm.devices, index |-> dm.index, released |-> dm.released]
      BY <1>1 DEF DmInv, DmType
    <3>3. PICK r : o = [dm EXCEPT !.released = r]
      BY <3>1, Zenon DEF release_device_index
    <3>4. o = [devices |-> dm.devices, index |-> dm.index, released |-> r]
      BY <3>2, <3>3
    <3>5. dm' = [o EXCEPT !.devices = Without(@, i)]
      BY <1>8, <3>1 DEF DetachLast, AttachFails
    <3>6. QED
      BY <3>4, <3>5
  <2>6. Holders(i) = {c}
    <3>1. Cardinality(Holders(i)) = 1
      BY <1>4, <1>8 DEF LastUser
    <3>2. QED
      BY <2>2, <3>1, OnlyHolder
  <2>7. \A id \in DOMAIN dm'.devices : dm'.devices[id].count = Cardinality(Holders(id)')
    BY <1>4, <2>2, <2>5 DEF Without
  <2>8. ASSUME NEW d \in Containers, task'[d].held
        PROVE  task'[d].id \in DOMAIN hyp'
    <3>1. task[d].held /\ d # c /\ task'[d].id = task[d].id
      BY <2>2, <2>8
    <3>2. task[d].id # i
      BY <2>6, <3>1 DEF Holders
    <3>3. QED
      BY <1>4, <1>8, <3>1, <3>2 DEF Without
  <2>9. \A id \in DOMAIN hyp' \ hist'.dropped : Holders(id)' # {}
    BY <1>4, <1>8, <2>2, <2>4 DEF Without
  <2>10. QED
    BY <2>2, <2>3, <2>4, <2>7, <2>8, <2>9, Attached DEF RmInv
<1>9. QED
  BY <1>3, <1>6, <1>7, <1>8 DEF try_remove_device

\* No device is known in the beginning.
LEMMA RmInvInit == Init => RmInv
<1> SUFFICES ASSUME Init PROVE RmInv
  OBVIOUS
<1>1. dm = [devices |-> <<>>, index |-> 0, released |-> <<>>] /\ hyp = <<>>
  BY DEF Init, NewManager
<1>2. DOMAIN dm.devices = {} /\ DOMAIN hyp = {} /\ dm.index = 0 /\ dm.released = <<>>
  BY <1>1
<1>3. DmType(dm, hyp)
  BY <1>1, <1>2 DEF DmType
<1>4. Known(dm, hyp) = {} /\ Len(dm.released) = 0
  BY <1>2 DEF Known
<1>5. DmInv(dm, hyp)
  BY <1>2, <1>3, <1>4 DEF DmInv, Registered, Distinct, InUse, Released
<1>6. \A c \in Containers : task[c] = Idle
  BY DEF Init
<1>7. Holding(Idle) /\ Idle.held = FALSE
  BY DEF Idle, Holding, MayHold, Working
<1>8. TaskInv
  <2>1. task = [c \in Containers |-> task[c]]
    BY DEF Init
  <2>2. QED
    BY <1>6, <1>7, <2>1 DEF TaskInv
<1>9. HistType
  BY DEF Init, HistType
<1>10. AttachedWhileHeld
  BY <1>2, <1>6, <1>7, Attached
<1>11. QED
  BY <1>5, <1>8, <1>9, <1>10 DEF RmInv

\* Every step keeps RmInv.
LEMMA RmInvNext == RmInv /\ [Next]_vars => RmInv'
<1> SUFFICES ASSUME RmInv, [Next]_vars PROVE RmInv'
  OBVIOUS
<1>1. CASE UNCHANGED vars
  BY <1>1 DEF vars, RmInv, TaskInv, HistType, AttachedWhileHeld
<1>2. CASE Next
  <2>1. PICK c \in Containers :
          \/ \E path \in Paths : new_device(c, path)
          \/ try_add_device(c) \/ try_remove_device(c)
          \/ update(c) \/ SetResources(c) \/ CalcResources(c) \/ CheckCurrent(c)
          \/ ReadCurrent(c) \/ resize_vcpu(c) \/ online_cpu_mem(c)
    BY <1>2 DEF Next
  <2>2. QED
    BY <2>1, RmInvNew, RmInvAdd, RmInvRemove, RmInvUpdate, RmInvRead, RmInvResize
<1>3. QED
  BY <1>1, <1>2

\* RmInv holds in every state.
LEMMA RmInvAlways == Spec => []RmInv
BY RmInvInit, RmInvNext, PTL DEF Spec

\* For any number of containers and devices, an index names one device in the guest as
\* long as the device is known, and is free only when it is not in use: indexes are
\* reused after errors and after the last user, also while others are being created.
THEOREM IndexesUnique == Spec => []IndexUnique
<1>1. RmInv => IndexUnique
  <2>1. SUFFICES ASSUME DmInv(dm, hyp) PROVE IndexUnique
    BY DEF RmInv
  <2>2. Distinct(dm, hyp) /\ InUse(dm, hyp)
    BY <2>1 DEF DmInv
  <2>3. QED
    BY <2>2 DEF IndexUnique, Distinct, InUse, Known, IndexOf
<1>2. QED
  BY <1>1, RmInvAlways, PTL

\* A device of the manager counts the containers that hold it, and is attached while one
\* does, whatever fails and in whatever order containers come and go.
THEOREM DevicesAttached == Spec => []AttachedWhileHeld
<1>1. RmInv => AttachedWhileHeld
  BY DEF RmInv
<1>2. QED
  BY <1>1, RmInvAlways, PTL
=============================================================================
