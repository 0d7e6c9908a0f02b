-------------------------- MODULE VcpuManagerProofs --------------------------
(***************************************************************************)
(* Resizing the vCPUs, for any number of them, of requests and of broken   *)
(* connections: TidsOfPresent, OnlineHaveThreads and OneAnswerPending of   *)
(* VcpuManager.                                                            *)
(*                                                                         *)
(* None of them is inductive. VcpuInv adds what they rest on: the present  *)
(* vCPUs are the lowest ones without a gap (NoGap), the vCPUs on trial and *)
(* those to be removed are at the upper end (Trial, Target), the list of   *)
(* ids is in the order of the vCPUs (TidsInOrder), and an answer "ok" to a *)
(* removal comes after the guest has given the vCPUs up (GaveUp).          *)
(***************************************************************************)
EXTENDS VcpuManager, FiniteSetTheorems, TLAPS

\* The provers a step is given to, in turn, where it does not name one.
USE SMTT(10), ZenonT(20), SMTT(40)

\* The vCPUs from a to b - 1, upwards and downwards.
Up(a, b) == [i \in 1 .. b - a |-> a + i - 1]
Down(a, b) == [i \in 1 .. b - a |-> b - i]

ClientType ==
  [state : {"WaitingServer", "WaitingService", "ServiceConnected", "ServiceBusy"},
   stream : BOOLEAN, in_reconnect : BOOLEAN, timer : BOOLEAN, reconnect_time : Nat,
   callback : {"none", "cpu", "dev"}]

VcpuType ==
  /\ handles \subseteq Vcpus
  /\ tids \in Seq(Vcpus)
  /\ action \in [kind : {"None", "Hotplug", "Hotunplug"}, ids : Seq(Vcpus)]
  /\ rx \in Seq({"Success", "Failed"})
  /\ vmm \in [pc : {"idle", "tids", "join", "stopped"}, ids : Seq(Vcpus),
              then : {"none", "rollback", "unplug", "stop"}]
  /\ client \in ClientType
  /\ guest \in [msg : {"none", "ok", "fail", "bad"}, online : SUBSET Vcpus]
  /\ hist \in [rolled : BOOLEAN, refused : BOOLEAN, unsure : SUBSET Vcpus]

Present == Cardinality(handles)

\* The vCPUs the guest has online, but for those a broken connection leaves open.
Sure == guest.online \ hist.unsure

Stopping == vmm.then = "stop" \/ vmm.pc = "stopped"

\* The threads of an activation are still on trial.
OnTrial == vmm.pc = "tids" \/ vmm.then = "rollback"

\* The present vCPUs are the lowest ones, without a gap.
NoGap == handles = 0 .. Present - 1

\* Where the thread of the VMM is, and what it knows there.
VmmPlace ==
  /\ vmm.pc = "join" <=> vmm.then # "none"
  /\ vmm.pc = "tids" => is_ready(client)
  /\ vmm.then = "rollback" => hist.rolled
  /\ vmm.then = "unplug" => vmm.ids = action.ids /\ action.kind = "Hotunplug"
  /\ vmm.then = "stop" => vmm.ids = Up(0, Present)

\* An activation adds the vCPUs above the present ones; the guest has not been told of
\* them, and their ids are not in the list yet.
Trial ==
  OnTrial =>
    /\ action.kind = "None"
    /\ \E m \in 0 .. Present : /\ vmm.ids = Up(m, Present)
                               /\ Sure \subseteq 0 .. m - 1
                               /\ ~hist.rolled => tids = Up(0, m)

\* A resize in progress is about the vCPUs at the upper end.
Target ==
  ~Stopping =>
    /\ action.kind = "Hotplug" => Range(action.ids) \subseteq handles
    /\ action.kind = "Hotunplug" => \E m \in 0 .. Present : action.ids = Down(m, Present)

\* The list of thread ids in its order.
TidsInOrder == ~Stopping /\ ~OnTrial /\ ~hist.rolled => tids = Up(0, Present)

\* When the answer to a removal says so, the guest has given the vCPUs up.
GaveUp ==
  /\ ~Stopping /\ action.kind = "Hotunplug"
  /\ \/ vmm.then = "unplug"
     \/ rx # <<>> /\ Head(rx) = "Success"
     \/ client.callback = "cpu" /\ guest.msg = "ok"
  => Range(action.ids) \cap Sure = {}

\* The callback of a resize waits only while the client is busy, and a client that is
\* ready has nothing to read but the end of the stream.
ClientIdle ==
  /\ client.callback = "cpu" => client.state = "ServiceBusy"
  /\ is_ready(client) => guest.msg \in {"none", "bad"}
  /\ hist.refused => action.kind # "None"

VcpuInv ==
  /\ VcpuType
  /\ NoGap
  /\ VmmPlace
  /\ Trial
  /\ Target
  /\ TidsInOrder
  /\ GaveUp
  /\ ClientIdle
  /\ OneAnswerPending
  /\ OnlineHaveThreads

-----------------------------------------------------------------------------
\* What Up and Down are as sequences.
LEMMA UpFacts ==
  ASSUME NEW a \in Nat, NEW b \in Nat, a <= b
  PROVE  /\ Up(a, b) \in Seq(a .. b - 1)
         /\ DOMAIN Up(a, b) = 1 .. b - a
         /\ Len(Up(a, b)) = b - a
         /\ \A i \in 1 .. b - a : Up(a, b)[i] = a + i - 1
         /\ Range(Up(a, b)) = a .. b - 1
<1> DEFINE n == b - a
<1>1. n \in Nat
  OBVIOUS
<1>2. Up(a, b) = [i \in 1 .. n |-> a + i - 1]
  BY DEF Up
<1>3. \A i \in 1 .. n : a + i - 1 \in a .. b - 1
  OBVIOUS
<1>4. Up(a, b) \in [1 .. n -> a .. b - 1]
  BY <1>2, <1>3
<1>5. Up(a, b) \in Seq(a .. b - 1) /\ Len(Up(a, b)) = n
  BY <1>1, <1>4
<1>6. \A i \in 1 .. n : Up(a, b)[i] = a + i - 1
  BY <1>2
<1>7. Range(Up(a, b)) = a .. b - 1
  <2>1. \A x \in a .. b - 1 : x - a + 1 \in 1 .. n /\ Up(a, b)[x - a + 1] = x
    <3> TAKE x \in a .. b - 1
    <3>1. x - a + 1 \in 1 .. n
      OBVIOUS
    <3>2. Up(a, b)[x - a + 1] = a + (x - a + 1) - 1
      BY <3>1, <1>6
    <3> QED
      BY <3>1, <3>2
  <2>2. DOMAIN Up(a, b) = 1 .. n
    BY <1>2
  <2>3. \A x \in a .. b - 1 : \E i \in DOMAIN Up(a, b) : x = Up(a, b)[i]
    BY <2>1, <2>2
  <2>4. \A i \in DOMAIN Up(a, b) : Up(a, b)[i] \in a .. b - 1
    BY <1>4, <2>2
  <2> QED
    BY <2>3, <2>4 DEF Range
<1> QED
  BY <1>2, <1>5, <1>6, <1>7

\* The vCPUs downwards, as a sequence.
LEMMA DownFacts ==
  ASSUME NEW a \in Nat, NEW b \in Nat, a <= b
  PROVE  /\ Down(a, b) \in Seq(a .. b - 1)
         /\ Len(Down(a, b)) = b - a
         /\ Range(Down(a, b)) = a .. b - 1
<1> DEFINE n == b - a
<1>1. n \in Nat
  OBVIOUS
<1>2. Down(a, b) = [i \in 1 .. n |-> b - i]
  BY DEF Down
<1>3. \A i \in 1 .. n : b - i \in a .. b - 1
  OBVIOUS
<1>4. Down(a, b) \in [1 .. n -> a .. b - 1]
  BY <1>2, <1>3
<1>5. Down(a, b) \in Seq(a .. b - 1) /\ Len(Down(a, b)) = n
  BY <1>1, <1>4
<1>6. \A i \in 1 .. n : Down(a, b)[i] = b - i
  BY <1>2
<1>7. Range(Down(a, b)) = a .. b - 1
  <2>1. \A x \in a .. b - 1 : b - x \in 1 .. n /\ Down(a, b)[b - x] = x
    <3> TAKE x \in a .. b - 1
    <3>1. b - x \in 1 .. n
      OBVIOUS
    <3>2. Down(a, b)[b - x] = b - (b - x)
      BY <3>1, <1>6
    <3> QED
      BY <3>1, <3>2
  <2>2. DOMAIN Down(a, b) = 1 .. n
    BY <1>2
  <2>3. \A x \in a .. b - 1 : \E i \in DOMAIN Down(a, b) : x = Down(a, b)[i]
    BY <2>1, <2>2
  <2>4. \A i \in DOMAIN Down(a, b) : Down(a, b)[i] \in a .. b - 1
    BY <1>4, <2>2
  <2> QED
    BY <2>3, <2>4 DEF Range
<1> QED
  BY <1>5, <1>7

\* Two lists are equal when they have the same elements in the same places.
LEMMA SameList ==
  ASSUME NEW s \in Seq(Int), NEW u \in Seq(Int), Len(s) = Len(u),
         \A i \in 1 .. Len(u) : s[i] = u[i]
  PROVE  s = u
OBVIOUS

\* Two lists, one after the other.
LEMMA ConcatIs ==
  ASSUME NEW s \in Seq(Int), NEW t \in Seq(Int), NEW u \in Seq(Int),
         Len(u) = Len(s) + Len(t),
         \A i \in 1 .. Len(s) : u[i] = s[i],
         \A i \in 1 .. Len(t) : u[Len(s) + i] = t[i]
  PROVE  s \o t = u
<1>1. ASSUME NEW i \in 1 .. Len(u) PROVE (s \o t)[i] = u[i]
  <2>1. CASE i <= Len(s)
    BY <2>1
  <2>2. CASE i > Len(s)
    <3>1. i - Len(s) \in 1 .. Len(t) /\ Len(s) + (i - Len(s)) = i
      BY <2>2
    <3>2. u[Len(s) + (i - Len(s))] = t[i - Len(s)]
      BY <3>1, Zenon
    <3>3. (s \o t)[i] = t[i - Len(s)]
      BY <2>2
    <3> QED
      BY <3>1, <3>2, <3>3
  <2> QED
    BY <2>1, <2>2
<1>2. s \o t \in Seq(Int) /\ Len(s \o t) = Len(u)
  OBVIOUS
<1> QED
  BY <1>1, <1>2, SameList, Zenon

\* A list is cut and continued where the numbers meet.
LEMMA UpSplit ==
  ASSUME NEW a \in Nat, NEW b \in Nat, NEW c \in Nat, a <= b, b <= c
  PROVE  /\ Up(a, b) \o Up(b, c) = Up(a, c)
         /\ SubSeq(Up(a, c), 1, b - a) = Up(a, b)
<1>1. /\ Up(a, b) \in Seq(Int) /\ Len(Up(a, b)) = b - a
      /\ Up(a, c) \in Seq(Int) /\ Len(Up(a, c)) = c - a
      /\ Up(b, c) \in Seq(Int) /\ Len(Up(b, c)) = c - b
      /\ b - a \in Nat /\ c - a \in Nat /\ c - b \in Nat
      /\ (b - a) + (c - b) = c - a
  <2>1. Up(a, b) \in Seq(a .. b - 1) /\ Len(Up(a, b)) = b - a
    BY UpFacts
  <2>2. Up(b, c) \in Seq(b .. c - 1) /\ Len(Up(b, c)) = c - b
    BY UpFacts
  <2>3. a <= c
    OBVIOUS
  <2>4. Up(a, c) \in Seq(a .. c - 1) /\ Len(Up(a, c)) = c - a
    BY <2>3, UpFacts
  <2>5. \A i, j \in Nat : Seq(i .. j - 1) \subseteq Seq(Int)
    OBVIOUS
  <2> QED
    BY <2>1, <2>2, <2>4, <2>5
<1>2. /\ \A i \in 1 .. b - a : Up(a, b)[i] = a + i - 1
      /\ \A i \in 1 .. c - a : Up(a, c)[i] = a + i - 1
      /\ \A i \in 1 .. c - b : Up(b, c)[i] = b + i - 1
  <2>1. a <= c
    OBVIOUS
  <2>2. \A i \in 1 .. b - a : Up(a, b)[i] = a + i - 1
    BY UpFacts
  <2>3. \A i \in 1 .. c - a : Up(a, c)[i] = a + i - 1
    BY <2>1, UpFacts
  <2>4. \A i \in 1 .. c - b : Up(b, c)[i] = b + i - 1
    BY UpFacts
  <2> QED
    BY <2>2, <2>3, <2>4
<1>3. Up(a, b) \o Up(b, c) = Up(a, c)
  <2>1. \A i \in 1 .. Len(Up(a, b)) : Up(a, c)[i] = Up(a, b)[i]
    BY <1>1, <1>2
  <2>2. \A i \in 1 .. Len(Up(b, c)) : Up(a, c)[Len(Up(a, b)) + i] = Up(b, c)[i]
    <3> TAKE i \in 1 .. Len(Up(b, c))
    <3>1. i \in 1 .. c - b /\ (b - a) + i \in 1 .. c - a
      BY <1>1
    <3>2. Up(a, c)[(b - a) + i] = a + ((b - a) + i) - 1 /\ Up(b, c)[i] = b + i - 1
      BY <1>2, <3>1
    <3> QED
      BY <1>1, <3>1, <3>2
  <2>3. /\ Up(a, b) \in Seq(Int) /\ Up(b, c) \in Seq(Int) /\ Up(a, c) \in Seq(Int)
        /\ Len(Up(a, c)) = Len(Up(a, b)) + Len(Up(b, c))
    BY <1>1
  <2> QED
    BY <2>1, <2>2, <2>3, ConcatIs, Zenon
<1>4. SubSeq(Up(a, c), 1, b - a) = Up(a, b)
  <2>1. SubSeq(Up(a, c), 1, b - a) = [i \in 1 .. b - a |-> Up(a, c)[i]]
    BY <1>1
  <2>2. \A i \in 1 .. b - a : Up(a, c)[i] = a + i - 1
    BY <1>2
  <2> QED
    BY <2>1, <2>2 DEF Up
<1> QED
  BY <1>3, <1>4

\* The walk over an interval yields it upwards: an increasing list has at least as
\* much room below and above each of its elements as it has elements there.
LEMMA WalkUp ==
  ASSUME NEW a \in Nat, NEW b \in Nat, a <= b
  PROVE  Walk(a .. b - 1) = Up(a, b)
<1> DEFINE n == b - a
           S == a .. b - 1
           Inc(s) == \A i, j \in DOMAIN s : i < j => s[i] < s[j]
<1>1. n \in Nat /\ Cardinality(S) = n
  <2>1. Cardinality(a .. b - 1) = IF a > b - 1 THEN 0 ELSE (b - 1) - a + 1
    BY FS_Interval
  <2> QED
    BY <2>1
<1>2. /\ DOMAIN Up(a, b) = 1 .. n
      /\ Up(a, b) \in Seq(a .. b - 1)
      /\ Len(Up(a, b)) = n
      /\ \A i \in 1 .. n : Up(a, b)[i] = a + i - 1
  BY UpFacts
<1>3. Up(a, b) \in Injection(1 .. n, S) /\ Inc(Up(a, b))
  <2>1. Up(a, b) \in [1 .. n -> S]
    BY <1>1, <1>2
  <2>2. \A i, j \in 1 .. n : Up(a, b)[i] = Up(a, b)[j] => i = j
    BY <1>1, <1>2
  <2>3. Inc(Up(a, b))
    BY <1>1, <1>2
  <2> QED
    BY <1>2, <2>1, <2>2, <2>3 DEF Injection, IsInjective
<1>4. ASSUME NEW s \in Injection(1 .. n, S), Inc(s)
      PROVE  s = Up(a, b)
  <2>1. s \in [1 .. n -> S] /\ DOMAIN s = 1 .. n
    BY DEF Injection
  <2>2. \A i, j \in 1 .. n : i < j => s[i] < s[j]
    BY <1>4, <2>1
  <2>3. ASSUME NEW k \in 1 .. n PROVE s[k] = a + k - 1
    <3>1. s[k] \in Int /\ a <= s[k] /\ s[k] <= b - 1 /\ k \in Nat
      BY <2>1
    <3>2. k <= s[k] - a + 1
      <4> DEFINE f == [i \in 1 .. k |-> s[i]]
      <4>1. \A i \in 1 .. k : s[i] \in a .. s[k]
        <5> TAKE i \in 1 .. k
        <5>1. i \in 1 .. n /\ (i < k \/ i = k)
          OBVIOUS
        <5>2. s[i] \in S
          BY <5>1, <2>1
        <5> QED
          BY <5>1, <5>2, <2>2, <3>1
      <4>2. \A i, j \in 1 .. k : s[i] = s[j] => i = j
        <5> TAKE i \in 1 .. k, j \in 1 .. k
        <5>1. i \in 1 .. n /\ j \in 1 .. n /\ (i < j \/ j < i \/ i = j)
          OBVIOUS
        <5>2. s[i] \in S /\ s[j] \in S
          BY <5>1, <2>1
        <5> QED
          BY <5>1, <5>2, <2>2
      <4>3. f \in Injection(1 .. k, a .. s[k])
        BY <4>1, <4>2 DEF Injection, IsInjective
      <4>4. Cardinality(1 .. k) <= Cardinality(a .. s[k])
        <5>1. IsFiniteSet(a .. s[k])
          BY <3>1, FS_Interval
        <5> HIDE DEF f
        <5> QED
          BY <4>3, <5>1, FS_Injection
      <4>5. Cardinality(1 .. k) = k /\ Cardinality(a .. s[k]) = s[k] - a + 1
        <5>1. Cardinality(1 .. k) = IF 1 > k THEN 0 ELSE k - 1 + 1
          BY <3>1, FS_Interval
        <5>2. Cardinality(a .. s[k]) = IF a > s[k] THEN 0 ELSE s[k] - a + 1
          BY <3>1, FS_Interval
        <5> QED
          BY <5>1, <5>2, <3>1
      <4> QED
        BY <4>4, <4>5
    <3>3. n - k + 1 <= b - s[k]
      <4> DEFINE f == [i \in k .. n |-> s[i]]
      <4>1. \A i \in k .. n : s[i] \in s[k] .. b - 1
        <5> TAKE i \in k .. n
        <5>1. i \in 1 .. n /\ (k < i \/ i = k)
          OBVIOUS
        <5>2. s[i] \in S
          BY <5>1, <2>1
        <5> QED
          BY <5>1, <5>2, <2>2, <3>1
      <4>2. \A i, j \in k .. n : s[i] = s[j] => i = j
        <5> TAKE i \in k .. n, j \in k .. n
        <5>1. i \in 1 .. n /\ j \in 1 .. n /\ (i < j \/ j < i \/ i = j)
          OBVIOUS
        <5>2. s[i] \in S /\ s[j] \in S
          BY <5>1, <2>1
        <5> QED
          BY <5>1, <5>2, <2>2
      <4>3. f \in Injection(k .. n, s[k] .. b - 1)
        BY <4>1, <4>2 DEF Injection, IsInjective
      <4>4. Cardinality(k .. n) <= Cardinality(s[k] .. b - 1)
        <5>1. IsFiniteSet(s[k] .. b - 1)
          BY <3>1, FS_Interval
        <5> HIDE DEF f
        <5> QED
          BY <4>3, <5>1, FS_Injection
      <4>5. Cardinality(k .. n) = n - k + 1 /\ Cardinality(s[k] .. b - 1) = b - s[k]
        <5>1. Cardinality(k .. n) = IF k > n THEN 0 ELSE n - k + 1
          BY <1>1, <3>1, FS_Interval
        <5>2. Cardinality(s[k] .. b - 1) = IF s[k] > b - 1 THEN 0 ELSE (b - 1) - s[k] + 1
          <6>1. s[k] \in Int /\ b - 1 \in Int
            BY <3>1
          <6> QED
            BY <6>1, FS_Interval
        <5> QED
          BY <5>1, <5>2, <3>1
      <4> QED
        BY <4>4, <4>5
    <3> QED
      BY <3>1, <3>2, <3>3
  <2> QED
    BY <2>1, <2>3, <1>2
<1>5. Walk(S) = CHOOSE s \in Injection(1 .. n, S) : Inc(s)
  BY <1>1, Zenon DEF Walk
<1> HIDE DEF Inc
<1> QED
  BY <1>3, <1>4, <1>5

\* The last vCPUs of those from 0 to b - 1, the last one first: what do_del_vcpu takes.
LEMMA BackwardsDown ==
  ASSUME NEW m \in Nat, NEW b \in Nat, m <= b
  PROVE  Backwards(Up(0, b), b - m) = Down(m, b)
<1>1. Len(Up(0, b)) = b /\ \A i \in 1 .. b : Up(0, b)[i] = i - 1
  <2>1. /\ Len(Up(0, b)) = b - 0
        /\ \A i \in 1 .. b - 0 : Up(0, b)[i] = 0 + i - 1
    BY UpFacts
  <2> QED
    BY <2>1
<1>2. \A i \in 1 .. b - m : Up(0, b)[b + 1 - i] = b - i
  <2> TAKE i \in 1 .. b - m
  <2>1. b + 1 - i \in 1 .. b
    OBVIOUS
  <2> QED
    BY <1>1, <2>1
<1> QED
  BY <1>1, <1>2 DEF Backwards, Down

-----------------------------------------------------------------------------
\* There are m vCPUs below m.
LEMMA CardBelow ==
  ASSUME NEW m \in Nat
  PROVE  Cardinality(0 .. m - 1) = m
<1>1. Cardinality(0 .. m - 1) = IF 0 > m - 1 THEN 0 ELSE (m - 1) - 0 + 1
  BY FS_Interval
<1> QED
  BY <1>1

\* The present vCPUs are the first ones, as many as the configuration allows at most.
LEMMA PresentBound ==
  ASSUME VcpuInv
  PROVE  /\ Present \in Nat /\ MaxVcpus \in Nat /\ Present <= MaxVcpus
         /\ handles = 0 .. Present - 1
<1>1. MaxVcpus \in Nat
  BY VcpuAssumption
<1>2. IsFiniteSet(Vcpus) /\ Cardinality(Vcpus) = MaxVcpus
  BY <1>1, CardBelow, FS_Interval DEF Vcpus
<1>3. handles \in SUBSET Vcpus
  BY DEF VcpuInv, VcpuType
<1>4. IsFiniteSet(handles) /\ Cardinality(handles) <= Cardinality(Vcpus)
  BY <1>2, <1>3, FS_Subset
<1>5. Cardinality(handles) \in Nat
  BY <1>4, FS_CardinalityType
<1> QED
  BY <1>1, <1>2, <1>4, <1>5 DEF Present, VcpuInv, NoGap

\* What a resize waits for, one thing at a time.
LEMMA Pending ==
  ASSUME VcpuInv
  PROVE  /\ rx \in Seq({"Success", "Failed"}) /\ Len(rx) \in Nat
         /\ client.callback = "cpu" => Len(rx) = 0 /\ vmm.then # "unplug" /\ action.kind # "None"
         /\ Len(rx) >= 1 => /\ Len(rx) = 1 /\ client.callback # "cpu"
                            /\ action.kind # "None" /\ ~hist.refused
<1>1. rx \in Seq({"Success", "Failed"}) /\ Len(rx) \in Nat
  BY DEF VcpuInv, VcpuType
<1>2. PICK x \in {0, 1} : x = IF client.callback = "cpu" THEN 1 ELSE 0
  OBVIOUS
<1>3. PICK y \in {0, 1} : y = IF vmm.then = "unplug" THEN 1 ELSE 0
  OBVIOUS
<1>4. PICK z \in {0, 1} : z = IF action.kind # "None" /\ ~hist.refused THEN 1 ELSE 0
  OBVIOUS
<1>5. x + Len(rx) + y = z
  BY <1>2, <1>3, <1>4, Zenon DEF VcpuInv, OneAnswerPending
<1>6. /\ x = 1 => Len(rx) = 0 /\ y = 0 /\ z = 1
      /\ Len(rx) >= 1 => Len(rx) = 1 /\ x = 0 /\ z = 1
  <2> PICK l : l = Len(rx)
    BY Zenon
  <2>1. l \in Nat /\ x + l + y = z /\ x \in {0, 1} /\ y \in {0, 1} /\ z \in {0, 1}
    BY <1>1, <1>5
  <2>2. /\ x = 1 => l = 0 /\ y = 0 /\ z = 1
        /\ l >= 1 => l = 1 /\ x = 0 /\ z = 1
    BY <2>1
  <2> QED
    BY <2>2
<1> QED
  BY <1>1, <1>2, <1>3, <1>4, <1>6

\* Scheduling a new attempt is about the timer only.
LEMMA SetReconnect ==
  ASSUME NEW c \in ClientType
  PROVE  /\ set_reconnect(c) \in ClientType
         /\ set_reconnect(c).callback = c.callback /\ set_reconnect(c).state = c.state
<1>1. CASE c.in_reconnect
  BY <1>1 DEF set_reconnect
<1>2. CASE ~c.in_reconnect
  <2> DEFINE d == [c EXCEPT !.in_reconnect = TRUE, !.timer = FALSE]
             e == [d EXCEPT !.timer = TRUE, !.reconnect_time = @ + 1]
  <2>1. d \in ClientType /\ d.callback = c.callback /\ d.state = c.state
    BY Zenon DEF ClientType
  <2>2. set_reconnect(c) \in {d, e}
    BY <1>2 DEF set_reconnect
  <2> HIDE DEF d
  <2>3. e \in ClientType /\ e.callback = d.callback /\ e.state = d.state
    <3>1. d.reconnect_time + 1 \in Nat
      BY <2>1 DEF ClientType
    <3> QED
      BY <2>1, <3>1, Zenon DEF ClientType
  <2> HIDE DEF e
  <2> QED
    BY <2>1, <2>2, <2>3
<1> QED
  BY <1>1, <1>2

\* What reading the stream leads to.
LEMMA ReadStream ==
  ASSUME NEW c \in ClientType, NEW msg \in {"ok", "fail", "bad"}, ~is_ready(c),
         c.callback = "cpu" => c.state = "ServiceBusy",
         NEW r \in handle_stream_event(c, msg)
  PROVE  /\ r.client \in ClientType
         /\ \/ /\ msg = "bad" /\ r.told = <<c.callback, "UpcallReset">>
               /\ r.client.callback = "none" /\ r.client.state = "WaitingServer"
            \/ /\ msg # "bad" /\ r.told = <<"none", "none">>
               /\ r.client.callback = c.callback /\ c.callback # "cpu"
            \/ /\ msg # "bad" /\ r.client.callback = "none"
               /\ r.told = <<c.callback, IF msg = "ok" THEN "Success" ELSE "Failed">>
<1>1. CASE msg = "bad"
  <2>1. r = [client |-> Lost(c), told |-> <<c.callback, "UpcallReset">>]
    BY <1>1 DEF handle_stream_event, is_ready
  <2>2. Lost(c) \in ClientType /\ Lost(c).callback = "none" /\ Lost(c).state = "WaitingServer"
    <3>1. PICK d : d = [c EXCEPT !.state = "WaitingServer"]
      BY Zenon
    <3>2. d \in ClientType /\ d.state = "WaitingServer"
      BY <3>1 DEF ClientType
    <3>3. set_reconnect(d) \in ClientType /\ set_reconnect(d).state = "WaitingServer"
      BY <3>2, SetReconnect
    <3>4. PICK e : e = set_reconnect(d)
      OBVIOUS
    <3>5. Lost(c) = [e EXCEPT !.stream = FALSE, !.callback = "none"]
      BY <3>1, <3>4 DEF Lost
    <3> QED
      BY <3>3, <3>4, <3>5, Zenon DEF ClientType
  <2> HIDE DEF Lost
  <2> QED
    BY <1>1, <2>1, <2>2
<1>2. CASE msg # "bad" /\ c.state \in {"WaitingServer", "WaitingService"}
  <2>1. PICK st \in {"WaitingService", "ServiceConnected"} :
          r = [client |-> [c EXCEPT !.state = st], told |-> <<"none", "none">>]
    BY <1>2 DEF handle_stream_event, is_ready
  <2> QED
    BY <1>2, <2>1 DEF ClientType
<1>3. CASE msg # "bad" /\ c.state = "ServiceBusy"
  <2>1. r = [client |-> [c EXCEPT !.state = "ServiceConnected", !.callback = "none"],
             told |-> <<c.callback, IF msg = "ok" THEN "Success" ELSE "Failed">>]
    BY <1>3 DEF handle_stream_event
  <2> QED
    BY <1>3, <2>1, Zenon DEF ClientType
<1> QED
  BY <1>1, <1>2, <1>3 DEF ClientType, is_ready

-----------------------------------------------------------------------------
\* The VM starts with the vCPUs it boots with, all online.
LEMMA VcpuInvInit == Init => VcpuInv
<1> SUFFICES ASSUME Init PROVE VcpuInv
  OBVIOUS
<1>1. BootVcpus \in Nat /\ MaxVcpus \in Nat /\ BootVcpus <= MaxVcpus
  BY VcpuAssumption
<1>2. Present = BootVcpus /\ NoGap
  BY <1>1, CardBelow DEF Init, Present, NoGap
<1>3. tids = Up(0, BootVcpus)
  <2>1. \A i \in 1 .. BootVcpus : 0 + i - 1 = i - 1
    OBVIOUS
  <2> QED
    BY <1>1, <2>1 DEF Init, Up
<1>4. VcpuType
  <2>1. tids \in Seq(Vcpus)
    <3>1. Up(0, BootVcpus) \in Seq(0 .. BootVcpus - 1)
      BY <1>1, UpFacts
    <3> QED
      BY <1>1, <1>3, <3>1 DEF Vcpus
  <2>2. handles \subseteq Vcpus /\ guest.online \subseteq Vcpus
    BY <1>1 DEF Init, Vcpus
  <2>3. client \in ClientType
    BY DEF Init, NewClient, ClientType
  <2>4. /\ action \in [kind : {"None", "Hotplug", "Hotunplug"}, ids : Seq(Vcpus)]
        /\ vmm \in [pc : {"idle", "tids", "join", "stopped"}, ids : Seq(Vcpus),
                    then : {"none", "rollback", "unplug", "stop"}]
    BY DEF Init, NoAction, Idle
  <2> QED
    BY <2>1, <2>2, <2>3, <2>4 DEF Init, VcpuType
<1>5. VmmPlace /\ Trial /\ GaveUp /\ ClientIdle
  BY DEF Init, VmmPlace, Trial, OnTrial, GaveUp, ClientIdle, Idle, NoAction, NewClient, is_ready
<1>6. Target /\ TidsInOrder
  BY <1>2, <1>3 DEF Init, Target, TidsInOrder, NoAction
<1>7. OneAnswerPending
  BY DEF Init, OneAnswerPending, NewClient, Idle, NoAction
<1>8. OnlineHaveThreads
  BY DEF Init, OnlineHaveThreads
<1> QED
  BY <1>2, <1>4, <1>5, <1>6, <1>7, <1>8 DEF VcpuInv

\* The steps of the vCPU threads change nothing of all this.
LEMMA VcpuInvQuiet ==
  ASSUME VcpuInv, UNCHANGED <<handles, tids, action, rx, vmm, client, guest, hist>>
  PROVE  VcpuInv'
<1>1. VcpuType' /\ NoGap' /\ VmmPlace'
  BY DEF VcpuInv, VcpuType, NoGap, VmmPlace, Present
<1>2. Trial' /\ Target' /\ TidsInOrder' /\ GaveUp'
  BY DEF VcpuInv, Trial, Target, TidsInOrder, GaveUp, OnTrial, Stopping, Present, Sure
<1>3. ClientIdle' /\ OneAnswerPending' /\ OnlineHaveThreads'
  BY Zenon DEF VcpuInv, ClientIdle, OneAnswerPending, OnlineHaveThreads
<1> QED
  BY <1>1, <1>2, <1>3 DEF VcpuInv

-----------------------------------------------------------------------------
\* New threads are started above the present ones, and are on trial.
LEMMA VcpuInvAdd ==
  ASSUME VcpuInv, NEW n \in 1 .. MaxVcpus, do_add_vcpu(n)
  PROVE  VcpuInv'
<1> PICK k : k = Present
  OBVIOUS
<1>1. k \in Nat /\ MaxVcpus \in Nat /\ n \in Nat /\ k < n /\ n <= MaxVcpus /\ handles = 0 .. k - 1
  BY PresentBound DEF do_add_vcpu, Present
<1>2. calculate_available_vcpus(n) = Up(k, n)
  <2>1. Vcpus \ handles = k .. MaxVcpus - 1
    BY <1>1 DEF Vcpus
  <2>2. Walk(Vcpus \ handles) = Up(k, MaxVcpus)
    <3>1. k \in Nat /\ MaxVcpus \in Nat /\ k <= MaxVcpus
      BY <1>1
    <3>2. Walk(k .. MaxVcpus - 1) = Up(k, MaxVcpus)
      BY <3>1, WalkUp
    <3> QED
      BY <2>1, <3>2, Zenon
  <2>3. SubSeq(Up(k, MaxVcpus), 1, n - k) = Up(k, n)
    <3>1. k \in Nat /\ n \in Nat /\ MaxVcpus \in Nat /\ k <= n /\ n <= MaxVcpus
      BY <1>1
    <3> QED
      BY <3>1, UpSplit, Zenon
  <2> QED
    BY <2>2, <2>3 DEF calculate_available_vcpus, Present
<1>3. /\ Up(k, n) \in Seq(k .. n - 1)
      /\ Range(Up(k, n)) = k .. n - 1
  <2>1. k \in Nat /\ n \in Nat /\ k <= n
    BY <1>1
  <2> QED
    BY <2>1, UpFacts, Zenon
<1>4. /\ handles' = handles \cup (k .. n - 1)
      /\ vmm' = [pc |-> "tids", ids |-> Up(k, n), then |-> "none"]
      /\ vmm.pc = "idle" /\ is_ready(client) /\ action.kind = "None"
      /\ UNCHANGED <<tids, action, rx, client, guest, hist>>
  BY <1>2, <1>3 DEF do_add_vcpu, Accepts
<1>5. handles' = 0 .. n - 1 /\ Present' = n
  <2>1. handles' = 0 .. n - 1
    BY <1>1, <1>4
  <2> QED
    BY <1>1, <2>1, CardBelow DEF Present
<1>6. VcpuType'
  <2>1. Up(k, n) \in Seq(Vcpus) /\ 0 .. n - 1 \subseteq Vcpus
    BY <1>1, <1>3 DEF Vcpus
  <2> HIDE DEF Up
  <2> QED
    BY <1>4, <1>5, <2>1 DEF VcpuInv, VcpuType
<1>7. vmm.then = "none"
  BY <1>4 DEF VcpuInv, VmmPlace
<1>8. NoGap' /\ VmmPlace' /\ Target' /\ TidsInOrder'
  BY <1>4, <1>5 DEF NoGap, VmmPlace, Target, TidsInOrder, OnTrial, is_ready
<1>9. Trial'
  <2>1. Sure' \subseteq 0 .. k - 1
    BY <1>1, <1>4, <1>7 DEF VcpuInv, OnlineHaveThreads, Sure
  <2>2. ~hist.rolled => tids = Up(0, k)
    BY <1>4, <1>7 DEF VcpuInv, TidsInOrder, Stopping, OnTrial
  <2>3. k \in 0 .. Present'
    BY <1>1, <1>5
  <2> QED
    BY <1>4, <1>5, <2>1, <2>2, <2>3 DEF Trial
<1>10. GaveUp' /\ ClientIdle'
  BY <1>4 DEF VcpuInv, GaveUp, ClientIdle, is_ready
<1>11. OneAnswerPending'
  BY <1>4, <1>7 DEF VcpuInv, OneAnswerPending
<1>12. OnlineHaveThreads'
  BY <1>4, <1>7 DEF VcpuInv, OnlineHaveThreads
<1> QED
  BY <1>5, <1>6, <1>8, <1>9, <1>10, <1>11, <1>12 DEF VcpuInv

\* Their ids are added to the list in order, and the guest is asked to bring them online.
LEMMA VcpuInvTids ==
  ASSUME VcpuInv, get_vcpus_tid
  PROVE  VcpuInv'
<1> PICK k : k = Present
  OBVIOUS
<1>1. k \in Nat /\ MaxVcpus \in Nat /\ k <= MaxVcpus /\ handles = 0 .. k - 1
  BY PresentBound
<1>2. /\ vmm.pc = "tids" /\ vmm.then = "none" /\ is_ready(client) /\ action.kind = "None"
      /\ tids' = tids \o vmm.ids /\ vmm' = Idle
      /\ UNCHANGED <<handles, rx, guest, hist>>
  BY DEF get_vcpus_tid, VcpuInv, VmmPlace, Trial, OnTrial
<1>3. PICK m \in 0 .. k : /\ vmm.ids = Up(m, k)
                          /\ Sure \subseteq 0 .. m - 1
                          /\ ~hist.rolled => tids = Up(0, m)
  BY <1>2 DEF VcpuInv, Trial, OnTrial
<1>4. /\ Range(vmm.ids) = m .. k - 1
      /\ vmm.ids \in Seq(Vcpus)
  BY <1>1, <1>3, UpFacts DEF VcpuInv, VcpuType
<1>5. Present' = k
  BY <1>2 DEF Present
<1>6. ~hist.rolled => tids' = Up(0, k)
  <2>1. 0 \in Nat /\ m \in Nat /\ k \in Nat /\ 0 <= m /\ m <= k
    BY <1>1
  <2>2. Up(0, m) \o Up(m, k) = Up(0, k)
    BY <2>1, UpSplit, ZenonT(40)
  <2> QED
    BY <1>2, <1>3, <2>2
<1>7. client.callback # "cpu" /\ ~hist.refused
  BY <1>2 DEF VcpuInv, ClientIdle, is_ready
<1>8. \/ /\ client' = send_request(client, "cpu") /\ guest.msg # "bad"
         /\ action' = [kind |-> "Hotplug", ids |-> vmm.ids]
      \/ UNCHANGED <<client, action>>
  BY DEF get_vcpus_tid, send_upcall_action, WriteOk
<1>9. VcpuType'
  <2>1. tids' \in Seq(Vcpus)
    BY <1>2, <1>4 DEF VcpuInv, VcpuType
  <2>2. vmm' \in [pc : {"idle", "tids", "join", "stopped"}, ids : Seq(Vcpus),
                  then : {"none", "rollback", "unplug", "stop"}]
    BY <1>2 DEF Idle
  <2>3. client' \in ClientType
    BY <1>8, ZenonT(40) DEF VcpuInv, VcpuType, ClientType, send_request
  <2>4. action' \in [kind : {"None", "Hotplug", "Hotunplug"}, ids : Seq(Vcpus)]
    BY <1>4, <1>8 DEF VcpuInv, VcpuType
  <2> QED
    BY <1>2, <2>1, <2>2, <2>3, <2>4 DEF VcpuInv, VcpuType
<1>10. NoGap' /\ VmmPlace' /\ Trial'
  BY <1>2 DEF VcpuInv, NoGap, Present, VmmPlace, Trial, OnTrial, Idle
<1>11. Target'
  BY <1>1, <1>2, <1>3, <1>4, <1>8 DEF Target
<1>12. TidsInOrder'
  BY <1>2, <1>5, <1>6 DEF TidsInOrder
<1>13. GaveUp'
  BY <1>2, <1>8 DEF GaveUp
<1>14. ClientIdle'
  BY <1>2, <1>7, <1>8, Zenon DEF VcpuInv, VcpuType, ClientType, ClientIdle, is_ready, send_request
<1>15. OneAnswerPending'
  <2>1. rx \in Seq({"Success", "Failed"})
    BY DEF VcpuInv, VcpuType
  <2>2. Len(rx) = 0
    BY <1>2, <1>7, <2>1 DEF VcpuInv, OneAnswerPending
  <2>3. vmm'.then = "none"
    BY <1>2 DEF Idle
  <2>4. \/ client'.callback = "cpu" /\ action'.kind = "Hotplug"
        \/ client'.callback # "cpu" /\ action'.kind = "None"
    <3>1. send_request(client, "cpu").callback = "cpu"
      BY DEF VcpuInv, VcpuType, ClientType, send_request
    <3> QED
      BY <1>2, <1>7, <1>8, <3>1
  <2> QED
    BY <1>2, <1>7, <2>2, <2>3, <2>4 DEF OneAnswerPending
<1>16. OnlineHaveThreads'
  BY <1>1, <1>2, <1>3 DEF OnlineHaveThreads, Sure
<1> QED
  BY <1>9, <1>10, <1>11, <1>12, <1>13, <1>14, <1>15, <1>16 DEF VcpuInv

-----------------------------------------------------------------------------
\* The new threads are given up before the guest hears of them.
LEMMA VcpuInvTimeout ==
  ASSUME VcpuInv, VcpuGettidTimeout
  PROVE  VcpuInv'
<1>1. /\ vmm.pc = "tids" /\ vmm.then = "none"
      /\ vmm' = [pc |-> "join", ids |-> vmm.ids, then |-> "rollback"]
      /\ hist' = [hist EXCEPT !.rolled = TRUE]
      /\ UNCHANGED <<handles, tids, action, rx, client, guest>>
  BY DEF VcpuGettidTimeout, exit_vcpus, VcpuInv, VmmPlace
<1>2. /\ hist'.rolled /\ hist'.refused = hist.refused /\ hist'.unsure = hist.unsure
      /\ Present' = Present /\ Sure' = Sure
  BY <1>1 DEF VcpuInv, VcpuType, Present, Sure
<1>3. VcpuType'
  BY <1>1, Zenon DEF VcpuInv, VcpuType
<1>4. NoGap' /\ VmmPlace'
  BY <1>1, <1>2 DEF VcpuInv, NoGap, VmmPlace
<1>5. Trial'
  <2>1. action.kind = "None" /\ \E m \in 0 .. Present : vmm.ids = Up(m, Present) /\ Sure \subseteq 0 .. m - 1
    BY <1>1 DEF VcpuInv, Trial, OnTrial
  <2> QED
    BY <1>1, <1>2, <2>1 DEF Trial
<1>6. Target' /\ TidsInOrder' /\ GaveUp'
  BY <1>1, <1>2 DEF VcpuInv, Target, TidsInOrder, GaveUp, Trial, OnTrial
<1>7. ClientIdle' /\ OneAnswerPending'
  BY <1>1, <1>2 DEF VcpuInv, ClientIdle, OneAnswerPending
<1>8. OnlineHaveThreads'
  BY <1>1, <1>2 DEF VcpuInv, OnlineHaveThreads
<1> QED
  BY <1>3, <1>4, <1>5, <1>6, <1>7, <1>8 DEF VcpuInv

\* The guest is asked to give up the highest vCPUs.
LEMMA VcpuInvDel ==
  ASSUME VcpuInv, NEW n \in 1 .. MaxVcpus, do_del_vcpu(n)
  PROVE  VcpuInv'
<1> PICK k : k = Present
  OBVIOUS
<1>1. k \in Nat /\ MaxVcpus \in Nat /\ n \in Nat /\ n < k /\ k <= MaxVcpus /\ handles = 0 .. k - 1
  BY PresentBound DEF do_del_vcpu, Present
<1>2. Backwards(calculate_removable_vcpus, k - n) = Down(n, k)
  <2>1. Walk(handles) = Up(0, k)
    BY <1>1, WalkUp
  <2> QED
    BY <1>1, <2>1, BackwardsDown DEF calculate_removable_vcpus
<1>3. Down(n, k) \in Seq(Vcpus)
  <2>1. Down(n, k) \in Seq(n .. k - 1)
    BY <1>1, DownFacts
  <2> QED
    BY <1>1, <2>1 DEF Vcpus
<1>4. /\ vmm.pc = "idle" /\ is_ready(client) /\ action.kind = "None" /\ guest.msg # "bad"
      /\ client' = send_request(client, "cpu")
      /\ action' = [kind |-> "Hotunplug", ids |-> Down(n, k)]
      /\ UNCHANGED <<handles, tids, rx, vmm, guest, hist>>
  BY <1>2 DEF do_del_vcpu, Accepts, send_upcall_action, WriteOk, Present
<1>5. vmm.then = "none" /\ guest.msg = "none" /\ client.callback # "cpu" /\ ~hist.refused
  BY <1>4 DEF VcpuInv, VmmPlace, ClientIdle, is_ready
<1>6. /\ client'.callback = "cpu" /\ client'.state = "ServiceBusy" /\ client' \in ClientType
      /\ Present' = k /\ Sure' = Sure
  BY <1>4, Zenon DEF VcpuInv, VcpuType, ClientType, send_request, Present, Sure
<1>7. rx = <<>> /\ Len(rx) = 0
  <2>1. rx \in Seq({"Success", "Failed"})
    BY DEF VcpuInv, VcpuType
  <2> QED
    BY <1>4, <1>5, <2>1 DEF VcpuInv, OneAnswerPending
<1>8. VcpuType'
  BY <1>3, <1>4, <1>6 DEF VcpuInv, VcpuType
<1>9. NoGap' /\ VmmPlace' /\ Trial' /\ TidsInOrder'
  BY <1>4, <1>5, <1>6 DEF VcpuInv, NoGap, VmmPlace, Trial, OnTrial, TidsInOrder, Stopping
<1>10. Target'
  <2>1. n \in 0 .. k
    BY <1>1
  <2> QED
    BY <1>4, <1>6, <2>1 DEF Target
<1>11. GaveUp' /\ ClientIdle'
  BY <1>4, <1>5, <1>6, <1>7 DEF GaveUp, ClientIdle, is_ready
<1>12. OneAnswerPending'
  BY <1>4, <1>5, <1>6, <1>7 DEF OneAnswerPending
<1>13. OnlineHaveThreads'
  BY <1>4 DEF VcpuInv, OnlineHaveThreads
<1> QED
  BY <1>8, <1>9, <1>10, <1>11, <1>12, <1>13 DEF VcpuInv

\* The answer ends the wait for it; the threads of a removal are told to exit.
LEMMA VcpuInvAnswer ==
  ASSUME VcpuInv, process_cpu_action
  PROVE  VcpuInv'
<1>1. /\ vmm.pc = "idle" /\ rx # <<>> /\ rx' = Tail(rx) /\ vmm.then = "none"
      /\ UNCHANGED <<handles, tids, client, guest>>
  BY DEF process_cpu_action, VcpuInv, VmmPlace
<1>2. /\ rx \in Seq({"Success", "Failed"}) /\ Len(rx) = 1 /\ client.callback # "cpu"
      /\ action.kind # "None" /\ ~hist.refused
  <2>1. rx \in Seq({"Success", "Failed"}) /\ Len(rx) \in Nat /\ Len(rx) >= 1
    BY <1>1 DEF VcpuInv, VcpuType
  <2> QED
    BY <2>1, Pending
<1>3. rx' = <<>> /\ Len(rx') = 0 /\ rx' \in Seq({"Success", "Failed"})
  BY <1>1, <1>2
<1>4. Present' = Present
  BY <1>1 DEF Present
<1>5. CASE Head(rx) = "Failed"
  <2>1. hist' = [hist EXCEPT !.refused = TRUE] /\ UNCHANGED <<vmm, action>>
    BY <1>5 DEF process_cpu_action
  <2>2. hist'.refused /\ hist'.rolled = hist.rolled /\ hist'.unsure = hist.unsure /\ Sure' = Sure
    BY <1>1, <2>1 DEF VcpuInv, VcpuType, Sure
  <2>3. VcpuType'
    BY <1>1, <1>3, <2>1, ZenonT(40) DEF VcpuInv, VcpuType
  <2>4. NoGap' /\ VmmPlace' /\ Trial' /\ Target' /\ TidsInOrder'
   
      BY <1>1, <1>4, <2>1, <2>2 DEF VcpuInv, NoGap, VmmPlace, Trial, Target, TidsInOrder,
          OnTrial, Stopping
  <2>5. GaveUp' /\ ClientIdle'
    BY <1>1, <1>2, <1>3, <2>1, <2>2 DEF VcpuInv, GaveUp, ClientIdle
  <2>6. OneAnswerPending'
    BY <1>1, <1>2, <1>3, <2>1, <2>2 DEF OneAnswerPending
  <2>7. OnlineHaveThreads'
    BY <1>1, <2>1, <2>2 DEF VcpuInv, OnlineHaveThreads
  <2> QED
    BY <2>3, <2>4, <2>5, <2>6, <2>7 DEF VcpuInv
<1>6. CASE Head(rx) # "Failed" /\ action.kind = "Hotunplug"
  <2>1. vmm' = [pc |-> "join", ids |-> action.ids, then |-> "unplug"] /\ UNCHANGED <<action, hist>>
    BY <1>6 DEF process_cpu_action, exit_vcpus
  <2>2. Head(rx) = "Success"
    <3>1. Head(rx) \in {"Success", "Failed"}
      BY <1>1, <1>2
    <3> QED
      BY <1>6, <3>1
  <2>3. VcpuType'
    BY <1>1, <1>3, <2>1 DEF VcpuInv, VcpuType
  <2>4. Sure' = Sure
    BY <1>1, <2>1 DEF Sure
  <2>5. NoGap' /\ VmmPlace' /\ Trial' /\ Target' /\ TidsInOrder'
   
      BY <1>1, <1>4, <1>6, <2>1 DEF VcpuInv, NoGap, VmmPlace, Trial, Target, TidsInOrder,
          OnTrial, Stopping
  <2>6. GaveUp'
    BY <1>1, <1>6, <2>1, <2>2, <2>4 DEF VcpuInv, GaveUp, Stopping
  <2>7. ClientIdle'
    BY <1>1, <2>1 DEF VcpuInv, ClientIdle
  <2>8. OneAnswerPending'
    BY <1>1, <1>2, <1>3, <2>1 DEF OneAnswerPending
  <2>9. OnlineHaveThreads'
    BY <1>1, <2>1 DEF VcpuInv, OnlineHaveThreads
  <2> QED
    BY <2>3, <2>5, <2>6, <2>7, <2>8, <2>9 DEF VcpuInv
<1>7. CASE Head(rx) # "Failed" /\ action.kind # "Hotunplug"
  <2>1. action' = NoAction /\ action'.kind = "None" /\ UNCHANGED <<vmm, hist>>
    BY <1>7 DEF process_cpu_action, NoAction
  <2>2. VcpuType'
    BY <1>1, <1>3, <2>1 DEF VcpuInv, VcpuType, NoAction
  <2>3. Sure' = Sure
    BY <1>1, <2>1 DEF Sure
  <2>4. NoGap' /\ VmmPlace' /\ Trial' /\ Target' /\ TidsInOrder'
   
      BY <1>1, <1>4, <2>1, <2>3 DEF VcpuInv, NoGap, VmmPlace, Trial, Target, TidsInOrder,
          OnTrial, Stopping
  <2>5. GaveUp' /\ ClientIdle'
    BY <1>1, <1>2, <2>1 DEF VcpuInv, GaveUp, ClientIdle
  <2>6. OneAnswerPending'
    BY <1>1, <1>2, <1>3, <2>1 DEF OneAnswerPending
  <2>7. OnlineHaveThreads'
    BY <1>1, <2>1 DEF VcpuInv, OnlineHaveThreads
  <2> QED
    BY <2>2, <2>4, <2>5, <2>6, <2>7 DEF VcpuInv
<1> QED
  BY <1>5, <1>6, <1>7

\* All threads are told to exit.
LEMMA VcpuInvStop ==
  ASSUME VcpuInv, stop
  PROVE  VcpuInv'
<1> PICK k : k = Present
  OBVIOUS
<1>1. k \in Nat /\ MaxVcpus \in Nat /\ k <= MaxVcpus /\ handles = 0 .. k - 1
  BY PresentBound
<1>2. Walk(handles) = Up(0, k)
  BY <1>1, WalkUp
<1>3. Up(0, k) \in Seq(Vcpus)
  <2>1. Up(0, k) \in Seq(0 .. k - 1)
    BY <1>1, UpFacts
  <2> QED
    BY <1>1, <2>1 DEF Vcpus
<1>4. /\ vmm.pc = "idle" /\ vmm.then = "none"
      /\ vmm' = [pc |-> "join", ids |-> Up(0, k), then |-> "stop"]
      /\ client' = [client EXCEPT !.stream = FALSE, !.timer = FALSE]
      /\ UNCHANGED <<handles, tids, action, rx, guest, hist>>
  BY <1>2 DEF stop, exit_vcpus, VcpuInv, VmmPlace
<1>5. /\ client' \in ClientType /\ client'.callback = client.callback /\ client'.state = client.state
      /\ Present' = k
  BY <1>4, Zenon DEF VcpuInv, VcpuType, ClientType, Present
<1>6. VcpuType'
  BY <1>3, <1>4, <1>5 DEF VcpuInv, VcpuType
<1>7. NoGap' /\ VmmPlace' /\ Trial'
  BY <1>4, <1>5 DEF VcpuInv, NoGap, VmmPlace, Trial, OnTrial
<1>8. Target' /\ TidsInOrder' /\ GaveUp' /\ OnlineHaveThreads'
  BY <1>4 DEF Target, TidsInOrder, GaveUp, OnlineHaveThreads, Stopping
<1>9. ClientIdle' /\ OneAnswerPending'
  BY <1>4, <1>5 DEF VcpuInv, ClientIdle, OneAnswerPending, is_ready
<1> QED
  BY <1>6, <1>7, <1>8, <1>9 DEF VcpuInv

-----------------------------------------------------------------------------
\* What every caller of exit_vcpus finds when the threads have ended.
LEMMA JoinLeaves ==
  ASSUME VcpuInv, JoinVcpus, NEW k \in Nat, NEW m \in 0 .. k,
         handles = 0 .. k - 1, k <= MaxVcpus, Range(vmm.ids) = m .. k - 1
  PROVE  /\ handles' = 0 .. m - 1 /\ Present' = m /\ handles' \subseteq Vcpus
         /\ tids' \in Seq(Vcpus)
         /\ UNCHANGED <<rx, client, guest, hist>>
<1>1. /\ handles' = handles \ Range(vmm.ids)
      /\ tids' = IF Len(vmm.ids) <= Len(tids) THEN SubSeq(tids, 1, Len(tids) - Len(vmm.ids)) ELSE tids
      /\ UNCHANGED <<rx, client, guest, hist>>
  BY DEF JoinVcpus
<1>2. handles' = 0 .. m - 1
  BY <1>1
<1>3. Present' = m
  BY <1>2, CardBelow DEF Present
<1>4. handles' \subseteq Vcpus
  BY <1>1 DEF VcpuInv, VcpuType
<1>5. tids' \in Seq(Vcpus)
  <2>1. tids \in Seq(Vcpus) /\ Len(vmm.ids) \in Nat
    BY DEF VcpuInv, VcpuType
  <2> QED
    BY <1>1, <2>1
<1> QED
  BY <1>1, <1>2, <1>3, <1>4, <1>5

\* The threads have ended: those of a removal are gone with their ids, which are the last
\* of the list, and the guest had given them up.
LEMMA VcpuInvJoin ==
  ASSUME VcpuInv, JoinVcpus
  PROVE  VcpuInv'
<1> PICK k : k = Present
  OBVIOUS
<1>1. k \in Nat /\ MaxVcpus \in Nat /\ k <= MaxVcpus /\ handles = 0 .. k - 1
  BY PresentBound
<1>2. vmm.pc = "join" /\ vmm.then \in {"rollback", "unplug", "stop"}
  BY DEF JoinVcpus, VcpuInv, VcpuType, VmmPlace
<1>3. CASE vmm.then = "rollback"
  <2>1. PICK m \in 0 .. k : vmm.ids = Up(m, k) /\ Sure \subseteq 0 .. m - 1
    BY <1>3 DEF VcpuInv, Trial, OnTrial
  <2>2. action.kind = "None" /\ hist.rolled
    BY <1>3 DEF VcpuInv, Trial, OnTrial, VmmPlace
  <2>3. Range(vmm.ids) = m .. k - 1
    BY <1>1, <2>1, UpFacts
  <2>4. /\ handles' = 0 .. m - 1 /\ Present' = m /\ handles' \subseteq Vcpus
        /\ tids' \in Seq(Vcpus)
        /\ UNCHANGED <<rx, client, guest, hist>>
    BY <1>1, <2>3, JoinLeaves
  <2>5. action' = action /\ vmm' = Idle
    BY <1>3 DEF JoinVcpus
  <2>6. vmm'.then = "none" /\ vmm'.pc = "idle"
    BY <2>5 DEF Idle
  <2>7. VcpuType'
    BY <2>4, <2>5 DEF VcpuInv, VcpuType, Idle
  <2>8. NoGap' /\ VmmPlace' /\ Trial' /\ Target' /\ TidsInOrder'
    BY <2>2, <2>4, <2>5, <2>6 DEF NoGap, VmmPlace, Trial, Target, TidsInOrder, OnTrial
  <2>9. GaveUp' /\ ClientIdle'
    BY <2>2, <2>4, <2>5 DEF VcpuInv, GaveUp, ClientIdle
  <2>10. OneAnswerPending'
    BY <1>3, <2>4, <2>5, <2>6 DEF VcpuInv, OneAnswerPending
  <2>11. OnlineHaveThreads'
    BY <2>1, <2>4 DEF OnlineHaveThreads, Sure
  <2> QED
    BY <2>7, <2>8, <2>9, <2>10, <2>11 DEF VcpuInv
<1>4. CASE vmm.then = "unplug"
  <2>1. ~Stopping /\ ~OnTrial /\ vmm.ids = action.ids /\ action.kind = "Hotunplug"
    BY <1>2, <1>4 DEF VcpuInv, VmmPlace, Stopping, OnTrial
  <2>2. PICK m \in 0 .. k : vmm.ids = Down(m, k)
    BY <2>1 DEF VcpuInv, Target
  <2>3. Range(vmm.ids) = m .. k - 1 /\ Len(vmm.ids) = k - m
    <3>1. m \in Nat /\ k \in Nat /\ m <= k
      BY <1>1
    <3>2. Range(Down(m, k)) = m .. k - 1 /\ Len(Down(m, k)) = k - m
      BY <3>1, DownFacts
    <3> QED
      BY <2>2, <3>2
  <2>4. /\ handles' = 0 .. m - 1 /\ Present' = m /\ handles' \subseteq Vcpus
        /\ tids' \in Seq(Vcpus)
        /\ UNCHANGED <<rx, client, guest, hist>>
    BY <1>1, <2>3, JoinLeaves
  <2>5. action' = NoAction /\ vmm' = Idle
    BY <1>4 DEF JoinVcpus
  <2>6. vmm'.then = "none" /\ vmm'.pc = "idle" /\ action'.kind = "None"
    BY <2>5 DEF Idle, NoAction
  <2>7. VcpuType'
    BY <2>4, <2>5 DEF VcpuInv, VcpuType, Idle, NoAction
  <2>8. ~hist.rolled => tids' = Up(0, m)
    <3> HAVE ~hist.rolled
    <3>1. tids = Up(0, k)
      BY <2>1 DEF VcpuInv, TidsInOrder
    <3>2. Len(tids) = k - 0
      BY <1>1, <3>1, UpFacts
    <3>3. tids' = SubSeq(Up(0, k), 1, k - (k - m))
      BY <1>1, <2>3, <3>1, <3>2 DEF JoinVcpus
    <3>4. k - (k - m) = m - 0 /\ 0 \in Nat /\ m \in Nat /\ k \in Nat /\ 0 <= m /\ m <= k
      BY <1>1
    <3>5. SubSeq(Up(0, k), 1, m - 0) = Up(0, m)
      BY <3>4, UpSplit, ZenonT(40)
    <3> QED
      BY <3>3, <3>4, <3>5
  <2>9. NoGap' /\ VmmPlace' /\ Trial' /\ Target' /\ TidsInOrder'
    BY <2>4, <2>6, <2>8 DEF NoGap, VmmPlace, Trial, Target, TidsInOrder, OnTrial
  <2>10. Len(rx) = 0 /\ client.callback # "cpu" /\ ~hist.refused
    <3>1. Len(rx) \in Nat
      BY DEF VcpuInv, VcpuType
    <3> QED
      BY <1>4, <3>1 DEF VcpuInv, OneAnswerPending
  <2>11. GaveUp' /\ ClientIdle'
    BY <2>4, <2>6, <2>10 DEF VcpuInv, GaveUp, ClientIdle
  <2>12. OneAnswerPending'
    BY <2>4, <2>6, <2>10 DEF OneAnswerPending
  <2>13. OnlineHaveThreads'
    <3>1. Range(action.ids) \cap Sure = {}
      BY <1>4, <2>1 DEF VcpuInv, GaveUp
    <3>2. Sure \subseteq handles
      BY <2>1 DEF VcpuInv, OnlineHaveThreads, Stopping, Sure
    <3>3. Sure \subseteq handles'
      BY <2>1, <3>1, <3>2 DEF JoinVcpus
    <3> QED
      BY <2>4, <3>3 DEF OnlineHaveThreads, Sure
  <2> QED
    BY <2>7, <2>9, <2>11, <2>12, <2>13 DEF VcpuInv
<1>5. CASE vmm.then = "stop"
  <2>1. vmm.ids = Up(0, k)
    BY <1>5 DEF VcpuInv, VmmPlace
  <2>2. Range(vmm.ids) = 0 .. k - 1
    BY <1>1, <2>1, UpFacts
  <2>3. /\ handles' = 0 .. 0 - 1 /\ Present' = 0 /\ handles' \subseteq Vcpus
        /\ tids' \in Seq(Vcpus)
        /\ UNCHANGED <<rx, client, guest, hist>>
    BY <1>1, <2>2, JoinLeaves
  <2>4. action' = action /\ vmm' = [Idle EXCEPT !.pc = "stopped"]
    BY <1>5 DEF JoinVcpus
  <2>5. vmm'.then = "none" /\ vmm'.pc = "stopped"
    BY <2>4 DEF Idle
  <2>6. VcpuType'
    <3>1. vmm' \in [pc : {"idle", "tids", "join", "stopped"}, ids : Seq(Vcpus),
                    then : {"none", "rollback", "unplug", "stop"}]
      <4>1. vmm' = [pc |-> "stopped", ids |-> <<>>, then |-> "none"]
        BY <2>4 DEF Idle
      <4> QED
        BY <4>1
    <3> QED
      BY <2>3, <2>4, <3>1 DEF VcpuInv, VcpuType
  <2>7. NoGap' /\ VmmPlace' /\ Trial' /\ Target' /\ TidsInOrder'
    BY <2>3, <2>5 DEF NoGap, VmmPlace, Trial, Target, TidsInOrder, OnTrial, Stopping
  <2>8. GaveUp' /\ ClientIdle' /\ OnlineHaveThreads'
    BY <2>3, <2>4, <2>5 DEF VcpuInv, GaveUp, ClientIdle, OnlineHaveThreads, Stopping
  <2>9. OneAnswerPending'
    BY <1>5, <2>3, <2>4, <2>5, Zenon DEF VcpuInv, OneAnswerPending
  <2> QED
    BY <2>6, <2>7, <2>8, <2>9 DEF VcpuInv
<1> QED
  BY <1>2, <1>3, <1>4, <1>5

\* A device uses the client only when no resize does.
LEMMA VcpuInvDevice ==
  ASSUME VcpuInv, call_hotplug_device
  PROVE  VcpuInv'
<1>1. PICK cb \in {"none", "dev"} : client' = send_request(client, cb)
  BY DEF call_hotplug_device
<1>2. vmm.pc = "idle" /\ is_ready(client) /\ UNCHANGED <<handles, tids, action, rx, vmm, guest, hist>>
  BY DEF call_hotplug_device, host
<1>3. /\ client' \in ClientType /\ client'.callback # "cpu" /\ client'.state = "ServiceBusy"
      /\ client.callback # "cpu"
  BY <1>1, <1>2, ZenonT(40) DEF VcpuInv, VcpuType, ClientType, ClientIdle, send_request, is_ready
<1>4. VcpuType'
  BY <1>2, <1>3 DEF VcpuInv, VcpuType
<1>5. NoGap' /\ VmmPlace' /\ Trial' /\ Target' /\ TidsInOrder'
  BY <1>2 DEF VcpuInv, NoGap, VmmPlace, Trial, Target, TidsInOrder, OnTrial, Stopping, Present, Sure
<1>6. GaveUp' /\ ClientIdle'
  BY <1>2, <1>3 DEF VcpuInv, GaveUp, ClientIdle, Stopping, Sure, is_ready
<1>7. OneAnswerPending' /\ OnlineHaveThreads'
  BY <1>2, <1>3 DEF VcpuInv, OneAnswerPending, OnlineHaveThreads
<1> QED
  BY <1>4, <1>5, <1>6, <1>7 DEF VcpuInv

\* A new attempt to connect leaves the callback alone.
LEMMA VcpuInvReconnect ==
  ASSUME VcpuInv, ReconnectEvent
  PROVE  VcpuInv'
<1>1. /\ vmm.pc = "idle" /\ UNCHANGED <<handles, tids, action, rx, vmm, guest, hist>>
      /\ client' \in handle_reconnect_event(client)
  BY DEF ReconnectEvent, host
<1>2. client' \in ClientType /\ client'.callback = client.callback /\ client'.state = client.state
  <2>1. PICK d : d = [client EXCEPT !.in_reconnect = FALSE, !.timer = FALSE]
    OBVIOUS
  <2>2. d \in ClientType /\ d.callback = client.callback /\ d.state = client.state
    BY <2>1, Zenon DEF VcpuInv, VcpuType, ClientType
  <2>3. client' = [d EXCEPT !.stream = TRUE] \/ client' = set_reconnect(d)
    BY <1>1, <2>1 DEF handle_reconnect_event
  <2>4. CASE client' = [d EXCEPT !.stream = TRUE]
    BY <2>2, <2>4, ZenonT(40) DEF ClientType
  <2>5. CASE client' = set_reconnect(d)
    BY <2>2, <2>5, SetReconnect
  <2> QED
    BY <2>3, <2>4, <2>5
<1>3. VcpuType'
  BY <1>1, <1>2 DEF VcpuInv, VcpuType
<1>4. NoGap' /\ VmmPlace' /\ Trial' /\ Target' /\ TidsInOrder'
 
    BY <1>1, <1>2 DEF VcpuInv, NoGap, VmmPlace, Trial, Target, TidsInOrder, OnTrial, Stopping,
        Present, Sure
<1>5. GaveUp' /\ ClientIdle'
  BY <1>1, <1>2 DEF VcpuInv, GaveUp, ClientIdle, Stopping, Sure, is_ready
<1>6. OneAnswerPending' /\ OnlineHaveThreads'
  BY <1>1, <1>2, Zenon DEF VcpuInv, OneAnswerPending, OnlineHaveThreads
<1> QED
  BY <1>3, <1>4, <1>5, <1>6 DEF VcpuInv

-----------------------------------------------------------------------------
\* The callback is called once, with the answer or with a reset, and is gone then.
LEMMA VcpuInvStream ==
  ASSUME VcpuInv, StreamEvent
  PROVE  VcpuInv'
<1>1. /\ vmm.pc = "idle" /\ guest.msg # "none" /\ ~is_ready(client)
      /\ guest' = [guest EXCEPT !.msg = IF @ = "bad" /\ client'.stream THEN "bad" ELSE "none"]
      /\ UNCHANGED <<handles, tids, action, vmm>>
  BY DEF StreamEvent
<1>2. PICK r \in handle_stream_event(client, guest.msg) :
        /\ client' = r.client
        /\ rx' = rx \o StateEvents(r.told)
        /\ hist' = IF r.told = <<"cpu", "UpcallReset">> /\ action.kind = "Hotunplug"
                   THEN [hist EXCEPT !.unsure = @ \cup Range(action.ids)] ELSE hist
  BY Zenon DEF StreamEvent
<1>3. /\ client' \in ClientType
      /\ \/ /\ guest.msg = "bad" /\ r.told = <<client.callback, "UpcallReset">>
            /\ client'.callback = "none" /\ client'.state = "WaitingServer"
         \/ /\ guest.msg # "bad" /\ r.told = <<"none", "none">>
            /\ client'.callback = client.callback /\ client.callback # "cpu"
         \/ /\ guest.msg # "bad" /\ client'.callback = "none"
            /\ r.told = <<client.callback, IF guest.msg = "ok" THEN "Success" ELSE "Failed">>
  <2>1. client \in ClientType /\ guest.msg \in {"ok", "fail", "bad"}
    BY <1>1 DEF VcpuInv, VcpuType
  <2>2. client.callback = "cpu" => client.state = "ServiceBusy"
    BY DEF VcpuInv, ClientIdle
  <2> QED
    BY <1>1, <1>2, <2>1, <2>2, ReadStream
<1>4. /\ vmm.then = "none" /\ rx \in Seq({"Success", "Failed"}) /\ Len(rx) \in Nat
      /\ Range(action.ids) \subseteq Vcpus
  <2>1. action.ids \in Seq(Vcpus)
    BY DEF VcpuInv, VcpuType
  <2>2. Range(action.ids) \subseteq Vcpus
    BY <2>1 DEF Range
  <2> QED
    BY <1>1, <2>2 DEF VcpuInv, VcpuType, VmmPlace
<1>5. /\ hist'.rolled = hist.rolled /\ hist'.refused = hist.refused
      /\ hist.unsure \subseteq hist'.unsure
      /\ hist' \in [rolled : BOOLEAN, refused : BOOLEAN, unsure : SUBSET Vcpus]
  BY <1>2, <1>4, Zenon DEF VcpuInv, VcpuType
<1>6. /\ guest'.online = guest.online /\ guest'.msg \in {"none", "bad"}
      /\ guest' \in [msg : {"none", "ok", "fail", "bad"}, online : SUBSET Vcpus]
  BY <1>1, Zenon DEF VcpuInv, VcpuType
<1>7. Sure' \subseteq Sure
  BY <1>5, <1>6 DEF Sure
<1>8. client'.callback # "cpu"
  BY <1>3
<1>9. Present' = Present
  BY <1>1 DEF Present
<1>10. NoGap' /\ VmmPlace' /\ Trial' /\ Target' /\ TidsInOrder'
 
    BY <1>1, <1>4, <1>5, <1>9 DEF VcpuInv, NoGap, VmmPlace, Trial, Target, TidsInOrder, OnTrial,
        Stopping
<1>11. ClientIdle'
  BY <1>1, <1>5, <1>6, <1>8 DEF VcpuInv, ClientIdle
<1>12. OnlineHaveThreads'
  BY <1>1, <1>4, <1>7 DEF VcpuInv, VmmPlace, OnlineHaveThreads, Sure
<1>13. CASE client.callback # "cpu"
  <2>1. r.told[1] # "cpu" /\ r.told # <<"cpu", "UpcallReset">>
    BY <1>3, <1>13
  <2>2. StateEvents(r.told) = <<>>
    BY <2>1 DEF StateEvents
  <2>3. rx' = rx
    BY <1>2, <1>4, <2>2
  <2>4. VcpuType'
    BY <1>1, <1>3, <1>5, <1>6, <2>3, Zenon DEF VcpuInv, VcpuType
  <2>5. GaveUp'
    BY <1>1, <1>7, <1>8, <2>3 DEF VcpuInv, GaveUp, Stopping
  <2>6. OneAnswerPending'
    BY <1>1, <1>5, <1>8, <1>13, <2>3 DEF VcpuInv, OneAnswerPending
  <2> QED
    BY <1>10, <1>11, <1>12, <2>4, <2>5, <2>6 DEF VcpuInv
<1>14. CASE client.callback = "cpu"
  <2>1. Len(rx) = 0 /\ rx = <<>> /\ action.kind # "None" /\ ~hist.refused
    BY <1>4, <1>14 DEF VcpuInv, OneAnswerPending
  <2>2. PICK w \in {"Success", "Failed"} :
          /\ StateEvents(r.told) = <<w>>
          /\ w = "Success" => guest.msg = "ok" \/ r.told = <<"cpu", "UpcallReset">>
    <3>1. CASE guest.msg = "bad"
      <4>1. r.told = <<"cpu", "UpcallReset">>
        BY <1>3, <1>14, <3>1
      <4>2. StateEvents(r.told) = <<"Success">>
        BY <4>1 DEF StateEvents
      <4> QED
        BY <4>1, <4>2
    <3>2. CASE guest.msg # "bad"
      <4>1. r.told = <<"cpu", IF guest.msg = "ok" THEN "Success" ELSE "Failed">>
        BY <1>3, <1>14, <3>2
      <4>2. CASE guest.msg = "ok"
        <5>1. r.told[1] = "cpu" /\ r.told[2] = "Success"
          BY <4>1, <4>2
        <5>2. StateEvents(r.told) = <<"Success">>
          BY <5>1 DEF StateEvents
        <5> QED
          BY <4>2, <5>2
      <4>3. CASE guest.msg # "ok"
        <5>1. r.told[1] = "cpu" /\ r.told[2] = "Failed"
          BY <4>1, <4>3
        <5>2. StateEvents(r.told) = <<"Failed">>
          BY <5>1 DEF StateEvents
        <5> QED
          BY <5>2
      <4> QED
        BY <4>2, <4>3
    <3> QED
      BY <3>1, <3>2
  <2>3. rx' = <<w>> /\ Len(rx') = 1 /\ Head(rx') = w /\ rx' \in Seq({"Success", "Failed"})
    <3>1. rx' = <<>> \o <<w>>
      BY <1>2, <2>1, <2>2
    <3> QED
      BY <3>1
  <2>4. VcpuType'
    BY <1>1, <1>3, <1>5, <1>6, <2>3, Zenon DEF VcpuInv, VcpuType
  <2>5. GaveUp'
    <3> SUFFICES ASSUME action.kind = "Hotunplug", w = "Success"
                 PROVE  Range(action.ids) \cap Sure' = {}
      BY <1>1, <1>4, <1>8, <2>3 DEF GaveUp
    <3>1. CASE guest.msg = "ok"
      <4>1. Range(action.ids) \cap Sure = {}
        BY <1>1, <1>4, <1>14, <3>1 DEF VcpuInv, GaveUp, Stopping
      <4> QED
        BY <1>7, <4>1
    <3>2. CASE r.told = <<"cpu", "UpcallReset">>
      <4>1. hist'.unsure = hist.unsure \cup Range(action.ids)
        BY <1>2, <3>2 DEF VcpuInv, VcpuType
      <4> QED
        BY <4>1 DEF Sure
    <3> QED
      BY <2>2, <3>1, <3>2
  <2>6. OneAnswerPending'
    BY <1>1, <1>4, <1>5, <1>8, <2>1, <2>3 DEF OneAnswerPending
  <2> QED
    BY <1>10, <1>11, <1>12, <2>4, <2>5, <2>6 DEF VcpuInv
<1> QED
  BY <1>13, <1>14

\* A broken connection adds no answer.
LEMMA VcpuInvBreak ==
  ASSUME VcpuInv, StreamBreaks
  PROVE  VcpuInv'
<1>1. /\ guest' = [guest EXCEPT !.msg = "bad"]
      /\ UNCHANGED <<handles, tids, action, rx, vmm, client, hist>>
  BY DEF StreamBreaks, host
<1>2. guest'.msg = "bad" /\ guest'.online = guest.online /\ Sure' = Sure
  BY <1>1 DEF VcpuInv, VcpuType, Sure
<1>3. VcpuType'
  BY <1>1, ZenonT(40) DEF VcpuInv, VcpuType
<1>4. NoGap' /\ VmmPlace' /\ Trial' /\ Target' /\ TidsInOrder'
  BY <1>1, <1>2 DEF VcpuInv, NoGap, VmmPlace, Trial, Target, TidsInOrder, OnTrial, Stopping, Present
<1>5. GaveUp' /\ ClientIdle'
  BY <1>1, <1>2 DEF VcpuInv, GaveUp, ClientIdle, Stopping, is_ready
<1>6. OneAnswerPending' /\ OnlineHaveThreads'
  BY <1>1, <1>2, ZenonT(40) DEF VcpuInv, OneAnswerPending, OnlineHaveThreads
<1> QED
  BY <1>3, <1>4, <1>5, <1>6 DEF VcpuInv

\* The guest brings online what has a thread, and answers a removal after giving the
\* vCPUs up.
LEMMA VcpuInvGuest ==
  ASSUME VcpuInv, GuestAnswers
  PROVE  VcpuInv'
<1> DEFINE ids == Range(action.ids)
           cpu == client.callback = "cpu"
<1>1. /\ ~is_ready(client)
      /\ UNCHANGED <<handles, tids, action, rx, vmm, client>>
  BY DEF GuestAnswers, host
<1>2. \/ /\ guest' = [msg |-> "ok",
                      online |-> IF ~cpu THEN guest.online
                                 ELSE IF action.kind = "Hotplug" THEN guest.online \cup ids
                                 ELSE guest.online \ ids]
         /\ hist' = IF cpu THEN [hist EXCEPT !.unsure = @ \ ids] ELSE hist
      \/ guest' = [guest EXCEPT !.msg = "fail"] /\ UNCHANGED hist
  BY DEF GuestAnswers, VcpuInv, ClientIdle
<1>3. ids \subseteq Vcpus
  <2>1. action.ids \in Seq(Vcpus)
    BY DEF VcpuInv, VcpuType
  <2> QED
    BY <2>1 DEF Range
<1>4. /\ hist'.rolled = hist.rolled /\ hist'.refused = hist.refused
      /\ hist' \in [rolled : BOOLEAN, refused : BOOLEAN, unsure : SUBSET Vcpus]
      /\ guest' \in [msg : {"none", "ok", "fail", "bad"}, online : SUBSET Vcpus]
  BY <1>2, <1>3 DEF VcpuInv, VcpuType
<1>5. /\ Present' = Present
      /\ cpu => ~OnTrial /\ vmm.then # "unplug" /\ Len(rx) = 0 /\ rx = <<>>
  <2>1. OnTrial => action.kind = "None"
    BY DEF VcpuInv, Trial
  <2>2. rx \in Seq({"Success", "Failed"}) /\ (Len(rx) = 0 => rx = <<>>)
    BY DEF VcpuInv, VcpuType
  <2> QED
    BY <1>1, <2>1, <2>2, Pending DEF Present
<1>6. \/ Sure' \subseteq Sure
      \/ cpu /\ action.kind = "Hotplug" /\ Sure' \subseteq Sure \cup ids
  BY <1>2 DEF Sure, VcpuInv, VcpuType
<1>7. cpu /\ guest'.msg = "ok" /\ action.kind = "Hotunplug" => ids \cap Sure' = {}
  BY <1>2 DEF Sure, VcpuInv, VcpuType
<1>8. VcpuType'
  BY <1>1, <1>4 DEF VcpuInv, VcpuType
<1>9. NoGap' /\ VmmPlace' /\ Target' /\ TidsInOrder'
  BY <1>1, <1>4, <1>5 DEF VcpuInv, NoGap, VmmPlace, Target, TidsInOrder, OnTrial, Stopping
<1>10. Trial'
  <2>1. OnTrial => Sure' \subseteq Sure
    BY <1>5, <1>6
  <2> QED
    BY <1>1, <1>4, <1>5, <2>1 DEF VcpuInv, Trial, OnTrial
<1>11. GaveUp'
  <2>1. action.kind = "Hotunplug" => Sure' \subseteq Sure
    BY <1>6
  <2> QED
    BY <1>1, <1>7, <2>1 DEF VcpuInv, GaveUp, Stopping
<1>12. ClientIdle'
  BY <1>1, <1>4 DEF VcpuInv, ClientIdle
<1>13. OneAnswerPending'
  BY <1>1, <1>4, ZenonT(40) DEF VcpuInv, OneAnswerPending
<1>14. OnlineHaveThreads'
  <2>1. ~Stopping /\ action.kind = "Hotplug" => ids \subseteq handles
    BY DEF VcpuInv, Target
  <2>2. Stopping \/ Sure \subseteq handles
    BY DEF VcpuInv, OnlineHaveThreads, Stopping, Sure
  <2>3. Stopping \/ Sure' \subseteq handles
    BY <1>6, <2>1, <2>2
  <2> QED
    BY <1>1, <2>3 DEF OnlineHaveThreads, Stopping, Sure
<1> QED
  BY <1>8, <1>9, <1>10, <1>11, <1>12, <1>13, <1>14 DEF VcpuInv

\* Every step keeps VcpuInv.
LEMMA VcpuInvNext == VcpuInv /\ [Next]_vars => VcpuInv'
<1> SUFFICES ASSUME VcpuInv, [Next]_vars PROVE VcpuInv'
  OBVIOUS
<1>1. CASE \E n \in 1 .. MaxVcpus : do_add_vcpu(n) \/ do_del_vcpu(n)
  BY <1>1, VcpuInvAdd, VcpuInvDel
<1>2. CASE VmmStep
  BY <1>2, VcpuInvTids, VcpuInvAnswer, VcpuInvStop, VcpuInvJoin, VcpuInvStream, VcpuInvReconnect
     DEF VmmStep
<1>3. CASE \E c \in Vcpus : VcpuRuns(c) \/ VcpuSignal(c) \/ VcpuStops(c)
  BY <1>3, VcpuInvQuiet DEF VcpuRuns, VcpuSignal, VcpuStops, VcpuStep
<1>4. CASE Rest \/ UNCHANGED vars
  BY <1>4, VcpuInvQuiet DEF Rest, vars
<1> QED
  BY <1>1, <1>2, <1>3, <1>4, VcpuInvDevice, VcpuInvTimeout, VcpuInvGuest, VcpuInvBreak DEF Next

\* VcpuInv holds in every state.
LEMMA VcpuInvAlways == Spec => []VcpuInv
<1> QED
  BY VcpuInvInit, VcpuInvNext, PTL DEF Spec

\* Between requests the list of thread ids that the runtime is given is the present
\* vCPUs, each once, as long as no activation was rolled back: cutting the end of the
\* list in exit_vcpus cuts the ids of the threads that ended.
THEOREM TidsArePresent == Spec => []TidsOfPresent
<1>1. VcpuInv => TidsOfPresent
  <2> SUFFICES ASSUME VcpuInv, vmm.pc = "idle", ~hist.rolled
               PROVE  Range(tids) = handles /\ Len(tids) = Cardinality(handles)
    BY DEF TidsOfPresent
  <2> PICK k : k = Present
    OBVIOUS
  <2>1. k \in Nat /\ handles = 0 .. k - 1
    BY PresentBound
  <2>2. tids = Up(0, k)
    BY DEF VcpuInv, TidsInOrder, Stopping, OnTrial, VmmPlace
  <2>3. Len(Up(0, k)) = k - 0 /\ Range(Up(0, k)) = 0 .. k - 1
    <3>1. 0 \in Nat /\ k \in Nat /\ 0 <= k
      BY <2>1
    <3> QED
      BY <3>1, UpFacts
  <2>4. k - 0 = k /\ k = Cardinality(handles)
    BY <2>1 DEF Present
  <2> QED
    BY <2>1, <2>2, <2>3, <2>4
<1> QED
  BY <1>1, VcpuInvAlways, PTL

\* The guest has no vCPU online without a thread, but for those a connection that broke
\* during their removal leaves open.
THEOREM OnlineVcpusRun == Spec => []OnlineHaveThreads
<1>1. VcpuInv => OnlineHaveThreads
  BY DEF VcpuInv
<1> QED
  BY <1>1, VcpuInvAlways, PTL

\* A resize in progress waits for exactly one thing (the callback, its event, the end of
\* the threads), and no event is waited for without one.
THEOREM ResizeWaitsOnce == Spec => []OneAnswerPending
<1>1. VcpuInv => OneAnswerPending
  BY DEF VcpuInv
<1> QED
  BY <1>1, VcpuInvAlways, PTL
=============================================================================
