------------------------- MODULE AgentStorageProofs -------------------------
(***************************************************************************)
(* The references of the agent's storages, for any number of containers    *)
(* and paths. What ties the invariants of AgentStorage together is the set *)
(* of the requests and containers that hold a reference to a path: the     *)
(* count of its entry is never below their number, and equals it once the  *)
(* entry has a named device. A request that reads a count of one is then   *)
(* the only holder, and nobody creates the device at the same time.        *)
(***************************************************************************)
EXTENDS AgentStorage, FiniteSetTheorems, TLAPS

\* The provers a step is given to, in turn, where it does not name one.
USE SMTT(10), ZenonT(20), SMTT(40)

Devs == {"vacant", "none", "path", "empty"}
CreatingPcs == {"dev", "wait", "late", "mount", "update", "drop"}
Pcs == CreatingPcs \cup {"idle", "add", "check", "live", "destroyed", "failed", "panicked", "gone"}

EntryType == {s \in [count : Nat, dev : Devs] : s.dev = "vacant" <=> s.count = 0}

TaskType ==
  [pc : Pcs, req : Seq(Paths), todo : Seq(Paths), mounts : SUBSET Paths, seen : Devs,
   count : Nat, watch : BOOLEAN, got : BOOLEAN, early : SUBSET Paths]

\* A storage is handled once, and a watcher is registered for a device that has not
\* been announced.
TaskShape(t, ue) ==
  /\ IsInjective(t.todo)
  /\ Range(t.todo) \cap t.mounts = {}
  /\ t.pc \in CreatingPcs \cup {"check"} => t.todo # <<>>
  /\ t.watch => t.pc \in {"wait", "late"} /\ ~t.got /\ Head(t.todo) \notin ue
  /\ t.pc = "wait" /\ ~t.got => t.watch
  /\ t.pc = "idle" => t.mounts = {}
  /\ t.pc \in {"live", "destroyed"} => t.todo = <<>>

StorageType ==
  /\ storages \in [Paths -> EntryType]
  /\ ready \subseteq Paths
  /\ uevents \subseteq Paths
  /\ redone \subseteq Paths
  /\ task \in [Cids -> TaskType]
  /\ \A c \in Cids : TaskShape(task[c], uevents)

\* t holds a reference to p: it will give it back, or has yet to read the count.
CreatesIn(t, p) == t.pc \in CreatingPcs /\ Head(t.todo) = p
Holds(t, p) ==
  \/ p \in t.mounts
  \/ t.pc = "check" /\ t.count = 0 /\ Head(t.todo) = p
  \/ CreatesIn(t, p)

Holders(T, p) == {c \in Cids : Holds(T[c], p)}

\* What task t knows of path p with entry s.
TaskOk(t, s, rdy, p) ==
  /\ p \in t.mounts => s.dev = "path"
  /\ t.pc = "check" /\ Head(t.todo) = p =>
       IF t.count = 0 THEN t.seen = s.dev ELSE t.seen = "none" /\ t.count > 1
  /\ CreatesIn(t, p) => s.dev = "none"
  /\ t.pc = "update" /\ Head(t.todo) = p => p \in rdy
  /\ t.pc # "gone" /\ p \in Range(t.req) \ Range(t.todo) =>
       p \in t.early \/ p \in t.mounts \/ s.dev = "empty"

EntryOk(T, s, rdy, p) ==
  /\ Cardinality(Holders(T, p)) <= s.count
  /\ s.dev = "path" => s.count = Cardinality(Holders(T, p))
  /\ s.dev = "empty" => Cardinality(Holders(T, p)) < s.count
  /\ s.dev \in {"path", "empty"} => p \in rdy
  /\ \A c \in Cids : TaskOk(T[c], s, rdy, p)
  /\ \A c, d \in Cids : CreatesIn(T[c], p) /\ CreatesIn(T[d], p) => c = d

StorageInv ==
  /\ StorageType
  /\ \A p \in Paths \ redone : EntryOk(task, storages[p], ready, p)

-----------------------------------------------------------------------------
\* The storage at the head of a request's list is taken from it once.
LEMMA TodoFacts ==
  ASSUME NEW s \in Seq(Paths), s # <<>>, IsInjective(s)
  PROVE  /\ Head(s) \in Paths /\ Tail(s) \in Seq(Paths)
         /\ Range(s) = {Head(s)} \cup Range(Tail(s))
         /\ Head(s) \notin Range(Tail(s))
         /\ IsInjective(Tail(s))
<1>1. Head(s) \in Paths /\ Tail(s) \in Seq(Paths) /\ Len(s) \in Nat \ {0} /\ Head(s) = s[1]
  OBVIOUS
<1>2. Len(Tail(s)) = Len(s) - 1 /\ \A i \in 1 .. Len(s) - 1 : Tail(s)[i] = s[i + 1]
  OBVIOUS
<1>3. DOMAIN s = 1 .. Len(s) /\ DOMAIN Tail(s) = 1 .. Len(s) - 1
  BY <1>1, <1>2
<1>4. \A i, j \in 1 .. Len(s) : s[i] = s[j] => i = j
  BY <1>3 DEF IsInjective
<1>5. Range(Tail(s)) = {s[i + 1] : i \in 1 .. Len(s) - 1}
  BY <1>2, <1>3, Zenon DEF Range
<1>6. Range(s) = {s[i] : i \in 1 .. Len(s)}
  BY <1>3 DEF Range
<1>7. Range(s) = {Head(s)} \cup Range(Tail(s))
  <2>1. \A x \in Range(s) : x \in {Head(s)} \cup Range(Tail(s))
    <3> TAKE x \in Range(s)
    <3>1. PICK i \in 1 .. Len(s) : x = s[i]
      BY <1>6
    <3>2. CASE i = 1
      BY <3>1, <3>2, <1>1
    <3>3. CASE i # 1
      <4>1. i - 1 \in 1 .. Len(s) - 1 /\ (i - 1) + 1 = i
        BY <3>3, <1>1
      <4> QED BY <4>1, <3>1, <1>5, Zenon
    <3> QED BY <3>2, <3>3
  <2>2. \A x \in Range(Tail(s)) : x \in Range(s)
    BY <1>5, <1>6, <1>1
  <2>3. Head(s) \in Range(s)
    BY <1>1, <1>6
  <2> QED BY <2>1, <2>2, <2>3
<1>8. Head(s) \notin Range(Tail(s))
  BY <1>1, <1>4, <1>5
<1>9. IsInjective(Tail(s))
  BY <1>2, <1>3, <1>4 DEF IsInjective
<1> QED BY <1>1, <1>7, <1>8, <1>9

\* Every set of holders is finite.
LEMMA HoldersFinite ==
  ASSUME NEW T, NEW p
  PROVE  IsFiniteSet(Holders(T, p)) /\ Cardinality(Holders(T, p)) \in Nat
<1>1. Holders(T, p) \subseteq Cids
  BY DEF Holders
<1>2. IsFiniteSet(Holders(T, p))
  BY <1>1, FS_Subset, StorageAssumption
<1> QED BY <1>2, FS_CardinalityType

\* A step of one task changes the number of holders by what this task does.
LEMMA HoldersStep ==
  ASSUME NEW T, NEW U, NEW p, NEW c \in Cids,
         \A d \in Cids \ {c} : Holds(U[d], p) <=> Holds(T[d], p)
  PROVE  /\ Cardinality(Holders(T, p)) \in Nat /\ Cardinality(Holders(U, p)) \in Nat
         /\ Cardinality(Holders(U, p)) = Cardinality(Holders(T, p))
              + (IF Holds(U[c], p) THEN 1 ELSE 0) - (IF Holds(T[c], p) THEN 1 ELSE 0)
<1>1. /\ IsFiniteSet(Holders(T, p)) /\ Cardinality(Holders(T, p)) \in Nat
      /\ IsFiniteSet(Holders(U, p)) /\ Cardinality(Holders(U, p)) \in Nat
  BY HoldersFinite
<1>2. (c \in Holders(T, p) <=> Holds(T[c], p)) /\ (c \in Holders(U, p) <=> Holds(U[c], p))
  BY DEF Holders
<1>3. CASE Holds(T[c], p) <=> Holds(U[c], p)
  <2>1. Holders(U, p) = Holders(T, p)
    BY <1>3 DEF Holders
  <2> QED BY <2>1, <1>1, <1>3
<1>4. CASE Holds(T[c], p) /\ ~Holds(U[c], p)
  <2>1. Holders(U, p) = Holders(T, p) \ {c}
    BY <1>4 DEF Holders
  <2>2. Cardinality(Holders(U, p)) = Cardinality(Holders(T, p)) - 1
    BY <2>1, <1>1, <1>2, <1>4, FS_RemoveElement
  <2> QED BY <2>2, <1>1, <1>4
<1>5. CASE ~Holds(T[c], p) /\ Holds(U[c], p)
  <2>1. Holders(U, p) = Holders(T, p) \cup {c}
    BY <1>5 DEF Holders
  <2>2. Cardinality(Holders(U, p)) = Cardinality(Holders(T, p)) + 1
    BY <2>1, <1>1, <1>2, <1>5, FS_AddElement
  <2> QED BY <2>2, <1>1, <1>5
<1> QED BY <1>3, <1>4, <1>5

\* A holder counts for one, and two holders for two.
LEMMA HoldersAtLeast ==
  ASSUME NEW T, NEW p, NEW c \in Cids, Holds(T[c], p)
  PROVE  /\ Cardinality(Holders(T, p)) >= 1
         /\ \A d \in Cids \ {c} : Holds(T[d], p) => Cardinality(Holders(T, p)) >= 2
<1>1. IsFiniteSet(Holders(T, p)) /\ Cardinality(Holders(T, p)) \in Nat
  BY HoldersFinite
<1>2. Cardinality({c}) = 1
  BY FS_Singleton
<1>3. {c} \subseteq Holders(T, p)
  BY DEF Holders
<1>4. Cardinality({c}) <= Cardinality(Holders(T, p))
  BY <1>1, <1>3, FS_Subset
<1>5. ASSUME NEW d \in Cids \ {c}, Holds(T[d], p)
      PROVE  Cardinality(Holders(T, p)) >= 2
  <2>1. {c} \cup {d} \subseteq Holders(T, p)
    BY <1>5 DEF Holders
  <2>2. Cardinality({c} \cup {d}) = 2
    <3>1. IsFiniteSet({c}) /\ d \notin {c}
      BY <1>5, FS_Singleton, Zenon
    <3>2. Cardinality({c} \cup {d}) = Cardinality({c}) + 1
      BY <3>1, FS_AddElement
    <3> QED BY <3>2, <1>2
  <2>3. Cardinality({c} \cup {d}) <= Cardinality(Holders(T, p))
    BY <1>1, <2>1, FS_Subset
  <2> QED BY <2>2, <2>3, <1>1
<1> QED BY <1>1, <1>2, <1>4, <1>5

\* A path is not affected by a step that leaves its entry alone, does not unmount it,
\* and in which only one task moves; it may forget a reference that it will not give
\* back, unless the device of the entry has a name.
LEMMA EntryFrame ==
  ASSUME NEW T, NEW U, NEW s \in EntryType, NEW rdy, NEW rdyn, NEW p, NEW c \in Cids,
         EntryOk(T, s, rdy, p),
         \A d \in Cids \ {c} : U[d] = T[d],
         p \in rdy => p \in rdyn,
         Holds(U[c], p) => Holds(T[c], p),
         s.dev = "path" /\ Holds(T[c], p) => Holds(U[c], p),
         CreatesIn(U[c], p) => CreatesIn(T[c], p),
         TaskOk(U[c], s, rdyn, p)
  PROVE  EntryOk(U, s, rdyn, p)
<1> DEFINE n == Cardinality(Holders(T, p))
           m == Cardinality(Holders(U, p))
<1>1. n \in Nat /\ m \in Nat /\ s.count \in Nat
  BY HoldersFinite DEF EntryType
<1>2. m = n + (IF Holds(U[c], p) THEN 1 ELSE 0) - (IF Holds(T[c], p) THEN 1 ELSE 0)
  BY HoldersStep
<1>3. m <= n /\ (s.dev = "path" => m = n)
  BY <1>1, <1>2
<1>4. \A d \in Cids : TaskOk(U[d], s, rdyn, p)
  BY DEF EntryOk, TaskOk
<1>5. \A a, d \in Cids : CreatesIn(U[a], p) /\ CreatesIn(U[d], p) => a = d
  BY DEF EntryOk
<1>6. n <= s.count /\ (s.dev = "path" => s.count = n) /\ (s.dev = "empty" => n < s.count)
  BY DEF EntryOk
<1>7. m <= s.count /\ (s.dev = "path" => s.count = m) /\ (s.dev = "empty" => m < s.count)
  BY <1>1, <1>3, <1>6
<1> QED BY <1>4, <1>5, <1>7 DEF EntryOk

-----------------------------------------------------------------------------
\* A storage that is done is off the list.
LEMMA DoneType ==
  ASSUME NEW t \in TaskType, NEW dev \in Devs, NEW ue, TaskShape(t, ue),
         t.pc \in {"check", "update"}
  PROVE  /\ Done(t, dev) \in TaskType /\ TaskShape(Done(t, dev), ue)
         /\ Done(t, dev).pc = "add"
         /\ Done(t, dev).mounts = IF dev = "path" THEN t.mounts \cup {Head(t.todo)} ELSE t.mounts
         /\ Done(t, dev).early = IF dev = "none" THEN t.early \cup {Head(t.todo)} ELSE t.early
         /\ Done(t, dev).req = t.req
         /\ Range(t.todo) = {Head(t.todo)} \cup Range(Done(t, dev).todo)
<1>1. t.todo \in Seq(Paths) /\ t.todo # <<>> /\ IsInjective(t.todo) /\ ~t.watch
  BY DEF TaskType, TaskShape, CreatingPcs
<1>2. /\ Head(t.todo) \in Paths /\ Tail(t.todo) \in Seq(Paths)
      /\ Range(t.todo) = {Head(t.todo)} \cup Range(Tail(t.todo))
      /\ Head(t.todo) \notin Range(Tail(t.todo)) /\ IsInjective(Tail(t.todo))
  BY <1>1, TodoFacts
<1>3. /\ Done(t, dev).pc = "add" /\ Done(t, dev).todo = Tail(t.todo)
      /\ Done(t, dev).mounts = IF dev = "path" THEN t.mounts \cup {Head(t.todo)} ELSE t.mounts
      /\ Done(t, dev).early = IF dev = "none" THEN t.early \cup {Head(t.todo)} ELSE t.early
      /\ Done(t, dev).req = t.req /\ Done(t, dev).watch = t.watch
  BY DEF Done, TaskType
<1>4. Done(t, dev) \in TaskType
  BY <1>2, ZenonT(40) DEF Done, TaskType, Pcs
<1>5. TaskShape(Done(t, dev), ue)
  <2>1. IsInjective(Done(t, dev).todo)
    BY <1>2, <1>3
  <2>2. Range(Done(t, dev).todo) \cap Done(t, dev).mounts = {}
    BY <1>2, <1>3 DEF TaskShape
  <2> QED BY <1>1, <1>3, <2>1, <2>2 DEF TaskShape, CreatingPcs
<1> QED BY <1>2, <1>3, <1>4, <1>5

\* The sets and records of the state keep their types, whatever the step.
LEMMA ReleaseType ==
  ASSUME storages \in [Paths -> EntryType], NEW ps
  PROVE  Release(ps) \in [Paths -> EntryType]
<1>1. ASSUME NEW p \in Paths
      PROVE  Release(ps)[p] \in EntryType
  <2>1. storages[p] \in EntryType /\ storages[p].count \in Nat
    BY DEF EntryType
  <2>2. Vacant \in EntryType
    BY DEF Vacant, EntryType, Devs
  <2>3. CASE p \notin ps \/ storages[p].dev = "vacant"
    BY <2>1, <2>3 DEF Release
  <2>4. CASE ~(p \notin ps \/ storages[p].dev = "vacant") /\ storages[p].count = 1
    BY <2>2, <2>4 DEF Release
  <2>5. CASE ~(p \notin ps \/ storages[p].dev = "vacant") /\ storages[p].count # 1
    <3> DEFINE e == [storages[p] EXCEPT !.count = @ - 1]
    <3>1. Release(ps)[p] = e
      BY <2>5 DEF Release
    <3>2. storages[p].count - 1 \in Nat /\ storages[p].count - 1 # 0
      BY <2>1, <2>5 DEF EntryType
    <3>3. e \in [count : Nat, dev : Devs] /\ e.count = storages[p].count - 1 /\ e.dev = storages[p].dev
      BY <2>1, <3>2 DEF EntryType
    <3> HIDE DEF e
    <3> QED BY <3>1, <3>2, <3>3, <2>5 DEF EntryType
  <2> QED BY <2>3, <2>4, <2>5
<1> QED BY <1>1 DEF Release

-----------------------------------------------------------------------------
\* What a step of one task has to show.
LEMMA TaskStep ==
  ASSUME StorageInv, NEW c \in Cids,
         task' \in [Cids -> TaskType], \A d \in Cids \ {c} : task'[d] = task[d],
         TaskShape(task'[c], uevents), uevents' = uevents,
         storages' \in [Paths -> EntryType], ready' \subseteq Paths, redone' \subseteq Paths,
         \A p \in Paths \ redone' : EntryOk(task', storages'[p], ready', p)
  PROVE  StorageInv'
<1>1. \A d \in Cids : TaskShape(task'[d], uevents)
  BY DEF StorageInv, StorageType
<1> QED BY <1>1 DEF StorageInv, StorageType

\* What a step of one task has to show that leaves the entries alone.
LEMMA QuietStep ==
  ASSUME StorageInv, NEW c \in Cids,
         task' \in [Cids -> TaskType], \A d \in Cids \ {c} : task'[d] = task[d],
         TaskShape(task'[c], uevents), uevents' = uevents, storages' = storages,
         ready \subseteq ready', ready' \subseteq Paths,
         redone \subseteq redone', redone' \subseteq Paths,
         \A p \in Paths \ redone' :
           /\ Holds(task'[c], p) => Holds(task[c], p)
           /\ storages[p].dev = "path" /\ Holds(task[c], p) => Holds(task'[c], p)
           /\ CreatesIn(task'[c], p) => CreatesIn(task[c], p)
           /\ TaskOk(task'[c], storages[p], ready', p)
  PROVE  StorageInv'
<1>1. ASSUME NEW p \in Paths \ redone'
      PROVE  EntryOk(task', storages[p], ready', p)
  <2>1. EntryOk(task, storages[p], ready, p) /\ storages[p] \in EntryType
    BY DEF StorageInv, StorageType
  <2> QED BY <2>1, EntryFrame, ZenonT(40)
<1>2. storages' \in [Paths -> EntryType]
  BY DEF StorageInv, StorageType
<1> QED BY <1>1, <1>2, TaskStep

\* A task that moves on with what it has.
LEMMA GoStep ==
  ASSUME StorageInv, NEW c \in Cids, NEW pc \in Pcs, Go(c, pc), UNCHANGED <<storages, uevents, redone>>,
         ready \subseteq ready', ready' \subseteq Paths,
         pc \notin {"check", "idle", "gone"}, task[c].pc \notin {"check", "gone"},
         pc = "update" => Path(c) \in ready',
         pc \in CreatingPcs => task[c].pc \in CreatingPcs,
         task[c].watch => pc = "late", pc = "wait" => task[c].got,
         pc \in {"live", "destroyed"} => task[c].todo = <<>>
  PROVE  StorageInv'
<1> DEFINE t == task[c]
           u == task'[c]
<1>1. t \in TaskType /\ TaskShape(t, uevents)
  BY DEF StorageInv, StorageType
<1>2. /\ task' \in [Cids -> TaskType] /\ \A d \in Cids \ {c} : task'[d] = task[d]
      /\ u.pc = pc /\ u.req = t.req /\ u.todo = t.todo /\ u.mounts = t.mounts
      /\ u.watch = t.watch /\ u.got = t.got /\ u.early = t.early
  BY ZenonT(40) DEF Go, StorageInv, StorageType, TaskType
<1>3. TaskShape(u, uevents)
  BY <1>1, <1>2 DEF TaskShape
<1>4. ASSUME NEW p \in Paths \ redone'
      PROVE  /\ Holds(u, p) => Holds(t, p)
             /\ storages[p].dev = "path" /\ Holds(t, p) => Holds(u, p)
             /\ CreatesIn(u, p) => CreatesIn(t, p)
             /\ TaskOk(u, storages[p], ready', p)
  <2>1. TaskOk(t, storages[p], ready, p)
    BY DEF StorageInv, EntryOk
  <2>2. CreatesIn(u, p) => CreatesIn(t, p)
    BY <1>2 DEF CreatesIn
  <2>3. Holds(u, p) => Holds(t, p)
    BY <1>2, <2>2 DEF Holds
  <2>4. storages[p].dev = "path" /\ Holds(t, p) => Holds(u, p)
    BY <1>2, <2>1 DEF Holds, TaskOk
  <2>5. TaskOk(u, storages[p], ready', p)
    BY <1>2, <2>1, <2>2 DEF TaskOk, Path
  <2> QED BY <2>2, <2>3, <2>4, <2>5
<1>5. redone' \subseteq Paths
  BY DEF StorageInv, StorageType
<1> HIDE DEF t, u
<1> QED BY <1>2, <1>3, <1>4, <1>5, QuietStep DEF t, u

\* do_create_container: a task starts with nothing.
LEMMA CreateInv ==
  ASSUME StorageInv, NEW c \in Cids, do_create_container(c), UNCHANGED redone
  PROVE  StorageInv'
<1> DEFINE t == task[c]
<1>1. t \in TaskType /\ TaskShape(t, uevents) /\ task \in [Cids -> TaskType]
  BY DEF StorageInv, StorageType
<1>2. PICK r \in Requests :
        task' = [task EXCEPT ![c] = [Idle EXCEPT !.pc = "add", !.req = r, !.todo = r]]
  BY Zenon DEF do_create_container
<1>3. r \in Seq(Paths) /\ IsInjective(r)
  BY StorageAssumption
<1> DEFINE u == [Idle EXCEPT !.pc = "add", !.req = r, !.todo = r]
<1>4. /\ u \in TaskType /\ u.pc = "add" /\ u.req = r /\ u.todo = r /\ u.mounts = {}
      /\ u.watch = FALSE /\ u.early = {}
  BY <1>3, Zenon DEF Idle, TaskType, Pcs, Devs
<1>5. task' = [task EXCEPT ![c] = u]
  BY <1>2
<1> HIDE DEF u
<1>6. task' \in [Cids -> TaskType] /\ task'[c] = u /\ \A d \in Cids \ {c} : task'[d] = task[d]
  BY <1>1, <1>4, <1>5
<1>7. TaskShape(u, uevents)
  BY <1>3, <1>4 DEF TaskShape, CreatingPcs
<1>8. ASSUME NEW p \in Paths \ redone'
      PROVE  /\ Holds(u, p) => Holds(t, p)
             /\ storages[p].dev = "path" /\ Holds(t, p) => Holds(u, p)
             /\ CreatesIn(u, p) => CreatesIn(t, p)
             /\ TaskOk(u, storages[p], ready', p)
  <2>1. t.pc = "idle" /\ t.mounts = {}
    BY <1>1 DEF do_create_container, At, TaskShape
  <2>2. ~Holds(t, p) /\ ~CreatesIn(t, p) /\ ~Holds(u, p) /\ ~CreatesIn(u, p)
    BY <2>1, <1>4 DEF Holds, CreatesIn, CreatingPcs
  <2>3. TaskOk(u, storages[p], ready', p)
    BY <2>2, <1>4 DEF TaskOk
  <2> QED BY <2>2, <2>3
<1>9. /\ uevents' = uevents /\ storages' = storages /\ ready' = ready
      /\ redone' = redone /\ redone \subseteq Paths /\ ready \subseteq Paths
  BY DEF do_create_container, StorageInv, StorageType
<1> HIDE DEF t
<1> QED BY <1>6, <1>7, <1>8, <1>9, QuietStep DEF t

\* wait_for_uevent: the watcher is registered while the device is not announced.
LEMMA WaitInv ==
  ASSUME StorageInv, NEW c \in Cids, wait_for_uevent(c), UNCHANGED redone
  PROVE  StorageInv'
<1> DEFINE t == task[c]
           u == task'[c]
<1>1. t \in TaskType /\ TaskShape(t, uevents) /\ task \in [Cids -> TaskType] /\ t.pc = "dev"
  BY DEF StorageInv, StorageType, wait_for_uevent, At
<1>2. /\ uevents' = uevents /\ storages' = storages /\ ready' = ready
      /\ redone' = redone /\ redone \subseteq Paths /\ ready \subseteq Paths
  BY DEF wait_for_uevent, StorageInv, StorageType
<1>3. CASE ~(Path(c) \in Block \ uevents)
  <2>1. Go(c, "mount")
    BY <1>3 DEF wait_for_uevent
  <2>2. ~t.watch
    BY <1>1 DEF TaskShape
  <2> QED BY <2>1, <2>2, <1>1, <1>2, GoStep DEF Pcs, CreatingPcs
<1>4. CASE Path(c) \in Block \ uevents
  <2>1. task' = [task EXCEPT ![c].pc = "wait", ![c].watch = TRUE, ![c].got = FALSE]
    BY <1>4 DEF wait_for_uevent
  <2>2. /\ task' \in [Cids -> TaskType] /\ \A d \in Cids \ {c} : task'[d] = task[d]
        /\ u.pc = "wait" /\ u.req = t.req /\ u.todo = t.todo /\ u.mounts = t.mounts
        /\ u.watch = TRUE /\ u.got = FALSE /\ u.early = t.early
    BY <2>1, <1>1, Zenon DEF TaskType, Pcs, CreatingPcs
  <2>3. TaskShape(u, uevents)
    BY <1>1, <1>4, <2>2 DEF TaskShape, Path, CreatingPcs
  <2>4. ASSUME NEW p \in Paths \ redone'
        PROVE  /\ Holds(u, p) => Holds(t, p)
               /\ storages[p].dev = "path" /\ Holds(t, p) => Holds(u, p)
               /\ CreatesIn(u, p) => CreatesIn(t, p)
               /\ TaskOk(u, storages[p], ready', p)
    <3>1. TaskOk(t, storages[p], ready, p)
      BY <1>2 DEF StorageInv, EntryOk
    <3>2. CreatesIn(u, p) <=> CreatesIn(t, p)
      BY <1>1, <2>2 DEF CreatesIn, CreatingPcs
    <3>3. Holds(u, p) <=> Holds(t, p)
      BY <1>1, <2>2, <3>2 DEF Holds
    <3>4. TaskOk(u, storages[p], ready', p)
      BY <1>1, <1>2, <2>2, <3>1, <3>2 DEF TaskOk
    <3> QED BY <3>2, <3>3, <3>4
  <2> HIDE DEF t, u
  <2> QED BY <2>2, <2>3, <2>4, <1>2, QuietStep DEF t, u
<1> QED BY <1>3, <1>4

\* A task that gives up waiting for its device drops the storage, or panics and keeps
\* its reference for ever.
LEMMA GiveUpInv ==
  ASSUME StorageInv, NEW c \in Cids, UeventGiveUp(c), UNCHANGED redone
  PROVE  StorageInv'
<1> DEFINE t == task[c]
           u == task'[c]
<1>1. t \in TaskType /\ TaskShape(t, uevents) /\ task \in [Cids -> TaskType] /\ t.pc = "late"
  BY DEF StorageInv, StorageType, UeventGiveUp, At
<1>2. /\ uevents' = uevents /\ storages' = storages /\ ready' = ready
      /\ redone' = redone /\ redone \subseteq Paths /\ ready \subseteq Paths
  BY DEF UeventGiveUp, StorageInv, StorageType
<1>3. /\ task' \in [Cids -> TaskType] /\ \A d \in Cids \ {c} : task'[d] = task[d]
      /\ u.pc \in {"drop", "panicked"} /\ u.req = t.req /\ u.todo = t.todo
      /\ u.mounts = t.mounts /\ u.watch = FALSE /\ u.early = t.early
  BY <1>1, ZenonT(40) DEF UeventGiveUp, TaskType, Pcs, CreatingPcs
<1>4. TaskShape(u, uevents)
  BY <1>1, <1>3 DEF TaskShape, CreatingPcs
<1>5. ASSUME NEW p \in Paths \ redone'
      PROVE  /\ Holds(u, p) => Holds(t, p)
             /\ storages[p].dev = "path" /\ Holds(t, p) => Holds(u, p)
             /\ CreatesIn(u, p) => CreatesIn(t, p)
             /\ TaskOk(u, storages[p], ready', p)
  <2>1. TaskOk(t, storages[p], ready, p)
    BY <1>2 DEF StorageInv, EntryOk
  <2>2. CreatesIn(u, p) => CreatesIn(t, p)
    BY <1>1, <1>3 DEF CreatesIn, CreatingPcs
  <2>3. Holds(u, p) => Holds(t, p)
    BY <1>1, <1>3, <2>2 DEF Holds
  <2>4. storages[p].dev = "path" /\ Holds(t, p) => Holds(u, p)
    BY <1>1, <1>3, <2>1 DEF Holds, TaskOk
  <2>5. TaskOk(u, storages[p], ready', p)
    BY <1>1, <1>2, <1>3, <2>1, <2>2 DEF TaskOk
  <2> QED BY <2>2, <2>3, <2>4, <2>5
<1> HIDE DEF t, u
<1> QED BY <1>2, <1>3, <1>4, <1>5, QuietStep DEF t, u

\* process_add: the watchers of the device are told; the references stay as they are.
LEMMA AnnouncedInv ==
  ASSUME StorageInv, NEW q \in Block, process_add(q), UNCHANGED redone
  PROVE  StorageInv'
<1> DEFINE told == {c \in Cids : task[c].watch /\ Path(c) = q}
<1>1. /\ task \in [Cids -> TaskType] /\ storages' = storages /\ ready' = ready
      /\ redone' = redone /\ uevents' = uevents \cup {q} /\ q \in Paths
      /\ task' = [c \in Cids |-> IF c \in told THEN [task[c] EXCEPT !.watch = FALSE, !.got = TRUE]
                                 ELSE task[c]]
  BY StorageAssumption, Zenon DEF process_add, StorageInv, StorageType
<1>2. ASSUME NEW c \in Cids
      PROVE  /\ task'[c] \in TaskType /\ TaskShape(task'[c], uevents')
             /\ task'[c].pc = task[c].pc /\ task'[c].req = task[c].req
             /\ task'[c].todo = task[c].todo /\ task'[c].mounts = task[c].mounts
             /\ task'[c].seen = task[c].seen /\ task'[c].count = task[c].count
             /\ task'[c].early = task[c].early
  <2>1. task[c] \in TaskType /\ TaskShape(task[c], uevents)
    BY DEF StorageInv, StorageType
  <2>2. CASE c \notin told
    <3>1. task'[c] = task[c] /\ (task[c].watch => Head(task[c].todo) # q)
      BY <2>2, <1>1, ZenonT(40) DEF Path
    <3>2. TaskShape(task[c], uevents')
      <4>1. uevents' = uevents \cup {q}
        BY <1>1, Zenon
      <4> QED BY <2>1, <3>1, <4>1 DEF TaskShape
    <3> QED BY <2>1, <3>1, <3>2
  <2>3. CASE c \in told
    <3> DEFINE u == [task[c] EXCEPT !.watch = FALSE, !.got = TRUE]
    <3>1. task'[c] = u
      BY <2>3, <1>1, Zenon
    <3>2. /\ u \in TaskType /\ u.pc = task[c].pc /\ u.req = task[c].req
          /\ u.todo = task[c].todo /\ u.mounts = task[c].mounts /\ u.seen = task[c].seen
          /\ u.count = task[c].count /\ u.early = task[c].early /\ ~u.watch /\ u.got
      BY <2>1, ZenonT(40) DEF TaskType
    <3> HIDE DEF u
    <3>3. TaskShape(u, uevents')
      BY <2>1, <3>2 DEF TaskShape
    <3> QED BY <3>1, <3>2, <3>3
  <2> QED BY <2>2, <2>3
<1>3. task' \in [Cids -> TaskType]
  <2>1. DOMAIN task' = Cids /\ task' = [c \in Cids |-> task'[c]]
    BY <1>1, Zenon
  <2> QED BY <2>1, <1>2
<1>4. ASSUME NEW p \in Paths \ redone
      PROVE  EntryOk(task', storages[p], ready, p)
  <2>1. EntryOk(task, storages[p], ready, p)
    BY DEF StorageInv
  <2>2. \A c \in Cids : /\ Holds(task'[c], p) <=> Holds(task[c], p)
                        /\ CreatesIn(task'[c], p) <=> CreatesIn(task[c], p)
    BY <1>2 DEF Holds, CreatesIn
  <2>3. \A c \in Cids : TaskOk(task'[c], storages[p], ready, p)
    BY <1>2, <2>1, <2>2 DEF EntryOk, TaskOk
  <2>4. Holders(task', p) = Holders(task, p)
    BY <2>2 DEF Holders
  <2> QED BY <2>1, <2>2, <2>3, <2>4 DEF EntryOk
<1> QED BY <1>1, <1>2, <1>3, <1>4, ZenonT(40) DEF StorageInv, StorageType

\* process_remove: a device that goes is not missed by a watcher.
LEMMA WithdrawnInv ==
  ASSUME StorageInv, NEW q \in Block, process_remove(q), UNCHANGED redone
  PROVE  StorageInv'
<1>1. \A c \in Cids : TaskShape(task[c], uevents')
  BY DEF StorageInv, StorageType, TaskShape, process_remove
<1> QED BY <1>1 DEF StorageInv, StorageType, process_remove

\* add_sandbox_storage: a new entry has one holder, and an existing one has one more.
LEMMA AddInv ==
  ASSUME StorageInv, NEW c \in Cids, add_sandbox_storage(c), UNCHANGED redone
  PROVE  StorageInv'
<1> DEFINE t == task[c]
           u == task'[c]
           q == Path(c)
           s == storages[q]
<1>1. /\ t \in TaskType /\ TaskShape(t, uevents) /\ task \in [Cids -> TaskType]
      /\ t.pc = "add" /\ t.todo # <<>>
  BY DEF StorageInv, StorageType, add_sandbox_storage, At
<1>2. /\ q = Head(t.todo) /\ q \in Paths /\ q \in Range(t.todo) /\ q \notin t.mounts
      /\ s \in EntryType /\ s.count \in Nat
  <2>1. q \in Paths /\ q \in Range(t.todo)
    BY <1>1, TodoFacts DEF TaskType, TaskShape, Path
  <2> QED BY <1>1, <2>1 DEF Path, TaskShape, StorageInv, StorageType, EntryType
<1>3. /\ uevents' = uevents /\ ready' = ready /\ redone' = redone
      /\ redone \subseteq Paths /\ ready \subseteq Paths /\ storages \in [Paths -> EntryType]
  BY DEF add_sandbox_storage, StorageInv, StorageType
<1> DEFINE new == IF s.dev = "vacant" THEN [count |-> 1, dev |-> "none"] ELSE [s EXCEPT !.count = @ + 1]
<1>4. /\ new \in EntryType /\ new.count = s.count + 1
      /\ new.dev = IF s.dev = "vacant" THEN "none" ELSE s.dev
  <2>1. CASE s.dev = "vacant"
    BY <2>1, <1>2 DEF EntryType, Devs
  <2>2. CASE s.dev # "vacant"
    <3> DEFINE e == [s EXCEPT !.count = @ + 1]
    <3>1. e \in [count : Nat, dev : Devs] /\ e.count = s.count + 1 /\ e.dev = s.dev
      BY <1>2 DEF EntryType
    <3>2. new = e
      BY <2>2
    <3> HIDE DEF e, new
    <3> QED BY <2>2, <3>1, <3>2, <1>2 DEF EntryType
  <2> QED BY <2>1, <2>2
<1>5. storages' = [storages EXCEPT ![q] = new]
  BY DEF add_sandbox_storage
<1> HIDE DEF new
<1>6. /\ storages' \in [Paths -> EntryType] /\ storages'[q] = new
      /\ \A p \in Paths \ {q} : storages'[p] = storages[p]
  BY <1>2, <1>3, <1>4, <1>5
<1>7. task' = [task EXCEPT ![c].pc = "check", ![c].seen = new.dev, ![c].count = 0]
  BY <1>6, Zenon DEF add_sandbox_storage
<1>8. /\ task' \in [Cids -> TaskType] /\ \A d \in Cids \ {c} : task'[d] = task[d]
      /\ u.pc = "check" /\ u.req = t.req /\ u.todo = t.todo /\ u.mounts = t.mounts
      /\ u.watch = t.watch /\ u.early = t.early /\ u.seen = new.dev /\ u.count = 0
  <2>1. new.dev \in Devs
    BY <1>4 DEF EntryType
  <2> QED BY <1>1, <1>7, <2>1, ZenonT(40) DEF TaskType, Pcs
<1>9. TaskShape(u, uevents)
  BY <1>1, <1>8 DEF TaskShape, CreatingPcs
<1>10. ASSUME NEW p \in Paths \ redone'
       PROVE  EntryOk(task', storages'[p], ready', p)
  <2>1. EntryOk(task, storages[p], ready, p) /\ storages[p] \in EntryType
    BY <1>3 DEF StorageInv, StorageType
  <2>2. TaskOk(t, storages[p], ready, p)
    BY <2>1 DEF EntryOk
  <2>3. ~CreatesIn(t, p) /\ ~CreatesIn(u, p)
    BY <1>1, <1>8 DEF CreatesIn, CreatingPcs
  <2>4. CASE p # q
    <3>1. Holds(u, p) <=> Holds(t, p)
      BY <1>1, <1>2, <1>8, <2>3, <2>4 DEF Holds
    <3>2. TaskOk(u, storages[p], ready, p)
      BY <1>1, <1>2, <1>8, <2>2, <2>3, <2>4 DEF TaskOk
    <3>3. EntryOk(task', storages[p], ready, p)
      <4>1. /\ Holds(task'[c], p) => Holds(task[c], p)
            /\ storages[p].dev = "path" /\ Holds(task[c], p) => Holds(task'[c], p)
            /\ CreatesIn(task'[c], p) => CreatesIn(task[c], p)
            /\ TaskOk(task'[c], storages[p], ready, p)
        BY <2>3, <3>1, <3>2
      <4>2. \A d \in Cids \ {c} : task'[d] = task[d]
        BY <1>8
      <4> QED BY <2>1, <4>1, <4>2, EntryFrame, ZenonT(40)
    <3> QED BY <3>3, <2>4, <1>3, <1>6
  <2>5. CASE p = q
    <3> DEFINE n == Cardinality(Holders(task, p))
               m == Cardinality(Holders(task', p))
    <3>1. Holds(u, p) /\ ~Holds(t, p)
      BY <1>1, <1>2, <1>8, <2>3, <2>5 DEF Holds
    <3>2. n \in Nat /\ m \in Nat /\ m = n + 1
      BY <3>1, <1>8, HoldersStep
    <3>3. n <= s.count /\ (s.dev = "path" => s.count = n) /\ (s.dev = "empty" => n < s.count)
      BY <2>1, <2>5 DEF EntryOk
    <3> HIDE DEF n, m
    <3>4. m <= new.count /\ (new.dev = "path" => new.count = m) /\ (new.dev = "empty" => m < new.count)
      BY <3>2, <3>3, <1>2, <1>4
    <3>5. TaskOk(u, new, ready, p)
      BY <1>1, <1>2, <1>4, <1>8, <2>2, <2>3, <2>5 DEF TaskOk
    <3>6. ASSUME NEW d \in Cids \ {c}
          PROVE  TaskOk(task[d], new, ready, p)
      <4>1. TaskOk(task[d], s, ready, p)
        BY <2>1, <2>5 DEF EntryOk
      <4>2. CASE s.dev # "vacant"
        BY <4>1, <4>2, <1>4 DEF TaskOk
      <4>3. CASE s.dev = "vacant"
        <5>1. s.count = 0
          BY <4>3, <1>2 DEF EntryType
        <5>2. ~Holds(task[d], p)
          BY <5>1, <3>2, <3>3, HoldersAtLeast DEF n
        <5> QED BY <4>1, <4>3, <5>2, <1>4 DEF TaskOk, Holds
      <4> QED BY <4>2, <4>3
    <3>7. \A d \in Cids : TaskOk(task'[d], new, ready, p)
      BY <3>5, <3>6, <1>8
    <3>8. \A a, d \in Cids : CreatesIn(task'[a], p) /\ CreatesIn(task'[d], p) => a = d
      BY <2>1, <2>3, <1>8 DEF EntryOk
    <3>9. new.dev \in {"path", "empty"} => p \in ready
      BY <2>1, <2>5, <1>4 DEF EntryOk
    <3>10. EntryOk(task', new, ready, p)
      BY <3>4, <3>7, <3>8, <3>9 DEF EntryOk, n, m
    <3> QED BY <3>10, <2>5, <1>3, <1>6
  <2> QED BY <2>4, <2>5
<1> HIDE DEF t, u
<1> QED BY <1>3, <1>6, <1>8, <1>9, <1>10, TaskStep DEF t, u

\* ref_count: a storage that others have is taken as it is, and nobody creates the
\* device of one whose only holder is this task.
LEMMA RefCountInv ==
  ASSUME StorageInv, NEW c \in Cids, ref_count(c)
  PROVE  StorageInv'
<1> DEFINE t == task[c]
           u == task'[c]
           q == Path(c)
           s == storages[q]
           n == IF t.count = 0 THEN s.count ELSE t.count
<1>1. t \in TaskType /\ TaskShape(t, uevents) /\ task \in [Cids -> TaskType] /\ t.pc = "check"
  BY DEF StorageInv, StorageType, ref_count, At
<1>2. /\ q = Head(t.todo) /\ q \in Paths /\ q \in Range(t.todo) /\ q \notin t.mounts
      /\ s \in EntryType /\ s.count \in Nat /\ t.count \in Nat /\ t.seen \in Devs /\ n \in Nat
  <2>1. t.todo # <<>>
    BY <1>1 DEF TaskShape
  <2>2. q \in Paths /\ q \in Range(t.todo)
    BY <1>1, <2>1, TodoFacts DEF TaskType, TaskShape, Path
  <2>3. s \in EntryType /\ s.count \in Nat
    BY <2>2 DEF StorageInv, StorageType, EntryType
  <2>4. t.count \in Nat /\ t.seen \in Devs
    BY <1>1 DEF TaskType
  <2> QED BY <1>1, <2>2, <2>3, <2>4 DEF Path, TaskShape
<1>3. /\ uevents' = uevents /\ ready' = ready /\ storages' = storages
      /\ redone' = (IF n > 1 \/ t.seen = "none" THEN redone ELSE redone \cup {q})
      /\ task' = [task EXCEPT ![c] = IF n > 1 THEN Done(t, t.seen) ELSE [t EXCEPT !.pc = "dev"]]
  BY DEF ref_count
<1>4. /\ redone \subseteq redone' /\ redone' \subseteq Paths /\ ready \subseteq Paths
      /\ storages \in [Paths -> EntryType]
  BY <1>2, <1>3 DEF StorageInv, StorageType
<1> HIDE DEF n
<1>5. CASE n > 1
  <2> DEFINE v == Done(t, t.seen)
  <2>1. /\ v \in TaskType /\ TaskShape(v, uevents) /\ v.pc = "add" /\ v.req = t.req
        /\ v.mounts = (IF t.seen = "path" THEN t.mounts \cup {q} ELSE t.mounts)
        /\ v.early = (IF t.seen = "none" THEN t.early \cup {q} ELSE t.early)
        /\ Range(t.todo) = {q} \cup Range(v.todo)
    <3>1. t \in TaskType /\ TaskShape(t, uevents) /\ t.pc \in {"check", "update"} /\ t.seen \in Devs
      BY <1>1, <1>2
    <3>2. /\ v \in TaskType /\ TaskShape(v, uevents) /\ v.pc = "add" /\ v.req = t.req
          /\ v.mounts = (IF t.seen = "path" THEN t.mounts \cup {Head(t.todo)} ELSE t.mounts)
          /\ v.early = (IF t.seen = "none" THEN t.early \cup {Head(t.todo)} ELSE t.early)
          /\ Range(t.todo) = {Head(t.todo)} \cup Range(v.todo)
      <4> HIDE DEF t
      <4> QED BY <3>1, DoneType, ZenonT(40)
    <3> HIDE DEF v
    <3> QED BY <3>2, <1>2
  <2>2. task' = [task EXCEPT ![c] = v]
    BY <1>3, <1>5
  <2> HIDE DEF v
  <2>3. task' \in [Cids -> TaskType] /\ u = v /\ \A d \in Cids \ {c} : task'[d] = task[d]
    BY <1>1, <2>1, <2>2
  <2>4. ASSUME NEW p \in Paths \ redone'
        PROVE  /\ Holds(v, p) => Holds(t, p)
               /\ storages[p].dev = "path" /\ Holds(t, p) => Holds(v, p)
               /\ CreatesIn(v, p) => CreatesIn(t, p)
               /\ TaskOk(v, storages[p], ready', p)
    <3>1. EntryOk(task, storages[p], ready, p) /\ TaskOk(t, storages[p], ready, p)
      BY <1>4 DEF StorageInv, EntryOk
    <3>2. ~CreatesIn(v, p) /\ ~CreatesIn(t, p)
      BY <1>1, <2>1 DEF CreatesIn, CreatingPcs
    <3>3. CASE p # q
      <4>1. Holds(v, p) <=> Holds(t, p)
        BY <1>1, <1>2, <2>1, <3>2, <3>3 DEF Holds
      <4>2. TaskOk(v, storages[p], ready', p)
        BY <1>1, <1>2, <1>3, <2>1, <3>1, <3>2, <3>3 DEF TaskOk
      <4> QED BY <3>2, <4>1, <4>2
    <3>4. CASE p = q
      <4>1. IF t.count = 0 THEN t.seen = s.dev ELSE t.seen = "none" /\ t.count > 1
        BY <1>1, <1>2, <3>1, <3>4 DEF TaskOk
      <4>2. ASSUME t.count = 0
            PROVE  Holds(t, p) /\ s.dev # "vacant"
        <5>1. Holds(t, p)
          BY <4>2, <1>1, <1>2, <3>4 DEF Holds
        <5>2. s.count >= 1
          <6>1. Cardinality(Holders(task, p)) \in Nat /\ Cardinality(Holders(task, p)) >= 1
            BY <5>1, HoldersAtLeast, HoldersFinite
          <6>2. Cardinality(Holders(task, p)) <= s.count
            BY <3>1, <3>4 DEF EntryOk
          <6> QED BY <6>1, <6>2, <1>2
        <5> QED BY <5>1, <5>2, <1>2 DEF EntryType
      <4>3. Holds(v, p) <=> t.seen = "path"
        BY <1>1, <1>2, <2>1, <3>2, <3>4 DEF Holds
      <4>4. Holds(t, p) <=> t.count = 0
        BY <1>1, <1>2, <3>2, <3>4 DEF Holds
      <4>5. t.seen = "path" => s.dev = "path"
        BY <4>1
      <4>6. t.seen \in {"none", "path", "empty"}
        BY <4>1, <4>2, <1>2 DEF Devs
      <4>7. TaskOk(v, storages[p], ready', p)
        <5>1. v.pc = "add"
          BY <2>1
        <5>2. p \in v.mounts => storages[p].dev = "path"
          BY <1>2, <2>1, <3>4, <4>5
        <5>3. p \in v.early \/ p \in v.mounts \/ storages[p].dev = "empty"
          BY <2>1, <3>4, <4>1, <4>6
        <5> QED BY <5>1, <5>2, <5>3, <3>2 DEF TaskOk
      <4> QED BY <3>2, <3>4, <4>1, <4>3, <4>4, <4>5, <4>7
    <3> QED BY <3>3, <3>4
  <2> HIDE DEF t, u
  <2> QED BY <2>1, <2>3, <2>4, <1>3, <1>4, QuietStep DEF t, u
<1>6. CASE ~(n > 1)
  <2> DEFINE v == [t EXCEPT !.pc = "dev"]
  <2>0. task' = [task EXCEPT ![c] = v]
    BY <1>3, <1>6
  <2>1. /\ v \in TaskType /\ v.pc = "dev" /\ v.req = t.req /\ v.todo = t.todo
        /\ v.mounts = t.mounts /\ v.early = t.early /\ v.watch = t.watch
    BY <1>1, Zenon DEF TaskType, Pcs, CreatingPcs
  <2> HIDE DEF v
  <2>2. TaskShape(v, uevents)
    BY <1>1, <2>1 DEF TaskShape, CreatingPcs
  <2>4. task' \in [Cids -> TaskType] /\ u = v /\ \A d \in Cids \ {c} : task'[d] = task[d]
    BY <1>1, <2>1, <2>0
  <2>5. ASSUME NEW p \in Paths \ redone'
        PROVE  EntryOk(task', storages[p], ready, p)
    <3>1. /\ EntryOk(task, storages[p], ready, p) /\ TaskOk(t, storages[p], ready, p)
          /\ storages[p] \in EntryType
      <4>1. EntryOk(task, storages[p], ready, p)
        BY <1>4 DEF StorageInv
      <4> QED BY <4>1, <1>4 DEF EntryOk
    <3>2. CASE p # q
      <4>1. ~CreatesIn(v, p) /\ ~CreatesIn(t, p)
        BY <1>1, <1>2, <2>1, <3>2 DEF CreatesIn, CreatingPcs
      <4>2. Holds(v, p) <=> Holds(t, p)
        BY <1>1, <1>2, <2>1, <4>1, <3>2 DEF Holds
      <4>3. TaskOk(v, storages[p], ready, p)
        BY <1>1, <1>2, <2>1, <3>1, <4>1, <3>2 DEF TaskOk
      <4>4. /\ Holds(task'[c], p) => Holds(task[c], p)
            /\ storages[p].dev = "path" /\ Holds(task[c], p) => Holds(task'[c], p)
            /\ CreatesIn(task'[c], p) => CreatesIn(task[c], p)
            /\ TaskOk(task'[c], storages[p], ready, p)
        BY <2>4, <4>1, <4>2, <4>3
      <4>5. \A d \in Cids \ {c} : task'[d] = task[d]
        BY <2>4
      <4> QED BY <3>1, <4>4, <4>5, EntryFrame, ZenonT(40)
    <3>3. CASE p = q
      <4>1. t.count = 0 /\ s.count <= 1 /\ t.seen = s.dev
        <5>1. IF t.count = 0 THEN t.seen = s.dev ELSE t.seen = "none" /\ t.count > 1
          BY <1>1, <1>2, <3>1, <3>3 DEF TaskOk
        <5> QED BY <5>1, <1>2, <1>6 DEF n
      <4>2. s.dev = "none"
        BY <4>1, <1>3, <1>6, <3>3
      <4>3. Holds(t, p) /\ Holds(v, p)
        BY <4>1, <1>1, <1>2, <2>1, <3>3 DEF Holds, CreatesIn, CreatingPcs
      <4>4. Cardinality(Holders(task, p)) \in Nat /\ Cardinality(Holders(task, p)) <= 1
        <5>1. Cardinality(Holders(task, p)) <= s.count
          BY <3>1, <3>3 DEF EntryOk
        <5>2. Cardinality(Holders(task, p)) \in Nat
          BY HoldersFinite
        <5> QED BY <5>1, <5>2, <4>1, <1>2
      <4>5. \A d \in Cids \ {c} : ~Holds(task[d], p)
        BY <4>3, <4>4, HoldersAtLeast
      <4>6. \A d \in Cids \ {c} : ~CreatesIn(task'[d], p)
        BY <4>5, <2>4 DEF Holds
      <4>7. Holders(task', p) = Holders(task, p)
        BY <4>3, <2>4 DEF Holders
      <4>8. TaskOk(v, storages[p], ready, p)
        BY <1>1, <1>2, <2>1, <3>1, <3>3, <4>2 DEF TaskOk
      <4>9. \A d \in Cids : TaskOk(task'[d], storages[p], ready, p)
        BY <4>8, <2>4, <3>1 DEF EntryOk
      <4>10. \A a, d \in Cids : CreatesIn(task'[a], p) /\ CreatesIn(task'[d], p) => a = d
        BY <4>6
      <4> QED BY <3>1, <4>7, <4>9, <4>10 DEF EntryOk
    <3> QED BY <3>2, <3>3
  <2>6. \A p \in Paths \ redone' : EntryOk(task', storages'[p], ready', p)
    BY <2>5, <1>3, Zenon
  <2>7. storages' \in [Paths -> EntryType] /\ ready' \subseteq Paths
    BY <1>3, <1>4
  <2>8. TaskShape(task'[c], uevents)
    BY <2>2, <2>4
  <2> QED BY <2>4, <2>6, <2>7, <2>8, <1>3, <1>4, TaskStep, Zenon
<1> QED BY <1>5, <1>6

\* update_sandbox_storage: the device replaces the placeholder of the one creator, and
\* the requests that have not read the count yet are no longer counted.
LEMMA UpdateInv ==
  ASSUME StorageInv, NEW c \in Cids, update_sandbox_storage(c), UNCHANGED redone
  PROVE  StorageInv'
<1> DEFINE t == task[c]
           q == Path(c)
           s == storages[q]
           dev == IF q \in Unnamed THEN "empty" ELSE "path"
           behind == {d \in Cids : At(d, "check") /\ Path(d) = q /\ task[d].count = 0}
<1>1. t \in TaskType /\ TaskShape(t, uevents) /\ task \in [Cids -> TaskType] /\ t.pc = "update"
  BY DEF StorageInv, StorageType, update_sandbox_storage, At
<1>2. /\ q = Head(t.todo) /\ q \in Paths /\ q \in Range(t.todo) /\ q \notin t.mounts
      /\ s \in EntryType /\ s.count \in Nat
  <2>1. t.todo # <<>>
    BY <1>1 DEF TaskShape, CreatingPcs
  <2>2. q \in Paths /\ q \in Range(t.todo)
    BY <1>1, <2>1, TodoFacts DEF TaskType, TaskShape, Path
  <2>3. s \in EntryType /\ s.count \in Nat
    BY <2>2 DEF StorageInv, StorageType, EntryType
  <2> QED BY <1>1, <2>2, <2>3 DEF Path, TaskShape
<1>3. /\ uevents' = uevents /\ redone' = redone /\ redone \subseteq Paths
      /\ ready \subseteq Paths /\ uevents \subseteq Paths /\ storages \in [Paths -> EntryType]
  BY DEF update_sandbox_storage, StorageInv, StorageType
<1>4. CASE s.dev = "vacant"
  <2>1. Go(c, "failed") /\ ready' = ready \ {q} /\ storages' = storages
    BY <1>4 DEF update_sandbox_storage
  <2>2. q \in redone
    <3> SUFFICES ASSUME q \notin redone PROVE FALSE
      OBVIOUS
    <3>1. TaskOk(t, s, ready, q) 
      BY <1>2 DEF StorageInv, EntryOk
    <3> QED BY <3>1, <1>1, <1>2, <1>4 DEF TaskOk, CreatesIn, CreatingPcs
  <2> DEFINE u == task'[c]
  <2>3. /\ task' \in [Cids -> TaskType] /\ \A d \in Cids \ {c} : task'[d] = task[d]
        /\ u.pc = "failed" /\ u.req = t.req /\ u.todo = t.todo /\ u.mounts = t.mounts
        /\ u.watch = t.watch /\ u.early = t.early
    BY <2>1, <1>1, ZenonT(40) DEF Go, TaskType, Pcs
  <2>4. TaskShape(u, uevents)
    BY <1>1, <2>3 DEF TaskShape, CreatingPcs
  <2>5. ASSUME NEW p \in Paths \ redone'
        PROVE  EntryOk(task', storages'[p], ready', p)
    <3>1. /\ EntryOk(task, storages[p], ready, p) /\ storages[p] \in EntryType
          /\ p # q
      BY <1>3, <2>2 DEF StorageInv
    <3>2. TaskOk(t, storages[p], ready, p)
      BY <3>1 DEF EntryOk
    <3>3. ~CreatesIn(u, p) /\ ~CreatesIn(t, p)
      BY <1>1, <1>2, <2>3, <3>1 DEF CreatesIn, CreatingPcs
    <3>4. Holds(u, p) <=> Holds(t, p)
      BY <1>1, <2>3, <3>3 DEF Holds
    <3>5. TaskOk(u, storages[p], ready', p)
      BY <1>1, <2>1, <2>3, <3>1, <3>2, <3>3 DEF TaskOk
    <3>6. /\ Holds(task'[c], p) => Holds(task[c], p)
          /\ storages[p].dev = "path" /\ Holds(task[c], p) => Holds(task'[c], p)
          /\ CreatesIn(task'[c], p) => CreatesIn(task[c], p)
          /\ TaskOk(task'[c], storages[p], ready', p)
          /\ p \in ready => p \in ready'
      BY <3>1, <3>3, <3>4, <3>5, <2>1
    <3>7. \A d \in Cids \ {c} : task'[d] = task[d]
      BY <2>3
    <3>8. EntryOk(task', storages[p], ready', p)
      BY <3>1, <3>6, <3>7, EntryFrame, Zenon
    <3> QED BY <3>8, <2>1
  <2>6. storages' \in [Paths -> EntryType] /\ ready' \subseteq Paths
    BY <2>1, <1>3
  <2> QED BY <2>3, <2>4, <2>5, <2>6, <1>3, TaskStep
<1>5. CASE s.dev # "vacant"
  <2> DEFINE v == Done(t, dev)
             new == [count |-> 1, dev |-> dev]
  <2>1. /\ storages' = [storages EXCEPT ![q] = new] /\ ready' = ready
        /\ task' = [d \in Cids |-> IF d = c THEN v
                                   ELSE IF d \in behind THEN [task[d] EXCEPT !.count = s.count]
                                   ELSE task[d]]
    BY <1>5 DEF update_sandbox_storage
  <2>2. dev \in {"path", "empty"}
    OBVIOUS
  <2>3. /\ v \in TaskType /\ TaskShape(v, uevents) /\ v.pc = "add" /\ v.req = t.req
        /\ v.mounts = (IF dev = "path" THEN t.mounts \cup {q} ELSE t.mounts)
        /\ v.early = t.early
        /\ Range(t.todo) = {q} \cup Range(v.todo)
    <3>1. t \in TaskType /\ TaskShape(t, uevents) /\ t.pc \in {"check", "update"} /\ dev \in Devs
      BY <1>1, <2>2 DEF Devs
    <3>2. /\ v \in TaskType /\ TaskShape(v, uevents) /\ v.pc = "add" /\ v.req = t.req
          /\ v.mounts = (IF dev = "path" THEN t.mounts \cup {Head(t.todo)} ELSE t.mounts)
          /\ v.early = (IF dev = "none" THEN t.early \cup {Head(t.todo)} ELSE t.early)
          /\ Range(t.todo) = {Head(t.todo)} \cup Range(v.todo)
      <4> HIDE DEF t, dev
      <4> QED BY <3>1, DoneType, Zenon
    <3> HIDE DEF v, dev
    <3> QED BY <3>2, <1>2, <2>2
  <2>4. new \in EntryType /\ new.count = 1 /\ new.dev = dev
    BY <2>2 DEF EntryType, Devs
  <2> HIDE DEF v, new, dev
  <2>5. /\ storages' \in [Paths -> EntryType] /\ storages'[q] = new
        /\ \A p \in Paths \ {q} : storages'[p] = storages[p]
    BY <2>1, <2>4, <1>2, <1>3
  <2>6. ASSUME NEW d \in Cids, d # c
        PROVE  /\ task'[d] \in TaskType /\ TaskShape(task'[d], uevents)
               /\ task'[d].pc = task[d].pc /\ task'[d].req = task[d].req
               /\ task'[d].todo = task[d].todo /\ task'[d].mounts = task[d].mounts
               /\ task'[d].seen = task[d].seen /\ task'[d].early = task[d].early
               /\ task'[d].count = IF d \in behind THEN s.count ELSE task[d].count
    <3>1. task[d] \in TaskType /\ TaskShape(task[d], uevents)
      BY DEF StorageInv, StorageType
    <3>2. CASE d \notin behind
      <4>1. task'[d] = task[d]
        BY <2>1, <2>6, <3>2
      <4> HIDE DEF behind
      <4> QED BY <3>1, <3>2, <4>1
    <3>3. CASE d \in behind
      <4> DEFINE u == [task[d] EXCEPT !.count = s.count]
      <4>1. task'[d] = u
        BY <2>1, <2>6, <3>3
      <4>2. /\ u \in TaskType /\ u.pc = task[d].pc /\ u.req = task[d].req
            /\ u.todo = task[d].todo /\ u.mounts = task[d].mounts /\ u.seen = task[d].seen
            /\ u.early = task[d].early /\ u.watch = task[d].watch /\ u.got = task[d].got
            /\ u.count = s.count
        BY <3>1, <1>2 DEF TaskType
      <4> HIDE DEF u, behind
      <4>3. TaskShape(u, uevents)
        BY <3>1, <4>2 DEF TaskShape
      <4> QED BY <3>3, <4>1, <4>2, <4>3
    <3> QED BY <3>2, <3>3
  <2>7. task'[c] = v
    BY <2>1
  <2>8. task' \in [Cids -> TaskType] /\ \A d \in Cids : TaskShape(task'[d], uevents)
    <3>1. task' = [d \in Cids |-> task'[d]]
      BY <2>1
    <3> QED BY <3>1, <2>3, <2>6, <2>7
  <2>9. ASSUME NEW p \in Paths \ redone, p # q
        PROVE  EntryOk(task', storages[p], ready, p)
    <3>1. EntryOk(task, storages[p], ready, p)
      BY DEF StorageInv
    <3>2. TaskOk(t, storages[p], ready, p)
      BY <3>1 DEF EntryOk
    <3>3. /\ ~CreatesIn(v, p) /\ ~CreatesIn(t, p) /\ (Holds(v, p) <=> Holds(t, p))
      BY <1>1, <1>2, <2>3, <2>9 DEF CreatesIn, CreatingPcs, Holds
    <3>4. TaskOk(v, storages[p], ready, p)
      BY <1>1, <1>2, <2>3, <2>9, <3>2, <3>3 DEF TaskOk
    <3>5. ASSUME NEW d \in Cids, d # c
          PROVE  /\ Holds(task'[d], p) <=> Holds(task[d], p)
                 /\ CreatesIn(task'[d], p) <=> CreatesIn(task[d], p)
                 /\ TaskOk(task'[d], storages[p], ready, p)
      <4>1. task[d].pc = "check" /\ Head(task[d].todo) = p => task'[d].count = task[d].count
        BY <2>6, <2>9, <3>5 DEF Path
      <4>2. CreatesIn(task'[d], p) <=> CreatesIn(task[d], p)
        BY <2>6, <3>5 DEF CreatesIn
      <4>3. Holds(task'[d], p) <=> Holds(task[d], p)
        BY <2>6, <3>5, <4>1, <4>2 DEF Holds
      <4>4. TaskOk(task[d], storages[p], ready, p)
        BY <3>1 DEF EntryOk
      <4>5. TaskOk(task'[d], storages[p], ready, p)
        BY <2>6, <3>5, <4>1, <4>2, <4>4 DEF TaskOk
      <4> QED BY <4>2, <4>3, <4>5
    <3>6. Holders(task', p) = Holders(task, p)
      BY <2>7, <3>3, <3>5 DEF Holders
    <3>7. \A d \in Cids : TaskOk(task'[d], storages[p], ready, p)
      BY <2>7, <3>4, <3>5
    <3>8. \A a, d \in Cids : CreatesIn(task'[a], p) /\ CreatesIn(task'[d], p) => a = d
      BY <2>7, <3>1, <3>3, <3>5 DEF EntryOk
    <3> QED BY <3>1, <3>6, <3>7, <3>8 DEF EntryOk
  <2>10. ASSUME q \notin redone
         PROVE  EntryOk(task', new, ready, q)
    <3>1. EntryOk(task, s, ready, q)
      BY <2>10, <1>2 DEF StorageInv
    <3>2. TaskOk(t, s, ready, q)
      BY <3>1 DEF EntryOk
    <3>3. CreatesIn(t, q) /\ Holds(t, q) /\ s.dev = "none" /\ q \in ready
      BY <1>1, <1>2, <3>2 DEF TaskOk, CreatesIn, CreatingPcs, Holds
    <3>4. ASSUME NEW d \in Cids, d # c
          PROVE  ~Holds(task'[d], q) /\ ~CreatesIn(task'[d], q) /\ TaskOk(task'[d], new, ready, q)
      <4>1. TaskOk(task[d], s, ready, q)
        BY <3>1 DEF EntryOk
      <4>2. ~CreatesIn(task[d], q) /\ q \notin task[d].mounts
        BY <3>1, <3>3, <3>4, <4>1 DEF EntryOk, TaskOk
      <4>3. ~CreatesIn(task'[d], q) /\ q \notin task'[d].mounts
        BY <2>6, <3>4, <4>2 DEF CreatesIn
      <4>4. ASSUME task[d].pc = "check", Head(task[d].todo) = q
            PROVE  task'[d].count > 1 /\ task'[d].seen = "none"
        <5>1. CASE task[d].count = 0
          <6>1. d \in behind /\ Holds(task[d], q)
            BY <4>4, <5>1 DEF At, Path, Holds
          <6>2. Cardinality(Holders(task, q)) >= 2 /\ Cardinality(Holders(task, q)) \in Nat
            BY <6>1, <3>3, <3>4, HoldersAtLeast, HoldersFinite
          <6>3. Cardinality(Holders(task, q)) <= s.count
            BY <3>1 DEF EntryOk
          <6>4. s.count > 1
            BY <6>2, <6>3, <1>2
          <6>5. task[d].seen = "none"
            BY <4>1, <4>4, <5>1, <3>3 DEF TaskOk
          <6> HIDE DEF behind
          <6> QED BY <6>1, <6>4, <6>5, <2>6, <3>4
        <5>2. CASE task[d].count # 0
          BY <5>2, <4>1, <4>4, <2>6, <3>4 DEF TaskOk
        <5> QED BY <5>1, <5>2
      <4>5. task'[d].pc = task[d].pc /\ task'[d].todo = task[d].todo /\ task'[d].count \in Nat
        BY <2>6, <3>4 DEF TaskType
      <4>6. ~Holds(task'[d], q)
        BY <4>3, <4>4, <4>5 DEF Holds
      <4>7. TaskOk(task'[d], new, ready, q)
        <5>1. task'[d].pc = "check" /\ Head(task'[d].todo) = q =>
                IF task'[d].count = 0 THEN task'[d].seen = new.dev
                                      ELSE task'[d].seen = "none" /\ task'[d].count > 1
          BY <4>4, <4>5
        <5>2. task'[d].pc # "gone" /\ q \in Range(task'[d].req) \ Range(task'[d].todo) =>
                q \in task'[d].early
          BY <2>6, <3>4, <4>1, <4>2, <3>3, ZenonT(40) DEF TaskOk
        <5> QED BY <4>3, <5>1, <5>2, <3>3 DEF TaskOk
      <4> QED BY <4>3, <4>6, <4>7
    <3>5. ~CreatesIn(v, q) /\ (Holds(v, q) <=> dev = "path")
      BY <1>2, <2>3 DEF CreatesIn, CreatingPcs, Holds
    <3>6. TaskOk(v, new, ready, q)
      BY <2>2, <2>3, <2>4, <1>2, <3>5 DEF TaskOk
    <3>7. Holders(task', q) = IF dev = "path" THEN {c} ELSE {}
      BY <2>7, <3>4, <3>5 DEF Holders
    <3>8. Cardinality(Holders(task', q)) = IF dev = "path" THEN 1 ELSE 0
      BY <3>7, FS_Singleton, FS_EmptySet
    <3>9. \A d \in Cids : TaskOk(task'[d], new, ready, q)
      BY <2>7, <3>4, <3>6
    <3>10. \A a, d \in Cids : CreatesIn(task'[a], q) /\ CreatesIn(task'[d], q) => a = d
      BY <2>7, <3>4, <3>5
    <3>11. /\ Cardinality(Holders(task', q)) <= new.count
           /\ new.dev = "path" => new.count = Cardinality(Holders(task', q))
           /\ new.dev = "empty" => Cardinality(Holders(task', q)) < new.count
      BY <3>8, <2>2, <2>4
    <3> QED BY <3>3, <3>9, <3>10, <3>11 DEF EntryOk
  <2>11. \A p \in Paths \ redone' : EntryOk(task', storages'[p], ready', p)
    <3> HIDE DEF q
    <3> QED BY <2>1, <2>5, <2>9, <2>10, <1>2, <1>3
  <2> QED BY <2>1, <2>5, <2>8, <2>11, <1>3 DEF StorageInv, StorageType
<1> QED BY <1>4, <1>5

\* What giving up a reference does to an entry.
LEMMA ReleaseFacts ==
  ASSUME storages \in [Paths -> EntryType], NEW ps, NEW p \in Paths
  PROVE  /\ p \notin ps => Release(ps)[p] = storages[p]
         /\ p \in ps /\ storages[p].count > 1 =>
              Release(ps)[p].count = storages[p].count - 1 /\ Release(ps)[p].dev = storages[p].dev
         /\ p \in ps /\ storages[p].count = 1 =>
              Release(ps)[p].count = 0 /\ Release(ps)[p].dev = "vacant"
<1>1. storages[p] \in [count : Nat, dev : Devs] /\ (storages[p].dev = "vacant" <=> storages[p].count = 0)
  BY DEF EntryType
<1>2. p \notin ps => Release(ps)[p] = storages[p]
  BY DEF Release
<1>3. ASSUME p \in ps, storages[p].count > 1
      PROVE  Release(ps)[p].count = storages[p].count - 1 /\ Release(ps)[p].dev = storages[p].dev
  <2> DEFINE e == [storages[p] EXCEPT !.count = @ - 1]
  <2>1. storages[p].dev # "vacant" /\ storages[p].count # 1
    BY <1>1, <1>3
  <2>2. Release(ps)[p] = e
    BY <2>1, <1>3 DEF Release
  <2>3. e.count = storages[p].count - 1 /\ e.dev = storages[p].dev
    BY <1>1
  <2> HIDE DEF e
  <2> QED BY <2>2, <2>3
<1>4. ASSUME p \in ps, storages[p].count = 1
      PROVE  Release(ps)[p].count = 0 /\ Release(ps)[p].dev = "vacant"
  <2>1. storages[p].dev # "vacant"
    BY <1>1, <1>4
  <2>2. Release(ps)[p] = Vacant
    BY <2>1, <1>4 DEF Release
  <2> QED BY <2>2 DEF Vacant
<1> QED BY <1>2, <1>3, <1>4

\* A task gives back its references to the paths of ps, which it does not hold
\* afterwards: entries lose one holder and one count.
LEMMA GiveBack ==
  ASSUME StorageInv, NEW c \in Cids, NEW ps, NEW rdyn, NEW p \in Paths \ redone,
         \A d \in Cids \ {c} : task'[d] = task[d],
         p \in ps => Holds(task[c], p) /\ ~Holds(task'[c], p) /\ storages[p].dev # "empty",
         p \notin ps => (Holds(task'[c], p) <=> Holds(task[c], p)),
         p \in ready /\ p \notin LastRefs(ps) => p \in rdyn,
         p \in task'[c].mounts => p \in task[c].mounts,
         task'[c].pc \in {"failed", "gone"},
         task'[c].pc = "gone" \/ (/\ task'[c].early = task[c].early /\ task'[c].mounts = task[c].mounts
                                  /\ task'[c].req = task[c].req /\ task'[c].todo = task[c].todo
                                  /\ task[c].pc # "gone")
  PROVE  EntryOk(task', Release(ps)[p], rdyn, p)
<1> DEFINE s == storages[p]
           r == Release(ps)[p]
           n == Cardinality(Holders(task, p))
           m == Cardinality(Holders(task', p))
<1>1. /\ EntryOk(task, s, ready, p) /\ storages \in [Paths -> EntryType] /\ s \in EntryType
      /\ s.count \in Nat
  BY DEF StorageInv, StorageType, EntryType
<1>2. ~CreatesIn(task'[c], p)
  BY DEF CreatesIn, CreatingPcs
<1>3. \A a, d \in Cids : CreatesIn(task'[a], p) /\ CreatesIn(task'[d], p) => a = d
  BY <1>1, <1>2 DEF EntryOk
<1>4. n \in Nat /\ m \in Nat
      /\ m = n + (IF Holds(task'[c], p) THEN 1 ELSE 0) - (IF Holds(task[c], p) THEN 1 ELSE 0)
  BY HoldersStep
<1>5. n <= s.count /\ (s.dev = "path" => s.count = n) /\ (s.dev = "empty" => n < s.count)
  BY <1>1 DEF EntryOk
<1>6. \A d \in Cids : TaskOk(task[d], s, ready, p)
  BY <1>1 DEF EntryOk
<1>7. p \in ps => n >= 1
  BY HoldersAtLeast
<1>8. /\ p \notin ps => r = s
      /\ p \in ps /\ s.count > 1 => r.count = s.count - 1 /\ r.dev = s.dev
      /\ p \in ps /\ s.count = 1 => r.count = 0 /\ r.dev = "vacant"
  BY <1>1, ReleaseFacts
<1> HIDE DEF s, r, n, m
<1>9. /\ m <= r.count /\ (r.dev = "path" => r.count = m) /\ (r.dev = "empty" => m < r.count)
  <2>1. CASE p \notin ps
    <3>1. r = s /\ m = n
      BY <2>1, <1>4, <1>8
    <3> QED BY <3>1, <1>5
  <2>2. CASE p \in ps
    <3>1. m = n - 1 /\ n >= 1 /\ s.dev # "empty" /\ s.count >= 1
      BY <2>2, <1>1, <1>4, <1>5, <1>7 DEF s
    <3>2. CASE s.count = 1
      <4>1. r.count = 0 /\ r.dev = "vacant"
        BY <2>2, <3>2, <1>8
      <4> QED BY <3>1, <3>2, <4>1, <1>4, <1>5
    <3>3. CASE s.count > 1
      <4>1. r.count = s.count - 1 /\ r.dev = s.dev
        BY <2>2, <3>3, <1>8
      <4> QED BY <3>1, <4>1, <1>1, <1>4, <1>5
    <3> QED BY <3>1, <3>2, <3>3, <1>1
  <2> QED BY <2>1, <2>2
<1>10. r.dev = s.dev \/ (r.dev = "vacant" /\ \A d \in Cids \ {c} : ~Holds(task[d], p))
  <2>1. CASE p \notin ps
    BY <2>1, <1>8
  <2>2. CASE p \in ps
    <3>1. s.count >= 1 /\ n >= 1
      BY <2>2, <1>1, <1>4, <1>5, <1>7
    <3>2. CASE s.count = 1
      <4>1. n = 1 /\ Holds(task[c], p)
        BY <2>2, <3>1, <3>2, <1>4, <1>5
      <4>2. \A d \in Cids \ {c} : ~Holds(task[d], p)
        BY <4>1, HoldersAtLeast DEF n
      <4> QED BY <4>2, <2>2, <3>2, <1>8
    <3>3. CASE s.count > 1
      BY <2>2, <3>3, <1>8
    <3> QED BY <3>1, <3>2, <3>3, <1>1
  <2> QED BY <2>1, <2>2
<1>11. p \in ready /\ r.dev \in {"path", "empty", "none"} => p \in rdyn
  <2>1. p \in LastRefs(ps) => p \in ps /\ s.count = 1
    BY DEF LastRefs, s
  <2> QED BY <2>1, <1>8
<1>12. r.dev \in {"path", "empty"} => p \in rdyn
  BY <1>1, <1>10, <1>11 DEF EntryOk
<1>13. ASSUME NEW d \in Cids \ {c}
       PROVE  TaskOk(task'[d], r, rdyn, p)
  <2>1. TaskOk(task[d], s, ready, p) /\ task'[d] = task[d]
    BY <1>6
  <2>2. CASE r.dev = s.dev
    <3>1. task[d].pc = "update" /\ Head(task[d].todo) = p => p \in rdyn
      BY <2>1, <2>2, <1>11 DEF TaskOk, CreatesIn, CreatingPcs
    <3> QED BY <2>1, <2>2, <3>1, ZenonT(40) DEF TaskOk
  <2>3. CASE r.dev = "vacant" /\ ~Holds(task[d], p)
    <3>1. s.dev # "empty" \/ r = s
      BY <1>8 DEF s
    <3>2. CASE r = s
      BY <2>2, <3>2
    <3>3. CASE s.dev # "empty"
      BY <2>1, <2>3, <3>3, ZenonT(40) DEF TaskOk, Holds, CreatesIn, CreatingPcs
    <3> QED BY <3>1, <3>2, <3>3
  <2> QED BY <2>2, <2>3, <1>10
<1>14. TaskOk(task'[c], r, rdyn, p)
  <2>1. TaskOk(task[c], s, ready, p)
    BY <1>6
  <2>2. p \in task'[c].mounts => r.dev = "path"
    <3> SUFFICES ASSUME p \in task'[c].mounts PROVE r.dev = "path"
      OBVIOUS
    <3>1. p \notin ps
      BY DEF Holds
    <3> QED BY <3>1, <2>1, <1>8 DEF TaskOk
  <2>3. ASSUME task'[c].pc # "gone", p \in Range(task'[c].req) \ Range(task'[c].todo)
        PROVE  p \in task'[c].early \/ p \in task'[c].mounts \/ r.dev = "empty"
    <3>1. p \in task'[c].early \/ p \in task'[c].mounts \/ s.dev = "empty"
      BY <2>1, <2>3 DEF TaskOk
    <3>2. s.dev = "empty" => r = s
      BY <1>8 DEF s
    <3> QED BY <3>1, <3>2
  <2> QED BY <1>2, <2>2, <2>3, ZenonT(40) DEF TaskOk
<1>15. \A d \in Cids : TaskOk(task'[d], r, rdyn, p)
  BY <1>13, <1>14
<1> QED BY <1>3, <1>9, <1>12, <1>15 DEF EntryOk, m, r

\* DropStorage: the only creator gives up the reference to its placeholder.
LEMMA DropInv ==
  ASSUME StorageInv, NEW c \in Cids, DropStorage(c), UNCHANGED redone
  PROVE  StorageInv'
<1> DEFINE t == task[c]
           u == task'[c]
           q == Path(c)
<1>1. t \in TaskType /\ TaskShape(t, uevents) /\ task \in [Cids -> TaskType] /\ t.pc = "drop"
  BY DEF StorageInv, StorageType, DropStorage, At
<1>2. /\ uevents' = uevents /\ redone' = redone /\ redone \subseteq Paths
      /\ ready \subseteq Paths /\ storages \in [Paths -> EntryType]
      /\ storages' = Release({q}) /\ ready' = ready \ LastRefs({q})
  BY DEF DropStorage, StorageInv, StorageType
<1>3. /\ task' \in [Cids -> TaskType] /\ \A d \in Cids \ {c} : task'[d] = task[d]
      /\ u.pc = "failed" /\ u.req = t.req /\ u.todo = t.todo /\ u.mounts = t.mounts
      /\ u.watch = t.watch /\ u.early = t.early
  BY <1>1, ZenonT(40) DEF DropStorage, Go, TaskType, Pcs
<1>4. TaskShape(u, uevents)
  BY <1>1, <1>3 DEF TaskShape, CreatingPcs
<1>5. q = Head(t.todo) /\ q \notin t.mounts
  <2>1. t.todo # <<>> /\ t.todo \in Seq(Paths)
    BY <1>1 DEF TaskShape, CreatingPcs, TaskType
  <2>2. q \in Range(t.todo)
    BY <1>1, <2>1, TodoFacts DEF TaskShape, Path
  <2> QED BY <1>1, <2>2 DEF Path, TaskShape
<1>6. ASSUME NEW p \in Paths \ redone
      PROVE  EntryOk(task', Release({q})[p], ready', p)
  <2>1. TaskOk(t, storages[p], ready, p)
    BY DEF StorageInv, EntryOk
  <2>2. p = q => Holds(t, p) /\ ~Holds(u, p) /\ storages[p].dev # "empty"
    BY <1>1, <1>3, <1>5, <2>1 DEF Holds, CreatesIn, CreatingPcs, TaskOk
  <2>3. p # q => (Holds(u, p) <=> Holds(t, p))
    BY <1>1, <1>3, <1>5 DEF Holds, CreatesIn, CreatingPcs
  <2>4. p \in ready /\ p \notin LastRefs({q}) => p \in ready'
    BY <1>2
  <2>5. p \in {q} <=> p = q
    OBVIOUS
  <2>6. /\ p \in {q} => Holds(task[c], p) /\ ~Holds(task'[c], p) /\ storages[p].dev # "empty"
        /\ p \notin {q} => (Holds(task'[c], p) <=> Holds(task[c], p))
        /\ p \in task'[c].mounts => p \in task[c].mounts
        /\ task'[c].pc \in {"failed", "gone"}
        /\ (/\ task'[c].early = task[c].early /\ task'[c].mounts = task[c].mounts
            /\ task'[c].req = task[c].req /\ task'[c].todo = task[c].todo
            /\ task[c].pc # "gone")
        /\ \A d \in Cids \ {c} : task'[d] = task[d]
    BY <1>1, <1>3, <2>2, <2>3
  <2> HIDE DEF q
  <2> QED BY <2>4, <2>6, GiveBack
<1>7. storages' \in [Paths -> EntryType] /\ ready' \subseteq Paths
  BY <1>2, ReleaseType
<1>8. \A p \in Paths \ redone' : EntryOk(task', storages'[p], ready', p)
  BY <1>2, <1>6
<1> QED BY <1>2, <1>3, <1>4, <1>7, <1>8, TaskStep, ZenonT(40)

\* remove_container_resources: the container gives back all that is on its list.
LEMMA RemoveInv ==
  ASSUME StorageInv, NEW c \in Cids, remove_container_resources(c), UNCHANGED redone,
         task' = [task EXCEPT ![c].pc = "gone", ![c].mounts = {}],
         task[c].pc \in {"add", "live", "destroyed"}
  PROVE  StorageInv'
<1> DEFINE t == task[c]
           u == task'[c]
<1>1. t \in TaskType /\ TaskShape(t, uevents) /\ task \in [Cids -> TaskType]
  BY DEF StorageInv, StorageType
<1>2. PICK busy \in SUBSET LastRefs(t.mounts) : ready' = ready \ (LastRefs(t.mounts) \ busy)
  BY DEF remove_container_resources
<1>3. /\ uevents' = uevents /\ redone' = redone /\ redone \subseteq Paths
      /\ ready \subseteq Paths /\ storages \in [Paths -> EntryType]
      /\ storages' = Release(t.mounts)
  BY DEF remove_container_resources, StorageInv, StorageType
<1>4. /\ task' \in [Cids -> TaskType] /\ \A d \in Cids \ {c} : task'[d] = task[d]
      /\ u.pc = "gone" /\ u.todo = t.todo /\ u.mounts = {} /\ u.watch = t.watch
  BY <1>1, Zenon DEF TaskType, Pcs
<1>5. TaskShape(u, uevents)
  BY <1>1, <1>4 DEF TaskShape, CreatingPcs
<1>6. ASSUME NEW p \in Paths \ redone
      PROVE  EntryOk(task', Release(t.mounts)[p], ready', p)
  <2>1. TaskOk(t, storages[p], ready, p)
    BY DEF StorageInv, EntryOk
  <2>2. ~Holds(u, p) /\ (Holds(t, p) <=> p \in t.mounts)
    BY <1>4 DEF Holds, CreatesIn, CreatingPcs
  <2>3. p \in t.mounts => storages[p].dev # "empty"
    BY <2>1 DEF TaskOk
  <2>4. p \in ready /\ p \notin LastRefs(t.mounts) => p \in ready'
    BY <1>2
  <2>5. /\ p \in t.mounts => Holds(task[c], p) /\ ~Holds(task'[c], p) /\ storages[p].dev # "empty"
        /\ p \notin t.mounts => (Holds(task'[c], p) <=> Holds(task[c], p))
        /\ p \in task'[c].mounts => p \in task[c].mounts
        /\ task'[c].pc = "gone"
        /\ \A d \in Cids \ {c} : task'[d] = task[d]
    BY <1>4, <2>2, <2>3
  <2> QED BY <2>4, <2>5, GiveBack, Zenon
<1>7. storages' \in [Paths -> EntryType] /\ ready' \subseteq Paths
  BY <1>2, <1>3, ReleaseType
<1>8. \A p \in Paths \ redone' : EntryOk(task', storages'[p], ready', p)
  BY <1>3, <1>6, Zenon
<1> QED BY <1>3, <1>4, <1>5, <1>7, <1>8, TaskStep, Zenon

-----------------------------------------------------------------------------
\* Initially nobody holds anything.
LEMMA StorageInit ==
  Init => StorageInv
<1> SUFFICES ASSUME Init PROVE StorageInv
  OBVIOUS
<1>1. Vacant \in EntryType /\ Vacant.dev = "vacant" /\ Vacant.count = 0
  BY DEF Vacant, EntryType, Devs
<1>2. /\ Idle \in TaskType /\ Idle.pc = "idle" /\ Idle.mounts = {} /\ Idle.todo = <<>>
      /\ Idle.req = <<>> /\ Idle.watch = FALSE
  BY DEF Idle, TaskType, Pcs, Devs
<1>3. Range(<<>>) = {} /\ IsInjective(<<>>)
  BY DEF Range, IsInjective
<1>4. TaskShape(Idle, uevents)
  BY <1>2, <1>3 DEF TaskShape, CreatingPcs
<1>5. \A c \in Cids : task[c] = Idle
  BY DEF Init
<1>6. StorageType
  BY <1>1, <1>2, <1>4, <1>5 DEF Init, StorageType
<1>7. ASSUME NEW p \in Paths
      PROVE  EntryOk(task, storages[p], ready, p)
  <2>1. storages[p] = Vacant
    BY DEF Init
  <2>2. ~Holds(Idle, p) /\ ~CreatesIn(Idle, p)
    BY <1>2 DEF Holds, CreatesIn, CreatingPcs
  <2>3. Holders(task, p) = {}
    BY <2>2, <1>5 DEF Holders
  <2>4. Cardinality(Holders(task, p)) = 0
    BY <2>3, FS_EmptySet
  <2>5. TaskOk(Idle, Vacant, ready, p)
    BY <2>2, <1>2, <1>3 DEF TaskOk
  <2> QED BY <2>1, <2>2, <2>4, <2>5, <1>1, <1>5 DEF EntryOk
<1> QED BY <1>6, <1>7 DEF StorageInv

\* Every step of every task, and every uevent, preserves the invariant.
LEMMA StorageNext ==
  StorageInv /\ [Next]_vars => StorageInv'
<1> SUFFICES ASSUME StorageInv, [Next]_vars PROVE StorageInv'
  OBVIOUS
<1>1. CASE UNCHANGED vars
  BY <1>1 DEF vars, StorageInv, StorageType
<1>2. ASSUME NEW c \in Cids, ref_count(c) PROVE StorageInv'
  BY <1>2, RefCountInv
<1>3. ASSUME NEW p \in Block, process_add(p) \/ process_remove(p), UNCHANGED redone
      PROVE  StorageInv'
  BY <1>3, AnnouncedInv, WithdrawnInv
<1>4. ASSUME NEW c \in Cids, UNCHANGED redone,
             \/ do_create_container(c) \/ add_sandbox_storage(c) \/ wait_for_uevent(c)
             \/ UeventGiveUp(c) \/ update_sandbox_storage(c) \/ DropStorage(c)
      PROVE  StorageInv'
  BY <1>4, CreateInv, AddInv, WaitInv, GiveUpInv, UpdateInv, DropInv
<1>5. ASSUME NEW c \in Cids, UNCHANGED redone,
             \/ UeventReceived(c) \/ UeventTimeout(c) \/ create_device(c)
             \/ StartContainer(c) \/ do_remove_container(c)
      PROVE  StorageInv'
  <2>1. /\ TaskShape(task[c], uevents) /\ task[c] \in TaskType
        /\ ready \subseteq Paths
    BY DEF StorageInv, StorageType
  <2>2. CASE UeventReceived(c)
    <3>1. ~task[c].watch
      BY <2>1, <2>2 DEF UeventReceived, TaskShape
    <3> QED BY <3>1, <2>1, <2>2, <1>5, GoStep DEF UeventReceived, At, Pcs, CreatingPcs
  <2>3. CASE UeventTimeout(c)
    BY <2>1, <2>3, <1>5, GoStep DEF UeventTimeout, At, Pcs, CreatingPcs
  <2>4. CASE create_device(c)
    <3>1. ~task[c].watch /\ task[c].pc = "mount" /\ Path(c) \in Paths
      <4>1. task[c].pc = "mount"
        BY <2>4 DEF create_device, At
      <4>2. task[c].todo # <<>> /\ task[c].todo \in Seq(Paths)
        BY <2>1, <4>1 DEF TaskShape, TaskType, CreatingPcs
      <4> QED BY <2>1, <4>1, <4>2 DEF TaskShape, Path
    <3>2. CASE ready' = ready \cup {Path(c)} /\ Go(c, "update")
      BY <3>1, <3>2, <2>1, <2>4, <1>5, GoStep, ZenonT(40) DEF create_device, Pcs, CreatingPcs
    <3>3. CASE Go(c, "drop") /\ UNCHANGED ready
      BY <3>1, <3>3, <2>1, <2>4, <1>5, GoStep DEF create_device, Pcs, CreatingPcs
    <3> QED BY <2>4, <3>2, <3>3 DEF create_device
  <2>5. ASSUME NEW pc \in {"live", "failed", "destroyed"}, Go(c, pc),
               UNCHANGED <<storages, ready, uevents>>, task[c].pc \in {"add", "live"},
               task[c].todo = <<>>
        PROVE  StorageInv'
    <3>1. ~task[c].watch
      BY <2>1, <2>5 DEF TaskShape
    <3> QED BY <3>1, <2>1, <2>5, <1>5, GoStep DEF Pcs, CreatingPcs
  <2>6. CASE StartContainer(c)
    <3>1. task[c].pc = "add" /\ task[c].todo = <<>>
      BY <2>6 DEF StartContainer, At
    <3>2. CASE remove_container_resources(c) /\ task' =
          [task EXCEPT ![c].pc = "gone", ![c].mounts = {}]
      BY <3>1, <3>2, <1>5, RemoveInv, ZenonT(40)
    <3>3. CASE (Go(c, "live") \/ Go(c, "failed")) /\ UNCHANGED <<storages, ready, uevents>>
      BY <3>1, <3>3, <2>5
    <3> QED BY <2>6, <3>2, <3>3 DEF StartContainer
  <2>7. CASE do_remove_container(c)
    <3>1. CASE At(c, "live") /\ Go(c, "destroyed") /\ UNCHANGED <<storages, ready, uevents>>
      BY <3>1, <2>1, <2>5 DEF At, TaskShape
    <3>2. CASE /\ At(c, "live") \/ At(c, "destroyed")
               /\ remove_container_resources(c)
               /\ task' = [task EXCEPT ![c].pc = "gone", ![c].mounts = {}]
      BY <3>2, <1>5, RemoveInv, Zenon DEF At
    <3> QED BY <2>7, <3>1, <3>2 DEF do_remove_container
  <2> QED BY <1>5, <2>2, <2>3, <2>4, <2>6, <2>7
<1> QED BY <1>1, <1>2, <1>3, <1>4, <1>5 DEF Next

\* The invariant holds throughout.
LEMMA StorageInvariant ==
  Spec => []StorageInv
BY StorageInit, StorageNext, PTL DEF Spec

\* The device of a storage is never created by two requests at a time (the read of the
\* count after add_sandbox_storage), for any number of containers and paths, unless
\* it was created over an existing one.
THEOREM StorageOneCreator ==
  Spec => []OneCreator
<1>1. StorageInv => OneCreator
  <2> SUFFICES ASSUME StorageInv, NEW c \in Cids, NEW d \in Cids, Creating(c), Creating(d),
                      Path(c) = Path(d), Path(c) \notin redone
               PROVE  c = d
    BY DEF OneCreator
  <2>1. CreatesIn(task[c], Path(c)) /\ CreatesIn(task[d], Path(c))
    BY DEF CreatesIn, CreatingPcs, Creating, Path
  <2>2. Path(c) \in Paths
    <3>1. task[c].todo # <<>> /\ task[c].todo \in Seq(Paths)
      BY <2>1 DEF StorageInv, StorageType, TaskShape, TaskType, CreatesIn
    <3> QED BY <3>1 DEF Path
  <2>3. EntryOk(task, storages[Path(c)], ready, Path(c))
    BY <2>2 DEF StorageInv
  <2> QED BY <2>1, <2>3 DEF EntryOk
<1> QED BY <1>1, StorageInvariant, PTL

\* The count of a storage with a named device is the number of those that will give it
\* back, so that the last remove_container_resources cleans it up and no earlier one.
THEOREM StorageRefsExact ==
  Spec => []RefsExact
<1>1. StorageInv => RefsExact
  <2> SUFFICES ASSUME StorageInv, NEW p \in Paths \ redone, storages[p].dev = "path"
               PROVE  storages[p].count = Cardinality(
                        {c \in Cids : \/ p \in task[c].mounts
                                      \/ At(c, "check") /\ Path(c) = p /\ task[c].seen = "path"})
    BY DEF RefsExact
  <2>1. EntryOk(task, storages[p], ready, p)
    BY DEF StorageInv
  <2>2. ASSUME NEW c \in Cids
        PROVE  Holds(task[c], p) <=> \/ p \in task[c].mounts
                                     \/ At(c, "check") /\ Path(c) = p /\ task[c].seen = "path"
    <3>1. TaskOk(task[c], storages[p], ready, p)
      BY <2>1 DEF EntryOk
    <3> QED BY <3>1 DEF TaskOk, Holds, At, Path
  <2>3. Holders(task, p) = {c \in Cids : \/ p \in task[c].mounts
                                         \/ At(c, "check") /\ Path(c) = p /\ task[c].seen = "path"}
    BY <2>2 DEF Holders
  <2> QED BY <2>1, <2>3 DEF EntryOk
<1> QED BY <1>1, StorageInvariant, PTL

\* What a live container has requested stays mounted while others come and go.
THEOREM StorageLiveMounted ==
  Spec => []LiveMounted
<1>1. StorageInv => LiveMounted
  <2> SUFFICES ASSUME StorageInv, NEW c \in Cids, At(c, "live"),
                      NEW p \in Range(task[c].req), p \notin task[c].early, p \notin redone
               PROVE  p \in ready
    BY DEF LiveMounted
  <2>1. task[c] \in TaskType /\ TaskShape(task[c], uevents)
    BY DEF StorageInv, StorageType
  <2>2. p \in Paths
    BY <2>1 DEF TaskType, Range
  <2>3. EntryOk(task, storages[p], ready, p) /\ TaskOk(task[c], storages[p], ready, p)
    BY <2>2 DEF StorageInv, EntryOk
  <2>4. Range(task[c].todo) = {}
    <3>1. task[c].todo = <<>>
      BY <2>1 DEF TaskShape, At
    <3> QED BY <3>1 DEF Range
  <2>5. p \in task[c].mounts \/ storages[p].dev = "empty"
    BY <2>3, <2>4 DEF TaskOk, At
  <2> QED BY <2>3, <2>5 DEF EntryOk, TaskOk
<1> QED BY <1>1, StorageInvariant, PTL

\* No announcement is lost between the look into uevent_map and the registration of
\* the watcher (wait_for_uevent, process_add).
THEOREM StorageNoMissedUevent ==
  Spec => []NoMissedUevent
<1>1. StorageInv => NoMissedUevent
  BY DEF StorageInv, StorageType, TaskShape, NoMissedUevent, At, Path
<1> QED BY <1>1, StorageInvariant, PTL
=============================================================================
