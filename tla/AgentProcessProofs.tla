------------------------- MODULE AgentProcessProofs -------------------------
(***************************************************************************)
(* No exit of a process is lost, and every waiter gets the exit code, for  *)
(* any number of exec processes and waiters. The handshake and the fifo    *)
(* matter for these only in that the lock is held: the reaper cannot look  *)
(* for a process that is being registered, and no request sees half a      *)
(* container. Then the handshake: its two sides stay in step.              *)
(***************************************************************************)
EXTENDS AgentProcess, TLAPS

\* The provers a step is given to, in turn, where it does not name one.
USE SMTT(10), ZenonT(20), SMTT(40)
USE ExecsAssumption

Pipe == [n : Nat, closed : BOOLEAN]
ProcType ==
  [k : {"none", "setup", "ready", "fifo", "run", "zombie", "gone"}, at : Nat, up : Pipe,
   down : Nat, reg : BOOLEAN, code : BOOLEAN]
WaitType == [pc : {"idle", "rx", "lock", "end"}, p : Procs, res : {"none", "code", "error"}]
OpType == [kind : {"none", "create", "exec", "start"}, p : Procs, at : Nat]
CtrType ==
  [status : {"none", "Created", "Running", "Paused", "Stopped"}, known : BOOLEAN,
   started : BOOLEAN, frozen : BOOLEAN]

Types ==
  /\ op \in OpType
  /\ ctr \in CtrType
  /\ proc \in [Procs -> ProcType]
  /\ reap \in Procs \cup {"none"}
  /\ wait \in [Waiters -> WaitType]

Spawning == op.kind \in {"create", "exec"}

\* A process that died while it is being registered is in the hands of the reaper, which
\* waits for the lock.
InHand == Spawning /\ proc[op.p].k = "gone" => reap = op.p

\* A container is created once, and no request knows of it before.
CreatedOnce ==
  /\ op.kind = "create" => ctr.status = "none"
  /\ op.kind = "exec" => op.p # "init"
  /\ ctr.status = "none" => ~ctr.known

\* A waiter is with a registered process of the container, or was sent the code.
WaitsForKnown ==
  \A w \in Waiters :
    /\ ctr.status = "none" => wait[w].pc = "idle" /\ wait[w].res = "none"
    /\ ctr.known /\ wait[w].pc \in {"rx", "lock"} => proc[wait[w].p].reg \/ wait[w].res = "code"

Inv == Types /\ InHand /\ CreatedOnce /\ WaitsForKnown /\ ExitRecorded /\ WaitersGetCode

-----------------------------------------------------------------------------
\* The invariant holds before the first process is started.
LEMMA InitInv == Init => Inv
BY DEF Init, Inv, Types, OpType, CtrType, ProcType, WaitType, Pipe, None, NoProc, Spawning, InHand,
  CreatedOnce, WaitsForKnown, ExitRecorded, WaitersGetCode, Procs

\* What Inv says of the processes is which are gone, registered and recorded.
SameProcs ==
  \A q \in Procs : /\ proc'[q].reg = proc[q].reg /\ proc'[q].code = proc[q].code
                   /\ proc'[q].k = "gone" <=> proc[q].k = "gone"

\* A step that changes none of this preserves Inv, be it in a request or at its end.
LEMMA SameInv ==
  ASSUME Inv, SameProcs, proc' \in [Procs -> ProcType], op' \in OpType,
         op'.kind = "none" \/ (op'.kind = op.kind /\ op'.p = op.p),
         UNCHANGED <<ctr, reap, wait>>
  PROVE  Inv'
<1>1. Types' BY DEF Inv, Types
<1>2. InHand' BY DEF Inv, Types, OpType, SameProcs, Spawning, InHand
<1>3. CreatedOnce' BY DEF Inv, CreatedOnce
<1>4. WaitsForKnown' BY DEF Inv, Types, WaitType, SameProcs, WaitsForKnown
<1>5. (ExitRecorded /\ WaitersGetCode)' BY DEF Inv, SameProcs, ExitRecorded, WaitersGetCode
<1> QED BY <1>1, <1>2, <1>3, <1>4, <1>5 DEF Inv

\* A process that dies is a zombie, as registered and as recorded as before.
LEMMA DeadType ==
  \A q \in ProcType : /\ Dead(q) \in ProcType /\ Dead(q).k = "zombie"
                      /\ Dead(q).reg = q.reg /\ Dead(q).code = q.code
BY DEF Dead, ProcType, Pipe

\* One process changes, without being reaped, registered or recorded.
LEMMA OneProc ==
  ASSUME Inv, NEW p \in Procs, NEW r \in ProcType, proc' = [proc EXCEPT ![p] = r],
         r.reg = proc[p].reg, r.code = proc[p].code, r.k # "gone", proc[p].k # "gone"
  PROVE  SameProcs /\ proc' \in [Procs -> ProcType]
BY DEF Inv, Types, SameProcs

\* The steps of the child preserve the invariant.
LEMMA ChildInv ==
  ASSUME Inv, NEW p \in Procs, ChildStep(p) \/ ProcDies(p) \/ ChildOpensFifo
  PROVE  Inv'
<1>1. UNCHANGED <<op, ctr, reap, wait>> BY DEF ChildStep, ProcDies, ChildOpensFifo
<1>2. proc[p] \in ProcType /\ "init" \in Procs /\ proc["init"] \in ProcType /\ op \in OpType
  BY DEF Inv, Types, Procs
<1>3. SameProcs /\ proc' \in [Procs -> ProcType]
  <2>1. CASE proc' = [proc EXCEPT ![p] = Dead(@)] /\ proc[p].k # "gone"
    <3>1. proc' = [proc EXCEPT ![p] = Dead(proc[p])] BY <2>1
    <3> QED BY <3>1, <2>1, <1>2, DeadType, OneProc
  <2>2. CASE ProcDies(p) BY <2>1, <2>2 DEF ProcDies, Alive
  <2>3. CASE ChildOpensFifo
    <3> DEFINE r == [proc["init"] EXCEPT !.k = "fifo"]
    <3>1. r \in ProcType /\ r.reg = proc["init"].reg /\ r.code = proc["init"].code /\ r.k = "fifo"
      BY <1>2 DEF ProcType
    <3>2. proc' = [proc EXCEPT !["init"] = r] /\ proc["init"].k # "gone"
      BY <2>3 DEF ChildOpensFifo
    <3> HIDE DEF r
    <3> QED BY <3>1, <3>2, <1>2, OneProc
  <2>4. CASE ChildStep(p) /\ ~(proc' = [proc EXCEPT ![p] = Dead(@)])
    <3>1. proc[p].k = "setup" BY <2>4 DEF ChildStep
    <3> DEFINE sent == [proc[p] EXCEPT !.at = @ + 1, !.up.n = @ + 1]
               received == [proc[p] EXCEPT !.at = @ + 1, !.down = @ - 1]
               done == [proc[p] EXCEPT !.at = @ + 1]
               end == [proc[p] EXCEPT !.k = IF p = "init" THEN "ready" ELSE "run",
                                      !.up.closed = TRUE]
               Fits(r) == r \in ProcType /\ r.reg = proc[p].reg /\ r.code = proc[p].code
                          /\ r.k # "gone"
    <3>2. /\ Fits(sent) /\ Fits(done) /\ Fits(end)
          /\ proc[p].down > 0 => Fits(received)
      <4>0. proc[p].at + 1 \in Nat /\ [proc[p].up EXCEPT !.n = @ + 1] \in Pipe
        BY <1>2 DEF ProcType, Pipe
      <4>1. Fits(sent)
        <5>1. sent = [proc[p] EXCEPT !.at = proc[p].at + 1, !.up = [proc[p].up EXCEPT !.n = @ + 1]]
          BY <1>2 DEF ProcType
        <5> HIDE DEF sent
        <5> QED BY <1>2, <3>1, <4>0, <5>1 DEF ProcType
      <4>2. Fits(done) BY <1>2, <3>1 DEF ProcType
      <4>3. Fits(end) BY <1>2, <3>1 DEF ProcType, Pipe
      <4>4. proc[p].down > 0 => Fits(received)
        <5>1. proc[p].down > 0 => proc[p].down - 1 \in Nat BY <1>2 DEF ProcType
        <5> QED BY <1>2, <3>1, <4>0, <5>1 DEF ProcType
      <4> QED BY <4>1, <4>2, <4>3, <4>4
    <3>3. \/ proc' = [proc EXCEPT ![p] = sent]
          \/ proc[p].down > 0 /\ proc' = [proc EXCEPT ![p] = received]
          \/ proc' = [proc EXCEPT ![p] = done]
          \/ proc' = [proc EXCEPT ![p] = end]
      BY <2>4 DEF ChildStep, Inv, Types
    <3>4. PICK r : Fits(r) /\ proc' = [proc EXCEPT ![p] = r]
      <4> HIDE DEF sent, received, done, end, Fits
      <4> QED BY <3>2, <3>3
    <3> QED BY <3>1, <3>4, OneProc
  <2> QED BY <2>1, <2>2, <2>3, <2>4 DEF ChildStep
<1> QED BY <1>1, <1>2, <1>3, SameInv

\* LinuxContainer::start and join_namespaces.
LEMMA ParentInv ==
  ASSUME Inv, ParentStep
  PROVE  Inv'
<1> DEFINE p == op.p
           q == proc[p]
<1>1. /\ p \in Procs /\ q \in ProcType /\ op \in OpType
      /\ [op EXCEPT !.at = @ + 1] \in OpType /\ None \in OpType
      /\ [op EXCEPT !.at = @ + 1].kind = op.kind /\ [op EXCEPT !.at = @ + 1].p = op.p
      /\ None.kind = "none"
  BY DEF Inv, Types, OpType, None, Procs
<1>2. UNCHANGED <<reap, wait>> /\ Spawning BY DEF ParentStep, Spawning
<1>3. CASE proc' = proc /\ op' = [op EXCEPT !.at = @ + 1] /\ ctr' = ctr
  <2>1. SameProcs /\ proc' \in [Procs -> ProcType] BY <1>3 DEF SameProcs, Inv, Types
  <2> QED BY <1>1, <1>2, <1>3, <2>1, SameInv
<1>4. CASE /\ proc' = [proc EXCEPT ![p].up.n = @ - 1] /\ q.up.n > 0
           /\ op' = [op EXCEPT !.at = @ + 1] /\ ctr' = ctr
  <2>1. [q EXCEPT !.up.n = @ - 1] \in ProcType BY <1>1, <1>4 DEF ProcType, Pipe
  <2>2. SameProcs /\ proc' \in [Procs -> ProcType]
    BY <1>1, <1>4, <2>1 DEF SameProcs, Inv, Types, ProcType
  <2> QED BY <1>1, <1>2, <1>4, <2>2, SameInv
<1>5. CASE /\ proc' = [proc EXCEPT ![p].down = @ + 1]
           /\ op' = [op EXCEPT !.at = @ + 1] /\ ctr' = ctr
  <2>1. [q EXCEPT !.down = @ + 1] \in ProcType BY <1>1 DEF ProcType
  <2>2. SameProcs /\ proc' \in [Procs -> ProcType]
    BY <1>1, <1>5, <2>1 DEF SameProcs, Inv, Types, ProcType
  <2> QED BY <1>1, <1>2, <1>5, <2>2, SameInv
<1>6. CASE StartFails
  <2>1. CASE Alive(p)
    <3>1. proc' = [proc EXCEPT ![p] = Dead(q)] /\ q.k # "gone" BY <1>6, <2>1 DEF StartFails, Alive
    <3>2. SameProcs /\ proc' \in [Procs -> ProcType] BY <3>1, <1>1, DeadType, OneProc
    <3> QED BY <1>1, <1>2, <1>6, <3>2, SameInv DEF StartFails
  <2>2. CASE ~Alive(p)
    <3>1. proc' = proc BY <1>1, <1>6, <2>2 DEF StartFails, Inv, Types
    <3>2. SameProcs /\ proc' \in [Procs -> ProcType] BY <3>1 DEF SameProcs, Inv, Types
    <3> QED BY <1>1, <1>2, <1>6, <3>2, SameInv DEF StartFails
  <2> QED BY <2>1, <2>2
<1>7. CASE /\ proc' = [proc EXCEPT ![p].up.n = @ - 1, ![p].reg = TRUE] /\ q.up.n > 0
           /\ op' = None
           /\ ctr' = IF p = "init" THEN [ctr EXCEPT !.status = "Created", !.known = TRUE] ELSE ctr
  <2>1. /\ [q EXCEPT !.up.n = @ - 1, !.reg = TRUE] \in ProcType
        /\ proc' = [proc EXCEPT ![p] = [q EXCEPT !.up.n = @ - 1, !.reg = TRUE]]
    <3>1. [q.up EXCEPT !.n = @ - 1] \in Pipe BY <1>1, <1>7 DEF ProcType, Pipe
    <3>2. [q EXCEPT !.up.n = @ - 1, !.reg = TRUE]
            = [q EXCEPT !.up = [q.up EXCEPT !.n = @ - 1], !.reg = TRUE]
      BY <1>1 DEF ProcType
    <3>3. [q EXCEPT !.up = [q.up EXCEPT !.n = @ - 1], !.reg = TRUE] \in ProcType
      BY <1>1, <3>1 DEF ProcType
    <3>4. proc' = [proc EXCEPT ![p] = [q EXCEPT !.up.n = @ - 1, !.reg = TRUE]]
      BY <1>1, <1>7 DEF Inv, Types
    <3> QED BY <3>2, <3>3, <3>4
  <2>2. /\ proc' \in [Procs -> ProcType]
        /\ \A r \in Procs : r # p => proc'[r] = proc[r]
        /\ proc'[p].reg /\ proc'[p].k = q.k /\ proc'[p].code = q.code
    BY <1>1, <2>1 DEF Inv, Types, ProcType
  <2>3. /\ ctr' \in CtrType
        /\ ctr'.status = "none" => ~ctr'.known
        /\ ctr' # ctr => ctr.status = "none"
    BY <1>1, <1>2, <1>7 DEF Inv, Types, CtrType, CreatedOnce, Spawning
  <2>4. (Types /\ InHand /\ CreatedOnce)'
    <3>1. op' \in OpType /\ op'.kind = "none" BY <1>1, <1>7
    <3>2. Types' BY <1>2, <2>2, <2>3, <3>1 DEF Inv, Types
    <3>3. (InHand /\ CreatedOnce)' BY <2>3, <3>1 DEF InHand, Spawning, CreatedOnce
    <3> QED BY <3>2, <3>3
  <2>5. WaitsForKnown'
    <3>1. CASE ctr' = ctr
      BY <1>1, <1>2, <2>2, <3>1 DEF Inv, Types, WaitType, WaitsForKnown
    <3>2. CASE ctr' # ctr
      BY <1>2, <1>7, <2>3, <3>2 DEF Inv, Types, CtrType, WaitsForKnown
    <3> QED BY <3>1, <3>2
  <2>6. ExitRecorded' BY <1>1, <1>2, <2>2 DEF Inv, ExitRecorded, InHand
  <2>7. WaitersGetCode' BY <1>2, <2>3 DEF Inv, WaitsForKnown, WaitersGetCode
  <2> QED BY <2>4, <2>5, <2>6, <2>7 DEF Inv
<1> QED BY <1>3, <1>4, <1>5, <1>6, <1>7 DEF ParentStep

\* execute_hook does not touch a process.
LEMMA HookInv ==
  ASSUME Inv, RunHook \/ HookExits
  PROVE  Inv'
<1>1. SameProcs /\ proc' \in [Procs -> ProcType]
  BY DEF RunHook, HookExits, SameProcs, Inv, Types
<1>2. op' \in OpType /\ op'.kind = op.kind /\ op'.p = op.p
  BY DEF RunHook, HookExits, Inv, Types, OpType
<1> QED BY <1>1, <1>2, SameInv DEF RunHook, HookExits

\* The requests that spawn a process.
LEMMA SpawnInv ==
  ASSUME Inv, do_create_container \/ \E p \in Execs : do_exec_process(p)
  PROVE  Inv'
<1>1. PICK p \in Procs :
        /\ Free /\ proc[p].k = "none" /\ proc' = [proc EXCEPT ![p].k = "setup"]
        /\ \/ p = "init" /\ ctr.status = "none" /\ op' = [kind |-> "create", p |-> p, at |-> 1]
           \/ p \in Execs /\ op' = [kind |-> "exec", p |-> p, at |-> 1]
        /\ UNCHANGED <<ctr, reap, wait>>
  BY DEF do_create_container, do_exec_process, Procs
<1>2. SameProcs /\ proc' \in [Procs -> ProcType]
  BY <1>1 DEF SameProcs, Inv, Types, ProcType
<1>3. /\ op' \in OpType /\ op'.p = p /\ op'.kind \in {"create", "exec"}
      /\ op'.kind = "create" => ctr.status = "none"
      /\ op'.kind = "exec" => p # "init"
  BY <1>1 DEF OpType
<1>4. proc'[p].k = "setup" BY <1>1 DEF Inv, Types, ProcType
<1>5. Types' BY <1>1, <1>2, <1>3 DEF Inv, Types
<1>6. (InHand /\ CreatedOnce)' BY <1>1, <1>3, <1>4 DEF Inv, InHand, CreatedOnce
<1>7. WaitsForKnown' BY <1>1, <1>2 DEF Inv, Types, WaitType, SameProcs, WaitsForKnown
<1>8. (ExitRecorded /\ WaitersGetCode)'
  BY <1>1, <1>2 DEF Inv, SameProcs, ExitRecorded, WaitersGetCode
<1> QED BY <1>5, <1>6, <1>7, <1>8 DEF Inv

\* The requests that change the status of a container they know.
LEMMA StatusInv ==
  ASSUME Inv, Pause \/ Resume \/ do_signal_process \/ do_start_container
  PROVE  Inv'
<1>1. /\ ctr' \in CtrType /\ ctr'.known = ctr.known
      /\ ctr'.status = "none" <=> ctr.status = "none"
  BY DEF Pause, Resume, do_signal_process, do_start_container, Inv, Types, CtrType, CreatedOnce
<1>2. /\ op' \in OpType /\ op'.kind \in {"none", "start"}
      /\ UNCHANGED <<proc, reap, wait>>
  BY DEF Pause, Resume, do_signal_process, do_start_container, Free, Inv, Types, OpType, Procs
<1>3. (Types /\ InHand /\ CreatedOnce)'
  BY <1>1, <1>2 DEF Inv, Types, InHand, Spawning, CreatedOnce
<1>4. (WaitsForKnown /\ ExitRecorded /\ WaitersGetCode)'
  BY <1>1, <1>2 DEF Inv, WaitsForKnown, ExitRecorded, WaitersGetCode
<1> QED BY <1>3, <1>4 DEF Inv

\* do_start_container after the fifo.
LEMMA StartWritesInv ==
  ASSUME Inv, StartWrites
  PROVE  Inv'
<1>1. SameProcs /\ proc' \in [Procs -> ProcType] /\ UNCHANGED <<reap, wait>>
  BY DEF StartWrites, SameProcs, Inv, Types, ProcType, Procs
<1>2. ctr' \in CtrType /\ ctr'.known = ctr.known /\ ctr'.status = "Running"
  BY DEF StartWrites, Inv, Types, CtrType
<1>3. op' \in OpType /\ op'.kind = "none" BY DEF StartWrites, None, OpType, Procs
<1>4. (Types /\ InHand /\ CreatedOnce)'
  BY <1>1, <1>2, <1>3 DEF Inv, Types, InHand, Spawning, CreatedOnce
<1>5. WaitsForKnown' BY <1>1, <1>2 DEF Inv, Types, WaitType, SameProcs, WaitsForKnown
<1>6. (ExitRecorded /\ WaitersGetCode)'
  BY <1>1, <1>2 DEF Inv, SameProcs, ExitRecorded, WaitersGetCode
<1> QED BY <1>4, <1>5, <1>6 DEF Inv

Forget(q) == [q EXCEPT !.reg = FALSE]

\* Removing a process from the table keeps its type.
LEMMA ForgetType ==
  \A q \in ProcType : /\ Forget(q) \in ProcType /\ Forget(q).reg = FALSE
                      /\ Forget(q).code = q.code /\ Forget(q).k = q.k
BY DEF Forget, ProcType

\* do_remove_container forgets the processes with the container.
LEMMA RemoveInv ==
  ASSUME Inv, do_remove_container
  PROVE  Inv'
<1> DEFINE Killed(K) == [p \in Procs |-> IF p \in K THEN Dead(proc[p]) ELSE proc[p]]
           Removed == [ctr EXCEPT !.status = "Stopped", !.known = FALSE]
           Stopped == [ctr EXCEPT !.status = "Stopped"]
<1>1. Free /\ ctr.known /\ UNCHANGED <<op, reap, wait>>
  BY DEF do_remove_container
<1>2. PICK K \in SUBSET {p \in Procs : proc[p].reg /\ Alive(p)} :
        \/ /\ ctr' \in {ctr, Stopped}
           /\ proc' = Killed(K)
        \/ /\ ctr' = Removed
           /\ proc' = [p \in Procs |-> Forget(Killed(K)[p])]
  BY Zenon DEF do_remove_container, Forget
<1>3. /\ Killed(K) \in [Procs -> ProcType]
      /\ \A p \in Procs : /\ Killed(K)[p].reg = proc[p].reg
                          /\ Killed(K)[p].code = proc[p].code
                          /\ Killed(K)[p].k = "gone" <=> proc[p].k = "gone"
  BY DeadType DEF Inv, Types, Alive
<1>4. /\ Removed \in CtrType /\ Removed.status = "Stopped" /\ Removed.known = FALSE
      /\ Stopped \in CtrType /\ Stopped.status = "Stopped" /\ Stopped.known = ctr.known
      /\ ctr \in CtrType /\ ctr.status # "none"
  BY <1>1 DEF Inv, Types, CtrType, CreatedOnce
<1> HIDE DEF Killed, Removed, Stopped
<1>5. CASE ctr' \in {ctr, Stopped} /\ proc' = Killed(K)
  <2>1. ctr' \in CtrType /\ ctr'.known = ctr.known /\ ctr'.status # "none" BY <1>4, <1>5
  <2>2. SameProcs /\ proc' \in [Procs -> ProcType]
    <3>1. proc' = Killed(K) BY <1>5
    <3>2. proc' \in [Procs -> ProcType] BY <1>3, <3>1
    <3>3. ASSUME NEW q \in Procs
          PROVE  /\ proc'[q].reg = proc[q].reg /\ proc'[q].code = proc[q].code
                 /\ proc'[q].k = "gone" <=> proc[q].k = "gone"
      BY <1>3, <3>1
    <3> QED BY <3>2, <3>3 DEF SameProcs
  <2>3. (Types /\ InHand /\ CreatedOnce)'
    BY <1>1, <2>1, <2>2 DEF Inv, Types, InHand, Spawning, CreatedOnce, Free
  <2>4. WaitsForKnown' BY <1>1, <2>1, <2>2 DEF Inv, Types, WaitType, SameProcs, WaitsForKnown
  <2>5. (ExitRecorded /\ WaitersGetCode)'
    BY <1>1, <2>1, <2>2 DEF Inv, SameProcs, ExitRecorded, WaitersGetCode
  <2> QED BY <2>3, <2>4, <2>5 DEF Inv
<1>6. CASE ctr' = Removed /\ proc' = [p \in Procs |-> Forget(Killed(K)[p])]
  <2>1. ctr' \in CtrType /\ ~ctr'.known /\ ctr'.status # "none" BY <1>4, <1>6
  <2>2. proc' \in [Procs -> ProcType] /\ \A p \in Procs : ~proc'[p].reg
    BY <1>3, <1>6, ForgetType
  <2>3. (Types /\ InHand /\ CreatedOnce)'
    BY <1>1, <2>1, <2>2 DEF Inv, Types, InHand, Spawning, CreatedOnce, Free
  <2>4. (WaitsForKnown /\ ExitRecorded /\ WaitersGetCode)'
    BY <1>1, <2>1, <2>2 DEF WaitsForKnown, ExitRecorded, WaitersGetCode
  <2> QED BY <2>3, <2>4 DEF Inv
<1> QED BY <1>2, <1>5, <1>6

\* handle_sigchild: the status is taken, and recorded once the lock is free.
LEMMA ReaperInv ==
  ASSUME Inv, Waitpid \/ find_process
  PROVE  Inv'
<1>1. CASE Waitpid /\ proc' = proc
  <2>1. SameProcs /\ proc' \in [Procs -> ProcType] BY <1>1 DEF SameProcs, Inv, Types
  <2>2. UNCHANGED <<op, ctr, reap, wait>> /\ op \in OpType
    BY <1>1 DEF Waitpid, Inv, Types, ProcType
  <2> QED BY <2>1, <2>2, SameInv
<1>2. CASE Waitpid /\ proc' # proc
  <2>1. PICK p \in Procs : /\ proc' = [proc EXCEPT ![p].k = "gone"]
                           /\ reap = "none" /\ reap' = p
                           /\ UNCHANGED <<op, ctr, wait>>
    BY <1>2 DEF Waitpid
  <2>2. /\ proc' \in [Procs -> ProcType]
        /\ \A q \in Procs : /\ proc'[q].reg = proc[q].reg /\ proc'[q].code = proc[q].code
                            /\ q # p => proc'[q].k = proc[q].k
    BY <2>1 DEF Inv, Types, ProcType
  <2>3. Types' BY <2>1, <2>2 DEF Inv, Types
  <2>4. InHand' BY <2>1, <2>2 DEF Inv, Types, OpType, InHand, Spawning, Procs
  <2>5. WaitsForKnown' BY <2>1, <2>2 DEF Inv, Types, WaitType, WaitsForKnown
  <2>6. ExitRecorded' BY <2>1, <2>2 DEF Inv, ExitRecorded, Procs
  <2>7. (CreatedOnce /\ WaitersGetCode)' BY <2>1 DEF Inv, CreatedOnce, WaitersGetCode
  <2> QED BY <2>3, <2>4, <2>5, <2>6, <2>7 DEF Inv
<1>3. CASE find_process
  <2>1. /\ Free /\ reap \in Procs /\ reap' = "none" /\ UNCHANGED <<op, ctr, wait>>
        /\ proc' = [proc EXCEPT ![reap].code = @ \/ proc[reap].reg]
    BY <1>3 DEF find_process, Inv, Types
  <2>2. /\ proc' \in [Procs -> ProcType]
        /\ \A q \in Procs : /\ proc'[q].reg = proc[q].reg /\ proc'[q].k = proc[q].k
                            /\ q # reap => proc'[q].code = proc[q].code
        /\ proc[reap].reg => proc'[reap].code
    BY <2>1 DEF Inv, Types, ProcType
  <2>3. Types' BY <2>1, <2>2 DEF Inv, Types
  <2>4. (InHand /\ CreatedOnce)' BY <2>1 DEF Inv, InHand, Spawning, Free, CreatedOnce
  <2>5. WaitsForKnown' BY <2>1, <2>2 DEF Inv, Types, WaitType, WaitsForKnown
  <2>6. ExitRecorded' BY <2>1, <2>2 DEF Inv, ExitRecorded
  <2>7. WaitersGetCode' BY <2>1 DEF Inv, WaitersGetCode
  <2> QED BY <2>3, <2>4, <2>5, <2>6, <2>7 DEF Inv
<1> QED BY <1>1, <1>2, <1>3

\* The three steps of do_wait_process.
LEMMA WaiterInv ==
  ASSUME Inv, NEW w \in Waiters, WaitRegister(w) \/ WaitWakes(w) \/ WaitCollects(w)
  PROVE  Inv'
<1> DEFINE p == wait[w].p
           Sent(v) == v # w /\ wait[v].pc \in {"rx", "lock"} /\ wait[v].p = p
<1>1. wait[w] \in WaitType /\ p \in Procs /\ UNCHANGED <<op, ctr, reap>>
  BY DEF Inv, Types, WaitType, WaitRegister, WaitWakes, WaitCollects
<1>2. ASSUME UNCHANGED proc, wait' \in [Waiters -> WaitType],
             \A v \in Waiters : v # w => wait'[v] = wait[v],
             ctr.status # "none", ctr.known => wait'[w].res # "error",
             ctr.known /\ wait'[w].pc \in {"rx", "lock"} =>
               proc[wait'[w].p].reg \/ wait'[w].res = "code"
      PROVE  Inv'
  <2>1. (Types /\ InHand /\ CreatedOnce /\ ExitRecorded)'
    BY <1>1, <1>2 DEF Inv, Types, InHand, Spawning, CreatedOnce, ExitRecorded
  <2>2. WaitsForKnown' BY <1>1, <1>2 DEF Inv, WaitsForKnown
  <2>3. WaitersGetCode' BY <1>1, <1>2 DEF Inv, WaitersGetCode
  <2> QED BY <2>1, <2>2, <2>3 DEF Inv
<1>3. CASE WaitRegister(w)
  <2>1. PICK q \in Procs : /\ ctr.known /\ proc[q].reg /\ wait[w].pc = "idle" /\ proc' = proc
                           /\ wait' = [wait EXCEPT ![w].pc = "rx", ![w].p = q]
    BY <1>3 DEF WaitRegister
  <2>2. /\ wait' \in [Waiters -> WaitType] /\ wait'[w].p = q /\ wait'[w].res = wait[w].res
        /\ \A v \in Waiters : v # w => wait'[v] = wait[v]
    BY <2>1, <1>1 DEF Inv, Types, WaitType
  <2>3. ctr.status # "none" /\ wait[w].res # "error"
    BY <2>1 DEF Inv, CreatedOnce, WaitersGetCode
  <2> QED BY <1>2, <2>1, <2>2, <2>3
<1>4. CASE WaitWakes(w)
  <2>1. wait[w].pc = "rx" /\ proc' = proc /\ wait' = [wait EXCEPT ![w].pc = "lock"]
    BY <1>4 DEF WaitWakes
  <2>2. /\ wait' \in [Waiters -> WaitType] /\ wait'[w].p = p /\ wait'[w].res = wait[w].res
        /\ \A v \in Waiters : v # w => wait'[v] = wait[v]
    BY <2>1, <1>1 DEF Inv, Types, WaitType
  <2>3. /\ ctr.status # "none"
        /\ ctr.known => wait[w].res # "error" /\ (proc[p].reg \/ wait[w].res = "code")
    BY <2>1 DEF Inv, WaitsForKnown, WaitersGetCode
  <2> QED BY <1>2, <2>1, <2>2, <2>3
<1>5. CASE WaitCollects(w) /\ ~(ctr.known /\ proc[p].reg)
  <2>1. ctr.status # "none" /\ (ctr.known => wait[w].res = "code")
    BY <1>5 DEF WaitCollects, Inv, WaitsForKnown
  <2>2. PICK r \in {"none", "code", "error"} :
          /\ wait' = [wait EXCEPT ![w].pc = "end", ![w].res = r]
          /\ ctr.known => r = "code"
    <3>1. CASE ~ctr.known BY <1>5, <3>1 DEF WaitCollects
    <3>2. CASE ctr.known
      <4>1. wait' = [wait EXCEPT ![w].pc = "end", ![w].res = "code"]
        BY <1>1, <1>5, <2>1, <3>2 DEF WaitCollects, Inv, Types, WaitType
      <4> QED BY <4>1
    <3> QED BY <3>1, <3>2
  <2>3. proc' = proc BY <1>5 DEF WaitCollects
  <2>4. /\ wait' \in [Waiters -> WaitType] /\ wait'[w].pc = "end" /\ wait'[w].res = r
        /\ \A v \in Waiters : v # w => wait'[v] = wait[v]
    BY <2>2, <1>1 DEF Inv, Types, WaitType
  <2> QED BY <1>2, <2>1, <2>2, <2>3, <2>4
<1>6. CASE WaitCollects(w) /\ ctr.known /\ proc[p].reg
  <2>1. /\ proc' = [proc EXCEPT ![p].reg = FALSE]
        /\ wait' = [v \in Waiters |->
                      IF v = w THEN [wait[v] EXCEPT !.pc = "end", !.res = "code"]
                      ELSE IF Sent(v) THEN [wait[v] EXCEPT !.res = "code"] ELSE wait[v]]
    BY <1>6, Zenon DEF WaitCollects
  <2>2. /\ proc' \in [Procs -> ProcType] /\ ~proc'[p].reg
        /\ \A q \in Procs : /\ q # p => proc'[q] = proc[q]
                            /\ proc'[q].k = proc[q].k /\ proc'[q].code = proc[q].code
    BY <2>1, <1>1 DEF Inv, Types, ProcType
  <2>3. /\ wait' \in [Waiters -> WaitType] /\ wait'[w].pc = "end" /\ wait'[w].res = "code"
        /\ \A v \in Waiters : v # w =>
             /\ wait'[v].pc = wait[v].pc /\ wait'[v].p = wait[v].p
             /\ IF Sent(v) THEN wait'[v].res = "code" ELSE wait'[v].res = wait[v].res
    BY <2>1, <1>1 DEF Inv, Types, WaitType
  <2>4. ctr.status # "none" BY <1>6 DEF Inv, CreatedOnce
  <2>5. (Types /\ InHand /\ CreatedOnce)'
    BY <1>1, <2>2, <2>3 DEF Inv, Types, OpType, InHand, Spawning, CreatedOnce
  <2>6. WaitsForKnown'
    BY <1>1, <2>2, <2>3, <2>4 DEF Inv, Types, WaitType, WaitsForKnown
  <2>7. ExitRecorded' BY <1>1, <2>2 DEF Inv, ExitRecorded
  <2>8. WaitersGetCode' BY <1>1, <2>3 DEF Inv, WaitersGetCode
  <2> QED BY <2>5, <2>6, <2>7, <2>8 DEF Inv
<1> QED BY <1>3, <1>4, <1>5, <1>6

-----------------------------------------------------------------------------
\* The inductive invariant holds in every reachable state of the process table, the SIGCHLD
\* handler and the waiters.
THEOREM ProcessInv == Spec => []Inv
<1>1. Inv /\ [Next]_vars => Inv'
  <2> SUFFICES ASSUME Inv, [Next]_vars PROVE Inv' OBVIOUS
  <2>1. CASE UNCHANGED vars
    <3>1. SameProcs /\ proc' \in [Procs -> ProcType] BY <2>1 DEF vars, SameProcs, Inv, Types
    <3> QED BY <2>1, <3>1, SameInv DEF vars, Inv, Types
  <2>2. CASE Requests BY <2>2, SpawnInv, StatusInv, RemoveInv, WaiterInv DEF Requests
  <2>3. CASE Next /\ ~Requests
    <3>1. "init" \in Procs BY DEF Procs
    <3> QED BY <2>3, <3>1, ParentInv, HookInv, StartWritesInv, ChildInv, ReaperInv,
              WaiterInv DEF Next
  <2> QED BY <2>1, <2>2, <2>3 DEF Next
<1> QED BY <1>1, InitInv, PTL DEF Spec

\* The exit of a registered process is recorded, or the reaper has it in hand, for any
\* number of execs: handle_sigchild cannot miss a process that is being registered.
THEOREM ExitIsRecorded == Spec => []ExitRecorded
<1>1. Inv => ExitRecorded BY DEF Inv
<1> QED BY <1>1, ProcessInv, PTL

\* Every waiter of do_wait_process gets the exit code as long as the container is known,
\* for any number of waiters and execs.
THEOREM WaitersAllGetCode == Spec => []WaitersGetCode
<1>1. Inv => WaitersGetCode BY DEF Inv
<1> QED BY <1>1, ProcessInv, PTL

-----------------------------------------------------------------------------
(* The handshake.                                                          *)

\* One past the last step of the child, and the last step of the parent.
ChildEnd(p) == IF p = "init" THEN 17 ELSE 15
ParentEnd(p) == IF p = "init" THEN 15 ELSE 12

\* The messages a side has sent and received when it is at a step of its script.
ChildSent(p, at) ==
  IF at < 2 THEN 0 ELSE IF at < 4 THEN 1 ELSE IF at < 6 THEN 2 ELSE IF at < 8 THEN 3
  ELSE IF at < 11 THEN 4 ELSE IF at < (IF p = "init" THEN 14 ELSE 15) THEN 5
  ELSE IF at < 17 THEN 6 ELSE 7
ChildReceived(p, at) ==
  IF at < 3 THEN 0 ELSE IF at < 5 THEN 1 ELSE IF at < 7 THEN 2 ELSE IF at < 9 THEN 3
  ELSE IF at < 12 THEN 4 ELSE IF at < 15 \/ p # "init" THEN 5 ELSE 6
ParentReceived(at) ==
  IF at < 2 THEN 0 ELSE IF at < 4 THEN 1 ELSE IF at < 6 THEN 2 ELSE IF at < 8 THEN 3
  ELSE IF at < 10 THEN 4 ELSE IF at < 13 THEN 5 ELSE 6
ParentSent(at) ==
  IF at < 3 THEN 0 ELSE IF at < 5 THEN 1 ELSE IF at < 7 THEN 2 ELSE IF at < 9 THEN 3
  ELSE IF at < 12 THEN 4 ELSE IF at < 15 THEN 5 ELSE 6

\* The handshake of request o with process p, whose record is q: what is in the pipes is
\* what one side has sent and the other has not yet received. A process that no request
\* talks to any more has been killed or has nothing left to receive.
Shake(p, o, q) ==
  /\ q.at \in 1 .. ChildEnd(p)
  /\ q.k = "none" => q.at = 1 /\ q.up.n = 0 /\ q.down = 0
  /\ q.reg => q.at = ChildEnd(p)
  /\ q.up.n \in 0 .. 1 /\ q.down \in 0 .. 1
  /\ IF o.kind \in {"create", "exec"} /\ o.p = p
     THEN /\ q.k # "none" /\ o.at \in 1 .. ParentEnd(p)
          /\ q.up.n = ChildSent(p, q.at) - ParentReceived(o.at)
          /\ q.down = ParentSent(o.at) - ChildReceived(p, q.at)
     ELSE q.k = "setup" => q.at = ChildEnd(p)

Handshake ==
  /\ op.kind = "create" => op.p = "init"
  /\ op.kind = "exec" => op.p \in Execs
  /\ \A p \in Procs : Shake(p, op, proc[p])

-----------------------------------------------------------------------------
\* The child sends and receives as the tables say, and has set up its root after step 12.
LEMMA ChildSteps ==
  ASSUME NEW p \in Procs
  PROVE  /\ Len(ChildScript(p)) = ChildEnd(p) - 1
         /\ \A i \in 1 .. ChildEnd(p) - 1 :
              /\ ChildScript(p)[i] \in {"send", "recv", "namespaces", "rootfs", "execfile"}
              /\ ChildSent(p, i + 1) = ChildSent(p, i) + (IF ChildScript(p)[i] = "send" THEN 1 ELSE 0)
              /\ ChildReceived(p, i + 1)
                   = ChildReceived(p, i) + (IF ChildScript(p)[i] = "recv" THEN 1 ELSE 0)
              /\ ChildScript(p)[i] = "rootfs" <=> i = 12
              /\ ChildScript(p)[i] = "execfile" <=> i = ChildEnd(p) - 2
<1> DEFINE s == ChildScript(p)
<1>1. CASE p = "init"
  <2>1. /\ Len(s) = 16
        /\ s[1] = "send" /\ s[2] = "recv" /\ s[3] = "send" /\ s[4] = "recv"
        /\ s[5] = "send" /\ s[6] = "recv" /\ s[7] = "send" /\ s[8] = "recv"
        /\ s[9] = "namespaces" /\ s[10] = "send" /\ s[11] = "recv" /\ s[12] = "rootfs"
        /\ s[13] = "send" /\ s[14] = "recv" /\ s[15] = "execfile" /\ s[16] = "send"
    BY <1>1 DEF ChildScript
  <2> HIDE DEF s
  <2> QED BY <1>1, <2>1 DEF s, ChildEnd, ChildSent, ChildReceived
<1>2. CASE p # "init"
  <2>1. /\ Len(s) = 14
        /\ s[1] = "send" /\ s[2] = "recv" /\ s[3] = "send" /\ s[4] = "recv"
        /\ s[5] = "send" /\ s[6] = "recv" /\ s[7] = "send" /\ s[8] = "recv"
        /\ s[9] = "namespaces" /\ s[10] = "send" /\ s[11] = "recv" /\ s[12] = "rootfs"
        /\ s[13] = "execfile" /\ s[14] = "send"
    BY <1>2 DEF ChildScript
  <2> HIDE DEF s
  <2> QED BY <1>2, <2>1 DEF s, ChildEnd, ChildSent, ChildReceived
<1> QED BY <1>1, <1>2

\* The parent sends and receives as the tables say.
LEMMA ParentSteps ==
  ASSUME NEW p \in Procs
  PROVE  /\ Len(ParentScript(p)) = ParentEnd(p)
         /\ ParentScript(p)[ParentEnd(p)] = "recv"
         /\ \A i \in 1 .. ParentEnd(p) :
              /\ ParentScript(p)[i] \in {"send", "recv", "cgroup", "hook"}
              /\ i < ParentEnd(p) =>
                   /\ ParentReceived(i + 1)
                        = ParentReceived(i) + (IF ParentScript(p)[i] = "recv" THEN 1 ELSE 0)
                   /\ ParentSent(i + 1)
                        = ParentSent(i) + (IF ParentScript(p)[i] = "send" THEN 1 ELSE 0)
              /\ ParentScript(p)[i] = "cgroup" <=> i = 10
              /\ ParentScript(p)[i] = "hook" <=> i = 13
<1> DEFINE s == ParentScript(p)
<1>1. CASE p = "init"
  <2>1. /\ Len(s) = 15
        /\ s[1] = "recv" /\ s[2] = "send" /\ s[3] = "recv" /\ s[4] = "send"
        /\ s[5] = "recv" /\ s[6] = "send" /\ s[7] = "recv" /\ s[8] = "send"
        /\ s[9] = "recv" /\ s[10] = "cgroup" /\ s[11] = "send" /\ s[12] = "recv"
        /\ s[13] = "hook" /\ s[14] = "send" /\ s[15] = "recv"
    BY <1>1 DEF ParentScript
  <2> HIDE DEF s
  <2> QED BY <1>1, <2>1 DEF s, ParentEnd, ParentSent, ParentReceived
<1>2. CASE p # "init"
  <2>1. /\ Len(s) = 12
        /\ s[1] = "recv" /\ s[2] = "send" /\ s[3] = "recv" /\ s[4] = "send"
        /\ s[5] = "recv" /\ s[6] = "send" /\ s[7] = "recv" /\ s[8] = "send"
        /\ s[9] = "recv" /\ s[10] = "cgroup" /\ s[11] = "send" /\ s[12] = "recv"
    BY <1>2 DEF ParentScript
  <2> HIDE DEF s
  <2> QED BY <1>2, <2>1 DEF s, ParentEnd, ParentSent, ParentReceived
<1> QED BY <1>1, <1>2

\* Each side waits for an answer after each message, so that no two are on their way.
LEMMA InTurn ==
  ASSUME NEW p \in Procs, NEW i \in 1 .. ChildEnd(p), NEW j \in 1 .. ParentEnd(p)
  PROVE  /\ ChildSent(p, i) - ChildReceived(p, i) \in 0 .. 1
         /\ ParentReceived(j) - ParentSent(j) \in 0 .. 1
         /\ ChildSent(p, i) \in Nat /\ ChildReceived(p, i) \in Nat
         /\ ParentReceived(j) \in Nat /\ ParentSent(j) \in Nat
         /\ ChildReceived(p, i) <= ParentSent(j) /\ i > 12 => j > 10
         /\ ChildSent(p, i) > ParentReceived(ParentEnd(p)) => i = ChildEnd(p)
         /\ p = "init" /\ j = 13 /\ ChildSent(p, i) >= ParentReceived(j)
            /\ ChildReceived(p, i) <= ParentSent(j) => i = 14
<1>1. p # "init" => ChildEnd(p) = 15 /\ ParentEnd(p) = 12
  BY DEF ChildEnd, ParentEnd
<1>2. p = "init" => ChildEnd(p) = 17 /\ ParentEnd(p) = 15
  BY DEF ChildEnd, ParentEnd
<1> QED BY <1>1, <1>2 DEF ChildSent, ChildReceived, ParentSent, ParentReceived

\* What the handshake does not depend on: a process dies, is reaped or forgotten.
Rest(q, r) ==
  /\ r.at = q.at /\ r.up.n = q.up.n /\ r.down = q.down /\ (r.reg => q.reg)
  /\ r.k = "setup" => q.k = "setup"
  /\ r.k = "none" <=> q.k = "none"

Talks(o, p) == o.kind \in {"create", "exec"} /\ o.p = p

\* Such a change keeps the handshake, and so does a request of another process.
LEMMA ShakeKept ==
  ASSUME NEW p \in Procs, NEW o, NEW o2, NEW q, NEW r, Shake(p, o, q), Rest(q, r),
         o2 = o \/ (~Talks(o, p) /\ ~Talks(o2, p))
  PROVE  Shake(p, o2, r)
BY DEF Shake, Rest, Talks

\* The request is the same.
LEMMA ShakeSame ==
  ASSUME NEW p \in Procs, NEW o, NEW q, NEW r, Shake(p, o, q), Rest(q, r)
  PROVE  Shake(p, o, r)
BY DEF Shake, Rest

\* The end of a request leaves a process that has been killed or is at the end of its script.
LEMMA ShakeEnds ==
  ASSUME NEW p \in Procs, NEW o, NEW o2, NEW q, NEW r, Shake(p, o, q), ~Talks(o2, p),
         r.at = q.at, r.up.n \in 0 .. 1, r.down \in 0 .. 1, r.k # "none",
         r.k = "setup" \/ r.reg => r.at = ChildEnd(p)
  PROVE  Shake(p, o2, r)
BY DEF Shake, Talks

\* The steps that the handshake does not see.
LEMMA Undisturbed ==
  ASSUME Handshake, \A p \in Procs : Rest(proc[p], proc'[p]),
         op' = op \/ (op.kind \notin {"create", "exec"} /\ op'.kind \notin {"create", "exec"})
  PROVE  Handshake'
<1>1. ASSUME NEW p \in Procs PROVE Shake(p, op', proc'[p])
  <2>1. Shake(p, op, proc[p]) /\ Rest(proc[p], proc'[p]) BY DEF Handshake
  <2>2. op' = op \/ (~Talks(op, p) /\ ~Talks(op', p)) BY DEF Talks
  <2> QED BY <2>1, <2>2, ShakeKept
<1> QED BY <1>1 DEF Handshake

\* A step that changes one process, and the request that talks to it.
LEMMA OneShake ==
  ASSUME Handshake, NEW p \in Procs, \A r \in Procs : r # p => proc'[r] = proc[r],
         Shake(p, op', proc'[p]), Talks(op, p) \/ op'= op \/ op.kind \notin {"create", "exec"},
         \A r \in Procs : Talks(op', r) /\ op' # op => r = p,
         op'.kind = "create" => op'.p = "init", op'.kind = "exec" => op'.p \in Execs
  PROVE  Handshake'
<1>1. ASSUME NEW r \in Procs, r # p PROVE Shake(r, op', proc'[r])
  <2>1. Shake(r, op, proc[r]) /\ proc'[r] = proc[r] BY <1>1 DEF Handshake
  <2>2. Rest(proc[r], proc'[r]) BY <2>1 DEF Rest
  <2>3. op' # op => ~Talks(op', r) BY <1>1
  <2>4. op' # op => ~Talks(op, r) BY <1>1 DEF Talks
  <2> QED BY <2>1, <2>2, <2>3, <2>4, ShakeKept
<1>2. \A r \in Procs : Shake(r, op', proc'[r]) BY <1>1
<1> QED BY <1>2 DEF Handshake

\* A process that dies leaves the pipes as they are.
LEMMA DeadRest ==
  ASSUME NEW q \in ProcType, q.k # "none"
  PROVE  Rest(q, Dead(q)) /\ Dead(q).k = "zombie" /\ Dead(q).down = q.down
         /\ Dead(q).up.n = q.up.n /\ Dead(q).at = q.at /\ Dead(q).reg = q.reg
<1> DEFINE r == Dead(q)
<1>1. /\ r.k = "zombie" /\ r.down = q.down /\ r.up.n = q.up.n /\ r.at = q.at /\ r.reg = q.reg
  BY DEF Dead, ProcType, Pipe
<1> HIDE DEF r
<1> QED BY <1>1 DEF Rest, r

\* Without a change, nothing is disturbed.
LEMMA RestSame == \A q : Rest(q, q)
BY DEF Rest

\* Nothing is on its way before the first process.
LEMMA HandshakeInit == Init => Handshake
<1> SUFFICES ASSUME Init PROVE Handshake OBVIOUS
<1>1. op.kind = "none" BY DEF Init, None
<1>2. ASSUME NEW p \in Procs PROVE Shake(p, op, proc[p])
  <2>1. /\ proc[p].at = 1 /\ proc[p].k = "none" /\ proc[p].up.n = 0 /\ proc[p].down = 0
        /\ proc[p].reg = FALSE
    BY DEF Init, NoProc
  <2> QED BY <1>1, <2>1 DEF Shake, ChildEnd
<1> QED BY <1>1, <1>2 DEF Handshake

\* do_init_child takes a step.
LEMMA ChildHandshake ==
  ASSUME Inv, Handshake, NEW p \in Procs, ChildStep(p)
  PROVE  Handshake'
<1> DEFINE q == proc[p]
           r == proc'[p]
<1>1. proc \in [Procs -> ProcType] /\ q \in ProcType BY DEF Inv, Types
<1>2. /\ q.at \in Nat /\ q.up.n \in Nat /\ q.down \in Nat /\ q.k = "setup"
      /\ q.up \in Pipe
  BY <1>1 DEF ProcType, Pipe, ChildStep
<1>3. Shake(p, op, q) /\ op' = op /\ (op.kind = "create" => op.p = "init")
      /\ (op.kind = "exec" => op.p \in Execs)
  BY DEF Handshake, ChildStep
<1>4. \A x \in Procs : x # p => proc'[x] = proc[x] BY <1>1 DEF ChildStep
<1>5. q.at \in 1 .. ChildEnd(p) /\ ChildEnd(p) \in Nat BY <1>3 DEF Shake, ChildEnd
<1>6. /\ Step(p) = "end" <=> q.at = ChildEnd(p)
      /\ q.at # ChildEnd(p) => q.at \in 1 .. ChildEnd(p) - 1 /\ Step(p) = ChildScript(p)[q.at]
  <2>1. Len(ChildScript(p)) = ChildEnd(p) - 1 /\
        \A i \in 1 .. ChildEnd(p) - 1 :
          ChildScript(p)[i] \in {"send", "recv", "namespaces", "rootfs", "execfile"}
    BY ChildSteps
  <2> QED BY <2>1, <1>5 DEF Step
<1>7. CASE q.at = ChildEnd(p)
  <2>1. proc' = [proc EXCEPT ![p].k = IF p = "init" THEN "ready" ELSE "run", ![p].up.closed = TRUE]
    BY <1>6, <1>7 DEF ChildStep
  <2>2. r.at = q.at /\ r.up.n = q.up.n /\ r.down = q.down /\ r.reg = q.reg /\ r.k \in {"ready", "run"}
    BY <1>1, <2>1 DEF ProcType, Pipe
  <2> HIDE DEF r
  <2>3. Rest(q, r) BY <1>2, <2>2 DEF Rest
  <2>4. Shake(p, op, r) BY <1>3, <2>3, ShakeSame
  <2> QED BY <1>3, <1>4, <2>4, OneShake DEF r, Talks
<1>8. CASE proc' = [proc EXCEPT ![p] = Dead(@)]
  <2>1. r = Dead(q) BY <1>1, <1>8
  <2>2. Rest(q, r) BY <1>1, <1>2, <2>1, DeadRest
  <2>3. Shake(p, op, r) BY <1>3, <2>2, ShakeSame
  <2> QED BY <1>3, <1>4, <2>3, OneShake DEF Talks
<1>9. CASE q.at # ChildEnd(p) /\ ~(proc' = [proc EXCEPT ![p] = Dead(@)])
  <2>1. q.at \in 1 .. ChildEnd(p) - 1 /\ Step(p) = ChildScript(p)[q.at] /\ Step(p) # "end"
    BY <1>6, <1>9
  <2>2. \/ /\ Step(p) = "send" /\ proc' = [proc EXCEPT ![p].at = @ + 1, ![p].up.n = @ + 1]
        \/ /\ Step(p) = "recv" /\ q.down > 0
           /\ proc' = [proc EXCEPT ![p].at = @ + 1, ![p].down = @ - 1]
        \/ /\ Step(p) \in {"namespaces", "rootfs", "execfile"}
           /\ proc' = [proc EXCEPT ![p].at = @ + 1]
    BY <1>9, <2>1 DEF ChildStep
  <2>3. /\ r.at = q.at + 1 /\ r.k = q.k /\ r.reg = q.reg
        /\ r.up.n = q.up.n + (IF Step(p) = "send" THEN 1 ELSE 0)
        /\ r.down = q.down - (IF Step(p) = "recv" THEN 1 ELSE 0)
        /\ Step(p) = "recv" => q.down > 0
    <3>1. CASE Step(p) = "send"
      BY <1>1, <1>2, <2>2, <3>1 DEF ProcType, Pipe
    <3>2. CASE Step(p) = "recv"
      BY <1>1, <1>2, <2>2, <3>2 DEF ProcType, Pipe
    <3>3. CASE Step(p) \in {"namespaces", "rootfs", "execfile"}
      BY <1>1, <1>2, <2>2, <3>3 DEF ProcType, Pipe
    <3> QED BY <2>2, <3>1, <3>2, <3>3
  <2>4. Talks(op, p) /\ ~q.reg
    BY <1>2, <1>3, <1>9 DEF Shake, Talks
  <2>5. /\ op.at \in 1 .. ParentEnd(p)
        /\ q.up.n = ChildSent(p, q.at) - ParentReceived(op.at)
        /\ q.down = ParentSent(op.at) - ChildReceived(p, q.at)
    BY <1>3, <2>4 DEF Shake, Talks
  <2>6. /\ ChildSent(p, q.at + 1) = ChildSent(p, q.at) + (IF Step(p) = "send" THEN 1 ELSE 0)
        /\ ChildReceived(p, q.at + 1) = ChildReceived(p, q.at) + (IF Step(p) = "recv" THEN 1 ELSE 0)
    BY <2>1, ChildSteps
  <2>7. q.at + 1 \in 1 .. ChildEnd(p) BY <2>1, <1>5
  <2>8. /\ ChildSent(p, q.at) \in Nat /\ ChildReceived(p, q.at) \in Nat
        /\ ParentReceived(op.at) \in Nat /\ ParentSent(op.at) \in Nat
    BY <1>5, <2>5, InTurn
  <2>9. /\ ChildSent(p, q.at + 1) - ChildReceived(p, q.at + 1) \in 0 .. 1
        /\ ParentReceived(op.at) - ParentSent(op.at) \in 0 .. 1
    BY <2>5, <2>7, InTurn
  <2> HIDE DEF r, q
  <2>10. /\ r.up.n = ChildSent(p, r.at) - ParentReceived(op.at)
         /\ r.down = ParentSent(op.at) - ChildReceived(p, r.at)
    BY <1>2, <2>3, <2>5, <2>6, <2>8
  <2>11. r.up.n \in Nat /\ r.down \in Nat
    BY <1>2, <2>3
  <2>12. r.up.n \in 0 .. 1 /\ r.down \in 0 .. 1
    BY <2>3, <2>6, <2>8, <2>9, <2>10, <2>11
  <2>13. Shake(p, op', r)
    BY <1>2, <1>3, <2>3, <2>4, <2>5, <2>7, <2>10, <2>12 DEF Shake, Talks
  <2> QED BY <1>3, <1>4, <2>4, <2>13, OneShake DEF r
<1> QED BY <1>7, <1>8, <1>9

\* LinuxContainer::start takes a step, or a hook has run.
LEMMA ParentHandshake ==
  ASSUME Inv, Handshake, ParentStep \/ RunHook
  PROVE  Handshake'
<1> DEFINE p == op.p
           q == proc[p]
           r == proc'[p]
           step == ParentScript(p)[op.at]
           next == [op EXCEPT !.at = @ + 1]
<1>1. /\ proc \in [Procs -> ProcType] /\ p \in Procs /\ q \in ProcType /\ op \in OpType
      /\ op.kind \in {"create", "exec"} /\ Talks(op, p)
  BY DEF Inv, Types, OpType, ParentStep, RunHook, Talks
<1>2. q.at \in Nat /\ q.up.n \in Nat /\ q.down \in Nat /\ q.up \in Pipe /\ op.at \in Nat
  BY <1>1 DEF ProcType, Pipe, OpType
<1>3. Shake(p, op, q) /\ (op.kind = "create" => p = "init") /\ (op.kind = "exec" => p \in Execs)
  BY <1>1 DEF Handshake
<1>4. /\ q.at \in 1 .. ChildEnd(p) /\ q.k # "none" /\ op.at \in 1 .. ParentEnd(p)
      /\ q.up.n = ChildSent(p, q.at) - ParentReceived(op.at)
      /\ q.down = ParentSent(op.at) - ChildReceived(p, q.at)
      /\ q.reg => q.at = ChildEnd(p)
      /\ q.up.n \in 0 .. 1 /\ q.down \in 0 .. 1
  BY <1>1, <1>3 DEF Shake, Talks
<1>5. /\ Len(ParentScript(p)) = ParentEnd(p) /\ ParentScript(p)[ParentEnd(p)] = "recv"
      /\ step \in {"send", "recv", "cgroup", "hook"} /\ ParentEnd(p) \in Nat
  BY <1>1, <1>4, ParentSteps DEF ParentEnd
<1>6. next.kind = op.kind /\ next.p = p /\ next.at = op.at + 1 /\ Talks(next, p)
  BY <1>1 DEF OpType, Talks
<1>7. None.kind = "none" /\ ~Talks(None, p)
  BY DEF None, Talks
<1> HIDE DEF next
<1>8. ASSUME op.at < ParentEnd(p), op' = next, \A x \in Procs : x # p => proc'[x] = proc[x],
             r.at = q.at, r.k = q.k, r.reg = q.reg, step = "recv" => q.up.n > 0,
             r.up.n = q.up.n - (IF step = "recv" THEN 1 ELSE 0),
             r.down = q.down + (IF step = "send" THEN 1 ELSE 0)
      PROVE  Handshake'
  <2>1. /\ ParentReceived(op.at + 1) = ParentReceived(op.at) + (IF step = "recv" THEN 1 ELSE 0)
        /\ ParentSent(op.at + 1) = ParentSent(op.at) + (IF step = "send" THEN 1 ELSE 0)
    BY <1>1, <1>4, <1>8, ParentSteps
  <2>2. op.at + 1 \in 1 .. ParentEnd(p) BY <1>4, <1>5, <1>8
  <2>3. /\ ChildSent(p, q.at) \in Nat /\ ChildReceived(p, q.at) \in Nat
        /\ ParentReceived(op.at) \in Nat /\ ParentSent(op.at) \in Nat
    BY <1>1, <1>4, InTurn
  <2>4. /\ ChildSent(p, q.at) - ChildReceived(p, q.at) \in 0 .. 1
        /\ ParentReceived(op.at + 1) - ParentSent(op.at + 1) \in 0 .. 1
    BY <1>1, <1>4, <2>2, InTurn
  <2> DEFINE received == IF step = "recv" THEN 1 ELSE 0
             sent == IF step = "send" THEN 1 ELSE 0
  <2>50. /\ received \in 0 .. 1 /\ sent \in 0 .. 1
         /\ r.up.n = q.up.n - received /\ r.down = q.down + sent
         /\ received = 1 => q.up.n > 0
         /\ ParentReceived(op.at + 1) = ParentReceived(op.at) + received
         /\ ParentSent(op.at + 1) = ParentSent(op.at) + sent
    BY <1>8, <2>1
  <2>51. ChildSent(p, r.at) = ChildSent(p, q.at) /\ ChildReceived(p, r.at) = ChildReceived(p, q.at)
    BY <1>8
  <2> HIDE DEF r, q, step, p, received, sent
  <2>5. /\ r.up.n = ChildSent(p, r.at) - ParentReceived(op.at + 1)
        /\ r.down = ParentSent(op.at + 1) - ChildReceived(p, r.at)
    BY <1>2, <1>4, <2>50, <2>51, <2>3
  <2>6. r.up.n \in Nat /\ r.down \in Nat
    BY <1>2, <2>50
  <2>7. r.up.n \in 0 .. 1 /\ r.down \in 0 .. 1
    <3>1. PICK a, b, c, d \in Nat : /\ a = ChildSent(p, r.at) /\ b = ChildReceived(p, r.at)
                                   /\ c = ParentReceived(op.at + 1) /\ d = ParentSent(op.at + 1)
      BY <2>50, <2>51, <2>3
    <3>2. a - b \in 0 .. 1 /\ c - d \in 0 .. 1 BY <2>51, <2>4, <3>1
    <3>3. r.up.n = a - c /\ r.down = d - b BY <2>5, <3>1
    <3>4. a - c \in Nat /\ d - b \in Nat BY <3>3, <2>6
    <3>5. a - c \in 0 .. 1 /\ d - b \in 0 .. 1 BY <3>2, <3>4
    <3> QED BY <3>3, <3>5
  <2>8. Shake(p, next, r)
    BY <1>3, <1>4, <1>6, <1>8, <2>2, <2>5, <2>7 DEF Shake, Talks
  <2>9. \A x \in Procs : Talks(op', x) /\ op' # op => x = p
    BY <1>6, <1>8 DEF Talks
  <2>10. Shake(p, op', proc'[p]) BY <1>8, <2>8 DEF r
  <2>11. (op'.kind = "create" => op'.p = "init") /\ (op'.kind = "exec" => op'.p \in Execs)
    BY <1>3, <1>6, <1>8
  <2> QED BY <1>1, <1>8, <2>9, <2>10, <2>11, OneShake
<1>9. ASSUME op' = None, \A x \in Procs : x # p => proc'[x] = proc[x], Shake(p, None, r)
      PROVE  Handshake'
  <2>1. \A x \in Procs : ~Talks(op', x) BY <1>7, <1>9 DEF Talks
  <2>2. op'.kind = "none" BY <1>7, <1>9
  <2>3. Shake(p, op', proc'[p]) BY <1>9
  <2> HIDE DEF p
  <2> QED BY <1>1, <1>9, <2>1, <2>2, <2>3, OneShake
<1>10. CASE RunHook /\ op' = op
  <2>1. \A x \in Procs : Rest(proc[x], proc'[x]) BY <1>10, RestSame DEF RunHook
  <2>2. op' = op \/ (op.kind \notin {"create", "exec"} /\ op'.kind \notin {"create", "exec"})
    BY <1>10
  <2> QED BY <2>1, <2>2, Undisturbed
<1>11. CASE RunHook /\ op' # op
  <2>1. op' = next /\ proc' = proc /\ step = "hook"
    BY <1>11 DEF RunHook, next
  <2>2. op.at < ParentEnd(p) BY <1>4, <1>5, <2>1
  <2> QED BY <1>2, <1>8, <2>1, <2>2
<1>12. CASE /\ step = "recv" /\ q.up.n > 0 /\ op.at < ParentEnd(p)
            /\ proc' = [proc EXCEPT ![p].up.n = @ - 1] /\ op' = next
  <2>1. /\ \A x \in Procs : x # p => proc'[x] = proc[x]
        /\ r.at = q.at /\ r.k = q.k /\ r.reg = q.reg /\ r.up.n = q.up.n - 1 /\ r.down = q.down
    BY <1>1, <1>2, <1>12 DEF ProcType, Pipe
  <2> QED BY <1>2, <1>8, <1>12, <2>1
<1>13. CASE step = "send" /\ proc' = [proc EXCEPT ![p].down = @ + 1] /\ op' = next
  <2>1. op.at < ParentEnd(p) BY <1>4, <1>5, <1>13
  <2>2. /\ \A x \in Procs : x # p => proc'[x] = proc[x]
        /\ r.at = q.at /\ r.k = q.k /\ r.reg = q.reg /\ r.up.n = q.up.n /\ r.down = q.down + 1
    BY <1>1, <1>2, <1>13 DEF ProcType, Pipe
  <2> QED BY <1>2, <1>8, <1>13, <2>1, <2>2
<1>14. CASE step = "cgroup" /\ op' = next /\ proc' = proc
  <2>1. op.at < ParentEnd(p) BY <1>4, <1>5, <1>14
  <2> QED BY <1>2, <1>8, <1>14, <2>1
<1>15. CASE StartFails
  <2>1. \A x \in Procs : x # p => proc'[x] = proc[x] BY <1>1, <1>15 DEF StartFails
  <2>2. r = IF Alive(p) THEN Dead(q) ELSE q BY <1>1, <1>15 DEF StartFails
  <2>3. /\ Dead(q).k = "zombie" /\ Dead(q).down = q.down
        /\ Dead(q).up.n = q.up.n /\ Dead(q).at = q.at /\ Dead(q).reg = q.reg
    BY <1>1, <1>4, DeadRest
  <2>4. /\ r.at = q.at /\ r.up.n = q.up.n /\ r.down = q.down /\ r.reg = q.reg
        /\ r.k # "setup" /\ r.k # "none"
    <3>1. CASE Alive(p) BY <2>2, <2>3, <3>1
    <3>2. CASE ~Alive(p) BY <1>4, <2>2, <3>2 DEF Alive
    <3> QED BY <3>1, <3>2
  <2>5. Shake(p, None, r)
    <3> HIDE DEF r, q, p
    <3> QED BY <1>1, <1>3, <1>4, <1>7, <2>4, ShakeEnds
  <2>6. op' = None BY <1>15 DEF StartFails
  <2> QED BY <1>9, <2>1, <2>5, <2>6
<1>16. CASE /\ op.at = ParentEnd(p) /\ q.up.n > 0
            /\ proc' = [proc EXCEPT ![p].up.n = @ - 1, ![p].reg = TRUE]
            /\ op' = None
  <2>1. /\ \A x \in Procs : x # p => proc'[x] = proc[x]
        /\ r.at = q.at /\ r.k = q.k /\ r.up.n = q.up.n - 1 /\ r.down = q.down
    BY <1>1, <1>2, <1>16 DEF ProcType, Pipe
  <2>2. q.at = ChildEnd(p)
    <3>1. ChildSent(p, q.at) \in Nat /\ ParentReceived(op.at) \in Nat BY <1>1, <1>4, InTurn
    <3>2. ChildSent(p, q.at) > ParentReceived(ParentEnd(p)) BY <1>4, <1>16, <3>1
    <3> QED BY <1>1, <1>4, <3>2, InTurn
  <2>3. r.up.n \in 0 .. 1 /\ r.down \in 0 .. 1 BY <1>4, <1>16, <2>1
  <2>4. Shake(p, None, r)
    <3> HIDE DEF r, q, p
    <3> QED BY <1>1, <1>3, <1>4, <1>7, <2>1, <2>2, <2>3, ShakeEnds
  <2> QED BY <1>9, <1>16, <2>1, <2>4
<1>17. CASE ParentStep
  <2>1. \/ step = "recv" /\ q.up.n > 0 /\ op.at < ParentEnd(p)
           /\ proc' = [proc EXCEPT ![p].up.n = @ - 1] /\ op' = next
        \/ step = "send" /\ proc' = [proc EXCEPT ![p].down = @ + 1] /\ op' = next
        \/ step = "cgroup" /\ op' = next /\ proc' = proc
        \/ StartFails
        \/ /\ op.at = ParentEnd(p) /\ q.up.n > 0
           /\ proc' = [proc EXCEPT ![p].up.n = @ - 1, ![p].reg = TRUE]
           /\ op' = None
    BY <1>5, <1>17 DEF ParentStep, next
  <2> QED BY <1>12, <1>13, <1>14, <1>15, <1>16, <2>1
<1> QED BY <1>10, <1>11, <1>17

\* A request spawns a process.
LEMMA SpawnHandshake ==
  ASSUME Inv, Handshake, do_create_container \/ \E p \in Execs : do_exec_process(p)
  PROVE  Handshake'
<1>1. PICK p \in Procs :
        /\ Free /\ proc[p].k = "none" /\ proc' = [proc EXCEPT ![p].k = "setup"]
        /\ \/ p = "init" /\ op' = [kind |-> "create", p |-> p, at |-> 1]
           \/ p \in Execs /\ op' = [kind |-> "exec", p |-> p, at |-> 1]
  BY DEF do_create_container, do_exec_process, Procs
<1>2. /\ op'.p = p /\ op'.at = 1 /\ op'.kind \in {"create", "exec"}
      /\ op'.kind = "create" => p = "init"
      /\ op'.kind = "exec" => p \in Execs
  BY <1>1
<1>3. proc[p].at = 1 /\ proc[p].up.n = 0 /\ proc[p].down = 0 /\ ~proc[p].reg
  BY <1>1 DEF Handshake, Shake, ChildEnd
<1>4. /\ \A x \in Procs : x # p => proc'[x] = proc[x]
      /\ proc'[p].k = "setup" /\ proc'[p].at = 1 /\ proc'[p].up.n = 0 /\ proc'[p].down = 0
      /\ ~proc'[p].reg
  BY <1>1, <1>3 DEF Inv, Types, ProcType
<1>5. /\ ChildSent(p, 1) = 0 /\ ChildReceived(p, 1) = 0 /\ ParentReceived(1) = 0 /\ ParentSent(1) = 0
      /\ 1 \in 1 .. ChildEnd(p) /\ 1 \in 1 .. ParentEnd(p)
  BY DEF ChildSent, ChildReceived, ParentReceived, ParentSent, ChildEnd, ParentEnd
<1>6. Shake(p, op', proc'[p]) BY <1>2, <1>4, <1>5 DEF Shake
<1>7. op.kind \notin {"create", "exec"} BY <1>1 DEF Free
<1>8. \A x \in Procs : Talks(op', x) /\ op' # op => x = p BY <1>2 DEF Talks
<1> QED BY <1>2, <1>4, <1>6, <1>7, <1>8, OneShake

\* The other steps leave the handshake alone.
LEMMA RestHandshake ==
  ASSUME Inv, Handshake,
         \/ ChildOpensFifo \/ StartWrites \/ HookExits \/ Pause \/ Resume \/ do_signal_process
         \/ do_start_container \/ do_remove_container \/ Waitpid \/ find_process
         \/ \E p \in Procs : ProcDies(p)
         \/ \E w \in Waiters : WaitRegister(w) \/ WaitWakes(w) \/ WaitCollects(w)
         \/ UNCHANGED vars
  PROVE  Handshake'
<1>0. proc \in [Procs -> ProcType] /\ "init" \in Procs BY DEF Inv, Types, Procs
<1>1. op' = op \/ (op.kind \notin {"create", "exec"} /\ op'.kind \notin {"create", "exec"})
  <2>1. CASE StartWrites BY <2>1 DEF StartWrites, None
  <2>2. CASE do_start_container BY <2>2 DEF do_start_container, Free
  <2>3. CASE ~(StartWrites \/ do_start_container)
    BY <2>3 DEF ChildOpensFifo, HookExits, Pause, Resume, do_signal_process, do_remove_container,
      Waitpid, find_process, ProcDies, WaitRegister, WaitWakes, WaitCollects, vars
  <2> QED BY <2>1, <2>2, <2>3
<1>2. SUFFICES ASSUME NEW p \in Procs PROVE Rest(proc[p], proc'[p])
  BY <1>1, Undisturbed
<1>3. CASE UNCHANGED proc BY <1>3, RestSame
<1>4. CASE ChildOpensFifo BY <1>0, <1>4 DEF ChildOpensFifo, Rest, ProcType
<1>5. CASE StartWrites BY <1>0, <1>5 DEF StartWrites, Rest, ProcType
<1>6. CASE find_process BY <1>0, <1>6 DEF find_process, Rest, ProcType
<1>7. CASE Waitpid /\ proc' # proc
  <2>1. PICK x \in Procs : proc[x].k = "zombie" /\ proc' = [proc EXCEPT ![x].k = "gone"]
    BY <1>7 DEF Waitpid
  <2> QED BY <1>0, <2>1 DEF Rest, ProcType
<1>8. ASSUME NEW x \in Procs, ProcDies(x) PROVE Rest(proc[p], proc'[p])
  <2>1. proc' = [proc EXCEPT ![x] = Dead(proc[x])] /\ proc[x].k # "none"
    BY <1>8 DEF ProcDies, Alive
  <2>2. proc'[p] = IF p = x THEN Dead(proc[p]) ELSE proc[p] BY <1>0, <2>1
  <2> QED BY <1>0, <2>1, <2>2, DeadRest, RestSame
<1>9. ASSUME NEW w \in Waiters, WaitCollects(w), proc' # proc PROVE Rest(proc[p], proc'[p])
  <2>1. proc' = [proc EXCEPT ![wait[w].p].reg = FALSE] BY <1>9 DEF WaitCollects
  <2> QED BY <1>0, <2>1 DEF Rest, ProcType
<1>10. CASE do_remove_container
  <2> DEFINE Killed(K) == [x \in Procs |-> IF x \in K THEN Dead(proc[x]) ELSE proc[x]]
  <2>1. PICK K \in SUBSET {x \in Procs : proc[x].reg /\ Alive(x)} :
          proc' = Killed(K) \/ proc' = [x \in Procs |-> Forget(Killed(K)[x])]
    BY <1>10, Zenon DEF do_remove_container, Forget
  <2>2. Killed(K)[p] \in ProcType /\ Rest(proc[p], Killed(K)[p])
    BY <1>0, DeadRest, DeadType, RestSame DEF Alive
  <2>3. proc'[p] = Killed(K)[p] \/ proc'[p] = Forget(Killed(K)[p])
    BY <2>1
  <2> HIDE DEF Killed
  <2>4. Rest(proc[p], Forget(Killed(K)[p]))
    BY <2>2 DEF Rest, Forget, ProcType
  <2> QED BY <2>2, <2>3, <2>4
<1> QED
  BY <1>3, <1>4, <1>5, <1>6, <1>7, <1>8, <1>9, <1>10 DEF HookExits, Pause, Resume,
    do_signal_process, do_start_container, WaitRegister, WaitWakes, vars

\* The two sides stay in step in every behaviour.
LEMMA HandshakeInvariant == Spec => []Handshake
<1>1. ASSUME Inv, Handshake, [Next]_vars PROVE Handshake'
  <2>1. CASE \E p \in Procs : ChildStep(p) BY <1>1, <2>1, ChildHandshake
  <2>2. CASE ParentStep \/ RunHook BY <1>1, <2>2, ParentHandshake
  <2>3. CASE do_create_container \/ \E p \in Execs : do_exec_process(p)
    BY <1>1, <2>3, SpawnHandshake
  <2> QED BY <1>1, <2>1, <2>2, <2>3, RestHandshake DEF Next, Requests
<1> QED BY <1>1, HandshakeInit, ProcessInv, PTL DEF Spec

\* The handshake of the agent with a new process, for any number of exec processes: at
\* most one message is on its way in each direction, the root file system is set up after
\* the cgroup, hooks run after it and before the last check, and a process is registered
\* only when it has passed that, whoever dies in between.
THEOREM HandshakeInStep == Spec => []InStep
<1>1. ASSUME Inv, Handshake PROVE InStep
  <2> SUFFICES ASSUME NEW p \in Procs
               PROVE  /\ op.kind \in {"create", "exec"} /\ op.p = p /\ Passed(p, "rootfs") => InCgroup(p)
                      /\ op.kind = "create" /\ op.p = p /\ ParentScript(p)[op.at] = "hook" =>
                           Passed(p, "rootfs") /\ ~Passed(p, "execfile")
                      /\ proc[p].reg => Passed(p, "execfile")
                      /\ proc[p].up.n <= 1 /\ proc[p].down <= 1
    BY DEF InStep
  <2> DEFINE i == proc[p].at
  <2>1. Shake(p, op, proc[p]) /\ i \in 1 .. ChildEnd(p) BY <1>1 DEF Handshake, Shake
  <2>2. proc[p].up.n <= 1 /\ proc[p].down <= 1 BY <2>1 DEF Shake
  <2>3. ChildEnd(p) \in 15 .. 17 BY DEF ChildEnd
  <2>4. (Passed(p, "rootfs") <=> i > 12) /\ (Passed(p, "execfile") <=> i > ChildEnd(p) - 2)
    <3>1. \A j \in 1 .. ChildEnd(p) - 1 : /\ ChildScript(p)[j] = "rootfs" <=> j = 12
                                          /\ ChildScript(p)[j] = "execfile" <=> j = ChildEnd(p) - 2
      BY ChildSteps
    <3>2. \A j \in 1 .. i - 1 : j \in 1 .. ChildEnd(p) - 1 BY <2>1, <2>3
    <3>3. 12 \in 1 .. ChildEnd(p) - 1 /\ ChildEnd(p) - 2 \in 1 .. ChildEnd(p) - 1 BY <2>3
    <3>4. (i > 12 => 12 \in 1 .. i - 1) /\ (i > ChildEnd(p) - 2 => ChildEnd(p) - 2 \in 1 .. i - 1)
      BY <2>1, <2>3
    <3> QED BY <3>1, <3>2, <3>3, <3>4, <2>1, <2>3 DEF Passed
  <2>5. proc[p].reg => Passed(p, "execfile") BY <2>1, <2>3, <2>4 DEF Shake
  <2>6. ASSUME op.kind \in {"create", "exec"}, op.p = p
        PROVE  /\ op.at \in 1 .. ParentEnd(p) /\ ChildReceived(p, i) <= ParentSent(op.at)
               /\ ChildSent(p, i) >= ParentReceived(op.at)
    <3>1. /\ op.at \in 1 .. ParentEnd(p)
          /\ proc[p].up.n = ChildSent(p, i) - ParentReceived(op.at)
          /\ proc[p].down = ParentSent(op.at) - ChildReceived(p, i)
          /\ proc[p].up.n \in 0 .. 1 /\ proc[p].down \in 0 .. 1
      BY <2>1, <2>6 DEF Shake
    <3>2. /\ ChildSent(p, i) \in Nat /\ ChildReceived(p, i) \in Nat
          /\ ParentReceived(op.at) \in Nat /\ ParentSent(op.at) \in Nat
      BY <2>1, <3>1, InTurn
    <3> QED BY <3>1, <3>2
  <2>7. ASSUME op.kind \in {"create", "exec"}, op.p = p, Passed(p, "rootfs") PROVE InCgroup(p)
    <3>1. op.at > 10 BY <2>1, <2>4, <2>6, <2>7, InTurn
    <3>2. ParentEnd(p) \in 12 .. 15 /\ op.at \in 1 .. ParentEnd(p) BY <2>6, <2>7 DEF ParentEnd
    <3>3. 10 \in 1 .. op.at - 1 /\ 10 \in 1 .. ParentEnd(p) BY <3>1, <3>2
    <3>4. ParentScript(p)[10] = "cgroup" BY <3>3, ParentSteps
    <3> QED BY <3>3, <3>4 DEF InCgroup
  <2>8. ASSUME op.kind = "create", op.p = p, ParentScript(p)[op.at] = "hook"
        PROVE  Passed(p, "rootfs") /\ ~Passed(p, "execfile")
    <3>1. op.at \in 1 .. ParentEnd(p) /\ p = "init" BY <1>1, <2>6, <2>8 DEF Handshake
    <3>2. op.at = 13 BY <2>8, <3>1, ParentSteps
    <3>3. i = 14 BY <2>1, <2>6, <2>8, <3>1, <3>2, InTurn
    <3> QED BY <2>4, <3>1, <3>3 DEF ChildEnd
  <2> QED BY <2>2, <2>5, <2>7, <2>8
<1> QED BY <1>1, ProcessInv, HandshakeInvariant, PTL
=============================================================================
