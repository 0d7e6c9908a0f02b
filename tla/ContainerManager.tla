-------------------------- MODULE ContainerManager --------------------------
(* The container manager of runtime-rs (virt_container/src/container_manager):  *)
(* shim requests on one container id, run as concurrent tasks under the locks   *)
(* `containers` and `inner`, and the task run_io_wait that waits for the exit   *)
(* of each started process. An id may be deleted and created again: each        *)
(* creation is an instance. A process of an instance is its init process or an  *)
(* exec. The agent in the guest is external.                                    *)
EXTENDS Naturals, FiniteSets

CONSTANTS
  Tasks,        \* requests in flight at a time
  Instances,    \* bound: 1 .. n, the instances of the container id
  Ops,          \* the requests the client makes
  Procs,        \* {"init"} or {"init", "exec"}
  Restarts,     \* the client may start a process that was started before
  Faults        \* the agent's calls, pipes and cleanups may fail

ASSUME ManagerAssumption ==
  /\ \E n \in Instances : Instances = 1 .. n
  /\ Procs \in {{"init"}, {"init", "exec"}}
  /\ Restarts \in BOOLEAN /\ Faults \in BOOLEAN

VARIABLES
  present,      \* the instance in the map `containers`, 0 when there is none
  last,         \* the last instance created
  inst,         \* the instances
  io,           \* where run_io_wait is, for each instance and process
  req,          \* the request each task is at
  reported      \* the processes whose exit a wait has reported to the client

vars == <<present, last, inst, io, req, reported>>

\* status is "Created", "Running", "Paused" or "Stopped". exit_watcher_tx is in the
\* Process until run_io_wait takes it; dropping it wakes the watchers.
NoProcess == [here |-> FALSE, status |-> "Created", exit_code |-> "none", tx |-> "closed",
              stdin |-> "none"]
NewProcess == [NoProcess EXCEPT !.here = TRUE, !.tx = "process"]

Drop(pr) == [pr EXCEPT !.here = FALSE, !.tx = IF @ = "process" THEN "closed" ELSE @]

\* An instance: its processes here and in the guest, its rootfs and volumes, how often
\* cleanup_container was run, and its share in the CPU, memory and cgroups of the
\* sandbox (update_linux_resource).
NoInstance == [procs |-> [p \in Procs |-> NoProcess], guest |-> [p \in Procs |-> "none"],
               fs |-> "none", cleanups |-> 0, share |-> FALSE]

Idle == [op |-> "none", p |-> "init", i |-> 0, pc |-> "idle"]

Status(i) == inst[i].procs["init"].status
-----------------------------------------------------------------------------
(* The locks, read off where the tasks are. A task that holds `inner` also      *)
(* holds `containers`.                                                          *)

\* create_container writes `containers` while the container is created; delete of a
\* container writes it for one step; all others read it.
ContainersWritten == \E t \in Tasks : req[t].op = "create" /\ req[t].pc = "rpc"
ContainersRead ==
  \/ \E t \in Tasks : req[t].op # "create" /\ req[t].pc \in {"inner", "rpc"}
  \/ \E i \in Instances, p \in Procs : io[i][p] \in {"inner", "code", "status"}

InnerWritten == \E t \in Tasks : req[t].op # "create" /\ req[t].pc = "rpc"

Goto(t, pc) == req' = [req EXCEPT ![t].pc = pc]
Return(t) == req' = [req EXCEPT ![t] = Idle]
-----------------------------------------------------------------------------
(* Stopping a process *)

\* Bug: the cleanup of volumes and rootfs is forgotten.
stop_process_NoCleanup(c, p) ==
  IF c.procs["init"].status # "Running" THEN {c}
  ELSE IF p = "init"
  THEN {[c EXCEPT !.procs["init"].status = "Stopped", !.guest = [q \in Procs |-> "removed"]]}
  ELSE {[c EXCEPT !.procs[p].status = IF c.procs[p].here THEN "Stopped" ELSE @,
                  !.guest[p] = IF @ = "running" THEN "exited" ELSE @]}

\* Bug: a stopped container is stopped again.
stop_process_Again(c, p) ==
  IF c.procs["init"].status \notin {"Running", "Stopped"} THEN {c}
  ELSE IF p = "init"
  THEN {[c EXCEPT !.procs["init"].status = "Stopped", !.guest = [q \in Procs |-> "removed"],
                  !.cleanups = @ + 1, !.fs = "released"]}
  ELSE {c}

\* ContainerInner::stop_process, forced. Stopped returns at once and a status other
\* than Running is an error, both of the init process whatever is to be stopped. Then
\* SIGKILL, and for the init process its removal by the agent and the cleanup of
\* volumes and rootfs; the agent's errors are ignored, what cannot be cleaned is kept.
stop_process(c, p) ==
  IF c.procs["init"].status # "Running" THEN {c}
  ELSE IF p = "init"
  THEN {[c EXCEPT !.procs["init"].status = "Stopped", !.guest = [q \in Procs |-> "removed"],
                  !.cleanups = @ + 1, !.fs = fs] :
          fs \in IF Faults THEN {"held", "released"} ELSE {"released"}}
  ELSE {[c EXCEPT !.procs[p].status = IF c.procs[p].here THEN "Stopped" ELSE @,
                  !.guest[p] = IF @ = "running" THEN "exited" ELSE @]}

\* Container::stop_process: unless that failed, a container gives back its share.
StopAndRelease(c, p) ==
  IF p = "init" /\ c.procs["init"].status \in {"Running", "Stopped"}
  THEN {[d EXCEPT !.share = FALSE] : d \in stop_process(c, p)}
  ELSE stop_process(c, p)
-----------------------------------------------------------------------------
(* Requests. The client creates an id that is not in use, and deletes a process *)
(* when a wait has reported its exit.                                           *)

InFlight(op, p) == \E t \in Tasks : req[t].op = op /\ req[t].p = p

MayAsk(op, p) ==
  CASE op = "create" -> p = "init" /\ present = 0 /\ last + 1 \in Instances /\ ~InFlight(op, p)
    [] op = "exec" -> /\ p = "exec" /\ present # 0 /\ ~InFlight(op, p)
                      /\ inst[present].procs[p] = NoProcess
    [] op = "start" -> /\ present # 0 /\ ~InFlight(op, p)
                       /\ inst[present].procs[p].here
                       /\ Restarts \/ inst[present].procs[p].status = "Created"
    [] op = "delete" -> present # 0 /\ <<present, p>> \in reported /\ ~InFlight(op, p)
    [] op \in {"pause", "resume", "update"} -> p = "init"
    [] OTHER -> TRUE

Ask(t, op, p) ==
  /\ req[t] = Idle /\ MayAsk(op, p)
  /\ req' = [req EXCEPT ![t] = [op |-> op, p |-> p, i |-> 0, pc |-> "containers"]]
  /\ UNCHANGED <<present, last, inst, io, reported>>

\* create_container takes containers.write; Container::create then sets up rootfs,
\* volumes and the share before it asks the agent.
BeginCreate(t) ==
  /\ req[t].pc = "containers" /\ req[t].op = "create"
  /\ ~ContainersWritten /\ ~ContainersRead
  /\ last' = last + 1
  /\ inst' = [inst EXCEPT ![last + 1] = [NoInstance EXCEPT !.procs["init"] = NewProcess,
                                                           !.fs = "held", !.share = TRUE]]
  /\ req' = [req EXCEPT ![t].i = last + 1, ![t].pc = "rpc"]
  /\ UNCHANGED <<present, io, reported>>

\* A failed creation drops the container with all it had set up.
EndCreate(t) ==
  /\ req[t].pc = "rpc" /\ req[t].op = "create"
  /\ \/ /\ present' = req[t].i
        /\ inst' = [inst EXCEPT ![req[t].i].guest["init"] = "created"]
     \/ /\ Faults
        /\ inst' = [inst EXCEPT ![req[t].i].procs["init"] = Drop(@)]
        /\ UNCHANGED present
  /\ Return(t)
  /\ UNCHANGED <<last, io, reported>>

\* delete_process of a container: it leaves the map whatever its status, and its
\* processes are dropped when the request returns.
DeleteContainer(t) ==
  /\ req[t].pc = "containers" /\ req[t].op = "delete" /\ req[t].p = "init"
  /\ ~ContainersWritten /\ ~ContainersRead
  /\ present' = 0
  /\ inst' = IF present = 0 THEN inst
             ELSE [inst EXCEPT ![present].procs = [p \in Procs |-> Drop(@[p])]]
  /\ Return(t)
  /\ UNCHANGED <<last, io, reported>>

\* All other requests read the map and look the container up.
Lookup(t) ==
  /\ req[t].pc = "containers" /\ req[t].op # "create"
  /\ ~(req[t].op = "delete" /\ req[t].p = "init")
  /\ ~ContainersWritten
  /\ IF present = 0 THEN Return(t)
     ELSE req' = [req EXCEPT ![t].i = present, ![t].pc = "inner"]
  /\ UNCHANGED <<present, last, inst, io, reported>>

\* Requests that need only the lock.
AtInner(t, op) == req[t].pc = "inner" /\ req[t].op = op /\ ~InnerWritten

exec_process(t) ==
  /\ AtInner(t, "exec")
  /\ inst' = [inst EXCEPT ![req[t].i].procs[req[t].p] = NewProcess]
  /\ Return(t)
  /\ UNCHANGED <<present, last, io, reported>>

delete_exec_process(t) ==
  /\ AtInner(t, "delete")
  /\ inst' = [inst EXCEPT ![req[t].i].procs[req[t].p] = Drop(@)]
  /\ Return(t)
  /\ UNCHANGED <<present, last, io, reported>>

\* wait_process fetches the watcher and lets both locks go.
fetch_exit_watcher(t) ==
  /\ AtInner(t, "wait")
  /\ IF inst[req[t].i].procs[req[t].p].here THEN Goto(t, "watch") ELSE Return(t)
  /\ UNCHANGED <<present, last, inst, io, reported>>

\* Requests that call the agent, or wait for the end of stdin, with inner.write held.
\* pause and resume do nothing in the wrong status; in the wrong status start stops
\* the container by force.
BeginCall(t) ==
  LET i == req[t].i
      op == req[t].op
  IN /\ req[t].pc = "inner" /\ op \notin {"exec", "delete", "wait"}
     /\ ~InnerWritten
     /\ IF op = "start" /\ req[t].p = "init" /\ Status(i) \notin {"Created", "Stopped"}
        THEN /\ \E c \in stop_process(inst[i], "init") : inst' = [inst EXCEPT ![i] = c]
             /\ Return(t)
        ELSE /\ UNCHANGED inst
             /\ IF \/ op = "pause" /\ Status(i) # "Running"
                   \/ op = "resume" /\ Status(i) # "Paused"
                   \/ ~inst[i].procs[req[t].p].here
                THEN Return(t) ELSE Goto(t, "rpc")
     /\ UNCHANGED <<present, last, io, reported>>

\* start: the process runs, and its io tasks are started. The agent starts a process
\* once, an exec in a running container. When it fails the process is stopped by force;
\* when the pipes fail the process runs unwatched.
EndStart(t) ==
  LET i == req[t].i
      p == req[t].p
      ready == IF p = "init" THEN inst[i].guest[p] = "created"
               ELSE inst[i].guest["init"] = "running" /\ inst[i].guest[p] = "none"
      started == [inst[i] EXCEPT !.procs[p].status = "Running", !.guest[p] = "running"]
  IN /\ req[t].pc = "rpc" /\ req[t].op = "start"
     /\ \/ /\ ready
           /\ inst' = [inst EXCEPT ![i] = [started EXCEPT !.procs[p].tx = "task",
                                                          !.procs[p].stdin = "copying"]]
           /\ io' = [io EXCEPT ![i][p] = "io"]
        \/ ready /\ Faults /\ inst' = [inst EXCEPT ![i] = started] /\ UNCHANGED io
        \/ /\ (Faults \/ ~ready) /\ UNCHANGED io
           /\ \E c \in stop_process(inst[i], p) : inst' = [inst EXCEPT ![i] = c]
     /\ Return(t)
     /\ UNCHANGED <<present, last, reported>>

\* The other calls.
EndCall(t, op) == req[t].pc = "rpc" /\ req[t].op = op /\ Return(t)

\* The status is set without another look at it.
EndPause(t) ==
  /\ EndCall(t, "pause")
  /\ inst' = [inst EXCEPT ![req[t].i].procs["init"].status = "Paused"] \/ (Faults /\ UNCHANGED inst)
  /\ UNCHANGED <<present, last, io, reported>>

EndResume(t) ==
  /\ EndCall(t, "resume")
  /\ inst' = [inst EXCEPT ![req[t].i].procs["init"].status = "Running"] \/ (Faults /\ UNCHANGED inst)
  /\ UNCHANGED <<present, last, io, reported>>

\* update takes the share anew, whatever the status.
EndUpdate(t) ==
  /\ EndCall(t, "update")
  /\ inst' = [inst EXCEPT ![req[t].i].share = TRUE]
  /\ UNCHANGED <<present, last, io, reported>>

\* A signal may end the process.
EndKill(t) ==
  /\ EndCall(t, "kill")
  /\ \/ /\ inst[req[t].i].guest[req[t].p] = "running"
        /\ inst' = [inst EXCEPT ![req[t].i].guest[req[t].p] = "exited"]
     \/ UNCHANGED inst
  /\ UNCHANGED <<present, last, io, reported>>

\* close_io waits for the copy of stdin, then tells the agent.
EndCloseIo(t) ==
  /\ EndCall(t, "close_io")
  /\ inst[req[t].i].procs[req[t].p].stdin # "copying"
  /\ UNCHANGED <<present, last, inst, io, reported>>

\* wait_process returns once the sender is gone, with whatever exit code there is.
EndWait(t) ==
  LET pr == inst[req[t].i].procs[req[t].p]
  IN /\ req[t].pc = "watch" /\ pr.tx = "closed"
     /\ reported' = reported \cup {<<req[t].i, req[t].p>>}
     /\ Return(t)
     /\ UNCHANGED <<present, last, inst, io>>
-----------------------------------------------------------------------------
(* run_io_wait *)

Io(i, p, from, to) == io[i][p] = from /\ io' = [io EXCEPT ![i][p] = to]

\* Returning early drops the sender.
IoReturn(i, p, from) == Io(i, p, from, "done") /\ inst' = [inst EXCEPT ![i].procs[p].tx = "closed"]

\* The copies of stdout and stderr end.
IoEnds(i, p) == Io(i, p, "io", "wait") /\ UNCHANGED <<present, last, inst, req, reported>>

\* Bug: the sender is dropped as soon as the exit is known.
WaitProcess_Early(i, p) ==
  /\ \/ /\ inst[i].guest[p] \in {"exited", "removed"} /\ Io(i, p, "wait", "lookup")
        /\ inst' = [inst EXCEPT ![i].procs[p].tx = "closed"]
     \/ (Faults \/ inst[i].guest[p] = "removed") /\ IoReturn(i, p, "wait")
  /\ UNCHANGED <<present, last, req, reported>>

\* agent.wait_process returns the exit code; it fails for a container that is already
\* removed.
WaitProcess(i, p) ==
  /\ \/ inst[i].guest[p] \in {"exited", "removed"} /\ Io(i, p, "wait", "lookup") /\ UNCHANGED inst
     \/ (Faults \/ inst[i].guest[p] = "removed") /\ IoReturn(i, p, "wait")
  /\ UNCHANGED <<present, last, req, reported>>

\* The container is looked up by its id, with containers.read held to the end.
IoLookup(i, p) ==
  /\ ~ContainersWritten
  /\ IF present = 0 THEN IoReturn(i, p, "lookup")
     ELSE Io(i, p, "lookup", "inner") /\ UNCHANGED inst
  /\ UNCHANGED <<present, last, req, reported>>

IoStop(i, p) ==
  /\ ~InnerWritten
  /\ Io(i, p, "inner", "code")
  /\ \E c \in StopAndRelease(inst[present], p) : inst' = [inst EXCEPT ![present] = c]
  /\ UNCHANGED <<present, last, req, reported>>

IoExitCode(i, p) ==
  /\ Io(i, p, "code", "status")
  /\ inst' = [inst EXCEPT ![i].procs[p].exit_code = "exited"]
  /\ UNCHANGED <<present, last, req, reported>>

\* Bug: the sender is kept.
IoStatus_KeepsSender(i, p) ==
  /\ Io(i, p, "status", "done")
  /\ inst' = [inst EXCEPT ![i].procs[p].status = "Stopped"]
  /\ UNCHANGED <<present, last, req, reported>>

\* Bug: the guard of `containers` outlives the task.
IoStatus_KeepsLock(i, p) ==
  /\ io[i][p] = "status"
  /\ inst' = [inst EXCEPT ![i].procs[p].status = "Stopped", ![i].procs[p].tx = "closed"]
  /\ UNCHANGED <<present, last, io, req, reported>>

\* The status is written without inner.
IoStatus(i, p) ==
  /\ Io(i, p, "status", "done")
  /\ inst' = [inst EXCEPT ![i].procs[p].status = "Stopped", ![i].procs[p].tx = "closed"]
  /\ UNCHANGED <<present, last, req, reported>>
-----------------------------------------------------------------------------
(* The guest, and the client's end of stdin *)

GuestExits(i, p) ==
  /\ inst[i].guest[p] = "running"
  /\ inst' = [inst EXCEPT ![i].guest[p] = "exited"]
  /\ UNCHANGED <<present, last, io, req, reported>>

StdinEnds(i, p) ==
  /\ inst[i].procs[p].stdin = "copying"
  /\ inst' = [inst EXCEPT ![i].procs[p].stdin = "ended"]
  /\ UNCHANGED <<present, last, io, req, reported>>
-----------------------------------------------------------------------------
Init ==
  /\ present = 0 /\ last = 0 /\ reported = {}
  /\ inst = [i \in Instances |-> NoInstance]
  /\ io = [i \in Instances |-> [p \in Procs |-> "none"]]
  /\ req = [t \in Tasks |-> Idle]

TaskStep(t) ==
  \/ BeginCreate(t) \/ EndCreate(t) \/ DeleteContainer(t) \/ Lookup(t)
  \/ exec_process(t) \/ delete_exec_process(t) \/ fetch_exit_watcher(t) \/ BeginCall(t)
  \/ EndStart(t) \/ EndPause(t) \/ EndResume(t) \/ EndUpdate(t) \/ EndKill(t)
  \/ EndCloseIo(t) \/ EndWait(t)

IoStep(i, p) ==
  \/ IoEnds(i, p) \/ WaitProcess(i, p) \/ IoLookup(i, p) \/ IoStop(i, p)
  \/ IoExitCode(i, p) \/ IoStatus(i, p)

Next ==
  \/ \E t \in Tasks : TaskStep(t) \/ \E op \in Ops, p \in Procs : Ask(t, op, p)
  \/ \E i \in Instances, p \in Procs : IoStep(i, p) \/ GuestExits(i, p) \/ StdinEnds(i, p)

Spec == Init /\ [][Next]_vars

\* Tasks run, the agent answers, and tokio's locks are granted in the order they were
\* asked for, so that a task waiting for one gets it. Streams come to their end.
FairSpec ==
  /\ Spec
  /\ \A t \in Tasks : SF_vars(TaskStep(t))
  /\ \A i \in Instances, p \in Procs : SF_vars(IoStep(i, p)) /\ WF_vars(StdinEnds(i, p))
-----------------------------------------------------------------------------
(* Properties *)

\* run_io_wait looks its container up by id, after its last await without a lock. Yet
\* it never stops a later instance of that id: the exit is reported, and so the id
\* deleted, only after it has let `containers` go.
StopsOwnInstance ==
  \A i \in Instances : io[i]["init"] \in {"inner", "code", "status"} => present = i

\* When a wait tells the client that a container has exited, its exit code is recorded,
\* it is stopped, and its volumes, rootfs and share are given back.
ReportedIsCleaned ==
  \A i \in Instances : <<i, "init">> \in reported =>
    /\ inst[i].procs["init"].exit_code = "exited" /\ Status(i) = "Stopped"
    /\ inst[i].fs = "released" /\ ~inst[i].share

\* Volumes and rootfs are never held by an instance that can no longer be reached.
NothingLeaks ==
  \A i \in Instances : inst[i].fs = "held" =>
    present = i \/ \E t \in Tasks : req[t].op = "create" /\ req[t].i = i

\* However the exit of a container, a repeated or failed start and the end of an exec
\* race to stop it, its volumes and rootfs are cleaned up once at most ("do not stop
\* again when state stopped, may cause multi cleanup resource").
CleanedOnce == \A i \in Instances : inst[i].cleanups <= 1

\* Every request but a wait returns, though close_io holds inner.write until stdin ends
\* and create_container holds containers.write across its call of the agent.
RequestsReturn ==
  \A t \in Tasks : req[t].pc \in {"containers", "inner", "rpc"} ~> req[t].pc \in {"idle", "watch"}

\* A wait for a process that exits returns.
WaitsReturn ==
  \A t \in Tasks, i \in Instances, p \in Procs :
    (req[t].pc = "watch" /\ req[t].i = i /\ req[t].p = p /\ inst[i].guest[p] = "exited")
      ~> req[t].pc = "idle"
=============================================================================
