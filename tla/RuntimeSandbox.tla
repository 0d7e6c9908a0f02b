--------------------------- MODULE RuntimeSandbox ---------------------------
(***************************************************************************)
(* The shim process of a sandbox from its first request to its end: the    *)
(* runtime handler that starts the sandbox (runtimes/src/manager.rs),      *)
(* VirtSandbox (virt_container/src/sandbox.rs) with its health check and   *)
(* its watcher of OOM events, the service loop (service/src/manager.rs),   *)
(* and "shim delete" after the shim is gone, which works from the state    *)
(* saved on disk. The VM is dragonball, a thread of the shim. Every request*)
(* that starts the sandbox makes a VirtSandbox of its own, so the state of *)
(* a sandbox is a function of the request.                                 *)
(***************************************************************************)
EXTENDS Naturals, Sequences, FiniteSets

CONSTANTS
  MaxCreates,           \* bound on CreateContainer requests
  MaxShutdowns,         \* bound on ShutdownContainer requests
  MaxRequests,          \* bound on both together
  MaxOom,               \* bound on the OOM events of a sandbox
  MESSAGE_BUFFER_SIZE   \* of the channel to the service loop

ASSUME BoundsAssumption ==
  /\ MaxCreates \in Nat /\ MaxShutdowns \in Nat /\ MaxRequests \in Nat
  /\ MaxOom \in Nat /\ MESSAGE_BUFFER_SIZE \in Nat \ {0}

VARIABLES
  shim,    \* "up" or "gone"
  keep,    \* runtime.keep_abnormal
  create,  \* per request: "idle", a step of StartSteps, "ok" or "failed"
  runtime_instance,  \* the request whose sandbox is the instance, or 0
  vm,      \* per sandbox: "none", "running" or "stopped"
  res,     \* what is on the host, of "cgroup", "overhead", "jail" and "mounts"; the
           \* paths depend on the sandbox id only
  disk,    \* state.json is written; it lies in the "jail" directory
  mon,     \* per sandbox, the health check: "off", "sleep", "check" or "end"
  stop,    \* messages in the stop channel of the instance, at most 1
  oom,     \* per sandbox, the OOM watcher: [pc, n]; "send" with msg_sender locked
  chan,    \* messages to the service loop
  sd,      \* per shutdown: "idle", a step of ShutdownSteps, "done" or "failed"
  wait,    \* WaitProcess of the sandbox container: "idle" or "done"
  del,     \* "shim delete": "idle" or "done"
  hist     \* history: [aborted, stopped, cleaning, unclean]

shimVars ==
  <<shim, keep, create, runtime_instance, vm, res, disk, mon, stop, oom, chan, sd, wait, del, hist>>

Creates == 1 .. MaxCreates
Shutdowns == 1 .. MaxShutdowns

ShimInit ==
  /\ shim = "up"
  /\ keep \in BOOLEAN
  /\ create = [c \in Creates |-> "idle"]
  /\ runtime_instance = 0
  /\ vm = [c \in Creates |-> "none"]
  /\ res = {}
  /\ disk = FALSE
  /\ mon = [c \in Creates |-> "off"]
  /\ stop = 0
  /\ oom = [c \in Creates |-> [pc |-> "off", n |-> 0]]
  /\ chan = <<>>
  /\ sd = [s \in Shutdowns |-> "idle"]
  /\ wait = "idle"
  /\ del = "idle"
  /\ hist = [aborted |-> 0, stopped |-> FALSE, cleaning |-> FALSE, unclean |-> FALSE]

StartSteps == {"new", "before", "boot", "connect", "sandbox", "save", "mgmt"}
ShutdownSteps == {"stop", "jail", "cgroup", "overhead", "mounts", "monitor", "lock", "send"}

\* Requests are numbered in the order in which they are taken up.
InOrder(pc, r) ==
  /\ pc[r] = "idle" /\ \A q \in 1 .. r - 1 : pc[q] # "idle"
  /\ Cardinality({c \in Creates : create[c] # "idle"})
       + Cardinality({s \in Shutdowns : sd[s] # "idle"}) < MaxRequests

\* A request that starts the sandbox holds the write lock of the handler.
Starting == \E c \in Creates : create[c] \in StartSteps

\* The sandbox of a start that failed is dropped, and the sender of its stop channel.
Broken(c) == create[c] = "failed" /\ runtime_instance # c

\* The process ends, and with it its VMs, tasks, channels and requests.
Exit ==
  /\ shim' = "gone"
  /\ vm' = [c \in Creates |-> "none"]
  /\ mon' = [c \in Creates |-> "off"]
  /\ oom' = [c \in Creates |-> [pc |-> "off", n |-> 0]]
  /\ chan' = <<>>
  /\ stop' = 0
  /\ sd' = [s \in Shutdowns |-> "idle"]
  /\ wait' = "idle"

-----------------------------------------------------------------------------
\* try_init, once it has the write lock: nothing to do if there is an instance.
try_init(c) ==
  /\ InOrder(create, c) /\ ~Starting
  /\ create' = [create EXCEPT ![c] = IF runtime_instance # 0 THEN "ok" ELSE "new"]
  /\ UNCHANGED <<shim, runtime_instance, vm, res, disk, mon, stop, oom, chan, sd, wait, hist>>

To(c, step) == create' = [create EXCEPT ![c] = step]

\* What a step of the start puts on the host. There is an overhead cgroup unless
\* sandbox_cgroup_only is set.
Made(step) ==
  CASE step = "new" -> {{"cgroup"}, {"cgroup", "overhead"}}
    [] step = "before" -> {{"jail", "mounts"}}
    [] OTHER -> {{}}

\* init_runtime_handler: new_instance, then VirtSandbox::start up to the connection.
Prepare(c) ==
  /\ \E step \in {<<"new", "before">>, <<"before", "boot">>, <<"connect", "sandbox">>} :
       /\ create[c] = step[1] /\ To(c, step[2])
       /\ \E made \in Made(step[1]) : res' = res \cup made
  /\ UNCHANGED <<shim, runtime_instance, vm, disk, mon, stop, oom, chan, sd, wait, hist>>

\* start_vm and the hooks.
Boot(c) ==
  /\ create[c] = "boot" /\ To(c, "connect")
  /\ vm' = [vm EXCEPT ![c] = "running"]
  /\ UNCHANGED <<shim, runtime_instance, res, disk, mon, stop, oom, chan, sd, wait, hist>>

\* create_sandbox; the OOM watcher and the health check are spawned.
SpawnTasks(c) ==
  /\ create[c] = "sandbox" /\ To(c, "save")
  /\ mon' = [mon EXCEPT ![c] = "sleep"]
  /\ oom' = [oom EXCEPT ![c].pc = "get"]
  /\ UNCHANGED <<shim, runtime_instance, vm, res, disk, stop, chan, sd, wait, hist>>

\* The state is saved, and the sandbox is the runtime instance.
save(c) ==
  /\ create[c] = "save" /\ To(c, "mgmt")
  /\ disk' = TRUE
  /\ runtime_instance' = c
  /\ UNCHANGED <<shim, vm, res, mon, stop, oom, chan, sd, wait, hist>>

\* The management server is spawned.
MgmtServer(c) ==
  /\ create[c] = "mgmt" /\ To(c, "ok")
  /\ UNCHANGED <<shim, runtime_instance, vm, res, disk, mon, stop, oom, chan, sd, wait, hist>>

\* A step fails, perhaps half done. Nothing is rolled back, except that start_vm stops
\* a VM that does not come up (a VM whose hooks fail goes on).
StartFails(c) ==
  /\ create[c] \in StartSteps /\ To(c, "failed")
  /\ \E made \in Made(create[c]) : \E part \in SUBSET made : res' = res \cup part
  /\ IF create[c] = "boot"
     THEN \E v \in {"running", "stopped"} : vm' = [vm EXCEPT ![c] = v]
     ELSE UNCHANGED vm
  /\ UNCHANGED <<shim, runtime_instance, disk, mon, stop, oom, chan, sd, wait, hist>>

\* WaitProcess of the sandbox container stops the VM, but not the health check.
WaitSandbox ==
  /\ runtime_instance # 0 /\ ~Starting /\ wait = "idle"
  /\ wait' = "done"
  /\ vm' = [vm EXCEPT ![runtime_instance] = "stopped"]
  /\ UNCHANGED <<shim, create, runtime_instance, res, disk, mon, stop, oom, chan, sd, hist>>

-----------------------------------------------------------------------------
\* What try_recv on the stop channel of a health check finds.
Received(c) == c = runtime_instance /\ stop = 1
Empty(c) == ~Broken(c) /\ ~Received(c)

\* Takes the message, if there is one, and ends the health check.
Ends(c) ==
  /\ mon' = [mon EXCEPT ![c] = "end"]
  /\ stop' = IF Received(c) THEN 0 ELSE stop

\* HealthCheck::start: the sleep is over.
MonitorWakes(c) ==
  /\ mon[c] = "sleep"
  /\ IF Empty(c) THEN mon' = [mon EXCEPT ![c] = "check"] /\ UNCHANGED stop ELSE Ends(c)
  /\ UNCHANGED <<shim, create, runtime_instance, vm, res, disk, oom, chan, sd, wait, hist>>

\* Bug: the stop channel is not looked at again after a check that failed.
CheckFails_NoSecondLook(c) ==
  IF keep
  THEN mon' = [mon EXCEPT ![c] = "sleep"] /\ UNCHANGED <<shim, vm, stop, oom, chan, sd, wait, hist>>
  ELSE Exit /\ hist' = [hist EXCEPT !.aborted = c]

\* The agent does not answer: the shim exits, unless it was told to stop in the meantime
\* or is to be kept.
CheckFails(c) ==
  \/ /\ ~Empty(c) /\ Ends(c)
     /\ UNCHANGED <<shim, vm, oom, chan, sd, wait, hist>>
  \/ /\ Empty(c) /\ keep
     /\ mon' = [mon EXCEPT ![c] = "sleep"]
     /\ UNCHANGED <<shim, vm, stop, oom, chan, sd, wait, hist>>
  \/ /\ Empty(c) /\ ~keep
     /\ Exit
     /\ hist' = [hist EXCEPT !.aborted = c]

\* The agent is asked. It may fail to answer, and does not answer once the VM is stopped.
MonitorChecks(c) ==
  /\ mon[c] = "check"
  /\ \/ /\ vm[c] = "running"
        /\ mon' = [mon EXCEPT ![c] = "sleep"]
        /\ UNCHANGED <<shim, vm, stop, oom, chan, sd, wait, hist>>
     \/ CheckFails(c)
  /\ UNCHANGED <<create, runtime_instance, res, disk>>

\* msg_sender of a sandbox is locked.
Locked(c) == oom[c].pc = "send" \/ (c = runtime_instance /\ \E s \in Shutdowns : sd[s] = "send")

\* get_oom_event returns an event or, at any time, an error, which ends the watcher.
OomEvent(c) ==
  /\ oom[c].pc = "get"
  /\ \/ vm[c] = "running" /\ oom[c].n < MaxOom
        /\ oom' = [oom EXCEPT ![c] = [pc |-> "lock", n |-> @.n + 1]]
     \/ oom' = [oom EXCEPT ![c].pc = "end"]
  /\ UNCHANGED <<shim, create, runtime_instance, vm, res, disk, mon, stop, chan, sd, wait, hist>>

\* The event is sent to the service loop, with msg_sender locked.
OomSends(c) ==
  /\ \/ /\ oom[c].pc = "lock" /\ ~Locked(c)
        /\ oom' = [oom EXCEPT ![c].pc = "send"]
        /\ UNCHANGED chan
     \/ /\ oom[c].pc = "send" /\ Len(chan) < MESSAGE_BUFFER_SIZE
        /\ chan' = Append(chan, "event")
        /\ oom' = [oom EXCEPT ![c].pc = "get"]
  /\ UNCHANGED <<shim, create, runtime_instance, vm, res, disk, mon, stop, sd, wait, hist>>

\* Bug: a shutdown only stops the listener, as Action::Stop does.
run_NoBreak ==
  /\ chan # <<>>
  /\ chan' = Tail(chan)
  /\ UNCHANGED <<shim, vm, create, runtime_instance, res, disk, mon, stop, oom, sd, wait, hist>>

\* ServiceManager::run takes a message. An event that cannot be published is dropped.
run ==
  /\ chan # <<>>
  /\ IF Head(chan) = "shutdown"
     THEN Exit
     ELSE chan' = Tail(chan) /\ UNCHANGED <<shim, vm, mon, oom, stop, sd, wait>>
  /\ UNCHANGED <<create, runtime_instance, res, disk, hist>>

-----------------------------------------------------------------------------
Sd(s, step) == sd' = [sd EXCEPT ![s] = step]

\* The hypervisor's cleanup removes the directory of the sandbox, and with it the saved
\* state. Its errors are ignored.
CleanJail(s) ==
  /\ sd[s] = "jail" /\ Sd(s, "cgroup")
  /\ \/ res' = res \ {"jail"} /\ disk' = FALSE /\ hist' = [hist EXCEPT !.cleaning = TRUE]
     \/ hist' = [hist EXCEPT !.unclean = TRUE] /\ UNCHANGED <<res, disk>>
  /\ UNCHANGED <<shim, create, runtime_instance, vm, mon, stop, oom, chan, wait>>

\* The resources ResourceManagerInner::cleanup removes, in its order.
Cleaned == {<<"cgroup", "overhead">>, <<"overhead", "mounts">>, <<"mounts", "monitor">>}

\* Bug: the overhead cgroup is left out of CgroupsResource::delete.
CleanResource_NoOverhead(s) ==
  /\ \E step \in Cleaned :
       /\ sd[s] = step[1]
       /\ \/ Sd(s, step[2]) /\ res' = res \ ({step[1]} \ {"overhead"}) /\ UNCHANGED hist
          \/ Sd(s, "failed") /\ hist' = [hist EXCEPT !.unclean = TRUE] /\ UNCHANGED res
  /\ UNCHANGED <<shim, create, runtime_instance, vm, disk, mon, stop, oom, chan, wait>>

\* One resource is removed; an error ends the shutdown there.
CleanResource(s) ==
  /\ \E step \in Cleaned :
       /\ sd[s] = step[1]
       /\ \/ Sd(s, step[2]) /\ res' = res \ {step[1]} /\ UNCHANGED hist
          \/ Sd(s, "failed") /\ hist' = [hist EXCEPT !.unclean = TRUE] /\ UNCHANGED res
  /\ UNCHANGED <<shim, create, runtime_instance, vm, disk, mon, stop, oom, chan, wait>>

\* A ShutdownContainer request that needs the sandbox shut down gets the instance.
ShutdownContainer(s) ==
  /\ InOrder(sd, s) /\ runtime_instance # 0 /\ ~Starting
  /\ Sd(s, "stop")
  /\ UNCHANGED <<shim, create, runtime_instance, vm, res, disk, mon, stop, oom, chan, wait, hist>>

\* The steps of VirtSandbox::shutdown around its cleanup: the VM is stopped first; the
\* health check is told to stop, and then the service loop, after the cleanup.
ShutdownStep(s) ==
  /\ \/ /\ sd[s] = "stop" /\ Sd(s, "jail")
        /\ vm' = [vm EXCEPT ![runtime_instance] = "stopped"]
        /\ UNCHANGED <<stop, chan, hist>>
     \/ /\ sd[s] = "monitor" /\ stop = 0 /\ Sd(s, "lock")
        /\ stop' = 1
        /\ hist' = [hist EXCEPT !.stopped = TRUE]
        /\ UNCHANGED <<vm, chan>>
     \/ /\ sd[s] = "lock" /\ ~Locked(runtime_instance) /\ Sd(s, "send")
        /\ UNCHANGED <<vm, stop, chan, hist>>
     \/ /\ sd[s] = "send" /\ Len(chan) < MESSAGE_BUFFER_SIZE /\ Sd(s, "done")
        /\ chan' = Append(chan, "shutdown")
        /\ UNCHANGED <<vm, stop, hist>>
  /\ UNCHANGED <<shim, create, runtime_instance, res, disk, mon, oom, wait>>

shutdown(s) == CleanJail(s) \/ CleanResource(s) \/ ShutdownStep(s)

-----------------------------------------------------------------------------
\* The shim is killed or crashes.
ShimDies ==
  /\ Exit
  /\ UNCHANGED <<create, runtime_instance, res, disk, hist>>

\* Bug: the restored cgroup is not deleted.
Restored_NoCgroup == {"jail"}

\* What the cleanup of a restored sandbox covers. restore sets the overhead cgroup and
\* the shared file system to None and the configuration to its default.
Restored == {"jail", "cgroup"}

\* "shim delete": the sandbox is restored from its state and cleaned up, unless it is to
\* be kept; errors are only logged. Its directory is removed in any case.
delete ==
  /\ shim = "gone" /\ del = "idle"
  /\ del' = "done"
  /\ disk' = FALSE
  /\ \/ /\ disk /\ ~keep
        /\ res' = res \ Restored
        /\ UNCHANGED hist
     \/ /\ disk /\ ~keep
        /\ res' \in {res, res \ {"jail"}}
        /\ hist' = [hist EXCEPT !.unclean = TRUE]
     \/ /\ ~disk \/ keep
        /\ res' \in {res, res \ {"jail"}}
        /\ UNCHANGED hist
  /\ UNCHANGED <<shim, keep, create, runtime_instance, vm, mon, stop, oom, chan, sd, wait>>

Up(A) == shim = "up" /\ A /\ UNCHANGED <<keep, del>>

Start(c) ==
  try_init(c) \/ Prepare(c) \/ Boot(c) \/ SpawnTasks(c) \/ save(c) \/ MgmtServer(c) \/ StartFails(c)

ShimNext ==
  \/ \E c \in Creates :
       Up(Start(c) \/ MonitorWakes(c) \/ MonitorChecks(c) \/ OomEvent(c) \/ OomSends(c))
  \/ \E s \in Shutdowns : Up(ShutdownContainer(s) \/ shutdown(s))
  \/ Up(WaitSandbox \/ run \/ ShimDies)
  \/ delete

ShimSpec == ShimInit /\ [][ShimNext]_shimVars

\* The tasks of the shim's tokio runtime go on, and its mutexes are fair.
Fairness ==
  /\ \A c \in Creates : WF_shimVars(Up(MonitorWakes(c))) /\ WF_shimVars(Up(MonitorChecks(c)))
  /\ \A c \in Creates : SF_shimVars(Up(OomSends(c)))
  /\ \A s \in Shutdowns : SF_shimVars(Up(shutdown(s)))
  /\ WF_shimVars(Up(run))

FairShimSpec == ShimSpec /\ Fairness

-----------------------------------------------------------------------------
\* The health check ends the shim only on behalf of a sandbox in use: not of one whose
\* start failed, and not once shutdown has told it to stop, although the VM is gone then.
ExitJustified ==
  hist.aborted # 0 => ~Broken(hist.aborted) /\ ~hist.stopped

\* When a shutdown has got past its cleanup without an error nothing is left on the
\* host, also if earlier starts failed half way.
ShutdownIsClean ==
  (\E s \in Shutdowns : sd[s] \in {"monitor", "lock", "send", "done"}) /\ ~hist.unclean
    => res = {}

\* Wherever the shim dies between the end of a start and the first step of a cleanup,
\* "shim delete" finds the state and removes all a restored sandbox knows of, also what
\* earlier starts that failed have left. Before and after there is no state.
CrashIsClean ==
  del = "done" /\ runtime_instance # 0 /\ ~hist.cleaning /\ ~keep /\ ~hist.unclean =>
    res \subseteq {"overhead", "mounts"}

\* A shutdown in progress ends the shim, or fails in its cleanup: neither the OOM watcher,
\* which shares msg_sender, nor a full channel, nor a second shutdown can block it.
ShutdownEnds ==
  \A s \in Shutdowns : sd[s] \in ShutdownSteps ~> shim = "gone" \/ sd[s] = "failed"
=============================================================================
