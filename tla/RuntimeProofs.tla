---------------------------- MODULE RuntimeProofs ----------------------------
(***************************************************************************)
(* Proofs about runtime-rs: first the sandbox of a shim, then the          *)
(* container manager in it.                                                *)
(***************************************************************************)
EXTENDS ContainerManager, RuntimeSandbox, TLAPS

\* The provers a step is given to, in turn, where it does not name one.
USE SMTT(10), ZenonT(20), SMTT(40)

-----------------------------------------------------------------------------
(***************************************************************************)
(* The sandbox of the shim, for any number of requests, OOM events and     *)
(* places in the channel. Its safety properties rest on one inductive      *)
(* invariant, whose core is that nothing is put on the host once there is  *)
(* an instance.                                                            *)
(***************************************************************************)

\* The steps of a start before there is an instance.
Early == StartSteps \ {"mgmt"}

History ==
  [aborted : Creates \cup {0}, stopped : BOOLEAN, cleaning : BOOLEAN, unclean : BOOLEAN]

ShimTypes ==
  /\ shim \in {"up", "gone"}
  /\ create \in [Creates -> StartSteps \cup {"idle", "ok", "failed"}]
  /\ runtime_instance \in Creates \cup {0}
  /\ mon \in [Creates -> {"off", "sleep", "check", "end"}]
  /\ stop \in {0, 1}
  /\ sd \in [Shutdowns -> ShutdownSteps \cup {"idle", "done", "failed"}]
  /\ res \subseteq {"cgroup", "overhead", "jail", "mounts"}
  /\ hist \in History

\* One request at a time starts the sandbox, and none once there is an instance. Only
\* then is it shut down.
Starts ==
  /\ \A c \in Creates : create[c] \in Early => runtime_instance = 0
  /\ \A c, d \in Creates :
       create[c] \in StartSteps /\ create[d] \in StartSteps => c = d
  /\ \A s \in Shutdowns : sd[s] # "idle" => runtime_instance # 0

\* A health check belongs to a start that goes on, to the instance or to a start that
\* failed. Once the instance's has been told to stop, it has ended or has the message.
Monitors ==
  /\ \A c \in Creates :
       mon[c] \in {"sleep", "check"} => create[c] \in {"save", "failed"} \/ runtime_instance = c
  /\ hist.stopped /\ shim = "up" =>
       runtime_instance # 0 /\ (stop = 1 \/ mon[runtime_instance] = "end")
  /\ hist.aborted # 0 => shim = "gone"

\* What each step of a shutdown has behind it.
Cleanup ==
  ~hist.unclean => \A s \in Shutdowns :
    /\ sd[s] \notin {"idle", "stop", "jail", "failed"} => "jail" \notin res
    /\ sd[s] \notin {"idle", "stop", "jail", "cgroup", "failed"} => "cgroup" \notin res
    /\ sd[s] \notin {"idle", "stop", "jail", "cgroup", "overhead", "failed"} =>
         "overhead" \notin res
    /\ sd[s] \notin {"idle", "stop", "jail", "cgroup", "overhead", "mounts", "failed"} =>
         "mounts" \notin res

\* The state is on disk from the end of the start to the first step of a cleanup.
Saved ==
  /\ runtime_instance # 0 /\ ~hist.cleaning /\ del = "idle" => disk
  /\ del # "idle" => del = "done" /\ shim = "gone"

ShimInv ==
  /\ ShimTypes /\ Starts /\ Monitors /\ Cleanup /\ Saved
  /\ ExitJustified /\ CrashIsClean

-----------------------------------------------------------------------------
\* The updates of the history record keep its type.
LEMMA HistoryType ==
  \A h \in History : /\ [h EXCEPT !.unclean = TRUE] \in History
                     /\ [h EXCEPT !.cleaning = TRUE] \in History
                     /\ h.unclean \in BOOLEAN
                     /\ [h EXCEPT !.unclean = TRUE].unclean
BY Zenon DEF History

\* So does recording that the guest was stopped.
LEMMA StoppedType == \A h \in History : [h EXCEPT !.stopped = TRUE] \in History
BY ZenonT(40) DEF History

\* A new sandbox satisfies the invariant.
LEMMA ShimInitInv == ShimInit => ShimInv
BY DEF ShimInit, ShimInv, ShimTypes, Starts, Monitors, ExitJustified, Cleanup, Saved,
  CrashIsClean, Early,
  StartSteps, Creates, Shutdowns, History

\* The actions of a start.
LEMMA ShimStartInv ==
  ASSUME ShimInv, NEW c \in Creates, Up(Start(c))
  PROVE  ShimInv'
<1> USE DEF ShimInv, ShimTypes, Starts, Up, Early
<1>0. c # 0 BY DEF Creates
<1>1. CASE try_init(c)
  <2> USE <1>1, <1>0 DEF try_init, InOrder, Starting
  <2>1. (ShimTypes /\ Starts)' BY DEF StartSteps
  <2>2. (Monitors /\ ExitJustified)' BY DEF Monitors, ExitJustified, Broken, StartSteps
  <2>3. (Cleanup /\ Saved /\ CrashIsClean)' BY DEF Cleanup, Saved, CrashIsClean, StartSteps
  <2> QED BY <2>1, <2>2, <2>3
<1>2. CASE Prepare(c)
  <2> USE <1>2, <1>0 DEF Prepare, To, Made
  <2>1. (ShimTypes /\ Starts)' BY DEF StartSteps
  <2>2. (Monitors /\ ExitJustified)' BY DEF Monitors, ExitJustified, Broken, StartSteps
  <2>3. (Cleanup /\ Saved /\ CrashIsClean)' BY DEF Cleanup, Saved, CrashIsClean, StartSteps
  <2> QED BY <2>1, <2>2, <2>3
<1>3. CASE Boot(c)
  <2> USE <1>3, <1>0 DEF Boot, To
  <2>1. (ShimTypes /\ Starts)' BY DEF StartSteps
  <2>2. (Monitors /\ ExitJustified)' BY DEF Monitors, ExitJustified, Broken, StartSteps
  <2>3. (Cleanup /\ Saved /\ CrashIsClean)' BY DEF Cleanup, Saved, CrashIsClean, StartSteps
  <2> QED BY <2>1, <2>2, <2>3
<1>4. CASE SpawnTasks(c)
  <2> USE <1>4, <1>0 DEF SpawnTasks, To
  <2>1. (ShimTypes /\ Starts)' BY DEF StartSteps
  <2>2. (Monitors /\ ExitJustified)' BY DEF Monitors, ExitJustified, Broken, StartSteps
  <2>3. (Cleanup /\ Saved /\ CrashIsClean)' BY DEF Cleanup, Saved, CrashIsClean, StartSteps
  <2> QED BY <2>1, <2>2, <2>3
<1>5. CASE save(c)
  <2> USE <1>5, <1>0 DEF save, To
  <2>1. runtime_instance = 0 BY DEF StartSteps
  <2>2. (ShimTypes /\ Starts)' BY <2>1 DEF StartSteps
  <2>3. (Monitors /\ ExitJustified)' BY <2>1, <2>2 DEF Monitors, ExitJustified,
    Creates
  <2>4. (Cleanup /\ Saved /\ CrashIsClean)' BY <2>1 DEF Cleanup, Saved, CrashIsClean
  <2> QED BY <2>2, <2>3, <2>4
<1>6. CASE MgmtServer(c)
  <2> USE <1>6, <1>0 DEF MgmtServer, To
  <2>1. (ShimTypes /\ Starts)' BY DEF StartSteps
  <2>2. (Monitors /\ ExitJustified)' BY DEF Monitors, ExitJustified, Broken, StartSteps
  <2>3. (Cleanup /\ Saved /\ CrashIsClean)' BY DEF Cleanup, Saved, CrashIsClean, StartSteps
  <2> QED BY <2>1, <2>2, <2>3
<1>7. CASE StartFails(c)
  <2> USE <1>7, <1>0 DEF StartFails, To, Made
  <2>1. (ShimTypes /\ Starts)' BY DEF StartSteps
  <2>2. (Monitors /\ ExitJustified)' BY DEF Monitors, ExitJustified, Broken, StartSteps
  <2>3. (Cleanup /\ Saved /\ CrashIsClean)' BY DEF Cleanup, Saved, CrashIsClean, StartSteps
  <2> QED BY <2>1, <2>2, <2>3
<1> QED BY <1>1, <1>2, <1>3, <1>4, <1>5, <1>6, <1>7, ZenonT(40) DEF Start

\* The health check.
LEMMA ShimMonitorInv ==
  ASSUME ShimInv, NEW c \in Creates, Up(MonitorWakes(c) \/ MonitorChecks(c))
  PROVE  ShimInv'
<1> USE DEF ShimInv, ShimTypes, Starts, Up, Early, Empty, Received, Ends,
  Saved
<1>0. c # 0 BY DEF Creates
<1>1. CASE MonitorWakes(c)
  BY <1>1, <1>0 DEF MonitorWakes, Monitors, ExitJustified, Broken, Cleanup,
    CrashIsClean
<1>2. CASE MonitorChecks(c)
  <2>1. CASE shim' = "up"
    <3>1. hist' = hist /\ UNCHANGED <<shim, sd>>
      BY <1>2, <2>1 DEF MonitorChecks, CheckFails, Exit
    <3>2. (ShimTypes /\ Starts /\ Saved)' BY <1>2, <3>1 DEF MonitorChecks,
      CheckFails, Exit
    <3>3. Monitors' BY <1>2, <1>0, <2>1, <3>1 DEF MonitorChecks, CheckFails,
      Exit, Monitors
    <3>4. (ExitJustified /\ Cleanup /\ CrashIsClean)'
      BY <1>2, <3>1 DEF MonitorChecks, ExitJustified, Broken, Cleanup,
        CrashIsClean
    <3> QED BY <3>2, <3>3, <3>4
  <2>2. CASE shim' # "up"
    <3>1. /\ Empty(c) /\ Exit /\ hist' = [hist EXCEPT !.aborted = c]
          /\ mon[c] = "check" /\ UNCHANGED <<create, runtime_instance, res, disk>>
      BY <1>2, <2>2 DEF MonitorChecks, CheckFails
    <3>2. ~hist.stopped BY <3>1, <1>0 DEF Monitors, Broken, StartSteps
    <3>3. (ShimTypes /\ Starts /\ Saved)' BY <3>1 DEF Exit, History
    <3>4. (Monitors /\ ExitJustified)' BY <3>1, <3>2 DEF Exit, Monitors,
      ExitJustified, Broken, History
    <3>5. (Cleanup /\ CrashIsClean)' BY <3>1 DEF Exit, Cleanup, CrashIsClean,
      History
    <3> QED BY <3>3, <3>4, <3>5
  <2> QED BY <2>1, <2>2
<1> QED BY <1>1, <1>2

\* The steps of a shutdown.
LEMMA ShimShutdownInv ==
  ASSUME ShimInv, NEW s \in Shutdowns,
    Up(ShutdownContainer(s) \/ shutdown(s))
  PROVE  ShimInv'
<1> USE DEF ShimInv, ShimTypes, Starts, Up, Early, Saved, Sd, ShutdownSteps
<1>1. CASE ShutdownContainer(s)
  BY <1>1, ZenonT(40) DEF ShutdownContainer, InOrder, Monitors, ExitJustified,
      Broken,
    Cleanup, CrashIsClean
<1>2. CASE CleanJail(s)
  <2> USE <1>2 DEF CleanJail
  <2>0. ShimTypes'
    <3>1. sd' \in [Shutdowns -> ShutdownSteps \cup {"idle", "done", "failed"}] OBVIOUS
    <3>2. hist' \in History
      <4>1. CASE hist' = [hist EXCEPT !.unclean = TRUE]
        BY ONLY <4>1, hist \in History, HistoryType, Zenon
      <4>2. CASE hist' = [hist EXCEPT !.cleaning = TRUE]
        BY ONLY <4>2, hist \in History, HistoryType, Zenon
      <4> QED BY <4>1, <4>2
    <3>3. res' \subseteq {"cgroup", "overhead", "jail", "mounts"} OBVIOUS
    <3>4. stop' \in {0, 1} /\ UNCHANGED <<shim, create, runtime_instance, mon>> OBVIOUS
    <3> QED BY <3>1, <3>2, <3>3, <3>4
  <2>1. (Starts /\ Saved)' BY DEF History
  <2>2. (Monitors /\ ExitJustified)' BY DEF Monitors, ExitJustified, Broken,
    History
  <2>3. (Cleanup /\ CrashIsClean)' BY DEF Cleanup, CrashIsClean, History
  <2> QED BY <2>0, <2>1, <2>2, <2>3
<1>3. CASE CleanResource(s)
  <2> USE <1>3 DEF CleanResource, Cleaned
  <2>0. ShimTypes'
    <3>1. sd' \in [Shutdowns -> ShutdownSteps \cup {"idle", "done", "failed"}] OBVIOUS
    <3>2. hist' \in History
      <4>1. hist' = hist \/ hist' = [hist EXCEPT !.unclean = TRUE] OBVIOUS
      <4> QED BY ONLY <4>1, hist \in History, HistoryType, ZenonT(40)
    <3>3. res' \subseteq {"cgroup", "overhead", "jail", "mounts"} OBVIOUS
    <3>4. stop' \in {0, 1} /\ UNCHANGED <<shim, create, runtime_instance, mon>> OBVIOUS
    <3> QED BY <3>1, <3>2, <3>3, <3>4
  <2>1. (Starts /\ Saved)' BY DEF History
  <2>2. (Monitors /\ ExitJustified)' BY DEF Monitors, ExitJustified, Broken,
    History
  <2>3. (Cleanup /\ CrashIsClean)' BY DEF Cleanup, CrashIsClean, History
  <2> QED BY <2>0, <2>1, <2>2, <2>3
<1>4. CASE ShutdownStep(s)
  <2> USE <1>4 DEF ShutdownStep
  <2>0. ShimTypes'
    <3>1. sd' \in [Shutdowns -> ShutdownSteps \cup {"idle", "done", "failed"}] OBVIOUS
    <3>2. hist' \in History
      <4>1. hist' = hist \/ hist' = [hist EXCEPT !.stopped = TRUE] OBVIOUS
      <4> QED BY ONLY <4>1, hist \in History, StoppedType
    <3>3. res' \subseteq {"cgroup", "overhead", "jail", "mounts"} OBVIOUS
    <3>4. stop' \in {0, 1} /\ UNCHANGED <<shim, create, runtime_instance, mon>> OBVIOUS
    <3> QED BY <3>1, <3>2, <3>3, <3>4
  <2>1. (Starts /\ Saved)' BY DEF History
  <2>2. (Monitors /\ ExitJustified)' BY DEF Monitors, ExitJustified, Broken,
    History
  <2>3. (Cleanup /\ CrashIsClean)' BY DEF Cleanup, CrashIsClean, History
  <2> QED BY <2>0, <2>1, <2>2, <2>3
<1> QED BY <1>1, <1>2, <1>3, <1>4, ZenonT(40) DEF shutdown

\* The other steps of the shim, its end and what "shim delete" does after it.
LEMMA ShimOtherInv ==
  ASSUME ShimInv,
         \/ \E c \in Creates : Up(OomEvent(c) \/ OomSends(c))
         \/ Up(WaitSandbox \/ run \/ ShimDies)
         \/ delete
  PROVE  ShimInv'
<1> USE DEF ShimInv, ShimTypes, Starts, Up, Early, Saved, Monitors, ExitJustified,
  Broken, Cleanup,
          CrashIsClean
<1>1. CASE \E c \in Creates : Up(OomEvent(c) \/ OomSends(c))
  BY <1>1 DEF OomEvent, OomSends
<1>2. CASE Up(WaitSandbox \/ run \/ ShimDies)
  <2>1. CASE shim' = "up"
    <3>1. UNCHANGED <<shim, create, runtime_instance, res, disk, mon, stop, sd, hist, keep, del>>
      BY <1>2, <2>1, ZenonT(40) DEF WaitSandbox, run, ShimDies, Exit
    <3> QED BY <3>1, ZenonT(40)
  <2>2. CASE shim' # "up"
    <3>1. Exit /\ UNCHANGED <<create, runtime_instance, res, disk, hist, keep, del>>
      BY <1>2, <2>2 DEF WaitSandbox, run, ShimDies
    <3> QED BY <3>1, ZenonT(40) DEF Exit
  <2> QED BY <2>1, <2>2, ZenonT(40)
<1>3. CASE delete
  <2> USE <1>3 DEF delete, Restored
  <2>0. hist' = hist \/ hist' = [hist EXCEPT !.unclean = TRUE] OBVIOUS
  <2>1. hist' \in History /\ UNCHANGED <<shim, create, runtime_instance, mon, stop, sd>>
    <3>1. hist' \in History BY ONLY <2>0, hist \in History, HistoryType, ZenonT(40)
    <3> QED BY <3>1
  <2>2. hist.unclean => hist'.unclean BY HistoryType, Zenon
  <2>3. res' \subseteq res OBVIOUS
  <2>4. /\ hist'.aborted = hist.aborted /\ hist'.stopped = hist.stopped
        /\ hist'.cleaning = hist.cleaning
    BY DEF History
  <2>5. (ShimTypes /\ Starts /\ Saved)' BY <2>1, <2>3
  <2>6. (Monitors /\ ExitJustified)' BY <2>1, <2>4
  <2>7. Cleanup' BY <2>1, <2>2, <2>3
  <2>8. CrashIsClean' BY <2>1, <2>4 DEF History
  <2> QED BY <2>5, <2>6, <2>7, <2>8
<1> QED BY <1>1, <1>2, <1>3, ZenonT(40)

\* The inductive invariant holds in every reachable state of the sandbox: of start, stop,
\* the monitor, the shutdown requests and the clean-up of a crashed shim.
THEOREM RuntimeInv == ShimSpec => []ShimInv
<1>1. ShimInv /\ [ShimNext]_shimVars => ShimInv'
  <2> SUFFICES ASSUME ShimInv, [ShimNext]_shimVars PROVE ShimInv' OBVIOUS
  <2>1. CASE UNCHANGED shimVars
    BY <2>1, ZenonT(40) DEF shimVars, ShimInv, ShimTypes, Starts, Monitors, ExitJustified,
      Broken, Cleanup, Saved, CrashIsClean
  <2>2. CASE ShimNext
    BY <2>2, ShimStartInv, ShimMonitorInv, ShimShutdownInv, ShimOtherInv DEF ShimNext, Up
  <2> QED BY <2>1, <2>2
<1> QED BY <1>1, ShimInitInv, PTL DEF ShimSpec

\* The health check ends the shim only on behalf of a sandbox in use (HealthCheck::start
\* and its stop channel), whatever the number of requests.
THEOREM ExitIsJustified == ShimSpec => []ExitJustified
<1>1. ShimInv => ExitJustified BY DEF ShimInv
<1> QED BY <1>1, RuntimeInv, PTL

\* VirtSandbox::shutdown leaves nothing on the host when none of its steps fails, whatever
\* starts failed before and however many shutdowns overlap.
THEOREM ShutdownLeavesNothing == ShimSpec => []ShutdownIsClean
<1>1. ShimInv => ShutdownIsClean BY DEF ShimInv, ShimTypes, Cleanup, ShutdownIsClean
<1> QED BY <1>1, RuntimeInv, PTL

\* "shim delete" removes what it can restore wherever the shim died, from the end of the
\* start to the first step of a cleanup.
THEOREM DeleteCleansUp == ShimSpec => []CrashIsClean
<1>1. ShimInv => CrashIsClean BY DEF ShimInv
<1> QED BY <1>1, RuntimeInv, PTL

-----------------------------------------------------------------------------
(***************************************************************************)
(* The containers, for any number of requests in flight and instances of a *)
(* container id.                                                           *)
(*                                                                         *)
(* CleanedOnce holds whatever the client asks for and whatever fails.      *)
(* StopsOwnInstance, ReportedIsCleaned and NothingLeaks hold for an agent  *)
(* that does not fail and a client that creates, starts, waits for,        *)
(* signals and deletes containers without execs (PlainClient); with        *)
(* failures the last two do not hold.                                      *)
(***************************************************************************)
USE ManagerAssumption

ProcType ==
  [here : BOOLEAN, status : {"Created", "Running", "Paused", "Stopped"},
   exit_code : {"none", "exited"}, tx : {"closed", "process", "task"},
   stdin : {"none", "copying", "ended"}]
GuestType == {"none", "created", "running", "exited", "removed"}
InstType ==
  [procs : [Procs -> ProcType], guest : [Procs -> GuestType],
   fs : {"none", "held", "released"}, cleanups : Nat, share : BOOLEAN]
ReqType ==
  [op : Ops \cup {"none"}, p : Procs, i : Instances \cup {0},
   pc : {"idle", "containers", "inner", "rpc", "watch"}]
IoType == {"none", "io", "wait", "lookup", "inner", "code", "status", "done"}

Types ==
  /\ present \in Instances \cup {0}
  /\ last \in Nat
  /\ inst \in [Instances -> InstType]
  /\ io \in [Instances -> [Procs -> IoType]]
  /\ req \in [Tasks -> ReqType]

\* A request that has looked its container up has found one, and a creation in flight
\* is the only one and has an id left.
Requests ==
  /\ \A t \in Tasks :
       /\ req[t].pc \in {"inner", "rpc", "watch"} => req[t].i # 0
       /\ req[t].op = "exec" => req[t].p # "init"
       /\ req[t].op = "create" => req[t].p = "init" /\ req[t].pc \in {"containers", "rpc"}
       /\ req[t].op = "create" /\ req[t].pc = "containers" => last + 1 \in Instances
  /\ \A t, u \in Tasks : req[t].op = "create" /\ req[u].op = "create" => t = u

\* The two locks: one writer, and no reader besides.
Locks ==
  /\ ~(ContainersWritten /\ ContainersRead)
  /\ \A t, u \in Tasks :
       /\ req[t].op # "create" /\ req[t].pc = "rpc"
       /\ req[u].op # "create" /\ req[u].pc = "rpc"
       => t = u

\* What has been cleaned up is stopped, here and in the guest, and stays so: no pause,
\* resume or creation is about to overwrite it.
CleanedUp(c) == c.cleanups = 1 /\ c.procs["init"].status = "Stopped" /\ c.guest["init"] = "removed"
Overwrites(t) == req[t].pc = "rpc" /\ req[t].op \in {"create", "pause", "resume"}

Clean ==
  /\ \A i \in Instances : inst[i].cleanups = 0 \/ CleanedUp(inst[i])
  /\ \A t \in Tasks : Overwrites(t) => inst[req[t].i].cleanups = 0

Inv == Types /\ Requests /\ Locks /\ Clean

-----------------------------------------------------------------------------
\* Nothing that matters for the cleanup changes in an instance.
Harmless(c, d) ==
  /\ d \in InstType
  /\ d.cleanups = c.cleanups
  /\ c.procs["init"].status = "Stopped" => d.procs["init"].status = "Stopped"
  /\ c.guest["init"] = "removed" => d.guest["init"] = "removed"

\* An instance is cleaned up, for the first time as it was running.
CleansUp(c, d) ==
  /\ d \in InstType
  /\ c.procs["init"].status = "Running"
  /\ d.cleanups = c.cleanups + 1 /\ d.procs["init"].status = "Stopped"
  /\ d.guest["init"] = "removed"

\* Parts of an instance that are replaced.
LEMMA ProcStep ==
  ASSUME NEW c \in InstType, NEW p \in Procs, NEW pr \in ProcType,
         p = "init" /\ c.procs["init"].status = "Stopped" => pr.status = "Stopped"
  PROVE  Harmless(c, [c EXCEPT !.procs = [@ EXCEPT ![p] = pr]])
BY DEF Harmless, InstType

\* A process of the guest that is not removed changes.
LEMMA GuestStep ==
  ASSUME NEW c \in InstType, NEW p \in Procs, NEW g \in GuestType, c.guest[p] # "removed"
  PROVE  Harmless(c, [c EXCEPT !.guest = [@ EXCEPT ![p] = g]])
BY DEF Harmless, InstType

\* An instance before its creation.
LEMMA InstInit == NoInstance \in InstType /\ NoInstance.cleanups = 0
BY DEF NoInstance, InstType, NoProcess, ProcType, GuestType

\* ContainerInner::stop_process.
LEMMA StopStep ==
  ASSUME NEW c \in InstType, NEW p \in Procs, NEW d \in stop_process(c, p)
  PROVE  Harmless(c, d) \/ CleansUp(c, d)
<1>1. CASE c.procs["init"].status # "Running"
  BY <1>1 DEF stop_process, Harmless
<1>2. CASE c.procs["init"].status = "Running" /\ p = "init"
  <2>1. PICK fs \in {"held", "released"} :
          d = [c EXCEPT !.procs["init"].status = "Stopped", !.guest = [q \in Procs |-> "removed"],
                        !.cleanups = @ + 1, !.fs = fs]
    BY <1>2, Zenon DEF stop_process
  <2> DEFINE pr == [c.procs["init"] EXCEPT !.status = "Stopped"]
             ps == [c.procs EXCEPT !["init"] = pr]
             gs == [q \in Procs |-> "removed"]
  <2>2. pr \in ProcType /\ pr.status = "Stopped" BY DEF InstType, ProcType
  <2>3. gs \in [Procs -> GuestType] /\ gs["init"] = "removed" BY DEF GuestType
  <2>4. d = [c EXCEPT !.procs = ps, !.guest = gs, !.cleanups = c.cleanups + 1, !.fs = fs]
    BY <2>1
  <2> HIDE DEF pr, gs
  <2>5. ps \in [Procs -> ProcType] /\ ps["init"] = pr BY <2>2 DEF InstType
  <2> HIDE DEF ps
  <2>6. c.cleanups + 1 \in Nat BY DEF InstType
  <2>7. /\ d \in InstType
        /\ d.procs = ps /\ d.guest = gs /\ d.cleanups = c.cleanups + 1
    BY <2>3, <2>4, <2>5, <2>6, Zenon DEF InstType
  <2> QED BY <1>2, <2>2, <2>3, <2>5, <2>7 DEF CleansUp
<1>3. CASE c.procs["init"].status = "Running" /\ p # "init"
  <2> DEFINE st == IF c.procs[p].here THEN "Stopped" ELSE c.procs[p].status
             pr == [c.procs[p] EXCEPT !.status = st]
             g == IF c.guest[p] = "running" THEN "exited" ELSE c.guest[p]
             ps == [c.procs EXCEPT ![p] = pr]
             gs == [c.guest EXCEPT ![p] = g]
  <2>1. d = [c EXCEPT !.procs = ps, !.guest = gs] BY <1>3 DEF stop_process
  <2>2. pr \in ProcType /\ g \in GuestType BY DEF InstType, ProcType, GuestType
  <2> HIDE DEF pr, g
  <2>3. /\ ps \in [Procs -> ProcType] /\ ps["init"] = c.procs["init"]
        /\ gs \in [Procs -> GuestType] /\ gs["init"] = c.guest["init"]
    BY <1>3, <2>2 DEF InstType
  <2> HIDE DEF ps, gs
  <2> QED BY <2>1, <2>3, Zenon DEF Harmless, InstType
<1> QED BY <1>1, <1>2, <1>3

\* Container::stop_process.
LEMMA ReleaseStep ==
  ASSUME NEW c \in InstType, NEW p \in Procs, NEW d \in StopAndRelease(c, p)
  PROVE  Harmless(c, d) \/ CleansUp(c, d)
<1>1. ASSUME NEW e \in InstType
      PROVE  LET f == [e EXCEPT !.share = FALSE]
             IN f \in InstType /\ f.cleanups = e.cleanups /\ f.procs = e.procs /\ f.guest = e.guest
  BY Zenon DEF InstType
<1>2. CASE d \in stop_process(c, p) BY <1>2, StopStep
<1>3. CASE \E e \in stop_process(c, p) : d = [e EXCEPT !.share = FALSE]
  <2>1. PICK e \in stop_process(c, p) : d = [e EXCEPT !.share = FALSE] BY <1>3, Zenon
  <2>2. Harmless(c, e) \/ CleansUp(c, e) BY StopStep
  <2>3. e \in InstType BY <2>2 DEF Harmless, CleansUp
  <2>4. d \in InstType /\ d.cleanups = e.cleanups /\ d.procs = e.procs /\ d.guest = e.guest
    BY <1>1, <2>1, <2>3
  <2> QED BY <2>2, <2>4 DEF Harmless, CleansUp
<1> QED BY <1>2, <1>3 DEF StopAndRelease

-----------------------------------------------------------------------------
Reads(s) == s \in {"inner", "code", "status"}

\* Requests end or let their locks go, and no exit task takes one.
Fewer ==
  /\ req' \in [Tasks -> ReqType]
  /\ \A t \in Tasks : \/ req'[t] = req[t]
                      \/ req'[t] = Idle
                      \/ /\ req'[t].pc = "watch" /\ req[t].pc = "inner"
                         /\ req'[t].op = req[t].op /\ req'[t].p = req[t].p /\ req'[t].i = req[t].i
  /\ io' \in [Instances -> [Procs -> IoType]]
  /\ \A i \in Instances, p \in Procs : Reads(io'[i][p]) => Reads(io[i][p])

\* No instance is cleaned up, and none that was is changed.
Quiet ==
  /\ inst' \in [Instances -> InstType]
  /\ \A i \in Instances : /\ inst'[i].cleanups = inst[i].cleanups
                          /\ CleanedUp(inst[i]) => CleanedUp(inst'[i])

\* A task without a request.
LEMMA IdleType == Idle \in ReqType /\ Idle.op = "none" /\ Idle.pc = "idle"
BY DEF Idle, ReqType

\* Return leaves a task without a request, and the others as they are.
LEMMA ReturnReq ==
  ASSUME Types, NEW t \in Tasks, Return(t)
  PROVE  /\ req' \in [Tasks -> ReqType] /\ req'[t] = Idle
         /\ \A u \in Tasks \ {t} : req'[u] = req[u]
BY IdleType DEF Return, Types

\* Goto changes only where a request is.
LEMMA GotoReq ==
  ASSUME Types, NEW t \in Tasks, NEW pc \in {"inner", "rpc", "watch"}, Goto(t, pc)
  PROVE  /\ req' \in [Tasks -> ReqType]
         /\ \A u \in Tasks \ {t} : req'[u] = req[u]
         /\ req'[t].pc = pc /\ req'[t].op = req[t].op
         /\ req'[t].p = req[t].p /\ req'[t].i = req[t].i
<1> DEFINE r == [req[t] EXCEPT !.pc = pc]
<1>1. /\ r \in ReqType /\ r.pc = pc /\ r.op = req[t].op
      /\ r.p = req[t].p /\ r.i = req[t].i
  BY DEF Types, ReqType
<1>2. req' = [req EXCEPT ![t] = r] BY DEF Goto
<1> HIDE DEF r
<1> QED BY <1>1, <1>2 DEF Types

\* Giving up requests and locks disturbs neither the requests nor the locks.
LEMMA FewerLocks ==
  ASSUME Types, Requests, Locks, Fewer, UNCHANGED last
  PROVE  /\ Requests' /\ Locks'
         /\ \A t \in Tasks : Overwrites(t)' => Overwrites(t) /\ req'[t].i = req[t].i
<1>1. Requests' BY IdleType DEF Requests, Fewer
<1>2. Locks'
  <2>1. ContainersWritten' => ContainersWritten BY IdleType DEF ContainersWritten, Fewer
  <2>2. ContainersRead' => ContainersRead BY IdleType DEF ContainersRead, Fewer, Reads
  <2>3. \A t \in Tasks : req'[t].op # "create" /\ req'[t].pc = "rpc"
                         => req[t].op # "create" /\ req[t].pc = "rpc"
    BY IdleType DEF Fewer
  <2> QED BY <2>1, <2>2, <2>3 DEF Locks
<1>3. \A t \in Tasks : Overwrites(t)' => Overwrites(t) /\ req'[t].i = req[t].i
  BY IdleType DEF Fewer, Overwrites
<1> QED BY <1>1, <1>2, <1>3

\* The two ways a step that takes no lock treats the instances.
LEMMA QuietInv ==
  ASSUME Inv, Fewer, Quiet, UNCHANGED last, present' \in Instances \cup {0}
  PROVE  Inv'
<1>1. Types' BY DEF Inv, Types, Fewer, Quiet
<1>2. Requests' /\ Locks' /\ \A t \in Tasks : Overwrites(t)' => Overwrites(t) /\ req'[t].i = req[t].i
  BY FewerLocks DEF Inv
<1>3. Clean'
  <2>1. \A i \in Instances : (inst[i].cleanups = 0 \/ CleanedUp(inst[i]))'
    BY DEF Inv, Clean, Quiet
  <2>2. ASSUME NEW t \in Tasks, Overwrites(t)' PROVE inst'[req'[t].i].cleanups = 0
    <3>1. Overwrites(t) /\ req'[t].i = req[t].i BY <1>2, <2>2
    <3>2. req[t].i \in Instances
      BY <3>1 DEF Inv, Types, ReqType, Requests, Overwrites
    <3> QED BY <3>1, <3>2 DEF Inv, Clean, Quiet
  <2> QED BY <2>1, <2>2 DEF Clean
<1> QED BY <1>1, <1>2, <1>3 DEF Inv

\* A cleanup, while nobody is about to overwrite the status, is the first.
LEMMA CleanupInv ==
  ASSUME Inv, Fewer, NEW k \in Instances, NEW d, CleansUp(inst[k], d),
         inst' = [inst EXCEPT ![k] = d], \A t \in Tasks : ~Overwrites(t),
         UNCHANGED <<last, present>>
  PROVE  Inv'
<1>1. Types' BY DEF Inv, Types, Fewer, CleansUp
<1>2. Requests' /\ Locks' /\ \A t \in Tasks : Overwrites(t)' => Overwrites(t)
  BY FewerLocks DEF Inv
<1>3. \A i \in Instances : inst'[i] = IF i = k THEN d ELSE inst[i] BY DEF Inv, Types
<1>4. inst[k].cleanups = 0 BY DEF Inv, Clean, CleanedUp, CleansUp
<1>5. CleanedUp(d) BY <1>4 DEF CleanedUp, CleansUp
<1>6. Clean' BY <1>2, <1>3, <1>5 DEF Inv, Clean
<1> QED BY <1>1, <1>2, <1>6 DEF Inv

\* A harmless change of one instance.
LEMMA HarmlessQuiet ==
  ASSUME Types, NEW k \in Instances, NEW d, Harmless(inst[k], d), inst' = [inst EXCEPT ![k] = d]
  PROVE  Quiet
<1>1. \A i \in Instances : inst'[i] = IF i = k THEN d ELSE inst[i] BY DEF Types
<1>2. inst' \in [Instances -> InstType] BY DEF Types, Harmless
<1> QED BY <1>1, <1>2 DEF Quiet, Harmless, CleanedUp

\* No instance changes.
LEMMA SameQuiet ==
  ASSUME Types, UNCHANGED inst
  PROVE  Quiet
BY DEF Quiet, Types, CleanedUp

\* A request returns, and no exit task moves.
LEMMA ReturnFewer ==
  ASSUME Types, NEW t \in Tasks, Return(t), UNCHANGED io
  PROVE  Fewer
BY ReturnReq DEF Fewer, Types

\* An exit task moves on without taking a lock.
LEMMA IoFewer ==
  ASSUME Types, NEW i \in Instances, NEW p \in Procs, NEW to \in IoType, NEW from,
         Io(i, p, from, to), Reads(to) => Reads(from), UNCHANGED req
  PROVE  Fewer
<1>1. io' \in [Instances -> [Procs -> IoType]] BY DEF Types, Io
<1>2. \A j \in Instances, q \in Procs : io'[j][q] = IF j = i /\ q = p THEN to ELSE io[j][q]
  BY DEF Types, Io
<1> QED BY <1>1, <1>2 DEF Fewer, Io, Types

\* Whoever holds a lock keeps the creations out, and whoever may write inner the others.
LEMMA NoOverwrites ==
  ASSUME Inv, ContainersRead,
         \/ ~InnerWritten
         \/ \E t \in Tasks : req[t].op = "start" /\ req[t].pc = "rpc"
  PROVE  \A u \in Tasks : ~Overwrites(u)
BY DEF Inv, Locks, ContainersWritten, InnerWritten, Overwrites

\* A request begins: a creation only if there is none.
LEMMA AskInv ==
  ASSUME Inv, NEW t \in Tasks, NEW op \in Ops, NEW p \in Procs, Ask(t, op, p)
  PROVE  Inv'
<1> DEFINE r == [op |-> op, p |-> p, i |-> 0, pc |-> "containers"]
<1>1. r \in ReqType /\ r.op = op /\ r.p = p /\ r.pc = "containers" BY DEF ReqType
<1>2. req' = [req EXCEPT ![t] = r] /\ UNCHANGED <<present, last, inst, io>> BY DEF Ask
<1>3. /\ op = "exec" => p # "init"
      /\ op = "create" => last + 1 \in Instances /\ ~InFlight(op, p) /\ p = "init"
  BY DEF Ask, MayAsk
<1> HIDE DEF r
<1>4. /\ req' \in [Tasks -> ReqType] /\ req'[t] = r
      /\ \A u \in Tasks \ {t} : req'[u] = req[u]
  BY <1>1, <1>2 DEF Inv, Types
<1>5. Types' BY <1>2, <1>4 DEF Inv, Types
<1>6. \A u \in Tasks : op = "create" => req[u].op # "create" \/ req[u].p # "init"
  BY <1>3 DEF InFlight
<1>7. \A u \in Tasks : req[u].op = "create" => req[u].p = "init" BY DEF Inv, Requests
<1>8. Requests' BY <1>1, <1>2, <1>3, <1>4, <1>6, <1>7 DEF Inv, Requests
<1>9. Locks' BY <1>1, <1>2, <1>4 DEF Inv, Locks, ContainersRead, ContainersWritten
<1>10. Clean' BY <1>1, <1>2, <1>4 DEF Inv, Clean, Overwrites
<1> QED BY <1>5, <1>8, <1>9, <1>10 DEF Inv

\* create_container takes the lock when nobody has it; the instance is a new one.
LEMMA BeginCreateInv ==
  ASSUME Inv, NEW t \in Tasks, BeginCreate(t)
  PROVE  Inv'
<1> DEFINE pr == [NoInstance.procs EXCEPT !["init"] = NewProcess]
           c == [NoInstance EXCEPT !.procs = pr, !.fs = "held", !.share = TRUE]
           r == [req[t] EXCEPT !.i = last + 1, !.pc = "rpc"]
<1>1. /\ last + 1 \in Instances /\ req[t].op = "create" /\ last' = last + 1
      /\ ~ContainersRead /\ ~ContainersWritten /\ UNCHANGED <<present, io>>
  BY DEF BeginCreate, Inv, Requests
<1>2. inst' = [inst EXCEPT ![last + 1] = c] /\ req' = [req EXCEPT ![t] = r]
  BY Zenon DEF BeginCreate
<1>3. NewProcess \in ProcType BY Zenon DEF NewProcess, NoProcess, ProcType
<1>4. pr \in [Procs -> ProcType] BY <1>3, InstInit DEF InstType
<1>5. c \in InstType /\ c.cleanups = 0
  <2> HIDE DEF pr
  <2> QED BY <1>4, InstInit, Zenon DEF InstType
<1>6. r \in ReqType /\ r.op = "create" /\ r.pc = "rpc" /\ r.i = last + 1 /\ r.p = req[t].p
  BY <1>1, ZenonT(40) DEF Inv, Types, ReqType
<1> HIDE DEF c, r
<1>7. /\ inst' \in [Instances -> InstType] /\ inst'[last + 1] = c
      /\ \A i \in Instances \ {last + 1} : inst'[i] = inst[i]
  BY <1>1, <1>2, <1>5 DEF Inv, Types
<1>8. /\ req' \in [Tasks -> ReqType] /\ req'[t] = r
      /\ \A u \in Tasks \ {t} : req'[u] = req[u]
  BY <1>2, <1>6 DEF Inv, Types
<1>9. Types' BY <1>1, <1>7, <1>8 DEF Inv, Types
<1>10. Requests'
  <2>1. \A u \in Tasks \ {t} : req'[u].op # "create" BY <1>1, <1>8 DEF Inv, Requests
  <2>2. req[t].p = "init" /\ last + 1 # 0 BY <1>1 DEF Inv, Requests, Types
  <2> QED BY <1>6, <1>8, <2>1, <2>2 DEF Inv, Requests
<1>11. ~ContainersRead' BY <1>1, <1>6, <1>8 DEF ContainersRead
<1>12. Locks' BY <1>6, <1>8, <1>11 DEF Inv, Locks
<1>13. Clean'
  <2>1. \A u \in Tasks \ {t} : ~Overwrites(u)'
    BY <1>1, <1>8 DEF Overwrites, ContainersRead, ContainersWritten
  <2> QED BY <1>5, <1>6, <1>7, <1>8, <2>1 DEF Inv, Clean, CleanedUp
<1> QED BY <1>9, <1>10, <1>12, <1>13 DEF Inv

\* The agent answers a creation.
LEMMA EndCreateInv ==
  ASSUME Inv, NEW t \in Tasks, EndCreate(t)
  PROVE  Inv'
<1> DEFINE k == req[t].i
           gs == [inst[k].guest EXCEPT !["init"] = "created"]
           c == [inst[k] EXCEPT !.guest = gs]
           pr == Drop(inst[k].procs["init"])
<1>1. /\ k \in Instances /\ inst[k].cleanups = 0 /\ Fewer
      /\ Return(t) /\ UNCHANGED <<last, io>>
  BY ReturnFewer DEF EndCreate, Inv, Requests, Types, ReqType, Clean, Overwrites
<1>2. inst[k] \in InstType BY <1>1 DEF Inv, Types
<1>3. CASE present' = k /\ inst' = [inst EXCEPT ![k] = c]
  <2>1. gs \in [Procs -> GuestType] BY <1>2 DEF InstType, GuestType
  <2> HIDE DEF gs
  <2>2. c \in InstType /\ c.cleanups = 0 BY <1>1, <1>2, <2>1 DEF InstType
  <2> HIDE DEF c
  <2>3. \A i \in Instances : inst'[i] = IF i = k THEN c ELSE inst[i]
    BY <1>3 DEF Inv, Types
  <2>4. inst' \in [Instances -> InstType] BY <1>3, <2>2, Zenon DEF Inv, Types
  <2>5. Quiet BY <1>1, <2>2, <2>3, <2>4 DEF Quiet, CleanedUp
  <2> QED BY <1>1, <1>3, <2>5, QuietInv
<1>4. CASE /\ inst' = [inst EXCEPT ![k] = [inst[k] EXCEPT !.procs = [@ EXCEPT !["init"] = pr]]]
           /\ UNCHANGED present
  <2>1. inst[k].procs["init"] \in ProcType BY <1>2 DEF InstType
  <2>2. pr \in ProcType /\ pr.status = inst[k].procs["init"].status
    BY <2>1, Zenon DEF Drop, ProcType
  <2> HIDE DEF pr
  <2>3. Harmless(inst[k], [inst[k] EXCEPT !.procs = [@ EXCEPT !["init"] = pr]])
    BY <1>2, <2>2, ProcStep
  <2>4. Quiet BY <1>1, <1>4, <2>3, HarmlessQuiet, Zenon DEF Inv
  <2> QED BY <1>1, <1>4, <2>4, QuietInv DEF Inv, Types
<1> QED BY <1>3, <1>4 DEF EndCreate

\* An instance that has not been cleaned up may change in any other way.
LEMMA ZeroQuiet ==
  ASSUME Types, NEW k \in Instances, NEW d \in InstType, inst[k].cleanups = 0, d.cleanups = 0,
         inst' = [inst EXCEPT ![k] = d]
  PROVE  Quiet
<1>1. \A i \in Instances : inst'[i] = IF i = k THEN d ELSE inst[i] BY DEF Types
<1>2. inst' \in [Instances -> InstType] BY DEF Types
<1> QED BY <1>1, <1>2 DEF Quiet, CleanedUp

\* Dropping a Process keeps its status.
LEMMA DropType ==
  ASSUME NEW pr \in ProcType
  PROVE  Drop(pr) \in ProcType /\ Drop(pr).status = pr.status
BY Zenon DEF Drop, ProcType

\* One process of an instance is replaced.
LEMMA ProcQuiet ==
  ASSUME Types, NEW k \in Instances, NEW p \in Procs, NEW pr \in ProcType,
         p = "init" /\ inst[k].procs["init"].status = "Stopped" => pr.status = "Stopped",
         inst' = [inst EXCEPT ![k] = [inst[k] EXCEPT !.procs = [@ EXCEPT ![p] = pr]]]
  PROVE  Quiet
<1>1. inst[k] \in InstType BY DEF Types
<1>2. Harmless(inst[k], [inst[k] EXCEPT !.procs = [@ EXCEPT ![p] = pr]])
  BY <1>1, ProcStep, Zenon
<1> QED BY <1>2, HarmlessQuiet, Zenon

\* delete_process of a container drops its processes.
LEMMA DeleteInv ==
  ASSUME Inv, NEW t \in Tasks, DeleteContainer(t)
  PROVE  Inv'
<1>1. Fewer /\ UNCHANGED last /\ present' = 0
  BY ReturnFewer DEF DeleteContainer, Inv
<1>2. Quiet
  <2>1. CASE present = 0 BY <2>1, SameQuiet DEF DeleteContainer, Inv
  <2>2. CASE present # 0
    <3> DEFINE c == inst[present]
               ps == [p \in Procs |-> Drop(c.procs[p])]
               d == [c EXCEPT !.procs = ps]
    <3>1. present \in Instances /\ c \in InstType BY <2>2 DEF Inv, Types
    <3>2. \A p \in Procs : /\ Drop(c.procs[p]) \in ProcType
                           /\ Drop(c.procs[p]).status = c.procs[p].status
      BY <3>1, DropType DEF InstType
    <3>3. ps \in [Procs -> ProcType] /\ ps["init"].status = c.procs["init"].status
      BY <3>2
    <3>4. inst' = [inst EXCEPT ![present] = d] BY <2>2 DEF DeleteContainer
    <3> HIDE DEF ps, c
    <3>5. Harmless(c, d) BY <3>1, <3>3 DEF Harmless, InstType
    <3> QED BY <3>1, <3>4, <3>5, HarmlessQuiet, Zenon DEF Inv, c
  <2> QED BY <2>1, <2>2
<1> QED BY <1>1, <1>2, QuietInv

\* A reader finds its container when nobody writes the map.
LEMMA LookupInv ==
  ASSUME Inv, NEW t \in Tasks, Lookup(t)
  PROVE  Inv'
<1>0. UNCHANGED <<present, last, inst, io>> BY DEF Lookup
<1>1. CASE present = 0
  <2>1. Fewer /\ Quiet BY <1>0, <1>1, ReturnFewer, SameQuiet DEF Lookup, Inv
  <2> QED BY <1>0, <2>1, QuietInv DEF Inv, Types
<1>2. CASE present # 0
  <2> DEFINE r == [req[t] EXCEPT !.i = present, !.pc = "inner"]
  <2>1. /\ r \in ReqType /\ r.op = req[t].op /\ r.p = req[t].p
        /\ r.i = present /\ r.pc = "inner"
    BY ZenonT(40) DEF Inv, Types, ReqType
  <2>2. req' = [req EXCEPT ![t] = r] /\ req[t].op # "create" /\ ~ContainersWritten
    BY <1>2, Zenon DEF Lookup
  <2> HIDE DEF r
  <2>3. /\ req' \in [Tasks -> ReqType] /\ req'[t] = r
        /\ \A u \in Tasks \ {t} : req'[u] = req[u]
    BY <2>1, <2>2 DEF Inv, Types
  <2>4. Types' BY <1>0, <2>3 DEF Inv, Types
  <2>5. Requests' BY <1>0, <1>2, <2>1, <2>2, <2>3 DEF Inv, Requests
  <2>6. ~ContainersWritten' BY <2>1, <2>2, <2>3 DEF ContainersWritten
  <2>7. Locks' BY <2>1, <2>3, <2>6 DEF Inv, Locks
  <2>8. Clean' BY <1>0, <2>1, <2>3 DEF Inv, Clean, Overwrites
  <2> QED BY <2>4, <2>5, <2>7, <2>8 DEF Inv
<1> QED BY <1>1, <1>2

\* The container a request with a lock is about.
LEMMA ReqInst ==
  ASSUME Inv, NEW t \in Tasks, req[t].pc \in {"inner", "rpc", "watch"}
  PROVE  /\ req[t].i \in Instances /\ inst[req[t].i] \in InstType /\ req[t].p \in Procs
         /\ inst[req[t].i].procs[req[t].p] \in ProcType
         /\ inst[req[t].i].procs["init"] \in ProcType
<1>1. req[t].i \in Instances /\ req[t].p \in Procs BY DEF Inv, Types, ReqType, Requests
<1>2. inst[req[t].i] \in InstType BY <1>1 DEF Inv, Types
<1> QED BY <1>1, <1>2 DEF InstType

\* The requests that need only the lock.
LEMMA AtInnerInv ==
  ASSUME Inv, NEW t \in Tasks,
         exec_process(t) \/ delete_exec_process(t) \/ fetch_exit_watcher(t)
  PROVE  Inv'
<1> DEFINE k == req[t].i
           p == req[t].p
<1>1. /\ k \in Instances /\ p \in Procs /\ inst[k].procs[p] \in ProcType
      /\ UNCHANGED <<last, present, io>> /\ req[t].pc = "inner"
  BY ReqInst, ZenonT(40) DEF exec_process, delete_exec_process, fetch_exit_watcher, AtInner
<1>2. CASE exec_process(t)
  <2>1. NewProcess \in ProcType BY Zenon DEF NewProcess, NoProcess, ProcType
  <2>2. inst' = [inst EXCEPT ![k] = [inst[k] EXCEPT !.procs = [@ EXCEPT ![p] = NewProcess]]]
    BY <1>2 DEF exec_process
  <2>3. p # "init" BY <1>2 DEF exec_process, AtInner, Inv, Requests
  <2>4. Quiet BY <1>1, <2>1, <2>2, <2>3, ProcQuiet, ZenonT(40) DEF Inv
  <2>5. Fewer BY <1>1, <1>2, ReturnFewer DEF exec_process, Inv
  <2> QED BY <1>1, <2>4, <2>5, QuietInv DEF Inv, Types
<1>3. CASE delete_exec_process(t)
  <2> DEFINE pr == Drop(inst[k].procs[p])
  <2>1. pr \in ProcType /\ pr.status = inst[k].procs[p].status BY <1>1, DropType, ZenonT(40)
  <2>2. inst' = [inst EXCEPT ![k] = [inst[k] EXCEPT !.procs = [@ EXCEPT ![p] = pr]]]
    BY <1>3 DEF delete_exec_process
  <2> HIDE DEF pr
  <2>3. Quiet BY <1>1, <2>1, <2>2, ProcQuiet, ZenonT(40) DEF Inv
  <2>4. Fewer BY <1>1, <1>3, ReturnFewer DEF delete_exec_process, Inv
  <2> QED BY <1>1, <2>3, <2>4, QuietInv DEF Inv, Types
<1>4. CASE fetch_exit_watcher(t)
  <2>1. Quiet BY <1>4, SameQuiet, ZenonT(40) DEF fetch_exit_watcher, Inv
  <2>2. CASE Return(t)
    BY <1>1, <2>1, <2>2, ReturnFewer, QuietInv DEF Inv, Types
  <2>3. CASE Goto(t, "watch")
    <3>1. Fewer BY <1>1, <2>3, GotoReq, Zenon DEF Fewer, Inv, Types
    <3> QED BY <1>1, <2>1, <3>1, QuietInv DEF Inv, Types
  <2> QED BY <1>4, <2>2, <2>3, ZenonT(40) DEF fetch_exit_watcher
<1> QED BY <1>2, <1>3, <1>4

\* What a record with one changed part looks like.
LEMMA StatusType ==
  ASSUME NEW pr \in ProcType, NEW st \in {"Created", "Running", "Paused", "Stopped"}
  PROVE  /\ [pr EXCEPT !.status = st] \in ProcType
         /\ [pr EXCEPT !.status = st].status = st
BY DEF ProcType

\* The type of an instance with one process replaced.
LEMMA ProcsType ==
  ASSUME NEW c \in InstType, NEW p \in Procs, NEW pr \in ProcType
  PROVE  LET d == [c EXCEPT !.procs = [@ EXCEPT ![p] = pr]]
         IN d \in InstType /\ d.cleanups = c.cleanups
BY DEF InstType

\* inner.write is taken when nobody has it. A pause or resume has then seen a status
\* that is not that of a container cleaned up.
LEMMA BeginCallInv ==
  ASSUME Inv, NEW t \in Tasks, BeginCall(t)
  PROVE  Inv'
<1> DEFINE k == req[t].i
<1>1. /\ k \in Instances /\ inst[k] \in InstType /\ req[t].pc = "inner"
      /\ UNCHANGED <<last, present, io>> /\ ~InnerWritten
      /\ req[t].op # "create"
  BY ReqInst, ZenonT(40) DEF BeginCall, Inv, Requests
<1>2. ContainersRead BY <1>1 DEF ContainersRead
<1>3. CASE Return(t) /\ UNCHANGED inst
  BY <1>1, <1>3, ReturnFewer, SameQuiet, QuietInv DEF Inv, Types
<1>4. CASE Return(t) /\ \E c \in stop_process(inst[k], "init") : inst' = [inst EXCEPT ![k] = c]
  <2>1. PICK c \in stop_process(inst[k], "init") : inst' = [inst EXCEPT ![k] = c] BY <1>4, ZenonT(40)
  <2>2. "init" \in Procs OBVIOUS
  <2>3. Harmless(inst[k], c) \/ CleansUp(inst[k], c) BY <1>1, <2>2, StopStep
  <2>4. Fewer BY <1>1, <1>4, ReturnFewer DEF Inv
  <2>5. \A u \in Tasks : ~Overwrites(u) BY <1>1, <1>2, NoOverwrites
  <2>6. CASE Harmless(inst[k], c)
    BY <1>1, <2>1, <2>4, <2>6, HarmlessQuiet, QuietInv, Zenon DEF Inv, Types
  <2>7. CASE CleansUp(inst[k], c) BY <1>1, <2>1, <2>4, <2>5, <2>7, CleanupInv, Zenon
  <2> QED BY <2>3, <2>6, <2>7
<1>5. CASE /\ Goto(t, "rpc") /\ UNCHANGED inst
           /\ ~(req[t].op = "pause" /\ Status(k) # "Running")
           /\ ~(req[t].op = "resume" /\ Status(k) # "Paused")
  <2>1. /\ req' \in [Tasks -> ReqType]
        /\ \A u \in Tasks \ {t} : req'[u] = req[u]
        /\ req'[t].pc = "rpc" /\ req'[t].op = req[t].op
        /\ req'[t].p = req[t].p /\ req'[t].i = req[t].i
    BY <1>5, GotoReq, ZenonT(40) DEF Inv
  <2>2. Types' BY <1>1, <1>5, <2>1 DEF Inv, Types
  <2>3. Requests' BY <1>1, <2>1 DEF Inv, Requests
  <2>4. ~ContainersWritten' BY <1>1, <1>2, <2>1 DEF Inv, Locks, ContainersWritten
  <2>5. Locks' BY <1>1, <2>1, <2>4 DEF Inv, Locks, InnerWritten
  <2>6. req[t].op \in {"pause", "resume"} => inst[k].cleanups = 0
    BY <1>1, <1>5, ZenonT(40) DEF Inv, Clean, CleanedUp, Status
  <2>7. Clean' BY <1>1, <1>5, <2>1, <2>6, ZenonT(40) DEF Inv, Clean, Overwrites
  <2> QED BY <2>2, <2>3, <2>5, <2>7 DEF Inv
<1> QED BY <1>3, <1>4, <1>5 DEF BeginCall

\* What start makes of an instance.
LEMMA StartedType ==
  ASSUME NEW c \in InstType, NEW p \in Procs
  PROVE  LET d == [c EXCEPT !.procs[p].status = "Running", !.guest[p] = "running"]
         IN /\ d \in InstType /\ d.cleanups = c.cleanups
            /\ d.procs[p].status = "Running" /\ d.guest[p] = "running"
<1> DEFINE pr == [c.procs[p] EXCEPT !.status = "Running"]
           gs == [c.guest EXCEPT ![p] = "running"]
           ps == [c.procs EXCEPT ![p] = pr]
           d == [c EXCEPT !.procs = ps, !.guest = gs]
<1>1. pr \in ProcType /\ pr.status = "Running" BY DEF InstType, ProcType
<1>2. gs \in [Procs -> GuestType] /\ gs[p] = "running" BY DEF InstType, GuestType
<1> HIDE DEF pr, gs
<1>3. ps \in [Procs -> ProcType] /\ ps[p] = pr BY <1>1 DEF InstType
<1> HIDE DEF ps
<1>4. d \in InstType /\ d.cleanups = c.cleanups /\ d.procs = ps /\ d.guest = gs
  BY <1>2, <1>3, Zenon DEF InstType
<1>5. d.procs[p].status = "Running" /\ d.guest[p] = "running" BY <1>1, <1>2, <1>3, <1>4
<1>6. d = [c EXCEPT !.procs[p].status = "Running", !.guest[p] = "running"]
  BY DEF ps, pr, gs
<1> HIDE DEF d
<1> QED BY <1>4, <1>5, <1>6, Zenon

\* What starting the io tasks makes of an instance.
LEMMA WatchedType ==
  ASSUME NEW c \in InstType, NEW p \in Procs
  PROVE  LET d == [c EXCEPT !.procs[p].tx = "task", !.procs[p].stdin = "copying"]
         IN /\ d \in InstType /\ d.cleanups = c.cleanups /\ d.guest = c.guest
            /\ d.procs[p].tx = "task" /\ d.procs[p].status = c.procs[p].status
<1> DEFINE pr == [c.procs[p] EXCEPT !.tx = "task", !.stdin = "copying"]
           ps == [c.procs EXCEPT ![p] = pr]
           d == [c EXCEPT !.procs = ps]
<1>1. c.procs[p] \in ProcType BY DEF InstType
<1>2. pr \in ProcType /\ pr.tx = "task" /\ pr.status = c.procs[p].status
  BY <1>1, Zenon DEF ProcType
<1>3. d = [c EXCEPT !.procs[p].tx = "task", !.procs[p].stdin = "copying"] BY Zenon DEF InstType
<1> HIDE DEF pr
<1>4. ps \in [Procs -> ProcType] /\ ps[p] = pr BY <1>2 DEF InstType
<1> HIDE DEF ps
<1>5. d \in InstType /\ d.cleanups = c.cleanups /\ d.guest = c.guest /\ d.procs = ps
  BY <1>4 DEF InstType
<1>6. d.procs[p].tx = "task" /\ d.procs[p].status = c.procs[p].status
  BY <1>2, <1>4, <1>5
<1> HIDE DEF d
<1> QED BY <1>3, <1>5, <1>6

\* start, or the stop by force when it fails.
LEMMA EndStartInv ==
  ASSUME Inv, NEW t \in Tasks, EndStart(t)
  PROVE  Inv'
<1> DEFINE k == req[t].i
           p == req[t].p
           c == inst[k]
           ready == IF p = "init" THEN c.guest[p] = "created"
                    ELSE c.guest["init"] = "running" /\ c.guest[p] = "none"
           pr == [c EXCEPT !.procs[p].status = "Running", !.guest[p] = "running"]
           task == [pr EXCEPT !.procs[p].tx = "task", !.procs[p].stdin = "copying"]
<1>1. /\ k \in Instances /\ c \in InstType /\ p \in Procs
      /\ UNCHANGED <<last, present>> /\ Return(t)
      /\ req[t].pc = "rpc" /\ req[t].op = "start"
  BY ReqInst, ZenonT(40) DEF EndStart
<1>2. \/ /\ ready /\ inst' = [inst EXCEPT ![k] = task]
         /\ io' = [io EXCEPT ![k][p] = "io"]
      \/ ready /\ inst' = [inst EXCEPT ![k] = pr] /\ UNCHANGED io
      \/ (\E e \in stop_process(c, p) : inst' = [inst EXCEPT ![k] = e]) /\ UNCHANGED io
  BY ZenonT(40) DEF EndStart
<1>3. pr \in InstType /\ pr.cleanups = c.cleanups
  <2> HIDE DEF c, p
  <2> QED BY <1>1, StartedType, ZenonT(40)
<1>4. ready => c.cleanups = 0
  BY <1>1, Zenon DEF Inv, Clean, CleanedUp
<1> HIDE DEF pr
<1>5. task \in InstType /\ task.cleanups = c.cleanups
  <2> HIDE DEF c, p
  <2> QED BY <1>1, <1>3, WatchedType, ZenonT(40)
<1> HIDE DEF task, ready
<1>7. CASE ready /\ inst' = [inst EXCEPT ![k] = task] /\ io' = [io EXCEPT ![k][p] = "io"]
  <2>1. io' \in [Instances -> [Procs -> IoType]] BY <1>7, ZenonT(40) DEF Inv, Types, IoType
  <2>2. \A i \in Instances, q \in Procs : io'[i][q] = IF i = k /\ q = p THEN "io" ELSE io[i][q]
    BY <1>1, <1>7 DEF Inv, Types
  <2>3. Fewer BY <1>1, <2>1, <2>2, ReturnReq DEF Fewer, Reads, Inv
  <2>4. Quiet BY <1>1, <1>4, <1>5, <1>7, ZeroQuiet, ZenonT(40) DEF Inv
  <2> QED BY <1>1, <2>3, <2>4, QuietInv DEF Inv, Types
<1>8. CASE ready /\ inst' = [inst EXCEPT ![k] = pr] /\ UNCHANGED io
  <2>1. Fewer BY <1>1, <1>8, ReturnFewer DEF Inv
  <2>2. Quiet BY <1>1, <1>3, <1>4, <1>8, ZeroQuiet, ZenonT(40) DEF Inv
  <2> QED BY <1>1, <2>1, <2>2, QuietInv DEF Inv, Types
<1>9. CASE (\E e \in stop_process(c, p) : inst' = [inst EXCEPT ![k] = e]) /\ UNCHANGED io
  <2>1. PICK e \in stop_process(c, p) : inst' = [inst EXCEPT ![k] = e] BY <1>9, ZenonT(40)
  <2>2. Harmless(c, e) \/ CleansUp(c, e) BY <1>1, StopStep
  <2>3. Fewer BY <1>1, <1>9, ReturnFewer DEF Inv
  <2>4. \A u \in Tasks : ~Overwrites(u) BY <1>1, NoOverwrites DEF ContainersRead
  <2>5. CASE Harmless(c, e)
    <3>1. Quiet BY <1>1, <2>1, <2>5, HarmlessQuiet, Zenon DEF Inv
    <3> QED BY <1>1, <2>3, <3>1, QuietInv DEF Inv, Types
  <2>6. CASE CleansUp(c, e) BY <1>1, <2>1, <2>3, <2>4, <2>6, CleanupInv, ZenonT(40)
  <2> QED BY <2>2, <2>5, <2>6
<1> QED BY <1>2, <1>7, <1>8, <1>9

\* The other calls of the agent.
LEMMA EndCallInv ==
  ASSUME Inv, NEW t \in Tasks,
         \/ EndPause(t) \/ EndResume(t) \/ EndUpdate(t) \/ EndKill(t) \/ EndCloseIo(t)
         \/ EndWait(t)
  PROVE  Inv'
<1> DEFINE k == req[t].i
           p == req[t].p
           c == inst[k]
           pr(st) == [c.procs["init"] EXCEPT !.status = st]
<1>1. /\ k \in Instances /\ c \in InstType /\ p \in Procs /\ c.procs["init"] \in ProcType
      /\ UNCHANGED <<last, present, io>> /\ Return(t)
  BY ReqInst, ZenonT(40) DEF EndPause, EndResume, EndUpdate, EndKill, EndCloseIo, EndWait, EndCall
<1>2. Fewer BY <1>1, ReturnFewer DEF Inv
<1>3. Quiet
  <2>1. CASE UNCHANGED inst BY <2>1, SameQuiet DEF Inv
  <2>2. ASSUME NEW st \in {"Paused", "Running"}, Overwrites(t),
               inst' = [inst EXCEPT ![k] = [c EXCEPT !.procs = [@ EXCEPT !["init"] = pr(st)]]]
        PROVE  Quiet
    <3>1. pr(st) \in ProcType BY <1>1, StatusType, ZenonT(40)
    <3>2. "init" \in Procs /\ c.cleanups = 0 BY <2>2 DEF Inv, Clean
    <3> HIDE DEF pr
    <3> DEFINE d == [c EXCEPT !.procs = [@ EXCEPT !["init"] = pr(st)]]
    <3>3. d \in InstType /\ d.cleanups = 0 BY <1>1, <3>1, <3>2, ProcsType
    <3>4. inst' = [inst EXCEPT ![k] = d] BY <2>2
    <3> HIDE DEF d
    <3> QED BY <1>1, <3>2, <3>3, <3>4, ZeroQuiet, Zenon DEF Inv
  <2>3. CASE EndPause(t) /\ ~UNCHANGED inst
    <3>1. /\ Overwrites(t)
          /\ inst' = [inst EXCEPT ![k] = [c EXCEPT !.procs = [@ EXCEPT !["init"] = pr("Paused")]]]
      BY <2>3 DEF EndPause, EndCall, Overwrites
    <3> QED BY <2>2, <3>1
  <2>4. CASE EndResume(t) /\ ~UNCHANGED inst
    <3>1. /\ Overwrites(t)
          /\ inst' = [inst EXCEPT ![k] = [c EXCEPT !.procs = [@ EXCEPT !["init"] = pr("Running")]]]
      BY <2>4 DEF EndResume, EndCall, Overwrites
    <3> QED BY <2>2, <3>1
  <2>5. CASE EndUpdate(t)
    <3> DEFINE d == [c EXCEPT !.share = TRUE]
    <3>1. inst' = [inst EXCEPT ![k] = d] BY <2>5 DEF EndUpdate
    <3>2. Harmless(c, d) BY <1>1, Zenon DEF Harmless, InstType
    <3> HIDE DEF d
    <3> QED BY <1>1, <3>1, <3>2, HarmlessQuiet, Zenon DEF Inv
  <2>6. CASE EndKill(t) /\ ~UNCHANGED inst
    <3> DEFINE d == [c EXCEPT !.guest = [@ EXCEPT ![p] = "exited"]]
    <3>1. inst' = [inst EXCEPT ![k] = d] /\ c.guest[p] = "running" BY <2>6 DEF EndKill
    <3>2. Harmless(c, d) BY <1>1, <3>1, GuestStep, Zenon DEF GuestType
    <3> HIDE DEF d
    <3> QED BY <1>1, <3>1, <3>2, HarmlessQuiet, ZenonT(40) DEF Inv
  <2> QED BY <2>1, <2>3, <2>4, <2>5, <2>6, ZenonT(40) DEF EndCloseIo, EndWait
<1> QED BY <1>1, <1>2, <1>3, QuietInv DEF Inv, Types

\* The steps of run_io_wait.
LEMMA IoInv ==
  ASSUME Inv, NEW i \in Instances, NEW p \in Procs,
         IoStep(i, p) \/ GuestExits(i, p) \/ StdinEnds(i, p)
  PROVE  Inv'
<1> DEFINE c == inst[i]
           closed == [c.procs[p] EXCEPT !.tx = "closed"]
<1>0. /\ c \in InstType /\ c.procs[p] \in ProcType /\ Types
      /\ UNCHANGED <<last, present, req>>
  <2>1. c \in InstType BY DEF Inv, Types
  <2> QED BY <2>1, Zenon DEF InstType, Inv, IoStep, IoEnds, WaitProcess, IoLookup, IoStop, IoExitCode,
                      IoStatus, GuestExits, StdinEnds
<1>1. closed \in ProcType /\ closed.status = c.procs[p].status BY <1>0 DEF ProcType
<1>2. ASSUME UNCHANGED inst, NEW from, NEW to \in IoType, Io(i, p, from, to),
             Reads(to) => Reads(from)
      PROVE  Inv'
  <2>1. Fewer /\ Quiet BY <1>0, <1>2, IoFewer, SameQuiet
  <2> QED BY <1>0, <2>1, QuietInv DEF Types
<1>3. ASSUME NEW from, NEW to \in IoType, Io(i, p, from, to), Reads(to) => Reads(from),
             NEW pr \in ProcType,
             p = "init" /\ c.procs["init"].status = "Stopped" => pr.status = "Stopped",
             inst' = [inst EXCEPT ![i] = [c EXCEPT !.procs = [@ EXCEPT ![p] = pr]]]
      PROVE  Inv'
  <2>1. Fewer BY <1>0, <1>3, IoFewer
  <2>2. Quiet BY <1>0, <1>3, ProcQuiet, Zenon
  <2> QED BY <1>0, <2>1, <2>2, QuietInv DEF Types
<1>4. ASSUME NEW from, IoReturn(i, p, from) PROVE Inv'
  <2>1. /\ Io(i, p, from, "done") /\ "done" \in IoType /\ ~Reads("done")
        /\ inst' = [inst EXCEPT ![i] = [c EXCEPT !.procs = [@ EXCEPT ![p] = closed]]]
    BY <1>4 DEF IoReturn, IoType, Reads
  <2> HIDE DEF closed
  <2> QED BY <1>1, <1>3, <2>1, Zenon
<1>5. CASE IoEnds(i, p) BY <1>2, <1>5 DEF IoEnds, Reads, IoType
<1>6. CASE WaitProcess(i, p) BY <1>2, <1>4, <1>6 DEF WaitProcess, Reads, IoType
<1>7. CASE IoExitCode(i, p)
  <2> DEFINE pr == [c.procs[p] EXCEPT !.exit_code = "exited"]
  <2>1. pr \in ProcType /\ pr.status = c.procs[p].status BY <1>0 DEF ProcType
  <2>2. /\ Io(i, p, "code", "status") /\ "status" \in IoType /\ Reads("code")
        /\ inst' = [inst EXCEPT ![i] = [c EXCEPT !.procs = [@ EXCEPT ![p] = pr]]]
    BY <1>7 DEF IoExitCode, IoType, Reads
  <2> HIDE DEF pr
  <2> QED BY <1>3, <2>1, <2>2, Zenon
<1>8. CASE IoStatus(i, p)
  <2> DEFINE one == [c EXCEPT !.procs[p].status = "Stopped"]
             two == [one EXCEPT !.procs[p].tx = "closed"]
             a == [inst EXCEPT ![i] = one]
  <2>1. inst' = [a EXCEPT ![i].procs[p].tx = "closed"] BY <1>8 DEF IoStatus
  <2>2. a[i] = one BY <1>0 DEF Types
  <2>3. inst' = [inst EXCEPT ![i] = two]
    <3>1. inst' = [a EXCEPT ![i] = two]
      <4> HIDE DEF one, a
      <4>1. inst' = [a EXCEPT ![i] = [a[i] EXCEPT !.procs[p].tx = "closed"]] BY <2>1
      <4> QED BY <2>2, <4>1
    <3> HIDE DEF two, one
    <3> QED BY <1>0, <3>1, Zenon DEF Types
  <2>4. one \in InstType /\ Harmless(c, one) /\ one.procs[p] \in ProcType
    <3> DEFINE pr == [c.procs[p] EXCEPT !.status = "Stopped"]
    <3>1. pr \in ProcType /\ pr.status = "Stopped" BY <1>0, StatusType, Zenon
    <3>2. one = [c EXCEPT !.procs = [@ EXCEPT ![p] = pr]] OBVIOUS
    <3> HIDE DEF pr, one
    <3>3. Harmless(c, one) BY <1>0, <3>1, <3>2, ProcStep
    <3> QED BY <3>3 DEF Harmless, InstType
  <2> HIDE DEF one
  <2>5. Harmless(one, two)
    <3> DEFINE pr == [one.procs[p] EXCEPT !.tx = "closed"]
    <3>1. pr \in ProcType /\ pr.status = one.procs[p].status BY <2>4 DEF ProcType
    <3>2. two = [one EXCEPT !.procs = [@ EXCEPT ![p] = pr]] OBVIOUS
    <3> HIDE DEF pr, two
    <3> QED BY <2>4, <3>1, <3>2, ProcStep
  <2> HIDE DEF two
  <2>6. Harmless(c, two) BY <2>4, <2>5 DEF Harmless
  <2>7. Quiet BY <1>0, <2>3, <2>6, HarmlessQuiet, Zenon
  <2>8. Fewer BY <1>0, <1>8, IoFewer DEF IoStatus, IoType, Reads
  <2> QED BY <1>0, <2>7, <2>8, QuietInv DEF Types
<1>9. CASE IoStop(i, p)
  <2>1. Fewer BY <1>0, <1>9, IoFewer DEF IoStop, Reads, IoType
  <2>2. PICK d \in StopAndRelease(inst[present], p) : inst' = [inst EXCEPT ![present] = d]
    BY <1>9, ZenonT(40) DEF IoStop
  <2>3. CASE present = 0
    <3>1. UNCHANGED inst BY <1>0, <2>2, <2>3 DEF Types
    <3> QED BY <1>0, <2>1, <3>1, SameQuiet, QuietInv, ZenonT(40) DEF Types
  <2>4. CASE present \in Instances
    <3>1. inst[present] \in InstType BY <2>4 DEF Inv, Types
    <3>2. Harmless(inst[present], d) \/ CleansUp(inst[present], d) BY <3>1, ReleaseStep
    <3>3. \A u \in Tasks : ~Overwrites(u)
      BY <1>9, NoOverwrites DEF IoStop, Io, ContainersRead
    <3>4. CASE Harmless(inst[present], d)
      <4>1. Quiet BY <1>0, <2>2, <2>4, <3>4, HarmlessQuiet, Zenon
      <4> QED BY <1>0, <2>1, <4>1, QuietInv DEF Types
    <3>5. CASE CleansUp(inst[present], d)
      BY <1>0, <2>1, <2>2, <2>4, <3>3, <3>5, CleanupInv, ZenonT(40)
    <3> QED BY <3>2, <3>4, <3>5
  <2> QED BY <1>0, <2>3, <2>4, ZenonT(40) DEF Types
<1>10. CASE IoLookup(i, p)
  <2>1. CASE present # 0
    <3>0. Io(i, p, "lookup", "inner") /\ UNCHANGED inst /\ ~ContainersWritten
      BY <1>10, <2>1 DEF IoLookup
    <3>1. io' \in [Instances -> [Procs -> IoType]]
      BY <1>0, <3>0 DEF Io, Types, IoType
    <3>2. Types' /\ Requests' BY <1>0, <3>0, <3>1 DEF Inv, Types, Requests
    <3>3. Locks' BY <1>0, <3>0, <3>1 DEF Inv, Locks, ContainersWritten
    <3>4. Clean' BY <1>0, <3>0, <3>1 DEF Inv, Clean, Overwrites
    <3> QED BY <3>2, <3>3, <3>4 DEF Inv
  <2> QED BY <1>4, <1>10, <2>1 DEF IoLookup
<1>11. CASE GuestExits(i, p)
  <2> DEFINE d == [c EXCEPT !.guest = [@ EXCEPT ![p] = "exited"]]
  <2>1. inst' = [inst EXCEPT ![i] = d] /\ c.guest[p] = "running" /\ UNCHANGED <<io, req>>
    BY <1>11 DEF GuestExits
  <2>2. Harmless(c, d) BY <1>0, <2>1, GuestStep, Zenon DEF GuestType
  <2> HIDE DEF d
  <2>3. Quiet BY <1>0, <2>1, <2>2, HarmlessQuiet, ZenonT(40)
  <2>4. Fewer BY <2>1 DEF Fewer, Inv, Types
  <2> QED BY <1>0, <2>3, <2>4, QuietInv DEF Types
<1>12. CASE StdinEnds(i, p)
  <2> DEFINE pr == [c.procs[p] EXCEPT !.stdin = "ended"]
  <2>1. pr \in ProcType /\ pr.status = c.procs[p].status BY <1>0 DEF ProcType
  <2>2. /\ inst' = [inst EXCEPT ![i] = [c EXCEPT !.procs = [@ EXCEPT ![p] = pr]]]
        /\ UNCHANGED <<io, req>>
    BY <1>12 DEF StdinEnds
  <2> HIDE DEF pr
  <2>3. Quiet BY <1>0, <2>1, <2>2, ProcQuiet, Zenon
  <2>4. Fewer BY <2>2 DEF Fewer, Inv, Types
  <2> QED BY <1>0, <2>3, <2>4, QuietInv DEF Types
<1> QED BY <1>5, <1>6, <1>7, <1>8, <1>9, <1>10, <1>11, <1>12 DEF IoStep

\* Initially there are no instances and no requests.
LEMMA InitInv == Init => Inv
<1> SUFFICES ASSUME Init PROVE Inv
  OBVIOUS
<1>1. Types BY InstInit, IdleType DEF Init, Types, IoType
<1>2. \A t \in Tasks : req[t].op = "none" /\ req[t].pc = "idle" BY IdleType DEF Init
<1>3. \A i \in Instances : inst[i].cleanups = 0 BY InstInit DEF Init
<1>4. Requests /\ Clean BY <1>2, <1>3 DEF Requests, Clean, Overwrites
<1>5. Locks BY <1>2 DEF Locks, ContainersWritten
<1> QED BY <1>1, <1>4, <1>5 DEF Inv

\* The inductive invariant holds in every reachable state of the container manager.
THEOREM ManagerInv == Spec => []Inv
<1>1. Inv /\ [Next]_vars => Inv'
  <2> SUFFICES ASSUME Inv, [Next]_vars PROVE Inv' OBVIOUS
  <2>1. CASE UNCHANGED vars
    BY <2>1 DEF vars, Inv, Types, Requests, Locks, ContainersWritten, ContainersRead, Clean,
                Overwrites
  <2>2. ASSUME NEW t \in Tasks, TaskStep(t) PROVE Inv'
    BY <2>2, BeginCreateInv, EndCreateInv, DeleteInv, LookupInv, AtInnerInv, BeginCallInv,
       EndStartInv, EndCallInv DEF TaskStep
  <2> QED BY <2>1, <2>2, AskInv, IoInv DEF Next
<1> QED BY <1>1, InitInv, PTL DEF Spec

\* However exits, starts, pauses and failures race, the volumes and the rootfs of an
\* instance are cleaned up once at most (stop_process), for any number of requests in
\* flight and whatever the client asks for.
THEOREM CleanedOnceAtMost == Spec => []CleanedOnce
<1>1. Inv => CleanedOnce BY DEF Inv, Clean, CleanedUp, CleanedOnce
<1> QED BY <1>1, ManagerInv, PTL

-----------------------------------------------------------------------------
PlainClient ==
  /\ ~Faults /\ ~Restarts /\ Procs = {"init"}
  /\ Ops \subseteq {"create", "start", "wait", "kill", "close_io", "delete"}

\* The phases of an instance c whose exit task is at s: while it is created, before it
\* is started, until it is stopped, until the sender is dropped, and after that.
Fresh(c, s) ==
  /\ s = "none" /\ c.guest["init"] = "none" /\ c.procs["init"].here
  /\ c.procs["init"].stdin = "none"
  /\ c.procs["init"].status = "Created" /\ c.procs["init"].tx = "process"
Ready(c, s) ==
  /\ s = "none" /\ c.guest["init"] = "created" /\ c.procs["init"].here
  /\ c.procs["init"].status = "Created" /\ c.procs["init"].tx = "process"
Alive(c, s) ==
  /\ s \in {"io", "wait", "lookup", "inner"} /\ c.guest["init"] \in {"running", "exited"}
  /\ c.procs["init"].status = "Running" /\ c.procs["init"].tx = "task"
Down(c, s) ==
  /\ s \in {"code", "status"} /\ c.procs["init"].status = "Stopped"
  /\ c.procs["init"].tx = "task" /\ c.fs = "released" /\ ~c.share
  /\ s = "status" => c.procs["init"].exit_code = "exited"
Over(c, s) ==
  /\ s = "done" /\ c.procs["init"].status = "Stopped" /\ c.procs["init"].tx = "closed"
  /\ c.fs = "released" /\ ~c.share /\ c.procs["init"].exit_code = "exited"

Created(i) == \E t \in Tasks : req[t].op = "create" /\ req[t].pc = "rpc" /\ req[t].i = i

\* An instance is in the map from the end of its creation until it is over.
Life(i) ==
  LET c == inst[i]
      s == io[i]["init"]
  IN \/ i > last /\ present # i /\ c = NoInstance /\ s = "none"
     \/ i <= last /\ present = 0 /\ Fresh(c, s) /\ Created(i)
     \/ i <= last /\ present = i /\ (Ready(c, s) \/ Alive(c, s) \/ Down(c, s))
     \/ i <= last /\ Over(c, s)

Born(i) == i <= last /\ ~Fresh(inst[i], io[i]["init"])
IsReady(i) == Ready(inst[i], io[i]["init"])
IsOver(i) == Over(inst[i], io[i]["init"])

\* What a request in flight relies on.
Relies(t) ==
  /\ req[t].op = "create" => present = 0
  /\ req[t].op = "create" /\ req[t].pc = "rpc" =>
       req[t].i <= last /\ Fresh(inst[req[t].i], io[req[t].i]["init"])
  /\ req[t].op = "start" => present # 0 /\ IsReady(present)
  /\ req[t].op = "delete" => present # 0 /\ IsOver(present) /\ req[t].pc = "containers"
  /\ req[t].op # "create" /\ req[t].pc \in {"inner", "rpc"} => req[t].i = present
  /\ req[t].pc = "watch" => Born(req[t].i)

PlainInv ==
  /\ \A i \in Instances : Life(i)
  /\ \A t \in Tasks : Relies(t)
  /\ \A t, u \in Tasks : req[t].op = req[u].op /\ req[t].op \in {"start", "delete"} => t = u
  /\ \A i \in Instances : <<i, "init">> \in reported => i <= last /\ IsOver(i)

\* The phases give the three properties.
LEMMA PlainImplies ==
  ASSUME Inv, PlainInv
  PROVE  StopsOwnInstance /\ ReportedIsCleaned /\ NothingLeaks
<1>1. NoInstance.fs = "none" BY DEF NoInstance
<1>2. \A i \in Instances : io[i]["init"] \in {"inner", "code", "status"} => present = i
  BY ZenonT(40) DEF PlainInv, Life, Fresh, Ready, Over
<1>3. ReportedIsCleaned BY ZenonT(40) DEF ReportedIsCleaned, PlainInv, IsOver, Over, Status
<1>4. NothingLeaks BY <1>1, Zenon DEF NothingLeaks, PlainInv, Life, Created, Over, Down
<1> QED BY <1>2, <1>3, <1>4 DEF StopsOwnInstance

\* 0 stands for no instance.
LEMMA InstNat == Instances \subseteq Nat \ {0}
OBVIOUS

\* The phases exclude one another.
LEMMA Phases ==
  ASSUME NEW c, NEW s
  PROVE  /\ Fresh(c, s) => ~Ready(c, s) /\ ~Alive(c, s) /\ ~Down(c, s) /\ ~Over(c, s)
         /\ Ready(c, s) => ~Alive(c, s) /\ ~Down(c, s) /\ ~Over(c, s)
         /\ Alive(c, s) => ~Down(c, s) /\ ~Over(c, s)
         /\ Down(c, s) => ~Over(c, s)
BY ZenonT(40) DEF Fresh, Ready, Alive, Down, Over

\* How an instance moves on.
Moves(c, s, d, r) ==
  \/ Ready(c, s) /\ (Ready(d, r) \/ Alive(d, r))
  \/ Alive(c, s) /\ (Alive(d, r) \/ Down(d, r))
  \/ Down(c, s) /\ (Down(d, r) \/ Over(d, r))
  \/ Over(c, s) /\ Over(d, r)

\* Requests go on or end; none begins, and no creation ends.
GoOn ==
  \A t \in Tasks :
    \/ req'[t] = req[t]
    \/ req'[t] = Idle /\ req[t].op # "create"
    \/ /\ req'[t].op = req[t].op /\ req'[t].i = req[t].i /\ req[t].op \notin {"create", "delete"}
       /\ req'[t].pc = "rpc" /\ req[t].pc = "inner"

\* One instance that has been created moves on.
LEMMA MoveInv ==
  ASSUME Inv, PlainInv, NEW k \in Instances, k <= last, GoOn,
         UNCHANGED <<present, last, reported>>,
         \A i \in Instances \ {k} : inst'[i] = inst[i] /\ io'[i] = io[i],
         Moves(inst[k], io[k]["init"], inst'[k], io'[k]["init"]),
         \/ \A t \in Tasks : req'[t].op # "start"
         \/ IsReady(k) => IsReady(k)'
  PROVE  PlainInv'
<1> DEFINE c == inst[k]
           s == io[k]["init"]
           d == inst'[k]
           r == io'[k]["init"]
<1>1. ~Fresh(c, s) /\ ~Fresh(d, r)
  BY ZenonT(40) DEF Moves, Fresh, Ready, Alive, Down, Over
<1>2. \/ present = k /\ ~Over(c, s)
      \/ Over(c, s) /\ Over(d, r)
  <2>1. Life(k) BY ZenonT(40) DEF PlainInv
  <2>2. k \in Nat /\ last \in Nat BY InstNat, ZenonT(40) DEF PlainInv, Inv, Types
  <2>3. ~(k > last) BY <2>2
  <2>4. Over(c, s) => Over(d, r) BY Phases, ZenonT(40) DEF Moves
  <2> QED BY <1>1, <2>1, <2>3, <2>4, ZenonT(40) DEF Life
<1>3. Life(k)'
  BY <1>2, ZenonT(40) DEF Moves, Life
<1>4. ASSUME NEW i \in Instances \ {k} PROVE Life(i)'
  <2>1. Created(i) => Created(i)' BY IdleType, ZenonT(40) DEF GoOn, Created
  <2>2. Life(i) BY ZenonT(40) DEF PlainInv
  <2> QED BY <2>1, <2>2, ZenonT(40) DEF Life
<1>5. ASSUME NEW i \in Instances
      PROVE  /\ Over(inst[i], io[i]["init"]) => Over(inst'[i], io'[i]["init"])
             /\ ~Fresh(inst[i], io[i]["init"]) => ~Fresh(inst'[i], io'[i]["init"])
             /\ Fresh(inst[i], io[i]["init"]) => Fresh(inst'[i], io'[i]["init"])
             /\ Ready(inst[i], io[i]["init"]) =>
                  Ready(inst'[i], io'[i]["init"]) \/ \A t \in Tasks : req'[t].op # "start"
  <2>1. CASE i # k BY <2>1, ZenonT(40)
  <2>2. CASE i = k BY <1>1, <1>2, <2>2, ZenonT(40) DEF IsReady
  <2> QED BY <2>1, <2>2, ZenonT(40)
<1>6. ASSUME NEW t \in Tasks PROVE Relies(t)'
  <2>1. Relies(t) /\ req[t].i \in Instances \cup {0} /\ present \in Instances \cup {0}
    BY Zenon DEF PlainInv, Inv, Types, ReqType
  <2>2. req[t].pc \in {"inner", "rpc", "watch"} => req[t].i # 0 BY ZenonT(40) DEF Inv, Requests
  <2>3. CASE req'[t] = Idle BY <2>3, IdleType, ZenonT(40) DEF Relies
  <2>4. CASE /\ req'[t].op = req[t].op /\ req'[t].i = req[t].i
             /\ \/ req'[t].pc = req[t].pc
                \/ /\ req[t].op \notin {"create", "delete"}
                   /\ req'[t].pc = "rpc" /\ req[t].pc = "inner"
    BY <1>5, <2>1, <2>2, <2>4, ZenonT(40) DEF Relies, IsReady, IsOver, Born
  <2> QED BY <2>3, <2>4, ZenonT(40) DEF GoOn
<1>7. \A t, u \in Tasks : req'[t].op = req'[u].op /\ req'[t].op \in {"start", "delete"} => t = u
  <2>1. \A t \in Tasks : req'[t].op \in {"start", "delete"} => req'[t].op = req[t].op
    BY IdleType, ZenonT(40) DEF GoOn
  <2>2. \A t, u \in Tasks : req[t].op = req[u].op /\ req[t].op \in {"start", "delete"} => t = u
    BY DEF PlainInv
  <2> QED BY <2>1, <2>2, ZenonT(40)
<1>8. \A i \in Instances : <<i, "init">> \in reported' => i <= last' /\ IsOver(i)'
  BY <1>5, ZenonT(40) DEF PlainInv, IsOver
<1>9. \A i \in Instances : Life(i)' BY <1>3, <1>4, ZenonT(40)
<1> QED BY <1>6, <1>7, <1>8, <1>9, ZenonT(40) DEF PlainInv

\* Only a request changes.
LEMMA SameLife ==
  ASSUME PlainInv, UNCHANGED <<present, last, inst, io>>, NEW t \in Tasks,
         \A u \in Tasks \ {t} : req'[u] = req[u], Relies(t)',
         ~(req[t].op = "create" /\ req[t].pc = "rpc"),
         req'[t].op \in {"start", "delete"} => \A u \in Tasks \ {t} : req[u].op # req'[t].op,
         \A i \in Instances : <<i, "init">> \in reported' =>
           <<i, "init">> \in reported \/ (i <= last /\ IsOver(i))
  PROVE  PlainInv'
<1>1. ASSUME NEW i \in Instances PROVE Life(i)'
  <2>1. Created(i) => Created(i)' BY ZenonT(40) DEF Created
  <2>2. Life(i) BY ZenonT(40) DEF PlainInv
  <2> QED BY <2>1, <2>2, ZenonT(40) DEF Life
<1>2. ASSUME NEW u \in Tasks PROVE Relies(u)'
  <2>1. CASE u = t BY <2>1
  <2>2. CASE u # t
    <3>1. Relies(u) /\ req'[u] = req[u] BY <2>2, ZenonT(40) DEF PlainInv
    <3> QED BY <3>1, ZenonT(40) DEF Relies, IsReady, IsOver, Born
  <2> QED BY <2>1, <2>2, ZenonT(40)
<1>3. \A u, v \in Tasks : req'[u].op = req'[v].op /\ req'[u].op \in {"start", "delete"} => u = v
  BY DEF PlainInv
<1>4. \A i \in Instances : <<i, "init">> \in reported' => i <= last' /\ IsOver(i)'
  BY ZenonT(40) DEF PlainInv, IsOver
<1> QED BY <1>1, <1>2, <1>3, <1>4, ZenonT(40) DEF PlainInv

\* The client asks for a start before the container was started, and for a delete after
\* its exit was reported.
LEMMA PlainAsk ==
  ASSUME PlainClient, Inv, PlainInv, NEW t \in Tasks, NEW op \in Ops, NEW p \in Procs, Ask(t, op, p)
  PROVE  PlainInv'
<1> DEFINE r == [op |-> op, p |-> p, i |-> 0, pc |-> "containers"]
<1>1. r.op = op /\ r.pc = "containers" /\ p = "init" BY DEF PlainClient
<1>2. /\ req' = [req EXCEPT ![t] = r] /\ req[t] = Idle /\ MayAsk(op, p)
      /\ UNCHANGED <<present, last, inst, io, reported>>
  BY DEF Ask
<1>3. present \in Instances \cup {0} BY DEF Inv, Types
<1>4. op = "create" => present = 0 BY <1>2 DEF MayAsk
<1>5. op = "start" => present # 0 /\ IsReady(present)
  <2> SUFFICES ASSUME op = "start" PROVE present # 0 /\ IsReady(present) OBVIOUS
  <2>1. present # 0 /\ inst[present].procs["init"].status = "Created"
    BY <1>1, <1>2 DEF MayAsk, PlainClient
  <2>2. Life(present) BY <1>3, <2>1, Zenon DEF PlainInv
  <2> QED BY <2>1, <2>2, ZenonT(40) DEF Life, IsReady, Alive, Down, Over
<1>6. op = "delete" => present # 0 /\ IsOver(present)
  BY <1>1, <1>2, <1>3 DEF MayAsk, PlainInv
<1>7. op \in {"start", "delete"} => \A u \in Tasks \ {t} : req[u].op # op
  <2>1. \A u \in Tasks : req[u].p = "init" BY DEF Inv, Types, ReqType, PlainClient
  <2>2. op \in {"start", "delete"} => ~InFlight(op, p) BY <1>2 DEF MayAsk
  <2> QED BY <1>1, <2>1, <2>2, ZenonT(40) DEF InFlight
<1> HIDE DEF r
<1>8. req'[t] = r /\ \A u \in Tasks \ {t} : req'[u] = req[u] BY <1>2 DEF Inv, Types
<1>9. Relies(t)' BY <1>1, <1>2, <1>4, <1>5, <1>6, <1>8, ZenonT(40) DEF Relies, IsReady, IsOver
<1> QED BY <1>1, <1>2, <1>7, <1>8, <1>9, SameLife, IdleType

\* A request returns and nothing else happens.
LEMMA PlainReturn ==
  ASSUME Inv, PlainInv, NEW t \in Tasks, Return(t), ~(req[t].op = "create" /\ req[t].pc = "rpc"),
         UNCHANGED <<present, last, inst, io>>,
         \A i \in Instances : <<i, "init">> \in reported' =>
           <<i, "init">> \in reported \/ (i <= last /\ IsOver(i))
  PROVE  PlainInv'
<1>1. req'[t] = Idle /\ \A u \in Tasks \ {t} : req'[u] = req[u] BY ReturnReq, ZenonT(40) DEF Inv
<1>2. Relies(t)' BY <1>1, IdleType, Zenon DEF Relies
<1> QED BY <1>1, <1>2, SameLife, IdleType, ZenonT(40)

\* A request that looks the container up finds the one in the map.
LEMMA PlainLookup ==
  ASSUME PlainClient, Inv, PlainInv, NEW t \in Tasks, Lookup(t)
  PROVE  PlainInv'
<1> DEFINE r == [req[t] EXCEPT !.i = present, !.pc = "inner"]
<1>1. /\ req[t].pc = "containers" /\ req[t].op # "create" /\ req[t].op # "delete"
      /\ UNCHANGED <<present, last, inst, io, reported>>
  BY DEF Lookup, PlainClient, Inv, Types, ReqType
<1>2. CASE Return(t) BY <1>1, <1>2, PlainReturn, ZenonT(40)
<1>3. CASE req' = [req EXCEPT ![t] = r]
  <2>1. r.i = present /\ r.pc = "inner" /\ r.op = req[t].op BY DEF Inv, Types, ReqType
  <2> HIDE DEF r
  <2>2. req'[t] = r /\ \A u \in Tasks \ {t} : req'[u] = req[u] BY <1>3 DEF Inv, Types
  <2>3. Relies(t) BY DEF PlainInv
  <2>4. Relies(t)' BY <1>1, <2>1, <2>2, <2>3, ZenonT(40) DEF Relies, IsReady
  <2>5. req[t].op \in {"start", "delete"} => \A u \in Tasks \ {t} : req[u].op # req[t].op
    BY DEF PlainInv
  <2> QED BY <1>1, <2>1, <2>2, <2>4, <2>5, SameLife
<1> QED BY <1>2, <1>3, Zenon DEF Lookup

\* A watcher is fetched of a container that has been created.
LEMMA PlainWatch ==
  ASSUME PlainClient, Inv, PlainInv, NEW t \in Tasks, fetch_exit_watcher(t)
  PROVE  PlainInv'
<1>1. /\ req[t].pc = "inner" /\ req[t].op = "wait"
      /\ UNCHANGED <<present, last, inst, io, reported>>
  BY DEF fetch_exit_watcher, AtInner
<1>2. CASE Return(t) BY <1>1, <1>2, PlainReturn
<1>3. CASE Goto(t, "watch")
  <2>1. /\ \A u \in Tasks \ {t} : req'[u] = req[u]
        /\ req'[t].pc = "watch" /\ req'[t].op = "wait" /\ req'[t].i = req[t].i
    BY <1>1, <1>3, GotoReq DEF Inv
  <2>2. req[t].i = present /\ present \in Instances
    BY <1>1 DEF PlainInv, Relies, Inv, Types, Requests
  <2>3. present # 0 /\ Life(present) BY <2>2, InstNat DEF PlainInv
  <2>4. Born(present) BY <2>3, ZenonT(40) DEF Life, Born, Fresh, Ready, Alive, Down, Over
  <2>5. Relies(t)' BY <1>1, <2>1, <2>2, <2>4, ZenonT(40) DEF Relies, Born
  <2> QED BY <1>1, <2>1, <2>5, SameLife
<1> QED BY <1>2, <1>3, ZenonT(40) DEF fetch_exit_watcher

\* The sender is gone only when the instance is over.
LEMMA PlainEndWait ==
  ASSUME PlainClient, Inv, PlainInv, NEW t \in Tasks, EndWait(t)
  PROVE  PlainInv'
<1> DEFINE k == req[t].i
<1>1. /\ req[t].pc = "watch" /\ inst[k].procs[req[t].p].tx = "closed"
      /\ reported' = reported \cup {<<k, req[t].p>>}
      /\ Return(t) /\ UNCHANGED <<present, last, inst, io>>
  BY ZenonT(40) DEF EndWait
<1>2. k \in Instances /\ req[t].p = "init"
  BY <1>1, ZenonT(40) DEF Inv, Types, ReqType, Requests, PlainClient
<1>3. Born(k) /\ Life(k) BY <1>1, <1>2, ZenonT(40) DEF PlainInv, Relies
<1>4. ~(k > last) BY <1>2, <1>3, InstNat DEF Born, Inv, Types
<1>5. IsOver(k) BY <1>1, <1>2, <1>3, <1>4, ZenonT(40) DEF Life, Born, IsOver, Ready, Alive, Down
<1>6. \A i \in Instances : <<i, "init">> \in reported' =>
        <<i, "init">> \in reported \/ (i <= last /\ IsOver(i))
  BY <1>1, <1>2, <1>3, <1>5, ZenonT(40) DEF Born
<1> QED BY <1>1, <1>6, PlainReturn, ZenonT(40)

\* The container a request holds is the one in the map, and it has been created.
LEMMA HoldsPresent ==
  ASSUME Inv, PlainInv, NEW t \in Tasks, req[t].op # "create", req[t].pc \in {"inner", "rpc"}
  PROVE  /\ req[t].i = present /\ present \in Instances /\ present <= last
         /\ \/ Ready(inst[present], io[present]["init"])
            \/ Alive(inst[present], io[present]["init"])
            \/ Down(inst[present], io[present]["init"])
            \/ Over(inst[present], io[present]["init"])
<1>1. req[t].i = present /\ present \in Instances
  BY DEF PlainInv, Relies, Inv, Types, Requests
<1>2. present # 0 /\ Life(present) BY <1>1, InstNat, ZenonT(40) DEF PlainInv
<1> QED BY <1>1, <1>2, ZenonT(40) DEF Life

\* A start finds the container created, and does not stop it.
LEMMA PlainBeginCall ==
  ASSUME PlainClient, Inv, PlainInv, NEW t \in Tasks, BeginCall(t)
  PROVE  PlainInv'
<1>1. /\ req[t].pc = "inner" /\ req[t].op # "create" /\ req[t].op # "delete"
      /\ UNCHANGED <<present, last, io, reported>>
  BY Zenon DEF BeginCall, Inv, Requests
<1>2. req[t].op = "start" => Status(req[t].i) = "Created"
  BY <1>1, HoldsPresent, ZenonT(40) DEF PlainInv, Relies, IsReady, Ready, Status
<1>3. UNCHANGED inst /\ (Return(t) \/ Goto(t, "rpc")) BY <1>2, ZenonT(40) DEF BeginCall
<1>4. CASE Return(t) BY <1>1, <1>3, <1>4, PlainReturn, ZenonT(40)
<1>5. CASE Goto(t, "rpc")
  <2>1. /\ \A u \in Tasks \ {t} : req'[u] = req[u]
        /\ req'[t].pc = "rpc" /\ req'[t].op = req[t].op /\ req'[t].i = req[t].i
    BY <1>5, GotoReq, Zenon DEF Inv
  <2>2. Relies(t) BY DEF PlainInv
  <2>3. Relies(t)' BY <1>1, <1>3, <2>1, <2>2, ZenonT(40) DEF Relies, IsReady
  <2>4. req[t].op = "start" => \A u \in Tasks \ {t} : req[u].op # "start" BY DEF PlainInv
  <2> QED BY <1>1, <1>3, <2>1, <2>3, <2>4, SameLife, ZenonT(40)
<1> QED BY <1>3, <1>4, <1>5

\* A request returns after it has moved its container on.
LEMMA ReturnGoOn ==
  ASSUME Inv, NEW t \in Tasks, Return(t), req[t].op # "create"
  PROVE  GoOn
BY ReturnReq DEF GoOn, Inv

\* What a change of one field leaves of the phases.
LEMMA GuestMoves ==
  ASSUME PlainClient, NEW c \in InstType, NEW s, c.guest["init"] = "running"
  PROVE  LET d == [c EXCEPT !.guest = [@ EXCEPT !["init"] = "exited"]]
         IN /\ Alive(c, s) => Alive(d, s)
            /\ Down(c, s) => Down(d, s)
            /\ Over(c, s) => Over(d, s)
<1> DEFINE g == [c.guest EXCEPT !["init"] = "exited"]
           d == [c EXCEPT !.guest = g]
<1>1. g["init"] = "exited" BY DEF InstType, PlainClient
<1> HIDE DEF g
<1>2. d.guest = g /\ d.procs = c.procs /\ d.fs = c.fs /\ d.share = c.share BY DEF InstType
<1> HIDE DEF d
<1>3. /\ Alive(c, s) => Alive(d, s)
      /\ Down(c, s) => Down(d, s)
      /\ Over(c, s) => Over(d, s)
  BY <1>1, <1>2 DEF Alive, Down, Over
<1> QED BY <1>3 DEF d, g

\* The process in the guest of an instance exits.
LEMMA ExitMoves ==
  ASSUME PlainClient, Inv, PlainInv, NEW k \in Instances, inst[k].guest["init"] = "running",
         inst' = [inst EXCEPT ![k] = [inst[k] EXCEPT !.guest = [@ EXCEPT !["init"] = "exited"]]],
         GoOn, UNCHANGED <<present, last, io, reported>>
  PROVE  PlainInv'
<1> DEFINE c == inst[k]
           d == [inst[k] EXCEPT !.guest = [@ EXCEPT !["init"] = "exited"]]
<1>1. c \in InstType BY DEF Inv, Types
<1>2. k <= last /\ (Alive(c, io[k]["init"]) \/ Down(c, io[k]["init"]) \/ Over(c, io[k]["init"]))
  <2>1. NoInstance.guest["init"] = "none" BY DEF NoInstance, PlainClient
  <2>2. Life(k) BY DEF PlainInv
  <2> QED BY <2>1, <2>2 DEF Life, Fresh, Ready
<1>3. /\ Alive(c, io[k]["init"]) => Alive(d, io[k]["init"])
      /\ Down(c, io[k]["init"]) => Down(d, io[k]["init"])
      /\ Over(c, io[k]["init"]) => Over(d, io[k]["init"])
  BY <1>1, GuestMoves
<1> HIDE DEF d
<1>4. inst' = [inst EXCEPT ![k] = d] BY DEF d
<1>5. inst'[k] = d /\ \A i \in Instances \ {k} : inst'[i] = inst[i] /\ io'[i] = io[i]
  BY <1>4 DEF Inv, Types
<1>6. Moves(inst[k], io[k]["init"], inst'[k], io'[k]["init"])
  BY <1>2, <1>3, <1>5 DEF Moves
<1>7. ~IsReady(k) BY <1>2, Phases DEF IsReady
<1> QED BY <1>2, <1>5, <1>6, <1>7, MoveInv

\* A signal ends the process in the guest, if it runs.
LEMMA PlainKill ==
  ASSUME PlainClient, Inv, PlainInv, NEW t \in Tasks, EndKill(t)
  PROVE  PlainInv'
<1>1. /\ req[t].pc = "rpc" /\ req[t].op = "kill" /\ Return(t)
      /\ UNCHANGED <<present, last, io, reported>>
  BY DEF EndKill, EndCall
<1>2. req[t].i \in Instances /\ req[t].p = "init"
  BY <1>1 DEF Inv, Types, ReqType, Requests, PlainClient
<1>3. CASE UNCHANGED inst BY <1>1, <1>3, PlainReturn
<1>4. CASE /\ inst[req[t].i].guest[req[t].p] = "running"
           /\ inst' = [inst EXCEPT ![req[t].i].guest[req[t].p] = "exited"]
  <2>1. GoOn BY <1>1, ReturnGoOn
  <2> QED BY <1>1, <1>2, <1>4, <2>1, ExitMoves, ZenonT(40)
<1> QED BY <1>3, <1>4 DEF EndKill

\* The one start takes the instance from ready to up.
LEMMA PlainEndStart ==
  ASSUME PlainClient, Inv, PlainInv, NEW t \in Tasks, EndStart(t)
  PROVE  PlainInv'
<1> DEFINE k == present
           c == inst[k]
           e == [c EXCEPT !.procs["init"].status = "Running", !.guest["init"] = "running"]
           d == [e EXCEPT !.procs["init"].tx = "task", !.procs["init"].stdin = "copying"]
<1>1. req[t].pc = "rpc" /\ req[t].op = "start" /\ Return(t) /\ UNCHANGED <<present, last, reported>>
  BY ZenonT(40) DEF EndStart
<1>2. req[t].i = k /\ k \in Instances /\ k <= last /\ req[t].p = "init" /\ Ready(c, io[k]["init"])
  BY <1>1, HoldsPresent, ZenonT(40) DEF Inv, Types, ReqType, PlainClient, PlainInv, Relies, IsReady
<1>3. c \in InstType /\ c.guest["init"] = "created" BY <1>2 DEF Inv, Types, Ready
<1>4. inst' = [inst EXCEPT ![k] = d] /\ io' = [io EXCEPT ![k]["init"] = "io"]
  BY <1>2, <1>3 DEF EndStart, PlainClient
<1>5. e \in InstType /\ e.procs["init"].status = "Running" /\ e.guest["init"] = "running"
  BY <1>3, StartedType, ZenonT(40)
<1> HIDE DEF e
<1>6. d.guest = e.guest /\ d.procs["init"].tx = "task" /\ d.procs["init"].status = "Running"
  BY <1>5, WatchedType, ZenonT(40)
<1> HIDE DEF d
<1>10. Alive(d, "io") BY <1>5, <1>6 DEF Alive
<1>11. inst'[k] = d /\ \A i \in Instances \ {k} : inst'[i] = inst[i]
  BY <1>2, <1>4 DEF Inv, Types
<1>12. io'[k]["init"] = "io" /\ \A i \in Instances \ {k} : io'[i] = io[i]
  BY <1>2, <1>4 DEF Inv, Types
<1>13. Moves(inst[k], io[k]["init"], inst'[k], io'[k]["init"])
  BY <1>2, <1>10, <1>11, <1>12, ZenonT(40) DEF Moves
<1>14. \A u \in Tasks : req'[u].op # "start"
  BY <1>1, ReturnReq, IdleType, ZenonT(40) DEF PlainInv, Inv
<1>15. GoOn BY <1>1, ReturnGoOn, ZenonT(40)
<1> QED BY <1>1, <1>2, <1>11, <1>12, <1>13, <1>14, <1>15, MoveInv, ZenonT(40)

\* A new instance is fresh, while none is in the map.
LEMMA PlainBeginCreate ==
  ASSUME PlainClient, Inv, PlainInv, NEW t \in Tasks, BeginCreate(t)
  PROVE  PlainInv'
<1> DEFINE k == last + 1
           ps == [NoInstance.procs EXCEPT !["init"] = NewProcess]
           c == [NoInstance EXCEPT !.procs = ps, !.fs = "held", !.share = TRUE]
           r == [req[t] EXCEPT !.i = k, !.pc = "rpc"]
<1>1. /\ k \in Instances /\ req[t].op = "create" /\ req[t].pc = "containers" /\ last' = k
      /\ UNCHANGED <<present, io, reported>> /\ last \in Nat
  BY DEF BeginCreate, Inv, Requests, Types
<1>2. inst' = [inst EXCEPT ![k] = c] /\ req' = [req EXCEPT ![t] = r] BY ZenonT(40) DEF BeginCreate
<1>3. /\ NewProcess.here /\ NewProcess.status = "Created" /\ NewProcess.tx = "process"
      /\ NewProcess.stdin = "none"
  BY DEF NewProcess, NoProcess
<1>4. NoInstance \in InstType /\ NoInstance.guest["init"] = "none"
  BY InstInit DEF NoInstance
<1>5. ps["init"] = NewProcess BY <1>4 DEF InstType
<1> HIDE DEF ps
<1>6. c.procs = ps /\ c.guest = NoInstance.guest BY <1>4 DEF InstType
<1>7. r.op = "create" /\ r.pc = "rpc" /\ r.i = k BY <1>1 DEF Inv, Types, ReqType
<1> HIDE DEF c, r
<1>8. req'[t] = r /\ \A u \in Tasks \ {t} : req'[u] = req[u] BY <1>2 DEF Inv, Types
<1>9. inst'[k] = c /\ \A i \in Instances \ {k} : inst'[i] = inst[i] BY <1>1, <1>2 DEF Inv, Types
<1>10. present = 0 BY <1>1 DEF PlainInv, Relies
<1>11. io[k]["init"] = "none"
  <2>1. Life(k) /\ ~(k <= last) BY <1>1 DEF PlainInv
  <2> QED BY <2>1, ZenonT(40) DEF Life
<1>12. Fresh(c, io[k]["init"]) BY <1>3, <1>4, <1>5, <1>6, <1>11 DEF Fresh
<1>13. \A u \in Tasks : req[u].op = "create" => u = t BY <1>1 DEF Inv, Requests
<1>14. ASSUME NEW i \in Instances PROVE Life(i)'
  <2>1. i \in Nat BY InstNat
  <2>2. CASE i = k
    <3>1. Created(i)' BY <1>7, <1>8, <2>2 DEF Created
    <3>2. i <= last' BY <1>1, <2>2
    <3> QED BY <1>1, <1>9, <1>10, <1>12, <2>2, <3>1, <3>2, ZenonT(40) DEF Life
  <2>3. CASE i # k
    <3>1. (i > last => i > last') /\ (i <= last => i <= last') BY <1>1, <2>1, <2>3
    <3>2. ~Created(i) BY <1>1, <1>13 DEF Created
    <3>3. Life(i) BY DEF PlainInv
    <3> QED BY <1>1, <1>9, <2>3, <3>1, <3>2, <3>3, ZenonT(40) DEF Life
  <2> QED BY <2>2, <2>3
<1>15. ASSUME NEW i \in Instances, i <= last
       PROVE  i <= last' /\ inst'[i] = inst[i] /\ io'[i] = io[i]
  BY <1>1, <1>9, <1>15, InstNat
<1>16. ASSUME NEW u \in Tasks PROVE Relies(u)'
  <2>1. CASE u = t
    <3>1. last' = k /\ k <= k BY <1>1
    <3> QED BY <1>1, <1>7, <1>8, <1>9, <1>10, <1>12, <2>1, <3>1, ZenonT(40) DEF Relies
  <2>2. CASE u # t
    <3>1. Relies(u) /\ req'[u] = req[u] /\ req[u].op # "create"
      BY <1>8, <1>13, <2>2, ZenonT(40) DEF PlainInv
    <3>2. req[u].i \in Instances \cup {0} /\ (req[u].pc = "watch" => req[u].i # 0)
      BY DEF Inv, Types, ReqType, Requests
    <3>3. req[u].pc = "watch" => Born(req[u].i)'
      BY <1>15, <3>1, <3>2, ZenonT(40) DEF Relies, Born
    <3> QED BY <1>1, <1>10, <3>1, <3>3, ZenonT(40) DEF Relies, Born
  <2> QED BY <2>1, <2>2
<1>17. \A u, v \in Tasks : req'[u].op = req'[v].op /\ req'[u].op \in {"start", "delete"} => u = v
  BY <1>7, <1>8 DEF PlainInv
<1>18. \A i \in Instances : <<i, "init">> \in reported' => i <= last' /\ IsOver(i)'
  BY <1>1, <1>15, ZenonT(40) DEF PlainInv, IsOver
<1> QED BY <1>14, <1>16, <1>17, <1>18 DEF PlainInv

\* The new instance comes into the map and is ready.
LEMMA PlainEndCreate ==
  ASSUME PlainClient, Inv, PlainInv, NEW t \in Tasks, EndCreate(t)
  PROVE  PlainInv'
<1> DEFINE k == req[t].i
           gs == [inst[k].guest EXCEPT !["init"] = "created"]
           c == [inst[k] EXCEPT !.guest = gs]
<1>1. /\ req[t].op = "create" /\ req[t].pc = "rpc" /\ Return(t) /\ UNCHANGED <<last, io, reported>>
      /\ present' = k /\ inst' = [inst EXCEPT ![k] = c]
  BY DEF EndCreate, PlainClient
<1>2. k \in Instances /\ k # 0 /\ inst[k] \in InstType
  BY <1>1 DEF Inv, Types, ReqType, Requests
<1>3. present = 0 /\ k <= last /\ Fresh(inst[k], io[k]["init"]) BY <1>1 DEF PlainInv, Relies
<1>4. gs["init"] = "created" BY <1>2, ZenonT(40) DEF InstType, PlainClient
<1> HIDE DEF gs
<1>5. c.guest = gs /\ c.procs = inst[k].procs BY <1>2 DEF InstType
<1> HIDE DEF c
<1>6. Ready(c, io[k]["init"]) BY <1>3, <1>4, <1>5, ZenonT(40) DEF Fresh, Ready
<1>7. inst'[k] = c /\ \A i \in Instances \ {k} : inst'[i] = inst[i] BY <1>1, <1>2 DEF Inv, Types
<1>8. req'[t] = Idle /\ \A u \in Tasks \ {t} : req'[u] = req[u] BY <1>1, ReturnReq DEF Inv
<1>9. \A u \in Tasks : req[u].op = "create" => u = t BY <1>1, ZenonT(40) DEF Inv, Requests
<1>10. ASSUME NEW i \in Instances PROVE Life(i)'
  <2>1. CASE i = k BY <1>1, <1>3, <1>6, <1>7, <2>1, ZenonT(40) DEF Life
  <2>2. CASE i # k
    <3>1. ~Created(i) BY <1>9, <2>2 DEF Created
    <3>2. Life(i) /\ i # 0 BY InstNat DEF PlainInv
    <3> QED BY <1>1, <1>3, <1>7, <2>2, <3>1, <3>2, ZenonT(40) DEF Life
  <2> QED BY <2>1, <2>2
<1>11. ASSUME NEW u \in Tasks PROVE Relies(u)'
  <2>1. CASE u = t BY <1>8, <2>1, IdleType DEF Relies
  <2>2. CASE u # t
    <3>1. /\ Relies(u) /\ req'[u] = req[u]
          /\ req[u].op \notin {"create", "start", "delete"}
      BY <1>3, <1>8, <1>9, <2>2, ZenonT(40) DEF PlainInv, Relies
    <3>2. req[u].i \in Instances \cup {0} /\ (req[u].pc = "watch" => req[u].i # 0)
      BY DEF Inv, Types, ReqType, Requests
    <3>3. req[u].pc \notin {"inner", "rpc"}
      BY <1>1, <3>1, ZenonT(40) DEF Inv, Locks, ContainersWritten, ContainersRead
    <3>4. req[u].pc = "watch" => Born(req[u].i)'
      BY <1>1, <1>3, <1>7, <3>1, <3>2, ZenonT(40) DEF Relies, Born
    <3> QED BY <3>1, <3>3, <3>4, ZenonT(40) DEF Relies, Born
  <2> QED BY <2>1, <2>2
<1>12. \A u, v \in Tasks : req'[u].op = req'[v].op /\ req'[u].op \in {"start", "delete"} => u = v
  BY <1>8, IdleType DEF PlainInv
<1>13. \A i \in Instances : <<i, "init">> \in reported' => i <= last' /\ IsOver(i)'
  BY <1>1, <1>3, <1>7, Phases, ZenonT(40) DEF PlainInv, IsOver
<1> QED BY <1>10, <1>11, <1>12, <1>13 DEF PlainInv

\* Only an instance that is over leaves the map.
LEMMA PlainDelete ==
  ASSUME PlainClient, Inv, PlainInv, NEW t \in Tasks, DeleteContainer(t)
  PROVE  PlainInv'
<1> DEFINE k == present
           pr == inst[k].procs["init"]
           ps == [p \in Procs |-> Drop(inst[k].procs[p])]
           d == [inst[k] EXCEPT !.procs = ps]
<1>1. /\ req[t].op = "delete" /\ Return(t) /\ UNCHANGED <<last, io, reported>>
      /\ ~ContainersRead /\ ~ContainersWritten /\ present' = 0
  BY DEF DeleteContainer
<1>2. k # 0 /\ IsOver(k) BY <1>1, ZenonT(40) DEF PlainInv, Relies
<1>3. k \in Instances /\ inst[k] \in InstType BY <1>2 DEF Inv, Types
<1>4. inst' = [inst EXCEPT ![k] = d] BY <1>2 DEF DeleteContainer
<1>5. pr \in ProcType /\ pr.tx = "closed" BY <1>2, <1>3 DEF InstType, IsOver, Over
<1>6. LET dr == Drop(pr)
      IN dr.status = pr.status /\ dr.exit_code = pr.exit_code /\ dr.tx = "closed"
  BY <1>5 DEF Drop, ProcType
<1>7. ps["init"] = Drop(pr) OBVIOUS
<1> HIDE DEF ps
<1>8. d.procs = ps /\ d.fs = inst[k].fs /\ d.share = inst[k].share BY <1>3 DEF InstType
<1> HIDE DEF d
<1>9. Over(d, io[k]["init"]) BY <1>2, <1>6, <1>7, <1>8 DEF IsOver, Over
<1>10. inst'[k] = d /\ \A i \in Instances \ {k} : inst'[i] = inst[i] BY <1>3, <1>4 DEF Inv, Types
<1>11. req'[t] = Idle /\ \A u \in Tasks \ {t} : req'[u] = req[u] BY <1>1, ReturnReq DEF Inv
<1>12. k <= last
  <2>1. Life(k) BY <1>3 DEF PlainInv
  <2> QED BY <2>1, ZenonT(40) DEF Life
<1>13. ASSUME NEW i \in Instances
       PROVE  /\ Over(inst[i], io[i]["init"]) => Over(inst'[i], io'[i]["init"])
              /\ ~Fresh(inst[i], io[i]["init"]) => ~Fresh(inst'[i], io'[i]["init"])
  BY <1>1, <1>9, <1>10, Phases, ZenonT(40)
<1>14. ASSUME NEW i \in Instances PROVE Life(i)'
  <2>1. CASE i = k BY <1>1, <1>9, <1>10, <1>12, <2>1, ZenonT(40) DEF Life
  <2>2. CASE i # k
    <3>1. Life(i) /\ i # 0 BY InstNat DEF PlainInv
    <3>2. ~Created(i) BY <1>1 DEF Created, ContainersWritten
    <3> QED BY <1>1, <1>10, <2>2, <3>1, <3>2, ZenonT(40) DEF Life
  <2> QED BY <2>1, <2>2
<1>15. ASSUME NEW u \in Tasks PROVE Relies(u)'
  <2>1. CASE u = t BY <1>11, <2>1, IdleType DEF Relies
  <2>2. CASE u # t
    <3>1. Relies(u) /\ req'[u] = req[u] /\ req[u].op # "delete"
      BY <1>1, <1>11, <2>2, ZenonT(40) DEF PlainInv
    <3>2. req[u].op \notin {"start", "create"}
      BY <1>2, <3>1, Phases, ZenonT(40) DEF Relies, IsReady, IsOver
    <3>3. req[u].pc \notin {"inner", "rpc"} BY <1>1, <3>2, ZenonT(40) DEF ContainersRead
    <3>4. req[u].i \in Instances \cup {0} /\ (req[u].pc = "watch" => req[u].i # 0)
      BY DEF Inv, Types, ReqType, Requests
    <3>5. req[u].pc = "watch" => Born(req[u].i)' BY <1>1, <1>13, <3>1, <3>4,
        ZenonT(40) DEF Relies, Born
    <3> QED BY <3>1, <3>2, <3>3, <3>5, ZenonT(40) DEF Relies, Born
  <2> QED BY <2>1, <2>2
<1>16. \A u, v \in Tasks : req'[u].op = req'[v].op /\ req'[u].op \in {"start", "delete"} => u = v
  BY <1>11, IdleType DEF PlainInv
<1>17. \A i \in Instances : <<i, "init">> \in reported' => i <= last' /\ IsOver(i)'
  BY <1>1, <1>13, ZenonT(40) DEF PlainInv, IsOver
<1> QED BY <1>14, <1>15, <1>16, <1>17 DEF PlainInv

\* The exit task of an instance moves on.
LEMMA IoMoves ==
  ASSUME PlainClient, Inv, PlainInv, NEW k \in Instances, k <= last,
         NEW d, inst' = [inst EXCEPT ![k] = d], NEW from, NEW to, Io(k, "init", from, to),
         \/ Alive(inst[k], from) /\ (Alive(d, to) \/ Down(d, to))
         \/ Down(inst[k], from) /\ (Down(d, to) \/ Over(d, to)),
         UNCHANGED <<present, last, req, reported>>
  PROVE  PlainInv'
<1>1. io[k]["init"] = from /\ io'[k]["init"] = to /\ \A i \in Instances \ {k} : io'[i] = io[i]
  BY DEF Io, Inv, Types
<1>2. inst'[k] = d /\ \A i \in Instances \ {k} : inst'[i] = inst[i] BY DEF Inv, Types
<1>3. Moves(inst[k], io[k]["init"], inst'[k], io'[k]["init"]) BY <1>1, <1>2, ZenonT(40) DEF Moves
<1>4. ~IsReady(k) BY <1>1, Phases, ZenonT(40) DEF IsReady
<1>5. GoOn BY ZenonT(40) DEF GoOn
<1> QED BY <1>1, <1>2, <1>3, <1>4, <1>5, MoveInv, ZenonT(40)

\* The phase is read off where the exit task is.
LEMMA IoPhase ==
  ASSUME Inv, PlainInv, NEW k \in Instances, io[k]["init"] \notin {"none", "done"}
  PROVE  /\ k <= last /\ present = k
         /\ Alive(inst[k], io[k]["init"]) \/ Down(inst[k], io[k]["init"])
         /\ io[k]["init"] \in {"io", "wait", "lookup", "inner"} <=> Alive(inst[k], io[k]["init"])
<1>1. Life(k) BY DEF PlainInv
<1> QED BY <1>1, ZenonT(40) DEF Life, Fresh, Ready, Alive, Down, Over

\* Until run_io_wait has its lock, the instance is up and in the map.
LEMMA PlainIoWait ==
  ASSUME PlainClient, Inv, PlainInv, NEW k \in Instances,
         IoEnds(k, "init") \/ WaitProcess(k, "init") \/ IoLookup(k, "init")
  PROVE  PlainInv'
<1>1. PICK from \in {"io", "wait", "lookup"} :
        io[k]["init"] = from
  BY DEF IoEnds, WaitProcess, IoLookup, Io, IoReturn
<1>2. k <= last /\ present = k /\ Alive(inst[k], from) /\ k # 0 BY <1>1, IoPhase, InstNat, ZenonT(40)
<1>3. inst[k].guest["init"] # "removed" BY <1>2, ZenonT(40) DEF Alive
<1>4. /\ UNCHANGED <<present, last, inst, req, reported>>
      /\ \E to \in {"wait", "lookup", "inner"} : Io(k, "init", from, to)
  BY <1>1, <1>2, <1>3 DEF IoEnds, WaitProcess, IoLookup, Io, PlainClient
<1>5. PICK to \in {"wait", "lookup", "inner"} : Io(k, "init", from, to) BY <1>4
<1>6. inst' = [inst EXCEPT ![k] = inst[k]] BY <1>4 DEF Inv, Types
<1>7. Alive(inst[k], to) BY <1>2, Zenon DEF Alive
<1> QED BY <1>2, <1>4, <1>5, <1>6, <1>7, IoMoves, ZenonT(40)

\* The stop releases everything.
LEMMA PlainIoStop ==
  ASSUME PlainClient, Inv, PlainInv, NEW k \in Instances, IoStop(k, "init")
  PROVE  PlainInv'
<1> DEFINE c == inst[k]
           pr == [c.procs["init"] EXCEPT !.status = "Stopped"]
           ps == [c.procs EXCEPT !["init"] = pr]
           gs == [q \in Procs |-> "removed"]
           e == [c EXCEPT !.procs = ps, !.guest = gs, !.cleanups = @ + 1, !.fs = "released"]
           d == [e EXCEPT !.share = FALSE]
<1>1. Io(k, "init", "inner", "code") /\ UNCHANGED <<present, last, req, reported>>
  BY DEF IoStop
<1>2. k <= last /\ present = k /\ Alive(c, "inner") /\ c \in InstType
  BY <1>1, IoPhase DEF Io, Inv, Types
<1>3. c.procs["init"] \in ProcType /\ c.procs["init"].status = "Running" /\ c.procs["init"].tx = "task"
  BY <1>2 DEF Alive, InstType
<1>4. \A x \in StopAndRelease(c, "init") : x = d
  <2>1. ASSUME NEW x \in stop_process(c, "init") PROVE x = e
    <3>1. PICK fs \in {"released"} :
            x = [c EXCEPT !.procs["init"].status = "Stopped", !.guest = [q \in Procs |-> "removed"],
                          !.cleanups = @ + 1, !.fs = fs]
      BY <1>3 DEF stop_process, PlainClient
    <3>2. fs = "released" OBVIOUS
    <3> QED BY <3>1, <3>2
  <2> HIDE DEF e
  <2>2. ASSUME NEW x \in StopAndRelease(c, "init") PROVE x = d
    <3>1. PICK y \in stop_process(c, "init") : x = [y EXCEPT !.share = FALSE]
      BY <1>3 DEF StopAndRelease
    <3> QED BY <2>1, <3>1, Zenon
  <2> QED BY <2>2
<1>5. inst' = [inst EXCEPT ![k] = d]
  <2> HIDE DEF c, d
  <2>1. \E x \in StopAndRelease(inst[present], "init") : inst' = [inst EXCEPT ![present] = x]
    BY Zenon DEF IoStop
  <2> QED BY <1>2, <1>4, <2>1, Zenon DEF c
<1>6. pr.status = "Stopped" /\ pr.tx = "task" BY <1>3 DEF ProcType
<1> HIDE DEF pr
<1>7. ps["init"] = pr BY <1>2 DEF InstType
<1> HIDE DEF ps, gs
<1>8. d.procs = ps /\ d.fs = "released" /\ d.share = FALSE BY <1>2 DEF InstType
<1> HIDE DEF d
<1>9. Down(d, "code") BY <1>6, <1>7, <1>8 DEF Down
<1> QED BY <1>1, <1>2, <1>5, <1>9, IoMoves, ZenonT(40)

\* The exit code is recorded.
LEMMA PlainIoCode ==
  ASSUME PlainClient, Inv, PlainInv, NEW k \in Instances, IoExitCode(k, "init")
  PROVE  PlainInv'
<1> DEFINE c == inst[k]
           pr == [c.procs["init"] EXCEPT !.exit_code = "exited"]
           ps == [c.procs EXCEPT !["init"] = pr]
           d == [c EXCEPT !.procs = ps]
<1>1. /\ Io(k, "init", "code", "status") /\ UNCHANGED <<present, last, req, reported>>
      /\ inst' = [inst EXCEPT ![k] = d]
  BY DEF IoExitCode
<1>2. k <= last /\ Down(c, "code") /\ c \in InstType
  BY <1>1, IoPhase, ZenonT(40) DEF Io, Inv, Types, Alive
<1>3. c.procs["init"] \in ProcType BY <1>2 DEF InstType
<1>4. /\ pr.status = c.procs["init"].status /\ pr.tx = c.procs["init"].tx
      /\ pr.exit_code = "exited"
  BY <1>3 DEF ProcType
<1> HIDE DEF pr
<1>5. ps["init"] = pr BY <1>2 DEF InstType
<1> HIDE DEF ps
<1>6. d.procs = ps /\ d.fs = c.fs /\ d.share = c.share BY <1>2 DEF InstType
<1> HIDE DEF d
<1>7. Down(d, "status") BY <1>2, <1>4, <1>5, <1>6 DEF Down
<1> QED BY <1>1, <1>2, <1>7, IoMoves, ZenonT(40)

\* The status is set and the sender dropped: the instance is over.
LEMMA PlainIoStatus ==
  ASSUME PlainClient, Inv, PlainInv, NEW k \in Instances, IoStatus(k, "init")
  PROVE  PlainInv'
<1> DEFINE c == inst[k]
           p1 == [c.procs["init"] EXCEPT !.status = "Stopped"]
           one == [c EXCEPT !.procs = [@ EXCEPT !["init"] = p1]]
           p2 == [one.procs["init"] EXCEPT !.tx = "closed"]
           two == [one EXCEPT !.procs = [@ EXCEPT !["init"] = p2]]
           a == [inst EXCEPT ![k] = one]
<1>1. /\ Io(k, "init", "status", "done") /\ UNCHANGED <<present, last, req, reported>>
      /\ inst' = [a EXCEPT ![k].procs["init"].tx = "closed"]
  BY DEF IoStatus
<1>2. k <= last /\ Down(c, "status") /\ c \in InstType
  BY <1>1, IoPhase, ZenonT(40) DEF Io, Inv, Types, Alive
<1>3. c.procs["init"] \in ProcType BY <1>2 DEF InstType
<1>4. p1 \in ProcType /\ p1.status = "Stopped" /\ p1.exit_code = c.procs["init"].exit_code
  BY <1>3 DEF ProcType
<1>5. a[k] = one BY DEF Inv, Types
<1>6. inst' = [inst EXCEPT ![k] = two]
  <2>1. inst' = [a EXCEPT ![k] = two]
    <3> HIDE DEF one, a
    <3>1. inst' = [a EXCEPT ![k] = [a[k] EXCEPT !.procs["init"].tx = "closed"]] BY <1>1
    <3> QED BY <1>5, <3>1
  <2> HIDE DEF two, one
  <2> QED BY <2>1, ZenonT(40) DEF Inv, Types
<1> HIDE DEF p1, a
<1>7. /\ one \in InstType /\ one.procs["init"] = p1
      /\ one.fs = c.fs /\ one.share = c.share
  BY <1>2, <1>4 DEF InstType
<1> HIDE DEF one
<1>8. /\ p2 \in ProcType /\ p2.tx = "closed" /\ p2.status = "Stopped"
      /\ p2.exit_code = c.procs["init"].exit_code
  BY <1>4, <1>7 DEF ProcType
<1> HIDE DEF p2
<1>9. two.procs["init"] = p2 /\ two.fs = c.fs /\ two.share = c.share
  BY <1>7, <1>8 DEF InstType
<1> HIDE DEF two
<1>10. Over(two, "done") BY <1>2, <1>8, <1>9 DEF Down, Over
<1> QED BY <1>1, <1>2, <1>6, <1>10, IoMoves, ZenonT(40)

\* The end of stdin changes no phase.
LEMMA PlainStdin ==
  ASSUME PlainClient, Inv, PlainInv, NEW k \in Instances, StdinEnds(k, "init")
  PROVE  PlainInv'
<1> DEFINE c == inst[k]
           s == io[k]["init"]
           pr == [c.procs["init"] EXCEPT !.stdin = "ended"]
           ps == [c.procs EXCEPT !["init"] = pr]
           d == [c EXCEPT !.procs = ps]
<1>1. /\ UNCHANGED <<present, last, io, req, reported>> /\ inst' = [inst EXCEPT ![k] = d]
      /\ c.procs["init"].stdin = "copying"
  BY DEF StdinEnds
<1>2. c \in InstType /\ c.procs["init"] \in ProcType BY DEF Inv, Types, InstType
<1>3. /\ pr.status = c.procs["init"].status /\ pr.tx = c.procs["init"].tx
      /\ pr.exit_code = c.procs["init"].exit_code /\ pr.here = c.procs["init"].here
  BY <1>2 DEF ProcType
<1> HIDE DEF pr
<1>4. ps["init"] = pr BY <1>2 DEF InstType
<1> HIDE DEF ps
<1>5. d.procs = ps /\ d.guest = c.guest /\ d.fs = c.fs /\ d.share = c.share BY <1>2 DEF InstType
<1> HIDE DEF d
<1>6. /\ Ready(c, s) => Ready(d, s)
      /\ Alive(c, s) => Alive(d, s)
      /\ Down(c, s) => Down(d, s)
      /\ Over(c, s) => Over(d, s)
  BY <1>3, <1>4, <1>5, ZenonT(40) DEF Ready, Alive, Down, Over
<1>7. inst'[k] = d /\ \A i \in Instances \ {k} : inst'[i] = inst[i] BY <1>1, ZenonT(40) DEF Inv, Types
<1>8. k <= last /\ (Ready(c, s) \/ Alive(c, s) \/ Down(c, s) \/ Over(c, s))
  <2>1. NoInstance.procs["init"].stdin = "none" BY DEF NoInstance, NoProcess
  <2>2. Life(k) BY DEF PlainInv
  <2> QED BY <1>1, <2>1, <2>2, ZenonT(40) DEF Life, Fresh
<1>9. Moves(inst[k], io[k]["init"], inst'[k], io'[k]["init"])
  BY <1>1, <1>6, <1>7, <1>8, ZenonT(40) DEF Moves
<1>10. IsReady(k) => IsReady(k)' BY <1>1, <1>6, <1>7, ZenonT(40) DEF IsReady
<1>11. GoOn BY <1>1 DEF GoOn
<1> QED BY <1>1, <1>7, <1>8, <1>9, <1>10, <1>11, MoveInv, ZenonT(40)

\* The steps of a request; such a client makes no exec, pause, resume or update.
LEMMA PlainTask ==
  ASSUME PlainClient, Inv, PlainInv, NEW t \in Tasks, TaskStep(t)
  PROVE  PlainInv'
<1>1. /\ req[t].op \notin {"exec", "pause", "resume", "update"}
      /\ req[t].op = "delete" => req[t].pc = "containers"
  BY DEF Inv, Types, ReqType, PlainClient, PlainInv, Relies
<1>2. ~exec_process(t) /\ ~delete_exec_process(t) /\ ~EndPause(t) /\ ~EndResume(t) /\ ~EndUpdate(t)
  BY <1>1, ZenonT(40) DEF exec_process, delete_exec_process, AtInner, EndPause, EndResume,
      EndUpdate, EndCall
<1>3. CASE EndCloseIo(t) BY <1>3, PlainReturn, ZenonT(40) DEF EndCloseIo, EndCall
<1> QED BY <1>2, <1>3, PlainBeginCreate, PlainEndCreate, PlainDelete, PlainLookup, PlainWatch,
           PlainBeginCall, PlainEndStart, PlainKill, PlainEndWait DEF TaskStep

\* The steps of run_io_wait, of the guest and of stdin.
LEMMA PlainIo ==
  ASSUME PlainClient, Inv, PlainInv, NEW i \in Instances, NEW p \in Procs,
         IoStep(i, p) \/ GuestExits(i, p) \/ StdinEnds(i, p)
  PROVE  PlainInv'
<1>1. p = "init" BY DEF PlainClient
<1>2. CASE GuestExits(i, p)
  <2>1. GoOn BY <1>2 DEF GoOn, GuestExits
  <2> QED BY <1>1, <1>2, <2>1, ExitMoves, Zenon DEF GuestExits
<1>3. CASE StdinEnds(i, p) BY <1>1, <1>3, PlainStdin
<1>4. CASE IoStep(i, p)
  BY <1>1, <1>4, PlainIoWait, PlainIoStop, PlainIoCode, PlainIoStatus DEF IoStep
<1> QED BY <1>2, <1>3, <1>4

\* A step that changes nothing.
LEMMA PlainStutters ==
  ASSUME PlainInv, UNCHANGED vars
  PROVE  PlainInv'
<1>1. UNCHANGED <<present, last, inst, io, req, reported>> BY DEF vars
<1>2. ASSUME NEW i \in Instances PROVE Life(i)'
  BY <1>1, ZenonT(40) DEF PlainInv, Life, Created
<1>3. ASSUME NEW t \in Tasks PROVE Relies(t)'
  BY <1>1, ZenonT(40) DEF PlainInv, Relies, IsReady, IsOver, Born
<1> QED BY <1>1, <1>2, <1>3, ZenonT(40) DEF PlainInv, IsOver

\* Initially no instance has been created.
LEMMA PlainInit ==
  ASSUME PlainClient, Init
  PROVE  PlainInv
<1>1. ASSUME NEW i \in Instances PROVE Life(i)
  BY InstNat DEF Init, Life, PlainClient
<1>2. ASSUME NEW t \in Tasks PROVE Relies(t) /\ req[t].op = "none"
  BY IdleType DEF Init, Relies
<1> QED BY <1>1, <1>2 DEF PlainInv, Init

\* The life of an instance, for a client that does not use execs and an agent that does
\* not fail: an instance goes through its phases in order, and a request in flight finds
\* the one in the map in the phase it was in when the client asked.
THEOREM ManagerLifeInv == PlainClient => (Spec => []PlainInv)
<1> SUFFICES ASSUME PlainClient PROVE Spec => []PlainInv OBVIOUS
<1>1. Init => PlainInv BY PlainInit
<1>2. Inv /\ PlainInv /\ [Next]_vars => PlainInv'
  BY PlainAsk, PlainTask, PlainIo, PlainStutters DEF Next
<1> QED BY <1>1, <1>2, ManagerInv, PTL DEF Spec

\* With such a client and agent, run_io_wait, which looks its container up by id, stops the
\* instance it was started for and no later one of that id.
THEOREM ManagerStopsOwn == PlainClient => (Spec => []StopsOwnInstance)
<1> SUFFICES ASSUME PlainClient PROVE Spec => []StopsOwnInstance OBVIOUS
<1>1. Spec => []PlainInv BY ManagerLifeInv
<1> QED BY <1>1, ManagerInv, PlainImplies, PTL

\* With such a client and agent, a container whose exit a wait has reported has its exit
\* code, is stopped, and has given back its volumes, rootfs and share.
THEOREM ManagerReported == PlainClient => (Spec => []ReportedIsCleaned)
<1> SUFFICES ASSUME PlainClient PROVE Spec => []ReportedIsCleaned OBVIOUS
<1>1. Spec => []PlainInv BY ManagerLifeInv
<1> QED BY <1>1, ManagerInv, PlainImplies, PTL

\* With such a client and agent, no instance that has left the map, or never came into it,
\* holds volumes or a rootfs.
THEOREM ManagerNothingLeaks == PlainClient => (Spec => []NothingLeaks)
<1> SUFFICES ASSUME PlainClient PROVE Spec => []NothingLeaks OBVIOUS
<1>1. Spec => []PlainInv BY ManagerLifeInv
<1> QED BY <1>1, ManagerInv, PlainImplies, PTL
=============================================================================
