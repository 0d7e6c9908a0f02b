---------------------------- MODULE AgentProcess ----------------------------
(***************************************************************************)
(* The processes of a container in the agent: the requests that create,    *)
(* start, exec, wait for, pause, signal and remove (agent/src/rpc.rs), the *)
(* handshake with a new process over two pipes (rustjail/src/container.rs),*)
(* the exec fifo, hooks, and the reaper of SIGCHLD (agent/src/signal.rs).  *)
(*                                                                         *)
(* The requests hold the lock of the sandbox while they talk to the new    *)
(* process; op is the request that holds it. A process may die at any time.*)
(***************************************************************************)
EXTENDS Naturals, Sequences, FiniteSets, TLC

CONSTANTS
  Execs,    \* exec processes, each started at most once
  Waiters   \* WaitProcess requests, each made at most once

ASSUME ExecsAssumption == {"init", "none"} \cap Execs = {}

Procs == {"init"} \cup Execs

VARIABLES
  op,     \* the request holding the lock: [kind, p, at], kind "none" when it is free
  ctr,    \* the container: [status, known, started, frozen]
  proc,   \* per process: [k, at, up, down, reg, code]
  hook,   \* the hook being run: "none", "run", "zombie" or "reaped"
  reap,   \* the process whose status the reaper has in hand, or "none"
  wait,   \* per waiter: [pc, p, res]
  sig     \* a signal to all processes has frozen the cgroup and has yet to thaw it

vars == <<op, ctr, proc, hook, reap, wait, sig>>

None == [kind |-> "none", p |-> "init", at |-> 0]

\* k     "none"; "setup" before exec; "ready" after the last message and "fifo" when
\*       it waits at the fifo (init only); "run"; "zombie"; "gone"
\* at    the step of ChildScript the process is at
\* up    messages from the child, [n, closed]: closed after SYNC_FAILED or the end of
\*       the writer
\* down  messages to the child
\* reg   in ctr.processes;  code: the exit code was recorded and exit_tx dropped
NoProc == [k |-> "none", at |-> 1, up |-> [n |-> 0, closed |-> FALSE], down |-> 0,
           reg |-> FALSE, code |-> FALSE]

Init ==
  /\ op = None
  /\ ctr = [status |-> "none", known |-> FALSE, started |-> FALSE, frozen |-> FALSE]
  /\ proc = [p \in Procs |-> NoProc]
  /\ hook = "none"
  /\ reap = "none"
  /\ wait = [w \in Waiters |-> [pc |-> "idle", p |-> "init", res |-> "none"]]
  /\ sig = FALSE

Free == op.kind = "none"
Alive(p) == proc[p].k \in {"setup", "ready", "fifo", "run"}

-----------------------------------------------------------------------------
\* The two ends of the handshake. The pid is sent by the temporary process; then the
\* spec, the process, the state and the cgroup manager are acknowledged one by one.
ParentScript(p) ==
  <<"recv", "send", "recv", "send", "recv", "send", "recv", "send", "recv",
    "cgroup", "send">>
  \o (IF p = "init" THEN <<"recv", "hook", "send">> ELSE <<>>) \o <<"recv">>

\* Bug: the child does not wait before it sets up its root file system.
ChildScript_NoWait(p) ==
  <<"send", "recv", "send", "recv", "send", "recv", "send", "recv",
    "namespaces", "send", "rootfs", "recv">>
  \o (IF p = "init" THEN <<"send", "recv">> ELSE <<>>) \o <<"execfile", "send">>

ChildScript(p) ==
  <<"send", "recv", "send", "recv", "send", "recv", "send", "recv",
    "namespaces", "send", "recv", "rootfs">>
  \o (IF p = "init" THEN <<"send", "recv">> ELSE <<>>) \o <<"execfile", "send">>

Step(p) == IF proc[p].at <= Len(ChildScript(p)) THEN ChildScript(p)[proc[p].at] ELSE "end"
Passed(p, s) == \E i \in 1 .. proc[p].at - 1 : ChildScript(p)[i] = s

\* The parent has put the process into its cgroup, where it can be frozen.
InCgroup(p) ==
  op.kind \in {"create", "exec"} /\ op.p = p =>
    \E i \in 1 .. op.at - 1 : ParentScript(p)[i] = "cgroup"

\* Bug: the parent keeps its copy of the end the child writes to.
Dead_PipeKept(q) == [q EXCEPT !.k = "zombie"]

\* A process becomes a zombie, and its end of the pipe is closed.
Dead(q) == [q EXCEPT !.k = "zombie", !.up.closed = TRUE]

\* do_init_child, one step of its script. A step that fails reports this and ends the
\* process; so does a read without a writer.
ChildStep(p) ==
  /\ proc[p].k = "setup" /\ ~(ctr.frozen /\ InCgroup(p))
  /\ \/ /\ Step(p) = "send"
        /\ proc' = [proc EXCEPT ![p].at = @ + 1, ![p].up.n = @ + 1]
     \/ /\ Step(p) = "recv" /\ proc[p].down > 0
        /\ proc' = [proc EXCEPT ![p].at = @ + 1, ![p].down = @ - 1]
     \/ /\ Step(p) = "recv" /\ proc[p].down = 0
        /\ ~(op.kind \in {"create", "exec"} /\ op.p = p)
        /\ proc' = [proc EXCEPT ![p] = Dead(@)]
     \/ /\ Step(p) \in {"namespaces", "rootfs", "execfile"}
        /\ \/ proc' = [proc EXCEPT ![p].at = @ + 1]
           \/ proc' = [proc EXCEPT ![p] = Dead(@)]
     \/ /\ Step(p) = "end"
        /\ proc' = [proc EXCEPT ![p].k = IF p = "init" THEN "ready" ELSE "run",
                                ![p].up.closed = TRUE]
  /\ UNCHANGED <<op, ctr, hook, reap, wait, sig>>

\* The init process enters the open of the fifo.
ChildOpensFifo ==
  /\ proc["init"].k = "ready" /\ ~ctr.frozen
  /\ proc' = [proc EXCEPT !["init"].k = "fifo"]
  /\ UNCHANGED <<op, ctr, hook, reap, wait, sig>>

\* A process exits, crashes or is killed.
ProcDies(p) ==
  /\ Alive(p)
  /\ proc' = [proc EXCEPT ![p] = Dead(@)]
  /\ UNCHANGED <<op, ctr, hook, reap, wait, sig>>

-----------------------------------------------------------------------------
\* The locked part of do_create_container, and do_exec_process, spawn the process.
do_create_container ==
  /\ Free /\ ctr.status = "none" /\ proc["init"].k = "none"
  /\ op' = [kind |-> "create", p |-> "init", at |-> 1]
  /\ proc' = [proc EXCEPT !["init"].k = "setup"]
  /\ UNCHANGED <<ctr, hook, reap, wait, sig>>

do_exec_process(p) ==
  /\ Free /\ ctr.known /\ proc[p].k = "none"
  /\ op' = [kind |-> "exec", p |-> p, at |-> 1]
  /\ proc' = [proc EXCEPT ![p].k = "setup"]
  /\ UNCHANGED <<ctr, hook, reap, wait, sig>>

\* The request fails: the child is killed, the lock released.
StartFails ==
  /\ proc' = [proc EXCEPT ![op.p] = IF Alive(op.p) THEN Dead(@) ELSE @]
  /\ op' = None
  /\ UNCHANGED ctr

\* LinuxContainer::start and join_namespaces, one step of the script. At its end the
\* process is registered.
ParentStep ==
  LET p == op.p
      s == ParentScript(p)
      step == s[op.at]
      next == [op EXCEPT !.at = @ + 1]
  IN /\ op.kind \in {"create", "exec"}
     /\ \/ /\ op.at < Len(s) \/ step # "recv"
           /\ \/ step = "recv" /\ proc[p].up.n > 0
                 /\ proc' = [proc EXCEPT ![p].up.n = @ - 1] /\ op' = next
              \/ step = "send" /\ proc' = [proc EXCEPT ![p].down = @ + 1] /\ op' = next
              \/ step = "cgroup" /\ op' = next /\ UNCHANGED proc
           /\ UNCHANGED ctr
        \/ /\ step = "recv" /\ proc[p].up.n = 0 /\ proc[p].up.closed
           /\ StartFails
        \/ /\ step = "cgroup"
           /\ StartFails
        \/ /\ op.at = Len(s) /\ proc[p].up.n > 0
           /\ proc' = [proc EXCEPT ![p].up.n = @ - 1, ![p].reg = TRUE]
           /\ op' = None
           /\ ctr' = IF p = "init" THEN [ctr EXCEPT !.status = "Created", !.known = TRUE] ELSE ctr
     /\ UNCHANGED <<hook, reap, wait, sig>>

\* execute_hook: the hook is spawned, and its status awaited. The reaper may have it
\* already; in either case the request goes on.
RunHook ==
  /\ op.kind = "create" /\ ParentScript(op.p)[op.at] = "hook"
  /\ \/ hook = "none" /\ hook' = "run" /\ UNCHANGED op
     \/ hook \in {"zombie", "reaped"}
        /\ hook' = "none"
        /\ op' = [op EXCEPT !.at = @ + 1]
  /\ UNCHANGED <<ctr, proc, reap, wait, sig>>

HookExits ==
  /\ hook = "run"
  /\ hook' = "zombie"
  /\ UNCHANGED <<op, ctr, proc, reap, wait, sig>>

\* do_start_container takes the lock and opens the fifo, which waits for a reader.
do_start_container ==
  /\ Free /\ ctr.known /\ ~ctr.started /\ ctr.status # "Stopped"
  /\ op' = [kind |-> "start", p |-> "init", at |-> 1]
  /\ ctr' = [ctr EXCEPT !.started = TRUE]
  /\ UNCHANGED <<proc, hook, reap, wait, sig>>

StartWrites ==
  /\ op.kind = "start" /\ proc["init"].k = "fifo"
  /\ proc' = [proc EXCEPT !["init"].k = "run"]
  /\ ctr' = [ctr EXCEPT !.status = "Running"]
  /\ op' = None
  /\ UNCHANGED <<hook, reap, wait, sig>>

\* pause_container and resume_container.
Pause ==
  /\ Free /\ ctr.known /\ ctr.status \in {"Created", "Running"}
  /\ ctr' = [ctr EXCEPT !.status = "Paused", !.frozen = TRUE]
  /\ UNCHANGED <<op, proc, hook, reap, wait, sig>>

Resume ==
  /\ Free /\ ctr.known /\ ctr.status = "Paused"
  /\ ctr' = [ctr EXCEPT !.status = "Running", !.frozen = FALSE]
  /\ UNCHANGED <<op, proc, hook, reap, wait, sig>>

\* do_signal_process to all processes: the cgroup is frozen, signalled and thawed,
\* each under a lock of its own.
do_signal_process ==
  /\ Free
  /\ \/ /\ ~sig /\ ctr.known
        /\ ctr' = [ctr EXCEPT !.frozen = TRUE] /\ sig' = TRUE
     \/ /\ sig
        /\ ctr' = IF ctr.known THEN [ctr EXCEPT !.frozen = FALSE] ELSE ctr
        /\ sig' = FALSE
  /\ UNCHANGED <<op, proc, hook, reap, wait>>

\* do_remove_container: the processes are sent SIGKILL. If a later step fails the
\* container stays, else it is forgotten with its processes.
do_remove_container ==
  /\ Free /\ ctr.known
  /\ \E K \in SUBSET {p \in Procs : proc[p].reg /\ Alive(p)} :
       LET killed == [p \in Procs |-> IF p \in K THEN Dead(proc[p]) ELSE proc[p]]
       IN \/ /\ ctr' \in {ctr, [ctr EXCEPT !.status = "Stopped"]}
             /\ proc' = killed
          \/ /\ ctr' = [ctr EXCEPT !.status = "Stopped", !.known = FALSE]
             /\ proc' = [p \in Procs |-> [killed[p] EXCEPT !.reg = FALSE]]
  /\ UNCHANGED <<op, hook, reap, wait, sig>>

-----------------------------------------------------------------------------
\* handle_sigchild: waitpid for any child, then the lock of the sandbox.
Waitpid ==
  /\ reap = "none"
  /\ \/ \E p \in Procs : /\ proc[p].k = "zombie"
                         /\ proc' = [proc EXCEPT ![p].k = "gone"]
                         /\ reap' = p
                         /\ UNCHANGED hook
     \/ /\ hook = "zombie"
        /\ hook' = "reaped"
        /\ UNCHANGED <<proc, reap>>
  /\ UNCHANGED <<op, ctr, wait, sig>>

\* Bug: the reaper looks for the process without waiting for the lock.
find_process_Unlocked ==
  /\ reap # "none"
  /\ proc' = [proc EXCEPT ![reap].code = @ \/ proc[reap].reg]
  /\ reap' = "none"
  /\ UNCHANGED <<op, ctr, hook, wait, sig>>

\* The status is recorded if the process is known.
find_process ==
  /\ Free /\ reap # "none"
  /\ proc' = [proc EXCEPT ![reap].code = @ \/ proc[reap].reg]
  /\ reap' = "none"
  /\ UNCHANGED <<op, ctr, hook, wait, sig>>

\* do_wait_process: the waiter leaves a channel with the process.
WaitRegister(w) ==
  /\ Free /\ wait[w].pc = "idle"
  /\ \E p \in Procs : /\ ctr.known /\ proc[p].reg
                      /\ wait' = [wait EXCEPT ![w].pc = "rx", ![w].p = p]
  /\ UNCHANGED <<op, ctr, proc, hook, reap, sig>>

\* Bug: a waiter is not woken when the process is dropped before it was reaped.
WaitWakes_CodeOnly(w) ==
  /\ wait[w].pc = "rx"
  /\ proc[wait[w].p].code
  /\ wait' = [wait EXCEPT ![w].pc = "lock"]
  /\ UNCHANGED <<op, ctr, proc, hook, reap, sig>>

\* exit_tx is gone: dropped by the reaper, or with the process.
WaitWakes(w) ==
  /\ wait[w].pc = "rx"
  /\ proc[wait[w].p].code \/ ~proc[wait[w].p].reg
  /\ wait' = [wait EXCEPT ![w].pc = "lock"]
  /\ UNCHANGED <<op, ctr, proc, hook, reap, sig>>

\* Bug: the exit code is not sent to the other waiters.
WaitCollects_NoBroadcast(w) ==
  LET p == wait[w].p IN
  /\ Free /\ wait[w].pc = "lock"
  /\ IF ~ctr.known THEN wait' = [wait EXCEPT ![w].pc = "end", ![w].res = "error"] /\ UNCHANGED proc
     ELSE IF ~proc[p].reg
     THEN /\ wait' = [wait EXCEPT ![w].pc = "end", ![w].res = IF @ = "none" THEN "error" ELSE @]
          /\ UNCHANGED proc
     ELSE /\ wait' = [wait EXCEPT ![w].pc = "end", ![w].res = "code"]
          /\ proc' = [proc EXCEPT ![p].reg = FALSE]
  /\ UNCHANGED <<op, ctr, hook, reap, sig>>

\* The first waiter that gets the lock sends the code to all that left a channel, and
\* forgets the process; the others take what they were sent.
WaitCollects(w) ==
  LET p == wait[w].p
      others == {v \in Waiters : wait[v].pc \in {"rx", "lock"} /\ wait[v].p = p}
  IN /\ Free /\ wait[w].pc = "lock"
     /\ IF ~ctr.known
        THEN wait' = [wait EXCEPT ![w].pc = "end", ![w].res = "error"] /\ UNCHANGED proc
        ELSE IF ~proc[p].reg
        THEN /\ wait' = [wait EXCEPT ![w].pc = "end", ![w].res = IF @ = "none" THEN "error" ELSE @]
             /\ UNCHANGED proc
        ELSE /\ wait' = [v \in Waiters |->
                  IF v = w THEN [wait[v] EXCEPT !.pc = "end", !.res = "code"]
                  ELSE IF v \in others THEN [wait[v] EXCEPT !.res = "code"] ELSE wait[v]]
             /\ proc' = [proc EXCEPT ![p].reg = FALSE]
     /\ UNCHANGED <<op, ctr, hook, reap, sig>>

-----------------------------------------------------------------------------
Requests ==
  \/ do_create_container \/ do_start_container
  \/ \E p \in Execs : do_exec_process(p)
  \/ Pause \/ Resume \/ do_signal_process \/ do_remove_container
  \/ \E w \in Waiters : WaitRegister(w)

Next ==
  \/ Requests
  \/ ParentStep \/ RunHook \/ HookExits \/ StartWrites
  \/ \E p \in Procs : ChildStep(p) \/ ProcDies(p)
  \/ ChildOpensFifo
  \/ Waitpid \/ find_process
  \/ \E w \in Waiters : WaitWakes(w) \/ WaitCollects(w)

Spec == Init /\ [][Next]_vars

\* Tasks and processes run, hooks end (they have a timeout), and a signal that has
\* frozen the cgroup goes on. The lock is fair, so that each task that waits for it
\* gets it.
Fairness ==
  /\ WF_vars(ParentStep) /\ WF_vars(RunHook) /\ WF_vars(HookExits) /\ WF_vars(StartWrites)
  /\ \A p \in Procs : WF_vars(ChildStep(p))
  /\ WF_vars(ChildOpensFifo)
  /\ WF_vars(Waitpid) /\ SF_vars(find_process)
  /\ SF_vars(sig /\ do_signal_process)
  /\ \A w \in Waiters : WF_vars(WaitWakes(w)) /\ SF_vars(WaitCollects(w))

FairSpec == Spec /\ Fairness

-----------------------------------------------------------------------------
\* The two ends of the handshake stay in step: at most one message is on its way in
\* each pipe. The child sets up its root file system
\* only after the parent has put it into its cgroups, prestart hooks run between that
\* and the last checks, and a request that succeeded has a child that passed them.
InStep ==
  \A p \in Procs :
    /\ op.kind \in {"create", "exec"} /\ op.p = p /\ Passed(p, "rootfs") =>
         InCgroup(p)
    /\ op.kind = "create" /\ op.p = p /\ ParentScript(p)[op.at] = "hook" =>
         Passed(p, "rootfs") /\ ~Passed(p, "execfile")
    /\ proc[p].reg => Passed(p, "execfile")
    /\ proc[p].up.n <= 1 /\ proc[p].down <= 1

\* No exit is lost: a registered process that was reaped has its code recorded, or the
\* reaper is about to record it. The reaper may have the status of a process that
\* is still being registered.
ExitRecorded ==
  \A p \in Procs : proc[p].reg /\ proc[p].k = "gone" => proc[p].code \/ reap = p

\* A waiter fails only when the container is removed: of several waiters for a process
\* every one gets its code, whoever comes first.
WaitersGetCode ==
  \A w \in Waiters : wait[w].res = "error" => ~ctr.known

\* Where a request waits for ever with the lock: a start whose init process has died
\* or is frozen before it got to the fifo, and an exec into a frozen cgroup, be it
\* frozen by a pause or by a signal that cannot get the lock to thaw it.
Stuck ==
  \/ op.kind = "start" /\ proc["init"].k \notin {"ready", "fifo"}
  \/ op.kind = "start" /\ proc["init"].k = "ready" /\ ctr.frozen
  \/ op.kind = "exec" /\ ctr.frozen /\ proc[op.p].k = "setup" /\ InCgroup(op.p)

\* A waiter is answered once its process has died, unless a request is stuck.
WaitEnds ==
  \A w \in Waiters :
    wait[w].pc = "rx" /\ ~Alive(wait[w].p) ~> wait[w].pc = "end" \/ Stuck

\* Every request lets go of the lock, in every order of the two sides, whatever dies;
\* the exceptions are exactly those of Stuck.
LockReleased == op.kind # "none" ~> op.kind = "none" \/ Stuck
=============================================================================
