----------------------------- MODULE VcpuThread -----------------------------
(***************************************************************************)
(* The thread of one vCPU (vcpu/vcpu_impl.rs): a state machine that is     *)
(* told what to do over a channel and kicked out of KVM_RUN by a signal,   *)
(* whose handler sets the immediate_exit flag of the vCPU.                 *)
(***************************************************************************)
EXTENDS Naturals, Sequences

\* st      the state handler that runs: "paused", "waiting_exit", "exited", or "guest",
\*         "intr" and "poll", which are places in running: in KVM_RUN, back with
\*         EINTR, and before the channel is read; "off" without a thread
\* events  the channel to the thread: "Gettid", "Resume" and "Exit"
\* sig     kick signals sent and not delivered
\* imm     kvm_run.immediate_exit
\* tid     the thread has answered Gettid
Off == [st |-> "off", events |-> <<>>, sig |-> 0, imm |-> FALSE, tid |-> FALSE]

\* The thread starts in the paused state.
start_threaded(v) == [Off EXCEPT !.st = "paused"]

\* The message goes into the channel before the signal is sent.
send_event(v, e) == [v EXCEPT !.events = Append(@, e), !.sig = @ + 1]

handle_signal(v) ==
  {[v EXCEPT !.sig = @ - 1, !.imm = TRUE] : x \in {n \in {v.sig} : n > 0}}

Take(v) == [v EXCEPT !.events = Tail(@)]

\* What an event does to a thread that is in the state st.
OnEvent(v, st) ==
  LET e == Head(v.events) IN
  CASE e = "Exit"   -> [Take(v) EXCEPT !.st = "exited"]
    [] e = "Resume" -> [Take(v) EXCEPT !.st = "guest"]
    [] e = "Gettid" -> [Take(v) EXCEPT !.st = st, !.tid = TRUE]

\* Bug: the flag is cleared after the channel was read.
running_ClearsLate(v) ==
  CASE v.st = "guest" -> (IF v.imm THEN {[v EXCEPT !.st = "intr"]} ELSE {})
                         \cup {[v EXCEPT !.st = "waiting_exit"]}
    [] v.st = "intr" -> {IF v.events = <<>> THEN [v EXCEPT !.st = "poll"] ELSE OnEvent(v, "poll")}
    [] v.st = "poll" -> {[v EXCEPT !.st = "guest", !.imm = FALSE]}
    [] OTHER -> {}

\* KVM_RUN returns with EINTR, the flag is cleared, and one event is taken. KVM_RUN
\* may also return because the guest stopped or failed.
running(v) ==
  CASE v.st = "guest" -> (IF v.imm THEN {[v EXCEPT !.st = "intr"]} ELSE {})
                         \cup {[v EXCEPT !.st = "waiting_exit"]}
    [] v.st = "intr" -> {[v EXCEPT !.st = "poll", !.imm = FALSE]}
    [] v.st = "poll" -> {IF v.events = <<>> THEN [v EXCEPT !.st = "guest"] ELSE OnEvent(v, "guest")}
    [] OTHER -> {}

paused(v) ==
  IF v.st = "paused" /\ v.events # <<>> THEN {OnEvent(v, "paused")} ELSE {}

\* Everything but Exit is discarded.
waiting_exit(v) ==
  IF v.st # "waiting_exit" \/ v.events = <<>> THEN {}
  ELSE {IF Head(v.events) = "Exit" THEN OnEvent(v, v.st) ELSE Take(v)}

\* The steps of the thread that it takes without the guest stopping.
Progress(v) == {w \in running(v) : w.st # "waiting_exit"} \cup paused(v) \cup waiting_exit(v)
=============================================================================
