----------------------------- MODULE VcpuManager -----------------------------
(***************************************************************************)
(* Resizing the vCPUs of a running VM: the vCPU manager                    *)
(* (vcpu/vcpu_manager.rs) in the thread of the VMM, the threads of the     *)
(* vCPUs (VcpuThread), the client of the upcall server (UpcallClient), and *)
(* the guest at the other end of its stream.                               *)
(*                                                                         *)
(* Requests, stream events and timers are handled one at a time by the     *)
(* thread of the VMM. A handler that blocks, for the thread ids of new     *)
(* vCPUs or for threads to end, is split there: vmm says where it is.      *)
(***************************************************************************)
EXTENDS VcpuThread, UpcallClient, Integers, FiniteSets, Functions

CONSTANTS
  BootVcpus,   \* vcpu_config.boot_vcpu_count
  MaxVcpus,    \* vcpu_config.max_vcpu_count
  MaxBreaks,   \* bound: how often the stream breaks
  MaxOps       \* bound: requests to the VMM

ASSUME VcpuAssumption ==
  /\ BootVcpus \in Nat \ {0}
  /\ MaxVcpus \in Nat /\ MaxVcpus >= BootVcpus
  /\ SERVER_MAX_RECONNECT_TIME \in Nat
  /\ MaxBreaks \in Nat /\ MaxOps \in Nat

Vcpus == 0 .. MaxVcpus - 1

VARIABLES
  vcpu,    \* the threads
  handles, \* the vCPUs whose VcpuInfo has a handle: the present ones
  tids,    \* shared_info.tids, as vCPU numbers
  action,  \* vcpus_in_action: [kind, ids]
  rx,      \* the channel of VcpuStateEvents
  vmm,     \* where the thread of the VMM is: [pc, ids, then]
  client,  \* the upcall client
  guest,   \* the guest: [msg, online], msg what the stream will yield
  hist,    \* history, for the properties: [rolled, refused, unsure]
  ops, breaks

vars == <<vcpu, handles, tids, action, rx, vmm, client, guest, hist, ops, breaks>>
host == <<vcpu, handles, tids, action, rx, vmm>>

Idle == [pc |-> "idle", ids |-> <<>>, then |-> "none"]
NoAction == [kind |-> "None", ids |-> <<>>]

Init ==
  /\ vcpu = [c \in Vcpus |-> IF c < BootVcpus THEN [Off EXCEPT !.st = "guest"] ELSE Off]
  /\ handles = 0 .. BootVcpus - 1
  /\ tids = [i \in 1 .. BootVcpus |-> i - 1]
  /\ action = NoAction
  /\ rx = <<>>
  /\ vmm = Idle
  /\ client = NewClient
  /\ guest = [msg |-> "none", online |-> 0 .. BootVcpus - 1]
  /\ hist = [rolled |-> FALSE, refused |-> FALSE, unsure |-> {}]
  /\ ops = 0
  /\ breaks = 0

-----------------------------------------------------------------------------
SendAll(ids, e) ==
  vcpu' = [c \in Vcpus |-> IF c \in Range(ids) THEN send_event(vcpu[c], e) ELSE vcpu[c]]

\* The vCPUs of a set by increasing number, as a walk over vcpu_infos finds them.
Walk(S) == CHOOSE s \in Injection(1 .. Cardinality(S), S) :
             \A i, j \in DOMAIN s : i < j => s[i] < s[j]

\* The last n elements of a sequence, the last one first.
Backwards(s, n) == [i \in 1 .. n |-> s[Len(s) + 1 - i]]

\* Bug: the vCPUs to remove are taken from the low end.
calculate_removable_vcpus_LowFirst == Backwards(Walk(handles), Cardinality(handles))

\* The present vCPUs, by increasing number.
calculate_removable_vcpus == Walk(handles)

\* The lowest vCPUs that are not present, enough of them to have n.
calculate_available_vcpus(n) ==
  SubSeq(Walk(Vcpus \ handles), 1, n - Cardinality(handles))

\* The first half of exit_vcpus: each thread is told to exit, and the VMM waits for
\* them; then says what it does afterwards.
exit_vcpus(ids, then) ==
  /\ SendAll(ids, "Exit")
  /\ vmm' = [pc |-> "join", ids |-> ids, then |-> then]

\* The stream takes a request unless the other end is gone.
WriteOk == guest.msg # "bad"

\* A request to the guest, as send_upcall_action leaves it.
send_upcall_action(kind, ids) ==
  /\ WriteOk
  /\ client' = send_request(client, "cpu")
  /\ action' = [kind |-> kind, ids |-> ids]

\* Asks the bound for one more request.
Op == ops < MaxOps /\ ops' = ops + 1

\* Vm::resize_vcpu and resize_vcpu let a request through.
Accepts == vmm.pc = "idle" /\ is_ready(client) /\ action.kind = "None"

\* resize_vcpu to more vCPUs: the new threads are started, paused, and asked for
\* their thread id.
do_add_vcpu(n) ==
  LET ids == calculate_available_vcpus(n) IN
  /\ Op /\ Accepts
  /\ n > Cardinality(handles) /\ n <= MaxVcpus
  /\ handles' = handles \cup Range(ids)
  /\ vcpu' = [c \in Vcpus |-> IF c \in Range(ids)
                              THEN send_event(start_threaded(vcpu[c]), "Gettid") ELSE vcpu[c]]
  /\ vmm' = [pc |-> "tids", ids |-> ids, then |-> "none"]
  /\ UNCHANGED <<tids, action, rx, client, guest, hist, breaks>>

\* The rest of do_add_vcpu once every new thread has answered. If the request cannot
\* be written, the threads stay and nothing is recorded.
get_vcpus_tid ==
  /\ vmm.pc = "tids"
  /\ \A c \in Range(vmm.ids) : vcpu[c].tid
  /\ tids' = tids \o vmm.ids
  /\ SendAll(vmm.ids, "Resume")
  /\ vmm' = Idle
  /\ \/ send_upcall_action("Hotplug", vmm.ids)
     \/ ~WriteOk /\ UNCHANGED <<client, action>>
  /\ UNCHANGED <<handles, rx, guest, hist, ops, breaks>>

\* A thread has not answered within CPU_RECV_TIMEOUT_MS: the new threads are stopped.
VcpuGettidTimeout ==
  /\ vmm.pc = "tids"
  /\ \E c \in Range(vmm.ids) : ~vcpu[c].tid
  /\ exit_vcpus(vmm.ids, "rollback")
  /\ hist' = [hist EXCEPT !.rolled = TRUE]
  /\ UNCHANGED <<handles, tids, action, rx, client, guest, ops, breaks>>

\* resize_vcpu to fewer vCPUs, never to none: the guest is asked to give up the
\* highest ones.
do_del_vcpu(n) ==
  LET ids == Backwards(calculate_removable_vcpus, Cardinality(handles) - n) IN
  /\ Op /\ Accepts
  /\ n > 0 /\ n < Cardinality(handles)
  /\ send_upcall_action("Hotunplug", ids)
  /\ UNCHANGED <<vcpu, handles, tids, rx, vmm, guest, hist, breaks>>

\* Bug: the result of the event is ignored.
process_cpu_action_AnyResult ==
  /\ vmm.pc = "idle" /\ rx # <<>>
  /\ rx' = Tail(rx)
  /\ IF action.kind = "Hotunplug"
     THEN exit_vcpus(action.ids, "unplug") /\ UNCHANGED <<action, hist>>
     ELSE action' = NoAction /\ UNCHANGED <<vcpu, vmm, hist>>
  /\ UNCHANGED <<handles, tids, client, guest, ops, breaks>>

\* process_cpu_state_event with one event. A failure leaves the action in place.
process_cpu_action ==
  /\ vmm.pc = "idle" /\ rx # <<>>
  /\ rx' = Tail(rx)
  /\ IF Head(rx) = "Failed"
     THEN hist' = [hist EXCEPT !.refused = TRUE] /\ UNCHANGED <<vcpu, vmm, action>>
     ELSE IF action.kind = "Hotunplug"
     THEN exit_vcpus(action.ids, "unplug") /\ UNCHANGED <<action, hist>>
     ELSE action' = NoAction /\ UNCHANGED <<vcpu, vmm, hist>>
  /\ UNCHANGED <<handles, tids, client, guest, ops, breaks>>

\* A vCPU asked for the machine to stop: Vmm::stop ends the upcall client and all
\* the threads.
stop ==
  /\ vmm.pc = "idle"
  /\ \E c \in handles : vcpu[c].st = "waiting_exit"
  /\ exit_vcpus(Walk(handles), "stop")
  /\ client' = [client EXCEPT !.stream = FALSE, !.timer = FALSE]
  /\ UNCHANGED <<handles, tids, action, rx, guest, hist, ops, breaks>>

\* The rest of exit_vcpus, and of its caller, once the threads have ended. The
\* subtraction wraps, and then nothing is truncated.
JoinVcpus ==
  LET n == Len(vmm.ids) IN
  /\ vmm.pc = "join"
  /\ \A c \in Range(vmm.ids) : vcpu[c].st = "exited"
  /\ vcpu' = [c \in Vcpus |-> IF c \in Range(vmm.ids) THEN Off ELSE vcpu[c]]
  /\ handles' = handles \ Range(vmm.ids)
  /\ tids' = IF n <= Len(tids) THEN SubSeq(tids, 1, Len(tids) - n) ELSE tids
  /\ action' = IF vmm.then = "unplug" THEN NoAction ELSE action
  /\ vmm' = IF vmm.then = "stop" THEN [Idle EXCEPT !.pc = "stopped"] ELSE Idle
  /\ UNCHANGED <<rx, client, guest, hist, ops, breaks>>

\* A hotplugged device uses the same client, with or without a callback.
call_hotplug_device ==
  /\ Op
  /\ vmm.pc = "idle" /\ is_ready(client) /\ WriteOk
  /\ \E cb \in {"none", "dev"} : client' = send_request(client, cb)
  /\ UNCHANGED <<host, guest, hist, breaks>>

-----------------------------------------------------------------------------
\* Bug: the manager is not told of a request that was cut off.
StateEvents_Silent(told) ==
  IF told[1] # "cpu" \/ told[2] = "UpcallReset" THEN <<>> ELSE <<told[2]>>

\* What the callback of send_upcall_action puts into the channel: a reset is a success.
StateEvents(told) ==
  IF told[1] # "cpu" THEN <<>> ELSE <<IF told[2] = "Failed" THEN "Failed" ELSE "Success">>

\* The epoll handler of the client. In the state ServiceConnected it only logs, and
\* leaves the stream as it is.
StreamEvent ==
  /\ vmm.pc = "idle" /\ client.stream
  /\ guest.msg # "none" /\ ~is_ready(client)
  /\ \E r \in handle_stream_event(client, guest.msg) :
       /\ client' = r.client
       /\ rx' = rx \o StateEvents(r.told)
       /\ hist' = IF r.told = <<"cpu", "UpcallReset">> /\ action.kind = "Hotunplug"
                  THEN [hist EXCEPT !.unsure = @ \cup Range(action.ids)] ELSE hist
  /\ guest' = [guest EXCEPT !.msg = IF @ = "bad" /\ client'.stream THEN "bad" ELSE "none"]
  /\ UNCHANGED <<vcpu, handles, tids, action, vmm, ops, breaks>>

ReconnectEvent ==
  /\ vmm.pc = "idle" /\ client.timer
  /\ client' \in handle_reconnect_event(client)
  /\ UNCHANGED <<host, guest, hist, ops, breaks>>

\* External: the guest's end of the stream answers, and does what it was asked.
GuestAnswers ==
  /\ client.stream /\ guest.msg = "none" /\ ~is_ready(client)
  /\ LET ids == Range(action.ids)
         add == action.kind = "Hotplug"
         cpu == client.state = "ServiceBusy" /\ client.callback = "cpu"
     IN \/ guest' = [msg |-> "ok",
                     online |-> IF ~cpu THEN guest.online
                                ELSE IF add THEN guest.online \cup ids ELSE guest.online \ ids]
           /\ hist' = IF cpu THEN [hist EXCEPT !.unsure = @ \ ids] ELSE hist
        \/ client.state = "ServiceBusy" /\ guest' = [guest EXCEPT !.msg = "fail"]
           /\ UNCHANGED hist
  /\ UNCHANGED <<host, client, ops, breaks>>

\* External: the connection breaks, also after the guest has acted.
StreamBreaks ==
  /\ client.stream /\ guest.msg # "bad" /\ breaks < MaxBreaks
  /\ guest' = [guest EXCEPT !.msg = "bad"]
  /\ breaks' = breaks + 1
  /\ UNCHANGED <<host, client, hist, ops>>

-----------------------------------------------------------------------------
VcpuStep(c, next) ==
  /\ vcpu' = [vcpu EXCEPT ![c] = next]
  /\ UNCHANGED <<handles, tids, action, rx, vmm, client, guest, hist, ops, breaks>>

VcpuRuns(c) == \E w \in Progress(vcpu[c]) : VcpuStep(c, w)
VcpuSignal(c) == \E w \in handle_signal(vcpu[c]) : VcpuStep(c, w)

\* The guest on this vCPU resets, shuts down or fails.
VcpuStops(c) == \E w \in running(vcpu[c]) \ Progress(vcpu[c]) : VcpuStep(c, w)

\* A stopped VMM, or one with nothing left to do, takes no step.
Rest ==
  /\ vmm.pc \in {"idle", "stopped"}
  /\ UNCHANGED vars

VmmStep ==
  \/ get_vcpus_tid \/ process_cpu_action \/ stop \/ JoinVcpus
  \/ StreamEvent \/ ReconnectEvent

Next ==
  \/ \E n \in 1 .. MaxVcpus : do_add_vcpu(n) \/ do_del_vcpu(n)
  \/ call_hotplug_device
  \/ VcpuGettidTimeout
  \/ VmmStep
  \/ GuestAnswers
  \/ StreamBreaks
  \/ \E c \in Vcpus : VcpuRuns(c) \/ VcpuSignal(c) \/ VcpuStops(c)
  \/ Rest

Spec == Init /\ [][Next]_vars

\* The threads and the event loop run, signals arrive, and the guest answers or the
\* connection breaks.
Fairness ==
  /\ \A c \in Vcpus : WF_vars(VcpuRuns(c)) /\ WF_vars(VcpuSignal(c))
  /\ WF_vars(get_vcpus_tid) /\ WF_vars(process_cpu_action) /\ WF_vars(stop) /\ WF_vars(JoinVcpus)
  /\ WF_vars(StreamEvent) /\ WF_vars(ReconnectEvent)
  /\ WF_vars(GuestAnswers)

FairSpec == Spec /\ Fairness

-----------------------------------------------------------------------------
\* Between requests the thread ids that are shared with the runtime are those of the
\* present vCPUs, each once: exit_vcpus relies on removing the vCPUs that were started
\* last when it cuts the list. Only a rolled back activation breaks this (it cuts off
\* ids that were never added).
TidsOfPresent ==
  vmm.pc = "idle" /\ ~hist.rolled =>
    Range(tids) = handles /\ Len(tids) = Cardinality(handles)

\* A vCPU that the guest has online has a thread, unless the connection broke while
\* the guest was asked to give it up: then process_cpu_action stops the thread
\* whatever the guest did.
OnlineHaveThreads ==
  vmm.then = "stop" \/ vmm.pc = "stopped" \/ guest.online \ hist.unsure \subseteq handles

\* A resize in progress is waiting for exactly one thing: the callback of its
\* request, the event this has sent, or the threads that end. Without a resize in
\* progress there is none of them: the branch "cannot be here" of process_cpu_action
\* is not reached, even with devices that use the same client.
OneAnswerPending ==
  LET pending == (IF client.callback = "cpu" THEN 1 ELSE 0) + Len(rx)
                 + (IF vmm.then = "unplug" THEN 1 ELSE 0)
  IN pending = IF action.kind # "None" /\ ~hist.refused THEN 1 ELSE 0

\* The thread of the VMM never hangs in a handler: every thread told to exit ends,
\* wherever it was when the message and the kick reached it.
VmmReturns == vmm.pc \in {"tids", "join"} ~> vmm.pc \in {"idle", "stopped"}

\* A resize comes to an end, whether the guest answers or the connection breaks. Only
\* after an answer with an error does the action stay, and refuses every later one.
ResizeEnds ==
  action.kind # "None" ~> action.kind = "None" \/ hist.refused \/ vmm.pc = "stopped"
=============================================================================
