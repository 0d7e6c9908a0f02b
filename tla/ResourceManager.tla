-------------------------- MODULE ResourceManager --------------------------
(***************************************************************************)
(* The resources of the containers of one sandbox in the runtime: creating *)
(* a container attaches its block device and then makes room for its       *)
(* vCPUs, stopping it detaches the device and gives the vCPUs back, and an *)
(* update changes the number of vCPUs. Containers do this concurrently:    *)
(* ResourceManager is used under a read lock, and each step takes the lock *)
(* of the device manager or of one field of CpuResource.                   *)
(***************************************************************************)
EXTENDS DeviceManager, CpuResource

CONSTANTS
  Containers,
  Ids,            \* device ids
  Paths,          \* block devices of the host
  MaxCreates,     \* bound on the containers created
  VcpusOf,        \* the vCPUs of each container
  MoreVcpus,      \* the vCPUs an update asks for
  DefaultVcpus,   \* cpu_info.default_vcpus
  MaxVcpus        \* cpu_info.default_maxvcpus

ASSUME VcpusAssumption == DefaultVcpus \in 1 .. MaxVcpus
ASSUME ContainersAssumption == IsFiniteSet(Containers)
ASSUME IdsAssumption == Ids \subseteq Nat

VARIABLES
  dm,       \* the device manager
  hyp,      \* the devices of the hypervisor, by id, with their index
  res,      \* container_cpu_resources
  current,  \* current_vcpu
  vm,       \* the vCPUs of the hypervisor
  task,     \* per container: [pc, op, id, held, req, old]
  creates,  \* containers created, up to MaxCreates
  hist      \* history: [dropped, unsure]

vars == <<dm, hyp, res, current, vm, task, creates, hist>>

\* pc    "idle"; "new" with a device to attach; "set", "calc", "check", "old", "resize"
\*       and "online" in update_linux_resource; "run"; "end"; "failed"
\* held  this container attached the device and did not detach it
Idle == [pc |-> "idle", op |-> "Add", id |-> 0, held |-> FALSE, req |-> 0, old |-> 0]

Init ==
  /\ dm = NewManager
  /\ hyp = <<>>
  /\ res = [c \in Containers |-> 0]
  /\ current = DefaultVcpus
  /\ vm = DefaultVcpus
  /\ task = [c \in Containers |-> Idle]
  /\ creates = 0
  /\ hist = [dropped |-> {}, unsure |-> FALSE]

At(c, pc) == task[c].pc = pc
Go(c, pc) == task' = [task EXCEPT ![c].pc = pc]

InUpdate(c) == task[c].pc \in {"calc", "check", "old", "resize", "online"}

-----------------------------------------------------------------------------
\* The ids are random numbers of 64 bits, taken to be unused; the lowest stands for any.
new_device_id ==
  LET unused == Ids \ (DOMAIN dm.devices \cup DOMAIN hyp)
  IN {id \in unused : \A i \in unused : id <= i}

\* new_device: the device of the path if there is one, else a new one. Finding the path
\* of the host may fail after the index was taken. A container that is gone without a
\* device makes room for another one.
new_device(c, path) ==
  LET found == find_device(dm, path)
  IN /\ At(c, "idle") \/ (At(c, "end") /\ ~task[c].held)
     /\ creates < MaxCreates
     /\ creates' = creates + 1
     /\ \/ /\ found # {}
           /\ \E i \in found : task' = [task EXCEPT ![c] = [Idle EXCEPT !.pc = "new", !.id = i]]
           /\ UNCHANGED dm
        \/ /\ found = {}
           /\ \E id \in new_device_id :
                /\ dm' = create_block_device(dm, id, path)
                /\ task' = [task EXCEPT ![c] = [Idle EXCEPT !.pc = "new", !.id = id]]
        \/ /\ found = {}
           /\ dm' = declare_device_index(dm).m
           /\ task' = [task EXCEPT ![c] = [Idle EXCEPT !.pc = "failed"]]
     /\ UNCHANGED <<hyp, res, current, vm, hist>>

\* try_add_device, under a second lock: the first user attaches the device. If that
\* fails it is forgotten, also for others that have found it since.
try_add_device(c) ==
  LET id == task[c].id
  IN /\ At(c, "new")
     /\ \/ /\ id \notin DOMAIN dm.devices
           /\ Go(c, "failed") /\ UNCHANGED <<dm, hyp>>
        \/ /\ id \in DOMAIN dm.devices /\ dm.devices[id].count > 0
           /\ dm' = AttachAgain(dm, id)
           /\ task' = [task EXCEPT ![c].pc = "set", ![c].held = TRUE]
           /\ UNCHANGED hyp
        \/ /\ id \in DOMAIN dm.devices /\ dm.devices[id].count = 0
           /\ \/ /\ dm' = SetCount(dm, id, 1)
                 /\ hyp' = With(hyp, id, dm.devices[id].index)
                 /\ task' = [task EXCEPT ![c].pc = "set", ![c].held = TRUE]
              \/ /\ dm' = AttachFails(dm, id)
                 /\ Go(c, "failed") /\ UNCHANGED hyp
     /\ UNCHANGED <<res, current, vm, hist>>

\* stop_process: clean_volumes and clean_rootfs detach the device; an error is only
\* logged.
try_remove_device(c) ==
  LET id == task[c].id
  IN /\ At(c, "run")
     /\ \/ /\ id \notin DOMAIN dm.devices
           /\ task' = [task EXCEPT ![c].pc = "set", ![c].op = "Del"]
           /\ UNCHANGED <<dm, hyp, hist>>
        \/ /\ id \in DOMAIN dm.devices /\ ~LastUser(dm, id)
           /\ dm' = DetachShared(dm, id)
           /\ hist' = [hist EXCEPT !.dropped = @ \cup {id}]
           /\ task' = [task EXCEPT ![c].pc = "set", ![c].op = "Del", ![c].held = FALSE]
           /\ UNCHANGED hyp
        \/ /\ id \in DOMAIN dm.devices /\ LastUser(dm, id)
           /\ \/ /\ dm' = DetachLast(dm, id)
                 /\ hyp' = Without(hyp, id)
                 /\ task' = [task EXCEPT ![c].pc = "set", ![c].op = "Del", ![c].held = FALSE]
              \/ /\ task' = [task EXCEPT ![c].pc = "set", ![c].op = "Del"]
                 /\ UNCHANGED <<dm, hyp>>
           /\ UNCHANGED hist
     /\ UNCHANGED <<res, current, vm>>

-----------------------------------------------------------------------------
\* Container::update, of a running container.
update(c) ==
  /\ At(c, "run") /\ task[c].op = "Add"
  /\ task' = [task EXCEPT ![c].pc = "set", ![c].op = "Update"]
  /\ UNCHANGED <<dm, hyp, res, current, vm, hist>>

\* update_cpu_resources: the requirement of the container is recorded, and the total
\* computed and compared with current_vcpu, each under a lock of its own.
SetResources(c) ==
  /\ At(c, "set")
  /\ res' = update_container_cpu_resources(res, c, task[c].op,
              IF task[c].op = "Add" THEN VcpusOf[c] ELSE MoreVcpus)
  /\ Go(c, "calc")
  /\ hist' = [hist EXCEPT !.unsure = @ \/ \E o \in Containers \ {c} : InUpdate(o)]
  /\ UNCHANGED <<dm, hyp, current, vm>>

CalcResources(c) ==
  /\ At(c, "calc")
  /\ task' = [task EXCEPT ![c].pc = "check", ![c].req = calc_cpu_resources(res)]
  /\ UNCHANGED <<dm, hyp, res, current, vm, hist>>

Finished(c) == IF task[c].op = "Del" THEN "end" ELSE "run"

CheckCurrent(c) ==
  /\ At(c, "check")
  /\ Go(c, IF task[c].req = current THEN Finished(c) ELSE "old")
  /\ UNCHANGED <<dm, hyp, res, current, vm, hist>>

\* do_update_cpu_resources reads current_vcpu again.
ReadCurrent(c) ==
  /\ At(c, "old")
  /\ IF Ignored(task[c].op, current, task[c].req)
     THEN task' = [task EXCEPT ![c].pc = "online", ![c].req = current, ![c].old = current]
     ELSE task' = [task EXCEPT ![c].pc = "resize", ![c].old = current]
  /\ UNCHANGED <<dm, hyp, res, current, vm, hist>>

\* A failed update ends the request: creating fails, the other requests return an error.
Fails(c) ==
  /\ Go(c, IF task[c].op = "Add" THEN "failed" ELSE Finished(c))
  /\ hist' = [hist EXCEPT !.unsure = TRUE]

\* Hypervisor::resize_vcpu compares with the number it is given, not with its own.
resize_vcpu(c) ==
  LET new == target_vcpus(task[c].req, DefaultVcpus, MaxVcpus)
      same == task[c].old = new /\ task[c].req <= MaxVcpus
  IN /\ At(c, "resize")
     /\ \/ /\ vm' = IF same THEN vm ELSE new
           /\ task' = [task EXCEPT ![c].pc = "online", ![c].req = new]
           /\ UNCHANGED hist
        \/ /\ Fails(c) /\ UNCHANGED vm
     /\ UNCHANGED <<dm, hyp, res, current>>

\* Bug: the new number is not recorded.
online_cpu_mem_NotRecorded(c) ==
  /\ At(c, "online")
  /\ \/ /\ Go(c, Finished(c)) /\ UNCHANGED hist
     \/ /\ task[c].old < task[c].req
        /\ Fails(c)
  /\ UNCHANGED <<dm, hyp, res, current, vm>>

\* New vCPUs are brought online by the agent, then current_vcpu is written.
online_cpu_mem(c) ==
  /\ At(c, "online")
  /\ \/ /\ current' = task[c].req
        /\ Go(c, Finished(c))
        /\ UNCHANGED hist
     \/ /\ task[c].old < task[c].req
        /\ Fails(c)
        /\ UNCHANGED current
  /\ UNCHANGED <<dm, hyp, res, vm>>

-----------------------------------------------------------------------------
Next ==
  \E c \in Containers :
    \/ \E path \in Paths : new_device(c, path)
    \/ /\ \/ try_add_device(c) \/ try_remove_device(c)
          \/ update(c) \/ SetResources(c) \/ CalcResources(c) \/ CheckCurrent(c)
          \/ ReadCurrent(c) \/ resize_vcpu(c) \/ online_cpu_mem(c)
       /\ UNCHANGED creates

Spec == Init /\ [][Next]_vars

-----------------------------------------------------------------------------
\* No two devices, registered or attached, share an index, and no index that is in use is
\* free to be taken: the index names the drive in the guest.
IndexUnique ==
  LET index(id) == IF id \in DOMAIN dm.devices THEN dm.devices[id].index ELSE hyp[id]
      known == DOMAIN dm.devices \cup DOMAIN hyp
  IN \A i \in known :
       /\ \A j \in known \ {i} : index(i) # index(j)
       /\ \A k \in 1 .. Len(dm.released) : dm.released[k] # index(i)
       /\ index(i) < dm.index

\* A registered device counts exactly the containers that hold it, and a device is
\* attached as long as a container holds it. None stays attached after its last holder,
\* except one the manager forgot when the first of its users left.
AttachedWhileHeld ==
  LET holders(id) == {c \in Containers : task[c].held /\ task[c].id = id}
  IN /\ \A id \in DOMAIN dm.devices : dm.devices[id].count = Cardinality(holders(id))
     /\ \A c \in Containers : task[c].held => task[c].id \in DOMAIN hyp
     /\ \A id \in DOMAIN hyp \ hist.dropped : holders(id) # {}

\* While no update is on its way the runtime and the hypervisor agree on the vCPUs, and
\* they are what the containers require, unless updates overlapped or failed.
VcpusSettled ==
  ~hist.unsure /\ (\A c \in Containers : ~InUpdate(c)) =>
    /\ current = vm
    /\ vm = Min({MaxVcpus, Max({DefaultVcpus, MapThenSumSet(LAMBDA c : res[c], Containers)})})
=============================================================================
