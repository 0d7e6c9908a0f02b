---------------------------- MODULE AgentStorage ----------------------------
(***************************************************************************)
(* The storages of the agent (agent/src/sandbox.rs, storage/mod.rs,        *)
(* uevent.rs, and their users in rpc.rs). The storages of a container are  *)
(* created one after the other by the task of its CreateContainer request. *)
(* A storage is shared by its mount point and counted; the count and the   *)
(* map are under the lock of the sandbox, the creation of the device is    *)
(* not, and may wait for the kernel to announce the device.                *)
(*                                                                         *)
(* One step is what a task does while it holds the lock, or what it does   *)
(* between two acquisitions.                                               *)
(***************************************************************************)
EXTENDS Naturals, FiniteSets, Sequences, Functions

CONSTANTS
  Cids,      \* containers, each created at most once
  Paths,     \* mount points
  Block,     \* those of block devices, which are announced by a uevent
  Unnamed,   \* those whose device has an empty path (local, ephemeral, watched)
  Requests   \* the storage lists that a request may carry, without repetitions

ASSUME StorageAssumption ==
  /\ IsFiniteSet(Cids)
  /\ Block \subseteq Paths /\ Unnamed \subseteq Paths
  /\ \A r \in Requests : r \in Seq(Paths) /\ IsInjective(r)

VARIABLES
  storages,  \* per path: [count, dev]; dev is "vacant" without an entry, "none" for
             \* the placeholder, "path" or "empty" for a device
  ready,     \* the paths that are mounted
  uevents,   \* the paths whose device is in uevent_map
  task,      \* per container: where its request is, see Idle
  redone     \* history: the paths whose device was created over an existing one

vars == <<storages, ready, uevents, task, redone>>

Vacant == [count |-> 0, dev |-> "vacant"]

\* req, todo   the storages requested, and those still to be handled
\* mounts      the list that add_storages builds, then container_mounts
\* seen, count what the task got from add_sandbox_storage: the device, and the count
\*             when it is no longer that of the entry (else 0)
\* watch, got  the watcher is in uevent_watchers; the event is in the channel
\* early       history: paths taken as they were when they had no device yet
Idle == [pc |-> "idle", req |-> <<>>, todo |-> <<>>, mounts |-> {}, seen |-> "vacant",
         count |-> 0, watch |-> FALSE, got |-> FALSE, early |-> {}]

Init ==
  /\ storages = [p \in Paths |-> Vacant]
  /\ ready = {}
  /\ uevents = {}
  /\ task = [c \in Cids |-> Idle]
  /\ redone = {}

Path(c) == Head(task[c].todo)
At(c, pc) == task[c].pc = pc
Go(c, pc) == task' = [task EXCEPT ![c].pc = pc]

-----------------------------------------------------------------------------
do_create_container(c) ==
  /\ At(c, "idle")
  /\ \E r \in Requests :
       task' = [task EXCEPT ![c] = [Idle EXCEPT !.pc = "add", !.req = r, !.todo = r]]
  /\ UNCHANGED <<storages, ready, uevents>>

\* Bug: an existing storage is not counted.
add_sandbox_storage_NotCounted(c) ==
  LET p == Path(c)
      s == storages[p]
  IN /\ At(c, "add") /\ task[c].todo # <<>>
     /\ storages' = [storages EXCEPT ![p] = IF s.dev = "vacant" THEN [count |-> 1, dev |-> "none"]
                                            ELSE s]
     /\ task' = [task EXCEPT ![c].pc = "check", ![c].seen = storages'[p].dev, ![c].count = 0]
     /\ UNCHANGED <<ready, uevents>>

\* The next storage: a placeholder is entered, or the existing entry is counted.
add_sandbox_storage(c) ==
  LET p == Path(c)
      s == storages[p]
  IN /\ At(c, "add") /\ task[c].todo # <<>>
     /\ storages' = [storages EXCEPT ![p] = IF s.dev = "vacant" THEN [count |-> 1, dev |-> "none"]
                                            ELSE [s EXCEPT !.count = @ + 1]]
     /\ task' = [task EXCEPT ![c].pc = "check", ![c].seen = storages'[p].dev, ![c].count = 0]
     /\ UNCHANGED <<ready, uevents>>

\* The storage is done: if its device has a path, this is added to the list.
Done(t, dev) ==
  [t EXCEPT !.pc = "add", !.todo = Tail(@),
            !.mounts = IF dev = "path" THEN @ \cup {Head(t.todo)} ELSE @,
            !.early = IF dev = "none" THEN @ \cup {Head(t.todo)} ELSE @]

\* The count is read after the lock was released. A storage that others have is taken
\* as it is; the device of a new one is to be created.
ref_count(c) ==
  LET n == IF task[c].count = 0 THEN storages[Path(c)].count ELSE task[c].count
  IN /\ At(c, "check")
     /\ task' = [task EXCEPT ![c] = IF n > 1 THEN Done(@, @.seen) ELSE [@ EXCEPT !.pc = "dev"]]
     /\ redone' = IF n > 1 \/ task[c].seen = "none" THEN redone ELSE redone \cup {Path(c)}
     /\ UNCHANGED <<storages, ready, uevents>>

\* Bug: the lock is released between the look into the map and the registration.
wait_for_uevent_Unlocked(c) ==
  /\ \/ At(c, "dev") /\ Path(c) \in Block /\ Path(c) \notin uevents /\ ~task[c].got
        /\ task' = [task EXCEPT ![c].got = TRUE]
     \/ At(c, "dev") /\ (Path(c) \notin Block \/ Path(c) \in uevents) /\ ~task[c].got
        /\ Go(c, "mount")
     \/ At(c, "dev") /\ task[c].got
        /\ task' = [task EXCEPT ![c].pc = "wait", ![c].watch = TRUE, ![c].got = FALSE]
  /\ UNCHANGED <<storages, ready, uevents>>

\* create_device of a block device looks for its uevent, and registers a watcher
\* within the same critical section if there is none.
wait_for_uevent(c) ==
  /\ At(c, "dev")
  /\ IF Path(c) \in Block \ uevents
     THEN task' = [task EXCEPT ![c].pc = "wait", ![c].watch = TRUE, ![c].got = FALSE]
     ELSE Go(c, "mount")
  /\ UNCHANGED <<storages, ready, uevents>>

\* A device is announced: the event is recorded and sent to those that watch for it.
process_add(p) ==
  LET told == {c \in Cids : task[c].watch /\ Path(c) = p}
  IN /\ p \notin uevents
     /\ uevents' = uevents \cup {p}
     /\ task' = [c \in Cids |-> IF c \in told THEN [task[c] EXCEPT !.watch = FALSE, !.got = TRUE]
                                ELSE task[c]]
     /\ UNCHANGED <<storages, ready>>

process_remove(p) ==
  /\ p \in uevents
  /\ uevents' = uevents \ {p}
  /\ UNCHANGED <<storages, ready, task>>

UeventReceived(c) ==
  /\ At(c, "wait") /\ task[c].got
  /\ Go(c, "mount")
  /\ UNCHANGED <<storages, ready, uevents>>

\* The timeout fires, and the task asks for the lock.
UeventTimeout(c) ==
  /\ At(c, "wait") /\ ~task[c].got
  /\ Go(c, "late")
  /\ UNCHANGED <<storages, ready, uevents>>

\* With the lock the watcher is taken back; if the event took it in the meantime, the
\* unwrap panics.
UeventGiveUp(c) ==
  /\ At(c, "late")
  /\ task' = [task EXCEPT ![c].pc = IF task[c].watch THEN "drop" ELSE "panicked",
                          ![c].watch = FALSE]
  /\ UNCHANGED <<storages, ready, uevents>>

\* The rest of create_device: the mount succeeds or fails.
create_device(c) ==
  /\ At(c, "mount")
  /\ \/ ready' = ready \cup {Path(c)} /\ Go(c, "update")
     \/ Go(c, "drop") /\ UNCHANGED ready
  /\ UNCHANGED <<storages, uevents>>

\* Entries after one reference to each path of ps is given up.
Release(ps) ==
  [p \in Paths |-> IF p \notin ps \/ storages[p].dev = "vacant" THEN storages[p]
                   ELSE IF storages[p].count = 1 THEN Vacant
                   ELSE [storages[p] EXCEPT !.count = @ - 1]]

\* Bug: the device is cleaned up with every reference.
LastRefs_Any(ps) == {p \in ps : storages[p].dev = "path"}

\* The paths of ps whose device is then cleaned up.
LastRefs(ps) == {p \in ps : storages[p].count = 1 /\ storages[p].dev = "path"}

\* Bug: the device replaces that of the entry and keeps its count.
update_sandbox_storage_KeepsCount(c) ==
  LET p == Path(c)
      dev == IF p \in Unnamed THEN "empty" ELSE "path"
  IN /\ At(c, "update")
     /\ storages' = [storages EXCEPT ![p].dev = dev]
     /\ task' = [task EXCEPT ![c] = Done(@, dev)]
     /\ UNCHANGED <<ready, uevents>>

\* The device replaces the placeholder, and with it its count. Requests that have
\* not read the count yet keep the old one. Without an entry the device would be
\* cleaned up.
update_sandbox_storage(c) ==
  LET p == Path(c)
      dev == IF p \in Unnamed THEN "empty" ELSE "path"
      behind == {d \in Cids : At(d, "check") /\ Path(d) = p /\ task[d].count = 0}
  IN /\ At(c, "update")
     /\ IF storages[p].dev # "vacant"
        THEN /\ storages' = [storages EXCEPT ![p] = [count |-> 1, dev |-> dev]]
             /\ task' = [d \in Cids |->
                  IF d = c THEN Done(task[c], dev)
                  ELSE IF d \in behind THEN [task[d] EXCEPT !.count = storages[p].count]
                  ELSE task[d]]
             /\ UNCHANGED ready
        ELSE Go(c, "failed") /\ ready' = ready \ {p} /\ UNCHANGED storages
     /\ UNCHANGED uevents

\* create_device failed: one reference is given up, and the request fails. The
\* storages it has already are not given back.
DropStorage(c) ==
  /\ At(c, "drop")
  /\ storages' = Release({Path(c)})
  /\ ready' = ready \ LastRefs({Path(c)})
  /\ Go(c, "failed")
  /\ UNCHANGED uevents

-----------------------------------------------------------------------------
\* remove_container_resources; the cleanup of the paths in busy fails.
remove_container_resources(c) ==
  /\ storages' = Release(task[c].mounts)
  /\ \E busy \in SUBSET LastRefs(task[c].mounts) : ready' = ready \ (LastRefs(task[c].mounts) \ busy)
  /\ UNCHANGED uevents

\* The rest of do_create_container. The container may fail to start, and then its
\* resources are removed; other errors leave them.
StartContainer(c) ==
  /\ At(c, "add") /\ task[c].todo = <<>>
  /\ \/ Go(c, "live") /\ UNCHANGED <<storages, ready, uevents>>
     \/ Go(c, "failed") /\ UNCHANGED <<storages, ready, uevents>>
     \/ remove_container_resources(c) /\ task' = [task EXCEPT ![c].pc = "gone", ![c].mounts = {}]

\* Without a timeout the container is destroyed and its resources removed under one
\* lock; with one, the destruction runs in a task, and the resources are removed
\* after it. A failed destruction changes nothing, and after a timeout nothing more
\* happens.
do_remove_container(c) ==
  /\ \/ At(c, "live") /\ remove_container_resources(c)
        /\ task' = [task EXCEPT ![c].pc = "gone", ![c].mounts = {}]
     \/ At(c, "live") /\ Go(c, "destroyed") /\ UNCHANGED <<storages, ready, uevents>>
     \/ At(c, "destroyed") /\ remove_container_resources(c)
        /\ task' = [task EXCEPT ![c].pc = "gone", ![c].mounts = {}]

-----------------------------------------------------------------------------
Next ==
  \/ \E c \in Cids :
       \/ ref_count(c)
       \/ /\ UNCHANGED redone
          /\ \/ do_create_container(c) \/ add_sandbox_storage(c)
             \/ wait_for_uevent(c) \/ UeventReceived(c) \/ UeventTimeout(c) \/ UeventGiveUp(c)
             \/ create_device(c) \/ update_sandbox_storage(c) \/ DropStorage(c)
             \/ StartContainer(c) \/ do_remove_container(c)
  \/ \E p \in Block : (process_add(p) \/ process_remove(p)) /\ UNCHANGED redone

Spec == Init /\ [][Next]_vars

-----------------------------------------------------------------------------
Creating(c) == task[c].pc \in {"dev", "wait", "late", "mount", "update", "drop"}

\* The device of a storage is never created by two requests at a time, however the
\* counts are raised, lowered and reset meanwhile. The exception are storages whose
\* device was created over an existing one: the count is then reset below the number
\* of its holders, and the entry may go while a third request creates the device.
OneCreator ==
  \A c, d \in Cids :
    Creating(c) /\ Creating(d) /\ Path(c) = Path(d) /\ Path(c) \notin redone => c = d

\* The count of a storage with a named device is the number of requests and containers
\* that will give it back, failed requests that never do included. The exception are
\* storages whose device was created twice: their count is reset.
RefsExact ==
  \A p \in Paths \ redone : storages[p].dev = "path" =>
    storages[p].count = Cardinality(
      {c \in Cids : \/ p \in task[c].mounts
                    \/ At(c, "check") /\ Path(c) = p /\ task[c].seen = "path"})

\* What a live container has requested is mounted, whatever other containers that
\* share its storages do. The exception are storages it took for those of another
\* request while they had no device (this may come later, be removed with the other
\* container, or never come), and storages whose device was created twice.
LiveMounted ==
  \A c \in Cids : At(c, "live") => Range(task[c].req) \ (task[c].early \cup redone) \subseteq ready

\* A request that waits has been sent the event of its device if this has arrived,
\* also when it arrived just as the watcher was being registered.
NoMissedUevent ==
  \A c \in Cids : At(c, "wait") /\ ~task[c].got => task[c].watch /\ Path(c) \notin uevents
=============================================================================
