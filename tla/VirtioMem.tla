----------------------------- MODULE VirtioMem -----------------------------
(***************************************************************************)
(* The virtio-mem device of dragonball (dbs_virtio_devices/src/mem.rs): the*)
(* VMM thread sets the requested size, which grows the usable region and   *)
(* maps memory for it; the guest plugs and unplugs blocks of the usable    *)
(* region through the queue. Both hold the lock of the config for a whole  *)
(* operation. Offsets are relative to config.addr. A host address is a KVM *)
(* slot and an offset in the mapping of that slot.                         *)
(***************************************************************************)
EXTENDS Integers, FiniteSets

CONSTANTS
  region_size,                  \* of the device
  block_size,
  alignment,                    \* of the guest's memory blocks
  VIRTIO_MEM_MAP_REGION_SIZE,
  MaxBlocks                     \* bound on nb_blocks of a request

\* The sizes are powers of two, and new rounds the capacity up to 2 * alignment.
ASSUME SizeAssumption ==
  /\ region_size \in Nat \ {0} /\ block_size \in Nat \ {0} /\ MaxBlocks \in Nat
  /\ alignment \in Nat \ {0} /\ VIRTIO_MEM_MAP_REGION_SIZE \in Nat \ {0}
  /\ region_size % block_size = 0
  /\ VIRTIO_MEM_MAP_REGION_SIZE % block_size = 0

VARIABLES
  state,           \* "new", "ready" (resources are set), "active" or "dropped"
  multi_region,
  requested_size,
  usable_region_size,
  plugged_size,
  mem_state,       \* the blocks that are plugged
  map_regions,     \* index -> [slot, offset] of its host address, or Unmapped
  regions,         \* the memory regions given to KVM: [slot, start, len]
  drift,           \* history: an unplug of all blocks failed half way
  short            \* history: the last resize failed

vars == <<state, multi_region, requested_size, usable_region_size, plugged_size,
          mem_state, map_regions, regions, drift, short>>

Unmapped == [slot |-> -1, offset |-> 0]

\* get_map_regions_num; a device with one region has one entry.
get_map_regions_num ==
  region_size \div VIRTIO_MEM_MAP_REGION_SIZE
    + (IF region_size % VIRTIO_MEM_MAP_REGION_SIZE > 0 THEN 1 ELSE 0)

SlotNum == IF multi_region THEN get_map_regions_num ELSE 1

\* The sizes new and set_requested_size accept.
Sizes == {s \in 0 .. region_size : s % block_size = 0}

\* Mem::new.
Init ==
  /\ state = "new"
  /\ multi_region \in {m \in BOOLEAN : m => region_size > VIRTIO_MEM_MAP_REGION_SIZE}
  /\ requested_size \in Sizes
  /\ usable_region_size = 0
  /\ plugged_size = 0
  /\ mem_state = {}
  /\ map_regions = [i \in 0 .. SlotNum - 1 |-> Unmapped]
  /\ regions = {}
  /\ drift = FALSE /\ short = FALSE

-----------------------------------------------------------------------------
Least(a, b) == IF a < b THEN a ELSE b

\* The usable size for a requested size.
NewSize(r) ==
  LET s == Least(region_size, r + 2 * alignment)
  IN  IF r = 0 THEN 0 ELSE s - (s % block_size)

\* The map region of an offset, the last one at most.
IndexOf(offset) == Least(offset \div VIRTIO_MEM_MAP_REGION_SIZE, SlotNum - 1)

\* The indexes from the first that is not mapped on, up to the new end.
NewIndexes(r) ==
  LET span == IndexOf(usable_region_size) .. IndexOf(NewSize(r))
  IN  {i \in span : \E j \in span : j <= i /\ map_regions[j] = Unmapped}

NeedsRegion(r) ==
  multi_region /\ NewSize(r) > usable_region_size /\ NewIndexes(r) # {}

\* The end of the memory of a map region.
EndOf(i) ==
  IF i + 1 = SlotNum THEN region_size ELSE (i + 1) * VIRTIO_MEM_MAP_REGION_SIZE

\* Bug: every index gets the host address of the first.
MapFrom_SameAddress(first, last) ==
  /\ regions' = regions \cup
       {[slot |-> first, start |-> first * VIRTIO_MEM_MAP_REGION_SIZE,
         len |-> EndOf(last) - first * VIRTIO_MEM_MAP_REGION_SIZE]}
  /\ map_regions' = [i \in DOMAIN map_regions |->
       IF i \in first .. last THEN [slot |-> first, offset |-> 0] ELSE map_regions[i]]

\* One region of memory, with the slot of its first index, for all new indexes.
MapFrom(first, last) ==
  /\ regions' = regions \cup
       {[slot |-> first, start |-> first * VIRTIO_MEM_MAP_REGION_SIZE,
         len |-> EndOf(last) - first * VIRTIO_MEM_MAP_REGION_SIZE]}
  /\ map_regions' = [i \in DOMAIN map_regions |->
       IF i \in first .. last
       THEN [slot |-> first, offset |-> (i - first) * VIRTIO_MEM_MAP_REGION_SIZE]
       ELSE map_regions[i]]

\* Bug: the usable region shrinks with the requested size.
Grown_Shrinks(r) == NewSize(r)

\* The usable region only grows: can_shrink is false in every call.
Grown(r) == IF NewSize(r) < usable_region_size THEN usable_region_size ELSE NewSize(r)

\* virtio_mem_resize_usable_region, when no region has to be created or it is.
Resized(r) ==
  /\ IF NeedsRegion(r)
     THEN \E first \in NewIndexes(r) :
            /\ \A i \in NewIndexes(r) : first <= i
            /\ MapFrom(first, IndexOf(NewSize(r)))
     ELSE UNCHANGED <<map_regions, regions>>
  /\ usable_region_size' = Grown(r)
  /\ short' = FALSE

\* create_region fails: nothing but the requested size is changed.
NotResized(r) ==
  /\ NeedsRegion(r)
  /\ short' = TRUE
  /\ UNCHANGED <<usable_region_size, map_regions, regions>>

\* Mem::set_resource. A device with one region maps all of it, before the resize. A
\* device whose resources cannot be set is dropped.
set_resource ==
  /\ state = "new"
  /\ \/ /\ state' = "ready"
        /\ IF multi_region
           THEN Resized(requested_size)
           ELSE /\ regions' = {[slot |-> 0, start |-> 0, len |-> region_size]}
                /\ map_regions' = [i \in {0} |-> [slot |-> 0, offset |-> 0]]
                /\ usable_region_size' = Grown(requested_size)
                /\ short' = FALSE
     \/ /\ state' = "dropped"
        /\ UNCHANGED <<usable_region_size, map_regions, regions, short>>
  /\ UNCHANGED <<multi_region, requested_size, plugged_size, mem_state, drift>>

\* Mem::activate, once: the device cannot be reset.
activate ==
  /\ state = "ready"
  /\ state' = "active"
  /\ UNCHANGED <<multi_region, requested_size, usable_region_size, plugged_size,
                 mem_state, map_regions, regions, drift, short>>

\* Bug: the usable region is computed from the size requested before.
set_requested_size_OldSize(r) ==
  /\ state \in {"ready", "active"}
  /\ requested_size' = r
  /\ Resized(requested_size) \/ NotResized(requested_size)
  /\ UNCHANGED <<state, multi_region, plugged_size, mem_state, drift>>

\* Mem::set_requested_size.
set_requested_size(r) ==
  /\ state \in {"ready", "active"}
  /\ requested_size' = r
  /\ Resized(r) \/ NotResized(r)
  /\ UNCHANGED <<state, multi_region, plugged_size, mem_state, drift>>

-----------------------------------------------------------------------------
\* The range is of whole blocks, not empty and in the usable region.
virtio_mem_valid_range(offset, size) ==
  /\ offset % block_size = 0 /\ size % block_size = 0
  /\ size # 0
  /\ offset >= 0 /\ offset < usable_region_size
  /\ offset + size <= usable_region_size

Blocks(offset, nb_blocks) == (offset \div block_size) .. (offset \div block_size + nb_blocks - 1)

\* The range is mapped, and in one map region.
Mapped(offset, size) ==
  LET i == offset \div VIRTIO_MEM_MAP_REGION_SIZE
  IN  IF multi_region
      THEN /\ (offset + size - 1) \div VIRTIO_MEM_MAP_REGION_SIZE = i
           /\ i \in DOMAIN map_regions
           /\ map_regions[i] # Unmapped
      ELSE map_regions[0] # Unmapped

\* The answer to a plug request that exceeds the requested size.
Denied(size) == plugged_size + size > requested_size

\* The checks of virtio_mem_state_change_request for a plug request that is acknowledged.
Pluggable(offset, nb_blocks) ==
  /\ ~Denied(nb_blocks * block_size)
  /\ virtio_mem_valid_range(offset, nb_blocks * block_size)
  /\ Blocks(offset, nb_blocks) \cap mem_state = {}
  /\ Mapped(offset, nb_blocks * block_size)

\* The checks for an unplug request.
Unpluggable(offset, nb_blocks) ==
  /\ virtio_mem_valid_range(offset, nb_blocks * block_size)
  /\ Blocks(offset, nb_blocks) \subseteq mem_state
  /\ Mapped(offset, nb_blocks * block_size)

\* VIRTIO_MEM_REQ_PLUG; a request that is refused changes nothing.
Plug(offset, nb_blocks) ==
  /\ state = "active"
  /\ Pluggable(offset, nb_blocks)
  /\ mem_state' = mem_state \cup Blocks(offset, nb_blocks)
  /\ plugged_size' = plugged_size + nb_blocks * block_size
  /\ UNCHANGED <<state, multi_region, requested_size, usable_region_size, map_regions,
                 regions, drift, short>>

\* VIRTIO_MEM_REQ_UNPLUG; a request that is refused, or whose memory cannot be given
\* back to the host, changes nothing.
Unplug(offset, nb_blocks) ==
  /\ state = "active"
  /\ Unpluggable(offset, nb_blocks)
  /\ mem_state' = mem_state \ Blocks(offset, nb_blocks)
  /\ plugged_size' = plugged_size - nb_blocks * block_size
  /\ UNCHANGED <<state, multi_region, requested_size, usable_region_size, map_regions,
                 regions, drift, short>>

\* Bug: plugged_size is set to 0 also when a block could not be unplugged.
UnplugAllFails_SizeCleared(x) ==
  /\ state = "active"
  /\ \A y \in mem_state : y < x => Unpluggable(y * block_size, 1)
  /\ mem_state' = {y \in mem_state : y >= x}
  /\ plugged_size' = 0
  /\ drift' = (drift \/ mem_state' # mem_state)
  /\ UNCHANGED <<state, multi_region, requested_size, usable_region_size,
                 map_regions, regions, short>>

\* VIRTIO_MEM_REQ_UNPLUG_ALL that fails at block x: the blocks below it are unplugged,
\* and plugged_size is as before.
UnplugAllFails(x) ==
  /\ state = "active"
  /\ \A y \in mem_state : y < x => Unpluggable(y * block_size, 1)
  /\ mem_state' = {y \in mem_state : y >= x}
  /\ drift' = (drift \/ mem_state' # mem_state)
  /\ UNCHANGED <<state, multi_region, requested_size, usable_region_size, plugged_size,
                 map_regions, regions, short>>

\* VIRTIO_MEM_REQ_UNPLUG_ALL. The usable region is not resized.
UnplugAll ==
  /\ state = "active"
  /\ \A y \in mem_state : Unpluggable(y * block_size, 1)
  /\ mem_state' = {}
  /\ plugged_size' = 0
  /\ drift' = FALSE
  /\ UNCHANGED <<state, multi_region, requested_size, usable_region_size,
                 map_regions, regions, short>>

\* The addresses of the requests, from below the region to above it.
Offsets == -block_size .. region_size + block_size

Next ==
  \/ set_resource \/ activate
  \/ \E r \in Sizes : set_requested_size(r)
  \/ \E offset \in Offsets, n \in 0 .. MaxBlocks : Plug(offset, n) \/ Unplug(offset, n)
  \/ \E x \in mem_state : UnplugAllFails(x)
  \/ UnplugAll

Spec == Init /\ [][Next]_vars

-----------------------------------------------------------------------------
\* Every plugged block is in the usable region, whatever sizes were requested since it
\* was plugged: the guest can always unplug what it has.
PluggedUsable == \A x \in mem_state : (x + 1) * block_size <= usable_region_size

\* plugged_size is the memory of the plugged blocks. It may be more, never less, after
\* an unplug of all blocks that failed half way; so it does not go below zero.
PluggedCounted ==
  /\ plugged_size >= Cardinality(mem_state) * block_size
  /\ ~drift => plugged_size = Cardinality(mem_state) * block_size

\* Every byte of the usable region is in exactly one memory region of KVM, and the host
\* address the device computes for it from map_regions is the one KVM has.
TranslationExact ==
  \A offset \in 0 .. usable_region_size - 1 :
    LET i == IF multi_region THEN offset \div VIRTIO_MEM_MAP_REGION_SIZE ELSE 0
        covering == {m \in regions : m.start <= offset /\ offset < m.start + m.len}
    IN  /\ Cardinality(covering) = 1
        /\ \A m \in covering :
             /\ map_regions[i].slot = m.slot
             /\ map_regions[i].offset + (offset - i * VIRTIO_MEM_MAP_REGION_SIZE)
                  = offset - m.start

\* The guest can get all it is asked to take: as long as less is plugged than requested,
\* and the last resize did not fail, there is a block that a plug request gets.
CanReachRequested ==
  state = "active" /\ ~short /\ plugged_size < requested_size
    => \E x \in 0 .. region_size \div block_size - 1 : Pluggable(x * block_size, 1)
=============================================================================
