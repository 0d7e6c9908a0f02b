--------------------------- MODULE VirtioMemProofs --------------------------
(***************************************************************************)
(* Proofs about VirtioMem, for every region, block and map region size:    *)
(* plugged blocks stay in the usable region, plugged_size counts them, the *)
(* map of the regions translates every usable offset exactly, and what is  *)
(* requested can be plugged.                                               *)
(***************************************************************************)
EXTENDS VirtioMem, FiniteSetTheorems, TLAPS

\* The provers a step is given to, in turn, where it does not name one.
USE SMTT(10), ZenonT(20), SMTT(40)
USE SizeAssumption

-----------------------------------------------------------------------------
(* Arithmetic of blocks.                                                   *)

\* A longer run of blocks is not smaller.
LEMMA BlocksMonotone ==
  ASSUME NEW a \in Int, NEW b \in Int, a <= b
  PROVE  a * block_size <= b * block_size
OBVIOUS

\* The block of an aligned offset starts there.
LEMMA AlignedBlock ==
  ASSUME NEW offset \in Int, offset % block_size = 0, offset >= 0
  PROVE  /\ offset \div block_size \in Nat
         /\ (offset \div block_size) * block_size = offset
OBVIOUS

\* The blocks of a valid range lie in the usable region and are as many as asked for.
LEMMA ValidBlocks ==
  ASSUME usable_region_size \in Int,
         NEW offset \in Int, NEW n \in Nat,
         virtio_mem_valid_range(offset, n * block_size)
  PROVE  /\ n > 0
         /\ Blocks(offset, n) \subseteq Nat
         /\ IsFiniteSet(Blocks(offset, n)) /\ Cardinality(Blocks(offset, n)) = n
         /\ \A x \in Blocks(offset, n) : (x + 1) * block_size <= usable_region_size
<1> DEFINE q == offset \div block_size
<1>1. q \in Nat /\ q * block_size = offset
  BY AlignedBlock DEF virtio_mem_valid_range
<1>2. n > 0
  BY DEF virtio_mem_valid_range
<1>3. (q + n) * block_size = offset + n * block_size
  BY <1>1
<1>4. ASSUME NEW x \in q .. q + n - 1
      PROVE  x \in Nat /\ (x + 1) * block_size <= usable_region_size
  <2>1. x \in Nat /\ x + 1 <= q + n
    BY <1>1
  <2>2. (x + 1) * block_size <= (q + n) * block_size
    BY <1>1, <2>1, BlocksMonotone
  <2> QED
    BY <1>3, <2>1, <2>2 DEF virtio_mem_valid_range
<1>5. IsFiniteSet(q .. q + n - 1) /\ Cardinality(q .. q + n - 1) = n
  BY <1>1, <1>2, FS_Interval
<1> QED
  BY <1>2, <1>4, <1>5 DEF Blocks

\* The usable region does not shrink.
LEMMA GrownGrows ==
  ASSUME usable_region_size \in Int, NEW r \in Sizes
  PROVE  Grown(r) \in Int /\ Grown(r) >= usable_region_size
BY DEF Grown, NewSize, Least, Sizes

-----------------------------------------------------------------------------
(* The invariant.                                                          *)

\* plugged_size and the set of plugged blocks are finite and related, and the blocks are
\* usable; an unplug of all blocks needs the count to be kept as an upper bound.
MemInv ==
  /\ requested_size \in Sizes
  /\ usable_region_size \in Int /\ plugged_size \in Int
  /\ mem_state \subseteq Nat /\ IsFiniteSet(mem_state)
  /\ PluggedUsable
  /\ PluggedCounted

\* A device starts with no memory plugged.
LEMMA MemInit == Init => MemInv
<1> SUFFICES ASSUME Init PROVE MemInv
  OBVIOUS
<1>1. IsFiniteSet(mem_state) /\ Cardinality(mem_state) = 0
  BY FS_EmptySet DEF Init
<1>2. PluggedCounted
  BY <1>1 DEF Init, PluggedCounted
<1> QED
  BY <1>1, <1>2 DEF Init, MemInv, PluggedUsable

\* Setting a size changes neither the blocks nor their count, and grows the usable region.
LEMMA ResizeInv ==
  ASSUME MemInv, NEW r \in Sizes,
         usable_region_size' \in {usable_region_size, Grown(r)},
         requested_size' \in Sizes,
         UNCHANGED <<plugged_size, mem_state, drift>>
  PROVE  MemInv'
<1>1. usable_region_size' \in Int /\ usable_region_size' >= usable_region_size
  BY GrownGrows DEF MemInv
<1>2. PluggedUsable'
  <2> SUFFICES ASSUME NEW x \in mem_state
               PROVE  (x + 1) * block_size <= usable_region_size'
    BY DEF PluggedUsable
  <2>1. (x + 1) * block_size \in Int
    BY DEF MemInv
  <2> QED
    BY <1>1, <2>1 DEF MemInv, PluggedUsable
<1> QED
  BY <1>1, <1>2 DEF MemInv, PluggedCounted

\* A plug request that is acknowledged adds blocks that were not counted.
LEMMA PlugInv ==
  ASSUME MemInv, NEW offset \in Int, NEW n \in Nat, Plug(offset, n)
  PROVE  MemInv'
<1> DEFINE B == Blocks(offset, n)
<1>1. /\ n > 0 /\ B \subseteq Nat /\ IsFiniteSet(B) /\ Cardinality(B) = n
      /\ \A x \in B : (x + 1) * block_size <= usable_region_size
  BY ValidBlocks DEF MemInv, Plug, Pluggable
<1>2. mem_state \cap B = {} /\ Cardinality(mem_state \cap B) = 0
  BY FS_EmptySet DEF Plug, Pluggable
<1>3. IsFiniteSet(mem_state \cup B) /\ Cardinality(mem_state) \in Nat
      /\ Cardinality(mem_state \cup B) = Cardinality(mem_state) + n
  <2>1. IsFiniteSet(mem_state) /\ Cardinality(mem_state) \in Nat
    BY FS_CardinalityType DEF MemInv
  <2>2. /\ IsFiniteSet(mem_state \cup B)
        /\ Cardinality(mem_state \cup B)
             = Cardinality(mem_state) + Cardinality(B) - Cardinality(mem_state \cap B)
    BY <1>1, <2>1, FS_Union
  <2> QED
    BY <1>1, <1>2, <2>1, <2>2
<1>4. (Cardinality(mem_state) + n) * block_size
        = Cardinality(mem_state) * block_size + n * block_size
  BY <1>3
<1>5. PluggedCounted'
  BY <1>3, <1>4 DEF MemInv, PluggedCounted, Plug
<1>6. PluggedUsable'
  BY <1>1 DEF MemInv, PluggedUsable, Plug
<1>7. mem_state' \subseteq Nat /\ IsFiniteSet(mem_state')
  BY <1>1, <1>3 DEF MemInv, Plug
<1>8. plugged_size' \in Int
  BY DEF MemInv, Plug
<1>9. requested_size' \in Sizes /\ usable_region_size' \in Int
  BY DEF MemInv, Plug
<1> QED
  BY <1>5, <1>6, <1>7, <1>8, <1>9 DEF MemInv

\* An unplug request that is acknowledged takes away blocks that were counted.
LEMMA UnplugInv ==
  ASSUME MemInv, NEW offset \in Int, NEW n \in Nat, Unplug(offset, n)
  PROVE  MemInv'
<1> DEFINE B == Blocks(offset, n)
<1>1. n > 0 /\ IsFiniteSet(B) /\ Cardinality(B) = n
  BY ValidBlocks DEF MemInv, Unplug, Unpluggable
<1>2. mem_state \cap B = B
  BY DEF Unplug, Unpluggable
<1>3. IsFiniteSet(mem_state \ B) /\ Cardinality(mem_state) \in Nat
      /\ Cardinality(mem_state \ B) = Cardinality(mem_state) - n
  <2>1. IsFiniteSet(mem_state) /\ Cardinality(mem_state) \in Nat
    BY FS_CardinalityType DEF MemInv
  <2>2. /\ IsFiniteSet(mem_state \ B)
        /\ Cardinality(mem_state \ B)
             = Cardinality(mem_state) - Cardinality(mem_state \cap B)
    BY <2>1, FS_Difference
  <2> QED
    BY <1>1, <1>2, <2>1, <2>2
<1>4. (Cardinality(mem_state) - n) * block_size
        = Cardinality(mem_state) * block_size - n * block_size
  BY <1>3
<1>5. PluggedCounted'
  BY <1>3, <1>4 DEF MemInv, PluggedCounted, Unplug
<1>6. PluggedUsable'
  BY DEF MemInv, PluggedUsable, Unplug
<1>7. mem_state' \subseteq Nat /\ IsFiniteSet(mem_state')
  BY <1>3 DEF MemInv, Unplug
<1>8. plugged_size' \in Int
  BY DEF MemInv, Unplug
<1>9. requested_size' \in Sizes /\ usable_region_size' \in Int
  BY DEF MemInv, Unplug
<1> QED
  BY <1>5, <1>6, <1>7, <1>8, <1>9 DEF MemInv

\* An unplug of all blocks that fails half way leaves plugged_size an upper bound.
LEMMA UnplugAllFailsInv ==
  ASSUME MemInv, NEW x \in mem_state, UnplugAllFails(x)
  PROVE  MemInv'
<1>1. mem_state' \in SUBSET mem_state
  BY DEF UnplugAllFails
<1>2. /\ IsFiniteSet(mem_state') /\ Cardinality(mem_state') <= Cardinality(mem_state)
      /\ Cardinality(mem_state') \in Nat /\ Cardinality(mem_state) \in Nat
  BY <1>1, FS_Subset, FS_CardinalityType DEF MemInv
<1>3. Cardinality(mem_state') * block_size <= Cardinality(mem_state) * block_size
  BY <1>2, BlocksMonotone
<1>4. ~drift' => ~drift /\ mem_state' = mem_state
  BY DEF MemInv, UnplugAllFails
<1>5. plugged_size' = plugged_size
  BY DEF UnplugAllFails
<1>6. plugged_size' >= Cardinality(mem_state') * block_size
  BY <1>2, <1>3, <1>5 DEF MemInv, PluggedCounted
<1>7. ~drift' => plugged_size' = Cardinality(mem_state') * block_size
  BY <1>4, <1>5 DEF MemInv, PluggedCounted
<1>8. PluggedUsable'
  BY <1>1 DEF MemInv, PluggedUsable, UnplugAllFails
<1> QED
  BY <1>1, <1>2, <1>4, <1>5, <1>6, <1>7, <1>8
  DEF MemInv, PluggedCounted, UnplugAllFails

\* Every step keeps the invariant.
LEMMA MemStep == MemInv /\ [Next]_vars => MemInv'
<1> SUFFICES ASSUME MemInv, [Next]_vars PROVE MemInv'
  OBVIOUS
<1>1. CASE set_resource
  <2>1. usable_region_size' \in {usable_region_size, Grown(requested_size)}
    BY <1>1 DEF set_resource, Resized
  <2>2. requested_size \in Sizes /\ requested_size' = requested_size
        /\ UNCHANGED <<plugged_size, mem_state, drift>>
    BY <1>1 DEF set_resource, MemInv
  <2> QED
    BY <2>1, <2>2, ResizeInv
<1>2. CASE activate
  BY <1>2 DEF activate, MemInv, PluggedUsable, PluggedCounted
<1>3. ASSUME NEW r \in Sizes, set_requested_size(r) PROVE MemInv'
  <2>1. usable_region_size' \in {usable_region_size, Grown(r)}
    BY <1>3 DEF set_requested_size, Resized, NotResized
  <2>2. requested_size' \in Sizes /\ UNCHANGED <<plugged_size, mem_state, drift>>
    BY <1>3 DEF set_requested_size
  <2> QED
    BY <2>1, <2>2, ResizeInv
<1>4. ASSUME NEW offset \in Offsets, NEW n \in 0 .. MaxBlocks,
             Plug(offset, n) \/ Unplug(offset, n)
      PROVE  MemInv'
  <2>1. offset \in Int /\ n \in Nat
    BY DEF Offsets
  <2> QED
    BY <1>4, <2>1, PlugInv, UnplugInv
<1>5. ASSUME NEW x \in mem_state, UnplugAllFails(x) PROVE MemInv'
  BY <1>5, UnplugAllFailsInv
<1>6. CASE UnplugAll
  BY <1>6, FS_EmptySet DEF UnplugAll, MemInv, PluggedUsable, PluggedCounted
<1>7. CASE UNCHANGED vars
  BY <1>7 DEF vars, MemInv, PluggedUsable, PluggedCounted
<1> QED
  BY <1>1, <1>2, <1>3, <1>4, <1>5, <1>6, <1>7 DEF Next

\* The invariant holds of every behaviour of the device.
LEMMA MemInvariant == Spec => []MemInv
<1> QED
  BY MemInit, MemStep, PTL DEF Spec

\* Whatever sizes the VMM requests, plugged blocks stay in the usable region, so that the
\* guest can unplug them.
THEOREM PluggedStaysUsable == Spec => []PluggedUsable
<1>1. MemInv => PluggedUsable
  BY DEF MemInv
<1> QED
  BY <1>1, MemInvariant, PTL

\* plugged_size never says less than what is plugged, and says exactly that unless an
\* unplug of all blocks failed half way.
THEOREM PluggedIsCounted == Spec => []PluggedCounted
<1>1. MemInv => PluggedCounted
  BY DEF MemInv
<1> QED
  BY <1>1, MemInvariant, PTL

-----------------------------------------------------------------------------
(* The regions that are mapped.                                            *)

\* The map region that the usable region ends in.
Last == IndexOf(usable_region_size)

\* Region m holds the map regions from its slot to last, and these point into it.
Holds(m, last) ==
  /\ m.start = m.slot * VIRTIO_MEM_MAP_REGION_SIZE
  /\ m.len = EndOf(last) - m.start
  /\ \A i \in m.slot .. last :
       map_regions[i] = [slot |-> m.slot, offset |-> (i - m.slot) * VIRTIO_MEM_MAP_REGION_SIZE]

\* Several regions: those up to the end of the usable region are mapped, each once.
ManyMapped ==
  /\ DOMAIN map_regions = 0 .. SlotNum - 1
  /\ usable_region_size = 0 => regions = {} /\ \A i \in 0 .. SlotNum - 1 : map_regions[i] = Unmapped
  /\ usable_region_size > 0 =>
       /\ \A i \in Last + 1 .. SlotNum - 1 : map_regions[i] = Unmapped
       /\ \A i \in 0 .. Last : \E m \in regions : i >= m.slot /\ \E l \in i .. Last : Holds(m, l)
  /\ \A m \in regions : m.slot \in 0 .. Last /\ \E l \in m.slot .. Last : Holds(m, l)
  /\ \A m, n \in regions : m.slot = n.slot => m = n

\* One region: it is mapped with the resources of the device.
OneMapped ==
  state \in {"ready", "active"} =>
    /\ regions = {[slot |-> 0, start |-> 0, len |-> region_size]}
    /\ map_regions = [i \in {0} |-> [slot |-> 0, offset |-> 0]]

\* The inductive invariant of the map: sizes are multiples of a block, the usable region
\* holds what is requested unless the last resize failed, and all of it is mapped.
MapInv ==
  /\ multi_region \in BOOLEAN /\ (multi_region => region_size > VIRTIO_MEM_MAP_REGION_SIZE)
  /\ usable_region_size \in Sizes /\ requested_size \in Sizes
  /\ plugged_size \in Int /\ plugged_size % block_size = 0
  /\ state \in {"new", "ready", "active", "dropped"}
  /\ state \in {"new", "dropped"} => usable_region_size = 0
  /\ state \in {"ready", "active"} /\ ~short => usable_region_size >= requested_size
  /\ IF multi_region THEN ManyMapped ELSE OneMapped

-----------------------------------------------------------------------------
(* Arithmetic of map regions.                                              *)

\* Multiplication by a size is monotone, and strictly so.
LEMMA Scale ==
  ASSUME NEW i \in Int, NEW j \in Int, NEW c \in Nat \ {0}
  PROVE  /\ i <= j => i * c <= j * c
         /\ i * c < j * c => i < j
         /\ (i + 1) * c = i * c + c /\ (i - j) * c = i * c - j * c
<1>1. i <= j => i * c <= j * c
  OBVIOUS
<1>2. (i + 1) * c = i * c + c /\ (i - j) * c = i * c - j * c
  OBVIOUS
<1>3. j <= i => j * c <= i * c
  OBVIOUS
<1>4. i * c \in Int /\ j * c \in Int
  OBVIOUS
<1>5. i * c < j * c => i < j
  BY <1>3, <1>4
<1> QED BY <1>1, <1>2, <1>5

\* The part of a size that an offset lies in.
LEMMA Remainder ==
  ASSUME NEW a \in Int, NEW c \in Int, c > 0
  PROVE  a - (a \div c) * c = a % c
OBVIOUS

\* The same for an offset, with its bounds.
LEMMA Quotient ==
  ASSUME NEW a \in Nat, NEW c \in Nat \ {0}
  PROVE  /\ a \div c \in Nat /\ (a \div c) * c <= a /\ a < (a \div c + 1) * c
         /\ a % c \in Nat /\ a % c < c
         /\ a % c = 0 => a = (a \div c) * c
         /\ a % c > 0 => (a \div c) * c < a
<1>1. a \div c \in Nat /\ a % c \in Nat /\ a % c < c
  OBVIOUS
<1>2. (a \div c) * c <= a
  OBVIOUS
<1>3. a < (a \div c + 1) * c
  OBVIOUS
<1>4. a % c = 0 => a = (a \div c) * c
  OBVIOUS
<1>5. a % c > 0 => (a \div c) * c < a
  OBVIOUS
<1> QED BY <1>1, <1>2, <1>3, <1>4, <1>5

\* An offset is in the first part that ends after it.
LEMMA QuotientIs ==
  ASSUME NEW a \in Nat, NEW c \in Nat \ {0}, NEW i \in Int
  PROVE  /\ i * c <= a => i <= a \div c
         /\ a < (i + 1) * c => a \div c <= i
<1>1. a \div c \in Nat /\ (a \div c) * c <= a /\ a < (a \div c + 1) * c
  BY Quotient
<1>2. ASSUME i * c <= a PROVE i <= a \div c
  <2>1. i * c < (a \div c + 1) * c
    BY <1>1, <1>2
  <2>2. i < a \div c + 1
    BY <1>1, <2>1, Scale
  <2> QED BY <1>1, <2>2
<1>3. ASSUME a < (i + 1) * c PROVE a \div c <= i
  <2>1. (a \div c) * c < (i + 1) * c
    BY <1>1, <1>3
  <2>2. a \div c < i + 1
    BY <1>1, <2>1, Scale
  <2> QED BY <1>1, <2>2
<1> QED BY <1>2, <1>3

\* Multiples of the block size.
LEMMA Multiple ==
  ASSUME NEW a \in Int, NEW c \in Nat \ {0}
  PROVE  a % c = 0 <=> \E k \in Int : a = k * c
<1>1. ASSUME a % c = 0 PROVE \E k \in Int : a = k * c
  <2>1. a \div c \in Int /\ a = (a \div c) * c
    BY <1>1
  <2> QED BY <2>1
<1>2. ASSUME NEW k \in Int, a = k * c PROVE a % c = 0
  <2>1. a \div c \in Int /\ a % c \in 0 .. c - 1
    OBVIOUS
  <2>2. (k - a \div c) * c = a % c
    <3>1. a - (a \div c) * c = a % c
      BY Remainder
    <3>2. (k - a \div c) * c = k * c - (a \div c) * c
      BY <2>1, Scale
    <3> QED BY <1>2, <3>1, <3>2
  <2>3. CASE k - a \div c >= 1
    <3>1. 1 * c <= (k - a \div c) * c
      BY <2>1, <2>3, Scale
    <3> QED BY <2>1, <2>2, <3>1
  <2>4. CASE k - a \div c <= -1
    <3>1. (k - a \div c) * c <= (-1) * c
      BY <2>1, <2>4, Scale
    <3> QED BY <2>1, <2>2, <3>1
  <2>5. CASE k - a \div c = 0
    BY <2>2, <2>5
  <2> QED BY <2>1, <2>3, <2>4, <2>5
<1> QED BY <1>1, <1>2

\* What is made of blocks is a multiple of their size.
LEMMA MultipleIs ==
  ASSUME NEW k \in Int, NEW c \in Nat \ {0}
  PROVE  (k * c) % c = 0
<1>1. k * c \in Int
  OBVIOUS
<1> QED BY <1>1, Multiple

\* The number of map regions of a device with several.
LEMMA SlotFacts ==
  ASSUME multi_region = TRUE, region_size > VIRTIO_MEM_MAP_REGION_SIZE
  PROVE  /\ SlotNum = get_map_regions_num /\ SlotNum \in Nat /\ SlotNum > 1
         /\ (SlotNum - 1) * VIRTIO_MEM_MAP_REGION_SIZE < region_size
         /\ region_size <= SlotNum * VIRTIO_MEM_MAP_REGION_SIZE
<1> DEFINE c == VIRTIO_MEM_MAP_REGION_SIZE
           q == region_size \div c
<1>1. /\ q \in Nat /\ q * c <= region_size /\ region_size < (q + 1) * c
      /\ region_size % c \in Nat
      /\ region_size % c = 0 => region_size = q * c
      /\ region_size % c > 0 => q * c < region_size
  BY Quotient
<1>2. SlotNum = q + (IF region_size % c > 0 THEN 1 ELSE 0)
  BY DEF SlotNum, get_map_regions_num
<1>3. q >= 1
  <2>1. 1 * c <= region_size
    OBVIOUS
  <2> QED BY <2>1, QuotientIs
<1> HIDE DEF q
<1>4. CASE region_size % c > 0
  <2>1. SlotNum = q + 1
    BY <1>2, <1>4
  <2> QED BY <2>1, <1>1, <1>3, <1>4 DEF SlotNum
<1>5. CASE ~(region_size % c > 0)
  <2>1. SlotNum = q /\ region_size = q * c /\ region_size > c
    BY <1>1, <1>2, <1>5
  <2>2. (q - 1) * c = q * c - c /\ q > 1
    <3>1. 1 * c < q * c
      BY <2>1
    <3> QED BY <1>1, <3>1, Scale
  <2> QED BY <2>1, <2>2, <1>1 DEF SlotNum
<1> QED BY <1>4, <1>5

\* The map region of an offset of the device, and the offsets of a map region.
LEMMA IndexFacts ==
  ASSUME multi_region = TRUE, region_size > VIRTIO_MEM_MAP_REGION_SIZE,
         NEW a \in 0 .. region_size
  PROVE  /\ IndexOf(a) \in 0 .. SlotNum - 1
         /\ \A b \in 0 .. region_size : a <= b => IndexOf(a) <= IndexOf(b)
         /\ a = 0 => IndexOf(a) = 0
         /\ a < region_size =>
              /\ a \div VIRTIO_MEM_MAP_REGION_SIZE = IndexOf(a)
              /\ a < EndOf(IndexOf(a))
              /\ IndexOf(a) * VIRTIO_MEM_MAP_REGION_SIZE <= a
              /\ \A l \in 0 .. SlotNum - 1 : a < EndOf(l) => IndexOf(a) <= l
              /\ \A j \in Int : j * VIRTIO_MEM_MAP_REGION_SIZE <= a => j <= IndexOf(a)
<1> DEFINE c == VIRTIO_MEM_MAP_REGION_SIZE
           K == SlotNum
<1>1. K \in Nat /\ K > 1 /\ (K - 1) * c < region_size /\ region_size <= K * c
  BY SlotFacts
<1>2. \A b \in 0 .. region_size : b \div c \in Nat /\ IndexOf(b) = Least(b \div c, K - 1)
  BY Quotient DEF IndexOf
<1>3. \A b \in 0 .. region_size : a <= b => a \div c <= b \div c
  <2> SUFFICES ASSUME NEW b \in 0 .. region_size, a <= b PROVE a \div c <= b \div c
    OBVIOUS
  <2>1. (a \div c) * c <= b /\ a \div c \in Nat /\ b \in Nat
    BY Quotient
  <2> QED BY <2>1, QuotientIs
<1>4. IndexOf(a) \in 0 .. K - 1 /\ \A b \in 0 .. region_size : a <= b => IndexOf(a) <= IndexOf(b)
  <2> HIDE DEF c, K
  <2> QED BY <1>1, <1>2, <1>3 DEF Least
<1>5. a = 0 => IndexOf(a) = 0
  <2> SUFFICES ASSUME a = 0 PROVE IndexOf(a) = 0
    OBVIOUS
  <2>1. 0 \div c <= 0 /\ 0 \div c \in Nat
    BY QuotientIs, Quotient
  <2> QED BY <2>1, <1>1, <1>2 DEF Least
<1>6. ASSUME a < region_size
      PROVE  /\ a \div c = IndexOf(a)
             /\ a < EndOf(IndexOf(a))
             /\ IndexOf(a) * c <= a
             /\ \A l \in 0 .. K - 1 : a < EndOf(l) => IndexOf(a) <= l
             /\ \A j \in Int : j * c <= a => j <= IndexOf(a)
  <2>1. a \div c \in Nat /\ (a \div c) * c <= a /\ a < (a \div c + 1) * c
    BY Quotient
  <2>2. a \div c <= K - 1
    <3>1. a < ((K - 1) + 1) * c /\ K - 1 \in Int
      BY <1>1, <1>6
    <3> QED BY <3>1, QuotientIs
  <2>3. a \div c = IndexOf(a)
    BY <1>1, <1>2, <2>1, <2>2 DEF Least
  <2>4. a < EndOf(IndexOf(a))
    BY <2>1, <2>3, <1>6 DEF EndOf
  <2>5. ASSUME NEW l \in 0 .. K - 1, a < EndOf(l) PROVE IndexOf(a) <= l
    <3>1. CASE l + 1 = K
      BY <3>1, <1>1, <1>4
    <3>2. CASE l + 1 # K
      <4>1. a < (l + 1) * c
        BY <2>5, <3>2 DEF EndOf
      <4> QED BY <4>1, <2>3, QuotientIs
    <3> QED BY <3>1, <3>2
  <2>6. \A j \in Int : j * c <= a => j <= IndexOf(a)
    BY <2>3, QuotientIs
  <2> QED BY <2>1, <2>3, <2>4, <2>5, <2>6
<1> QED BY <1>4, <1>5, <1>6

\* A later map region does not end earlier.
LEMMA EndMonotone ==
  ASSUME multi_region = TRUE, region_size > VIRTIO_MEM_MAP_REGION_SIZE,
         NEW i \in 0 .. SlotNum - 1, NEW j \in i .. SlotNum - 1
  PROVE  EndOf(i) \in Int /\ EndOf(j) \in Int /\ EndOf(i) <= EndOf(j)
<1> DEFINE c == VIRTIO_MEM_MAP_REGION_SIZE
           K == SlotNum
<1>1. K \in Nat /\ (K - 1) * c < region_size
  BY SlotFacts
<1> HIDE DEF K
<1>2. i \in Int /\ j \in Int /\ i <= j /\ j <= K - 1
  BY <1>1 DEF K
<1>3. (i + 1) * c <= (j + 1) * c
  BY <1>2, Scale
<1>4. i + 1 # K => (i + 1) * c <= (K - 1) * c
  BY <1>1, <1>2, Scale
<1>5. (i + 1) * c \in Int /\ (j + 1) * c \in Int /\ (K - 1) * c \in Int
  BY <1>1, <1>2
<1>6. EndOf(i) = (IF i + 1 = K THEN region_size ELSE (i + 1) * c)
      /\ EndOf(j) = (IF j + 1 = K THEN region_size ELSE (j + 1) * c)
  BY DEF EndOf, K
<1> QED BY <1>1, <1>2, <1>3, <1>4, <1>5, <1>6

-----------------------------------------------------------------------------
(* A resize maps the memory that becomes usable.                           *)

\* The usable size for a requested size is a size of the device and is enough.
LEMMA NewSizeFacts ==
  ASSUME NEW r \in Sizes, usable_region_size \in Sizes
  PROVE  /\ NewSize(r) \in Sizes /\ NewSize(r) >= r
         /\ Grown(r) \in Sizes /\ Grown(r) >= r /\ Grown(r) >= usable_region_size
         /\ Grown(r) = IF NewSize(r) < usable_region_size THEN usable_region_size ELSE NewSize(r)
<1> DEFINE s == Least(region_size, r + 2 * alignment)
<1>1. r \in Nat /\ r <= region_size /\ r % block_size = 0 /\ usable_region_size \in Nat
  BY DEF Sizes
<1>2. s \in Nat /\ r <= s /\ s <= region_size
  BY <1>1 DEF Least
<1>3. s % block_size \in Nat /\ s - (s % block_size) = (s \div block_size) * block_size
      /\ s \div block_size \in Nat
  <2> HIDE DEF s
  <2>1. s \div block_size \in Nat /\ s % block_size \in Nat
    BY <1>2, Quotient
  <2>2. s - (s \div block_size) * block_size = s % block_size
    BY <1>2, Remainder
  <2>3. (s \div block_size) * block_size \in Int
    BY <2>1
  <2> DEFINE p == (s \div block_size) * block_size
             m == s % block_size
  <2>4. s - p = m /\ p \in Int /\ m \in Nat
    BY <2>1, <2>2, <2>3
  <2> HIDE DEF p, m
  <2>5. s - m = p
    BY <2>4, <1>2
  <2> QED BY <2>1, <2>5 DEF p, m
<1>4. r <= (s \div block_size) * block_size /\ (s \div block_size) * block_size <= region_size
  <2> HIDE DEF s
  <2>1. PICK k \in Int : r = k * block_size
    BY <1>1, Multiple
  <2>2. k <= s \div block_size
    BY <1>2, <2>1, QuotientIs
  <2>3. k * block_size <= (s \div block_size) * block_size
    BY <1>3, <2>2, Scale
  <2>4. (s \div block_size) * block_size <= s
    BY <1>2, Quotient
  <2>5. (s \div block_size) * block_size \in Int
    BY <1>3
  <2> QED BY <1>2, <2>1, <2>3, <2>4, <2>5
<1>5. ((s \div block_size) * block_size) % block_size = 0 /\ 0 % block_size = 0
  <2> HIDE DEF s
  <2>1. (s \div block_size) * block_size \in Int /\ s \div block_size \in Int /\ 0 = 0 * block_size
    BY <1>3
  <2>2. (0 * block_size) % block_size = 0 /\ ((s \div block_size) * block_size) % block_size = 0
    BY <2>1, MultipleIs
  <2> QED BY <2>1, <2>2
<1>6. NewSize(r) = IF r = 0 THEN 0 ELSE (s \div block_size) * block_size
  BY <1>3 DEF NewSize
<1> HIDE DEF s
<1>7. (s \div block_size) * block_size \in Nat
  BY <1>3
<1>8. NewSize(r) \in Sizes /\ NewSize(r) >= r
  BY <1>1, <1>4, <1>5, <1>6, <1>7 DEF Sizes
<1>9. Grown(r) = IF NewSize(r) < usable_region_size THEN usable_region_size ELSE NewSize(r)
  BY DEF Grown
<1>10. NewSize(r) \in Nat
  BY <1>8 DEF Sizes
<1> QED BY <1>1, <1>8, <1>9, <1>10

\* A mapped index has a slot.
LEMMA MappedIndex ==
  ASSUME NEW m, NEW l, NEW i \in m.slot .. l, Holds(m, l), m.slot \in Nat
  PROVE  map_regions[i] # Unmapped
<1>1. map_regions[i] = [slot |-> m.slot, offset |-> (i - m.slot) * VIRTIO_MEM_MAP_REGION_SIZE]
  BY DEF Holds
<1>2. map_regions[i].slot = m.slot
  BY <1>1
<1>3. Unmapped.slot = -1
  BY DEF Unmapped
<1> QED BY <1>2, <1>3

\* MapFrom: the indexes after the mapped ones get a region of their own.
LEMMA NewRegion ==
  ASSUME ManyMapped, multi_region = TRUE, region_size > VIRTIO_MEM_MAP_REGION_SIZE,
         usable_region_size \in Sizes, usable_region_size' \in Sizes, usable_region_size' > 0,
         multi_region' = multi_region,
         NEW first \in Nat, NEW last \in 0 .. SlotNum - 1, first <= last, Last' = last,
         \/ usable_region_size = 0 /\ first = 0
         \/ usable_region_size > 0 /\ first = Last + 1,
         MapFrom(first, last)
  PROVE  ManyMapped'
<1> DEFINE K == SlotNum
<1>0. PICK new : new = [slot |-> first, start |-> first * VIRTIO_MEM_MAP_REGION_SIZE,
                        len |-> EndOf(last) - first * VIRTIO_MEM_MAP_REGION_SIZE]
  OBVIOUS
<1>1. K \in Nat /\ K > 1 /\ SlotNum' = K /\ \A i \in Int : EndOf(i)' = EndOf(i)
  BY SlotFacts DEF SlotNum, EndOf
<1>2. Last \in 0 .. K - 1
  BY IndexFacts DEF Last, Sizes
<1>3. /\ DOMAIN map_regions = 0 .. K - 1 /\ DOMAIN map_regions' = 0 .. K - 1
      /\ regions' = regions \cup {new}
  BY <1>0 DEF ManyMapped, MapFrom
<1>4. \A i \in first .. last :
        map_regions'[i] = [slot |-> first, offset |-> (i - first) * VIRTIO_MEM_MAP_REGION_SIZE]
  BY <1>1, <1>3 DEF MapFrom
<1>5. \A i \in 0 .. K - 1 : i \notin first .. last => map_regions'[i] = map_regions[i]
  BY <1>3 DEF MapFrom
<1>6. new.slot = first /\ new.start = first * VIRTIO_MEM_MAP_REGION_SIZE
      /\ new.len = EndOf(last) - new.start
  BY <1>0
<1> HIDE DEF K
<1>7. Holds(new, last)'
  <2>1. new.start = new.slot * VIRTIO_MEM_MAP_REGION_SIZE /\ new.len = EndOf(last)' - new.start
    BY <1>1, <1>6
  <2> QED BY <2>1, <1>4, <1>6 DEF Holds
<1>8. \A m \in regions : m.slot \in 0 .. first - 1 /\ usable_region_size > 0
  BY <1>2 DEF ManyMapped
<1>9. ASSUME NEW m \in regions, NEW l \in m.slot .. Last, Holds(m, l)
      PROVE  Holds(m, l)' /\ l \in 0 .. first - 1 /\ l \in m.slot .. last
  <2>1. m.slot \in Nat /\ l \in Nat /\ l < first /\ first = Last + 1
    BY <1>2, <1>8, <1>9
  <2>2. \A i \in m.slot .. l : map_regions'[i] = map_regions[i]
    BY <1>1, <1>5, <2>1 DEF K
  <2>3. m.len = EndOf(l)' - m.start
    BY <1>1, <1>9, <2>1 DEF Holds
  <2>4. Holds(m, l)'
    BY <1>9, <2>2, <2>3 DEF Holds
  <2> QED BY <2>1, <2>4
<1>10. \A i \in last + 1 .. K - 1 : map_regions'[i] = Unmapped
  <2> SUFFICES ASSUME NEW i \in last + 1 .. K - 1 PROVE map_regions'[i] = Unmapped
    OBVIOUS
  <2>1. map_regions'[i] = map_regions[i] /\ i \in 0 .. K - 1 /\ i > first
    BY <1>1, <1>5
  <2> QED BY <2>1, <1>2 DEF ManyMapped, K
<1>11. ASSUME NEW i \in 0 .. last
       PROVE  \E m \in regions' : i >= m.slot /\ \E l \in i .. last : Holds(m, l)'
  <2>1. CASE i >= first
    <3>1. new \in regions' /\ i >= new.slot /\ last \in i .. last
      BY <2>1, <1>3, <1>6
    <3> QED BY <3>1, <1>7
  <2>2. CASE i < first
    <3>1. usable_region_size > 0 /\ i \in 0 .. Last
      BY <2>2, <1>2
    <3>2. PICK m \in regions : i >= m.slot /\ \E l \in i .. Last : Holds(m, l)
      BY <3>1 DEF ManyMapped
    <3>3. PICK l \in i .. Last : Holds(m, l)
      BY <3>2
    <3>4. m.slot \in Nat /\ l \in m.slot .. Last
      BY <1>8, <3>2, <3>3, <1>2
    <3>5. Holds(m, l)' /\ l \in i .. last
      BY <1>9, <3>3, <3>4
    <3> QED BY <3>2, <3>5, <1>3
  <2> QED BY <2>1, <2>2
<1>12. ASSUME NEW m \in regions'
       PROVE  m.slot \in 0 .. last /\ \E l \in m.slot .. last : Holds(m, l)'
  <2>1. CASE m = new
    BY <2>1, <1>6, <1>7
  <2>2. CASE m \in regions
    <3>1. PICK l \in m.slot .. Last : Holds(m, l)
      BY <2>2 DEF ManyMapped
    <3>2. Holds(m, l)' /\ l \in m.slot .. last /\ m.slot \in Nat
      BY <1>8, <1>9, <2>2, <3>1
    <3> QED BY <3>2
  <2> QED BY <1>3, <2>1, <2>2
<1>13. \A m, n \in regions' : m.slot = n.slot => m = n
  <2>1. \A m \in regions : m.slot # new.slot
    BY <1>6, <1>8
  <2> QED BY <1>3, <2>1 DEF ManyMapped
<1>14. /\ DOMAIN map_regions' = 0 .. SlotNum' - 1
       /\ usable_region_size' # 0
       /\ \A i \in Last' + 1 .. SlotNum' - 1 : map_regions'[i] = Unmapped
       /\ \A i \in 0 .. Last' : \E m \in regions' : i >= m.slot /\ \E l \in i .. Last' : Holds(m, l)'
       /\ \A m \in regions' : m.slot \in 0 .. Last' /\ \E l \in m.slot .. Last' : Holds(m, l)'
  BY <1>1, <1>3, <1>10, <1>11, <1>12
<1> QED BY <1>13, <1>14 DEF ManyMapped

\* virtio_mem_resize_usable_region of a device with several regions.
LEMMA ResizedMany ==
  ASSUME ManyMapped, multi_region = TRUE, region_size > VIRTIO_MEM_MAP_REGION_SIZE,
         usable_region_size \in Sizes, multi_region' = multi_region, NEW r \in Sizes, Resized(r)
  PROVE  ManyMapped'
<1> DEFINE K == SlotNum
           new == NewSize(r)
           last == IndexOf(new)
<1>1. new \in Sizes /\ usable_region_size' \in Sizes
      /\ usable_region_size' = IF new < usable_region_size THEN usable_region_size ELSE new
  BY NewSizeFacts DEF Resized
<1>2. new \in 0 .. region_size /\ usable_region_size \in 0 .. region_size
  BY <1>1 DEF Sizes
<1>3. K \in Nat /\ K > 1 /\ SlotNum' = K /\ \A i \in Int : EndOf(i)' = EndOf(i)
  BY SlotFacts DEF SlotNum, EndOf
<1>4. last \in 0 .. K - 1 /\ Last \in 0 .. K - 1 /\ (usable_region_size = 0 => Last = 0)
      /\ (usable_region_size <= new => Last <= last)
  BY <1>2, IndexFacts DEF Last
<1>5. \A a \in Int : IndexOf(a)' = IndexOf(a)
  BY DEF IndexOf, SlotNum
<1>6. Last' = IF new < usable_region_size THEN Last ELSE last
  BY <1>1 DEF Last, IndexOf, SlotNum
<1>7. ASSUME usable_region_size > 0 PROVE \A i \in 0 .. Last : map_regions[i] # Unmapped
  <2> SUFFICES ASSUME NEW i \in 0 .. Last PROVE map_regions[i] # Unmapped
    OBVIOUS
  <2>1. PICK m \in regions : i >= m.slot /\ \E l \in i .. Last : Holds(m, l)
    BY <1>7 DEF ManyMapped
  <2>2. PICK l \in i .. Last : Holds(m, l)
    BY <2>1
  <2>3. m.slot \in Nat /\ i \in m.slot .. l
    BY <2>1, <2>2, <1>4 DEF ManyMapped
  <2> QED BY <2>2, <2>3, MappedIndex
<1>8. NewIndexes(r) = {i \in Last .. last : \E j \in Last .. last : j <= i /\ map_regions[j] = Unmapped}
  BY DEF NewIndexes, Last
<1> HIDE DEF K, new, last
<1>9. CASE NeedsRegion(r)
  <2>1. PICK first \in NewIndexes(r) :
          (\A i \in NewIndexes(r) : first <= i) /\ MapFrom(first, last)
    BY <1>9 DEF Resized, last, new
  <2>2. new > usable_region_size
    BY <1>9 DEF NeedsRegion, new
  <2>3. usable_region_size' = new /\ Last' = last /\ usable_region_size' > 0
    BY <2>2, <1>1, <1>2, <1>6
  <2>4. first \in Last .. last /\ first \in Nat
    BY <2>1, <1>8, <1>4, <1>3
  <2>5. CASE usable_region_size = 0
    <3>1. map_regions[0] = Unmapped /\ Last = 0
      BY <2>5, <1>3, <1>4 DEF ManyMapped, K
    <3>2. 0 \in NewIndexes(r)
      BY <3>1, <1>3, <1>4, <1>8
    <3>3. first = 0
      BY <3>2, <2>1, <2>4
    <3> QED BY <3>3, <2>1, <2>3, <2>4, <2>5, <1>1, <1>4, NewRegion DEF K
  <2>6. CASE usable_region_size > 0
    <3>1. map_regions[Last] # Unmapped
      BY <2>6, <1>4, <1>7
    <3>2. PICK j \in Last .. last : j <= first /\ map_regions[j] = Unmapped
      BY <2>1, <1>8
    <3>3. j # Last /\ Last + 1 <= j
      BY <3>1, <3>2, <1>4
    <3>4. Last + 1 \in Last .. last /\ Last + 1 \in Last + 1 .. K - 1
      BY <3>2, <3>3, <1>3, <1>4
    <3>5. map_regions[Last + 1] = Unmapped
      BY <2>6, <3>4 DEF ManyMapped, K
    <3>6. Last + 1 \in NewIndexes(r)
      BY <3>4, <3>5, <1>8, <1>4
    <3>7. first = Last + 1
      BY <3>2, <3>3, <3>6, <2>1, <2>4, <1>4
    <3> QED BY <3>7, <2>1, <2>3, <2>4, <2>6, <1>1, <1>4, NewRegion DEF K
  <2> QED BY <2>5, <2>6, <1>2
<1>10. CASE ~NeedsRegion(r)
  <2>1. map_regions' = map_regions /\ regions' = regions
    BY <1>10 DEF Resized
  <2>2. usable_region_size' = usable_region_size \/ (NewIndexes(r) = {} /\ new > usable_region_size)
    BY <1>10, <1>1, <1>2 DEF NeedsRegion, new
  <2>3. Last' = Last /\ (usable_region_size' = 0 <=> usable_region_size = 0)
    <3>1. CASE usable_region_size' = usable_region_size
      BY <3>1 DEF Last, IndexOf, SlotNum
    <3>2. CASE NewIndexes(r) = {} /\ new > usable_region_size
      <4>1. Last' = last /\ usable_region_size' = new /\ Last <= last
        BY <3>2, <1>1, <1>2, <1>4, <1>6
      <4>2. \A i \in Last .. last : map_regions[i] # Unmapped
        BY <3>2, <1>8, <1>4
      <4>3. usable_region_size > 0
        <5>1. CASE usable_region_size = 0
          <6>1. map_regions[0] = Unmapped /\ Last = 0
            BY <5>1, <1>3, <1>4 DEF ManyMapped, K
          <6> QED BY <6>1, <4>1, <4>2, <1>4
        <5> QED BY <5>1, <1>2
      <4>4. last <= Last
        <5>1. CASE last > Last
          <6>1. last \in Last + 1 .. K - 1 /\ last \in Last .. last
            BY <5>1, <1>3, <1>4
          <6> QED BY <6>1, <4>2, <4>3 DEF ManyMapped, K
        <5> QED BY <5>1, <1>4
      <4> QED BY <4>1, <4>3, <4>4, <3>2, <1>2, <1>4
    <3> QED BY <2>2, <3>1, <3>2
  <2>4. \A m, l : l \in Int => (Holds(m, l)' <=> Holds(m, l))
    BY <2>1, <1>3 DEF Holds
  <2>5. usable_region_size' > 0 <=> usable_region_size > 0
    BY <2>3, <1>1, <1>2 DEF Sizes
  <2>6. /\ \A m \in regions : m.slot \in 0 .. Last /\ \E l \in m.slot .. Last : Holds(m, l)'
        /\ usable_region_size > 0 =>
             \A i \in 0 .. Last : \E m \in regions : i >= m.slot /\ \E l \in i .. Last : Holds(m, l)'
    BY <2>4 DEF ManyMapped
  <2> QED BY <2>1, <2>3, <2>5, <2>6, <1>3 DEF ManyMapped, K
<1> QED BY <1>9, <1>10

\* What is mapped depends on the map, the regions and the usable size only.
LEMMA SameMany ==
  ASSUME UNCHANGED <<multi_region, usable_region_size, map_regions, regions>>
  PROVE  ManyMapped' <=> ManyMapped
BY DEF ManyMapped, Holds, Last, IndexOf, EndOf, SlotNum

\* set_resource and set_requested_size: the memory that becomes usable is mapped.
LEMMA ResizeMap ==
  ASSUME MapInv, NEW r \in Sizes, requested_size' = r, state' \in {"ready", "active"},
         state' = "active" => state # "new", UNCHANGED <<multi_region, plugged_size>>,
         \/ Resized(r) /\ (multi_region \/ OneMapped')
         \/ NotResized(r) /\ state \in {"ready", "active"}
         \/ ~multi_region /\ OneMapped' /\ usable_region_size' = Grown(r)
  PROVE  MapInv'
<1>1. usable_region_size \in Sizes /\ requested_size' \in Sizes
  BY DEF MapInv
<1>2. Grown(r) \in Sizes /\ Grown(r) >= r
  BY <1>1, NewSizeFacts
<1>3. CASE Resized(r) /\ multi_region
  <2>1. multi_region = TRUE /\ region_size > VIRTIO_MEM_MAP_REGION_SIZE /\ ManyMapped
    BY <1>3 DEF MapInv
  <2>2. ManyMapped'
    BY <2>1, <1>1, <1>3, ResizedMany
  <2>3. usable_region_size' = Grown(r)
    BY <1>3 DEF Resized
  <2> QED BY <2>1, <2>2, <2>3, <1>1, <1>2 DEF MapInv
<1>4. CASE ~multi_region /\ OneMapped' /\ usable_region_size' = Grown(r)
  BY <1>1, <1>2, <1>4 DEF MapInv
<1>5. CASE Resized(r) /\ ~multi_region /\ OneMapped'
  BY <1>4, <1>5 DEF Resized
<1>6. CASE NotResized(r) /\ state \in {"ready", "active"}
  <2>1. multi_region /\ short' /\ UNCHANGED <<usable_region_size, map_regions, regions>>
    BY <1>6 DEF NotResized, NeedsRegion
  <2>2. ManyMapped
    BY <2>1 DEF MapInv
  <2>3. ManyMapped'
    BY <2>1, <2>2, SameMany
  <2> QED BY <2>1, <2>3, <1>1, <1>6 DEF MapInv
<1> QED BY <1>3, <1>4, <1>5, <1>6

\* The requests of the guest do not change what is mapped.
LEMMA SameMap ==
  ASSUME MapInv, state' = state \/ (state = "ready" /\ state' = "active") \/ (state = "new" /\ state' = "dropped"),
         plugged_size' \in Int, plugged_size' % block_size = 0,
         UNCHANGED <<multi_region, requested_size, usable_region_size, map_regions, regions, short>>
  PROVE  MapInv'
<1>1. ManyMapped' <=> ManyMapped
  BY SameMany
<1>2. ~multi_region => OneMapped'
  BY DEF MapInv, OneMapped
<1> QED BY <1>1, <1>2 DEF MapInv

\* A device starts with nothing mapped.
LEMMA MapInit == Init => MapInv
<1> SUFFICES ASSUME Init PROVE MapInv
  OBVIOUS
<1>1. 0 % block_size = 0
  OBVIOUS
<1>2. multi_region => ManyMapped
  <2> SUFFICES ASSUME multi_region PROVE ManyMapped
    OBVIOUS
  <2>1. multi_region = TRUE /\ region_size > VIRTIO_MEM_MAP_REGION_SIZE
    BY DEF Init
  <2>2. SlotNum \in Nat
    BY <2>1, SlotFacts
  <2> QED BY <2>2 DEF Init, ManyMapped
<1>3. OneMapped
  BY DEF Init, OneMapped
<1> QED BY <1>1, <1>2, <1>3 DEF Init, MapInv, Sizes

\* Every step keeps the map.
LEMMA MapStep == MapInv /\ [Next]_vars => MapInv'
<1> SUFFICES ASSUME MapInv, [Next]_vars PROVE MapInv'
  OBVIOUS
<1>0. plugged_size \in Int /\ plugged_size % block_size = 0 /\ requested_size \in Sizes
  BY DEF MapInv
<1>1. CASE set_resource
  <2>1. CASE state' = "dropped" /\ UNCHANGED <<usable_region_size, map_regions, regions, short>>
    BY <1>0, <1>1, <2>1, SameMap DEF set_resource
  <2>2. CASE state' = "ready" /\ multi_region /\ Resized(requested_size)
    BY <1>0, <1>1, <2>2, ResizeMap DEF set_resource
  <2>3. CASE /\ state' = "ready" /\ ~multi_region
             /\ regions' = {[slot |-> 0, start |-> 0, len |-> region_size]}
             /\ map_regions' = [i \in {0} |-> [slot |-> 0, offset |-> 0]]
             /\ usable_region_size' = Grown(requested_size)
    <3>1. OneMapped'
      BY <2>3 DEF OneMapped
    <3> QED BY <1>0, <1>1, <2>3, <3>1, ResizeMap DEF set_resource
  <2> QED BY <1>1, <2>1, <2>2, <2>3 DEF set_resource
<1>2. CASE activate
  BY <1>0, <1>2, SameMap DEF activate
<1>3. ASSUME NEW r \in Sizes, set_requested_size(r) PROVE MapInv'
  <2>1. CASE Resized(r)
    <3>1. ~multi_region => OneMapped'
      <4> SUFFICES ASSUME ~multi_region PROVE OneMapped'
        OBVIOUS
      <4>1. UNCHANGED <<state, map_regions, regions>>
        BY <1>3, <2>1 DEF Resized, NeedsRegion, set_requested_size
      <4> QED BY <4>1 DEF MapInv, OneMapped
    <3> QED BY <3>1, <2>1, <1>3, ResizeMap DEF set_requested_size
  <2>2. CASE NotResized(r)
    BY <2>2, <1>3, ResizeMap DEF set_requested_size
  <2> QED BY <2>1, <2>2, <1>3 DEF set_requested_size
<1>4. ASSUME NEW offset \in Offsets, NEW n \in 0 .. MaxBlocks,
             Plug(offset, n) \/ Unplug(offset, n)
      PROVE  MapInv'
  <2>1. PICK k \in Int : plugged_size = k * block_size
    BY <1>0, Multiple
  <2>2. n \in Int
    OBVIOUS
  <2>3. plugged_size' = k * block_size + n * block_size \/ plugged_size' = k * block_size - n * block_size
    BY <1>4, <2>1 DEF Plug, Unplug
  <2>4. k * block_size + n * block_size = (k + n) * block_size
        /\ k * block_size - n * block_size = (k - n) * block_size
    BY <2>2
  <2>5. plugged_size' \in Int /\ plugged_size' % block_size = 0
    <3>1. ((k + n) * block_size) % block_size = 0 /\ ((k - n) * block_size) % block_size = 0
      BY <2>2, MultipleIs
    <3>2. (k + n) * block_size \in Int /\ (k - n) * block_size \in Int
      BY <2>2
    <3> QED BY <3>1, <3>2, <2>3, <2>4
  <2> QED BY <2>5, <1>4, SameMap DEF Plug, Unplug
<1>5. ASSUME NEW x \in mem_state, UnplugAllFails(x) PROVE MapInv'
  BY <1>0, <1>5, SameMap DEF UnplugAllFails
<1>6. CASE UnplugAll
  <2>1. 0 % block_size = 0
    OBVIOUS
  <2> QED BY <2>1, <1>6, SameMap DEF UnplugAll
<1>7. CASE UNCHANGED vars
  BY <1>0, <1>7, SameMap DEF vars
<1> QED
  BY <1>1, <1>2, <1>3, <1>4, <1>5, <1>6, <1>7 DEF Next

\* The map holds of every behaviour of the device.
LEMMA MapInvariant == Spec => []MapInv
<1> QED
  BY MapInit, MapStep, PTL DEF Spec

\* An offset of the usable region lies in the one region its map region points to.
LEMMA Covered ==
  ASSUME MapInv, multi_region, NEW offset \in 0 .. usable_region_size - 1
  PROVE  \E m \in regions :
           /\ {k \in regions : k.start <= offset /\ offset < k.start + k.len} = {m}
           /\ offset \div VIRTIO_MEM_MAP_REGION_SIZE \in DOMAIN map_regions
           /\ map_regions[offset \div VIRTIO_MEM_MAP_REGION_SIZE] # Unmapped
           /\ map_regions[offset \div VIRTIO_MEM_MAP_REGION_SIZE].slot = m.slot
           /\ map_regions[offset \div VIRTIO_MEM_MAP_REGION_SIZE].offset
                = (offset \div VIRTIO_MEM_MAP_REGION_SIZE) * VIRTIO_MEM_MAP_REGION_SIZE - m.start
<1> DEFINE c == VIRTIO_MEM_MAP_REGION_SIZE
           K == SlotNum
           i == IndexOf(offset)
<1>1. multi_region = TRUE /\ region_size > c /\ ManyMapped
  BY DEF MapInv
<1>2. /\ usable_region_size \in Nat /\ usable_region_size <= region_size
      /\ offset \in 0 .. region_size /\ offset < region_size /\ offset <= usable_region_size
      /\ usable_region_size \in 0 .. region_size /\ usable_region_size > 0 /\ offset \in Nat
  BY DEF MapInv, Sizes
<1>3. K \in Nat /\ K > 1
  BY <1>1, SlotFacts
<1>4. /\ i \in 0 .. K - 1 /\ i <= Last /\ offset \div c = i
      /\ offset < EndOf(i) /\ i * c <= offset
      /\ \A l \in 0 .. K - 1 : offset < EndOf(l) => i <= l
      /\ \A j \in Int : j * c <= offset => j <= i
  BY <1>1, <1>2, IndexFacts DEF Last
<1>5. Last \in 0 .. K - 1
  BY <1>1, <1>2, IndexFacts DEF Last
<1> HIDE DEF i, K, c
<1>6. PICK m \in regions : i >= m.slot /\ \E l \in i .. Last : Holds(m, l)
  BY <1>1, <1>2, <1>3, <1>4, <1>5 DEF ManyMapped
<1>7. PICK l \in i .. Last : Holds(m, l)
  BY <1>6
<1>8. m.slot \in Nat /\ i \in m.slot .. l /\ l \in i .. K - 1
  BY <1>1, <1>3, <1>4, <1>5, <1>6, <1>7 DEF ManyMapped
<1>9. /\ map_regions[i] = [slot |-> m.slot, offset |-> (i - m.slot) * c]
      /\ m.start = m.slot * c /\ m.len = EndOf(l) - m.start
  BY <1>7, <1>8 DEF Holds, c
<1>10. map_regions[i] # Unmapped
  BY <1>7, <1>8, MappedIndex
<1>11. map_regions[i].slot = m.slot /\ map_regions[i].offset = i * c - m.start
  <2>1. map_regions[i].slot = m.slot /\ map_regions[i].offset = (i - m.slot) * c
    BY <1>9
  <2>2. (i - m.slot) * c = i * c - m.slot * c
    BY <1>3, <1>4, <1>8, Scale DEF c
  <2> QED BY <2>1, <2>2, <1>9
<1>12. m.start <= offset /\ offset < m.start + m.len
  <2>1. EndOf(i) \in Int /\ EndOf(l) \in Int /\ EndOf(i) <= EndOf(l)
    BY <1>1, <1>4, <1>8, EndMonotone DEF K, c
  <2>2. m.slot * c <= i * c /\ m.slot * c \in Int /\ i * c \in Int
    BY <1>3, <1>4, <1>6, <1>8, Scale DEF c
  <2> QED BY <2>1, <2>2, <1>2, <1>4, <1>9
<1>13. ASSUME NEW k \in regions, k.start <= offset, offset < k.start + k.len
       PROVE  k = m
  <2>1. PICK e \in k.slot .. Last : Holds(k, e)
    BY <1>1 DEF ManyMapped
  <2>2. k.slot \in Nat /\ e \in 0 .. K - 1 /\ k.slot \in 0 .. K - 1
    BY <1>1, <1>3, <1>5, <2>1 DEF ManyMapped
  <2>3. k.start = k.slot * c /\ k.len = EndOf(e) - k.start
    BY <2>1 DEF Holds, c
  <2>4. EndOf(e) \in Int /\ k.slot * c \in Int
    BY <1>1, <1>3, <2>2, EndMonotone DEF K, c
  <2>5. k.slot <= i /\ i <= e
    BY <1>2, <1>4, <1>13, <2>2, <2>3, <2>4
  <2>6. map_regions[i] = [slot |-> k.slot, offset |-> (i - k.slot) * c]
    BY <1>3, <1>4, <2>1, <2>2, <2>5 DEF Holds, c
  <2>7. k.slot = m.slot
    BY <2>6, <1>11
  <2> QED BY <2>7, <1>1 DEF ManyMapped
<1>14. {k \in regions : k.start <= offset /\ offset < k.start + k.len} = {m}
  BY <1>12, <1>13
<1>15. i \in DOMAIN map_regions
  BY <1>1, <1>4 DEF ManyMapped, K
<1>16. offset \div VIRTIO_MEM_MAP_REGION_SIZE = i
  BY <1>4 DEF c
<1> QED BY <1>10, <1>11, <1>14, <1>15, <1>16 DEF c

\* The host address that the device computes from map_regions for an offset of the
\* usable region is the one KVM has, whatever sizes were requested and in whatever order
\* the regions were created.
THEOREM TranslationIsExact == Spec => []TranslationExact
<1>1. ASSUME MapInv PROVE TranslationExact
  <2> SUFFICES ASSUME NEW offset \in 0 .. usable_region_size - 1
               PROVE  LET i == IF multi_region THEN offset \div VIRTIO_MEM_MAP_REGION_SIZE ELSE 0
                          covering == {m \in regions : m.start <= offset /\ offset < m.start + m.len}
                      IN  /\ Cardinality(covering) = 1
                          /\ \A m \in covering :
                               /\ map_regions[i].slot = m.slot
                               /\ map_regions[i].offset + (offset - i * VIRTIO_MEM_MAP_REGION_SIZE)
                                    = offset - m.start
    BY DEF TranslationExact
  <2> DEFINE covering == {m \in regions : m.start <= offset /\ offset < m.start + m.len}
  <2>1. offset \in Nat /\ usable_region_size \in Nat /\ offset < region_size
    BY <1>1 DEF MapInv, Sizes
  <2>2. CASE multi_region
    <3> DEFINE i == offset \div VIRTIO_MEM_MAP_REGION_SIZE
    <3>1. PICK m \in regions :
            /\ covering = {m} /\ map_regions[i].slot = m.slot
            /\ map_regions[i].offset = i * VIRTIO_MEM_MAP_REGION_SIZE - m.start
      BY <1>1, <2>2, Covered
    <3>2. m.start \in Int
      <4>1. m.start = m.slot * VIRTIO_MEM_MAP_REGION_SIZE /\ m.slot \in Int
        BY <1>1, <2>2 DEF MapInv, ManyMapped, Holds
      <4> QED BY <4>1
    <3>3. i \in Nat /\ i * VIRTIO_MEM_MAP_REGION_SIZE \in Int
      <4>1. i \in Nat
        BY <2>1, Quotient
      <4> HIDE DEF i
      <4> QED BY <4>1
    <3> HIDE DEF i, covering
    <3>4. Cardinality(covering) = 1
      BY <3>1, FS_Singleton
    <3>5. map_regions[i].offset + (offset - i * VIRTIO_MEM_MAP_REGION_SIZE) = offset - m.start
      BY <3>1, <3>2, <3>3, <2>1
    <3> QED BY <3>1, <3>4, <3>5, <2>2 DEF i, covering
  <2>3. CASE ~multi_region
    <3>1. state \in {"ready", "active"}
      BY <1>1 DEF MapInv
    <3>2. PICK m : m = [slot |-> 0, start |-> 0, len |-> region_size]
      OBVIOUS
    <3>3. regions = {m} /\ map_regions[0].slot = 0 /\ map_regions[0].offset = 0
      BY <1>1, <2>3, <3>1, <3>2 DEF MapInv, OneMapped
    <3>4. m.slot = 0 /\ m.start = 0 /\ m.len = region_size
      BY <3>2
    <3>5. covering = {m}
      BY <3>3, <3>4, <2>1
    <3> HIDE DEF covering
    <3>6. Cardinality(covering) = 1
      BY <3>5, FS_Singleton
    <3>7. /\ map_regions[0].slot = m.slot
          /\ map_regions[0].offset + (offset - 0 * VIRTIO_MEM_MAP_REGION_SIZE) = offset - m.start
      BY <3>3, <3>4, <2>1
    <3> QED BY <3>5, <3>6, <3>7, <2>3 DEF covering
  <2> QED BY <2>2, <2>3
<1> QED BY <1>1, MapInvariant, PTL

\* A block lies in one map region, because the size of these is a multiple of that of
\* the blocks.
LEMMA BlockInRegion ==
  ASSUME NEW x \in Nat
  PROVE  (x * block_size + block_size - 1) \div VIRTIO_MEM_MAP_REGION_SIZE
           = (x * block_size) \div VIRTIO_MEM_MAP_REGION_SIZE
<1> DEFINE c == VIRTIO_MEM_MAP_REGION_SIZE
           a == x * block_size
           b == x * block_size + block_size - 1
           i == a \div c
<1>1. a \in Nat /\ b \in Nat /\ a <= b
  OBVIOUS
<1>2. PICK k \in Int : c = k * block_size
  <2>1. VIRTIO_MEM_MAP_REGION_SIZE \in Int /\ block_size \in Nat \ {0}
        /\ VIRTIO_MEM_MAP_REGION_SIZE % block_size = 0
    OBVIOUS
  <2>2. \E k \in Int : VIRTIO_MEM_MAP_REGION_SIZE = k * block_size
    BY <2>1, Multiple
  <2> QED BY <2>2
<1>3. i \in Nat /\ i * c <= a /\ a < (i + 1) * c
  BY <1>1, Quotient
<1> HIDE DEF i
<1>4. (i + 1) * c = ((i + 1) * k) * block_size /\ (i + 1) * k \in Int
  BY <1>2, <1>3
<1>5. x < (i + 1) * k
  BY <1>3, <1>4, Scale
<1>6. (x + 1) * block_size <= ((i + 1) * k) * block_size
  BY <1>4, <1>5, Scale
<1>7. (x + 1) * block_size = b + 1
  BY Scale
<1>8. b < (i + 1) * c /\ i * c <= b
  BY <1>1, <1>3, <1>4, <1>6, <1>7
<1>9. b \div c <= i /\ i <= b \div c /\ b \div c \in Nat
  BY <1>1, <1>3, <1>8, QuotientIs, Quotient
<1> QED BY <1>3, <1>9 DEF i

\* As long as less is plugged than requested, and the last resize did not fail, the
\* guest has a block that it can plug: the usable region has room for all that is
\* requested, plugged_size does not undercount, and every usable block is mapped.
THEOREM RequestedIsReachable == Spec => []CanReachRequested
<1>1. ASSUME MapInv, MemInv PROVE CanReachRequested
  <2> SUFFICES ASSUME state = "active", ~short, plugged_size < requested_size
               PROVE  \E x \in 0 .. region_size \div block_size - 1 : Pluggable(x * block_size, 1)
    BY DEF CanReachRequested
  <2> DEFINE N == usable_region_size \div block_size
             n == Cardinality(mem_state)
  <2>1. /\ usable_region_size \in Nat /\ usable_region_size <= region_size
        /\ usable_region_size % block_size = 0 /\ requested_size <= usable_region_size
        /\ requested_size \in Nat /\ requested_size % block_size = 0
        /\ plugged_size \in Int /\ plugged_size % block_size = 0
    BY <1>1 DEF MapInv, Sizes
  <2>2. IsFiniteSet(mem_state) /\ n \in Nat /\ plugged_size >= n * block_size
    BY <1>1, FS_CardinalityType DEF MemInv, PluggedCounted
  <2>3. N \in Nat /\ N * block_size = usable_region_size
    BY <2>1, AlignedBlock
  <2> HIDE DEF N, n
  <2>4. n < N
    <3>1. n * block_size < N * block_size
      BY <2>1, <2>2, <2>3
    <3> QED BY <3>1, <2>2, <2>3, Scale
  <2>5. \E x \in 0 .. N - 1 : x \notin mem_state
    <3> SUFFICES ASSUME 0 .. N - 1 \subseteq mem_state PROVE FALSE
      OBVIOUS
    <3>1. Cardinality(0 .. N - 1) = N
      BY <2>2, <2>3, <2>4, FS_Interval
    <3>2. Cardinality(0 .. N - 1) <= n
      BY <2>2, FS_Subset DEF n
    <3> QED BY <3>1, <3>2, <2>2, <2>3, <2>4
  <2>6. PICK x \in 0 .. N - 1 : x \notin mem_state
    BY <2>5
  <2> DEFINE a == x * block_size
  <2>7. /\ x \in Nat /\ a \in Nat /\ a + block_size <= usable_region_size
        /\ (x + 1) * block_size = a + block_size
    <3>1. x \in Nat /\ x + 1 <= N
      BY <2>3, <2>6
    <3>2. (x + 1) * block_size <= N * block_size /\ (x + 1) * block_size = a + block_size
      BY <3>1, <2>3, Scale
    <3> QED BY <3>1, <3>2, <2>3
  <2>8. ~Denied(1 * block_size)
    <3>1. PICK j \in Int : plugged_size = j * block_size
      BY <2>1, Multiple
    <3>2. PICK k \in Int : requested_size = k * block_size
      <4>1. requested_size \in Int /\ block_size \in Nat \ {0} /\ requested_size % block_size = 0
        BY <2>1
      <4> QED BY <4>1, Multiple
    <3>3. j < k
      BY <3>1, <3>2, Scale
    <3>4. (j + 1) * block_size <= k * block_size /\ (j + 1) * block_size = j * block_size + block_size
      BY <3>3, Scale
    <3> QED BY <3>1, <3>2, <3>4 DEF Denied
  <2>9. a % block_size = 0 /\ block_size % block_size = 0
    <3>1. (x * block_size) % block_size = 0 /\ (1 * block_size) % block_size = 0
      BY <2>7, MultipleIs
    <3> QED BY <3>1
  <2>10. virtio_mem_valid_range(a, 1 * block_size)
    <3> HIDE DEF a
    <3> QED BY <2>1, <2>7, <2>9 DEF virtio_mem_valid_range
  <2>11. Blocks(a, 1) = {x}
    <3>1. a \div block_size = x
      <4>1. a < (x + 1) * block_size /\ x * block_size <= a
        BY <2>7
      <4>2. a \div block_size <= x /\ x <= a \div block_size /\ a \div block_size \in Nat
        BY <4>1, <2>7, QuotientIs, Quotient
      <4> HIDE DEF a
      <4> QED BY <4>2, <2>7
    <3> QED BY <3>1, <2>7 DEF Blocks
  <2>12. Mapped(a, 1 * block_size)
    <3>1. CASE multi_region
      <4>1. a \in 0 .. usable_region_size - 1
        BY <2>1, <2>7
      <4>2. /\ a \div VIRTIO_MEM_MAP_REGION_SIZE \in DOMAIN map_regions
            /\ map_regions[a \div VIRTIO_MEM_MAP_REGION_SIZE] # Unmapped
        BY <4>1, <3>1, <1>1, Covered
      <4>3. (a + 1 * block_size - 1) \div VIRTIO_MEM_MAP_REGION_SIZE = a \div VIRTIO_MEM_MAP_REGION_SIZE
        BY <2>7, BlockInRegion
      <4> HIDE DEF a
      <4> QED BY <3>1, <4>2, <4>3 DEF Mapped
    <3>2. CASE ~multi_region
      <4>1. map_regions[0] = [slot |-> 0, offset |-> 0]
        BY <1>1, <3>2 DEF MapInv, OneMapped
      <4>2. map_regions[0].slot = 0 /\ Unmapped.slot = -1
        BY <4>1 DEF Unmapped
      <4>3. map_regions[0] # Unmapped
        BY <4>2
      <4> QED BY <3>2, <4>3 DEF Mapped
    <3> QED BY <3>1, <3>2
  <2>13. x \in 0 .. region_size \div block_size - 1
    <3>1. (x + 1) * block_size <= region_size
      BY <2>1, <2>7
    <3>2. x + 1 \in Int /\ region_size \in Nat /\ block_size \in Nat \ {0}
      BY <2>7
    <3>3. x + 1 <= region_size \div block_size
      BY ONLY <3>1, <3>2, QuotientIs
    <3>4. region_size \div block_size \in Nat
      BY ONLY <3>2, Quotient
    <3> QED BY <3>3, <3>4, <2>7
  <2>14. Pluggable(a, 1)
    <3> HIDE DEF a
    <3> QED BY <2>6, <2>8, <2>10, <2>11, <2>12 DEF Pluggable
  <2> QED BY <2>13, <2>14
<1> QED BY <1>1, MapInvariant, MemInvariant, PTL
=============================================================================
