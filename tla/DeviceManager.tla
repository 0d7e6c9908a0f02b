--------------------------- MODULE DeviceManager ---------------------------
(***************************************************************************)
(* The device manager of the runtime (hypervisor/src/device): devices are  *)
(* found by their path on the host, counted by attach_count, and named in  *)
(* the guest by an index. These operators map one state of the manager to  *)
(* the next; they run under its write lock.                                *)
(***************************************************************************)
EXTENDS Naturals, Sequences, FiniteSets

\* devices: per id [path, index, count]; index and released of SharedInfo.
NewManager == [devices |-> <<>>, index |-> 0, released |-> <<>>]

With(f, id, v) == [i \in DOMAIN f \cup {id} |-> IF i = id THEN v ELSE f[i]]
Without(f, id) == [i \in DOMAIN f \ {id} |-> f[i]]
SetCount(m, id, n) == [m EXCEPT !.devices[id].count = n]

\* Bug: the released index stays in the list.
declare_device_index_KeepsReleased(m) ==
  LET reuse == m.released # <<>>
  IN [i |-> IF reuse THEN m.released[Len(m.released)] ELSE m.index,
      m |-> [m EXCEPT !.index = @ + 1]]

\* The smallest released index is taken first; the counter moves on in any case.
declare_device_index(m) ==
  LET reuse == m.released # <<>>
  IN [i |-> IF reuse THEN m.released[Len(m.released)] ELSE m.index,
      m |-> [m EXCEPT !.index = @ + 1,
                      !.released = IF reuse THEN SubSeq(@, 1, Len(@) - 1) ELSE @]]

\* A list with i after the first k elements.
Insert(s, k, i) == SubSeq(s, 1, k) \o <<i>> \o SubSeq(s, k + 1, Len(s))

\* Released indexes are kept in descending order: sorted again with i in it, the list
\* has i after all that are larger.
release_device_index(m, i) ==
  LET k == Cardinality({j \in DOMAIN m.released : m.released[j] > i})
  IN [m EXCEPT !.released = Insert(@, k, i)]

find_device(m, path) == {id \in DOMAIN m.devices : m.devices[id].path = path}

\* new_device registers a device that is not attached yet.
create_block_device(m, id, path) ==
  LET d == declare_device_index(m)
  IN [d.m EXCEPT !.devices = With(@, id, [path |-> path, index |-> d.i, count |-> 0])]

\* try_add_device of a device that is attached already.
AttachAgain(m, id) == SetCount(m, id, m.devices[id].count + 1)

\* The error path of try_add_device: the index is released and the device forgotten.
AttachFails(m, id) ==
  [release_device_index(m, m.devices[id].index) EXCEPT !.devices = Without(@, id)]

\* Bug: a device is detached with its first user.
LastUser_Any(m, id) == TRUE

LastUser(m, id) == m.devices[id].count = 1

\* try_remove_device while others use the device: detach only counts down, but the
\* device is forgotten all the same.
DetachShared(m, id) == [m EXCEPT !.devices = Without(@, id)]

\* try_remove_device by the last user.
DetachLast(m, id) == AttachFails(m, id)
=============================================================================
