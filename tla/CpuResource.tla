---------------------------- MODULE CpuResource ----------------------------
(***************************************************************************)
(* The number of vCPUs the containers of a sandbox need, and the decisions *)
(* to resize (resource/src/cpu_mem/cpu.rs), as operators. A container asks *)
(* for a number of vCPUs by its quota.                                     *)
(***************************************************************************)
EXTENDS Naturals, FiniteSetsExt

\* container_cpu_resources after an operation; 0 stands for a container not in it.
update_container_cpu_resources(res, c, op, vcpus) ==
  [res EXCEPT ![c] = IF op = "Del" THEN 0 ELSE vcpus]

calc_cpu_resources(res) == MapThenSumSet(LAMBDA c : res[c], DOMAIN res)

\* The resize is not needed, or it would go the wrong way for the operation.
Ignored(op, old, new) == (op = "Add" /\ old > new) \/ (op = "Del" /\ old < new)

\* do_update_cpu_resources does not go below the default, precheck_resize_vcpus not
\* above the maximum.
target_vcpus(new, default, max) ==
  LET wanted == IF new < default THEN default ELSE new
  IN IF wanted > max THEN max ELSE wanted
=============================================================================
