-------------------------- MODULE MCResourceManager --------------------------
(* Containers of one and of two vCPUs on two block devices.               *)
EXTENDS ResourceManager, TLC

CONSTANTS c1, c2, p1, p2

MCVcpusOf == (c1 :> 1) @@ (c2 :> 2)
Sym == Permutations({p1, p2})
=============================================================================
