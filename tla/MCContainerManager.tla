------------------------- MODULE MCContainerManager -------------------------
EXTENDS ContainerManager, TLC

\* The tasks are interchangeable. Sound for the invariants, not used for liveness.
TaskSymmetry == Permutations(Tasks)
=============================================================================
