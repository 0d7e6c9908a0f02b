--------------------------- MODULE MCAgentStorage ---------------------------
EXTENDS AgentStorage, TLC

CONSTANTS c1, c2, c3, p1, p2

MCRequests == {<<p1>>, <<p1, p2>>}
Sym == Permutations(Cids)
=============================================================================
