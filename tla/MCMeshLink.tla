----------------------------- MODULE MCMeshLink -----------------------------
EXTENDS MeshLinkProps

CONSTANTS a1, a2, a3, c1, c2

MCApp2 == {a1, a2}
MCCtl0 == {}
MCCtl1 == {c1}

\* a1 is longer than the shared buffer takes at once, a2 is not
MCSize == [m \in Msgs |-> IF m \in {a1, c2} THEN 2 ELSE 1]
=============================================================================
