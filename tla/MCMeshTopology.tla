--------------------------- MODULE MCMeshTopology ---------------------------
EXTENDS MeshTopologyProps

CONSTANTS A, B, C

Pair == {A, B}
Trio == {A, B, C}

BothWays == {<<A, B>>, <<B, A>>}
Ring == {<<A, B>>, <<B, C>>, <<C, A>>}
Line == {<<B, A>>, <<C, B>>}
Either == {<<B, A>>, <<B, C>>, <<C, B>>}
Star == {<<B, A>>, <<C, A>>}

Single(n, m) == [type |-> "SINGLE", from |-> n, dest |-> m]
Broadcast(n) == [type |-> "BROADCAST", from |-> n, dest |-> n]
NoMsg == {}
FromA == {Broadcast(A)}

OneOfPair == [n \in {A, B} |-> 1]
TwoForB == [n \in {A, B} |-> IF n = B THEN 2 ELSE 1]
NotA == [n \in {A, B, C} |-> IF n = A THEN 0 ELSE 1]
OneEach == [n \in {A, B, C} |-> 1]
LineMsgs == {Single(A, C), Broadcast(C)}
=============================================================================
