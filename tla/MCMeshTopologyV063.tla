-------------------------- MODULE MCMeshTopologyV063 ------------------------
EXTENDS MeshTopologyV063Props

CONSTANTS A, B, C

Pair == {A, B}
Trio == {A, B, C}
BothWays == {<<A, B>>, <<B, A>>}
Line == {<<B, A>>, <<C, B>>}

NoMsg == {}

LineMsgs == {[type |-> "SINGLE", from |-> A, dest |-> C],
             [type |-> "BROADCAST", from |-> C, dest |-> C]}
NotA == [n \in {A, B, C} |-> IF n = A THEN 0 ELSE 1]

OneOfPair == [n \in {A, B} |-> 1]

\* A walker C between A and its access point B: it starts at B, loses it,
\* connects to A, loses A and connects to A again.
Walk == {<<A, B>>, <<C, B>>, <<C, A>>}
ThreeForC == [n \in {A, B, C} |-> IF n = C THEN 3 ELSE IF n = A THEN 1 ELSE 0]
OnTheWalk ==
  /\ link[<<C, 1>>].ap \in {None, B} /\ link[<<C, 2>>].ap \in {None, A}
  /\ link[<<A, 1>>].state # "lost"
\* It sets out when A and B are connected, and every association succeeds.
SetOut ==
  /\ link[<<A, 1>>].state # "up" => UNCHANGED aps[C]
  /\ link[<<C, 1>>].state = "free" /\ link'[<<C, 1>>].state # "free" => Settled /\ V102!Calm
  /\ UNCHANGED link => UNCHANGED faults
=============================================================================
