----------------------------- MODULE MCTimeSync -----------------------------
EXTENDS TimeSyncProps

CONSTANTS A, B, C, D, E

Five == {A, B, C, D, E}
Four == {A, B, C, D}

\* A line of four, where the one of the two in the middle that is the access
\* point decides a draw; and a pair, either way round.
Line == {<<A, B>>, <<B, C>>, <<D, C>>}
Some == {Line, {<<D, E>>}, {<<E, D>>}}
OnlyLine == {Line}

Ten == [n \in Node |-> 10]
Unknown == {[e \in Node \X Node |-> Empty]}

\* The nodes of the line know who is behind whom; D still believes that
\* somebody is behind E.
Place == [n \in Node |-> CHOOSE i \in 1..5 : n = <<A, B, C, D, E>>[i]]
Behind(e) == IF Place[e[1]] < Place[e[2]] THEN 4 - Place[e[2]] ELSE Place[e[2]] - 1
Settled ==
  {[e \in Node \X Node |-> IF e \in Four \X Four THEN Empty + 12 * Behind(e)
                          ELSE IF e = <<D, E>> THEN Empty + 12 ELSE Empty]}

InPair == {<<E, D>>}
Nobody == {}

\* Two halves of the line have their own time.
TwoTimes == {[n \in Node |-> IF n \in {C, D} THEN 11 ELSE 0]}
=============================================================================
