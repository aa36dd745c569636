------------------------- MODULE MeshTopology_proofs ------------------------
(***************************************************************************)
(* Proofs about the mesh: its types, that no node keeps two named          *)
(* connections to the same neighbour, and that a broadcast reaches no node *)
(* twice.                                                                  *)
(*                                                                         *)
(* A connection gets its name from the message it hears first, and the     *)
(* node looks through its list before it does.  That this is enough needs  *)
(* that the list has one entry for a link, so that the entry named is the  *)
(* one looked up, and so that no link is opened or accepted a second time. *)
(* That the name is right needs that a node says only its own NODE_SYNC.   *)
(*                                                                         *)
(* What handleNodeSync has no part in is proved of the actions one by one, *)
(* for MeshTopologyV063_proofs to use: it shares these actions.            *)
(***************************************************************************)
EXTENDS MeshTopologyProps, SeqFilter_proofs

Msg == SyncMsg \cup AppMsg
Channel == [pending : Seq(Msg), transit : Seq(Msg)]

\* What a node sends: messages of the applications, and its own NODE_SYNC.
MsgOf(n) == {msg \in Msg : msg \in SyncMsg => msg.from = n}
ChannelOf(n) == [pending : Seq(MsgOf(n)), transit : Seq(MsgOf(n))]

\* The entries of a list: one for a link, named when it is not new; and one
\* for a name.
OneForLink(cs) == \A i, j \in DOMAIN cs : cs[i].link = cs[j].link => i = j
NewUnnamed(cs) == \A i \in DOMAIN cs : cs[i].new <=> cs[i].node = None
OneForName(cs) ==
  \A i, j \in DOMAIN cs : cs[i].node = cs[j].node /\ cs[i].node # None => i = j
Sound(cs) == cs \in Seq(End) /\ OneForLink(cs) /\ NewUnnamed(cs)

\* A link leads to another node, is nobody's before it is opened, and the
\* station's alone before it is accepted.  An entry that has a name has that
\* of the node at the other end.
Leads(k) == \A l \in Link : k[l].state # "free" => k[l].ap \in Node /\ k[l].ap # l[1]
Opened(cs, k, n) ==
  \A i \in DOMAIN cs :
    LET l == cs[i].link IN
    /\ k[l].state # "free" /\ (k[l].state = "syn" => l[1] = n)
    /\ cs[i].node \in {None, IF l[1] = n THEN k[l].ap ELSE l[1]}

LinkState == [ap : Node \cup {None}, state : {"free", "syn", "up", "lost"}]
Carries(c) ==
  c \in [Link -> [Node -> Channel]] /\ \A l \in Link, n \in Node : c[l][n] \in ChannelOf(n)

ConnsOK ==
  /\ conns \in [Node -> Seq(End)]
  /\ \A n \in Node : Sound(conns[n]) /\ Opened(conns[n], link, n)
LinksOK == link \in [Link -> LinkState] /\ Leads(link)
ChansOK == Carries(chan) /\ faults \in 0..MaxFaults
StationsOK ==
  /\ aps \in [Node -> SUBSET Node] /\ wifi \in [Node -> Node \cup {None}]
  /\ \A n \in Node : n \notin aps[n]
NewTaskOK == newTask \in [Node -> Node \cup {Off}]
DropTaskOK == dropTask \in [Node -> Node \cup {None, Off}]
AppsOK == sent \subseteq AppMsg /\ got \in [Node -> [AppMsg -> 0..2]]

IInv ==
  ConnsOK /\ LinksOK /\ ChansOK /\ StationsOK /\ NewTaskOK /\ DropTaskOK /\ AppsOK

\* No two connections of a node have the same name; and a step keeps that for
\* each node.
NamesOK == \A n \in Node : OneForName(conns[n])
Kept == \A n \in Node : OneForName(conns[n]) => OneForName(conns'[n])

-----------------------------------------------------------------------------
(* Sequences one after the other.                                          *)

\* Sequences of a type one after the other are a sequence of that type.
LEMMA FlattenType ==
  ASSUME NEW T, NEW seqs \in Seq(Seq(T))
  PROVE  FlattenSeq(seqs) \in Seq(T)
<1> DEFINE N == Len(seqs)
           Joined(f, i) == IF i = 1 THEN seqs[i] ELSE f[i - 1] \o seqs[i]
           Joins(f, n) == f = [i \in 1..n |-> Joined(f, i)]
<1>1. N \in Nat /\ \A i \in 1..N : seqs[i] \in Seq(T)
  OBVIOUS
<1>2. CASE N = 0
  <2>1. seqs = <<>>
    BY <1>2
  <2>2. FlattenSeq(seqs) = <<>>
    BY <1>2, <2>1 DEF FlattenSeq
  <2>3. QED BY <2>2
<1>3. CASE N # 0
  <2> DEFINE Good(n) == \E f : Joins(f, n) /\ \A i \in 1..n : f[i] \in Seq(T)
             Bad == {n \in 1..N : ~Good(n)}
  <2>1. Bad = {}
    <3>1. SUFFICES ASSUME Bad # {} PROVE FALSE
      OBVIOUS
    <3>2. PICK n \in Bad : \A j \in Bad : n <= j
      BY <1>1, <3>1, LeastPlace
    <3>3. n \in 1..N /\ n \in Nat /\ n >= 1 /\ ~Good(n)
      <4> HIDE DEF Good
      <4>1. n \in 1..N /\ ~Good(n)
        OBVIOUS
      <4>2. QED BY <1>1, <4>1
    <3>4. CASE n = 1
      <4> DEFINE g == [i \in 1..1 |-> seqs[1]]
      <4>1. Joins(g, 1) /\ \A i \in 1..1 : g[i] \in Seq(T)
        BY <1>1, <1>3
      <4>2. QED BY <3>3, <3>4, <4>1
    <3>5. CASE n > 1
      <4>1. n - 1 \in 1..N /\ ~(n <= n - 1)
        BY <1>1, <3>3, <3>5
      <4>2. Good(n - 1)
        <5> HIDE DEF Good
        <5>1. QED BY <3>2, <4>1
      <4>3. PICK f : Joins(f, n - 1) /\ \A i \in 1..(n - 1) : f[i] \in Seq(T)
        BY <4>2
      <4>4. f[n - 1] \in Seq(T) /\ seqs[n] \in Seq(T)
        BY <1>1, <3>3, <3>5, <4>3
      <4>5. PICK last \in Seq(T) : last = f[n - 1] \o seqs[n]
        <5>1. \A a, b \in Seq(T) : a \o b \in Seq(T)
          OBVIOUS
        <5>2. QED BY <4>4, <5>1
      <4> DEFINE g == [i \in 1..n |-> IF i < n THEN f[i] ELSE last]
      <4>6. ASSUME NEW i \in 1..n PROVE g[i] \in Seq(T)
        <5>1. CASE i < n
          <6>1. i \in 1..(n - 1)
            BY <3>3, <5>1
          <6>2. f[i] \in Seq(T)
            BY <4>3, <6>1
          <6>3. QED BY <5>1, <6>2
        <5>2. CASE ~(i < n)
          BY <4>5, <5>2
        <5>3. QED BY <5>1, <5>2
      <4>7. \A i \in 1..n : g[i] = Joined(g, i)
        <5>1. ASSUME NEW i \in 1..n, i < n PROVE g[i] = Joined(g, i)
          <6>1. i \in 1..(n - 1) /\ g[i] = f[i]
            BY <3>3, <5>1
          <6>2. f[i] = Joined(f, i)
            BY <4>3, <6>1
          <6>3. i # 1 => i - 1 \in 1..n /\ i - 1 < n
            BY <3>3, <5>1
          <6>4. i # 1 => g[i - 1] = f[i - 1]
            BY <6>3
          <6>5. QED BY <6>1, <6>2, <6>4
        <5>2. g[n] = last /\ g[n - 1] = f[n - 1] /\ n # 1
          <6>1. n \in 1..n /\ ~(n < n) /\ n - 1 \in 1..n /\ n - 1 < n /\ n # 1
            BY <3>3, <3>5
          <6>2. QED BY <6>1
        <5>3. g[n] = Joined(g, n)
          BY <4>5, <5>2
        <5>4. \A i \in 1..n : i < n \/ i = n
          BY <3>3
        <5> HIDE DEF g, Joined
        <5>5. QED BY <5>1, <5>3, <5>4
      <4>8. Joins(g, n)
        <5>1. DOMAIN g = 1..n /\ g = [i \in 1..n |-> g[i]]
          OBVIOUS
        <5> HIDE DEF g, Joined
        <5>2. QED BY <4>7, <5>1
      <4> HIDE DEF g
      <4>9. Good(n)
        BY <4>6, <4>8
      <4>10. QED BY <3>3, <4>9
    <3>6. QED BY <3>3, <3>4, <3>5
  <2>2. N \in 1..N
    BY <1>1, <1>3
  <2>3. \E f : Joins(f, N)
    <3>1. Good(N)
      <4> HIDE DEF Good
      <4>1. QED BY <2>1, <2>2
    <3>2. QED BY <3>1
  <2> DEFINE flatten == CHOOSE f : Joins(f, N)
  <2>4. Joins(flatten, N)
    BY <2>3
  <2>5. FlattenSeq(seqs) = flatten[N]
    BY <1>3 DEF FlattenSeq
  <2> HIDE DEF flatten, Bad
  <2>6. \A i \in 1..N : flatten[i] = Joined(flatten, i)
    BY <2>4
  <2> DEFINE Wrong == {i \in 1..N : flatten[i] \notin Seq(T)}
  <2>7. Wrong = {}
    <3>1. SUFFICES ASSUME Wrong # {} PROVE FALSE
      OBVIOUS
    <3>2. PICK i \in Wrong : \A j \in Wrong : i <= j
      BY <1>1, <3>1, LeastPlace
    <3>3. i \in 1..N /\ i \in Nat /\ flatten[i] \notin Seq(T) /\ flatten[i] = Joined(flatten, i)
      BY <1>1, <2>6, <3>2
    <3>4. CASE i = 1
      BY <1>1, <3>3, <3>4
    <3>5. CASE i # 1
      <4>1. i - 1 \in 1..N /\ i - 1 \notin Wrong
        BY <1>1, <3>2, <3>3, <3>5
      <4>2. flatten[i - 1] \in Seq(T) /\ seqs[i] \in Seq(T)
        BY <1>1, <3>3, <4>1
      <4>3. QED BY <3>3, <3>5, <4>2
    <3>6. QED BY <3>4, <3>5
  <2>8. QED BY <2>2, <2>5, <2>7
<1>4. QED BY <1>2, <1>3

\* The elements of a sequence.
LEMMA ElementType ==
  ASSUME NEW T, NEW s \in Seq(T), NEW i \in DOMAIN s
  PROVE  s[i] \in T
OBVIOUS

-----------------------------------------------------------------------------
(* Lists of connections.                                                   *)

\* The positions of a list.
LEMMA ListFacts ==
  ASSUME NEW cs \in Seq(End)
  PROVE  /\ Len(cs) \in Nat /\ DOMAIN cs = 1..Len(cs)
         /\ \A i \in DOMAIN cs : cs[i] \in End
OBVIOUS

\* What an entry is made of.
LEMMA EndFacts ==
  ASSUME NEW e \in End
  PROVE  /\ e.link \in Link /\ e.station \in BOOLEAN /\ e.node \in Node \cup {None}
         /\ e.new \in BOOLEAN /\ e.subs \in Subs /\ e.due \in BOOLEAN
BY DEF End

\* The entry of a link.
LEMMA EndOnFacts ==
  ASSUME NEW n \in Node, conns[n] \in Seq(End), NEW l, HasEnd(n, l)
  PROVE  /\ EndOn(n, l) \in Ends(n) /\ EndOn(n, l) \in End /\ EndOn(n, l).link = l
         /\ \E i \in DOMAIN conns[n] : conns[n][i] = EndOn(n, l)
<1>1. EndOn(n, l) \in Ends(n) /\ EndOn(n, l).link = l
  BY DEF HasEnd, EndOn
<1>2. \E i \in DOMAIN conns[n] : conns[n][i] = EndOn(n, l)
  BY <1>1 DEF Ends
<1>3. QED BY <1>1, <1>2, ListFacts

\* findConnection finds a link, and finds one where there is one.
LEMMA FoundFacts ==
  ASSUME NEW cs \in Seq(End), NEW id, NEW exclude
  PROVE  /\ FindConnection(cs, id, exclude) \in Link \cup {NoLink}
         /\ FindConnection(cs, id, exclude) = NoLink =>
              \A i \in DOMAIN cs : cs[i].node # exclude => cs[i].node # id
         /\ FindConnection(cs, id, exclude) # NoLink =>
              \E i \in DOMAIN cs : /\ cs[i].node # exclude
                                   /\ cs[i].link = FindConnection(cs, id, exclude)
                                   /\ cs[i].node = id \/ Lists(cs[i].subs, id)
<1> DEFINE found == {i \in DOMAIN cs : /\ cs[i].node # exclude
                                       /\ cs[i].node = id \/ Lists(cs[i].subs, id)}
<1>1. CASE found = {}
  BY <1>1 DEF FindConnection
<1>2. CASE found # {}
  <2>1. Len(cs) \in Nat /\ DOMAIN cs = 1..Len(cs)
    BY ListFacts
  <2>2. found \subseteq 1..Len(cs)
    BY <2>1
  <2>3. \E m \in found : \A j \in found : m <= j
    <3> HIDE DEF found
    <3>1. QED BY <1>2, <2>1, <2>2, LeastPlace
  <2> DEFINE first == CHOOSE i \in found : \A j \in found : i <= j
  <2>4. first \in found
    <3> HIDE DEF found
    <3>1. QED BY <2>3
  <2>5. FindConnection(cs, id, exclude) = cs[first].link
    BY <1>2 DEF FindConnection
  <2> HIDE DEF first
  <2>6. /\ first \in DOMAIN cs /\ cs[first].node # exclude /\ cs[first].link \in Link
        /\ cs[first].node = id \/ Lists(cs[first].subs, id)
    BY <2>4, ListFacts, EndFacts
  <2>7. QED BY <2>5, <2>6, LinkAssumption DEF NoLink
<1>3. QED BY <1>1, <1>2

\* subConnectionJson lists nodes.
LEMMA SubsType ==
  ASSUME NEW cs \in Seq(End), NEW exclude
  PROVE  SubConnections(cs, exclude) \in Subs
<1> DEFINE Sub == [id : Node, depth : Nat]
           deeper(i) == [j \in DOMAIN cs[i].subs |-> [cs[i].subs[j] EXCEPT !.depth = @ + 1]]
           head(i) == <<[id |-> cs[i].node, depth |-> 0]>>
           part(i) == IF cs[i].node \in {exclude, None} THEN <<>> ELSE head(i) \o deeper(i)
           parts == [i \in DOMAIN cs |-> part(i)]
<1>1. ASSUME NEW i \in DOMAIN cs PROVE part(i) \in Seq(Sub)
  <2>1. cs[i] \in End /\ cs[i].subs \in Seq(Sub) /\ cs[i].node \in Node \cup {None}
    BY ListFacts, EndFacts DEF Subs
  <2>2. deeper(i) \in Seq(Sub)
    <3>1. PICK s \in Seq(Sub) : s = cs[i].subs
      BY <2>1
    <3>2. \A j \in DOMAIN s : [s[j] EXCEPT !.depth = @ + 1] \in Sub
      <4>1. ASSUME NEW j \in DOMAIN s PROVE [s[j] EXCEPT !.depth = @ + 1] \in Sub
        <5>1. s[j] \in Sub
          <6> HIDE DEF Sub
          <6>1. QED BY ElementType
        <5>2. s[j].depth + 1 \in Nat
          BY <5>1
        <5>3. QED BY <5>1, <5>2
      <4>2. QED BY <4>1
    <3>3. Len(s) \in Nat /\ DOMAIN s = 1..Len(s)
      OBVIOUS
    <3>4. [j \in DOMAIN s |-> [s[j] EXCEPT !.depth = @ + 1]] \in Seq(Sub)
      BY <3>2, <3>3
    <3>5. QED BY <3>1, <3>4
  <2>3. cs[i].node # None => head(i) \in Seq(Sub)
    <3>1. cs[i].node # None => [id |-> cs[i].node, depth |-> 0] \in Sub
      BY <2>1
    <3>2. \A x \in Sub : <<x>> \in Seq(Sub)
      OBVIOUS
    <3>3. QED BY <3>1, <3>2
  <2>4. \A a, b \in Seq(Sub) : a \o b \in Seq(Sub)
    OBVIOUS
  <2>5. <<>> \in Seq(Sub)
    OBVIOUS
  <2> HIDE DEF Sub, head, deeper
  <2>6. QED BY <2>2, <2>3, <2>4, <2>5
<1>2. parts \in Seq(Seq(Sub))
  <2>1. Len(cs) \in Nat /\ DOMAIN cs = 1..Len(cs)
    BY ListFacts
  <2> HIDE DEF Sub, part
  <2>2. QED BY <1>1, <2>1
<1>3. FlattenSeq(parts) \in Seq(Sub)
  <2> HIDE DEF Sub, parts
  <2>1. QED BY <1>2, FlattenType
<1>4. SubConnections(cs, exclude) = FlattenSeq(parts)
  BY DEF SubConnections
<1>5. QED BY <1>3, <1>4 DEF Subs

\* A list in which one entry has changed keeps its links; its names are
\* different ones if that of the entry is not taken.
NotTaken(cs, e) ==
  \A i \in DOMAIN cs : cs[i].node = e.node /\ e.node # None => cs[i].link = e.link
Swapped(us, cs, e) ==
  \A i \in DOMAIN cs : us[i].link = cs[i].link /\ us[i] = IF cs[i].link = e.link THEN e ELSE cs[i]
LEMMA Replaced ==
  ASSUME NEW cs, Sound(cs), NEW e \in End, e.new <=> e.node = None
  PROVE  /\ Sound(Replace(cs, e)) /\ DOMAIN Replace(cs, e) = DOMAIN cs
         /\ Swapped(Replace(cs, e), cs, e)
         /\ OneForName(cs) /\ NotTaken(cs, e) => OneForName(Replace(cs, e))
<1>1. PICK u : u = Replace(cs, e)
  OBVIOUS
<1>2. cs \in Seq(End) /\ Len(cs) \in Nat /\ DOMAIN cs = 1..Len(cs)
      /\ \A i \in DOMAIN cs : cs[i] \in End
  BY ListFacts DEF Sound
<1>3. /\ u = [i \in 1..Len(cs) |-> IF cs[i].link = e.link THEN e ELSE cs[i]]
  BY <1>1, <1>2 DEF Replace
<1>4. u \in Seq(End) /\ DOMAIN u = DOMAIN cs
  BY <1>2, <1>3
<1>5. \A i \in DOMAIN cs : u[i] = IF cs[i].link = e.link THEN e ELSE cs[i]
  BY <1>2, <1>3
<1>6. \A i \in DOMAIN cs : u[i].link = cs[i].link
  BY <1>5
<1>7. OneForLink(u)
  BY <1>4, <1>6 DEF Sound, OneForLink
<1>8. NewUnnamed(u)
  BY <1>4, <1>5 DEF Sound, NewUnnamed
<1>9. OneForName(cs) /\ NotTaken(cs, e) => OneForName(u)
  BY <1>4, <1>5 DEF Sound, OneForName, OneForLink, NotTaken
<1>10. Swapped(u, cs, e)
  BY <1>5, <1>6 DEF Swapped
<1>11. QED BY <1>1, <1>4, <1>7, <1>8, <1>9, <1>10 DEF Sound

\* To ask for the subs of others changes no link and no name.
LEMMA Synced ==
  ASSUME NEW cs, Sound(cs), NEW changed
  PROVE  /\ Sound(SyncSubConnections(cs, changed))
         /\ DOMAIN SyncSubConnections(cs, changed) = DOMAIN cs
         /\ \A i \in DOMAIN cs : /\ SyncSubConnections(cs, changed)[i].link = cs[i].link
                                 /\ SyncSubConnections(cs, changed)[i].node = cs[i].node
         /\ OneForName(cs) => OneForName(SyncSubConnections(cs, changed))
<1>1. PICK u : u = SyncSubConnections(cs, changed)
  OBVIOUS
<1>2. cs \in Seq(End) /\ Len(cs) \in Nat /\ DOMAIN cs = 1..Len(cs)
      /\ \A i \in DOMAIN cs : cs[i] \in End
  BY ListFacts DEF Sound
<1> DEFINE due(i) == cs[i].due \/ (~cs[i].new /\ cs[i].node \notin {None, changed})
<1>3. \A i \in DOMAIN cs : due(i) \in BOOLEAN
  <2>1. \A i \in DOMAIN cs : cs[i].due \in BOOLEAN /\ cs[i].new \in BOOLEAN
    BY <1>2, EndFacts
  <2>2. QED BY <2>1
<1>4. u = [i \in 1..Len(cs) |-> [cs[i] EXCEPT !.due = due(i)]]
  BY <1>1, <1>2 DEF SyncSubConnections
<1> HIDE DEF due
<1>5. \A i \in DOMAIN cs :
        /\ [cs[i] EXCEPT !.due = due(i)] \in End
        /\ [cs[i] EXCEPT !.due = due(i)].link = cs[i].link
        /\ [cs[i] EXCEPT !.due = due(i)].node = cs[i].node
        /\ [cs[i] EXCEPT !.due = due(i)].new = cs[i].new
  <2>1. ASSUME NEW e \in End, NEW d \in BOOLEAN
        PROVE  /\ [e EXCEPT !.due = d] \in End /\ [e EXCEPT !.due = d].link = e.link
               /\ [e EXCEPT !.due = d].node = e.node /\ [e EXCEPT !.due = d].new = e.new
    BY DEF End
  <2>2. QED BY <1>2, <1>3, <2>1
<1>6. u \in Seq(End) /\ DOMAIN u = DOMAIN cs
  <2> DEFINE entry(i) == [cs[i] EXCEPT !.due = due(i)]
  <2>1. \A i \in 1..Len(cs) : entry(i) \in End
    BY <1>2, <1>5
  <2>2. u = [i \in 1..Len(cs) |-> entry(i)]
    BY <1>4
  <2> HIDE DEF entry
  <2>3. QED BY <1>2, <2>1, <2>2
<1>7. \A i \in DOMAIN cs : u[i].link = cs[i].link /\ u[i].node = cs[i].node /\ u[i].new = cs[i].new
  BY <1>2, <1>4, <1>5
<1>8. OneForLink(u) /\ NewUnnamed(u) /\ (OneForName(cs) => OneForName(u))
  BY <1>6, <1>7 DEF Sound, OneForLink, NewUnnamed, OneForName
<1>9. QED BY <1>1, <1>6, <1>7, <1>8 DEF Sound

\* A list with fewer entries.
LEMMA Fewer ==
  ASSUME NEW cs, Sound(cs), NEW S
  PROVE  /\ Sound(Only(cs, S))
         /\ \A i \in DOMAIN Only(cs, S) : \E j \in DOMAIN cs : Only(cs, S)[i] = cs[j]
         /\ OneForName(cs) => OneForName(Only(cs, S))
<1> DEFINE I == Places(cs, S)
<1>1. PICK u : u = Only(cs, S)
  OBVIOUS
<1>2. /\ cs \in Seq(End) /\ Len(cs) \in Nat /\ DOMAIN cs = 1..Len(cs)
      /\ \A i \in DOMAIN cs : cs[i] \in End
  BY ListFacts DEF Sound
<1>3. I \in SUBSET Nat /\ IsFiniteSet(I) /\ I \subseteq DOMAIN cs
  BY <1>2, PlacesFinite
<1>4. u \in Seq(End) /\ DOMAIN u = 1..Cardinality(I)
  BY <1>1, <1>2, OnlyType
<1>5. \A k \in DOMAIN u : u[k] = cs[NthOf(I, k)]
  BY <1>1, <1>4 DEF Only
<1> DEFINE at(k) == NthOf(I, k)
<1>6. \A k \in DOMAIN u : at(k) \in DOMAIN cs /\ Rank(I, at(k)) = k
  BY <1>3, <1>4, NthOfRank
<1>7. \A k, m \in DOMAIN u : at(k) = at(m) => k = m
  BY <1>6
<1> HIDE DEF at, I
<1>8. \A k \in DOMAIN u : u[k] = cs[at(k)]
  BY <1>5 DEF at
<1>9. OneForLink(u)
  BY <1>6, <1>7, <1>8 DEF Sound, OneForLink
<1>10. NewUnnamed(u)
  BY <1>6, <1>8 DEF Sound, NewUnnamed
<1>11. OneForName(cs) => OneForName(u)
  BY <1>6, <1>7, <1>8 DEF OneForName
<1>12. QED BY <1>1, <1>4, <1>6, <1>8, <1>9, <1>10, <1>11 DEF Sound

\* A connection that was just made, on link l; no connection of cs is on l;
\* cs became us by a new connection on l.
Fresh(e, l) == e \in End /\ e.link = l /\ e.node = None /\ e.new
Without(cs, l) == \A i \in DOMAIN cs : cs[i].link # l
Entered(cs, us, l) ==
  /\ Sound(us)
  /\ \A i \in DOMAIN us :
       (us[i].link = l /\ us[i].node = None) \/ \E j \in DOMAIN cs : us[i] = cs[j]
  /\ OneForName(cs) => OneForName(us)

\* A new connection has no name and no subs, and is marked new.
LEMMA NewEndFresh ==
  ASSUME NEW l \in Link, NEW station \in BOOLEAN
  PROVE  Fresh(NewEnd(l, station), l)
<1>1. <<>> \in Subs
  BY DEF Subs
<1>2. QED BY <1>1 DEF NewEnd, End, Fresh

\* A connection more, on a link that is not in the list.
LEMMA Added ==
  ASSUME NEW cs, Sound(cs), NEW l \in Link, Without(cs, l), NEW e, Fresh(e, l)
  PROVE  Entered(cs, Append(cs, e), l)
<1>1. PICK us : us = Append(cs, e)
  OBVIOUS
<1>2. e \in End /\ e.link = l /\ e.node = None /\ e.new
  BY DEF Fresh
<1>3. \A i \in DOMAIN cs : cs[i].link # l
  BY DEF Without
<1>4. /\ cs \in Seq(End) /\ Len(cs) \in Nat /\ DOMAIN cs = 1..Len(cs)
  BY ListFacts DEF Sound
<1>5. /\ us \in Seq(End) /\ DOMAIN us = 1..(Len(cs) + 1) /\ us[Len(cs) + 1] = e
      /\ \A i \in 1..Len(cs) : us[i] = cs[i]
  BY <1>1, <1>2, <1>4
<1>6. \A i \in DOMAIN us : i \in DOMAIN cs \/ i = Len(cs) + 1
  BY <1>4, <1>5
<1>7. \A i \in DOMAIN cs : us[i] = cs[i]
  BY <1>4, <1>5
<1>8. OneForLink(us)
  BY <1>2, <1>3, <1>5, <1>6, <1>7 DEF Sound, OneForLink
<1>9. NewUnnamed(us)
  BY <1>2, <1>5, <1>6, <1>7 DEF Sound, NewUnnamed
<1>10. OneForName(cs) => OneForName(us)
  BY <1>2, <1>5, <1>6, <1>7 DEF OneForName
<1>11. \A i \in DOMAIN us :
         (us[i].link = l /\ us[i].node = None) \/ \E j \in DOMAIN cs : us[i] = cs[j]
  BY <1>2, <1>5, <1>6, <1>7
<1>12. Sound(us)
  BY <1>5, <1>8, <1>9 DEF Sound
<1>13. QED BY <1>1, <1>10, <1>11, <1>12 DEF Entered

-----------------------------------------------------------------------------
(* Links and lists.                                                        *)

\* A link belongs to a station.
LEMMA LinkFacts ==
  ASSUME NEW l \in Link
  PROVE  l[1] \in Node /\ \E k : l = <<l[1], k>>
BY DEF Link

\* What happens to a link: it is never as before it was opened again, nor
\* as before it was accepted, and leads to the same node for ever.
Later(k, kk) ==
  \A l \in Link : k[l].state # "free" =>
    /\ kk[l].state # "free" /\ (kk[l].state = "syn" => k[l].state = "syn")
    /\ kk[l].ap = k[l].ap

LEMMA OpenedLater ==
  ASSUME NEW cs \in Seq(End), NEW k, NEW kk, NEW n, Opened(cs, k, n), Later(k, kk)
  PROVE  Opened(cs, kk, n)
<1>1. \A i \in DOMAIN cs : cs[i].link \in Link
  BY ListFacts, EndFacts
<1>2. QED BY <1>1 DEF Opened, Later

\* What one node does to its list, while others keep theirs.
LEMMA ConnsStep ==
  ASSUME ConnsOK, Later(link, link'), NEW n \in Node, NEW cs, Sound(cs),
         Opened(cs, link', n), conns' = [conns EXCEPT ![n] = cs]
  PROVE  ConnsOK' /\ ((OneForName(conns[n]) => OneForName(cs)) => Kept)
<1>1. cs \in Seq(End)
  BY DEF Sound
<1>2. conns' \in [Node -> Seq(End)]
  BY <1>1 DEF ConnsOK
<1>3. conns'[n] = cs
  BY DEF ConnsOK
<1>4. ASSUME NEW m \in Node, m # n
      PROVE  Sound(conns'[m]) /\ Opened(conns'[m], link', m)
  <2>1. conns'[m] = conns[m] /\ conns[m] \in Seq(End)
        /\ Sound(conns[m]) /\ Opened(conns[m], link, m)
    BY <1>4 DEF ConnsOK
  <2>2. QED BY <2>1, OpenedLater
<1>5. \A m \in Node : Sound(conns'[m]) /\ Opened(conns'[m], link', m)
  BY <1>3, <1>4
<1>6. (OneForName(conns[n]) => OneForName(cs)) => Kept
  BY <1>3 DEF ConnsOK, Kept
<1>7. QED BY <1>2, <1>5, <1>6 DEF ConnsOK

\* What changes no list.
LEMMA ConnsSame ==
  ASSUME ConnsOK, Later(link, link'), conns' = conns
  PROVE  ConnsOK' /\ Kept
<1>1. \A m \in Node : conns[m] \in Seq(End) /\ Sound(conns[m]) /\ Opened(conns[m], link, m)
  BY DEF ConnsOK
<1>2. \A m \in Node : Sound(conns'[m]) /\ Opened(conns'[m], link', m)
  BY <1>1, OpenedLater
<1>3. QED BY <1>2 DEF ConnsOK, Kept

LEMMA NoChange ==
  ASSUME LinksOK, link' = link
  PROVE  Later(link, link') /\ LinksOK'
BY DEF Later, LinksOK, Leads

\* A list the links and names of which are those of the list before.
LEMMA OpenedFewer ==
  ASSUME NEW cs, NEW us, NEW k, NEW n, Opened(cs, k, n),
         \A i \in DOMAIN us :
           \E j \in DOMAIN cs : us[i].link = cs[j].link /\ us[i].node = cs[j].node
  PROVE  Opened(us, k, n)
BY DEF Opened

\* The ends of a connection in a list are nodes.
LEMMA EntryFacts ==
  ASSUME ConnsOK, LinksOK, NEW n \in Node, NEW i \in DOMAIN conns[n]
  PROVE  LET e == conns[n][i] IN
         /\ e \in End /\ e.link \in Link /\ e.link[1] \in Node
         /\ link[e.link].state # "free" /\ link[e.link].ap \in Node
         /\ Peer(e.link, n) \in Node /\ e.node \in {None, Peer(e.link, n)}
<1>1. conns[n] \in Seq(End) /\ Opened(conns[n], link, n)
  BY DEF ConnsOK
<1>2. conns[n][i] \in End /\ conns[n][i].link \in Link
  BY <1>1, ListFacts, EndFacts
<1>3. PICK l \in Link : l = conns[n][i].link
  BY <1>2
<1>4. link[l].state # "free"
  BY <1>1, <1>3 DEF Opened
<1>5. l[1] \in Node /\ link[l].ap \in Node
  BY <1>4, LinkFacts DEF LinksOK, Leads
<1>6. Peer(l, n) \in Node
  BY <1>5 DEF Peer
<1>7. conns[n][i].node \in {None, Peer(l, n)}
  BY <1>1, <1>3 DEF Opened, Peer
<1>8. QED BY <1>2, <1>3, <1>4, <1>5, <1>6, <1>7

-----------------------------------------------------------------------------
(* Messages.                                                               *)

LEMMA QueueType ==
  ASSUME NEW T, NEW q \in [pending : Seq(T), transit : Seq(T)], NEW msg \in T
  PROVE  Queue(q, msg) \in [pending : Seq(T), transit : Seq(T)]
<1>1. q.pending \in Seq(T) /\ q.transit \in Seq(T)
  OBVIOUS
<1>2. /\ Append(q.transit, msg) \in Seq(T) /\ Append(q.pending, msg) \in Seq(T)
      /\ <<msg>> \o q.pending \in Seq(T)
  BY <1>1
<1>3. ASSUME NEW s \in Seq(T)
      PROVE  /\ [q EXCEPT !.pending = s] \in [pending : Seq(T), transit : Seq(T)]
             /\ [q EXCEPT !.transit = s] \in [pending : Seq(T), transit : Seq(T)]
  OBVIOUS
<1>4. QED BY <1>2, <1>3 DEF Queue

\* What is on one link.
OnLink(d) == d \in [Node -> Channel] /\ \A n \in Node : d[n] \in ChannelOf(n)

LEMMA CarriesOn ==
  ASSUME NEW c, c = [l \in Link |-> c[l]], \A l \in Link : OnLink(c[l])
  PROVE  Carries(c)
BY DEF Carries, OnLink

\* Channels with less in them.
LEMMA EmptyTypes ==
  /\ Idle \in Channel /\ \A n \in Node : Idle \in ChannelOf(n)
  /\ \A n \in Node, q \in Channel : q \in ChannelOf(n) =>
       [q EXCEPT !.pending = <<>>] \in Channel /\ [q EXCEPT !.pending = <<>>] \in ChannelOf(n)
<1>1. \A T : <<>> \in Seq(T)
  OBVIOUS
<1>2. QED BY <1>1 DEF Idle, Channel, ChannelOf

\* Sending leaves channels that carry messages.
LEMMA SendType ==
  ASSUME ChansOK, NEW c, Carries(c), NEW n \in Node, NEW links, IsFiniteSet(links),
         NEW msg \in MsgOf(n), Send(c, n, links, msg)
  PROVE  ChansOK'
<1>1. PICK discarded \in SUBSET links :
        /\ faults' = faults + Cardinality(discarded)
        /\ faults' <= MaxFaults
        /\ chan' = [l \in Link |->
             IF l \in links \ discarded /\ Reaches(n, l) THEN [c[l] EXCEPT ![n] = Queue(@, msg)]
             ELSE c[l]]
  BY DEF Send
<1>2. Cardinality(discarded) \in Nat
  BY FS_Subset, FS_CardinalityType
<1>3. faults' \in 0..MaxFaults
  BY <1>1, <1>2, CountAssumption DEF ChansOK
<1>4. ASSUME NEW l \in Link
      PROVE  /\ OnLink(c[l]) /\ OnLink([c[l] EXCEPT ![n] = Queue(@, msg)])
  <2>1. OnLink(c[l]) /\ c[l][n] \in Channel /\ c[l][n] \in ChannelOf(n) /\ msg \in Msg
    BY DEF Carries, OnLink, MsgOf
  <2>2. Queue(c[l][n], msg) \in Channel /\ Queue(c[l][n], msg) \in ChannelOf(n)
    BY <2>1, QueueType DEF Channel, ChannelOf
  <2>3. QED BY <2>1, <2>2 DEF OnLink
<1>5. Carries(chan')
  BY <1>1, <1>4, CarriesOn
<1>6. QED BY <1>3, <1>5 DEF ChansOK

\* A list has finitely many links.
LEMMA AllButFinite ==
  ASSUME NEW n \in Node, conns[n] \in Seq(End), NEW exclude
  PROVE  IsFiniteSet(AllBut(n, exclude))
<1> DEFINE I == DOMAIN conns[n]
           T == {conns[n][i].link : i \in I}
           f == [i \in I |-> conns[n][i].link]
<1>1. IsFiniteSet(I)
  <2>1. Len(conns[n]) \in Nat /\ I = 1..Len(conns[n])
    BY ListFacts
  <2>2. PICK k \in Int : k = Len(conns[n])
    BY <2>1
  <2>3. IsFiniteSet(1..k)
    BY FS_Interval, 1 \in Int
  <2>4. QED BY <2>1, <2>2, <2>3
<1>2. f \in Surjection(I, T)
  BY DEF Surjection
<1>3. IsFiniteSet(T)
  <2> HIDE DEF I, T, f
  <2>1. QED BY <1>1, <1>2, FS_Surjection
<1>4. AllBut(n, exclude) \in SUBSET T
  BY DEF AllBut, Ends
<1>5. QED BY <1>3, <1>4, FS_Subset

\* What subConnectionJson lists makes a NODE_SYNC message.
LEMMA SyncType ==
  ASSUME NEW n \in Node, NEW cs \in Seq(End), NEW exclude,
         NEW type \in {"NODE_SYNC_REQUEST", "NODE_SYNC_REPLY"}
  PROVE  /\ [type |-> type, from |-> n, subs |-> SubConnections(cs, exclude)] \in Msg
         /\ [type |-> type, from |-> n, subs |-> SubConnections(cs, exclude)] \in MsgOf(n)
<1>1. SubConnections(cs, exclude) \in Subs
  BY SubsType
<1>2. QED BY <1>1 DEF Msg, SyncMsg, MsgOf

\* What an application sends may come from any node.
LEMMA AppMsgOf == \A m \in AppMsg : \A n : m \in Msg /\ m \in MsgOf(n) /\ m \notin SyncMsg
BY AppAssumption DEF Msg, MsgOf, SyncMsg

-----------------------------------------------------------------------------
(* The connection that closes.                                             *)

\* What a close does to the links, and to what is on them.
CutLinks(n, e) ==
  [k \in Link |->
    IF e.station /\ k # e.link /\ k[1] = n /\ HasEnd(n, k) THEN [link[k] EXCEPT !.state = "lost"]
    ELSE link[k]]
CutChannels(n, e, c) ==
  [k \in Link |->
    IF k = e.link THEN [c[k] EXCEPT ![n].pending = <<>>, ![Peer(k, n)] = Idle]
    ELSE IF CutLinks(n, e)[k].state = "lost" THEN [m \in Node |-> Idle]
    ELSE c[k]]

LEMMA LinksCut ==
  ASSUME ConnsOK, LinksOK, NEW n \in Node, NEW e, link' = CutLinks(n, e)
  PROVE  Later(link, link') /\ LinksOK'
<1>1. \A k \in Link : HasEnd(n, k) => link[k].state # "free"
  <2>1. ASSUME NEW k \in Link, HasEnd(n, k) PROVE link[k].state # "free"
    <3>1. PICK j \in DOMAIN conns[n] : conns[n][j].link = k
      BY <2>1 DEF HasEnd, Ends
    <3>2. QED BY <3>1, EntryFacts
  <2>2. QED BY <2>1
<1>2. \A k \in Link : \/ link'[k] = link[k]
                      \/ link'[k] = [link[k] EXCEPT !.state = "lost"] /\ link[k].state # "free"
  BY <1>1 DEF CutLinks
<1>3. \A k \in Link : link[k] \in LinkState /\ [link[k] EXCEPT !.state = "lost"] \in LinkState
                      /\ [link[k] EXCEPT !.state = "lost"].state = "lost"
                      /\ [link[k] EXCEPT !.state = "lost"].ap = link[k].ap
  BY DEF LinksOK, LinkState
<1>4. link' \in [Link -> LinkState]
  BY <1>3 DEF CutLinks
<1>5. ASSUME NEW k \in Link, link'[k].state # "free"
      PROVE  link'[k].ap \in Node /\ link'[k].ap # k[1]
  <2>1. link[k].state # "free" /\ link'[k].ap = link[k].ap
    BY <1>2, <1>3, <1>5
  <2>2. QED BY <2>1 DEF LinksOK, Leads
<1>6. QED BY <1>2, <1>3, <1>4, <1>5 DEF Later, LinksOK, Leads

LEMMA ChannelsCut ==
  ASSUME NEW n \in Node, NEW e, e.link \in Link, Peer(e.link, n) \in Node,
         NEW c, Carries(c)
  PROVE  Carries(CutChannels(n, e, c))
<1>1. ASSUME NEW k \in Link
      PROVE  /\ OnLink(c[k]) /\ OnLink([m \in Node |-> Idle])
             /\ k = e.link => OnLink([c[k] EXCEPT ![n].pending = <<>>, ![Peer(k, n)] = Idle])
  <2>1. OnLink(c[k]) /\ c[k][n] \in Channel /\ c[k][n] \in ChannelOf(n)
    BY DEF Carries, OnLink
  <2>2. PICK q : q = [c[k][n] EXCEPT !.pending = <<>>]
    OBVIOUS
  <2>3. q \in Channel /\ q \in ChannelOf(n)
    BY <2>1, <2>2, EmptyTypes
  <2>4. PICK p : p = Peer(k, n)
    OBVIOUS
  <2>5. [c[k] EXCEPT ![n].pending = <<>>, ![p] = Idle] = [c[k] EXCEPT ![n] = q, ![p] = Idle]
    BY <2>1, <2>2 DEF OnLink
  <2>6. k = e.link => OnLink([c[k] EXCEPT ![n] = q, ![p] = Idle])
    BY <2>1, <2>3, <2>4, EmptyTypes DEF OnLink
  <2>7. OnLink([m \in Node |-> Idle])
    BY EmptyTypes DEF OnLink
  <2>8. QED BY <2>1, <2>4, <2>5, <2>6, <2>7
<1>2. PICK d : d = CutChannels(n, e, c)
  OBVIOUS
<1>3. d = [k \in Link |-> d[k]] /\ \A k \in Link : OnLink(d[k])
  BY <1>1, <1>2 DEF CutChannels
<1>4. QED BY <1>2, <1>3, CarriesOn

LEMMA Closes ==
  ASSUME IInv, NEW n \in Node, NEW i \in DOMAIN conns[n],
         NEW e, e.link = conns[n][i].link, e.node \in Node \cup {None},
         NEW c, Carries(c), Close(n, e, c)
  PROVE  ConnsOK' /\ LinksOK' /\ ChansOK' /\ StationsOK' /\ DropTaskOK' /\ Kept
<1> USE DEF IInv
<1>1. e.link \in Link /\ Peer(e.link, n) \in Node
  BY EntryFacts
<1>2. /\ conns' = [conns EXCEPT ![n] = Only(@, {x \in Ends(n) : x.link # e.link})]
      /\ dropTask' = [dropTask EXCEPT ![n] = e.node]
      /\ wifi' = IF e.station THEN [wifi EXCEPT ![n] = None] ELSE wifi
      /\ link' = CutLinks(n, e) /\ aps' = aps /\ faults' = faults
  BY DEF Close, CutLinks
<1>3. chan' = CutChannels(n, e, c)
  BY DEF Close, CutLinks, CutChannels
<1>4. DropTaskOK' /\ StationsOK'
  BY <1>2 DEF DropTaskOK, StationsOK
<1>5. Later(link, link') /\ LinksOK'
  BY <1>2, LinksCut
<1>6. ConnsOK' /\ Kept
  <2>1. PICK cs : cs = conns[n] /\ Sound(cs) /\ Opened(cs, link, n) /\ cs \in Seq(End)
    BY DEF ConnsOK
  <2>2. PICK S : S = {x \in Ends(n) : x.link # e.link}
    OBVIOUS
  <2>3. PICK us : us = Only(cs, S)
    OBVIOUS
  <2>4. /\ Sound(us) /\ (OneForName(cs) => OneForName(us))
        /\ \A k \in DOMAIN us : \E j \in DOMAIN cs : us[k] = cs[j]
    BY <2>1, <2>3, Fewer
  <2>5. Opened(us, link, n) /\ us \in Seq(End)
    BY <2>1, <2>4, OpenedFewer DEF Sound
  <2>6. Opened(us, link', n)
    BY <1>5, <2>5, OpenedLater
  <2>7. conns' = [conns EXCEPT ![n] = us]
    BY <1>2, <2>1, <2>2, <2>3
  <2>8. QED BY <1>5, <2>1, <2>4, <2>6, <2>7, ConnsStep
<1>7. ChansOK'
  BY <1>1, <1>2, <1>3, ChannelsCut DEF ChansOK
<1>8. QED BY <1>4, <1>5, <1>6, <1>7

-----------------------------------------------------------------------------
(* The actions.                                                            *)

LEMMA StartStep ==
  ASSUME IInv, NEW l \in Link, NEW n \in Node, Start(n, l)
  PROVE  IInv' /\ Kept
<1> USE DEF vars, netVars, wifiVars, appVars, IInv
<1>1. Later(link, link') /\ LinksOK'
  BY NoChange DEF Start
<1>2. ConnsOK' /\ Kept
  BY <1>1, ConnsSame DEF Start
<1>3. StationsOK' /\ NewTaskOK' /\ DropTaskOK' /\ AppsOK'
  BY DEF Start, StationsOK, NewTaskOK, DropTaskOK, AppsOK
<1>4. PICK q : q = chan[l][n]
  OBVIOUS
<1>5. OnLink(chan[l]) /\ q \in Channel /\ q \in ChannelOf(n) /\ q.pending # <<>>
  BY <1>4 DEF Start, ChansOK, Carries, OnLink
<1>6. PICK r : r = [pending |-> Tail(q.pending),
                    transit |-> IF Reaches(n, l) THEN Append(q.transit, Head(q.pending)) ELSE <<>>]
  OBVIOUS
<1>7. r \in Channel /\ r \in ChannelOf(n)
  <2>1. ASSUME NEW T, q \in [pending : Seq(T), transit : Seq(T)]
        PROVE  r \in [pending : Seq(T), transit : Seq(T)]
    <3>1. q.pending \in Seq(T) /\ q.transit \in Seq(T)
      BY <2>1
    <3>2. Tail(q.pending) \in Seq(T) /\ Head(q.pending) \in T
      BY <1>5, <3>1
    <3>3. Append(q.transit, Head(q.pending)) \in Seq(T) /\ <<>> \in Seq(T)
      BY <3>1, <3>2
    <3>4. QED BY <1>6, <3>2, <3>3
  <2>2. QED BY <1>5, <2>1 DEF Channel, ChannelOf
<1>8. chan' = [chan EXCEPT ![l] = [chan[l] EXCEPT ![n] = r]]
  BY <1>4, <1>6 DEF Start, ChansOK, Carries
<1>9. OnLink([chan[l] EXCEPT ![n] = r])
  BY <1>5, <1>7 DEF OnLink
<1>10. ChansOK'
  <2>1. chan' = [k \in Link |-> chan'[k]] /\ \A k \in Link : OnLink(chan'[k])
    BY <1>8, <1>9 DEF ChansOK, Carries, OnLink
  <2>2. Carries(chan')
    BY <2>1, CarriesOn
  <2>3. QED BY <2>2 DEF Start, ChansOK
<1>11. QED BY <1>1, <1>2, <1>3, <1>10

\* The entry of a link with its task set or reset.
LEMMA TaskSet ==
  ASSUME IInv, NEW n \in Node, NEW l, HasEnd(n, l), NEW due \in BOOLEAN, link' = link,
         conns' = [conns EXCEPT ![n] = Replace(@, [EndOn(n, l) EXCEPT !.due = due])]
  PROVE  ConnsOK' /\ Kept
<1> USE DEF IInv
<1>1. PICK cs : cs = conns[n] /\ Sound(cs) /\ Opened(cs, link, n) /\ cs \in Seq(End)
  BY DEF ConnsOK
<1>2. PICK i \in DOMAIN cs : cs[i] = EndOn(n, l)
  BY <1>1, EndOnFacts
<1>3. cs[i] \in End
  BY <1>1, ListFacts
<1>4. PICK e : e = [cs[i] EXCEPT !.due = due]
  OBVIOUS
<1>5. e \in End /\ e.node = cs[i].node /\ e.new = cs[i].new /\ e.link = cs[i].link
  BY <1>3, <1>4 DEF End
<1>6. e.new <=> e.node = None
  BY <1>1, <1>5 DEF Sound, NewUnnamed
<1>7. OneForName(cs) => NotTaken(cs, e)
  BY <1>5 DEF OneForName, NotTaken
<1>8. PICK us : us = Replace(cs, e)
  OBVIOUS
<1>9. /\ Sound(us) /\ DOMAIN us = DOMAIN cs /\ Swapped(us, cs, e)
      /\ OneForName(cs) /\ NotTaken(cs, e) => OneForName(us)
  BY <1>1, <1>5, <1>6, <1>8, Replaced
<1>10. Opened(us, link, n)
  <2>1. \A j \in DOMAIN cs : us[j].link = cs[j].link /\ us[j].node = cs[j].node
    BY <1>1, <1>2, <1>5, <1>9 DEF Sound, OneForLink, Swapped
  <2>2. QED BY <1>1, <1>9, <2>1, OpenedFewer
<1>11. Later(link, link') /\ conns' = [conns EXCEPT ![n] = us]
  BY <1>1, <1>2, <1>4, <1>8, NoChange
<1>12. QED BY <1>1, <1>7, <1>9, <1>10, <1>11, ConnsStep

LEMMA NodeSyncTaskStep ==
  ASSUME IInv, NEW l \in Link, NEW n \in Node, NodeSyncTask(n, l)
  PROVE  IInv' /\ Kept
<1> USE DEF vars, netVars, wifiVars, appVars, IInv
<1>1. LinksOK'
  BY NoChange DEF NodeSyncTask
<1>2. ConnsOK' /\ Kept
  BY TaskSet DEF NodeSyncTask
<1>3. StationsOK' /\ NewTaskOK' /\ DropTaskOK' /\ AppsOK'
  BY DEF NodeSyncTask, StationsOK, NewTaskOK, DropTaskOK, AppsOK
<1>4. PICK msg : msg = [type |-> "NODE_SYNC_REQUEST", from |-> n,
                        subs |-> SubConnections(conns[n], EndOn(n, l).node)]
  OBVIOUS
<1>5. msg \in MsgOf(n)
  BY <1>4, SyncType DEF ConnsOK
<1>6. Send(chan, n, {l}, msg)
  BY <1>4 DEF NodeSyncTask
<1>7. Carries(chan) /\ IsFiniteSet({l})
  BY FS_Singleton DEF ChansOK
<1>8. ChansOK'
  BY <1>5, <1>6, <1>7, SendType
<1>9. QED BY <1>1, <1>2, <1>3, <1>8

LEMMA IntervalOverStep ==
  ASSUME IInv, NEW l \in Link, NEW n \in Node, IntervalOver(n, l)
  PROVE  IInv' /\ Kept
<1> USE DEF vars, netVars, wifiVars, appVars, IInv
<1>1. LinksOK'
  BY NoChange DEF IntervalOver
<1>2. ConnsOK' /\ Kept
  BY TaskSet DEF IntervalOver
<1>3. ChansOK' /\ StationsOK' /\ NewTaskOK' /\ DropTaskOK' /\ AppsOK'
  BY DEF IntervalOver, ChansOK, StationsOK, NewTaskOK, DropTaskOK, AppsOK
<1>4. QED BY <1>1, <1>2, <1>3

LEMMA OnDisconnectStep ==
  ASSUME IInv, NEW l \in Link, NEW n \in Node, OnDisconnect(n, l)
  PROVE  IInv' /\ Kept
<1> USE DEF vars, netVars, wifiVars, appVars, IInv
<1>1. PICK i \in DOMAIN conns[n] : conns[n][i] = EndOn(n, l)
  BY EndOnFacts DEF OnDisconnect, ConnsOK
<1>2. EndOn(n, l).node \in Node \cup {None}
  BY <1>1, EntryFacts, EndFacts
<1>3. Carries(chan) /\ Close(n, EndOn(n, l), chan)
  BY DEF OnDisconnect, ChansOK
<1>4. ConnsOK' /\ LinksOK' /\ ChansOK' /\ StationsOK' /\ DropTaskOK' /\ Kept
  BY <1>1, <1>2, <1>3, Closes
<1>5. NewTaskOK' /\ AppsOK'
  BY DEF OnDisconnect, NewTaskOK, AppsOK
<1>6. QED BY <1>4, <1>5

LEMMA ReconfigureStep ==
  ASSUME IInv, NEW n \in Node, Reconfigure(n)
  PROVE  IInv' /\ Kept
<1> USE DEF vars, netVars, wifiVars, appVars, IInv
<1> DEFINE stations == {i \in DOMAIN conns[n] : conns[n][i].station}
           first == CHOOSE i \in stations : \A j \in stations : i <= j
<1>1. stations # {} /\ Close(n, conns[n][first], chan) /\ UNCHANGED <<newTask, appVars>>
  BY DEF Reconfigure
<1>2. first \in stations
  <2>1. Len(conns[n]) \in Nat /\ DOMAIN conns[n] = 1..Len(conns[n])
    BY ListFacts DEF ConnsOK
  <2>2. stations \subseteq 1..Len(conns[n])
    BY <2>1
  <2>3. \E i \in stations : \A j \in stations : i <= j
    <3> HIDE DEF stations
    <3>1. QED BY <1>1, <2>1, <2>2, LeastPlace
  <2> HIDE DEF stations
  <2>4. QED BY <2>3
<1>3. PICK i \in DOMAIN conns[n] : i = first
  BY <1>2
<1> HIDE DEF first
<1>4. conns[n][i].node \in Node \cup {None} /\ Close(n, conns[n][i], chan) /\ Carries(chan)
  BY <1>1, <1>3, EntryFacts, EndFacts DEF ChansOK
<1>5. ConnsOK' /\ LinksOK' /\ ChansOK' /\ StationsOK' /\ DropTaskOK' /\ Kept
  BY <1>4, Closes
<1>6. NewTaskOK' /\ AppsOK'
  BY <1>1 DEF NewTaskOK, AppsOK
<1>7. QED BY <1>5, <1>6

LEMMA DroppedConnectionTaskStep ==
  ASSUME IInv, NEW n \in Node, DroppedConnectionTask(n)
  PROVE  IInv' /\ Kept
<1> USE DEF vars, netVars, wifiVars, appVars, IInv
<1>1. Later(link, link') /\ LinksOK'
  BY NoChange DEF DroppedConnectionTask
<1>2. PICK cs : cs = conns[n] /\ Sound(cs) /\ Opened(cs, link, n)
  BY DEF ConnsOK
<1>3. PICK us : us = SyncSubConnections(cs, dropTask[n])
  OBVIOUS
<1>4. /\ Sound(us) /\ DOMAIN us = DOMAIN cs /\ (OneForName(cs) => OneForName(us))
      /\ \A i \in DOMAIN cs : us[i].link = cs[i].link /\ us[i].node = cs[i].node
  BY <1>2, <1>3, Synced
<1>5. Opened(us, link, n)
  BY <1>2, <1>4, OpenedFewer
<1>6. conns' = [conns EXCEPT ![n] = us] /\ link' = link
  BY <1>2, <1>3 DEF DroppedConnectionTask
<1>7. ConnsOK' /\ Kept
  BY <1>1, <1>2, <1>4, <1>5, <1>6, ConnsStep
<1>8. ChansOK' /\ StationsOK' /\ NewTaskOK' /\ DropTaskOK' /\ AppsOK'
  BY DEF DroppedConnectionTask, ChansOK, StationsOK, NewTaskOK, DropTaskOK, AppsOK
<1>9. QED BY <1>1, <1>7, <1>8

LEMMA NewConnectionTaskStep ==
  ASSUME IInv, NEW n \in Node, NewConnectionTask(n)
  PROVE  IInv' /\ Kept
<1> USE DEF vars, netVars, wifiVars, appVars, IInv
<1>1. Later(link, link') /\ LinksOK'
  BY NoChange DEF NewConnectionTask
<1>2. ConnsOK' /\ Kept
  BY <1>1, ConnsSame DEF NewConnectionTask
<1>3. ChansOK' /\ StationsOK' /\ NewTaskOK' /\ DropTaskOK' /\ AppsOK'
  BY DEF NewConnectionTask, ChansOK, StationsOK, NewTaskOK, DropTaskOK, AppsOK
<1>4. QED BY <1>1, <1>2, <1>3

LEMMA ScanCompleteStep ==
  ASSUME IInv, NEW n \in Node, ScanComplete(n)
  PROVE  IInv' /\ Kept
<1> USE DEF vars, netVars, wifiVars, appVars, IInv
<1>1. Later(link, link') /\ LinksOK'
  BY NoChange DEF ScanComplete
<1>2. ConnsOK' /\ Kept
  BY <1>1, ConnsSame DEF ScanComplete
<1>3. PICK seen \in SUBSET Node : aps' = [aps EXCEPT ![n] = seen] /\ n \notin seen
  <2>1. <<n, n>> \notin InRange
    BY RangeAssumption
  <2> DEFINE seen == {m \in Node : /\ <<n, m>> \in InRange
                                   /\ FindConnection(conns[n], m, None) = NoLink}
  <2>2. seen \in SUBSET Node /\ n \notin seen
    BY <2>1
  <2>3. aps' = [aps EXCEPT ![n] = seen]
    BY DEF ScanComplete
  <2> HIDE DEF seen
  <2>4. QED BY <2>2, <2>3
<1>4. StationsOK'
  BY <1>3 DEF ScanComplete, StationsOK
<1>5. ChansOK' /\ NewTaskOK' /\ DropTaskOK' /\ AppsOK'
  BY DEF ScanComplete, ChansOK, NewTaskOK, DropTaskOK, AppsOK
<1>6. QED BY <1>1, <1>2, <1>4, <1>5

LEMMA AssociationFailsStep ==
  ASSUME IInv, NEW n \in Node, NEW m \in Node, AssociationFails(n, m)
  PROVE  IInv' /\ Kept
<1> USE DEF vars, netVars, wifiVars, appVars, IInv
<1>1. Later(link, link') /\ LinksOK'
  BY NoChange DEF AssociationFails
<1>2. ConnsOK' /\ Kept
  BY <1>1, ConnsSame DEF AssociationFails
<1>3. StationsOK' /\ NewTaskOK' /\ DropTaskOK' /\ AppsOK'
  BY DEF AssociationFails, StationsOK, NewTaskOK, DropTaskOK, AppsOK
<1>4. ChansOK'
  <2>1. faults \in 0..MaxFaults /\ faults < MaxFaults /\ faults' = faults + 1
    BY DEF AssociationFails, ChansOK
  <2>2. faults' \in 0..MaxFaults
    BY <2>1, CountAssumption
  <2>3. QED BY <2>2 DEF AssociationFails, ChansOK
<1>5. QED BY <1>1, <1>2, <1>3, <1>4

\* A link in a new state.
LEMMA LinkStep ==
  ASSUME LinksOK, NEW l \in Link, NEW r \in LinkState, link' = [link EXCEPT ![l] = r],
         r.ap \in Node /\ r.ap # l[1] /\ r.state # "free",
         link[l].state = "free" \/ (r.state # "syn" /\ r.ap = link[l].ap)
  PROVE  Later(link, link') /\ LinksOK'
<1>1. link'[l] = r /\ \A k \in Link : k # l => link'[k] = link[k]
  BY DEF LinksOK
<1>2. link' \in [Link -> LinkState]
  BY DEF LinksOK
<1>3. Leads(link')
  BY <1>1 DEF LinksOK, Leads
<1>4. Later(link, link')
  BY <1>1 DEF Later
<1>5. QED BY <1>2, <1>3, <1>4 DEF LinksOK

LEMMA ConnectToAPStep ==
  ASSUME IInv, NEW n \in Node, NEW m \in aps[n], NEW l \in Link, ConnectToAP(n, m, l)
  PROVE  IInv' /\ Kept
<1> USE DEF vars, netVars, wifiVars, appVars, IInv
<1>1. m \in Node /\ m # n /\ l[1] = n /\ link[l].state = "free"
  BY DEF ConnectToAP, StationsOK
<1>2. PICK r : r = [ap |-> m, state |-> "syn"]
  OBVIOUS
<1>3. r \in LinkState /\ r.ap = m /\ r.state = "syn"
  BY <1>1, <1>2 DEF LinkState
<1>4. link' = [link EXCEPT ![l] = r]
  BY <1>2 DEF ConnectToAP
<1>5. Later(link, link') /\ LinksOK'
  BY <1>1, <1>3, <1>4, LinkStep
<1>6. PICK cs : cs = conns[n] /\ Sound(cs) /\ Opened(cs, link, n) /\ cs \in Seq(End)
  BY DEF ConnsOK
<1>7. \A i \in DOMAIN cs : cs[i].link # l
  BY <1>1, <1>6 DEF Opened
<1>8. PICK us : us = Append(cs, NewEnd(l, TRUE))
  OBVIOUS
<1>9. /\ Sound(us) /\ (OneForName(cs) => OneForName(us))
      /\ \A i \in DOMAIN us :
           (us[i].link = l /\ us[i].node = None) \/ \E j \in DOMAIN cs : us[i] = cs[j]
  <2>1. Fresh(NewEnd(l, TRUE), l)
    BY NewEndFresh
  <2>2. Sound(cs) /\ Without(cs, l)
    BY <1>6, <1>7 DEF Without
  <2>3. Entered(cs, us, l)
    BY <1>8, <2>1, <2>2, Added
  <2>4. QED BY <2>3 DEF Entered
<1>10. Opened(us, link', n)
  <2>1. Opened(cs, link', n)
    BY <1>5, <1>6, OpenedLater
  <2>2. link'[l].state = "syn"
    BY <1>3, <1>4 DEF LinksOK
  <2>3. QED BY <1>1, <1>9, <2>1, <2>2 DEF Opened
<1>11. conns' = [conns EXCEPT ![n] = us]
  BY <1>6, <1>8 DEF ConnectToAP
<1>12. ConnsOK' /\ Kept
  BY <1>5, <1>6, <1>9, <1>10, <1>11, ConnsStep
<1>13. StationsOK'
  BY <1>1 DEF ConnectToAP, StationsOK
<1>14. ChansOK' /\ NewTaskOK' /\ DropTaskOK' /\ AppsOK'
  BY DEF ConnectToAP, ChansOK, NewTaskOK, DropTaskOK, AppsOK
<1>15. QED BY <1>5, <1>12, <1>13, <1>14

LEMMA AcceptStep ==
  ASSUME IInv, NEW l \in Link, Accept(l)
  PROVE  IInv' /\ Kept
<1> USE DEF vars, netVars, wifiVars, appVars, IInv
<1>1. PICK n : n = link[l].ap
  OBVIOUS
<1>2. link[l] \in LinkState /\ link[l].state = "syn" /\ n \in Node /\ n # l[1]
  BY <1>1 DEF Accept, LinksOK, Leads
<1>3. PICK r : r = [link[l] EXCEPT !.state = "up"]
  OBVIOUS
<1>4. r \in LinkState /\ r.ap = n /\ r.state = "up"
  BY <1>1, <1>2, <1>3 DEF LinkState
<1>5. link' = [link EXCEPT ![l] = r]
  BY <1>3 DEF Accept, LinksOK
<1>6. Later(link, link') /\ LinksOK'
  BY <1>1, <1>2, <1>4, <1>5, LinkStep
<1>7. PICK cs : cs = conns[n] /\ Sound(cs) /\ Opened(cs, link, n) /\ cs \in Seq(End)
  BY <1>2 DEF ConnsOK
<1>8. \A i \in DOMAIN cs : cs[i].link # l
  BY <1>2, <1>7 DEF Opened
<1>9. PICK us : us = Append(cs, NewEnd(l, FALSE))
  OBVIOUS
<1>10. /\ Sound(us) /\ (OneForName(cs) => OneForName(us))
       /\ \A i \in DOMAIN us :
            (us[i].link = l /\ us[i].node = None) \/ \E j \in DOMAIN cs : us[i] = cs[j]
  <2>1. Fresh(NewEnd(l, FALSE), l)
    BY NewEndFresh
  <2>2. Sound(cs) /\ Without(cs, l)
    BY <1>7, <1>8 DEF Without
  <2>3. Entered(cs, us, l)
    BY <1>9, <2>1, <2>2, Added
  <2>4. QED BY <2>3 DEF Entered
<1>11. Opened(us, link', n)
  <2>1. Opened(cs, link', n)
    BY <1>6, <1>7, OpenedLater
  <2>2. link'[l].state = "up"
    BY <1>4, <1>5 DEF LinksOK
  <2>3. QED BY <1>10, <2>1, <2>2 DEF Opened
<1>12. conns' = [conns EXCEPT ![n] = us]
  BY <1>1, <1>7, <1>9 DEF Accept
<1>13. ConnsOK' /\ Kept
  BY <1>2, <1>6, <1>7, <1>10, <1>11, <1>12, ConnsStep
<1>14. ChansOK' /\ StationsOK' /\ NewTaskOK' /\ DropTaskOK' /\ AppsOK'
  BY DEF Accept, ChansOK, StationsOK, NewTaskOK, DropTaskOK, AppsOK
<1>15. QED BY <1>6, <1>13, <1>14

LEMMA LinkLostStep ==
  ASSUME IInv, NEW l \in Link, LinkLost(l)
  PROVE  IInv' /\ Kept
<1> USE DEF vars, netVars, wifiVars, appVars, IInv
<1>1. link[l] \in LinkState /\ link[l].ap \in Node /\ link[l].ap # l[1] /\ l[1] \in Node
  BY LinkFacts DEF LinkLost, LinksOK, Leads
<1>2. PICK r : r = [link[l] EXCEPT !.state = "lost"]
  OBVIOUS
<1>3. r \in LinkState /\ r.ap = link[l].ap /\ r.state = "lost"
  BY <1>1, <1>2 DEF LinkState
<1>4. link' = [link EXCEPT ![l] = r]
  BY <1>2 DEF LinkLost, LinksOK
<1>5. Later(link, link') /\ LinksOK'
  BY <1>1, <1>3, <1>4, LinkStep
<1>6. ConnsOK' /\ Kept
  BY <1>5, ConnsSame DEF LinkLost
<1>7. StationsOK' /\ NewTaskOK' /\ DropTaskOK' /\ AppsOK'
  BY <1>1 DEF LinkLost, StationsOK, NewTaskOK, DropTaskOK, AppsOK
<1>8. ChansOK'
  <2>1. OnLink([n \in Node |-> Idle])
    BY EmptyTypes DEF OnLink
  <2>2. Carries(chan')
    <3>1. chan' = [k \in Link |-> chan'[k]] /\ \A k \in Link : OnLink(chan'[k])
      BY <2>1 DEF LinkLost, ChansOK, Carries, OnLink
    <3>2. QED BY <3>1, CarriesOn
  <2>3. faults \in 0..MaxFaults /\ faults < MaxFaults /\ faults' = faults + 1
    BY DEF LinkLost, ChansOK
  <2>4. faults' \in 0..MaxFaults
    BY <2>3, CountAssumption
  <2>5. QED BY <2>2, <2>4 DEF ChansOK
<1>9. QED BY <1>5, <1>6, <1>7, <1>8

-----------------------------------------------------------------------------
(* Receiving, and what the applications send.                              *)

\* Sending, of whatever the node has received.
LEMMA SendStep ==
  ASSUME IInv, NEW c, Carries(c), NEW n \in Node, NEW links, IsFiniteSet(links),
         NEW msg \in MsgOf(n), Send(c, n, links, msg) \/ (chan' = c /\ faults' = faults),
         conns' = conns, link' = link, UNCHANGED <<wifiVars, newTask, dropTask>>
  PROVE  ConnsOK' /\ LinksOK' /\ ChansOK' /\ StationsOK' /\ NewTaskOK' /\ DropTaskOK' /\ Kept
<1> USE DEF wifiVars, IInv
<1>1. Later(link, link') /\ LinksOK'
  BY NoChange
<1>2. ConnsOK' /\ Kept
  BY <1>1, ConnsSame
<1>3. Send(c, n, links, msg) => ChansOK'
  BY SendType
<1>4. ASSUME chan' = c /\ faults' = faults PROVE ChansOK'
  BY <1>4 DEF ChansOK
<1>5. StationsOK' /\ NewTaskOK' /\ DropTaskOK'
  BY DEF StationsOK, NewTaskOK, DropTaskOK
<1>6. ChansOK'
  BY <1>3, <1>4
<1>7. QED BY <1>1, <1>2, <1>5, <1>6

\* What the application is given.
LEMMA ReceiveType ==
  ASSUME AppsOK, NEW n \in Node, NEW msg \in AppMsg, Receive(n, msg), sent' = sent
  PROVE  AppsOK'
<1>1. got[n] \in [AppMsg -> 0..2] /\ got[n][msg] \in 0..2
  BY DEF AppsOK
<1>2. PICK k : k = IF got[n][msg] < 2 THEN got[n][msg] + 1 ELSE got[n][msg]
  OBVIOUS
<1>3. k \in 0..2
  BY <1>1, <1>2
<1>4. got' = [got EXCEPT ![n] = [got[n] EXCEPT ![msg] = k]]
  BY <1>2 DEF Receive, AppsOK
<1>5. [got[n] EXCEPT ![msg] = k] \in [AppMsg -> 0..2]
  BY <1>1, <1>3
<1>6. QED BY <1>4, <1>5 DEF AppsOK

\* The first message of a channel, and what is left of it.
LEMMA HandleFacts ==
  ASSUME IInv, NEW l \in Link, NEW n \in Node, HasEnd(n, l),
         chan[l][Peer(l, n)].transit # <<>>
  PROVE  /\ Head(chan[l][Peer(l, n)].transit) \in Msg
         /\ Head(chan[l][Peer(l, n)].transit) \in MsgOf(Peer(l, n))
         /\ Carries([chan EXCEPT ![l][Peer(l, n)].transit = Tail(@)])
         /\ EndOn(n, l) \in End /\ EndOn(n, l).link = l
         /\ \E i \in DOMAIN conns[n] : conns[n][i] = EndOn(n, l)
<1> USE DEF IInv
<1>1. /\ EndOn(n, l) \in End /\ EndOn(n, l).link = l
      /\ \E i \in DOMAIN conns[n] : conns[n][i] = EndOn(n, l)
  BY EndOnFacts DEF ConnsOK
<1>2. PICK p \in Node : p = Peer(l, n)
  BY <1>1, EntryFacts
<1>3. PICK q : q = chan[l][p]
  OBVIOUS
<1>4. OnLink(chan[l]) /\ q \in Channel /\ q \in ChannelOf(p) /\ q.transit # <<>>
  BY <1>2, <1>3 DEF ChansOK, Carries, OnLink
<1>5. ASSUME NEW T, q \in [pending : Seq(T), transit : Seq(T)]
      PROVE  /\ Head(q.transit) \in T
             /\ [q EXCEPT !.transit = Tail(q.transit)] \in [pending : Seq(T), transit : Seq(T)]
  <2>1. q.transit \in Seq(T)
    BY <1>5
  <2>2. Head(q.transit) \in T /\ Tail(q.transit) \in Seq(T)
    BY <1>4, <2>1
  <2>3. QED BY <1>5, <2>2
<1>6. PICK r : r = [q EXCEPT !.transit = Tail(q.transit)]
  OBVIOUS
<1>7. /\ Head(q.transit) \in Msg /\ Head(q.transit) \in MsgOf(p)
      /\ r \in Channel /\ r \in ChannelOf(p)
  BY <1>4, <1>5, <1>6 DEF Channel, ChannelOf
<1>8. OnLink([chan[l] EXCEPT ![p] = r])
  BY <1>4, <1>7 DEF OnLink
<1>9. [chan EXCEPT ![l][p].transit = Tail(@)] = [chan EXCEPT ![l] = [chan[l] EXCEPT ![p] = r]]
  BY <1>3, <1>4, <1>6 DEF ChansOK, Carries, OnLink
<1>10. Carries([chan EXCEPT ![l][p].transit = Tail(@)])
  <2>1. PICK d : d = [chan EXCEPT ![l] = [chan[l] EXCEPT ![p] = r]]
    OBVIOUS
  <2>2. d = [k \in Link |-> d[k]] /\ \A k \in Link : OnLink(d[k])
    BY <1>8, <2>1 DEF ChansOK, Carries, OnLink
  <2>3. QED BY <1>9, <2>1, <2>2, CarriesOn
<1>11. QED BY <1>1, <1>2, <1>3, <1>7, <1>10

\* The type of a message tells what it is.
LEMMA MsgKinds ==
  ASSUME NEW msg \in Msg
  PROVE  /\ msg.type \in {"SINGLE", "BROADCAST"} => msg \in AppMsg
         /\ msg.type \notin {"SINGLE", "BROADCAST"} =>
              msg \in SyncMsg /\ msg.from \in Node /\ msg.subs \in Subs
                /\ msg.type \in {"NODE_SYNC_REQUEST", "NODE_SYNC_REPLY"}
BY AppAssumption DEF Msg, SyncMsg

LEMMA HandleSingleStep ==
  ASSUME IInv, NEW l \in Link, NEW n \in Node, NEW msg \in AppMsg, NEW c, Carries(c),
         HandleSingle(n, l, msg, c)
  PROVE  IInv' /\ Kept
<1> USE DEF wifiVars, IInv
<1>1. PICK route : route = FindConnection(conns[n], msg.dest, EndOn(n, l).node)
  OBVIOUS
<1>2. Send(c, n, {route}, msg) \/ (chan' = c /\ faults' = faults)
  BY <1>1 DEF HandleSingle
<1>3. msg \in MsgOf(n) /\ IsFiniteSet({route})
  BY FS_Singleton, AppMsgOf
<1>4. conns' = conns /\ link' = link /\ UNCHANGED <<wifiVars, newTask, dropTask>> /\ sent' = sent
  BY DEF HandleSingle
<1>5. ConnsOK' /\ LinksOK' /\ ChansOK' /\ StationsOK' /\ NewTaskOK' /\ DropTaskOK' /\ Kept
  BY <1>2, <1>3, <1>4, SendStep
<1>6. Receive(n, msg) \/ got' = got
  BY DEF HandleSingle
<1>7. AppsOK'
  <2>1. CASE Receive(n, msg)
    BY <1>4, <2>1, ReceiveType
  <2>2. CASE got' = got
    BY <1>4, <2>2 DEF AppsOK
  <2>3. QED BY <1>6, <2>1, <2>2
<1>8. QED BY <1>5, <1>7

LEMMA HandleBroadcastStep ==
  ASSUME IInv, NEW l \in Link, NEW n \in Node, NEW msg \in AppMsg, NEW c, Carries(c),
         HandleBroadcast(n, l, msg, c)
  PROVE  IInv' /\ Kept
<1> USE DEF wifiVars, IInv
<1>1. PICK links : links = AllBut(n, EndOn(n, l).node)
  OBVIOUS
<1>2. Send(c, n, links, msg) /\ IsFiniteSet(links)
  BY <1>1, AllButFinite DEF HandleBroadcast, ConnsOK
<1>3. msg \in MsgOf(n)
  BY AppMsgOf
<1>4. conns' = conns /\ link' = link /\ UNCHANGED <<wifiVars, newTask, dropTask>> /\ sent' = sent
  BY DEF HandleBroadcast
<1>5. ConnsOK' /\ LinksOK' /\ ChansOK' /\ StationsOK' /\ NewTaskOK' /\ DropTaskOK' /\ Kept
  BY <1>2, <1>3, <1>4, SendStep
<1>6. AppsOK'
  BY <1>4, ReceiveType DEF HandleBroadcast
<1>7. QED BY <1>5, <1>6

LEMMA SendSingleStep ==
  ASSUME IInv, NEW m \in AppMsg, SendSingle(m)
  PROVE  IInv' /\ Kept
<1> USE DEF wifiVars, IInv
<1>1. PICK route : route = FindConnection(conns[m.from], m.dest, None)
  OBVIOUS
<1>2. Send(chan, m.from, {route}, m) /\ IsFiniteSet({route}) /\ Carries(chan)
  BY <1>1, FS_Singleton DEF SendSingle, ChansOK
<1>3. m \in MsgOf(m.from) /\ m.from \in Node
  BY AppAssumption, AppMsgOf
<1>4. /\ conns' = conns /\ link' = link /\ UNCHANGED <<wifiVars, newTask, dropTask>>
      /\ sent' = sent \cup {m} /\ got' = got
  BY DEF SendSingle
<1>5. ConnsOK' /\ LinksOK' /\ ChansOK' /\ StationsOK' /\ NewTaskOK' /\ DropTaskOK' /\ Kept
  BY <1>2, <1>3, <1>4, SendStep
<1>6. AppsOK'
  BY <1>4 DEF AppsOK
<1>7. QED BY <1>5, <1>6

LEMMA SendBroadcastStep ==
  ASSUME IInv, NEW m \in AppMsg, SendBroadcast(m)
  PROVE  IInv' /\ Kept
<1> USE DEF wifiVars, IInv
<1>1. m \in MsgOf(m.from) /\ m.from \in Node
  BY AppAssumption, AppMsgOf
<1>2. PICK links : links = AllBut(m.from, Off)
  OBVIOUS
<1>3. Send(chan, m.from, links, m) /\ IsFiniteSet(links) /\ Carries(chan)
  BY <1>1, <1>2, AllButFinite DEF SendBroadcast, ChansOK, ConnsOK
<1>4. /\ conns' = conns /\ link' = link /\ UNCHANGED <<wifiVars, newTask, dropTask>>
      /\ sent' = sent \cup {m} /\ got' = got
  BY DEF SendBroadcast
<1>5. ConnsOK' /\ LinksOK' /\ ChansOK' /\ StationsOK' /\ NewTaskOK' /\ DropTaskOK' /\ Kept
  BY <1>1, <1>3, <1>4, SendStep
<1>6. AppsOK'
  BY <1>4 DEF AppsOK
<1>7. QED BY <1>5, <1>6

\* A connection that is kept: it has the name of its other end.
LEMMA TakeSubsStep ==
  ASSUME IInv, NEW n \in Node, NEW i \in DOMAIN conns[n],
         NEW e \in End, e.link = conns[n][i].link, e.node # None, ~e.new,
         e.node = Peer(e.link, n), OneForName(conns[n]) => NotTaken(conns[n], e),
         NEW msg \in SyncMsg, NEW c, Carries(c), TakeSubs(n, e, msg, c)
  PROVE  ConnsOK' /\ LinksOK' /\ ChansOK' /\ StationsOK' /\ DropTaskOK' /\ Kept
<1> USE DEF IInv
<1>1. PICK cs : cs = conns[n] /\ Sound(cs) /\ Opened(cs, link, n)
  BY DEF ConnsOK
<1>2. PICK f : f = StoreSubs(e, msg)
  OBVIOUS
<1>3. f \in End /\ f.link = e.link /\ f.node = e.node /\ f.new = e.new
  <2>1. msg.subs \in Subs
    BY DEF SyncMsg
  <2>2. QED BY <1>2, <2>1 DEF StoreSubs, End
<1>4. PICK ds : ds = Replace(cs, f)
  OBVIOUS
<1>5. /\ Sound(ds) /\ DOMAIN ds = DOMAIN cs /\ Swapped(ds, cs, f)
      /\ OneForName(cs) => OneForName(ds)
  <2>1. OneForName(cs) => NotTaken(cs, f)
    BY <1>1, <1>3 DEF NotTaken
  <2>2. f.new <=> f.node = None
    BY <1>3
  <2>3. /\ Sound(ds) /\ DOMAIN ds = DOMAIN cs /\ Swapped(ds, cs, f)
        /\ OneForName(cs) /\ NotTaken(cs, f) => OneForName(ds)
    BY <1>1, <1>3, <1>4, <2>2, Replaced
  <2>4. QED BY <2>1, <2>3
<1>6. PICK us : us = IF msg.subs # e.subs THEN SyncSubConnections(ds, e.node) ELSE ds
  OBVIOUS
<1>7. /\ Sound(us) /\ DOMAIN us = DOMAIN ds /\ (OneForName(ds) => OneForName(us))
      /\ \A j \in DOMAIN ds : us[j].link = ds[j].link /\ us[j].node = ds[j].node
  <2>1. /\ Sound(SyncSubConnections(ds, e.node))
        /\ DOMAIN SyncSubConnections(ds, e.node) = DOMAIN ds
        /\ OneForName(ds) => OneForName(SyncSubConnections(ds, e.node))
        /\ \A j \in DOMAIN ds : /\ SyncSubConnections(ds, e.node)[j].link = ds[j].link
                                /\ SyncSubConnections(ds, e.node)[j].node = ds[j].node
    BY <1>5, Synced
  <2>2. us = SyncSubConnections(ds, e.node) \/ us = ds
    BY <1>6
  <2>3. QED BY <1>5, <2>1, <2>2
<1>8. Opened(us, link, n)
  <2>1. ASSUME NEW j \in DOMAIN us
        PROVE  us[j].link = cs[j].link /\ us[j].node \in {cs[j].node, Peer(cs[j].link, n)}
    BY <1>3, <1>5, <1>7, <2>1 DEF Swapped
  <2>2. ASSUME NEW j \in DOMAIN us, NEW k, k = us[j].link
        PROVE  /\ link[k].state # "free" /\ (link[k].state = "syn" => k[1] = n)
               /\ us[j].node \in {None, Peer(k, n)}
    <3>1. j \in DOMAIN cs /\ cs[j].link = k /\ us[j].node \in {cs[j].node, Peer(k, n)}
      BY <1>5, <1>7, <2>1, <2>2
    <3>2. cs[j].node \in {None, Peer(k, n)}
      BY <1>1, <3>1 DEF Opened, Peer
    <3>3. QED BY <1>1, <3>1, <3>2 DEF Opened
  <2>3. QED BY <2>2 DEF Opened, Peer
<1>9. /\ conns' = [conns EXCEPT ![n] = us]
      /\ link' = link /\ UNCHANGED <<wifiVars, dropTask>>
  BY <1>1, <1>2, <1>4, <1>6 DEF TakeSubs
<1>10. Later(link, link') /\ LinksOK'
  BY <1>9, NoChange
<1>11. ConnsOK' /\ Kept
  BY <1>1, <1>5, <1>7, <1>8, <1>9, <1>10, ConnsStep
<1>12. PICK reply : reply = [type |-> "NODE_SYNC_REPLY", from |-> n,
                             subs |-> SubConnections(ds, e.node)]
  OBVIOUS
<1>13. reply \in MsgOf(n)
  BY <1>5, <1>12, SyncType DEF Sound
<1>14. Send(c, n, {e.link}, reply) \/ (chan' = c /\ faults' = faults)
  BY <1>1, <1>2, <1>4, <1>12 DEF TakeSubs
<1>15. ChansOK'
  <2>1. Send(c, n, {e.link}, reply) => ChansOK'
    BY <1>13, FS_Singleton, SendType
  <2>2. ASSUME chan' = c /\ faults' = faults PROVE ChansOK'
    BY <2>2 DEF ChansOK
  <2>3. QED BY <1>14, <2>1, <2>2
<1>16. StationsOK' /\ DropTaskOK'
  BY <1>9 DEF wifiVars, StationsOK, DropTaskOK
<1>17. QED BY <1>10, <1>11, <1>15, <1>16

LEMMA HandleNodeSyncStep ==
  ASSUME IInv, NEW l \in Link, NEW n \in Node, NEW c, Carries(c),
         EndOn(n, l) \in End, EndOn(n, l).link = l, NEW i \in DOMAIN conns[n], conns[n][i] = EndOn(n, l),
         NEW msg \in SyncMsg, msg.from = Peer(l, n), HandleNodeSync(n, l, msg, c)
  PROVE  IInv' /\ Kept
<1> USE DEF IInv
<1>1. PICK e \in End : e = EndOn(n, l)
  OBVIOUS
<1>2. PICK named : named = IF e.new THEN [e EXCEPT !.node = msg.from, !.new = FALSE] ELSE e
  OBVIOUS
<1>3. PICK cs : cs = conns[n] /\ Sound(cs) /\ cs[i] = e
  BY <1>1 DEF ConnsOK
<1>4. msg.from \in Node /\ msg.from # None
  BY NodeAssumption DEF SyncMsg
<1>5. named \in End /\ named.link = e.link /\ ~named.new /\ named.node # None
  <2>1. CASE e.new
    BY <1>2, <1>4, <2>1 DEF End
  <2>2. CASE ~e.new
    <3>1. e.node # None
      BY <1>3, <2>2 DEF Sound, NewUnnamed
    <3>2. QED BY <1>2, <2>2, <3>1
  <2>3. QED BY <2>1, <2>2
<1>6. named.node \in Node \cup {None} /\ e.node \in Node \cup {None}
  BY <1>5, EndFacts
<1>7. AppsOK'
  <2>1. UNCHANGED appVars
    BY DEF HandleNodeSync
  <2>2. QED BY <2>1 DEF appVars, AppsOK
<1>8. NewTaskOK' /\ (AlreadyConnected(n, e, msg) => Close(n, e, c))
  BY <1>1, <1>4 DEF HandleNodeSync, NewTaskOK
<1>9. CASE AlreadyConnected(n, e, msg)
  <2>1. ConnsOK' /\ LinksOK' /\ ChansOK' /\ StationsOK' /\ DropTaskOK' /\ Kept
    BY <1>1, <1>6, <1>8, <1>9, Closes
  <2>2. QED BY <1>7, <1>8, <2>1
<1>10. CASE ~AlreadyConnected(n, e, msg)
  <2>1. Close(n, named, c) \/ TakeSubs(n, named, msg, c)
    BY <1>1, <1>2, <1>10 DEF HandleNodeSync
  <2>2. OneForName(cs) => NotTaken(cs, named)
    <3>1. CASE e.new
      <4>1. FindConnection(cs, msg.from, None) = NoLink
        BY <1>3, <1>10, <3>1 DEF AlreadyConnected
      <4>2. \A j \in DOMAIN cs : cs[j].node # None => cs[j].node # msg.from
        BY <1>3, <4>1, FoundFacts DEF Sound
      <4>3. named.node = msg.from
        BY <1>2, <3>1 DEF End
      <4>4. QED BY <1>4, <4>2, <4>3 DEF NotTaken
    <3>2. CASE ~e.new
      <4>1. named = cs[i] /\ i \in DOMAIN cs
        BY <1>2, <1>3, <3>2
      <4>2. QED BY <4>1 DEF OneForName, NotTaken
    <3>3. QED BY <3>1, <3>2
  <2>3. CASE Close(n, named, c)
    <3>1. ConnsOK' /\ LinksOK' /\ ChansOK' /\ StationsOK' /\ DropTaskOK' /\ Kept
      BY <1>1, <1>5, <1>6, <2>3, Closes
    <3>2. QED BY <1>7, <1>8, <3>1
  <2>4. CASE TakeSubs(n, named, msg, c)
    <3>1. named.node = Peer(named.link, n)
      <4>1. CASE e.new
        BY <1>1, <1>2, <1>5, <4>1 DEF End
      <4>2. CASE ~e.new
        <5>1. named = cs[i] /\ i \in DOMAIN conns[n]
          BY <1>2, <1>3, <4>2
        <5>2. QED BY <1>3, <1>5, <5>1, EntryFacts
      <4>3. QED BY <4>1, <4>2
    <3>2. ConnsOK' /\ LinksOK' /\ ChansOK' /\ StationsOK' /\ DropTaskOK' /\ Kept
      BY <1>1, <1>3, <1>5, <2>2, <2>4, <3>1, TakeSubsStep
    <3>3. QED BY <1>7, <1>8, <3>2
  <2>5. QED BY <2>1, <2>3, <2>4
<1>11. QED BY <1>9, <1>10

LEMMA HandleStep ==
  ASSUME IInv, NEW l \in Link, NEW n \in Node, Handle(n, l)
  PROVE  IInv' /\ Kept
<1>1. PICK c : c = [chan EXCEPT ![l][Peer(l, n)].transit = Tail(@)]
  OBVIOUS
<1>2. PICK msg : msg = Head(chan[l][Peer(l, n)].transit)
  OBVIOUS
<1>3. HasEnd(n, l) /\ chan[l][Peer(l, n)].transit # <<>>
  BY DEF Handle
<1>4. /\ msg \in Msg /\ msg \in MsgOf(Peer(l, n)) /\ Carries(c)
      /\ EndOn(n, l) \in End /\ EndOn(n, l).link = l
  BY <1>1, <1>2, <1>3, HandleFacts
<1>5. PICK i \in DOMAIN conns[n] : conns[n][i] = EndOn(n, l)
  BY <1>3, HandleFacts
<1>6. CASE msg.type = "SINGLE"
  <2>1. HandleSingle(n, l, msg, c)
    BY <1>1, <1>2, <1>6 DEF Handle
  <2>2. QED BY <1>4, <1>6, <2>1, MsgKinds, HandleSingleStep
<1>7. CASE msg.type = "BROADCAST"
  <2>1. HandleBroadcast(n, l, msg, c)
    BY <1>1, <1>2, <1>7 DEF Handle
  <2>2. QED BY <1>4, <1>7, <2>1, MsgKinds, HandleBroadcastStep
<1>8. CASE msg.type \notin {"SINGLE", "BROADCAST"}
  <2>1. HandleNodeSync(n, l, msg, c)
    BY <1>1, <1>2, <1>8 DEF Handle
  <2>2. msg \in SyncMsg /\ msg.from = Peer(l, n)
    BY <1>4, <1>8, MsgKinds DEF MsgOf
  <2>3. QED BY <1>4, <1>5, <2>1, <2>2, HandleNodeSyncStep
<1>9. QED BY <1>6, <1>7, <1>8

-----------------------------------------------------------------------------
(* The invariant.                                                          *)

LEMMA InitOK ==
  ASSUME Init
  PROVE  IInv /\ NamesOK
<1> USE DEF Init
<1>1. ConnsOK
  <2>1. <<>> \in Seq(End) /\ DOMAIN <<>> = {}
    OBVIOUS
  <2>2. \A n \in Node : conns[n] = <<>>
    OBVIOUS
  <2>3. Sound(<<>>) /\ \A n : Opened(<<>>, link, n)
    BY <2>1 DEF Sound, OneForLink, NewUnnamed, Opened
  <2>4. conns \in [Node -> Seq(End)]
    BY <2>1
  <2>5. QED BY <2>2, <2>3, <2>4 DEF ConnsOK
<1>2. LinksOK
  BY DEF LinksOK, LinkState, Leads
<1>3. ChansOK
  <2>1. 0 \in 0..MaxFaults
    BY CountAssumption
  <2>2. QED BY <2>1, EmptyTypes DEF ChansOK, Carries
<1>4. StationsOK /\ NewTaskOK /\ DropTaskOK
  BY DEF StationsOK, NewTaskOK, DropTaskOK
<1>5. AppsOK
  <2>1. 0 \in 0..2
    OBVIOUS
  <2>2. QED BY <2>1 DEF AppsOK
<1>6. NamesOK
  <2>1. DOMAIN <<>> = {}
    OBVIOUS
  <2>2. QED BY <2>1 DEF NamesOK, OneForName
<1>7. QED BY <1>1, <1>2, <1>3, <1>4, <1>5, <1>6 DEF IInv

LEMMA NextOK ==
  ASSUME IInv, [Next]_vars
  PROVE  IInv' /\ Kept
<1>1. ASSUME NEW l \in Link, NEW n \in Members(l), Serve(n, l) \/ IntervalOver(n, l)
      PROVE  IInv' /\ Kept
  <2>1. n \in Node
    BY LinkFacts, NodeAssumption DEF Members, IInv, LinksOK, LinkState
  <2>2. QED BY <1>1, <2>1, StartStep, NodeSyncTaskStep, HandleStep, OnDisconnectStep,
               IntervalOverStep DEF Serve
<1>2. ASSUME NEW n \in Node, DroppedConnectionTask(n) \/ NewConnectionTask(n)
      PROVE  IInv' /\ Kept
  BY <1>2, DroppedConnectionTaskStep, NewConnectionTaskStep
<1>3. ASSUME NEW m \in AppMsg, SendSingle(m) \/ SendBroadcast(m)
      PROVE  IInv' /\ Kept
  BY <1>3, SendSingleStep, SendBroadcastStep
<1>4. ASSUME NEW n \in Node, ScanComplete(n) \/ Reconfigure(n)
      PROVE  IInv' /\ Kept
  BY <1>4, ScanCompleteStep, ReconfigureStep
<1>5. ASSUME NEW n \in Node, NEW m \in aps[n],
             AssociationFails(n, m) \/ \E l \in Link : ConnectToAP(n, m, l)
      PROVE  IInv' /\ Kept
  <2>1. m \in Node
    BY DEF IInv, StationsOK
  <2>2. QED BY <1>5, <2>1, AssociationFailsStep, ConnectToAPStep
<1>6. ASSUME NEW l \in Link, Accept(l) \/ LinkLost(l)
      PROVE  IInv' /\ Kept
  BY <1>6, AcceptStep, LinkLostStep
<1>7. CASE UNCHANGED vars
  <2>1. Later(link, link') /\ LinksOK'
    BY <1>7, NoChange DEF vars, netVars, IInv
  <2>2. ConnsOK' /\ Kept
    BY <1>7, <2>1, ConnsSame DEF vars, IInv
  <2>3. ChansOK' /\ StationsOK' /\ NewTaskOK' /\ DropTaskOK' /\ AppsOK'
    BY <1>7 DEF vars, netVars, wifiVars, appVars, IInv, ChansOK, StationsOK, NewTaskOK,
                DropTaskOK, AppsOK
  <2>4. QED BY <2>1, <2>2, <2>3 DEF IInv
<1>8. CASE Next
  BY <1>1, <1>2, <1>3, <1>4, <1>5, <1>6, <1>8 DEF Next
<1>9. QED BY <1>7, <1>8

\* In every reachable state the lists of connections have one entry for a
\* link and one for a name, an entry with a name has that of the node at the
\* other end of its link, and nobody has an entry for a link that is not yet
\* opened or, at the access point, not yet accepted (handleNodeSync,
\* tcpConnect, tcpServerInit, close): the inductive invariant.
THEOREM MeshCorrect == Spec => [](IInv /\ NamesOK)
<1>1. Init => IInv /\ NamesOK
  BY InitOK
<1>2. IInv /\ NamesOK /\ [Next]_vars => (IInv /\ NamesOK)'
  BY NextOK DEF Kept, NamesOK
<1>3. QED BY <1>1, <1>2, PTL DEF Spec

\* Every reachable state is well typed, for every set of nodes, range and
\* number of links: in particular subConnectionJson lists only nodes.
THEOREM MeshTypes == Spec => []TypeOK
<1>1. IInv => TypeOK
  <2>1. ASSUME IInv PROVE TypeOK
    <3>1. ASSUME NEW l \in Link, NEW n \in Node
          PROVE  /\ DOMAIN chan[l][n] = {"pending", "transit"}
                 /\ \A q \in {"pending", "transit"} : chan[l][n][q] \in Seq(SyncMsg \cup AppMsg)
      BY <2>1 DEF IInv, ChansOK, Carries, Channel, Msg
    <3>2. conns \in [Node -> Seq(End)] /\ link \in [Link -> LinkState]
      BY <2>1 DEF IInv, ConnsOK, LinksOK
    <3>3. /\ aps \in [Node -> SUBSET Node] /\ wifi \in [Node -> Node \cup {None}]
          /\ newTask \in [Node -> Node \cup {Off}]
          /\ dropTask \in [Node -> Node \cup {None, Off}]
          /\ faults \in 0..MaxFaults
          /\ sent \subseteq AppMsg /\ got \in [Node -> [AppMsg -> 0..2]]
      BY <2>1 DEF IInv, StationsOK, NewTaskOK, DropTaskOK, ChansOK, AppsOK
    <3>4. QED BY <3>1, <3>2, <3>3 DEF TypeOK, LinkState
  <2>2. QED BY <2>1
<1>2. QED BY <1>1, MeshCorrect, PTL

\* No node ever keeps two named connections to the same neighbour, however
\* many nodes connect to each other at the same time and in whatever order
\* the NODE_SYNC messages come (handleNodeSync).
THEOREM MeshOnePerNeighbour == Spec => []OnePerNeighbour
<1>1. NamesOK => OnePerNeighbour
  BY DEF NamesOK, OneForName, OnePerNeighbour, Ends
<1>2. QED BY <1>1, MeshCorrect, PTL

\* A connection that has a name has the name of the node at the other end of
\* its link, although handleNodeSync writes it to the entry of the link after
\* it may have closed others.
NamesRight == \A n \in Node : \A e \in Ends(n) : e.node \in {None, Peer(e.link, n)}
THEOREM MeshNamesRight == Spec => []NamesRight
<1>1. IInv => NamesRight
  <2>1. ASSUME IInv, NEW n \in Node, NEW i \in DOMAIN conns[n]
        PROVE  conns[n][i].node \in {None, Peer(conns[n][i].link, n)}
    BY <2>1, EntryFacts DEF IInv
  <2>2. QED BY <2>1 DEF NamesRight, Ends
<1>2. QED BY <1>1, MeshCorrect, PTL

-----------------------------------------------------------------------------
(* Where a broadcast goes.                                                 *)
(*                                                                         *)
(* The nodes a broadcast has been to form a tree of links, and its copies  *)
(* are on links that lead out of this tree.  A second copy for one node,   *)
(* or one for a node of the tree, would be on a link that closes a cycle   *)
(* (Edges, Forest).  What has been opened stays in Edges, so that a cycle  *)
(* once made stays one.                                                    *)

\* A link its station has not closed.
Attached(l) == link[l].state \in {"syn", "up"} /\ HasEnd(l[1], l)

\* A link is in the lists of its two nodes only, is one of those in range, a
\* station has one at a time, and nothing is on a link before somebody has it
\* in his list.
Wired == \A n \in Node, l \in Link : HasEnd(n, l) => n = l[1] \/ n = link[l].ap
Tried == \A n \in Node : \A m \in aps[n] : <<n, m>> \in InRange
InSight ==
  Tried /\ \A l \in Link : link[l].state # "free" => <<l[1], link[l].ap>> \in InRange
OneAtATime ==
  /\ \A l \in Link : Attached(l) => wifi[l[1]] # None
  /\ \A k, l \in Link : Attached(k) /\ Attached(l) /\ k[1] = l[1] => k = l
Unheard(l, n) == link[l].state = "free" \/ (link[l].state = "syn" /\ n # l[1])
Silent == \A l \in Link, n \in Node : Unheard(l, n) => chan[l][n] = Idle
WInv == Wired /\ InSight /\ OneAtATime /\ Silent

\* The nodes a broadcast has been to, and the links between them.
Seen(m) == {n \in Node : got[n][m] > 0 \/ (m \in sent /\ n = m.from)}
Passed(S) ==
  {p \in Edges : \E l \in Link : /\ p = <<l[1], link[l].ap>> /\ link[l].state = "up"
                                 /\ l[1] \in S /\ link[l].ap \in S}

\* Copies of a message in a queue.
Occurs(m, s) == \E i \in DOMAIN s : s[i] = m
Alone(m, s) == \A i, j \in DOMAIN s : s[i] = m /\ s[j] = m => i = j
Carried(m, q) == Occurs(m, q.pending) \/ Occurs(m, q.transit)
Once(m, q) ==
  /\ Alone(m, q.pending) /\ Alone(m, q.transit)
  /\ ~(Occurs(m, q.pending) /\ Occurs(m, q.transit))

\* What holds of a broadcast while no link has broken and none made a cycle: its copies are ahead
\* of the nodes it has been to, and these are connected.
Ahead(m) ==
  \A l \in Link, n \in Node :
    Attached(l) /\ (n = l[1] \/ n = link[l].ap) /\ Carried(m, chan[l][n]) =>
      n \in Seen(m) /\ Peer(l, n) \notin Seen(m) /\ Once(m, chan[l][n])
Counted(m) ==
  /\ Seen(m) # {} => m \in sent
  /\ got[m.from][m] = 0 /\ \A n \in Node : got[n][m] <= 1
Connected(m) == m \in sent => Cardinality(Passed(Seen(m))) >= Cardinality(Seen(m)) - 1
Tree(m) == Ahead(m) /\ Counted(m) /\ Connected(m)
IsBroadcast(m) == m \in AppMsg /\ m.type = "BROADCAST"
BInv == IInv /\ WInv /\ (Broken \/ ~Forest \/ \A m \in AppMsg : IsBroadcast(m) => Tree(m))

\* Adding to a sequence, and taking from it.
LEMMA OccursFacts ==
  ASSUME NEW T, NEW s \in Seq(T), NEW x \in T, NEW m
  PROVE  /\ Occurs(m, Append(s, x)) => Occurs(m, s) \/ x = m
         /\ Alone(m, s) /\ (x # m \/ ~Occurs(m, s)) => Alone(m, Append(s, x))
         /\ x # m /\ Occurs(m, <<x>> \o s) => Occurs(m, s)
         /\ x # m /\ Alone(m, s) => Alone(m, <<x>> \o s)
<1>1. PICK N \in Nat : N = Len(s) /\ DOMAIN s = 1..N
  OBVIOUS
<1>2. PICK a : a = Append(s, x)
  OBVIOUS
<1>3. /\ DOMAIN a = 1..(N + 1) /\ a[N + 1] = x
      /\ \A i \in 1..N : a[i] = s[i]
  BY <1>1, <1>2
<1>4. \A i \in 1..(N + 1) : i \in 1..N \/ i = N + 1
  BY <1>1
<1>5. Occurs(m, a) => Occurs(m, s) \/ x = m
  BY <1>1, <1>3, <1>4 DEF Occurs
<1>6. Alone(m, s) /\ (x # m \/ ~Occurs(m, s)) => Alone(m, a)
  BY <1>1, <1>3, <1>4 DEF Occurs, Alone
<1>7. PICK b : b = <<x>> \o s
  OBVIOUS
<1>8. /\ DOMAIN b = 1..(N + 1) /\ b[1] = x
      /\ \A i \in 2..(N + 1) : b[i] = s[i - 1]
  BY <1>1, <1>7
<1>9. \A i \in 1..(N + 1) : i = 1 \/ (i \in 2..(N + 1) /\ i - 1 \in 1..N)
  BY <1>1
<1>10. x # m /\ Occurs(m, b) => Occurs(m, s)
  BY <1>1, <1>8, <1>9 DEF Occurs
<1>11. x # m /\ Alone(m, s) => Alone(m, b)
  <2>1. SUFFICES ASSUME x # m, Alone(m, s), NEW i \in 1..(N + 1), NEW j \in 1..(N + 1),
                        b[i] = m, b[j] = m
                 PROVE  i = j
    BY <1>8 DEF Alone
  <2>2. i # 1 /\ j # 1
    BY <1>8, <2>1
  <2>3. i - 1 \in 1..N /\ j - 1 \in 1..N /\ s[i - 1] = m /\ s[j - 1] = m
    BY <1>8, <1>9, <2>1, <2>2
  <2>4. i - 1 = j - 1
    BY <1>1, <2>1, <2>3 DEF Alone
  <2>5. QED BY <1>1, <2>1, <2>4
<1>12. QED BY <1>2, <1>5, <1>6, <1>7, <1>10, <1>11

LEMMA TailOccurs ==
  ASSUME NEW T, NEW s \in Seq(T), s # <<>>, NEW m
  PROVE  /\ Occurs(m, Tail(s)) => Occurs(m, s)
         /\ Alone(m, s) => Alone(m, Tail(s))
         /\ Alone(m, s) /\ Head(s) = m => ~Occurs(m, Tail(s))
         /\ Occurs(Head(s), s)
<1>1. PICK N \in Nat : N = Len(s) /\ DOMAIN s = 1..N /\ N # 0
  OBVIOUS
<1>2. PICK a : a = Tail(s)
  OBVIOUS
<1>3. /\ DOMAIN a = 1..(N - 1) /\ \A i \in 1..(N - 1) : a[i] = s[i + 1]
  BY <1>1, <1>2
<1>4. /\ \A i \in 1..(N - 1) : i + 1 \in 1..N /\ i + 1 # 1
      /\ \A i, j \in 1..(N - 1) : i + 1 = j + 1 => i = j
  BY <1>1
<1>5. 1 \in 1..N /\ Head(s) = s[1]
  BY <1>1
<1>6. Occurs(m, a) => Occurs(m, s)
  BY <1>1, <1>3, <1>4 DEF Occurs
<1>7. Alone(m, s) => Alone(m, a)
  BY <1>1, <1>3, <1>4, SMTT(30) DEF Alone
<1>8. Alone(m, s) /\ Head(s) = m => ~Occurs(m, a)
  BY <1>1, <1>3, <1>4, <1>5 DEF Alone, Occurs
<1>9. Occurs(Head(s), s)
  BY <1>1, <1>5 DEF Occurs
<1>10. QED BY <1>2, <1>6, <1>7, <1>8, <1>9

\* No more copies of a message in r than in q.
NoMore(m, r, q) == (Carried(m, r) => Carried(m, q)) /\ (Once(m, q) => Once(m, r))

\* A channel without its pending messages, or without any.
LEMMA Emptied ==
  ASSUME NEW m, NEW q \in Channel
  PROVE  NoMore(m, [q EXCEPT !.pending = <<>>], q) /\ NoMore(m, Idle, q) /\ ~Carried(m, Idle)
<1>1. DOMAIN <<>> = {}
  OBVIOUS
<1>2. ~Occurs(m, <<>>) /\ Alone(m, <<>>)
  BY <1>1 DEF Occurs, Alone
<1>3. PICK r : r = [q EXCEPT !.pending = <<>>]
  OBVIOUS
<1>4. r.pending = <<>> /\ r.transit = q.transit
  BY <1>3 DEF Channel
<1>5. Idle.pending = <<>> /\ Idle.transit = <<>>
  BY DEF Idle
<1>6. QED BY <1>2, <1>3, <1>4, <1>5 DEF NoMore, Carried, Once

\* A channel with another message, and with a first copy.
LEMMA Queued ==
  ASSUME NEW q \in Channel, NEW msg \in Msg, NEW m \in AppMsg
  PROVE  /\ m # msg => NoMore(m, Queue(q, msg), q)
         /\ ~Carried(m, q) => Once(m, Queue(q, m))
<1>1. q.pending \in Seq(Msg) /\ q.transit \in Seq(Msg) /\ m \in Msg
  BY DEF Channel, Msg
<1>2. ASSUME NEW x \in Msg, NEW s \in Seq(Msg)
      PROVE  /\ [q EXCEPT !.pending = s].pending = s /\ [q EXCEPT !.pending = s].transit = q.transit
             /\ [q EXCEPT !.transit = s].transit = s /\ [q EXCEPT !.transit = s].pending = q.pending
  BY DEF Channel
<1>3. ASSUME m # msg PROVE NoMore(m, Queue(q, msg), q)
  <2>1. PICK r : r = Queue(q, msg)
    OBVIOUS
  <2>2. \/ r.pending = q.pending /\ r.transit = Append(q.transit, msg)
        \/ r.pending = Append(q.pending, msg) /\ r.transit = q.transit
        \/ r.pending = <<msg>> \o q.pending /\ r.transit = q.transit
    <3>1. Append(q.transit, msg) \in Seq(Msg) /\ Append(q.pending, msg) \in Seq(Msg)
          /\ <<msg>> \o q.pending \in Seq(Msg)
      BY <1>1
    <3>2. QED BY <1>2, <2>1, <3>1 DEF Queue
  <2>3. ASSUME NEW s \in Seq(Msg)
        PROVE  /\ Occurs(m, Append(s, msg)) => Occurs(m, s)
               /\ Alone(m, s) => Alone(m, Append(s, msg))
               /\ Occurs(m, <<msg>> \o s) => Occurs(m, s)
               /\ Alone(m, s) => Alone(m, <<msg>> \o s)
    BY <1>3, OccursFacts
  <2>4. QED BY <1>1, <2>1, <2>2, <2>3 DEF NoMore, Carried, Once
<1>4. ASSUME ~Carried(m, q) PROVE Once(m, Queue(q, m))
  <2>1. PICK r : r = Queue(q, m)
    OBVIOUS
  <2>2. \/ r.pending = q.pending /\ r.transit = Append(q.transit, m)
        \/ r.pending = Append(q.pending, m) /\ r.transit = q.transit
    <3>1. Append(q.transit, m) \in Seq(Msg) /\ Append(q.pending, m) \in Seq(Msg)
      BY <1>1
    <3>2. QED BY <1>2, <2>1, <3>1 DEF Queue
  <2>3. ~Occurs(m, q.pending) /\ ~Occurs(m, q.transit)
    BY <1>4 DEF Carried
  <2>4. Alone(m, q.pending) /\ Alone(m, q.transit)
    BY <2>3 DEF Occurs, Alone
  <2>5. ASSUME NEW s \in Seq(Msg), ~Occurs(m, s), Alone(m, s)
        PROVE  Alone(m, Append(s, m))
    BY <1>1, <2>5, OccursFacts
  <2>6. QED BY <1>1, <2>1, <2>2, <2>3, <2>4, <2>5 DEF Once
<1>5. QED BY <1>3, <1>4

\* A channel the first message of which has left, or has been handled.
LEMMA Left ==
  ASSUME NEW q \in Channel, NEW m, q.pending # <<>>, NEW r,
         r.pending = Tail(q.pending),
         r.transit = Append(q.transit, Head(q.pending)) \/ r.transit = <<>>
  PROVE  NoMore(m, r, q)
<1>1. q.pending \in Seq(Msg) /\ q.transit \in Seq(Msg) /\ Head(q.pending) \in Msg
  BY DEF Channel
<1>2. ~Occurs(m, <<>>) /\ Alone(m, <<>>)
  <2>1. DOMAIN <<>> = {}
    OBVIOUS
  <2>2. QED BY <2>1 DEF Occurs, Alone
<1>3. PICK x \in Msg : x = Head(q.pending)
  BY <1>1
<1>4. /\ Occurs(m, r.pending) => Occurs(m, q.pending)
      /\ Alone(m, q.pending) => Alone(m, r.pending)
      /\ Alone(m, q.pending) /\ x = m => ~Occurs(m, r.pending)
      /\ Occurs(x, q.pending)
  BY <1>1, <1>3, TailOccurs
<1>5. /\ Occurs(m, r.transit) => Occurs(m, q.transit) \/ x = m
      /\ Alone(m, q.transit) /\ (x # m \/ ~Occurs(m, q.transit)) => Alone(m, r.transit)
  <2>1. PICK t \in Seq(Msg) : t = q.transit
    BY <1>1
  <2>2. /\ Occurs(m, Append(t, x)) => Occurs(m, t) \/ x = m
        /\ Alone(m, t) /\ (x # m \/ ~Occurs(m, t)) => Alone(m, Append(t, x))
    BY OccursFacts
  <2>3. QED BY <1>2, <1>3, <2>1, <2>2
<1>6. QED BY <1>4, <1>5 DEF NoMore, Carried, Once

LEMMA Handled ==
  ASSUME NEW q \in Channel, NEW m, q.transit # <<>>, NEW r,
         r.transit = Tail(q.transit), r.pending = q.pending
  PROVE  /\ NoMore(m, r, q)
         /\ Head(q.transit) = m => Carried(m, q) /\ (Once(m, q) => ~Carried(m, r))
<1>1. q.transit \in Seq(Msg)
  BY DEF Channel
<1>2. QED BY <1>1, TailOccurs DEF NoMore, Carried, Once


-----------------------------------------------------------------------------
(* What a step does to links and channels.                                 *)

\* The lists lose entries at most, links get lost at most, and a station with
\* a link is associated.
Shrinks ==
  /\ \A n \in Node, l \in Link : HasEnd(n, l)' => HasEnd(n, l)
  /\ \A l \in Link : \/ link'[l] = link[l]
                     \/ /\ link[l].state # "free" /\ link'[l].ap = link[l].ap
                        /\ link'[l].state = "lost"
  /\ \A l \in Link : Attached(l)' => wifi'[l[1]] # None

\* From c to d a node sends only on links it has in its list, and there are
\* no more copies of a message.
Spoken(c, d) == \A l \in Link, n \in Node : c[l][n] = Idle => d[l][n] = Idle \/ HasEnd(n, l)
Thinner(m, c, d) == \A l \in Link, n \in Node : NoMore(m, d[l][n], c[l][n])

\* The application has been given, and has sent, no more copies either.
Unmoved(m) ==
  /\ Thinner(m, chan, chan')
  /\ \A n \in Node : got'[n][m] = got[n][m]
  /\ m \in sent' <=> m \in sent
Ordinary == Shrinks /\ Tried' /\ Spoken(chan, chan')

LEMMA SameChannels == ASSUME NEW c PROVE Spoken(c, c) /\ \A m : Thinner(m, c, c)
BY DEF Spoken, Thinner, NoMore

LEMMA ThinnerStill ==
  ASSUME NEW m, NEW b, NEW c, NEW d, Thinner(m, b, c), Thinner(m, c, d)
  PROVE  Thinner(m, b, d)
BY DEF Thinner, NoMore

LEMMA SameApps ==
  ASSUME NEW m, Thinner(m, chan, chan'), UNCHANGED appVars
  PROVE  Unmoved(m)
BY DEF Unmoved, appVars

\* A node's new list that has links of its old list only.
LinksOf(us, cs) == \A i \in DOMAIN us : \E j \in DOMAIN cs : us[i].link = cs[j].link
LEMMA EndsFewer ==
  ASSUME ConnsOK, NEW n \in Node, NEW us, conns' = [conns EXCEPT ![n] = us],
         LinksOf(us, conns[n])
  PROVE  \A k \in Node, l \in Link : HasEnd(k, l)' => HasEnd(k, l)
<1>1. conns'[n] = us /\ \A k \in Node : k # n => conns'[k] = conns[k]
  BY DEF ConnsOK
<1>2. ASSUME NEW k \in Node, NEW l \in Link, HasEnd(k, l)' PROVE HasEnd(k, l)
  <2>1. PICK i \in DOMAIN conns'[k] : conns'[k][i].link = l
    BY <1>2 DEF HasEnd, Ends
  <2>2. PICK j \in DOMAIN conns[k] : conns[k][j].link = l
    BY <1>1, <2>1 DEF LinksOf
  <2>3. QED BY <2>2 DEF HasEnd, Ends
<1>3. QED BY <1>2

\* A step that leaves the links alone.
LEMMA LinksStay ==
  ASSUME WInv, link' = link, wifi' = wifi, aps' = aps,
         \A n \in Node, l \in Link : HasEnd(n, l)' => HasEnd(n, l)
  PROVE  Shrinks /\ Tried'
<1>1. Tried'
  BY DEF WInv, InSight, Tried
<1>2. ASSUME NEW l \in Link, Attached(l)' PROVE wifi'[l[1]] # None
  <2>1. l[1] \in Node
    BY LinkFacts
  <2>2. Attached(l)
    BY <1>2, <2>1 DEF Attached
  <2>3. QED BY <2>2 DEF WInv, OneAtATime
<1>3. QED BY <1>1, <1>2 DEF Shrinks

LEMMA EndsStay ==
  ASSUME WInv, link' = link, wifi' = wifi, aps' = aps, conns' = conns
  PROVE  Shrinks /\ Tried'
<1>1. \A n \in Node, l \in Link : HasEnd(n, l)' => HasEnd(n, l)
  BY DEF HasEnd, Ends
<1>2. QED BY <1>1, LinksStay

\* Sending, of whatever the node has received.
LEMMA Sends ==
  ASSUME NEW c, Carries(c), NEW n \in Node, NEW links, NEW msg \in Msg,
         Send(c, n, links, msg)
  PROVE  \A l \in Link, k \in Node :
           \/ chan'[l][k] = c[l][k]
           \/ k = n /\ l \in links /\ chan'[l][k] = Queue(c[l][k], msg)
<1>1. PICK discarded \in SUBSET links :
        chan' = [l \in Link |->
          IF l \in links \ discarded /\ Reaches(n, l) THEN [c[l] EXCEPT ![n] = Queue(@, msg)]
          ELSE c[l]]
  BY DEF Send
<1>2. \A l \in Link : c[l] \in [Node -> Channel]
  BY DEF Carries
<1>3. ASSUME NEW l \in Link, NEW k \in Node
      PROVE  \/ chan'[l][k] = c[l][k]
             \/ k = n /\ l \in links /\ chan'[l][k] = Queue(c[l][k], msg)
  <2>1. chan'[l] = c[l] \/ (l \in links /\ chan'[l] = [c[l] EXCEPT ![n] = Queue(@, msg)])
    BY <1>1
  <2>2. QED BY <1>2, <2>1
<1>4. QED BY <1>3

LEMMA SendQuiet ==
  ASSUME NEW c, Carries(c), NEW n \in Node, NEW links, NEW msg \in Msg,
         \A l \in links \cap Link : HasEnd(n, l),
         Send(c, n, links, msg) \/ chan' = c
  PROVE  /\ Spoken(c, chan')
         /\ \A m \in AppMsg : m # msg => Thinner(m, c, chan')
<1>1. CASE chan' = c
  BY <1>1, SameChannels
<1>2. CASE Send(c, n, links, msg)
  <2>1. \A l \in Link, k \in Node :
          \/ chan'[l][k] = c[l][k]
          \/ k = n /\ l \in links /\ chan'[l][k] = Queue(c[l][k], msg)
    BY <1>2, Sends
  <2>2. Spoken(c, chan')
    BY <2>1 DEF Spoken
  <2>3. ASSUME NEW m \in AppMsg, m # msg PROVE Thinner(m, c, chan')
    <3>1. ASSUME NEW l \in Link, NEW k \in Node PROVE NoMore(m, chan'[l][k], c[l][k])
      <4>1. c[l][k] \in Channel
        BY DEF Carries
      <4>2. NoMore(m, Queue(c[l][k], msg), c[l][k])
        BY <2>3, <4>1, Queued
      <4>3. NoMore(m, c[l][k], c[l][k])
        BY DEF NoMore
      <4>4. QED BY <2>1, <4>2, <4>3
    <3>2. QED BY <3>1 DEF Thinner
  <2>4. QED BY <2>2, <2>3
<1>3. QED BY <1>1, <1>2

\* What findConnection finds is in the list.
LEMMA FoundHere ==
  ASSUME NEW n \in Node, conns[n] \in Seq(End), NEW id, NEW exclude
  PROVE  FindConnection(conns[n], id, exclude) \in Link =>
           HasEnd(n, FindConnection(conns[n], id, exclude))
<1>1. ASSUME FindConnection(conns[n], id, exclude) \in Link
      PROVE  \E i \in DOMAIN conns[n] : conns[n][i].link = FindConnection(conns[n], id, exclude)
  BY <1>1, FoundFacts, LinkAssumption
<1>2. QED BY <1>1 DEF HasEnd, Ends

\* The links of a list, and those broadcastMessage takes.
LEMMA AllButHere ==
  ASSUME NEW n \in Node, NEW exclude
  PROVE  \A l \in AllBut(n, exclude) : HasEnd(n, l)
BY DEF AllBut, HasEnd

\* The channel a message is handled from.
LEMMA HandledFrom ==
  ASSUME IInv, NEW l \in Link, NEW n \in Node, HasEnd(n, l),
         chan[l][Peer(l, n)].transit # <<>>,
         NEW c, c = [chan EXCEPT ![l][Peer(l, n)].transit = Tail(@)]
  PROVE  /\ Spoken(chan, c) /\ \A m : Thinner(m, chan, c)
         /\ \A m : Head(chan[l][Peer(l, n)].transit) = m =>
              /\ Carried(m, chan[l][Peer(l, n)])
              /\ Once(m, chan[l][Peer(l, n)]) => ~Carried(m, c[l][Peer(l, n)])
<1>1. PICK i \in DOMAIN conns[n] : conns[n][i].link = l
  BY DEF HasEnd, Ends
<1>2. PICK p \in Node : p = Peer(l, n)
  BY <1>1, EntryFacts DEF IInv
<1>3. PICK q \in Channel : q = chan[l][p] /\ q.transit # <<>>
  BY <1>2 DEF IInv, ChansOK, Carries
<1>4. PICK r : r = [q EXCEPT !.transit = Tail(q.transit)]
  OBVIOUS
<1>5. r.transit = Tail(q.transit) /\ r.pending = q.pending
  BY <1>4 DEF Channel
<1>6. /\ c[l][p] = r
      /\ \A k \in Link, j \in Node : (k = l /\ j = p) \/ c[k][j] = chan[k][j]
  BY <1>2, <1>3, <1>4 DEF IInv, ChansOK, Carries
<1>7. q # Idle
  BY <1>3 DEF Idle
<1>8. \A m : NoMore(m, r, q) /\ (Head(q.transit) = m => Carried(m, q) /\ (Once(m, q) => ~Carried(m, r)))
  BY <1>3, <1>5, Handled
<1>9. Spoken(chan, c)
  BY <1>3, <1>6, <1>7 DEF Spoken
<1>10. ASSUME NEW m PROVE Thinner(m, chan, c)
  <2>1. ASSUME NEW k \in Link, NEW j \in Node PROVE NoMore(m, c[k][j], chan[k][j])
    <3>1. NoMore(m, chan[k][j], chan[k][j])
      BY DEF NoMore
    <3>2. QED BY <1>3, <1>6, <1>8, <3>1
  <2>2. QED BY <2>1 DEF Thinner
<1>11. QED BY <1>2, <1>3, <1>6, <1>8, <1>9, <1>10


-----------------------------------------------------------------------------
(* The actions that move no broadcast and open no link.                    *)

\* The connection that closes.
LEMMA CloseQuiet ==
  ASSUME IInv, WInv, NEW n \in Node, NEW i \in DOMAIN conns[n],
         NEW e, e.link = conns[n][i].link,
         NEW c, Carries(c), Close(n, e, c)
  PROVE  /\ Shrinks /\ Tried' /\ Spoken(c, chan') /\ \A m : Thinner(m, c, chan')
<1>1. PICK l \in Link : l = e.link
  BY EntryFacts DEF IInv
<1>2. PICK p \in Node : p = Peer(l, n)
  BY <1>1, EntryFacts DEF IInv
<1>3. /\ conns' = [conns EXCEPT ![n] = Only(@, {x \in Ends(n) : x.link # l})]
      /\ wifi' = IF e.station THEN [wifi EXCEPT ![n] = None] ELSE wifi
      /\ link' = [k \in Link |->
           IF e.station /\ k # l /\ k[1] = n /\ HasEnd(n, k) THEN [link[k] EXCEPT !.state = "lost"]
           ELSE link[k]]
      /\ chan' = [k \in Link |->
           IF k = l THEN [c[k] EXCEPT ![n].pending = <<>>, ![p] = Idle]
           ELSE IF link'[k].state = "lost" THEN [m \in Node |-> Idle]
           ELSE c[k]]
      /\ aps' = aps
  BY <1>1, <1>2 DEF Close
<1>4. Tried'
  BY <1>3 DEF WInv, InSight, Tried
<1>5. PICK S : S = {x \in Ends(n) : x.link # l}
  OBVIOUS
<1>6. PICK us : us = Only(conns[n], S)
  OBVIOUS
<1>7. /\ conns[n] \in Seq(End) /\ conns' = [conns EXCEPT ![n] = us] /\ conns'[n] = us
      /\ Sound(conns[n])
  BY <1>3, <1>5, <1>6 DEF IInv, ConnsOK
<1>8. LinksOf(us, conns[n])
  <2>1. \A k \in DOMAIN us : \E j \in DOMAIN conns[n] : us[k] = conns[n][j]
    BY <1>6, <1>7, Fewer
  <2>2. QED BY <2>1 DEF LinksOf
<1>9. \A k \in Node, j \in Link : HasEnd(k, j)' => HasEnd(k, j)
  BY <1>7, <1>8, EndsFewer DEF IInv
<1>10. ~HasEnd(n, l)'
  <2>1. us \in Seq(End \cap S)
    BY <1>6, <1>7, OnlyType
  <2>2. \A k \in DOMAIN us : us[k] \in End \cap S
    BY <2>1, ElementType
  <2>3. \A k \in DOMAIN us : us[k].link # l
    BY <1>5, <2>2
  <2>4. QED BY <1>7, <2>3 DEF HasEnd, Ends
<1>11. \A k \in Link : HasEnd(n, k) => link[k].state # "free"
  <2>1. ASSUME NEW k \in Link, HasEnd(n, k) PROVE link[k].state # "free"
    <3>1. PICK j \in DOMAIN conns[n] : conns[n][j].link = k
      BY <2>1 DEF HasEnd, Ends
    <3>2. QED BY <3>1, EntryFacts DEF IInv
  <2>2. QED BY <2>1
<1>12. \A k \in Link : /\ [link[k] EXCEPT !.state = "lost"].state = "lost"
                       /\ [link[k] EXCEPT !.state = "lost"].ap = link[k].ap
  BY DEF IInv, LinksOK, LinkState
<1>13. \A k \in Link : \/ link'[k] = link[k]
                       \/ /\ link[k].state # "free" /\ link'[k].ap = link[k].ap
                          /\ link'[k].state = "lost"
  BY <1>3, <1>11, <1>12
<1>14. ASSUME NEW k \in Link, Attached(k)' PROVE wifi'[k[1]] # None
  <2>1. k[1] \in Node /\ HasEnd(k[1], k)' /\ link'[k].state # "lost"
    BY <1>14, LinkFacts DEF Attached
  <2>2. HasEnd(k[1], k) /\ link'[k] = link[k]
    BY <1>9, <1>13, <2>1
  <2>3. Attached(k)
    BY <1>14, <2>2 DEF Attached
  <2>4. wifi[k[1]] # None
    BY <2>3 DEF WInv, OneAtATime
  <2>5. CASE k[1] = n /\ e.station
    <3>1. k # l
      BY <1>10, <2>1, <2>5
    <3>2. link'[k].state = "lost"
      BY <1>3, <1>12, <2>2, <2>5, <3>1
    <3>3. QED BY <2>1, <3>2
  <2>6. CASE ~(k[1] = n /\ e.station)
    <3>1. wifi'[k[1]] = wifi[k[1]]
      BY <1>3, <2>1, <2>6 DEF IInv, StationsOK
    <3>2. QED BY <2>4, <3>1
  <2>7. QED BY <2>5, <2>6
<1>15. Shrinks
  BY <1>9, <1>13, <1>14 DEF Shrinks
<1>16. \A k \in Link, j \in Node :
         \/ chan'[k][j] = c[k][j] \/ chan'[k][j] = Idle
         \/ chan'[k][j] = [c[k][j] EXCEPT !.pending = <<>>] /\ k = l /\ j = n
  <2>1. ASSUME NEW k \in Link PROVE c[k] \in [Node -> Channel]
    BY DEF Carries
  <2>2. ASSUME NEW j \in Node
        PROVE  \/ chan'[l][j] = c[l][j] \/ chan'[l][j] = Idle
               \/ chan'[l][j] = [c[l][j] EXCEPT !.pending = <<>>] /\ j = n
    <3>1. chan'[l] = [c[l] EXCEPT ![n].pending = <<>>, ![p] = Idle]
      BY <1>3
    <3>2. PICK f \in [Node -> Channel] : f = c[l]
      BY <2>1
    <3>3. QED BY <3>1, <3>2
  <2>3. ASSUME NEW k \in Link, k # l, NEW j \in Node
        PROVE  chan'[k][j] = c[k][j] \/ chan'[k][j] = Idle
    BY <1>3, <2>3
  <2>4. QED BY <2>2, <2>3
<1>17. HasEnd(n, l)
  BY <1>1 DEF HasEnd, Ends
<1>18. Spoken(c, chan')
  BY <1>16, <1>17 DEF Spoken
<1>19. ASSUME NEW m PROVE Thinner(m, c, chan')
  <2>1. ASSUME NEW k \in Link, NEW j \in Node PROVE NoMore(m, chan'[k][j], c[k][j])
    <3>1. c[k][j] \in Channel
      BY DEF Carries
    <3>2. NoMore(m, c[k][j], c[k][j])
      BY DEF NoMore
    <3>3. NoMore(m, [c[k][j] EXCEPT !.pending = <<>>], c[k][j]) /\ NoMore(m, Idle, c[k][j])
      BY <3>1, Emptied
    <3>4. QED BY <1>16, <3>2, <3>3
  <2>2. QED BY <2>1 DEF Thinner
<1>20. QED BY <1>4, <1>15, <1>18, <1>19

LEMMA StartQuiet ==
  ASSUME IInv, WInv, NEW l \in Link, NEW n \in Node, Start(n, l)
  PROVE  Ordinary /\ \A m \in AppMsg : Unmoved(m)
<1>1. Shrinks /\ Tried' /\ UNCHANGED appVars
  BY EndsStay DEF Start, wifiVars
<1>2. PICK q \in Channel : q = chan[l][n] /\ q.pending # <<>>
  BY DEF Start, IInv, ChansOK, Carries
<1>3. PICK r : r = [pending |-> Tail(q.pending),
                    transit |-> IF Reaches(n, l) THEN Append(q.transit, Head(q.pending)) ELSE <<>>]
  OBVIOUS
<1>4. /\ chan'[l][n] = r
      /\ \A k \in Link, j \in Node : (k = l /\ j = n) \/ chan'[k][j] = chan[k][j]
  BY <1>2, <1>3 DEF Start, IInv, ChansOK, Carries
<1>5. q # Idle
  BY <1>2 DEF Idle
<1>6. Spoken(chan, chan')
  BY <1>2, <1>4, <1>5 DEF Spoken
<1>7. \A m : NoMore(m, r, q)
  BY <1>2, <1>3, Left
<1>8. \A m : Thinner(m, chan, chan')
  BY <1>2, <1>4, <1>7 DEF Thinner, NoMore
<1>9. QED BY <1>1, <1>6, <1>8, SameApps DEF Ordinary

\* An entry replaced keeps its link.
LEMMA ReplacedLinks ==
  ASSUME NEW cs, NEW e
  PROVE  /\ DOMAIN Replace(cs, e) = DOMAIN cs
         /\ \A i \in DOMAIN cs : Replace(cs, e)[i].link = cs[i].link
BY DEF Replace

LEMMA TaskSetQuiet ==
  ASSUME IInv, WInv, NEW n \in Node, NEW e, link' = link, UNCHANGED wifiVars,
         conns' = [conns EXCEPT ![n] = Replace(@, e)]
  PROVE  Shrinks /\ Tried'
<1>1. PICK us : us = Replace(conns[n], e)
  OBVIOUS
<1>2. DOMAIN us = DOMAIN conns[n] /\ \A i \in DOMAIN conns[n] : us[i].link = conns[n][i].link
  BY <1>1, ReplacedLinks
<1>3. \A k \in Node, j \in Link : HasEnd(k, j)' => HasEnd(k, j)
  <2>1. LinksOf(us, conns[n])
    BY <1>2 DEF LinksOf
  <2>2. conns' = [conns EXCEPT ![n] = us] /\ ConnsOK
    BY <1>1 DEF IInv
  <2>3. QED BY <2>1, <2>2, EndsFewer
<1>4. QED BY <1>3, LinksStay DEF wifiVars

LEMMA NodeSyncTaskQuiet ==
  ASSUME IInv, WInv, NEW l \in Link, NEW n \in Node, NodeSyncTask(n, l)
  PROVE  Ordinary /\ \A m \in AppMsg : Unmoved(m)
<1>1. Shrinks /\ Tried' /\ UNCHANGED appVars
  BY TaskSetQuiet DEF NodeSyncTask
<1>2. PICK msg : msg = [type |-> "NODE_SYNC_REQUEST", from |-> n,
                        subs |-> SubConnections(conns[n], EndOn(n, l).node)]
  OBVIOUS
<1>3. msg \in Msg /\ msg.type = "NODE_SYNC_REQUEST"
  BY <1>2, SyncType DEF IInv, ConnsOK
<1>4. \A m \in AppMsg : m # msg
  BY <1>3, AppAssumption
<1>5. Send(chan, n, {l}, msg) /\ HasEnd(n, l) /\ Carries(chan)
  BY <1>2 DEF NodeSyncTask, IInv, ChansOK
<1>6. Spoken(chan, chan') /\ \A m \in AppMsg : Thinner(m, chan, chan')
  BY <1>3, <1>4, <1>5, SendQuiet
<1>7. QED BY <1>1, <1>6, SameApps DEF Ordinary

LEMMA IntervalOverQuiet ==
  ASSUME IInv, WInv, NEW l \in Link, NEW n \in Node, IntervalOver(n, l)
  PROVE  Ordinary /\ \A m \in AppMsg : Unmoved(m)
<1>1. Shrinks /\ Tried' /\ UNCHANGED appVars /\ chan' = chan
  BY TaskSetQuiet DEF IntervalOver, netVars
<1>2. QED BY <1>1, SameChannels, SameApps DEF Ordinary

LEMMA DroppedConnectionTaskQuiet ==
  ASSUME IInv, WInv, NEW n \in Node, DroppedConnectionTask(n)
  PROVE  Ordinary /\ \A m \in AppMsg : Unmoved(m)
<1>1. PICK us : us = SyncSubConnections(conns[n], dropTask[n])
  OBVIOUS
<1>2. Sound(conns[n])
  BY DEF IInv, ConnsOK
<1>3. DOMAIN us = DOMAIN conns[n] /\ \A i \in DOMAIN conns[n] : us[i].link = conns[n][i].link
  BY <1>1, <1>2, Synced
<1>4. conns' = [conns EXCEPT ![n] = us]
  BY <1>1 DEF DroppedConnectionTask
<1>5. \A k \in Node, j \in Link : HasEnd(k, j)' => HasEnd(k, j)
  <2>1. LinksOf(us, conns[n])
    BY <1>3 DEF LinksOf
  <2>2. QED BY <1>4, <2>1, EndsFewer DEF IInv
<1>6. link' = link /\ chan' = chan /\ wifi' = wifi /\ aps' = aps /\ UNCHANGED appVars
  BY DEF DroppedConnectionTask, netVars, wifiVars
<1>7. QED BY <1>5, <1>6, LinksStay, SameChannels, SameApps DEF Ordinary

LEMMA NewConnectionTaskQuiet ==
  ASSUME IInv, WInv, NEW n \in Node, NewConnectionTask(n)
  PROVE  Ordinary /\ \A m \in AppMsg : Unmoved(m)
<1>1. link' = link /\ chan' = chan /\ wifi' = wifi /\ aps' = aps /\ conns' = conns
      /\ UNCHANGED appVars
  BY DEF NewConnectionTask, netVars, wifiVars
<1>2. QED BY <1>1, EndsStay, SameChannels, SameApps DEF Ordinary

LEMMA OnDisconnectQuiet ==
  ASSUME IInv, WInv, NEW l \in Link, NEW n \in Node, OnDisconnect(n, l)
  PROVE  Ordinary /\ \A m \in AppMsg : Unmoved(m)
<1>1. PICK i \in DOMAIN conns[n] : conns[n][i] = EndOn(n, l)
  BY EndOnFacts DEF OnDisconnect, IInv, ConnsOK
<1>2. Carries(chan) /\ Close(n, EndOn(n, l), chan) /\ UNCHANGED appVars
  BY DEF OnDisconnect, IInv, ChansOK
<1>3. Shrinks /\ Tried' /\ Spoken(chan, chan') /\ \A m : Thinner(m, chan, chan')
  BY <1>1, <1>2, CloseQuiet
<1>4. QED BY <1>2, <1>3, SameApps DEF Ordinary

LEMMA ReconfigureQuiet ==
  ASSUME IInv, WInv, NEW n \in Node, Reconfigure(n)
  PROVE  Ordinary /\ \A m \in AppMsg : Unmoved(m)
<1> DEFINE stations == {i \in DOMAIN conns[n] : conns[n][i].station}
           first == CHOOSE i \in stations : \A j \in stations : i <= j
<1>1. stations # {} /\ Close(n, conns[n][first], chan) /\ UNCHANGED <<newTask, appVars>>
  BY DEF Reconfigure
<1>2. first \in stations
  <2>1. Len(conns[n]) \in Nat /\ DOMAIN conns[n] = 1..Len(conns[n])
    BY ListFacts DEF IInv, ConnsOK
  <2>2. stations \subseteq 1..Len(conns[n])
    BY <2>1
  <2>3. \E i \in stations : \A j \in stations : i <= j
    <3> HIDE DEF stations
    <3>1. QED BY <1>1, <2>1, <2>2, LeastPlace
  <2> HIDE DEF stations
  <2>4. QED BY <2>3
<1>3. PICK i \in DOMAIN conns[n] : i = first
  BY <1>2
<1> HIDE DEF first
<1>4. Close(n, conns[n][i], chan) /\ Carries(chan)
  BY <1>1, <1>3 DEF IInv, ChansOK
<1>5. Shrinks /\ Tried' /\ Spoken(chan, chan') /\ \A m : Thinner(m, chan, chan')
  BY <1>4, CloseQuiet
<1>6. QED BY <1>1, <1>5, SameApps DEF Ordinary

LEMMA ScanCompleteQuiet ==
  ASSUME IInv, WInv, NEW n \in Node, ScanComplete(n)
  PROVE  Ordinary /\ \A m \in AppMsg : Unmoved(m)
<1> DEFINE seen == {m \in Node : /\ <<n, m>> \in InRange
                                 /\ FindConnection(conns[n], m, None) = NoLink}
<1>1. /\ link' = link /\ chan' = chan /\ wifi' = wifi /\ conns' = conns /\ UNCHANGED appVars
      /\ aps' = [aps EXCEPT ![n] = seen]
  BY DEF ScanComplete, netVars
<1>2. \A m \in seen : <<n, m>> \in InRange
  OBVIOUS
<1> HIDE DEF seen
<1>3. \A k \in Node : aps'[k] = IF k = n THEN seen ELSE aps[k]
  BY <1>1 DEF IInv, StationsOK
<1>4. Tried'
  BY <1>2, <1>3 DEF WInv, InSight, Tried
<1>5. Shrinks
  <2>1. \A k \in Node, l \in Link : HasEnd(k, l)' <=> HasEnd(k, l)
    BY <1>1 DEF HasEnd, Ends
  <2>2. ASSUME NEW l \in Link, Attached(l)' PROVE wifi'[l[1]] # None
    <3>1. Attached(l)
      BY <1>1, <2>1, <2>2, LinkFacts DEF Attached
    <3>2. QED BY <1>1, <3>1 DEF WInv, OneAtATime
  <2>3. QED BY <1>1, <2>1, <2>2 DEF Shrinks
<1>6. QED BY <1>1, <1>4, <1>5, SameChannels, SameApps DEF Ordinary

LEMMA AssociationFailsQuiet ==
  ASSUME IInv, WInv, NEW n \in Node, NEW m \in Node, AssociationFails(n, m)
  PROVE  Ordinary /\ \A x \in AppMsg : Unmoved(x)
<1>1. /\ link' = link /\ chan' = chan /\ wifi' = wifi /\ conns' = conns /\ UNCHANGED appVars
      /\ aps' = [aps EXCEPT ![n] = @ \ {m}]
  BY DEF AssociationFails
<1>2. \A k \in Node : aps'[k] \subseteq aps[k]
  BY <1>1 DEF IInv, StationsOK
<1>3. Tried'
  BY <1>2 DEF WInv, InSight, Tried
<1>4. Shrinks
  <2>1. \A k \in Node, l \in Link : HasEnd(k, l)' <=> HasEnd(k, l)
    BY <1>1 DEF HasEnd, Ends
  <2>2. ASSUME NEW l \in Link, Attached(l)' PROVE wifi'[l[1]] # None
    <3>1. Attached(l)
      BY <1>1, <2>1, <2>2, LinkFacts DEF Attached
    <3>2. QED BY <1>1, <3>1 DEF WInv, OneAtATime
  <2>3. QED BY <1>1, <2>1, <2>2 DEF Shrinks
<1>5. QED BY <1>1, <1>3, <1>4, SameChannels, SameApps DEF Ordinary

LEMMA LinkLostQuiet ==
  ASSUME IInv, WInv, NEW l \in Link, LinkLost(l)
  PROVE  Ordinary /\ \A m \in AppMsg : Unmoved(m)
<1>1. /\ Attached(l) /\ l[1] \in Node
      /\ link' = [link EXCEPT ![l].state = "lost"]
      /\ chan' = [chan EXCEPT ![l] = [n \in Node |-> Idle]]
      /\ wifi' = [wifi EXCEPT ![l[1]] = None]
      /\ conns' = conns /\ aps' = aps /\ UNCHANGED appVars
  BY LinkFacts DEF LinkLost, Attached
<1>2. \A k \in Node, j \in Link : HasEnd(k, j)' <=> HasEnd(k, j)
  BY <1>1 DEF HasEnd, Ends
<1>3. /\ link[l].state # "free" /\ link'[l].state = "lost" /\ link'[l].ap = link[l].ap
      /\ \A k \in Link : k # l => link'[k] = link[k]
  BY <1>1 DEF Attached, IInv, LinksOK, LinkState
<1>4. ASSUME NEW k \in Link, Attached(k)' PROVE wifi'[k[1]] # None
  <2>1. k[1] \in Node /\ k # l
    BY <1>3, <1>4, LinkFacts DEF Attached
  <2>2. Attached(k)
    BY <1>2, <1>3, <1>4, <2>1 DEF Attached
  <2>3. k[1] # l[1] /\ wifi[k[1]] # None
    BY <1>1, <2>1, <2>2 DEF WInv, OneAtATime
  <2>4. wifi'[k[1]] = wifi[k[1]]
    BY <1>1, <2>1, <2>3 DEF IInv, StationsOK
  <2>5. QED BY <2>3, <2>4
<1>5. Shrinks
  BY <1>2, <1>3, <1>4 DEF Shrinks
<1>6. Tried'
  BY <1>1 DEF WInv, InSight, Tried
<1>7. \A k \in Link, j \in Node : chan'[k][j] = chan[k][j] \/ chan'[k][j] = Idle
  BY <1>1 DEF IInv, ChansOK, Carries
<1>8. Spoken(chan, chan')
  BY <1>7 DEF Spoken
<1>9. ASSUME NEW m PROVE Thinner(m, chan, chan')
  <2>1. ASSUME NEW k \in Link, NEW j \in Node PROVE NoMore(m, chan'[k][j], chan[k][j])
    <3>1. chan[k][j] \in Channel
      BY DEF IInv, ChansOK, Carries
    <3>2. NoMore(m, chan[k][j], chan[k][j])
      BY DEF NoMore
    <3>3. QED BY <1>7, <3>1, <3>2, Emptied
  <2>2. QED BY <2>1 DEF Thinner
<1>10. QED BY <1>1, <1>5, <1>6, <1>8, <1>9, SameApps DEF Ordinary

LEMMA SendSingleQuiet ==
  ASSUME IInv, WInv, NEW m \in AppMsg, SendSingle(m)
  PROVE  Ordinary /\ \A x \in AppMsg : IsBroadcast(x) => Unmoved(x)
<1>1. PICK route : route = FindConnection(conns[m.from], m.dest, None)
  OBVIOUS
<1>2. /\ Send(chan, m.from, {route}, m) /\ m.type = "SINGLE" /\ m \in Msg /\ m.from \in Node
      /\ link' = link /\ wifi' = wifi /\ aps' = aps /\ conns' = conns /\ got' = got
      /\ sent' = sent \cup {m} /\ Carries(chan)
  BY <1>1, AppAssumption DEF SendSingle, wifiVars, IInv, ChansOK, Msg
<1>3. route \in Link => HasEnd(m.from, route)
  BY <1>1, <1>2, FoundHere DEF IInv, ConnsOK
<1>4. Spoken(chan, chan') /\ \A x \in AppMsg : x # m => Thinner(x, chan, chan')
  BY <1>2, <1>3, SendQuiet
<1>5. Ordinary
  BY <1>2, <1>4, EndsStay DEF Ordinary
<1>6. ASSUME NEW x \in AppMsg, IsBroadcast(x) PROVE Unmoved(x)
  <2>1. x # m
    BY <1>2, <1>6 DEF IsBroadcast
  <2>2. QED BY <1>2, <1>4, <2>1 DEF Unmoved
<1>7. QED BY <1>5, <1>6

LEMMA HandleSingleQuiet ==
  ASSUME IInv, WInv, NEW l \in Link, NEW n \in Node, NEW msg \in AppMsg, NEW c, Carries(c),
         msg.type = "SINGLE", HandleSingle(n, l, msg, c),
         Spoken(chan, c), \A m : Thinner(m, chan, c)
  PROVE  Ordinary /\ \A x \in AppMsg : IsBroadcast(x) => Unmoved(x)
<1>1. PICK route : route = FindConnection(conns[n], msg.dest, EndOn(n, l).node)
  OBVIOUS
<1>2. /\ Send(c, n, {route}, msg) \/ chan' = c
      /\ link' = link /\ wifi' = wifi /\ aps' = aps /\ conns' = conns /\ sent' = sent
      /\ Receive(n, msg) \/ got' = got
      /\ msg \in Msg
  BY <1>1 DEF HandleSingle, wifiVars, Msg
<1>3. route \in Link => HasEnd(n, route)
  BY <1>1, FoundHere DEF IInv, ConnsOK
<1>4. Spoken(c, chan') /\ \A x \in AppMsg : x # msg => Thinner(x, c, chan')
  <2>1. \A k \in {route} \cap Link : HasEnd(n, k)
    BY <1>3
  <2>2. QED BY <1>2, <2>1, SendQuiet
<1>5. Spoken(chan, chan')
  BY <1>4 DEF Spoken
<1>6. Ordinary
  BY <1>2, <1>5, EndsStay DEF Ordinary
<1>7. ASSUME NEW x \in AppMsg, IsBroadcast(x) PROVE Unmoved(x)
  <2>1. x # msg
    BY <1>7 DEF IsBroadcast
  <2>2. Thinner(x, chan, chan')
    BY <1>4, <2>1, ThinnerStill
  <2>3. ASSUME NEW k \in Node PROVE got'[k][x] = got[k][x]
    <3>1. CASE got' = got
      BY <3>1
    <3>2. CASE Receive(n, msg)
      <4>1. got[k] \in [AppMsg -> 0..2] /\ DOMAIN got = Node
        BY DEF IInv, AppsOK
      <4>2. QED BY <2>1, <3>2, <4>1 DEF Receive
    <3>3. QED BY <1>2, <3>1, <3>2
  <2>4. QED BY <1>2, <2>2, <2>3 DEF Unmoved
<1>8. QED BY <1>6, <1>7

LEMMA TakeSubsQuiet ==
  ASSUME IInv, WInv, NEW n \in Node, NEW e \in End, HasEnd(n, e.link),
         NEW msg \in SyncMsg, NEW c, Carries(c), TakeSubs(n, e, msg, c)
  PROVE  /\ Shrinks /\ Tried' /\ Spoken(c, chan') /\ \A m \in AppMsg : Thinner(m, c, chan')
<1>1. PICK cs \in Seq(End) : cs = conns[n]
  BY DEF IInv, ConnsOK
<1>2. PICK f : f = StoreSubs(e, msg)
  OBVIOUS
<1>3. f \in End
  <2>1. msg.subs \in Subs
    BY DEF SyncMsg
  <2>2. QED BY <1>2, <2>1 DEF StoreSubs, End
<1>4. PICK ds : ds = Replace(cs, f)
  OBVIOUS
<1>5. /\ DOMAIN ds = DOMAIN cs /\ (\A i \in DOMAIN cs : ds[i].link = cs[i].link)
      /\ ds \in Seq(End)
  <2>1. Len(cs) \in Nat /\ DOMAIN cs = 1..Len(cs) /\ \A i \in DOMAIN cs : cs[i] \in End
    BY ListFacts
  <2>2. ds = [i \in 1..Len(cs) |-> IF cs[i].link = f.link THEN f ELSE cs[i]]
    BY <1>4, <2>1 DEF Replace
  <2>3. ds \in Seq(End)
    BY <1>3, <2>1, <2>2
  <2>4. QED BY <1>4, <2>3, ReplacedLinks
<1>6. PICK us : us = IF msg.subs # e.subs THEN SyncSubConnections(ds, e.node) ELSE ds
  OBVIOUS
<1>7. \A i \in DOMAIN us : \E j \in DOMAIN cs : us[i].link = cs[j].link
  <2>1. \A i \in DOMAIN SyncSubConnections(ds, e.node) :
          i \in DOMAIN ds /\ SyncSubConnections(ds, e.node)[i].link = ds[i].link
    <3>1. \A i \in DOMAIN ds : ds[i] \in End
      BY <1>5, ListFacts
    <3>2. QED BY <3>1 DEF SyncSubConnections, End
  <2>2. us = SyncSubConnections(ds, e.node) \/ us = ds
    BY <1>6
  <2>3. QED BY <1>5, <2>1, <2>2
<1>8. conns' = [conns EXCEPT ![n] = us] /\ link' = link /\ wifi' = wifi /\ aps' = aps
  BY <1>1, <1>2, <1>4, <1>6 DEF TakeSubs, wifiVars
<1>9. \A k \in Node, j \in Link : HasEnd(k, j)' => HasEnd(k, j)
  <2>1. LinksOf(us, conns[n])
    BY <1>1, <1>7 DEF LinksOf
  <2>2. QED BY <1>8, <2>1, EndsFewer DEF IInv
<1>10. Shrinks /\ Tried'
  BY <1>8, <1>9, LinksStay
<1>11. PICK reply : reply = [type |-> "NODE_SYNC_REPLY", from |-> n,
                             subs |-> SubConnections(ds, e.node)]
  OBVIOUS
<1>12. reply \in Msg /\ reply.type = "NODE_SYNC_REPLY"
  BY <1>5, <1>11, SyncType
<1>13. Send(c, n, {e.link}, reply) \/ chan' = c
  BY <1>1, <1>2, <1>4, <1>11 DEF TakeSubs
<1>14. \A m \in AppMsg : m # reply
  BY <1>12, AppAssumption
<1>15. Spoken(c, chan') /\ \A m \in AppMsg : Thinner(m, c, chan')
  <2>1. \A k \in {e.link} \cap Link : HasEnd(n, k)
    OBVIOUS
  <2>2. Spoken(c, chan') /\ \A m \in AppMsg : m # reply => Thinner(m, c, chan')
    BY <1>12, <1>13, <2>1, SendQuiet
  <2>3. QED BY <1>14, <2>2
<1>16. QED BY <1>10, <1>15

LEMMA HandleNodeSyncQuiet ==
  ASSUME IInv, WInv, NEW l \in Link, NEW n \in Node, NEW c, Carries(c),
         EndOn(n, l) \in End, NEW i \in DOMAIN conns[n], conns[n][i] = EndOn(n, l),
         NEW msg \in SyncMsg, HandleNodeSync(n, l, msg, c),
         Spoken(chan, c), \A m : Thinner(m, chan, c)
  PROVE  Ordinary /\ \A x \in AppMsg : Unmoved(x)
<1>1. PICK e \in End : e = EndOn(n, l)
  OBVIOUS
<1>2. PICK named : named = IF e.new THEN [e EXCEPT !.node = msg.from, !.new = FALSE] ELSE e
  OBVIOUS
<1>3. msg.from \in Node
  BY DEF SyncMsg
<1>4. named \in End /\ named.link = e.link
  BY <1>2, <1>3 DEF End
<1>5. UNCHANGED appVars /\ (Close(n, e, c) \/ Close(n, named, c) \/ TakeSubs(n, named, msg, c))
  BY <1>1, <1>2 DEF HandleNodeSync
<1>6. HasEnd(n, named.link)
  BY <1>1, <1>4 DEF HasEnd, Ends
<1>7. Close(n, e, c) \/ Close(n, named, c) =>
        Shrinks /\ Tried' /\ Spoken(c, chan') /\ \A m : Thinner(m, c, chan')
  BY <1>1, <1>4, CloseQuiet
<1>8. TakeSubs(n, named, msg, c) =>
        Shrinks /\ Tried' /\ Spoken(c, chan') /\ \A m \in AppMsg : Thinner(m, c, chan')
  BY <1>4, <1>6, TakeSubsQuiet
<1>9. Shrinks /\ Tried' /\ Spoken(c, chan') /\ \A m \in AppMsg : Thinner(m, c, chan')
  BY <1>5, <1>7, <1>8
<1>10. Spoken(chan, chan')
  BY <1>9 DEF Spoken
<1>11. \A m \in AppMsg : Thinner(m, chan, chan')
  BY <1>9, ThinnerStill
<1>12. QED BY <1>5, <1>9, <1>10, <1>11, SameApps DEF Ordinary


-----------------------------------------------------------------------------
(* Links and the lists that have them.                                     *)

LEMMA HasEndFacts ==
  ASSUME IInv, NEW n \in Node, NEW l \in Link, HasEnd(n, l)
  PROVE  link[l].state # "free" /\ (link[l].state = "syn" => n = l[1])
<1>1. PICK i \in DOMAIN conns[n] : conns[n][i].link = l
  BY DEF HasEnd, Ends
<1>2. QED BY <1>1 DEF IInv, ConnsOK, Opened

\* The two ends of a link.
LEMMA AttachedFacts ==
  ASSUME IInv, WInv, NEW l \in Link, link[l].state # "free"
  PROVE  /\ l[1] \in Node /\ link[l].ap \in Node /\ l[1] # link[l].ap
         /\ <<l[1], link[l].ap>> \in InRange /\ <<l[1], link[l].ap>> \in Edges
         /\ Peer(l, l[1]) = link[l].ap /\ Peer(l, link[l].ap) = l[1]
BY LinkFacts DEF IInv, LinksOK, Leads, WInv, InSight, Peer, Edges

LEMMA EdgesInRange ==
  ASSUME IInv, WInv
  PROVE  Edges \in SUBSET InRange
<1>1. ASSUME NEW p \in Edges PROVE p \in InRange
  <2>1. PICK l \in Link : link[l].state # "free" /\ p = <<l[1], link[l].ap>>
    BY <1>1 DEF Edges
  <2>2. QED BY <2>1, AttachedFacts
<1>2. QED BY <1>1

LEMMA WholeFacts ==
  ASSUME IInv, WInv, ~Broken, NEW n \in Node, NEW l \in Link, HasEnd(n, l)
  PROVE  /\ Attached(l) /\ (n = l[1] \/ n = link[l].ap)
<1>1. link[l].state # "free" /\ (link[l].state = "syn" => n = l[1]) /\ link[l].state # "lost"
  BY HasEndFacts DEF Broken
<1>2. link[l].state \in {"syn", "up"}
  BY <1>1 DEF IInv, LinksOK, LinkState
<1>3. HasEnd(l[1], l)
  BY <1>1, <1>2 DEF Broken, Live
<1>4. QED BY <1>2, <1>3 DEF Attached, WInv, Wired

\* A step brings no broken link back and leads no opened one elsewhere, and a
\* station has no new end of an opened link.
Onward ==
  /\ Broken => Broken'
  /\ \A l \in Link : link[l].state # "free" =>
       link'[l].state # "free" /\ link'[l].ap = link[l].ap
  /\ \A l \in Link : link[l].state = "up" => link'[l] = link[l] \/ link'[l].state = "lost"
  /\ \A l \in Link : Attached(l)' =>
       link[l].state = "free" \/ (Attached(l) /\ link'[l].ap = link[l].ap)

LEMMA OrdinaryOnward ==
  ASSUME IInv, WInv, Ordinary
  PROVE  Onward /\ WInv'
<1>1. /\ \A n \in Node, l \in Link : HasEnd(n, l)' => HasEnd(n, l)
      /\ \A l \in Link : \/ link'[l] = link[l]
                         \/ /\ link[l].state # "free" /\ link'[l].ap = link[l].ap
                            /\ link'[l].state = "lost"
      /\ \A l \in Link : Attached(l)' => wifi'[l[1]] # None
      /\ Tried' /\ Spoken(chan, chan')
  BY DEF Ordinary, Shrinks
<1>2. \A l \in Link : Attached(l)' => Attached(l) /\ link'[l] = link[l]
  <2>1. ASSUME NEW l \in Link, Attached(l)' PROVE Attached(l) /\ link'[l] = link[l]
    <3>1. l[1] \in Node /\ HasEnd(l[1], l)' /\ link'[l].state \in {"syn", "up"}
      BY <2>1, LinkFacts DEF Attached
    <3>2. QED BY <1>1, <3>1 DEF Attached
  <2>2. QED BY <2>1
<1>3. Broken => Broken'
  <2>1. ASSUME NEW l \in Link, link[l].state = "lost" PROVE Broken'
    <3>1. link'[l].state = "lost"
      BY <1>1, <2>1
    <3>2. QED BY <3>1 DEF Broken
  <2>2. ASSUME NEW l \in Link, link[l].state = "up", ~Live(l) PROVE Broken'
    <3>1. l[1] \in Node /\ link[l].ap \in Node
      BY <2>2, AttachedFacts
    <3>2. CASE link'[l].state = "lost"
      BY <3>2 DEF Broken
    <3>3. CASE link'[l] = link[l]
      <4>1. PICK a : a = link[l].ap
        OBVIOUS
      <4>2. ~HasEnd(l[1], l) \/ ~HasEnd(a, l)
        BY <2>2, <4>1 DEF Live
      <4>3. ~HasEnd(l[1], l)' \/ ~HasEnd(a, l)'
        BY <1>1, <3>1, <4>1, <4>2
      <4>4. ~Live(l)'
        BY <3>3, <4>1, <4>3 DEF Live
      <4>5. QED BY <2>2, <3>3, <4>4 DEF Broken
    <3>4. QED BY <1>1, <3>2, <3>3
  <2>3. QED BY <2>1, <2>2 DEF Broken
<1>4. Onward
  <2>1. \A l \in Link : link[l].state # "free" =>
          link'[l].state # "free" /\ link'[l].ap = link[l].ap
    BY <1>1
  <2>2. QED BY <1>1, <1>2, <1>3, <2>1 DEF Onward
<1>5. Wired'
  <2>1. ASSUME NEW n \in Node, NEW l \in Link, HasEnd(n, l)' PROVE n = l[1] \/ n = link'[l].ap
    <3>1. n = l[1] \/ n = link[l].ap
      BY <1>1, <2>1 DEF WInv, Wired
    <3>2. QED BY <1>1, <3>1
  <2>2. QED BY <2>1 DEF Wired
<1>6. InSight'
  <2>1. ASSUME NEW l \in Link, link'[l].state # "free" PROVE <<l[1], link'[l].ap>> \in InRange
    <3>1. link[l].state # "free" /\ link'[l].ap = link[l].ap
      BY <1>1, <2>1
    <3>2. QED BY <3>1 DEF WInv, InSight
  <2>2. QED BY <1>1, <2>1 DEF InSight
<1>7. OneAtATime'
  <2>1. ASSUME NEW k \in Link, NEW l \in Link, Attached(k)', Attached(l)', k[1] = l[1]
        PROVE  k = l
    BY <1>2, <2>1 DEF WInv, OneAtATime
  <2>2. QED BY <1>1, <2>1 DEF OneAtATime
<1>8. Silent'
  <2>1. ASSUME NEW l \in Link, NEW n \in Node, Unheard(l, n)' PROVE chan'[l][n] = Idle
    <3>1. link'[l] = link[l] /\ Unheard(l, n)
      BY <1>1, <2>1 DEF Unheard
    <3>2. chan[l][n] = Idle
      BY <3>1 DEF WInv, Silent
    <3>3. ~HasEnd(n, l)
      BY <3>1, HasEndFacts DEF Unheard
    <3>4. QED BY <1>1, <3>2, <3>3 DEF Spoken
  <2>2. QED BY <2>1 DEF Silent
<1>9. QED BY <1>4, <1>5, <1>6, <1>7, <1>8 DEF WInv

\* A list with an entry more.
LEMMA EndAdded ==
  ASSUME ConnsOK, NEW n \in Node, NEW l \in Link, NEW station \in BOOLEAN,
         conns' = [conns EXCEPT ![n] = Append(@, NewEnd(l, station))]
  PROVE  \A k \in Node, j \in Link : HasEnd(k, j)' => HasEnd(k, j) \/ (k = n /\ j = l)
<1>1. PICK cs \in Seq(End) : cs = conns[n]
  BY DEF ConnsOK
<1>2. PICK e : e = NewEnd(l, station)
  OBVIOUS
<1>3. e.link = l
  BY <1>2 DEF NewEnd
<1>4. PICK us : us = Append(cs, e)
  OBVIOUS
<1>5. \A i \in DOMAIN us : us[i] = e \/ \E j \in DOMAIN cs : us[i] = cs[j]
  <2>1. PICK N \in Nat : N = Len(cs) /\ DOMAIN cs = 1..N
    BY ListFacts
  <2>2. DOMAIN us = 1..(N + 1) /\ us[N + 1] = e /\ \A i \in 1..N : us[i] = cs[i]
    BY <1>4, <2>1
  <2>3. \A i \in 1..(N + 1) : i = N + 1 \/ i \in 1..N
    BY <2>1
  <2>4. QED BY <2>1, <2>2, <2>3
<1>6. conns'[n] = us /\ \A k \in Node : k # n => conns'[k] = conns[k]
  BY <1>1, <1>2, <1>4 DEF ConnsOK
<1>7. ASSUME NEW k \in Node, NEW j \in Link, HasEnd(k, j)', ~(k = n /\ j = l)
      PROVE  HasEnd(k, j)
  <2>1. PICK i \in DOMAIN conns'[k] : conns'[k][i].link = j
    BY <1>7 DEF HasEnd, Ends
  <2>2. PICK i2 \in DOMAIN conns[k] : conns[k][i2].link = j
    BY <1>1, <1>3, <1>5, <1>6, <1>7, <2>1
  <2>3. QED BY <2>2 DEF HasEnd, Ends
<1>8. QED BY <1>7

\* A link that is opened, or accepted.
LEMMA LinkOpens ==
  ASSUME IInv, WInv, IInv', NEW n \in Node, NEW l \in Link,
         \A k \in Node, j \in Link : HasEnd(k, j)' => HasEnd(k, j) \/ (k = n /\ j = l),
         \A k \in Link : k # l => link'[k] = link[k],
         n = l[1] \/ n = link'[l].ap,
         \/ link[l].state = "free"
         \/ /\ link[l].state = "syn" /\ link'[l].state = "up"
            /\ link'[l].ap = link[l].ap /\ n # l[1],
         link'[l].state \in {"syn", "up"}, <<l[1], link'[l].ap>> \in InRange,
         Tried', chan' = chan
  PROVE  Onward /\ Wired' /\ InSight' /\ Silent'
<1>1. ASSUME NEW j \in Link, Attached(j)'
      PROVE  link[j].state = "free" \/ (Attached(j) /\ link'[j].ap = link[j].ap)
  <2>1. j[1] \in Node /\ HasEnd(j[1], j)' /\ link'[j].state \in {"syn", "up"}
    BY <1>1, LinkFacts DEF Attached
  <2>2. CASE j = l
    BY <2>1, <2>2 DEF Attached
  <2>3. CASE j # l
    BY <2>1, <2>3 DEF Attached
  <2>4. QED BY <2>2, <2>3
<1>2. Broken => Broken'
  <2>1. ASSUME NEW j \in Link, link[j].state = "lost" PROVE Broken'
    <3>1. link'[j].state = "lost"
      BY <2>1
    <3>2. QED BY <3>1 DEF Broken
  <2>2. ASSUME NEW j \in Link, link[j].state = "up", ~Live(j) PROVE Broken'
    <3>1. j[1] \in Node /\ link[j].ap \in Node /\ j # l /\ link'[j] = link[j]
      BY <2>2, AttachedFacts
    <3>2. PICK a : a = link[j].ap
      OBVIOUS
    <3>3. ~HasEnd(j[1], j) \/ ~HasEnd(a, j)
      BY <2>2, <3>2 DEF Live
    <3>4. ~HasEnd(j[1], j)' \/ ~HasEnd(a, j)'
      BY <3>1, <3>2, <3>3
    <3>5. ~Live(j)'
      BY <3>1, <3>2, <3>4 DEF Live
    <3>6. QED BY <2>2, <3>1, <3>5 DEF Broken
  <2>3. QED BY <2>1, <2>2 DEF Broken
<1>3. Onward
  <2>1. \A j \in Link : link[j].state = "up" => link'[j] = link[j] \/ link'[j].state = "lost"
    OBVIOUS
  <2>2. \A j \in Link : link[j].state # "free" =>
          link'[j].state # "free" /\ link'[j].ap = link[j].ap
    OBVIOUS
  <2>3. QED BY <1>1, <1>2, <2>1, <2>2 DEF Onward
<1>4. Wired'
  <2>1. ASSUME NEW k \in Node, NEW j \in Link, HasEnd(k, j)' PROVE k = j[1] \/ k = link'[j].ap
    <3>1. CASE k = n /\ j = l
      BY <3>1
    <3>2. CASE HasEnd(k, j)
      <4>1. (k = j[1] \/ k = link[j].ap) /\ link[j].state # "free"
        BY <3>2, HasEndFacts DEF WInv, Wired
      <4>2. QED BY <4>1
    <3>3. QED BY <2>1, <3>1, <3>2
  <2>2. QED BY <2>1 DEF Wired
<1>5. InSight'
  <2>1. ASSUME NEW j \in Link, link'[j].state # "free" PROVE <<j[1], link'[j].ap>> \in InRange
    BY <2>1 DEF WInv, InSight
  <2>2. QED BY <2>1 DEF InSight
<1>6. Silent'
  <2>1. ASSUME NEW j \in Link, NEW k \in Node, Unheard(j, k)' PROVE chan'[j][k] = Idle
    <3>1. Unheard(j, k)
      BY <2>1 DEF Unheard
    <3>2. QED BY <3>1 DEF WInv, Silent
  <2>2. QED BY <2>1 DEF Silent
<1>7. QED BY <1>3, <1>4, <1>5, <1>6

LEMMA ConnectToAPOnward ==
  ASSUME IInv, WInv, IInv', NEW n \in Node, NEW m \in aps[n], NEW l \in Link, ConnectToAP(n, m, l)
  PROVE  Onward /\ WInv' /\ \A x : Unmoved(x)
<1>1. /\ wifi[n] = None /\ l[1] = n /\ link[l].state = "free"
      /\ aps' = [aps EXCEPT ![n] = @ \ {m}] /\ wifi' = [wifi EXCEPT ![n] = m]
      /\ link' = [link EXCEPT ![l] = [ap |-> m, state |-> "syn"]]
      /\ conns' = [conns EXCEPT ![n] = Append(@, NewEnd(l, TRUE))]
      /\ chan' = chan /\ UNCHANGED appVars
  BY DEF ConnectToAP
<1>2. \A k \in Node, j \in Link : HasEnd(k, j)' => HasEnd(k, j) \/ (k = n /\ j = l)
  BY <1>1, EndAdded DEF IInv
<1>3. /\ \A k \in Link : k # l => link'[k] = link[k]
      /\ link'[l].state = "syn" /\ link'[l].ap = m
  BY <1>1 DEF IInv, LinksOK
<1>4. Tried'
  <2>1. \A k \in Node : aps'[k] \subseteq aps[k]
    BY <1>1 DEF IInv, StationsOK
  <2>2. QED BY <2>1 DEF WInv, InSight, Tried
<1>5. <<l[1], link'[l].ap>> \in InRange
  BY <1>1, <1>3 DEF WInv, InSight, Tried
<1>6. Onward /\ Wired' /\ InSight' /\ Silent'
  BY <1>1, <1>2, <1>3, <1>4, <1>5, LinkOpens
<1>7. m \in Node /\ m # None
  BY NodeAssumption DEF IInv, StationsOK
<1>8. \A j \in Link : Attached(j)' => j = l \/ (Attached(j) /\ j[1] # n /\ wifi'[j[1]] # None)
  <2>1. ASSUME NEW j \in Link, Attached(j)', j # l
        PROVE  Attached(j) /\ j[1] # n /\ wifi'[j[1]] # None
    <3>1. j[1] \in Node /\ HasEnd(j[1], j) /\ link'[j] = link[j]
      BY <1>2, <1>3, <2>1, LinkFacts DEF Attached
    <3>2. Attached(j)
      BY <2>1, <3>1 DEF Attached
    <3>3. wifi[j[1]] # None
      BY <3>2 DEF WInv, OneAtATime
    <3>4. QED BY <1>1, <3>1, <3>2, <3>3 DEF IInv, StationsOK
  <2>2. QED BY <2>1
<1>9. OneAtATime'
  <2>1. ASSUME NEW j \in Link, Attached(j)' PROVE wifi'[j[1]] # None
    <3>1. wifi'[n] = m
      BY <1>1 DEF IInv, StationsOK
    <3>2. QED BY <1>1, <1>7, <1>8, <2>1, <3>1
  <2>2. ASSUME NEW k \in Link, NEW j \in Link, Attached(k)', Attached(j)', k[1] = j[1]
        PROVE  k = j
    BY <1>1, <1>8, <2>2 DEF WInv, OneAtATime
  <2>3. QED BY <2>1, <2>2 DEF OneAtATime
<1>10. QED BY <1>1, <1>6, <1>9, SameChannels, SameApps DEF WInv

LEMMA AcceptOnward ==
  ASSUME IInv, WInv, IInv', NEW l \in Link, Accept(l)
  PROVE  Onward /\ WInv' /\ \A x : Unmoved(x)
<1>1. PICK n \in Node : n = link[l].ap /\ n # l[1] /\ <<l[1], n>> \in InRange
  BY AttachedFacts DEF Accept
<1>2. /\ link[l].state = "syn"
      /\ link' = [link EXCEPT ![l].state = "up"]
      /\ conns' = [conns EXCEPT ![n] = Append(@, NewEnd(l, FALSE))]
      /\ chan' = chan /\ aps' = aps /\ wifi' = wifi /\ UNCHANGED appVars
  BY <1>1 DEF Accept, wifiVars
<1>3. \A k \in Node, j \in Link : HasEnd(k, j)' => HasEnd(k, j) \/ (k = n /\ j = l)
  BY <1>2, EndAdded DEF IInv
<1>4. /\ \A k \in Link : k # l => link'[k] = link[k]
      /\ link'[l].state = "up" /\ link'[l].ap = n
  BY <1>1, <1>2 DEF IInv, LinksOK, LinkState
<1>5. Tried'
  BY <1>2 DEF WInv, InSight, Tried
<1>6. Onward /\ Wired' /\ InSight' /\ Silent'
  BY <1>1, <1>2, <1>3, <1>4, <1>5, LinkOpens
<1>7. \A j \in Link : Attached(j)' => Attached(j)
  <2>1. ASSUME NEW j \in Link, Attached(j)' PROVE Attached(j)
    <3>1. j[1] \in Node /\ HasEnd(j[1], j)
      BY <1>1, <1>3, <2>1, LinkFacts DEF Attached
    <3>2. QED BY <1>2, <1>4, <2>1, <3>1 DEF Attached
  <2>2. QED BY <2>1
<1>8. OneAtATime'
  <2>1. ASSUME NEW j \in Link, Attached(j)' PROVE wifi'[j[1]] # None
    BY <1>2, <1>7, <2>1 DEF WInv, OneAtATime
  <2>2. ASSUME NEW k \in Link, NEW j \in Link, Attached(k)', Attached(j)', k[1] = j[1]
        PROVE  k = j
    BY <1>7, <2>2 DEF WInv, OneAtATime
  <2>3. QED BY <2>1, <2>2 DEF OneAtATime
<1>9. QED BY <1>2, <1>6, <1>8, SameChannels, SameApps DEF WInv


-----------------------------------------------------------------------------
(* Counting links.                                                         *)

LEMMA RangeFinite ==
  ASSUME IsFiniteSet(Node)
  PROVE  IsFiniteSet(InRange)
<1>1. IsFiniteSet(Node \X Node)
  BY FS_Product
<1>2. InRange \in SUBSET (Node \X Node)
  BY RangeAssumption
<1>3. QED BY <1>1, <1>2, FS_Subset

\* Links that make no cycle have made none before.
LEMMA ForestBefore ==
  ASSUME IInv', WInv', IsFiniteSet(Node), Onward, Forest'
  PROVE  Forest
<1>1. Edges \subseteq Edges'
  BY DEF Onward, Edges
<1>2. PICK D : D = Edges'
  OBVIOUS
<1>3. IsFiniteSet(D)
  <2>1. (Edges \in SUBSET InRange)'
    BY EdgesInRange, PTL
  <2>2. QED BY <1>2, <2>1, RangeFinite, FS_Subset
<1>4. ASSUME NEW S \in (SUBSET Node) \ {{}}
      PROVE  Cardinality({p \in Edges : p[1] \in S /\ p[2] \in S}) < Cardinality(S)
  <2>1. PICK G : G = {p \in Edges : p[1] \in S /\ p[2] \in S}
    OBVIOUS
  <2>2. PICK H : H = {p \in D : p[1] \in S /\ p[2] \in S}
    OBVIOUS
  <2>3. G \in SUBSET H /\ H \in SUBSET D
    BY <1>1, <1>2, <2>1, <2>2
  <2>4. IsFiniteSet(H) /\ IsFiniteSet(S)
    BY <1>3, <2>3, FS_Subset
  <2>5. IsFiniteSet(G) /\ Cardinality(G) <= Cardinality(H)
    BY <2>3, <2>4, FS_Subset
  <2>6. Cardinality(H) < Cardinality(S)
    BY <1>2, <2>2 DEF Forest
  <2>7. Cardinality(G) \in Nat /\ Cardinality(H) \in Nat /\ Cardinality(S) \in Nat
    BY <2>4, <2>5, FS_CardinalityType
  <2>8. Cardinality(G) < Cardinality(S)
    BY <2>5, <2>6, <2>7
  <2>9. QED BY <2>1, <2>8
<1>5. QED BY <1>4 DEF Forest

\* A link from a node to one of a set.
LeadsTo(p, n, S) == (p[1] = n /\ p[2] \in S) \/ (p[2] = n /\ p[1] \in S)

\* Where nodes are connected no two links lead to the same node outside.
LEMMA OneWayOut ==
  ASSUME IsFiniteSet(Node), IInv, WInv, Forest,
         NEW S \in SUBSET Node, NEW n \in Node, n \notin S,
         NEW E \in SUBSET Edges, \A p \in E : p[1] \in S /\ p[2] \in S,
         Cardinality(E) >= Cardinality(S) - 1,
         NEW a \in Edges, NEW b \in Edges, LeadsTo(a, n, S), LeadsTo(b, n, S)
  PROVE  a = b
<1>1. SUFFICES ASSUME a # b PROVE FALSE
  OBVIOUS
<1>2. IsFiniteSet(S) /\ IsFiniteSet(E) /\ IsFiniteSet(Edges)
  <2>1. IsFiniteSet(Edges)
    BY EdgesInRange, RangeFinite, FS_Subset
  <2>2. QED BY <2>1, FS_Subset
<1>3. a \notin E /\ b \notin E
  BY DEF LeadsTo
<1>4. PICK T : T = S \cup {n}
  OBVIOUS
<1>5. IsFiniteSet(T) /\ Cardinality(T) = Cardinality(S) + 1 /\ T \in SUBSET Node /\ T # {}
  BY <1>2, <1>4, FS_AddElement
<1>6. PICK F : F = E \cup {a}
  OBVIOUS
<1>7. IsFiniteSet(F) /\ Cardinality(F) = Cardinality(E) + 1 /\ b \notin F
  BY <1>1, <1>2, <1>3, <1>6, FS_AddElement
<1>8. PICK G : G = F \cup {b}
  OBVIOUS
<1>9. IsFiniteSet(G) /\ Cardinality(G) = Cardinality(E) + 2
  <2>1. Cardinality(G) = Cardinality(F) + 1 /\ IsFiniteSet(G)
    BY <1>7, <1>8, FS_AddElement
  <2>2. Cardinality(E) \in Nat
    BY <1>2, FS_CardinalityType
  <2>3. QED BY <1>7, <2>1, <2>2
<1>10. PICK H : H = {p \in Edges : p[1] \in T /\ p[2] \in T}
  OBVIOUS
<1>11. Cardinality(H) < Cardinality(T)
  <2>1. T \in (SUBSET Node) \ {{}}
    BY <1>5
  <2>2. Cardinality({p \in Edges : p[1] \in T /\ p[2] \in T}) < Cardinality(T)
    BY <2>1 DEF Forest
  <2>3. QED BY <1>10, <2>2
<1>12. G \in SUBSET H
  BY <1>4, <1>6, <1>8, <1>10 DEF LeadsTo
<1>13. IsFiniteSet(H)
  BY <1>2, <1>10, FS_Subset
<1>14. Cardinality(G) <= Cardinality(H)
  BY <1>12, <1>13, FS_Subset
<1>15. Cardinality(E) \in Nat /\ Cardinality(S) \in Nat /\ Cardinality(H) \in Nat
  BY <1>2, <1>13, FS_CardinalityType
<1>16. PICK e \in Nat, s \in Nat, h \in Nat :
         e = Cardinality(E) /\ s = Cardinality(S) /\ h = Cardinality(H)
  BY <1>15
<1>17. e >= s - 1 /\ e + 2 <= h /\ h < s + 1
  BY <1>5, <1>9, <1>11, <1>14, <1>16
<1>18. QED BY <1>16, <1>17

\* Another link of the tree.
LEMMA OneMore ==
  ASSUME IsFiniteSet(Node), NEW S \in SUBSET Node, NEW n \in Node, n \notin S,
         NEW E \in SUBSET InRange, NEW F \in SUBSET InRange, E \subseteq F,
         NEW a \in F, a \notin E,
         Cardinality(E) >= Cardinality(S) - 1
  PROVE  Cardinality(F) >= Cardinality(S \cup {n}) - 1
<1>1. IsFiniteSet(S) /\ IsFiniteSet(E) /\ IsFiniteSet(F)
  BY RangeFinite, FS_Subset
<1>2. Cardinality(S \cup {n}) = Cardinality(S) + 1
  BY <1>1, FS_AddElement
<1>3. PICK G : G = E \cup {a}
  OBVIOUS
<1>4. Cardinality(G) = Cardinality(E) + 1
  BY <1>1, <1>3, FS_AddElement
<1>5. G \in SUBSET F
  BY <1>3
<1>6. Cardinality(G) <= Cardinality(F)
  BY <1>1, <1>5, FS_Subset
<1>7. Cardinality(E) \in Nat /\ Cardinality(S) \in Nat /\ Cardinality(F) \in Nat
  BY <1>1, FS_CardinalityType
<1>8. PICK e \in Nat, s \in Nat, f \in Nat :
        e = Cardinality(E) /\ s = Cardinality(S) /\ f = Cardinality(F)
  BY <1>7
<1>9. e >= s - 1 /\ e + 1 <= f
  BY <1>4, <1>6, <1>8
<1>10. f >= (s + 1) - 1
  BY <1>8, <1>9
<1>11. QED BY <1>2, <1>8, <1>10

-----------------------------------------------------------------------------
(* The steps.                                                              *)

\* A step that does not move a broadcast.
LEMMA TreeStays ==
  ASSUME IInv, WInv, IInv', WInv', IsFiniteSet(Node), Onward, ~Broken', NEW m \in AppMsg, Tree(m), Unmoved(m)
  PROVE  Tree(m)'
<1>1. Seen(m)' = Seen(m)
  BY DEF Seen, Unmoved
<1>2. m.from \in Node
  BY AppAssumption
<1>3. Counted(m)'
  BY <1>1, <1>2 DEF Tree, Counted, Unmoved
<1>4. Ahead(m)'
  <2>1. ASSUME NEW l \in Link, NEW n \in Node, Attached(l)', n = l[1] \/ n = link'[l].ap,
               Carried(m, chan'[l][n])
        PROVE  n \in Seen(m)' /\ Peer(l, n)' \notin Seen(m)' /\ Once(m, chan'[l][n])
    <3>1. NoMore(m, chan'[l][n], chan[l][n])
      BY DEF Unmoved, Thinner
    <3>2. Carried(m, chan[l][n]) /\ (Once(m, chan[l][n]) => Once(m, chan'[l][n]))
      BY <2>1, <3>1 DEF NoMore
    <3>3. link[l].state # "free"
      <4>1. ASSUME link[l].state = "free" PROVE FALSE
        <5>1. chan[l][n] = Idle
          BY <4>1 DEF WInv, Silent, Unheard
        <5>2. Idle \in Channel
          BY <5>1 DEF IInv, ChansOK, Carries
        <5>3. QED BY <3>2, <5>1, <5>2, Emptied
      <4>2. QED BY <4>1
    <3>4. Attached(l) /\ link'[l].ap = link[l].ap
      BY <2>1, <3>3 DEF Onward
    <3>5. Peer(l, n)' = Peer(l, n)
      BY <3>4 DEF Peer
    <3>6. n \in Seen(m) /\ Peer(l, n) \notin Seen(m) /\ Once(m, chan[l][n])
      BY <2>1, <3>2, <3>4 DEF Tree, Ahead
    <3>7. QED BY <1>1, <3>2, <3>5, <3>6
  <2>2. QED BY <2>1 DEF Ahead
<1>5. Connected(m)'
  <2>1. PICK S : S = Seen(m)
    OBVIOUS
  <2>2. Passed(S) \subseteq Passed(S)'
    <3>1. \A l \in Link : link[l].state = "up" => link'[l] = link[l]
      BY DEF Onward, Broken
    <3>2. Edges \subseteq Edges'
      BY DEF Onward, Edges
    <3>3. QED BY <3>1, <3>2 DEF Passed
  <2>3. Passed(S)' \in SUBSET InRange /\ Passed(S) \in SUBSET InRange
    <3>1. (Edges \in SUBSET InRange)'
      BY EdgesInRange, PTL
    <3>2. QED BY <3>1, EdgesInRange DEF Passed
  <2>4. IsFiniteSet(Passed(S)')
    BY <2>3, RangeFinite, FS_Subset
  <2>5. PICK E \in SUBSET InRange : E = Passed(S)
    BY <2>3
  <2>6. PICK F \in SUBSET InRange : F = Passed(S)'
    BY <2>3
  <2>7. Cardinality(E) <= Cardinality(F) /\ Cardinality(E) \in Nat /\ Cardinality(F) \in Nat
    BY <2>2, <2>4, <2>5, <2>6, FS_Subset, FS_CardinalityType
  <2>8. S \in SUBSET Node
    BY <2>1 DEF Seen
  <2>9. Cardinality(S) \in Nat
    BY <2>8, FS_Subset, FS_CardinalityType
  <2>10. m \in sent => Cardinality(E) >= Cardinality(S) - 1
    BY <2>1, <2>5 DEF Tree, Connected
  <2>11. m \in sent => Cardinality(F) >= Cardinality(S) - 1
    BY <2>7, <2>9, <2>10
  <2>12. Passed(Seen(m))' = F
    BY <1>1, <2>1, <2>6
  <2>13. QED BY <1>1, <2>1, <2>11, <2>12 DEF Connected, Unmoved
<1>6. QED BY <1>3, <1>4, <1>5 DEF Tree

\* broadcastMessage is called.
LEMMA SendBroadcastTree ==
  ASSUME IInv, WInv, IsFiniteSet(Node), ~Broken, NEW m \in AppMsg, Tree(m), SendBroadcast(m)
  PROVE  Tree(m)'
<1>1. PICK links : links = AllBut(m.from, Off)
  OBVIOUS
<1>2. /\ m \notin sent /\ m.from \in Node /\ m \in Msg /\ Carries(chan)
      /\ Send(chan, m.from, links, m)
      /\ sent' = sent \cup {m} /\ got' = got /\ conns' = conns /\ link' = link
  BY <1>1, AppAssumption DEF SendBroadcast, IInv, ChansOK, Msg
<1>3. Seen(m) = {}
  BY <1>2 DEF Tree, Counted
<1>4. Seen(m)' = {m.from}
  BY <1>2, <1>3 DEF Seen
<1>5. Counted(m)'
  BY <1>2, <1>4 DEF Tree, Counted
<1>6. \A l \in Link : Attached(l)' <=> Attached(l)
  BY <1>2 DEF Attached, HasEnd, Ends
<1>7. Ahead(m)'
  <2>1. ASSUME NEW l \in Link, NEW n \in Node, Attached(l), n = l[1] \/ n = link[l].ap,
               Carried(m, chan'[l][n])
        PROVE  n = m.from /\ Peer(l, n) # m.from /\ Once(m, chan'[l][n])
    <3>1. ~Carried(m, chan[l][n])
      BY <1>3, <2>1 DEF Tree, Ahead
    <3>2. n = m.from /\ chan'[l][n] = Queue(chan[l][n], m)
      BY <1>2, <2>1, <3>1, Sends
    <3>3. chan[l][n] \in Channel
      BY DEF IInv, ChansOK, Carries
    <3>4. Once(m, chan'[l][n])
      BY <1>2, <3>1, <3>2, <3>3, Queued
    <3>5. link[l].state # "free"
      BY <2>1 DEF Attached
    <3>6. QED BY <2>1, <3>2, <3>4, <3>5, AttachedFacts
  <2>2. \A l \in Link, n \in Node : Peer(l, n)' = Peer(l, n)
    BY <1>2 DEF Peer
  <2>3. QED BY <1>2, <1>4, <1>6, <2>1, <2>2 DEF Ahead
<1>8. Connected(m)'
  <2>1. Cardinality({m.from}) = 1
    BY FS_Singleton
  <2>2. Passed({m.from})' \in SUBSET InRange
    <3>1. Edges' = Edges
      BY <1>2 DEF Edges
    <3>2. QED BY <3>1, EdgesInRange DEF Passed
  <2>3. Cardinality(Passed({m.from})') \in Nat
    BY <2>2, RangeFinite, FS_Subset, FS_CardinalityType
  <2>4. Passed(Seen(m))' = Passed({m.from})'
    BY <1>4
  <2>5. Cardinality(Passed({m.from})') >= 1 - 1
    BY <2>3
  <2>6. QED BY <1>4, <2>1, <2>4, <2>5 DEF Connected
<1>9. QED BY <1>5, <1>7, <1>8 DEF Tree

\* handleMessage of a broadcast: the node is new to it, and so are those it
\* passes it on to.
LEMMA HandleBroadcastTree ==
  ASSUME IInv, WInv, IsFiniteSet(Node), Forest, ~Broken,
         NEW l \in Link, NEW n \in Node, HasEnd(n, l), NEW m \in AppMsg, Tree(m),
         NEW c, Carries(c), HandleBroadcast(n, l, m, c), Thinner(m, chan, c),
         Carried(m, chan[l][Peer(l, n)]),
         Once(m, chan[l][Peer(l, n)]) => ~Carried(m, c[l][Peer(l, n)])
  PROVE  Tree(m)'
<1>1. Attached(l) /\ (n = l[1] \/ n = link[l].ap) /\ link[l].state # "free"
  BY WholeFacts DEF Attached
<1>2. PICK p \in Node : p = Peer(l, n)
  BY <1>1, AttachedFacts
<1>3. (p = l[1] \/ p = link[l].ap) /\ Peer(l, p) = n /\ p # n
  BY <1>1, <1>2, AttachedFacts
<1>4. PICK S \in SUBSET Node : S = Seen(m)
  BY DEF Seen
<1>5. p \in S /\ n \notin S /\ Once(m, chan[l][p]) /\ ~Carried(m, c[l][p])
  BY <1>1, <1>2, <1>3, <1>4 DEF Tree, Ahead
<1>6. m \in sent /\ m.from \in S /\ m.from # n /\ m.from \in Node
  BY <1>4, <1>5, AppAssumption DEF Tree, Counted, Seen
<1>7. PICK links : links = AllBut(n, EndOn(n, l).node)
  OBVIOUS
<1>8. /\ Receive(n, m) /\ Send(c, n, links, m) /\ m \in Msg
      /\ sent' = sent /\ conns' = conns /\ link' = link
  BY <1>7 DEF HandleBroadcast, Msg
<1>9. got[n][m] = 0 /\ got'[n][m] = 1 /\ \A k \in Node : k # n => got'[k][m] = got[k][m]
  <2>1. got[n][m] \in 0..2 /\ ~(got[n][m] > 0)
    BY <1>4, <1>5 DEF Seen, IInv, AppsOK
  <2>2. got[n][m] = 0
    BY <2>1
  <2>3. got' = [got EXCEPT ![n] = [got[n] EXCEPT ![m] = 1]]
    <3>1. got' = [got EXCEPT ![n][m] = IF @ < 2 THEN @ + 1 ELSE @]
      BY <1>8 DEF Receive
    <3>2. QED BY <2>2, <3>1 DEF IInv, AppsOK
  <2>4. QED BY <2>2, <2>3 DEF IInv, AppsOK
<1>10. Seen(m)' = S \cup {n}
  BY <1>4, <1>8, <1>9 DEF Seen
<1>11. Counted(m)'
  BY <1>6, <1>8, <1>9 DEF Tree, Counted
<1>12. \A k \in Link : Attached(k)' <=> Attached(k)
  BY <1>8 DEF Attached, HasEnd, Ends
<1>13. link[l].state = "up"
  <2>1. ASSUME link[l].state = "syn" PROVE FALSE
    <3>1. Unheard(l, p)
      BY <1>3, <2>1, HasEndFacts DEF Unheard
    <3>2. chan[l][p] = Idle /\ Idle \in Channel
      BY <3>1 DEF WInv, Silent, IInv, ChansOK, Carries
    <3>3. QED BY <1>2, <3>2, Emptied
  <2>2. QED BY <1>1, <2>1 DEF Attached
<1>14. PICK a \in Edges : a = <<l[1], link[l].ap>>
  BY <1>1, AttachedFacts
<1>15. LeadsTo(a, n, S)
  BY <1>1, <1>3, <1>5, <1>14 DEF LeadsTo
<1>16. PICK E \in SUBSET Edges : E = Passed(S)
  BY DEF Passed
<1>17. (\A x \in E : x[1] \in S /\ x[2] \in S) /\ Cardinality(E) >= Cardinality(S) - 1
  <2>1. \A x \in E : x[1] \in S /\ x[2] \in S
    BY <1>16 DEF Passed
  <2>2. QED BY <1>4, <1>6, <1>16, <2>1 DEF Tree, Connected
<1>18. ASSUME NEW k \in Link, Attached(k), k # l, NEW j \in Node, j = k[1] \/ j = link[k].ap,
              NEW i \in Node, i = Peer(k, j), (j = n /\ i \in S) \/ (i = n /\ j \in S)
       PROVE  FALSE
  <2>1. link[k].state # "free"
    BY <1>18 DEF Attached
  <2>2. PICK b \in Edges : b = <<k[1], link[k].ap>>
    BY <2>1, AttachedFacts
  <2>3. LeadsTo(b, n, S)
    BY <1>18, <2>1, <2>2, AttachedFacts DEF LeadsTo
  <2>4. a = b
    BY <1>5, <1>15, <1>17, <2>3, OneWayOut
  <2>5. k[1] = l[1]
    BY <1>14, <2>2, <2>4
  <2>6. QED BY <1>1, <1>18, <2>5 DEF WInv, OneAtATime
<1>19. l \notin links
  <2>1. ASSUME NEW e \in Ends(n), e.link = l PROVE e = EndOn(n, l)
    <3>1. EndOn(n, l) \in Ends(n) /\ EndOn(n, l).link = l
      BY EndOnFacts DEF IInv, ConnsOK
    <3>2. OneForLink(conns[n])
      BY DEF IInv, ConnsOK, Sound
    <3>3. QED BY <2>1, <3>1, <3>2 DEF Ends, OneForLink
  <2>2. QED BY <1>7, <2>1 DEF AllBut
<1>20. ASSUME NEW k \in Link, NEW j \in Node, Attached(k), j = k[1] \/ j = link[k].ap,
              Carried(m, chan'[k][j])
       PROVE  /\ j \in S \cup {n} /\ Peer(k, j) \notin S \cup {n} /\ Once(m, chan'[k][j])
  <2>1. link[k].state # "free"
    BY <1>20 DEF Attached
  <2>2. PICK i \in Node : i = Peer(k, j) /\ i # j /\ (i = k[1] \/ i = link[k].ap) /\ Peer(k, i) = j
    BY <1>20, <2>1, AttachedFacts
  <2>3. NoMore(m, c[k][j], chan[k][j])
    BY DEF Thinner
  <2>4. CASE chan'[k][j] = c[k][j]
    <3>1. Carried(m, chan[k][j]) /\ ~(k = l /\ j = p)
      BY <1>5, <1>20, <2>3, <2>4 DEF NoMore
    <3>2. j \in S /\ i \notin S /\ Once(m, chan[k][j])
      BY <1>4, <1>20, <2>2, <3>1 DEF Tree, Ahead
    <3>3. i # n
      <4>1. CASE k = l
        BY <1>2, <2>2, <3>1, <4>1
      <4>2. CASE k # l
        BY <1>18, <1>20, <2>2, <3>2, <4>2
      <4>3. QED BY <4>1, <4>2
    <3>4. Once(m, chan'[k][j])
      BY <2>3, <2>4, <3>2 DEF NoMore
    <3>5. QED BY <2>2, <3>2, <3>3, <3>4
  <2>5. CASE j = n /\ k \in links /\ chan'[k][j] = Queue(c[k][j], m)
    <3>1. k # l
      BY <1>19, <2>5
    <3>2. ~Carried(m, chan[k][j])
      BY <1>4, <1>5, <1>20, <2>5 DEF Tree, Ahead
    <3>3. ~Carried(m, c[k][j]) /\ c[k][j] \in Channel
      BY <2>3, <3>2 DEF NoMore, Carries
    <3>4. Once(m, chan'[k][j])
      BY <1>8, <2>5, <3>3, Queued
    <3>5. i \notin S
      BY <1>18, <1>20, <2>2, <2>5, <3>1
    <3>6. QED BY <2>2, <2>5, <3>4, <3>5
  <2>6. QED BY <1>8, <2>4, <2>5, Sends
<1>21. Ahead(m)'
  <2>1. \A k \in Link, j \in Node : Peer(k, j)' = Peer(k, j)
    BY <1>8 DEF Peer
  <2>2. QED BY <1>8, <1>10, <1>12, <1>20, <2>1 DEF Ahead
<1>22. Connected(m)'
  <2>1. PICK F \in SUBSET Edges : F = Passed(S \cup {n})
    BY DEF Passed
  <2>2. E \subseteq F
    BY <1>16, <2>1 DEF Passed
  <2>3. a \in F /\ a \notin E
    <3>1. l[1] \in S \cup {n} /\ link[l].ap \in S \cup {n}
      BY <1>1, <1>3, <1>5
    <3>2. a \in F
      BY <1>13, <1>14, <2>1, <3>1 DEF Passed
    <3>3. a \notin E
      BY <1>5, <1>15, <1>17 DEF LeadsTo
    <3>4. QED BY <3>2, <3>3
  <2>4. Cardinality(F) >= Cardinality(S \cup {n}) - 1
    <3>1. E \in SUBSET InRange /\ F \in SUBSET InRange
      BY EdgesInRange
    <3>2. QED BY <1>5, <1>17, <2>2, <2>3, <3>1, OneMore
  <2>5. Passed(S \cup {n})' = F
    BY <1>8, <2>1 DEF Passed, Edges
  <2>6. QED BY <1>10, <2>4, <2>5 DEF Connected
<1>23. QED BY <1>11, <1>21, <1>22 DEF Tree

-----------------------------------------------------------------------------
(* The invariant of broadcasts.                                            *)

LEMMA InitTree ==
  ASSUME Init
  PROVE  BInv
<1>1. IInv
  BY InitOK
<1>2. /\ \A n \in Node : conns[n] = <<>> /\ aps[n] = {}
      /\ \A l \in Link : link[l].state = "free"
      /\ \A l \in Link, n \in Node : chan[l][n] = Idle
      /\ sent = {} /\ \A n \in Node, m \in AppMsg : got[n][m] = 0
  BY DEF Init
<1>3. \A n \in Node : \A l : ~HasEnd(n, l)
  <2>1. DOMAIN <<>> = {}
    OBVIOUS
  <2>2. QED BY <1>2, <2>1 DEF HasEnd, Ends
<1>4. \A l \in Link : ~Attached(l)
  BY <1>2 DEF Attached
<1>5. WInv
  BY <1>2, <1>3, <1>4 DEF WInv, Wired, InSight, Tried, OneAtATime, Silent
<1>6. ASSUME NEW m \in AppMsg PROVE Tree(m)
  <2>1. m.from \in Node
    BY AppAssumption
  <2>2. Seen(m) = {}
    BY <1>2 DEF Seen
  <2>3. QED BY <1>2, <1>4, <2>1, <2>2 DEF Tree, Ahead, Counted, Connected
<1>7. QED BY <1>1, <1>5, <1>6 DEF BInv

\* What a step has to show: the broadcasts it moves stay in their trees.
LEMMA TreesStay ==
  ASSUME BInv, IInv', WInv', IsFiniteSet(Node), Onward,
         \A m \in AppMsg : IsBroadcast(m) => Unmoved(m) \/ (~Broken /\ Forest /\ Tree(m) => Tree(m)')
  PROVE  BInv'
<1>1. ASSUME ~Broken', Forest', NEW m \in AppMsg, IsBroadcast(m) PROVE Tree(m)'
  <2>1. ~Broken /\ Forest /\ Tree(m)
    BY <1>1, ForestBefore DEF BInv, Onward
  <2>2. IInv /\ WInv
    BY DEF BInv
  <2>3. CASE Unmoved(m)
    BY <1>1, <2>1, <2>2, <2>3, TreeStays
  <2>4. CASE ~Broken /\ Forest /\ Tree(m) => Tree(m)'
    BY <2>1, <2>4
  <2>5. QED BY <1>1, <2>3, <2>4
<1>2. QED BY <1>1 DEF BInv, IsBroadcast

LEMMA SendBroadcastOnward ==
  ASSUME BInv, IsFiniteSet(Node), IInv', NEW m \in AppMsg, SendBroadcast(m)
  PROVE  BInv'
<1>1. IInv /\ WInv
  BY DEF BInv
<1>2. PICK links : links = AllBut(m.from, Off)
  OBVIOUS
<1>3. /\ Send(chan, m.from, links, m) /\ m \in Msg /\ m.from \in Node
      /\ link' = link /\ wifi' = wifi /\ aps' = aps /\ conns' = conns /\ got' = got
      /\ sent' = sent \cup {m} /\ Carries(chan)
  BY <1>1, <1>2, AppAssumption DEF SendBroadcast, wifiVars, IInv, ChansOK, Msg
<1>4. \A l \in links \cap Link : HasEnd(m.from, l)
  BY <1>2, <1>3, AllButHere
<1>5. Spoken(chan, chan') /\ \A x \in AppMsg : x # m => Thinner(x, chan, chan')
  BY <1>3, <1>4, SendQuiet
<1>6. Ordinary
  BY <1>1, <1>3, <1>5, EndsStay DEF Ordinary
<1>7. Onward /\ WInv'
  BY <1>1, <1>6, OrdinaryOnward
<1>8. \A x \in AppMsg : x # m => Unmoved(x)
  BY <1>3, <1>5 DEF Unmoved
<1>9. ~Broken /\ Forest /\ Tree(m) => Tree(m)'
  BY <1>1, SendBroadcastTree
<1>10. QED BY <1>7, <1>8, <1>9, TreesStay

LEMMA HandleBroadcastOnward ==
  ASSUME BInv, IsFiniteSet(Node), IInv',
         NEW l \in Link, NEW n \in Node, HasEnd(n, l), NEW m \in AppMsg,
         NEW c, Carries(c), HandleBroadcast(n, l, m, c),
         Spoken(chan, c), \A x : Thinner(x, chan, c),
         Carried(m, chan[l][Peer(l, n)]),
         Once(m, chan[l][Peer(l, n)]) => ~Carried(m, c[l][Peer(l, n)])
  PROVE  BInv'
<1>1. IInv /\ WInv
  BY DEF BInv
<1>2. PICK links : links = AllBut(n, EndOn(n, l).node)
  OBVIOUS
<1>3. /\ Send(c, n, links, m) /\ Receive(n, m) /\ m \in Msg
      /\ link' = link /\ wifi' = wifi /\ aps' = aps /\ conns' = conns /\ sent' = sent
  BY <1>2 DEF HandleBroadcast, wifiVars, Msg
<1>4. \A k \in links \cap Link : HasEnd(n, k)
  BY <1>2, AllButHere
<1>5. Spoken(c, chan') /\ \A x \in AppMsg : x # m => Thinner(x, c, chan')
  BY <1>3, <1>4, SendQuiet
<1>6. Spoken(chan, chan')
  BY <1>5 DEF Spoken
<1>7. Onward /\ WInv'
  BY <1>1, <1>3, <1>6, EndsStay, OrdinaryOnward DEF Ordinary
<1>8. ASSUME NEW x \in AppMsg, x # m PROVE Unmoved(x)
  <2>1. Thinner(x, chan, chan')
    BY <1>5, <1>8, ThinnerStill
  <2>2. \A k \in Node : got'[k][x] = got[k][x]
    BY <1>1, <1>3, <1>8 DEF Receive, IInv, AppsOK
  <2>3. QED BY <1>3, <2>1, <2>2 DEF Unmoved
<1>9. ~Broken /\ Forest /\ Tree(m) => Tree(m)'
  BY <1>1, HandleBroadcastTree
<1>10. QED BY <1>7, <1>8, <1>9, TreesStay

LEMMA QuietOK ==
  ASSUME BInv, IsFiniteSet(Node), IInv', Ordinary,
         \A m \in AppMsg : IsBroadcast(m) => Unmoved(m)
  PROVE  BInv'
<1>1. Onward /\ WInv'
  BY OrdinaryOnward DEF BInv
<1>2. QED BY <1>1, TreesStay

LEMMA HandleOnward ==
  ASSUME BInv, IsFiniteSet(Node), IInv', NEW l \in Link, NEW n \in Node, Handle(n, l)
  PROVE  BInv'
<1>1. PICK c : c = [chan EXCEPT ![l][Peer(l, n)].transit = Tail(@)]
  OBVIOUS
<1>2. PICK msg : msg = Head(chan[l][Peer(l, n)].transit)
  OBVIOUS
<1>3. HasEnd(n, l) /\ chan[l][Peer(l, n)].transit # <<>> /\ IInv /\ WInv
  BY DEF Handle, BInv
<1>4. msg \in Msg /\ Carries(c) /\ EndOn(n, l) \in End
  BY <1>1, <1>2, <1>3, HandleFacts
<1>5. PICK i \in DOMAIN conns[n] : conns[n][i] = EndOn(n, l)
  BY <1>3, HandleFacts
<1>6. /\ Spoken(chan, c) /\ (\A x : Thinner(x, chan, c))
      /\ Carried(msg, chan[l][Peer(l, n)])
      /\ Once(msg, chan[l][Peer(l, n)]) => ~Carried(msg, c[l][Peer(l, n)])
  BY <1>1, <1>2, <1>3, HandledFrom
<1>7. CASE msg.type = "SINGLE"
  <2>1. HandleSingle(n, l, msg, c)
    BY <1>1, <1>2, <1>7 DEF Handle
  <2>2. Ordinary /\ \A x \in AppMsg : IsBroadcast(x) => Unmoved(x)
    BY <1>3, <1>4, <1>6, <1>7, <2>1, MsgKinds, HandleSingleQuiet
  <2>3. QED BY <2>2, QuietOK
<1>8. CASE msg.type = "BROADCAST"
  <2>1. HandleBroadcast(n, l, msg, c) /\ msg \in AppMsg
    BY <1>1, <1>2, <1>4, <1>8, MsgKinds DEF Handle
  <2>2. QED BY <1>3, <1>4, <1>6, <2>1, HandleBroadcastOnward
<1>9. CASE msg.type \notin {"SINGLE", "BROADCAST"}
  <2>1. HandleNodeSync(n, l, msg, c) /\ msg \in SyncMsg
    BY <1>1, <1>2, <1>4, <1>9, MsgKinds DEF Handle
  <2>2. Ordinary /\ \A x \in AppMsg : Unmoved(x)
    BY <1>3, <1>4, <1>5, <1>6, <2>1, HandleNodeSyncQuiet
  <2>3. QED BY <2>2, QuietOK
<1>10. QED BY <1>7, <1>8, <1>9

LEMMA NextTree ==
  ASSUME IsFiniteSet(Node), BInv, [Next]_vars
  PROVE  BInv'
<1>1. IInv /\ WInv /\ IInv'
  BY NextOK DEF BInv
<1>2. ASSUME NEW l \in Link, NEW n \in Members(l), Serve(n, l) \/ IntervalOver(n, l)
      PROVE  BInv'
  <2>1. n \in Node
    BY <1>1, LinkFacts, NodeAssumption DEF Members, IInv, LinksOK, LinkState
  <2>2. CASE Handle(n, l)
    BY <1>1, <2>1, <2>2, HandleOnward
  <2>3. CASE Start(n, l) \/ NodeSyncTask(n, l) \/ OnDisconnect(n, l) \/ IntervalOver(n, l)
    <3>1. Ordinary /\ \A m \in AppMsg : Unmoved(m)
      BY <1>1, <2>1, <2>3, StartQuiet, NodeSyncTaskQuiet, OnDisconnectQuiet, IntervalOverQuiet
    <3>2. QED BY <1>1, <3>1, QuietOK
  <2>4. QED BY <1>2, <2>2, <2>3 DEF Serve
<1>3. ASSUME NEW n \in Node, DroppedConnectionTask(n) \/ NewConnectionTask(n)
      PROVE  BInv'
  BY <1>1, <1>3, DroppedConnectionTaskQuiet, NewConnectionTaskQuiet, QuietOK
<1>4. ASSUME NEW m \in AppMsg, SendSingle(m) \/ SendBroadcast(m)
      PROVE  BInv'
  BY <1>1, <1>4, SendSingleQuiet, QuietOK, SendBroadcastOnward
<1>5. ASSUME NEW n \in Node, ScanComplete(n) \/ Reconfigure(n)
      PROVE  BInv'
  BY <1>1, <1>5, ScanCompleteQuiet, ReconfigureQuiet, QuietOK
<1>6. ASSUME NEW n \in Node, NEW m \in aps[n], AssociationFails(n, m)
      PROVE  BInv'
  <2>1. m \in Node
    BY <1>1 DEF IInv, StationsOK
  <2>2. QED BY <1>1, <1>6, <2>1, AssociationFailsQuiet, QuietOK
<1>7. ASSUME NEW n \in Node, NEW m \in aps[n], NEW l \in Link, ConnectToAP(n, m, l)
      PROVE  BInv'
  BY <1>1, <1>7, ConnectToAPOnward, TreesStay
<1>8. ASSUME NEW l \in Link, Accept(l)
      PROVE  BInv'
  BY <1>1, <1>8, AcceptOnward, TreesStay
<1>9. ASSUME NEW l \in Link, LinkLost(l)
      PROVE  BInv'
  BY <1>1, <1>9, LinkLostQuiet, QuietOK
<1>10. CASE UNCHANGED vars
  <2>1. /\ link' = link /\ chan' = chan /\ wifi' = wifi /\ aps' = aps /\ conns' = conns
        /\ UNCHANGED appVars
    BY <1>10 DEF vars, netVars, wifiVars
  <2>2. Ordinary /\ \A m \in AppMsg : Unmoved(m)
    BY <1>1, <2>1, EndsStay, SameChannels, SameApps DEF Ordinary
  <2>3. QED BY <1>1, <2>2, QuietOK
<1>11. CASE Next
  BY <1>2, <1>3, <1>4, <1>5, <1>6, <1>7, <1>8, <1>9, <1>11 DEF Next
<1>12. QED BY <1>10, <1>11

\* In a mesh of finitely many nodes a broadcast goes along a tree of
\* connections, and ahead of the nodes it has been to, as long as no link has
\* broken and those opened make no cycle, whichever access points the stations
\* see and choose (broadcastMessage, handleMessage).
THEOREM MeshBroadcastTrees ==
  ASSUME IsFiniteSet(Node)
  PROVE  Spec => []BInv
<1>1. Init => BInv
  BY InitTree
<1>2. BInv /\ [Next]_vars => BInv'
  BY NextTree
<1>3. QED BY <1>1, <1>2, PTL DEF Spec

\* There a broadcast does not come back to the node that sent it and is given
\* to no node twice, although a connection that has no name yet is not told
\* from any other when the one it came from is left out, and although nodes go
\* on connecting to each other while it is on its way.
THEOREM MeshBroadcastOnce ==
  ASSUME IsFiniteSet(Node)
  PROVE  Spec => []BroadcastOnce
<1>1. BInv => BroadcastOnce
  <2>1. ASSUME BInv, ~Broken, Forest, NEW m \in AppMsg, m.type = "BROADCAST"
        PROVE  got[m.from][m] = 0 /\ \A n \in Node : got[n][m] <= 1
    BY <2>1 DEF BInv, Tree, Counted, IsBroadcast
  <2>2. QED BY <2>1 DEF BroadcastOnce, NoEcho
<1>2. Spec => []BInv
  BY MeshBroadcastTrees
<1>3. QED BY <1>1, <1>2, PTL
=============================================================================
