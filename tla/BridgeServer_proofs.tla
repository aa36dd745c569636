------------------------- MODULE BridgeServer_proofs ------------------------
(***************************************************************************)
(* Proofs about the bridge servers: their types, that what they take for a *)
(* message is whole, that the list of nodes holds nobody twice, and that   *)
(* the node is given a name by the first string it receives.               *)
(*                                                                         *)
(* The invariant says what the properties only use: the unread bytes of    *)
(* every connection are whole messages but for the front of the first, and *)
(* until the node has its first string, the answer to its NODE_SYNC is the *)
(* next thing the server sends.                                            *)
(***************************************************************************)
EXTENDS BridgeServerProps, SequenceTheorems, FiniteSetTheorems, TLAPS

Types == {"NODE_SYNC_REQUEST", "NODE_SYNC_REPLY", "TIME_SYNC", "BROADCAST"}
Sends == [what : {"NODE_SYNC_REPLY", "NODE_SYNC_REQUEST", "TIME_SYNC", "BROADCAST",
                  "REGISTRATION", "undefined"},
          nul : {"none", "one", "spaced"}]

\* What the server has not read of a connection: after each character comes
\* the next of its message or the first of another, and none breaks off.
Chars == {c \in Messages \X (1..6) : c[2] <= Len(Text(c[1]))}
Ends(c) == c[2] = Len(Text(c[1]))
Follows(d, c) == IF Ends(c) THEN d[2] = 1 ELSE d = <<c[1], c[2] + 1>>
Stream(s) ==
  /\ s \in Seq(Chars)
  /\ \A i \in 1..(Len(s) - 1) : Follows(s[i + 1], s[i])
  /\ s # <<>> => Ends(s[Len(s)])
Streams == Stream(sock) /\ backlog \in Seq(Seq(Chars)) /\ \A i \in DOMAIN backlog : Stream(backlog[i])

\* Where the programs are.
Running ==
  /\ writes \subseteq Messages
  /\ todo \in Seq(Sends) /\ (pc # "send" => todo = <<>>)
  /\ pc = "accept" => state = "none"
  /\ kind = "mp" /\ pc # "ended" => rounds < Rounds
  /\ pc = "ended" => rounds <= Rounds
  /\ \E steps \in Nat : recv_Size = FirstSize + steps * Step

\* What the server has taken, and what the node has heard of it.
Used ==
  /\ first \in Types \cup {"fragment", Nothing}
  /\ pc = "send" => first # Nothing
  /\ parsed \in Types \cup {"fragment", Nothing}
Unheard == heard = Nothing /\ string = Nothing
Naming(sends) == sends # <<>> /\ IsSync(sends[1].what) /\ sends[1].nul # "none"
Named ==
  /\ open = "backlog" => Unheard
  /\ state = "up" /\ first = Nothing => Unheard
  /\ state = "up" /\ first = SyncRequest.type =>
       (Unheard /\ pc = "send" /\ Naming(todo)) \/ IsSync(string)

IInv == TypeOK /\ ListOnce /\ Streams /\ Running /\ Used /\ Named

-----------------------------------------------------------------------------
(* Messages and their characters.                                          *)

\* What a message of the node is.
LEMMA MessageFacts ==
  ASSUME NEW m \in Messages
  PROVE  m.type \in Types /\ m.from \in {Near} \cup Far
BY DEF Messages, Broadcasts, SyncRequest, SyncReply, Time, Message, Types

\* Its text is one object, or an object with another inside.
LEMMA TextLength ==
  ASSUME NEW m \in Messages
  PROVE  /\ Len(Text(m)) \in Nat /\ 4 <= Len(Text(m)) /\ Len(Text(m)) <= 6
         /\ m.type # "TIME_SYNC" => Len(Text(m)) = 4
         /\ DOMAIN Text(m) = 1..Len(Text(m))
<1>1. CASE m.type = "TIME_SYNC"
  <2>1. Text(m) = <<"{", "-", "{", "}", "}", "0">>
    BY <1>1 DEF Text
  <2>2. Len(<<"{", "-", "{", "}", "}", "0">>) = 6 /\ DOMAIN <<"{", "-", "{", "}", "}", "0">> = 1..6
    OBVIOUS
  <2>3. Len(Text(m)) = 6 /\ DOMAIN Text(m) = 1..6
    BY <2>1, <2>2
  <2>4. DOMAIN Text(m) = 1..Len(Text(m))
    BY <2>3
  <2>5. Len(Text(m)) \in Nat /\ 4 <= Len(Text(m)) /\ Len(Text(m)) <= 6
    BY <2>3
  <2>6. QED BY <1>1, <2>3, <2>4, <2>5
<1>2. CASE m.type # "TIME_SYNC"
  <2>1. Text(m) = <<"{", "-", "}", "0">>
    BY <1>2 DEF Text
  <2>2. Len(<<"{", "-", "}", "0">>) = 4 /\ DOMAIN <<"{", "-", "}", "0">> = 1..4
    OBVIOUS
  <2>3. Len(Text(m)) = 4 /\ DOMAIN Text(m) = 1..4
    BY <2>1, <2>2
  <2>4. DOMAIN Text(m) = 1..Len(Text(m))
    BY <2>3
  <2>5. Len(Text(m)) \in Nat /\ 4 <= Len(Text(m)) /\ Len(Text(m)) <= 6
    BY <2>3
  <2>6. QED BY <1>2, <2>3, <2>4, <2>5
<1>3. QED BY <1>1, <1>2

\* What it begins with.
LEMMA TextBegins ==
  ASSUME NEW m \in Messages
  PROVE  /\ Text(m)[1] = "{" /\ Text(m)[2] = "-"
         /\ m.type = "TIME_SYNC" => Text(m)[3] = "{" /\ Text(m)[4] = "}"
BY DEF Text

\* The node writes a message from its first character to its last.
LEMMA WrittenWhole ==
  ASSUME NEW m \in Messages
  PROVE  /\ Characters(m) \in Seq(Chars) /\ Len(Characters(m)) = Len(Text(m))
         /\ \A i \in 1..Len(Text(m)) : Characters(m)[i] = <<m, i>>
         /\ Stream(Characters(m))
<1>1. Len(Text(m)) \in Nat /\ 4 <= Len(Text(m)) /\ Len(Text(m)) <= 6 /\ DOMAIN Text(m) = 1..Len(Text(m))
  BY TextLength
<1>2. Characters(m) = [i \in 1..Len(Text(m)) |-> <<m, i>>]
  BY <1>1 DEF Characters
<1>3. \A i \in 1..Len(Text(m)) : <<m, i>> \in Chars /\ <<m, i>>[1] = m /\ <<m, i>>[2] = i
  BY <1>1 DEF Chars
<1>4. Characters(m) \in Seq(Chars) /\ Len(Characters(m)) = Len(Text(m))
  BY <1>1, <1>2, <1>3
<1>5. \A i \in 1..Len(Text(m)) : Characters(m)[i] = <<m, i>>
  BY <1>2
<1>6. \A i \in 1..(Len(Text(m)) - 1) : Follows(Characters(m)[i + 1], Characters(m)[i])
  BY <1>1, <1>3, <1>5 DEF Follows, Ends
<1>7. Ends(Characters(m)[Len(Text(m))])
  BY <1>1, <1>3, <1>5 DEF Ends
<1>8. QED BY <1>4, <1>5, <1>6, <1>7 DEF Stream

\* Nothing is a stream.
LEMMA StreamEmpty == Stream(<<>>)
BY DEF Stream

\* A message goes behind what is unread.
LEMMA StreamGrows ==
  ASSUME NEW s, Stream(s), NEW m \in Messages
  PROVE  Stream(s \o Characters(m))
<1>1. PICK t : t = Characters(m)
  OBVIOUS
<1>2. /\ t \in Seq(Chars) /\ 4 <= Len(t) /\ Stream(t) /\ t[1][2] = 1
  BY <1>1, WrittenWhole, TextLength
<1>3. PICK u : u = s \o t
  OBVIOUS
<1>4. /\ s \in Seq(Chars) /\ u \in Seq(Chars) /\ Len(u) = Len(s) + Len(t)
      /\ \A i \in 1..Len(s) : u[i] = s[i]
      /\ \A i \in 1..Len(t) : u[Len(s) + i] = t[i]
  BY <1>2, <1>3 DEF Stream
<1>5. Len(s) \in Nat /\ Len(t) \in Nat /\ Len(t) >= 4
  BY <1>2, <1>4
<1>6. ASSUME NEW i \in 1..(Len(u) - 1) PROVE Follows(u[i + 1], u[i])
  <2>1. CASE i < Len(s)
    <3>1. i \in 1..(Len(s) - 1) /\ i + 1 \in 1..Len(s) /\ i \in 1..Len(s)
      BY <1>4, <1>5, <2>1
    <3>2. u[i] = s[i] /\ u[i + 1] = s[i + 1]
      BY <1>4, <3>1
    <3>3. QED BY <3>1, <3>2 DEF Stream
  <2>2. CASE i = Len(s)
    <3>1. u[i] = s[Len(s)] /\ u[i + 1] = t[1] /\ s # <<>>
      <4>1. i \in 1..Len(s) /\ 1 \in 1..Len(t)
        BY <1>5, <2>2
      <4>2. QED BY <1>4, <2>2, <4>1
    <3>2. QED BY <1>2, <3>1 DEF Stream, Follows
  <2>3. CASE i > Len(s)
    <3>1. PICK j \in 1..(Len(t) - 1) : i = Len(s) + j
      <4>1. i - Len(s) \in 1..(Len(t) - 1) /\ i = Len(s) + (i - Len(s))
        BY <1>4, <1>5, <2>3
      <4>2. QED BY <4>1
    <3>2. j \in 1..Len(t) /\ j + 1 \in 1..Len(t) /\ i + 1 = Len(s) + (j + 1)
      BY <1>5, <3>1
    <3>3. u[i] = t[j] /\ u[i + 1] = t[j + 1]
      BY <1>4, <3>1, <3>2
    <3>4. QED BY <1>2, <3>1, <3>3 DEF Stream
  <2>4. QED BY <1>4, <1>5, <2>1, <2>2, <2>3
<1>7. Ends(u[Len(u)])
  <2>1. Len(t) \in 1..Len(t) /\ t # <<>>
    BY <1>2, <1>5
  <2>2. u[Len(u)] = t[Len(t)]
    BY <1>4, <2>1
  <2>3. QED BY <1>2, <2>1, <2>2 DEF Stream
<1>8. QED BY <1>1, <1>3, <1>4, <1>6, <1>7 DEF Stream

\* What is left when the server has read some of it.
LEMMA StreamRest ==
  ASSUME NEW s, Stream(s), NEW n \in 0..Len(s)
  PROVE  Stream(SubSeq(s, n + 1, Len(s)))
<1>1. PICK u : u = SubSeq(s, n + 1, Len(s))
  OBVIOUS
<1>2. s \in Seq(Chars) /\ Len(s) \in Nat
  BY DEF Stream
<1>3. /\ u \in Seq(Chars) /\ Len(u) = Len(s) - n
      /\ \A i \in 1..Len(u) : u[i] = s[i + n]
  BY <1>1, <1>2
<1>4. ASSUME NEW i \in 1..(Len(u) - 1) PROVE Follows(u[i + 1], u[i])
  <2>1. i + n \in 1..(Len(s) - 1) /\ i \in 1..Len(u) /\ i + 1 \in 1..Len(u)
        /\ (i + 1) + n = (i + n) + 1
    BY <1>2, <1>3
  <2>2. u[i] = s[i + n] /\ u[i + 1] = s[(i + 1) + n]
    BY <1>3, <2>1
  <2>3. QED BY <2>1, <2>2 DEF Stream
<1>5. ASSUME u # <<>> PROVE Ends(u[Len(u)])
  <2>1. Len(u) \in 1..Len(u) /\ s # <<>> /\ Len(u) + n = Len(s)
    BY <1>2, <1>3, <1>5
  <2>2. QED BY <1>3, <2>1 DEF Stream
<1>6. QED BY <1>1, <1>3, <1>4, <1>5 DEF Stream

\* A string that begins with a message goes on with it.
LEMMA FrontIsMessage ==
  ASSUME NEW s, Stream(s), s # <<>>, s[1][2] = 1,
         NEW i \in 1..Len(s), i <= Len(Text(s[1][1]))
  PROVE  s[i] = <<s[1][1], i>> /\ s[1][1] \in Messages
<1>1. s \in Seq(Chars) /\ Len(s) \in Nat
  BY DEF Stream
<1>2. PICK m \in Messages : s[1] = <<m, 1>>
  BY <1>1 DEF Chars
<1>3. Len(Text(m)) \in Nat /\ 4 <= Len(Text(m)) /\ Len(Text(m)) <= 6 /\ s[1][1] = m
  BY <1>2, TextLength
<1>4. ASSUME NEW k \in 1..5, k + 1 <= Len(s), k + 1 <= Len(Text(m)), s[k] = <<m, k>>
      PROVE  s[k + 1] = <<m, k + 1>>
  <2>1. k \in 1..(Len(s) - 1)
    BY <1>1, <1>4
  <2>2. s[k][1] = m /\ s[k][2] = k /\ ~Ends(s[k])
    BY <1>3, <1>4 DEF Ends
  <2>3. QED BY <2>1, <2>2 DEF Stream, Follows
<1>5. i <= 6
  BY <1>3
<1>6. i >= 2 => s[2] = <<m, 2>>
  BY <1>1, <1>2, <1>3, <1>4
<1>7. i >= 3 => s[3] = <<m, 3>>
  BY <1>1, <1>3, <1>4, <1>6
<1>8. i >= 4 => s[4] = <<m, 4>>
  BY <1>1, <1>3, <1>4, <1>7
<1>9. i >= 5 => s[5] = <<m, 5>>
  BY <1>1, <1>3, <1>4, <1>8
<1>10. i >= 6 => s[6] = <<m, 6>>
  BY <1>1, <1>3, <1>4, <1>9
<1>11. QED BY <1>2, <1>3, <1>5, <1>6, <1>7, <1>8, <1>9, <1>10

-----------------------------------------------------------------------------
(* Braces.                                                                 *)

\* Places is the set of those that hold a brace.
LEMMA CountType ==
  ASSUME NEW chunk \in Seq(Chars), NEW char
  PROVE  Count(chunk, char) \in Nat /\ IsFiniteSet({i \in DOMAIN chunk : Char(chunk[i]) = char})
<1>1. IsFiniteSet(1..Len(chunk)) /\ DOMAIN chunk = 1..Len(chunk)
  BY FS_Interval
<1>2. IsFiniteSet({i \in DOMAIN chunk : Char(chunk[i]) = char})
  BY <1>1, FS_Subset
<1>3. QED BY <1>2, FS_CardinalityType DEF Count

\* The braces of a message that is not all there do not balance.
LEMMA PartIsOpen ==
  ASSUME NEW s, Stream(s), NEW n \in 1..Len(s), NEW chunk, chunk = SubSeq(s, 1, n),
         s[1][2] = 1, n < Len(Text(s[1][1])) - 1
  PROVE  Excess(chunk) # 0
<1> DEFINE m == s[1][1]
           opens == {i \in DOMAIN chunk : Char(chunk[i]) = "{"}
           closes == {i \in DOMAIN chunk : Char(chunk[i]) = "}"}
<1>1. s \in Seq(Chars) /\ Len(s) \in Nat /\ s # <<>> /\ 1 \in 1..Len(s)
  BY DEF Stream
<1>2. m \in Messages
  <2>1. s[1] \in Chars
    BY <1>1
  <2>2. QED BY <2>1 DEF Chars
<1>3. Len(Text(m)) \in Nat /\ 4 <= Len(Text(m)) /\ Len(Text(m)) <= 6
        /\ n \in Nat /\ n <= 4 /\ (n > 2 => m.type = "TIME_SYNC")
  <2>1. PICK l : l = Len(Text(m))
    OBVIOUS
  <2>2. l \in Nat /\ 4 <= l /\ l <= 6 /\ (m.type # "TIME_SYNC" => l = 4) /\ n < l - 1
    BY <1>2, <2>1, TextLength
  <2>3. n \in Nat
    BY <1>1
  <2>4. n <= 4 /\ (n > 2 => l # 4)
    BY <2>2, <2>3
  <2>5. QED BY <2>1, <2>2, <2>3, <2>4
<1>4. chunk \in Seq(Chars) /\ Len(chunk) = n /\ \A i \in 1..n : chunk[i] = s[i]
  BY <1>1
<1>5. \A i \in 1..n : i <= Len(Text(m)) /\ i \in 1..Len(s) /\ s[i] = <<m, i>>
  BY <1>1, <1>3, FrontIsMessage
<1>6. \A i \in 1..n : Char(chunk[i]) = Text(m)[i]
  BY <1>4, <1>5 DEF Char
<1>7. DOMAIN chunk = 1..n
  BY <1>4
<1>8. IsFiniteSet(opens) /\ IsFiniteSet(closes) /\ Excess(chunk) = Cardinality(opens) - Cardinality(closes)
  BY <1>4, CountType DEF Excess, Count
<1>9. CASE n < 4
  <2>1. closes = {}
    <3>1. \A i \in 1..n : i = 1 \/ i = 2 \/ i = 3
      BY <1>3, <1>9
    <3>2. 3 \in 1..n => n > 2
      BY <1>3
    <3>3. \A i \in 1..n : Text(m)[i] # "}"
      BY <1>2, <1>3, <3>1, <3>2, TextBegins
    <3>4. QED BY <1>6, <1>7, <3>3
  <2>2. 1 \in opens
    <3>1. 1 \in 1..n
      BY <1>3
    <3>2. QED BY <1>2, <1>6, <1>7, <3>1, TextBegins
  <2>3. Cardinality(closes) = 0 /\ Cardinality(opens) \in Nat /\ Cardinality(opens) # 0
    BY <1>8, <2>1, <2>2, FS_EmptySet, FS_CardinalityType
  <2> HIDE DEF opens, closes
  <2>4. QED BY <1>8, <2>3
<1>10. CASE n = 4
  <2>1. n > 2
    BY <1>10
  <2>2. Text(m)[1] = "{" /\ Text(m)[2] = "-" /\ Text(m)[3] = "{" /\ Text(m)[4] = "}"
    BY <1>2, <1>3, <2>1, TextBegins
  <2>3. closes = {4} /\ opens = {1, 3}
    <3>1. 1..4 = {1, 2, 3, 4}
      OBVIOUS
    <3>2. DOMAIN chunk = {1, 2, 3, 4}
      BY <1>7, <1>10, <3>1
    <3>3. \A i \in {1, 2, 3, 4} : Char(chunk[i]) = Text(m)[i]
      BY <1>6, <1>10, <3>1
    <3>4. QED BY <2>2, <3>2, <3>3
  <2>4. Cardinality({4}) = 1 /\ IsFiniteSet({1}) /\ Cardinality({1}) = 1
    BY FS_Singleton
  <2>5. {1, 3} = {1} \cup {3} /\ 3 \notin {1}
    OBVIOUS
  <2>6. Cardinality({1} \cup {3}) = Cardinality({1}) + 1
    BY <2>4, <2>5, FS_AddElement
  <2>7. Cardinality(opens) = Cardinality({1} \cup {3}) /\ Cardinality(closes) = 1
    BY <2>3, <2>4, <2>5
  <2> HIDE DEF opens, closes
  <2>8. QED BY <1>8, <2>4, <2>6, <2>7
<1>11. QED BY <1>3, <1>9, <1>10

\* What a server that reads a whole object takes it for.
LEMMA TakenWhole ==
  ASSUME NEW s, Stream(s), NEW n \in 1..Len(s), NEW chunk, chunk = SubSeq(s, 1, n)
  PROVE  /\ chunk \in Seq(Chars) /\ chunk[1] = s[1] /\ s[1][1] \in Messages
         /\ Excess(chunk) = 0 => Parse(chunk) \in Messages \cup {Fragment}
<1>1. s \in Seq(Chars) /\ Len(s) \in Nat /\ s # <<>> /\ 1 \in 1..Len(s) /\ 1 \in 1..n
  BY DEF Stream
<1>2. chunk \in Seq(Chars) /\ Len(chunk) = n /\ chunk[1] = s[1]
  BY <1>1
<1>3. s[1] \in Chars
  BY <1>1
<1>4. s[1][1] \in Messages
  BY <1>3 DEF Chars
<1>5. ASSUME Excess(chunk) = 0 PROVE Parse(chunk) \in Messages \cup {Fragment}
  <2>1. CASE s[1][2] # 1
    BY <1>2, <2>1 DEF Parse, Whole
  <2>2. CASE s[1][2] = 1
    <3>1. ~(n < Len(Text(s[1][1])) - 1)
      BY <1>5, <2>2, PartIsOpen
    <3>2. Len(Text(s[1][1])) \in Nat /\ n \in Nat
      BY <1>1, <1>4, TextLength
    <3>3. Len(chunk) >= Len(Text(chunk[1][1])) - 1
      BY <1>2, <3>1, <3>2
    <3>4. QED BY <1>2, <1>4, <2>2, <3>3 DEF Parse, Whole
  <2>3. QED BY <2>1, <2>2
<1>6. QED BY <1>2, <1>4, <1>5

\* recv_Size stays a number of steps above FirstSize.
LEMMA SizeSteps ==
  ASSUME NEW chunk \in Seq(Chars), recv_Size \in Nat,
         \E steps \in Nat : recv_Size = FirstSize + steps * Step
  PROVE  /\ Resized(chunk) \in Nat /\ Resized(chunk) >= FirstSize
         /\ \E steps \in Nat : Resized(chunk) = FirstSize + steps * Step
<1> DEFINE more == Abs(Excess(chunk))
           grown == recv_Size + Step * more
<1>1. Step \in Nat /\ Step > 0 /\ FirstSize \in Nat /\ recv_Size \in Nat
  BY SizeAssumption
<1>3. PICK k \in Nat : recv_Size = FirstSize + k * Step
  OBVIOUS
<1>4. more \in Nat
  <2>1. PICK opened, closed \in Nat : opened = Count(chunk, "{") /\ closed = Count(chunk, "}")
    BY CountType
  <2>2. PICK excess \in Int : excess = Excess(chunk)
    <3>1. Excess(chunk) = opened - closed
      BY <2>1 DEF Excess
    <3>2. opened - closed \in Int
      OBVIOUS
    <3>3. QED BY <3>1, <3>2
  <2>3. Abs(excess) \in Nat
    BY DEF Abs
  <2>4. QED BY <2>2, <2>3
<1> HIDE DEF more
<1>5. CASE Resized(chunk) = recv_Size - Step /\ recv_Size > FirstSize
  <2>1. k # 0
    <3>1. k = 0 => recv_Size = FirstSize
      BY <1>1, <1>3
    <3>2. QED BY <1>1, <1>5, <3>1
  <2>2. k - 1 \in Nat /\ (k - 1) * Step = k * Step - Step
    BY <1>1, <2>1
  <2>3. (k - 1) * Step \in Nat
    BY <1>1, <2>2
  <2>4. recv_Size - Step = FirstSize + (k - 1) * Step
    BY <1>1, <1>3, <2>2
  <2>5. recv_Size - Step \in Nat /\ recv_Size - Step >= FirstSize
    BY <1>1, <2>3, <2>4
  <2>6. QED BY <1>5, <2>2, <2>4, <2>5
<1>6. CASE Resized(chunk) = grown
  <2>1. grown = FirstSize + (k + more) * Step
    <3>1. (k + more) * Step = k * Step + Step * more
      BY <1>1, <1>4
    <3>2. k * Step \in Nat /\ Step * more \in Nat
      BY <1>1, <1>4
    <3>3. PICK a \in Nat, b \in Nat : a = k * Step /\ b = Step * more
      BY <3>2
    <3>4. grown = (FirstSize + a) + b /\ FirstSize + (k + more) * Step = FirstSize + (a + b)
      BY <1>3, <3>1, <3>3
    <3>5. FirstSize \in Nat /\ (FirstSize + a) + b = FirstSize + (a + b)
      BY <1>1
    <3>6. QED BY <3>4, <3>5
  <2>2. (k + more) * Step \in Nat /\ k + more \in Nat
    BY <1>1, <1>4
  <2>3. PICK j \in Nat, a \in Nat : j = k + more /\ a = j * Step
    BY <2>2
  <2>4. Resized(chunk) = FirstSize + j * Step /\ Resized(chunk) = FirstSize + a
    BY <2>1, <2>3, <1>6
  <2>5. FirstSize + a \in Nat /\ FirstSize + a >= FirstSize
    BY <1>1, <2>3
  <2>6. \E steps \in Nat : Resized(chunk) = FirstSize + steps * Step
    BY <2>3, <2>4
  <2>7. QED BY <2>4, <2>5, <2>6
<1>7. \/ Resized(chunk) = recv_Size - Step /\ recv_Size > FirstSize
      \/ Resized(chunk) = grown
  BY DEF Resized, more
<1> HIDE DEF grown
<1>8. QED BY <1>5, <1>6, <1>7

-----------------------------------------------------------------------------
(* The list of nodes.                                                      *)

Apart(list) == list \in Seq(Id) /\ \A i, j \in DOMAIN list : list[i] = list[j] => i = j

\* A node is entered where it is not.
LEMMA ListStaysApart ==
  ASSUME NEW list, Apart(list), NEW id \in Id
  PROVE  Apart(CheckList(list, id))
<1>1. list \in Seq(Id) /\ Len(list) \in Nat /\ DOMAIN list = 1..Len(list)
  BY DEF Apart
<1>2. CASE id \in ToSet(list)
  BY <1>2 DEF CheckList
<1>3. CASE id \notin ToSet(list)
  <2>1. PICK u : u = Append(list, id)
    OBVIOUS
  <2>2. /\ u \in Seq(Id) /\ Len(u) = Len(list) + 1 /\ DOMAIN u = 1..(Len(list) + 1)
        /\ \A i \in 1..Len(list) : u[i] = list[i]
        /\ u[Len(list) + 1] = id
    BY <1>1, <2>1
  <2>3. \A i \in 1..Len(list) : list[i] # id
    BY <1>1, <1>3 DEF ToSet
  <2>4. \A i \in 1..(Len(list) + 1) : i = Len(list) + 1 \/ i \in 1..Len(list)
    BY <1>1
  <2>5. ASSUME NEW i \in DOMAIN u, NEW j \in DOMAIN u, u[i] = u[j] PROVE i = j
    BY <1>1, <2>2, <2>3, <2>4, <2>5 DEF Apart
  <2>6. QED BY <1>3, <2>1, <2>2, <2>5 DEF CheckList, Apart
<1>4. QED BY <1>2, <1>3

\* It is then no longer than there are nodes.
LEMMA ListIsShort ==
  ASSUME NEW list, Apart(list)
  PROVE  Len(list) <= Cardinality(Id)
<1>1. list \in Seq(Id) /\ Len(list) \in Nat /\ DOMAIN list = 1..Len(list)
  BY DEF Apart
<1>2. IsFiniteSet(Id) /\ Cardinality(Id) \in Nat
  BY NodeAssumption, FS_AddElement, FS_Union, FS_Singleton, FS_CardinalityType DEF Id
<1>3. IsFiniteSet(1..Len(list)) /\ Cardinality(1..Len(list)) = Len(list)
  BY <1>1, FS_Interval, SMTT(20)
<1>4. list \in Injection(1..Len(list), Id)
  BY <1>1 DEF Injection, IsInjective, Apart
<1>5. QED BY <1>2, <1>3, <1>4, FS_Injection

-----------------------------------------------------------------------------
(* Every step keeps the invariant.                                         *)

\* The list is as the properties say.
LEMMA ListKept ==
  ASSUME NEW list, Apart(list)
  PROVE  /\ list \in Seq(Id) /\ Len(list) <= Cardinality(Id)
         /\ \A i, j \in DOMAIN list : list[i] = list[j] => i = j
BY ListIsShort DEF Apart

LEMMA ListApart == ASSUME IInv PROVE Apart(sub)
BY DEF IInv, TypeOK, ListOnce, Apart

\* server_node goes on: what becomes of the counter.
LEMMA GoesOn ==
  ASSUME IInv, pc \in {"recv", "send"}, Continue, kind' = kind
  PROVE  /\ rounds' \in 0..Rounds /\ pc' \in {"recv", "ended"}
         /\ kind' = "mp" /\ pc' # "ended" => rounds' < Rounds
<1>1. rounds \in Nat /\ Rounds \in Nat /\ (kind = "mp" => rounds < Rounds) /\ rounds <= Rounds
  BY BoundAssumption DEF IInv, TypeOK, Running
<1>2. CASE kind # "mp" /\ pc' = "recv" /\ rounds' = rounds
  BY <1>1, <1>2
<1>3. CASE kind = "mp" /\ RoundOver
  BY <1>1, <1>3 DEF RoundOver
<1>4. QED BY <1>2, <1>3 DEF Continue

\* The connection is given up, or the counter goes on.
LEMMA GivenUp ==
  ASSUME IInv, pc = "recv", NEW rest, Failed(rest), kind' = kind
  PROVE  /\ rounds' \in 0..Rounds /\ pc' \in {"accept", "recv", "ended"}
         /\ kind' = "mp" /\ pc' # "ended" => rounds' < Rounds
         /\ sock' \in {rest, <<>>}
         /\ state' \in {state, "none"} /\ (pc' = "accept" => state' = "none")
         /\ open' \in {open, "orphan"} /\ (open' = "sock") = (state' = "up")
         /\ open' = "sock" => open = "sock"
<1>1. CASE kind = "c" /\ SocketRestart /\ rounds' = rounds
  BY <1>1 DEF IInv, TypeOK, SocketRestart
<1>2. CASE kind = "mp" /\ RoundOver /\ sock' = rest /\ state' = state /\ open' = open
  <2>1. Continue
    BY <1>2 DEF Continue
  <2>2. /\ rounds' \in 0..Rounds /\ pc' \in {"recv", "ended"}
        /\ kind' = "mp" /\ pc' # "ended" => rounds' < Rounds
    BY <2>1, GoesOn
  <2>3. QED BY <1>2, <2>2 DEF IInv, TypeOK
<1>3. QED BY <1>1, <1>2 DEF Failed

\* What the answers are.
LEMMA AnswersTypes ==
  ASSUME NEW m \in Messages \cup {Fragment}
  PROVE  /\ Answers(m) \in Seq(Sends) /\ RegisterMP(sub, m) \in Seq(Sends)
         /\ SendBroadcastC \in Seq(Sends) /\ SendBroadcastMP \in Seq(Sends)
<1>1. /\ SendSetup("NODE_SYNC_REPLY") \in Seq(Sends) /\ SendSetup("NODE_SYNC_REQUEST") \in Seq(Sends)
      /\ SendTime(m) \in Seq(Sends) /\ SendMessage \in Seq(Sends)
      /\ <<Send("REGISTRATION", "none")>> \in Seq(Sends)
  <2>1. /\ Send("NODE_SYNC_REPLY", "spaced") \in Sends /\ Send("NODE_SYNC_REQUEST", "spaced") \in Sends
        /\ Send("TIME_SYNC", "none") \in Sends /\ Send("BROADCAST", "none") \in Sends
        /\ Send("REGISTRATION", "none") \in Sends
    BY DEF Send, Sends
  <2>2. <<>> \in Seq(Sends) /\ \A s \in Sends : <<s>> \in Seq(Sends)
    OBVIOUS
  <2>3. SendTime(m) \in {<<>>, <<Send("TIME_SYNC", "none")>>}
    BY DEF SendTime
  <2>4. QED BY <2>1, <2>2, <2>3 DEF SendSetup, SendMessage
<1>2. QED BY <1>1 DEF Answers, RegisterMP, SendBroadcastC, SendBroadcastMP

\* What the server sends for a message begins with a name for the node if
\* the message is its NODE_SYNC.
LEMMA AnswersName ==
  ASSUME NEW m \in Messages \cup {Fragment}
  PROVE  /\ Answers(m) \o SendBroadcastC \in Seq(Sends)
         /\ RegisterMP(sub, m) \o Answers(m) \o SendBroadcastMP \in Seq(Sends)
         /\ Answers(m) \o SendBroadcastMP \in Seq(Sends)
         /\ m.type = SyncRequest.type =>
              /\ Naming(Answers(m) \o SendBroadcastC)
              /\ Naming(RegisterMP(sub, m) \o Answers(m) \o SendBroadcastMP)
<1>2. /\ Answers(m) \in Seq(Sends) /\ RegisterMP(sub, m) \in Seq(Sends)
      /\ SendBroadcastC \in Seq(Sends) /\ SendBroadcastMP \in Seq(Sends)
  BY AnswersTypes
<1>3. ASSUME m.type = SyncRequest.type PROVE Naming(Answers(m))
  <2>1. Answers(m) = SendSetup("NODE_SYNC_REPLY") \o SendSetup("NODE_SYNC_REQUEST")
    BY <1>3 DEF Answers, SyncRequest, Message
  <2>2. Naming(SendSetup("NODE_SYNC_REPLY") \o SendSetup("NODE_SYNC_REQUEST"))
    BY DEF SendSetup, Send, Naming, IsSync
  <2>3. QED BY <2>1, <2>2
<1>4. RegisterMP(sub, m) # <<>> => Naming(RegisterMP(sub, m))
  <2>1. Naming(SendSetup("NODE_SYNC_REQUEST") \o <<Send("REGISTRATION", "none")>>)
    BY DEF SendSetup, Send, Naming, IsSync
  <2>2. QED BY <2>1 DEF RegisterMP
<1>5. ASSUME NEW a \in Seq(Sends), NEW b \in Seq(Sends), Naming(a) PROVE Naming(a \o b)
  <2>1. Len(a) \in Nat /\ Len(a) # 0 /\ Len(b) \in Nat
    BY <1>5 DEF Naming
  <2>2. (a \o b)[1] = a[1] /\ Len(a \o b) = Len(a) + Len(b) /\ a \o b \in Seq(Sends)
    BY <2>1
  <2>3. a \o b # <<>>
    BY <2>1, <2>2
  <2>4. QED BY <1>5, <2>2, <2>3 DEF Naming
<1>6. PICK a, r, c, d \in Seq(Sends) :
        a = Answers(m) /\ r = RegisterMP(sub, m) /\ c = SendBroadcastC /\ d = SendBroadcastMP
  BY <1>2
<1>7. a \o c \in Seq(Sends) /\ r \o a \in Seq(Sends) /\ (r \o a) \o d \in Seq(Sends) /\ a \o d \in Seq(Sends)
  OBVIOUS
<1>8. ASSUME m.type = SyncRequest.type
      PROVE  Naming(a \o c) /\ Naming((r \o a) \o d)
  <2>1. Naming(a) /\ (r # <<>> => Naming(r))
    BY <1>3, <1>4, <1>6, <1>8
  <2>2. r = <<>> => r \o a = a
    OBVIOUS
  <2>3. Naming(r \o a)
    BY <1>5, <2>1, <2>2
  <2>4. PICK e \in Seq(Sends) : e = r \o a
    BY <1>7
  <2>5. QED BY <1>5, <2>1, <2>3, <2>4
<1>9. QED BY <1>6, <1>7, <1>8

\* The server reads.
LEMMA ReadStep ==
  ASSUME IInv, NEW n \in DOMAIN sock, Read(n)
  PROVE  IInv'
<1> DEFINE chunk == SubSeq(sock, 1, n)
           rest == SubSeq(sock, n + 1, Len(sock))
           m == Parse(chunk)
<1>1. /\ pc = "recv" /\ kind # "js" /\ kind' = kind /\ writes' = writes /\ backlog' = backlog
      /\ sendBack' = sendBack /\ heard' = heard /\ named' = named /\ string' = string
      /\ faults' = faults
  BY DEF Read
<1>2. Stream(sock) /\ n \in 1..Len(sock)
  BY DEF IInv, Streams, Stream
<1>3. Stream(rest) /\ chunk \in Seq(Chars)
  <2>1. n \in 0..Len(sock)
    BY <1>2
  <2>2. QED BY <1>2, <2>1, StreamRest, TakenWhole
<1>4. todo = <<>> /\ todo \in Seq(Sends) /\ Apart(sub)
  BY <1>1, ListApart DEF IInv, Running
<1>5. /\ recv_Size \in Nat /\ Resized(chunk) \in Nat /\ Resized(chunk) >= FirstSize
      /\ \E steps \in Nat : recv_Size = FirstSize + steps * Step
      /\ \E steps \in Nat : Resized(chunk) = FirstSize + steps * Step
  <2>1. recv_Size \in Nat /\ \E steps \in Nat : recv_Size = FirstSize + steps * Step
    BY DEF IInv, TypeOK, Running
  <2>2. QED BY <1>3, <2>1, SizeSteps
<1>6. CASE /\ pc' = "overrun"
           /\ UNCHANGED <<sock, state, open, recv_Size, rounds, sub, todo, parsed, first>>
  <2>1. TypeOK' /\ ListOnce' /\ Streams'
    BY <1>1, <1>6 DEF IInv, TypeOK, ListOnce, Streams
  <2>2. Running'
    BY <1>1, <1>4, <1>6 DEF IInv, Running
  <2>3. Used' /\ Named'
    BY <1>1, <1>6 DEF IInv, Used, Named, Unheard
  <2>4. QED BY <2>1, <2>2, <2>3 DEF IInv
<1>7. CASE /\ Failed(rest) 
           /\ UNCHANGED <<recv_Size, sub, todo, parsed, first>>
  <2>1. /\ rounds' \in 0..Rounds /\ pc' \in {"accept", "recv", "ended"}
        /\ kind' = "mp" /\ pc' # "ended" => rounds' < Rounds
        /\ sock' \in {rest, <<>>}
        /\ state' \in {state, "none"} /\ (pc' = "accept" => state' = "none")
        /\ open' \in {open, "orphan"} /\ (open' = "sock") = (state' = "up")
        /\ open' = "sock" => open = "sock"
    BY <1>1, <1>7, GivenUp
  <2>2. TypeOK'
    BY <1>1, <1>7, <2>1 DEF IInv, TypeOK
  <2>3. ListOnce'
    BY <1>7 DEF IInv, ListOnce
  <2>4. Streams'
    BY <1>1, <1>3, <2>1, StreamEmpty DEF IInv, Streams
  <2>5. Running'
    BY <1>1, <1>4, <1>5, <1>7, <2>1 DEF IInv, Running
  <2>6. Used'
    BY <1>1, <1>7, <2>1 DEF IInv, Used
  <2>7. Named'
    BY <1>1, <1>7, <2>1 DEF IInv, TypeOK, Named, Unheard
  <2>8. QED BY <2>2, <2>3, <2>4, <2>5, <2>6, <2>7 DEF IInv
<1>8. CASE /\ recv_Size' = Resized(chunk) /\ sock' = rest
           /\ UNCHANGED <<pc, state, open, rounds, sub, todo, parsed, first>>
  <2>1. TypeOK'
    BY <1>1, <1>5, <1>8 DEF IInv, TypeOK
  <2>2. ListOnce'
    BY <1>8 DEF IInv, ListOnce
  <2>3. Streams'
    BY <1>1, <1>3, <1>8 DEF IInv, Streams
  <2>4. Running'
    BY <1>1, <1>5, <1>8 DEF IInv, Running
  <2>5. Used' /\ Named'
    BY <1>1, <1>8 DEF IInv, Used, Named, Unheard
  <2>6. QED BY <2>1, <2>2, <2>3, <2>4, <2>5 DEF IInv
<1>9. CASE /\ Continue /\ sock' = rest
           /\ UNCHANGED <<state, open, recv_Size, sub, todo, parsed, first>>
  <2>1. /\ rounds' \in 0..Rounds /\ pc' \in {"recv", "ended"}
        /\ kind' = "mp" /\ pc' # "ended" => rounds' < Rounds
    BY <1>1, <1>9, GoesOn
  <2>2. TypeOK'
    BY <1>1, <1>9, <2>1 DEF IInv, TypeOK
  <2>3. ListOnce'
    BY <1>9 DEF IInv, ListOnce
  <2>4. Streams'
    BY <1>1, <1>3, <1>9 DEF IInv, Streams
  <2>5. Running'
    BY <1>1, <1>4, <1>9, <2>1 DEF IInv, Running
  <2>6. Used' /\ Named'
    BY <1>1, <1>9, <2>1 DEF IInv, Used, Named, Unheard
  <2>7. QED BY <2>2, <2>3, <2>4, <2>5, <2>6 DEF IInv
<1>10. CASE /\ Balanced(chunk)
            /\ (kind = "c" /\ HandleC(m)) \/ (kind = "mp" /\ HandleMP(m))
            /\ Taken(m) /\ sock' = rest
            /\ UNCHANGED <<state, open, recv_Size, rounds>>
  <2>1. m \in Messages \cup {Fragment}
    BY <1>2, <1>10, TakenWhole DEF Balanced
  <2>2. m.type \in Types \cup {"fragment"} /\ (m.type = SyncRequest.type => m.from \in Id)
    <3>1. CASE m \in Messages
      BY <3>1, MessageFacts DEF Id
    <3>2. CASE m = Fragment
      BY <3>2 DEF Fragment, Message, SyncRequest
    <3>3. QED BY <2>1, <3>1, <3>2
  <2> HIDE DEF m
  <2>3. Apart(sub')
    <3>1. ASSUME m.from \in Id PROVE Int32(m.from) \in Id
      BY <3>1 DEF Int32, Id
    <3>2. ASSUME m.from \in Id PROVE Apart(ListAfterC(sub, m))
      <4>1. Apart(CheckList(sub, Int32(m.from)))
        BY <1>4, <3>1, <3>2, ListStaysApart
      <4>2. Apart(CheckList(CheckList(sub, Int32(m.from)), m.from))
        BY <3>2, <4>1, ListStaysApart
      <4>3. QED BY <4>1, <4>2 DEF ListAfterC
    <3>3. ASSUME m.from \in Id PROVE Apart(CheckList(sub, m.from))
      BY <1>4, <3>3, ListStaysApart
    <3>4. QED BY <1>4, <1>10, <3>2, <3>3 DEF HandleC, HandleMP
  <2>4. todo' \in Seq(Sends) /\ (m.type = SyncRequest.type => Naming(todo'))
    <3>1. <<>> \o Answers(m) \o SendBroadcastMP = Answers(m) \o SendBroadcastMP
      <4>1. Answers(m) \in Seq(Sends)
        BY AnswersTypes, <2>1
      <4>2. PICK a : a = Answers(m)
        OBVIOUS
      <4>3. <<>> \o a = a
        BY <4>1, <4>2
      <4>4. QED BY <4>2, <4>3
    <3>2. QED BY <1>10, <2>1, <2>2, <3>1, AnswersName DEF HandleC, HandleMP
  <2>5. pc' = "send" /\ parsed' = m.type /\ first' \in {first, m.type} /\ first' # Nothing
        /\ (first' = SyncRequest.type /\ first = Nothing => m.type = SyncRequest.type)
        /\ (first # Nothing => first' = first)
    BY <1>10, <2>2 DEF Taken, Types, Nothing
  <2>6. TypeOK'
    BY <1>1, <1>10, <2>3, <2>5, ListKept DEF IInv, TypeOK
  <2>7. ListOnce'
    BY <2>3, ListKept DEF ListOnce
  <2>8. Streams'
    BY <1>1, <1>3, <1>10 DEF IInv, Streams
  <2>9. Running'
    BY <1>1, <1>5, <1>10, <2>4, <2>5 DEF IInv, Running
  <2>10. Used'
    BY <1>1, <2>2, <2>5 DEF IInv, Used
  <2>11. Named'
    BY <1>1, <1>10, <2>4, <2>5 DEF IInv, TypeOK, Named, Unheard
  <2>12. QED BY <2>6, <2>7, <2>8, <2>9, <2>10, <2>11 DEF IInv
<1>11. QED BY <1>6, <1>7, <1>8, <1>9, <1>10 DEF Read

\* sockets.js reads.
LEMMA DataStep ==
  ASSUME IInv, NEW n \in DOMAIN sock, Data(n)
  PROVE  IInv'
<1> DEFINE chunk == SubSeq(sock, 1, n)
           m == chunk[1][1]
           answer == AnswerJS(m)
<1>1. /\ pc = "recv" /\ kind = "js" /\ kind' = kind /\ writes' = writes /\ backlog' = backlog
      /\ state' = state /\ open' = open /\ recv_Size' = recv_Size /\ rounds' = rounds /\ sub' = sub
      /\ heard' = heard /\ named' = named /\ string' = string /\ faults' = faults
      /\ sock' = SubSeq(sock, n + 1, Len(sock))
  BY DEF Data
<1>2. Stream(sock) /\ n \in 1..Len(sock) /\ n \in 0..Len(sock)
  <2>1. Stream(sock) /\ n \in 1..Len(sock) /\ Len(sock) \in Nat
    BY DEF IInv, Streams, Stream
  <2>2. QED BY <2>1
<1>3. Stream(sock') /\ m \in Messages
  BY <1>1, <1>2, StreamRest, TakenWhole
<1>4. todo = <<>>
  BY <1>1 DEF IInv, Running
<1>5. Streams' /\ ListOnce'
  BY <1>1, <1>3 DEF IInv, Streams, ListOnce
<1>6. CASE UNCHANGED <<pc, parsed, first, sendBack, todo>>
  <2>1. TypeOK'
    BY <1>1, <1>6 DEF IInv, TypeOK
  <2>2. Running' /\ Used' /\ Named'
    BY <1>1, <1>6 DEF IInv, Running, Used, Named, Unheard
  <2>3. QED BY <1>5, <2>1, <2>2 DEF IInv
<1>7. CASE /\ Taken(m) /\ sendBack' = answer.send
           /\ todo' = IF answer.send THEN <<Send(answer.what, "one"), Send("BROADCAST", "one")>>
                      ELSE <<>>
  <2>1. m.type \in Types
    BY <1>3, MessageFacts
  <2> HIDE DEF m
  <2>2. /\ answer.send \in BOOLEAN
        /\ answer.what \in {"NODE_SYNC_REPLY", "TIME_SYNC", "undefined"}
        /\ m.type = SyncRequest.type => answer.send /\ answer.what = "NODE_SYNC_REPLY"
    <3>1. sendBack \in BOOLEAN
      BY DEF IInv, TypeOK
    <3>2. CASE m.type = "NODE_SYNC_REQUEST"
      BY <3>2 DEF AnswerJS
    <3>3. CASE m.type # "NODE_SYNC_REQUEST"
      <4>1. m.type # SyncRequest.type
        BY <3>3 DEF SyncRequest, Message
      <4>2. answer \in {[what |-> "TIME_SYNC", send |-> TRUE], [what |-> "undefined", send |-> sendBack],
                        [what |-> "undefined", send |-> FALSE]}
        BY <3>3 DEF AnswerJS
      <4> HIDE DEF answer
      <4>3. answer.what \in {"TIME_SYNC", "undefined"}
        BY <4>2
      <4>4. answer.send = TRUE \/ answer.send = sendBack \/ answer.send = FALSE
        BY <4>2
      <4>5. answer.send \in BOOLEAN
        BY <3>1, <4>4, Zenon
      <4>6. QED BY <4>1, <4>3, <4>5
    <3>4. QED BY <3>2, <3>3
  <2> HIDE DEF answer
  <2>3. todo' \in Seq(Sends) /\ (m.type = SyncRequest.type => Naming(todo'))
    <3>1. Send(answer.what, "one") \in Sends /\ Send("BROADCAST", "one") \in Sends
      BY <2>2 DEF Send, Sends
    <3>2. PICK a, b \in Sends : a = Send(answer.what, "one") /\ b = Send("BROADCAST", "one")
      BY <3>1
    <3>3. <<a, b>> \in Seq(Sends) /\ <<>> \in Seq(Sends) /\ <<a, b>> # <<>> /\ <<a, b>>[1] = a
      OBVIOUS
    <3>4. m.type = SyncRequest.type => IsSync(a.what) /\ a.nul # "none"
      BY <2>2, <3>2 DEF Send, IsSync
    <3>5. todo' = <<a, b>> \/ (todo' = <<>> /\ m.type # SyncRequest.type)
      <4>1. CASE answer.send
        BY <1>7, <3>2, <4>1
      <4>2. CASE ~answer.send
        BY <1>7, <2>2, <4>2
      <4>3. QED BY <4>1, <4>2
    <3>6. PICK l : l = <<a, b>>
      OBVIOUS
    <3>7. l \in Seq(Sends) /\ l # <<>> /\ l[1] = a
      BY <3>3, <3>6
    <3>8. m.type = SyncRequest.type => Naming(l)
      BY <3>4, <3>7 DEF Naming
    <3>9. QED BY <3>3, <3>5, <3>6, <3>7, <3>8
  <2>4. pc' = "send" /\ parsed' = m.type /\ first' \in {first, m.type} /\ first' # Nothing
        /\ (first' = SyncRequest.type /\ first = Nothing => m.type = SyncRequest.type)
        /\ (first # Nothing => first' = first)
    BY <1>7, <2>1 DEF Taken, Types, Nothing
  <2>5. TypeOK'
    BY <1>1, <1>7, <2>2, <2>4 DEF IInv, TypeOK
  <2>6. Running'
    BY <1>1, <2>3, <2>4 DEF IInv, Running
  <2>7. Used'
    BY <1>1, <2>1, <2>4 DEF IInv, Used
  <2>8. Named'
    BY <1>1, <2>3, <2>4 DEF IInv, TypeOK, Named, Unheard
  <2>9. QED BY <1>5, <2>5, <2>6, <2>7, <2>8 DEF IInv
<1>8. QED BY <1>6, <1>7 DEF Data

\* The server takes a connection.
LEMMA AcceptStep == ASSUME IInv, Accept PROVE IInv'
<1>1. /\ backlog # <<>> /\ sock' = Head(backlog) /\ backlog' = Tail(backlog)
      /\ pc' = "recv" /\ first' = Nothing
      /\ kind' = kind /\ writes' = writes /\ recv_Size' = recv_Size /\ rounds' = rounds
      /\ sub' = sub /\ todo' = todo /\ sendBack' = sendBack /\ heard' = heard
      /\ named' = named /\ string' = string /\ parsed' = parsed /\ faults' = faults
  BY DEF Accept
<1>2. /\ backlog \in Seq(Seq(Chars)) /\ Len(backlog) \in Nat /\ Len(backlog) > 0
      /\ Len(backlog) <= MaxBacklog /\ MaxBacklog \in Nat
  <2>1. backlog \in Seq(Seq(Chars)) /\ Len(backlog) \in Nat /\ Len(backlog) # 0
    BY <1>1 DEF IInv, Streams
  <2>2. Len(backlog) <= MaxBacklog /\ MaxBacklog \in Nat
    BY BoundAssumption DEF IInv, TypeOK
  <2>3. QED BY <2>1, <2>2
<1>3. /\ backlog' \in Seq(Seq(Chars)) /\ Len(backlog') = Len(backlog) - 1
      /\ \A i \in 1..Len(backlog') : backlog'[i] = backlog[i + 1]
      /\ DOMAIN backlog' = 1..Len(backlog') /\ DOMAIN backlog = 1..Len(backlog)
      /\ sock' = backlog[1]
  BY <1>1, <1>2
<1>4. open # "sock"
  BY DEF Accept, IInv, TypeOK, Running
<1>5. \/ Len(backlog) = 1 /\ open = "backlog" /\ state' = "up" /\ open' = "sock"
      \/ ~(Len(backlog) = 1 /\ open = "backlog") /\ state' = "down" /\ open' = open
  BY DEF Accept
<1>6. Len(backlog') <= MaxBacklog /\ (open' = "backlog" => backlog' # <<>>)
  <2>1. Len(backlog) - 1 <= MaxBacklog
    BY <1>2
  <2>2. open' = "backlog" => Len(backlog) # 1
    BY <1>5
  <2>3. open' = "backlog" => Len(backlog') # 0
    BY <1>2, <1>3, <2>2
  <2>4. QED BY <1>3, <2>1, <2>3
<1>7. todo = <<>> /\ (kind = "mp" => rounds < Rounds)
  BY DEF Accept, IInv, Running
<1>8. TypeOK'
  BY <1>1, <1>4, <1>5, <1>6 DEF IInv, TypeOK
<1>9. ListOnce'
  BY <1>1 DEF IInv, ListOnce
<1>10. Streams'
  <2>1. 1 \in DOMAIN backlog /\ \A i \in 1..Len(backlog') : i + 1 \in DOMAIN backlog
    BY <1>2, <1>3
  <2>2. QED BY <1>3, <2>1 DEF IInv, Streams
<1>11. Running'
  BY <1>1, <1>7 DEF IInv, Running
<1>12. Used'
  BY <1>1 DEF IInv, Used
<1>13. Named'
  BY <1>1, <1>5 DEF IInv, Named, Unheard, Nothing, SyncRequest, Message
<1>14. QED BY <1>8, <1>9, <1>10, <1>11, <1>12, <1>13 DEF IInv

\* Nothing comes, or the connection is at its end.
LEMMA TimeoutStep == ASSUME IInv, TimeoutRecv PROVE IInv'
<1>1. /\ pc = "recv" /\ sock = <<>> /\ Failed(<<>>)
      /\ kind' = kind /\ writes' = writes /\ backlog' = backlog /\ recv_Size' = recv_Size
      /\ sub' = sub /\ todo' = todo /\ sendBack' = sendBack /\ heard' = heard /\ named' = named
      /\ string' = string /\ parsed' = parsed /\ first' = first /\ faults' = faults
  BY DEF TimeoutRecv
<1>2. /\ rounds' \in 0..Rounds /\ pc' \in {"accept", "recv", "ended"}
      /\ kind' = "mp" /\ pc' # "ended" => rounds' < Rounds
      /\ sock' \in {<<>>}
      /\ state' \in {state, "none"} /\ (pc' = "accept" => state' = "none")
      /\ open' \in {open, "orphan"} /\ (open' = "sock") = (state' = "up")
      /\ open' = "sock" => open = "sock"
  <2>1. PICK rest : rest = <<>>
    OBVIOUS
  <2>2. QED BY <1>1, <2>1, GivenUp
<1>3. TypeOK'
  BY <1>1, <1>2 DEF IInv, TypeOK
<1>4. ListOnce' /\ Used'
  BY <1>1, <1>2 DEF IInv, ListOnce, Used
<1>5. Streams'
  BY <1>1, <1>2, StreamEmpty DEF IInv, Streams
<1>6. Running'
  BY <1>1, <1>2 DEF IInv, Running
<1>7. Named'
  BY <1>1, <1>2 DEF IInv, TypeOK, Named, Unheard
<1>8. QED BY <1>3, <1>4, <1>5, <1>6, <1>7 DEF IInv

\* The server sends.
LEMMA TransmitStep == ASSUME IInv, Transmit PROVE IInv'
<1>1. /\ pc = "send" /\ todo # <<>> /\ todo \in Seq(Sends)
      /\ kind' = kind /\ writes' = writes /\ backlog' = backlog /\ open' = open
      /\ recv_Size' = recv_Size /\ rounds' = rounds /\ sub' = sub /\ sendBack' = sendBack
      /\ parsed' = parsed /\ first' = first /\ faults' = faults
  BY DEF Transmit, IInv, Running
<1>2. /\ Tail(todo) \in Seq(Sends) /\ Head(todo) = todo[1] /\ Head(todo) \in Sends
      /\ <<>> \in Seq(Sends)
  BY <1>1
<1>3. ListOnce' /\ Stream(sock) /\ (open = "sock") = (state = "up")
  BY <1>1 DEF IInv, ListOnce, Streams, TypeOK
<1>4. CASE /\ state = "up" /\ Hears(Head(todo)) /\ todo' = Tail(todo)
           /\ UNCHANGED <<pc, sock, state>>
  <2> DEFINE m == Head(todo)
  <2>1. named' \in BOOLEAN
    <3>1. named \in BOOLEAN
      BY DEF IInv, TypeOK
    <3>2. CASE UNCHANGED <<named, string>>
      BY <3>1, <3>2
    <3>3. CASE StringEnds(Begins(m.what), Nothing) \/ StringEnds(Begins(m.what), Garbage)
      <4>1. named' = (named \/ IsSync(Begins(m.what)))
        BY <3>3 DEF StringEnds
      <4>2. IsSync(Begins(m.what)) \in BOOLEAN
        BY DEF IsSync
      <4>3. QED BY <3>1, <4>1, <4>2, Zenon
    <3>4. QED BY <1>4, <3>2, <3>3 DEF Hears
  <2>2. TypeOK'
    BY <1>1, <1>4, <2>1 DEF IInv, TypeOK
  <2>3. Streams' /\ Used'
    BY <1>1, <1>4 DEF IInv, Streams, Used
  <2>4. Running'
    BY <1>1, <1>2, <1>4 DEF IInv, Running
  <2>5. ASSUME IsSync(string) PROVE string' = string
    BY <1>4, <2>5 DEF Hears, StringEnds, IsSync, Nothing
  <2>6. ASSUME Unheard, Naming(todo) PROVE IsSync(string')
    <3>1. m.nul # "none" /\ IsSync(m.what) /\ Begins(m.what) = m.what
      BY <1>2, <2>6 DEF Unheard, Naming, Begins
    <3>2. StringEnds(m.what, Nothing) \/ StringEnds(m.what, Garbage)
      BY <1>4, <3>1 DEF Hears
    <3>3. string' = m.what
      BY <2>6, <3>2 DEF StringEnds, Unheard
    <3>4. QED BY <3>1, <3>3
  <2>7. Named'
    <3>1. first # Nothing /\ open' # "backlog"
      BY <1>1, <1>3, <1>4 DEF IInv, Used
    <3>2. ASSUME first = SyncRequest.type PROVE IsSync(string')
      <4>1. (Unheard /\ Naming(todo)) \/ IsSync(string)
        BY <1>4, <3>2 DEF IInv, Named
      <4>2. QED BY <2>5, <2>6, <4>1
    <3>3. first = SyncRequest.type => IsSync(string)'
      BY <3>2 DEF IsSync
    <3>4. QED BY <1>1, <3>1, <3>3 DEF Named
  <2>8. QED BY <1>3, <2>2, <2>3, <2>4, <2>7 DEF IInv
<1>5. CASE /\ state = "down" \/ state = "lost"
           /\ todo' = Tail(todo) /\ UNCHANGED <<pc, heard, named, string>>
           /\ IF state = "down" /\ kind # "js" THEN state' = "reset" /\ sock' = <<>>
              ELSE UNCHANGED <<state, sock>>
  <2>1. /\ sock' \in {sock, <<>>} /\ state' \in {"down", "lost", "reset"} /\ open # "sock"
    BY <1>3, <1>5
  <2>2. TypeOK'
    BY <1>1, <1>5, <2>1 DEF IInv, TypeOK
  <2>3. Streams'
    BY <1>1, <2>1, StreamEmpty DEF IInv, Streams
  <2>4. Running' /\ Used'
    BY <1>1, <1>2, <1>5 DEF IInv, Running, Used
  <2>5. Named'
    BY <1>1, <1>5, <2>1 DEF IInv, Named, Unheard
  <2>6. QED BY <1>3, <2>2, <2>3, <2>4, <2>5 DEF IInv
<1>6. CASE /\ state = "reset" /\ todo' = <<>> /\ pc' = "killed"
           /\ UNCHANGED <<sock, state, heard, named, string>>
  <2>1. TypeOK'
    BY <1>1, <1>6 DEF IInv, TypeOK
  <2>2. Streams' /\ Used'
    BY <1>1, <1>6 DEF IInv, Streams, Used
  <2>3. Running'
    BY <1>1, <1>2, <1>6 DEF IInv, Running
  <2>4. Named'
    BY <1>1, <1>6 DEF IInv, Named, Unheard
  <2>5. QED BY <1>3, <2>1, <2>2, <2>3, <2>4 DEF IInv
<1>7. QED BY <1>4, <1>5, <1>6 DEF Transmit

\* All has been sent.
LEMMA DoneStep == ASSUME IInv, Done PROVE IInv'
<1>1. /\ pc = "send" /\ todo = <<>> /\ Continue
      /\ kind' = kind /\ writes' = writes /\ sock' = sock /\ state' = state /\ backlog' = backlog
      /\ recv_Size' = recv_Size /\ sub' = sub /\ todo' = todo /\ sendBack' = sendBack
      /\ open' = open /\ heard' = heard /\ named' = named /\ string' = string
      /\ parsed' = parsed /\ first' = first /\ faults' = faults
  BY DEF Done, nodeVars, histVars
<1>2. /\ rounds' \in 0..Rounds /\ pc' \in {"recv", "ended"}
      /\ kind' = "mp" /\ pc' # "ended" => rounds' < Rounds
  BY <1>1, GoesOn
<1>3. TypeOK'
  BY <1>1, <1>2 DEF IInv, TypeOK
<1>4. ListOnce' /\ Streams' /\ Used'
  BY <1>1, <1>2 DEF IInv, ListOnce, Streams, Used
<1>5. Running'
  BY <1>1, <1>2 DEF IInv, Running
<1>6. Named'
  BY <1>1, <1>2 DEF IInv, Named, Unheard, Naming
<1>7. QED BY <1>3, <1>4, <1>5, <1>6 DEF IInv

\* The node connects, gives up, or is gone.
LEMMA ConnectionSteps ==
  ASSUME IInv, NodeConnects \/ NodeTimesOut \/ NodeLost
  PROVE  IInv'
<1>1. /\ kind' = kind /\ writes' = writes /\ pc' = pc /\ sock' = sock /\ recv_Size' = recv_Size
      /\ rounds' = rounds /\ sub' = sub /\ todo' = todo /\ sendBack' = sendBack
      /\ parsed' = parsed /\ first' = first
  BY DEF NodeConnects, NodeTimesOut, NodeLost, histVars
<1>2. ListOnce' /\ Used'
  BY <1>1 DEF IInv, ListOnce, Used
<1>3. CASE NodeConnects
  <2>1. /\ open = "no" /\ Len(backlog) < MaxBacklog /\ backlog' = Append(backlog, <<>>)
        /\ open' = "backlog" /\ Unheard' /\ named' = FALSE /\ faults' = faults /\ state' = state
    BY <1>3 DEF NodeConnects, Unheard
  <2>2. backlog \in Seq(Seq(Chars)) /\ Len(backlog) \in Nat
    BY DEF IInv, Streams
  <2>3. PICK none \in Seq(Chars) : none = <<>>
    <3>1. <<>> \in Seq(Chars)
      OBVIOUS
    <3>2. QED BY <3>1
  <2>4. /\ backlog' \in Seq(Seq(Chars)) /\ Len(backlog') = Len(backlog) + 1
        /\ \A i \in 1..Len(backlog) : backlog'[i] = backlog[i]
        /\ backlog'[Len(backlog) + 1] = <<>>
        /\ DOMAIN backlog = 1..Len(backlog) /\ DOMAIN backlog' = 1..(Len(backlog) + 1)
    BY <2>1, <2>2, <2>3
  <2>5. MaxBacklog \in Nat /\ Len(backlog') <= MaxBacklog /\ backlog' # <<>>
    <3>1. MaxBacklog \in Nat
      BY BoundAssumption
    <3>2. Len(backlog') # 0
      BY <2>2, <2>4
    <3>3. QED BY <2>1, <2>2, <2>4, <3>1, <3>2
  <2>6. TypeOK'
    BY <1>1, <2>1, <2>5 DEF IInv, TypeOK
  <2>7. Streams'
    <3>1. \A i \in 1..(Len(backlog) + 1) : i \in 1..Len(backlog) \/ i = Len(backlog) + 1
      BY <2>2
    <3>2. QED BY <1>1, <2>4, <3>1, StreamEmpty DEF IInv, Streams
  <2>8. Running'
    BY <1>1, <2>1 DEF IInv, Running
  <2>9. Named'
    BY <1>1, <2>1 DEF IInv, TypeOK, Named
  <2>10. QED BY <1>2, <2>6, <2>7, <2>8, <2>9 DEF IInv
<1>4. CASE NodeTimesOut \/ NodeLost
  <2>1. /\ backlog' = backlog /\ heard' = heard /\ named' = named /\ string' = string
        /\ open' = "no" /\ faults' \in 0..MaxFaults
        /\ IF open = "sock" THEN state' \in {"down", "lost"} ELSE state' = state
    <3>1. faults \in 0..MaxFaults /\ MaxFaults \in Nat
      BY BoundAssumption DEF IInv, TypeOK
    <3>2. QED BY <1>4, <3>1 DEF NodeTimesOut, NodeLost
  <2>2. TypeOK'
    BY <1>1, <2>1 DEF IInv, TypeOK
  <2>3. Streams'
    BY <1>1, <2>1 DEF IInv, Streams
  <2>4. Running'
    BY <1>1, <2>1 DEF IInv, Running, TypeOK
  <2>5. Named'
    BY <1>1, <2>1 DEF IInv, TypeOK, Named
  <2>6. QED BY <1>2, <2>2, <2>3, <2>4, <2>5 DEF IInv
<1>5. QED BY <1>3, <1>4

\* The node writes.
LEMMA WriteStep ==
  ASSUME IInv, NEW m \in Writes, NodeWrites(m)
  PROVE  IInv'
<1>1. /\ kind' = kind /\ writes' = writes /\ pc' = pc /\ state' = state /\ recv_Size' = recv_Size
      /\ rounds' = rounds /\ sub' = sub /\ todo' = todo /\ sendBack' = sendBack /\ open' = open
      /\ heard' = heard /\ named' = named /\ string' = string
      /\ parsed' = parsed /\ first' = first /\ faults' = faults
  BY DEF NodeWrites, nodeVars, histVars
<1>2. m \in Messages
  BY DEF Writes, IInv, Running
<1>3. Len(backlog') = Len(backlog) /\ (open = "backlog" => backlog' # <<>>) /\ Streams'
  <2>1. CASE sock' = sock \o Characters(m) /\ backlog' = backlog
    BY <1>2, <2>1, StreamGrows DEF IInv, Streams, TypeOK
  <2>2. CASE /\ open = "backlog" /\ sock' = sock
             /\ backlog' = [backlog EXCEPT ![Len(backlog)] = @ \o Characters(m)]
    <3>1. backlog \in Seq(Seq(Chars)) /\ backlog # <<>> /\ \A i \in DOMAIN backlog : Stream(backlog[i])
      BY <2>2 DEF IInv, Streams, TypeOK
    <3>2. Len(backlog) \in DOMAIN backlog
      BY <3>1
    <3>3. PICK u : u = backlog[Len(backlog)] \o Characters(m)
      OBVIOUS
    <3>4. Stream(u) /\ u \in Seq(Chars)
      BY <1>2, <3>1, <3>2, <3>3, StreamGrows DEF Stream
    <3>5. backlog' = [backlog EXCEPT ![Len(backlog)] = u]
      BY <2>2, <3>3
    <3>6. /\ backlog' \in Seq(Seq(Chars)) /\ Len(backlog') = Len(backlog)
          /\ DOMAIN backlog' = DOMAIN backlog
          /\ \A i \in DOMAIN backlog : backlog'[i] = IF i = Len(backlog) THEN u ELSE backlog[i]
      BY <3>1, <3>2, <3>4, <3>5
    <3>7. backlog' # <<>>
      BY <3>1, <3>6
    <3>8. QED BY <2>2, <3>1, <3>4, <3>6, <3>7 DEF IInv, Streams
  <2>3. QED BY <2>1, <2>2 DEF NodeWrites
<1>4. TypeOK'
  BY <1>1, <1>3 DEF IInv, TypeOK
<1>5. ListOnce' /\ Used'
  BY <1>1 DEF IInv, ListOnce, Used
<1>6. Running'
  BY <1>1 DEF IInv, Running
<1>7. Named'
  BY <1>1 DEF IInv, Named, Unheard
<1>8. QED BY <1>3, <1>4, <1>5, <1>6, <1>7 DEF IInv

-----------------------------------------------------------------------------
(* The theorems.                                                           *)

\* Every reachable state of a bridge server satisfies the invariant: what it
\* has not read is whole messages, it holds no node twice, and the node's
\* first string is its name (server_node, recive_message, checkList).
THEOREM BridgeCorrect == Spec => []IInv
<1>1. Init => IInv
  <2> SUFFICES ASSUME Init PROVE IInv
    OBVIOUS
  <2> USE DEF Init
  <2>1. TypeOK
    <3>1. /\ FirstSize \in Nat /\ FirstSize >= FirstSize /\ 0 \in 0..Rounds
          /\ 0 \in 0..MaxFaults /\ 0 <= MaxBacklog
      BY SizeAssumption, BoundAssumption
    <3>2. Len(backlog) = 0 /\ sub \in Seq(Id)
      OBVIOUS
    <3>3. QED BY <3>1, <3>2 DEF TypeOK
  <2>2. ListOnce
    <3>1. PICK list : list = <<>>
      OBVIOUS
    <3>2. Apart(list)
      BY <3>1 DEF Apart
    <3>3. QED BY <3>1, <3>2, ListKept DEF ListOnce
  <2>3. Streams
    BY StreamEmpty DEF Streams
  <2>4. Running
    <3>1. FirstSize = FirstSize + 0 * Step
      BY SizeAssumption
    <3>2. writes \subseteq Messages
      BY WriteAssumption
    <3>3. 0 < Rounds
      BY BoundAssumption
    <3>4. QED BY <3>1, <3>2, <3>3 DEF Running
  <2>5. Used /\ Named
    BY DEF Used, Named, Unheard, Nothing, SyncRequest, Message
  <2>6. QED BY <2>1, <2>2, <2>3, <2>4, <2>5 DEF IInv
<1>2. IInv /\ [Next]_vars => IInv'
  <2> SUFFICES ASSUME IInv, [Next]_vars PROVE IInv'
    OBVIOUS
  <2>1. CASE UNCHANGED vars
    BY <2>1 DEF vars, serverVars, nodeVars, histVars, IInv, TypeOK, ListOnce, Streams, Running,
                Used, Named, Unheard
  <2>2. CASE Server
    BY <2>2, AcceptStep, ReadStep, DataStep, TimeoutStep, TransmitStep, DoneStep DEF Server
  <2>3. CASE Node
    BY <2>3, ConnectionSteps, WriteStep DEF Node
  <2>4. QED BY <2>1, <2>2, <2>3 DEF Next
<1>3. QED BY <1>1, <1>2, PTL DEF Spec

\* Every reachable state is well typed, for every number of nodes and every
\* size: recv_Size never falls below where it starts (recive_message).
THEOREM BridgeTypes == Spec => []TypeOK
<1>1. IInv => TypeOK
  BY DEF IInv
<1>2. QED BY <1>1, BridgeCorrect, PTL

\* However the stream is cut, no server takes the beginning of a message for
\* a message (recive_message, getType).
THEOREM BridgeTakesWhole == Spec => []WholeOnly
<1>1. IInv => WholeOnly
  BY DEF IInv, Used, Types, WholeOnly, Truncated, Message, Nothing
<1>2. QED BY <1>1, BridgeCorrect, PTL

\* The list holds each node once, however often a connection is restarted
\* (checkList).
THEOREM BridgeListsOnce == Spec => []ListOnce
<1>1. IInv => ListOnce
  BY DEF IInv
<1>2. QED BY <1>1, BridgeCorrect, PTL

\* The answer to a NODE_SYNC is the first string the node has of the server
\* (send_setup, checkList of _testMPc-server.c, typeHandler).
THEOREM BridgeNamesFirst == Spec => []NamedFirst
<1>1. IInv => NamedFirst
  BY DEF IInv, Named, Unheard, NamedFirst
<1>2. QED BY <1>1, BridgeCorrect, PTL
=============================================================================
