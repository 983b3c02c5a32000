-------------------------- MODULE ZigbeeNet_proofs --------------------------
(***************************************************************************)
(* NetInv is an inductive invariant of ZigbeeNet: whatever is lost, merged *)
(* or overwritten on the radio, and however many answers the coordinator's *)
(* program runs together on the serial line, the fan obeys the commands in *)
(* their order, a sample is older than its round only by the answers that  *)
(* a command or a restart has left over, and the transfer thread waits in  *)
(* vain only for a query that was lost or overwritten; for every number of *)
(* commands, rounds, losses and restarts.                                  *)
(***************************************************************************)
EXTENDS ZigbeeNet, SequenceTheorems, FiniteSetTheorems, TLAPS

----------------------------------------------------------------------------
(* The inductive invariants behind the properties *)

CoordTemp == <<"coordinator", "temp">>
CoordFan == <<"coordinator", "fan">>
TempCoord == <<"temp", "coordinator">>

\* The events of the coordinator that are commands from the serial line, and what it
\* is going to broadcast for each.
Queue == events["coordinator"]
Serials == {i \in 1..Len(Queue) : Queue[i].kind = "serial"}
Voice(i) == Heard(Queue[i].chunk)

\* A message stands for something that was written or measured, of f commands, r
\* queries and a answers.
Stands(m, f, r, a) ==
    /\ m.kind = "fan" => m.n \in 1..f
    /\ m.kind = "query" => m.n \in 1..r
    /\ m.kind = "answer" => m.n \in 1..a
Known(m) == Stands(m, Len(fanSent), round, Len(answers))

CountsOK ==
    /\ Len(fanSent) + round + lost + restarts <= MaxEvents
    /\ fanLast <= Len(fanSent)
    /\ missed \subseteq 1..round
    /\ \A i \in 1..Len(answers) : answers[i].query \in 1..round

WireOK == \A i \in 1..Len(wire) : Known(wire[i])

\* The serial line interrupts the coordinator only.
QueueOK ==
    /\ \A i \in Serials : Queue[i].chunk # <<>> /\ Known(Voice(i))
    /\ \A n \in {"temp", "fan"} : \A i \in 1..Len(events[n]) : events[n][i].kind = "radio"

\* The temperature node sends answers, the coordinator the other messages.
AirOK ==
    \A l \in Link : \A i \in 1..Len(air[l]) :
        /\ Known(air[l][i])
        /\ air[l][i].kind \in IF l[1] = "temp" THEN {"answer"} ELSE {"fan", "query"}

BufferOK ==
    /\ \A n \in Node : Known(new_cmd[n])
    /\ new_cmd["temp"].kind # "answer"
    /\ \A i \in 1..Len(Queue) :
          Queue[i].kind = "radio" => new_cmd["coordinator"].kind = "answer"

BytesOK ==
    /\ \A i \in 1..Len(rx) : rx[i].answer \in 1..Len(answers)
    /\ \A i \in 1..7 : reading[i].answer \in 0..Len(answers)

\* Who can be sent what.
Messages == CountsOK /\ WireOK /\ QueueOK /\ AirOK /\ BufferOK /\ BytesOK

\* The newest command that the fan node can act upon.
Newest == IF new_cmd["fan"].kind = "fan" THEN new_cmd["fan"].n ELSE fanLast

\* The commands of the fan in a sequence of messages, and in the events of the
\* coordinator.
Fans(s) == {s[i].n : i \in {j \in 1..Len(s) : s[j].kind = "fan"}}
ChunkFans == {Voice(i).n : i \in {j \in Serials : Voice(j).kind = "fan"}}

Ordered(s) ==
    \A i, j \in 1..Len(s) :
        i < j /\ s[i].kind = "fan" /\ s[j].kind = "fan" => s[i].n < s[j].n
ChunksOrdered ==
    \A i, j \in Serials :
        i < j /\ Voice(i).kind = "fan" /\ Voice(j).kind = "fan" => Voice(i).n < Voice(j).n

Below(S, T) == \A x \in S, y \in T : x < y

\* The commands of the fan keep their order all the way.
FanOrder ==
    /\ fanLast <= Newest
    /\ Ordered(wire) /\ ChunksOrdered /\ Ordered(air[CoordFan])
    /\ Below({Newest}, Fans(air[CoordFan]) \cup ChunkFans \cup Fans(wire))
    /\ Below(Fans(air[CoordFan]), ChunkFans \cup Fans(wire))
    /\ Below(ChunkFans, Fans(wire))

\* Something is under way that leads to an answer for the transfer thread.
UnderWay ==
    \/ \E i \in 1..Len(wire) : wire[i] = Query(round)
    \/ \E i \in Serials : Voice(i) = Query(round)
    \/ \E i \in 1..Len(air[CoordTemp]) : air[CoordTemp][i] = Query(round)
    \/ new_cmd["temp"] = Query(round) /\ events["temp"] # <<>>
    \/ air[TempCoord] # <<>>
    \/ \E i \in 1..Len(Queue) : Queue[i].kind = "radio"
    \/ rx # <<>>

Pending == tpc = "asked" => UnderWay \/ round \in missed \/ lost > 0

\* The reads that n bytes are good for.
Blocks(n) == (n + answerLength - 1) \div answerLength

SerialUpTo(i) == Cardinality({j \in 1..i : Queue[j].kind = "serial"})
Radios == Len(Queue) - SerialUpTo(Len(Queue))

\* What is in front of the answers in the air, of the temperature node, of the chunks
\* and of the wire: each may become one answer.
AtCoordinator == Blocks(Len(rx)) + Radios
BeforeTemp == AtCoordinator + Len(air[TempCoord])
BeforeAir == BeforeTemp + Len(events["temp"])
BeforeChunks == BeforeAir + Len(air[CoordTemp])
BeforeWire == BeforeChunks + SerialUpTo(Len(Queue))

Slack == Len(fanSent) + restarts + IF tpc = "asked" THEN 1 ELSE 0

\* What is p answers ahead of the transfer thread's reads and stands for query q will not
\* be older than what is under way in excess accounts for.
Recent(q, p) == p + round <= q + Slack

BytesRecent ==
    \A i \in 1..Len(rx) : Recent(answers[rx[i].answer].query, Blocks(i))
BufferRecent ==
    Radios > 0 => Recent(answers[new_cmd["coordinator"].n].query, AtCoordinator)
AnswersRecent ==
    \A i \in 1..Len(air[TempCoord]) :
        Recent(answers[air[TempCoord][i].n].query, AtCoordinator + i)
AskedRecent ==
    events["temp"] # <<>> /\ new_cmd["temp"].kind = "query" =>
        Recent(new_cmd["temp"].n, BeforeAir)
AirRecent ==
    \A i \in 1..Len(air[CoordTemp]) :
        air[CoordTemp][i].kind = "query" => Recent(air[CoordTemp][i].n, BeforeAir + i)
ChunksRecent ==
    \A i \in Serials :
        Voice(i).kind = "query" => Recent(Voice(i).n, BeforeChunks + SerialUpTo(i))
WireRecent ==
    \A i \in 1..Len(wire) : wire[i].kind = "query" => Recent(wire[i].n, BeforeWire + i)

\* What is under way in excess of the query asked was brought about by a command of the
\* fan or a restart; what is read later is that much older at most.
Bounded ==
    /\ BeforeWire + Len(wire) <= Slack
    /\ BytesRecent /\ BufferRecent /\ AnswersRecent /\ AskedRecent
    /\ AirRecent /\ ChunksRecent /\ WireRecent

\* Where the answers begin in what is on the serial line.
Aligned ==
    /\ answerLength = 7 =>
          /\ Len(rx) % 7 = 0
          /\ \A i \in 1..Len(rx) : /\ rx[i].pos = ((i - 1) % 7) + 1
                                   /\ rx[i].answer = rx[i - ((i - 1) % 7)].answer
    /\ fanSent = <<>> /\ restarts = 0 /\ rx # <<>> =>
          /\ Len(rx) = answerLength
          /\ \A i \in 1..Len(rx) : rx[i].pos = i /\ rx[i].answer = rx[1].answer

NetInv ==
    /\ ZigbeeInv /\ Messages /\ FanOrder /\ Pending
    /\ Bounded /\ StaleBounded /\ Aligned

Event == [kind: {"radio", "serial"}, chunk: Seq(Command)]
AnswerByte == [answer: Nat, pos: 1..7]
Measurement == [query: 1..MaxEvents, tens: Tens]

-----------------------------------------------------------------------------
(* Sequences *)

LEMMA AppendS ==
    ASSUME NEW S, NEW s \in Seq(S), NEW e \in S, NEW t, t = Append(s, e)
    PROVE  /\ t \in Seq(S) /\ Len(s) \in Nat /\ Len(t) = Len(s) + 1 /\ t # <<>>
           /\ \A i \in 1..Len(s) : t[i] = s[i]
           /\ t[Len(s) + 1] = e
BY AppendProperties, LenProperties

LEMMA TailS ==
    ASSUME NEW S, NEW s \in Seq(S), s # <<>>, NEW t, t = Tail(s)
    PROVE  /\ t \in Seq(S) /\ Len(s) \in Nat /\ Len(s) >= 1 /\ Len(t) = Len(s) - 1
           /\ \A i \in 1..Len(t) : t[i] = s[i + 1]
           /\ Head(s) = s[1] /\ s[1] \in S
<1>1. Len(s) \in Nat \ {0}
  BY EmptySeq, LenProperties
<1> QED BY <1>1, HeadTailProperties, LenProperties

LEMMA CutS ==
    ASSUME NEW S, NEW s \in Seq(S), NEW k \in 0..Len(s),
           NEW t, t = SubSeq(s, k + 1, Len(s))
    PROVE  /\ t \in Seq(S) /\ Len(s) \in Nat /\ Len(t) = Len(s) - k
           /\ \A i \in 1..Len(t) : t[i] = s[i + k]
<1>1. Len(s) \in Nat /\ \A i \in 1..Len(s) : s[i] \in S
  BY LenProperties, ElementOfSeq
<1>2. \A i \in (k + 1)..Len(s) : s[i] \in S
  BY <1>1
<1>3. /\ t \in Seq(S)
      /\ Len(t) = IF k + 1 <= Len(s) THEN Len(s) - (k + 1) + 1 ELSE 0
      /\ \A i \in 1..(Len(s) - (k + 1) + 1) : t[i] = s[k + 1 + i - 1]
  BY <1>1, <1>2, SubSeqProperties
<1>4. Len(t) = Len(s) - k
  BY <1>1, <1>3
<1>5. ASSUME NEW i \in 1..Len(t) PROVE t[i] = s[i + k]
  <2>1. k + 1 + i - 1 = i + k /\ i \in 1..(Len(s) - (k + 1) + 1)
    BY <1>1, <1>4
  <2> QED BY <1>3, <2>1
<1> QED BY <1>1, <1>3, <1>4, <1>5

LEMMA EmptyS ==
    ASSUME NEW S, NEW s \in Seq(S)
    PROVE  Len(s) \in Nat /\ (s = <<>> <=> Len(s) = 0)
BY EmptySeq, LenProperties

LEMMA AnyS ==
    ASSUME NEW S, NEW s \in Seq(S)
    PROVE  Len(s) \in Nat /\ \A i \in 1..Len(s) : s[i] \in S
BY ElementOfSeq, LenProperties

-----------------------------------------------------------------------------
(* How many of the first i events of a queue came from the serial line *)

SerialSet(q, i) == {j \in 1..i : q[j].kind = "serial"}
SerialsIn(q, i) == Cardinality(SerialSet(q, i))

LEMMA SerialsType ==
    ASSUME NEW q, NEW i \in Nat
    PROVE  /\ IsFiniteSet(SerialSet(q, i))
           /\ SerialsIn(q, i) \in Nat /\ SerialsIn(q, i) <= i
<1>1. IsFiniteSet(1..i) /\ Cardinality(1..i) = i
  <2>1. 1 \in Int /\ i \in Int
    OBVIOUS
  <2>2. IsFiniteSet(1..i) /\ Cardinality(1..i) = IF 1 > i THEN 0 ELSE i - 1 + 1
    BY <2>1, FS_Interval
  <2> QED BY <2>2
<1>2. SerialSet(q, i) \in SUBSET (1..i)
  BY DEF SerialSet
<1>3. IsFiniteSet(SerialSet(q, i)) /\ Cardinality(SerialSet(q, i)) <= i
  BY <1>1, <1>2, FS_Subset
<1>4. Cardinality(SerialSet(q, i)) \in Nat
  BY <1>3, FS_CardinalityType
<1> QED BY <1>3, <1>4 DEF SerialsIn

LEMMA SerialsSame ==
    ASSUME NEW q, NEW r, NEW i \in Nat, \A j \in 1..i : q[j] = r[j]
    PROVE  SerialsIn(q, i) = SerialsIn(r, i)
<1>1. SerialSet(q, i) = SerialSet(r, i)
  BY DEF SerialSet
<1> QED BY <1>1 DEF SerialsIn

LEMMA SerialsNext ==
    ASSUME NEW q, NEW i \in Nat
    PROVE  SerialsIn(q, i + 1) = SerialsIn(q, i) + IF q[i + 1].kind = "serial" THEN 1 ELSE 0
<1>1. IsFiniteSet(SerialSet(q, i)) /\ SerialsIn(q, i) \in Nat
  BY SerialsType
<1>2. i + 1 \notin SerialSet(q, i)
  BY DEF SerialSet
<1>3. CASE q[i + 1].kind = "serial"
  <2>1. SerialSet(q, i + 1) = SerialSet(q, i) \cup {i + 1}
    BY <1>3 DEF SerialSet
  <2>2. Cardinality(SerialSet(q, i) \cup {i + 1}) = Cardinality(SerialSet(q, i)) + 1
    BY <1>1, <1>2, FS_AddElement
  <2> QED BY <1>3, <2>1, <2>2 DEF SerialsIn
<1>4. CASE q[i + 1].kind # "serial"
  <2>1. SerialSet(q, i + 1) = SerialSet(q, i)
    BY <1>4 DEF SerialSet
  <2>2. SerialsIn(q, i + 1) = SerialsIn(q, i)
    BY <2>1 DEF SerialsIn
  <2> QED BY <1>1, <1>4, <2>2
<1> QED BY <1>3, <1>4

LEMMA SerialsZero ==
    ASSUME NEW q
    PROVE  SerialsIn(q, 0) = 0
<1>1. SerialSet(q, 0) = {}
  BY DEF SerialSet
<1> QED BY <1>1, FS_EmptySet DEF SerialsIn

\* Later events have at least as many before them, a serial one more.
LEMMA SerialsUpwards ==
    ASSUME NEW q, NEW i \in Nat, NEW j \in Nat, i <= j
    PROVE  /\ SerialsIn(q, i) <= SerialsIn(q, j)
           /\ i < j /\ q[j].kind = "serial" => SerialsIn(q, i) + 1 <= SerialsIn(q, j)
           /\ SerialsIn(q, j) - SerialsIn(q, i) <= j - i
<1> DEFINE D == {n \in (i + 1)..j : q[n].kind = "serial"}
<1>1. /\ IsFiniteSet(SerialSet(q, i)) /\ SerialsIn(q, i) \in Nat
      /\ IsFiniteSet(SerialSet(q, j)) /\ SerialsIn(q, j) \in Nat
  BY SerialsType
<1>2. SerialSet(q, i) \in SUBSET SerialSet(q, j)
  BY DEF SerialSet
<1>3. Cardinality(SerialSet(q, i)) <= Cardinality(SerialSet(q, j))
  BY <1>1, <1>2, FS_Subset
<1>4. ASSUME i < j, q[j].kind = "serial"
      PROVE  Cardinality(SerialSet(q, i)) + 1 <= Cardinality(SerialSet(q, j))
  <2>1. SerialSet(q, i) \cup {j} \in SUBSET SerialSet(q, j) /\ j \notin SerialSet(q, i)
    BY <1>4 DEF SerialSet
  <2>2. /\ IsFiniteSet(SerialSet(q, i) \cup {j})
        /\ Cardinality(SerialSet(q, i) \cup {j}) = Cardinality(SerialSet(q, i)) + 1
    BY <1>1, <2>1, FS_AddElement
  <2>3. Cardinality(SerialSet(q, i) \cup {j}) <= Cardinality(SerialSet(q, j))
    BY <1>1, <2>1, FS_Subset
  <2> QED BY <2>2, <2>3
<1>5. SerialsIn(q, j) - SerialsIn(q, i) <= j - i
  <2>1. IsFiniteSet((i + 1)..j) /\ Cardinality((i + 1)..j) = j - i
    <3>1. i + 1 \in Int /\ j \in Int
      OBVIOUS
    <3>2. /\ IsFiniteSet((i + 1)..j)
          /\ Cardinality((i + 1)..j) = IF i + 1 > j THEN 0 ELSE j - (i + 1) + 1
      BY <3>1, FS_Interval
    <3>3. (IF i + 1 > j THEN 0 ELSE j - (i + 1) + 1) = j - i
      OBVIOUS
    <3> QED BY <3>2, <3>3
  <2>2. D \in SUBSET ((i + 1)..j)
    OBVIOUS
  <2>3. IsFiniteSet(D) /\ Cardinality(D) <= j - i
    <3> HIDE DEF D
    <3> QED BY <2>1, <2>2, FS_Subset
  <2>4. SerialSet(q, j) = SerialSet(q, i) \cup D /\ SerialSet(q, i) \cap D = {}
    BY DEF SerialSet
  <2> HIDE DEF D
  <2>5. Cardinality(SerialSet(q, i) \cup D) =
           Cardinality(SerialSet(q, i)) + Cardinality(D) - Cardinality(SerialSet(q, i) \cap D)
    BY <1>1, <2>3, FS_Union
  <2>6. Cardinality(SerialSet(q, i) \cap D) = 0 /\ Cardinality(D) \in Nat
    BY <2>3, <2>4, FS_EmptySet, FS_CardinalityType
  <2>7. SerialsIn(q, j) = SerialsIn(q, i) + Cardinality(D) - 0
    BY <2>4, <2>5, <2>6 DEF SerialsIn
  <2> QED BY <1>1, <2>3, <2>6, <2>7
<1> QED BY <1>3, <1>4, <1>5 DEF SerialsIn

LEMMA SerialsAppend ==
    ASSUME NEW q \in Seq(Event), NEW e \in Event, NEW r, r = Append(q, e)
    PROVE  /\ \A i \in 0..Len(q) : SerialsIn(r, i) = SerialsIn(q, i)
           /\ SerialsIn(r, Len(r)) =
                 SerialsIn(q, Len(q)) + IF e.kind = "serial" THEN 1 ELSE 0
<1>1. /\ Len(q) \in Nat /\ Len(r) = Len(q) + 1
      /\ \A i \in 1..Len(q) : r[i] = q[i]
      /\ r[Len(q) + 1] = e
  BY AppendS
<1>2. ASSUME NEW i \in 0..Len(q) PROVE SerialsIn(r, i) = SerialsIn(q, i)
  <2>1. i \in Nat /\ \A j \in 1..i : r[j] = q[j]
    BY <1>1
  <2> QED BY <2>1, SerialsSame
<1>3. SerialsIn(r, Len(q) + 1) = SerialsIn(r, Len(q)) + IF e.kind = "serial" THEN 1 ELSE 0
  BY <1>1, SerialsNext
<1>4. SerialsIn(r, Len(q)) = SerialsIn(q, Len(q))
  <2>1. Len(q) \in 0..Len(q)
    BY <1>1
  <2> QED BY <1>2, <2>1
<1> QED BY <1>1, <1>2, <1>3, <1>4

LEMMA SerialsTail ==
    ASSUME NEW q \in Seq(Event), q # <<>>, NEW r, r = Tail(q), NEW i \in 0..Len(r)
    PROVE  SerialsIn(r, i) = SerialsIn(q, i + 1) - IF q[1].kind = "serial" THEN 1 ELSE 0
<1>1. /\ Len(q) \in Nat /\ Len(r) = Len(q) - 1
      /\ \A j \in 1..Len(r) : r[j] = q[j + 1]
  BY TailS
<1> DEFINE Q == {j \in 2..(i + 1) : q[j].kind = "serial"}
<1>2. i \in Nat /\ i + 1 \in Nat /\ \A j \in 1..i : r[j] = q[j + 1]
  BY <1>1
<1>3. /\ IsFiniteSet(SerialSet(r, i)) /\ SerialsIn(r, i) \in Nat
      /\ IsFiniteSet(SerialSet(q, i + 1))
  BY <1>2, SerialsType
<1>4. Q \in SUBSET SerialSet(q, i + 1) /\ 1 \notin Q
  BY <1>2 DEF SerialSet
<1>5. IsFiniteSet(Q)
  <2> HIDE DEF Q
  <2> QED BY <1>3, <1>4, FS_Subset
<1>6. Cardinality(Q) = Cardinality(SerialSet(r, i))
  <2> DEFINE f == [j \in SerialSet(r, i) |-> j + 1]
  <2>1. \A j \in SerialSet(r, i) : j + 1 \in Q /\ j \in Nat
    BY <1>2 DEF SerialSet
  <2>2. \A j \in Q : j \in Nat /\ j - 1 \in SerialSet(r, i) /\ (j - 1) + 1 = j
    <3>1. ASSUME NEW j \in Q PROVE j \in Nat /\ j - 1 \in SerialSet(r, i) /\ (j - 1) + 1 = j
      <4>1. j \in Nat /\ j - 1 \in 1..i /\ (j - 1) + 1 = j
        BY <1>2
      <4>2. r[j - 1] = q[(j - 1) + 1]
        BY <1>2, <4>1
      <4> QED BY <4>1, <4>2 DEF SerialSet
    <3> QED BY <3>1
  <2> HIDE DEF Q
  <2>3. f \in [SerialSet(r, i) -> Q]
    BY <2>1
  <2>4. \A j \in Q : \E k \in SerialSet(r, i) : f[k] = j
    BY <2>2
  <2>5. \A j, k \in SerialSet(r, i) : f[j] = f[k] => j = k
    BY <2>1
  <2> HIDE DEF f
  <2>6. f \in Injection(SerialSet(r, i), Q)
    BY <2>3, <2>5 DEF Injection, IsInjective
  <2>7. f \in Surjection(SerialSet(r, i), Q)
    BY <2>3, <2>4 DEF Surjection
  <2>8. ExistsBijection(SerialSet(r, i), Q)
    BY <2>6, <2>7 DEF ExistsBijection, Bijection
  <2> QED BY <1>3, <2>8, FS_Bijection
<1> HIDE DEF Q
<1>7. CASE q[1].kind = "serial"
  <2>1. SerialSet(q, i + 1) = Q \cup {1}
    BY <1>2, <1>7 DEF SerialSet, Q
  <2>2. Cardinality(Q \cup {1}) = Cardinality(Q) + 1
    BY <1>4, <1>5, FS_AddElement
  <2>3. SerialsIn(q, i + 1) = SerialsIn(r, i) + 1
    BY <1>6, <2>1, <2>2 DEF SerialsIn
  <2> QED BY <1>3, <1>7, <2>3
<1>8. CASE q[1].kind # "serial"
  <2>1. SerialSet(q, i + 1) = Q
    BY <1>2, <1>8 DEF SerialSet, Q
  <2>2. SerialsIn(q, i + 1) = SerialsIn(r, i)
    BY <1>6, <2>1 DEF SerialsIn
  <2> QED BY <1>3, <1>8, <2>2
<1> QED BY <1>7, <1>8

-----------------------------------------------------------------------------
(* The operations on the queues *)

LEMMA Queued ==
    ASSUME TypeOK, NEW n \in Node, NEW e \in Event,
           events' = [events EXCEPT ![n] = Append(@, e)]
    PROVE  /\ DOMAIN events' = Node /\ \A m \in Node : events'[m] \in Seq(Event)
           /\ \A m \in Node \ {n} : events'[m] = events[m]
           /\ events[n] \in Seq(Event) /\ events'[n] = Append(events[n], e)
           /\ Len(events[n]) \in Nat /\ Len(events'[n]) = Len(events[n]) + 1
           /\ \A i \in 1..Len(events[n]) : events'[n][i] = events[n][i]
           /\ events'[n][Len(events[n]) + 1] = e
<1>1. DOMAIN events = Node /\ \A m \in Node : events[m] \in Seq(Event)
  BY DEF TypeOK, Event
<1>2. events'[n] = Append(events[n], e) /\ \A m \in Node \ {n} : events'[m] = events[m]
  BY <1>1
<1>3. PICK s : s = events[n] /\ s \in Seq(Event)
  BY <1>1
<1>4. PICK t : t = Append(s, e)
  OBVIOUS
<1>5. /\ t \in Seq(Event) /\ Len(s) \in Nat /\ Len(t) = Len(s) + 1
      /\ \A i \in 1..Len(s) : t[i] = s[i]
      /\ t[Len(s) + 1] = e
  BY <1>3, <1>4, AppendS
<1>6. DOMAIN events' = Node
  BY <1>1
<1> QED BY <1>1, <1>2, <1>3, <1>4, <1>5, <1>6

LEMMA Dropped ==
    ASSUME TypeOK, NEW n \in Node, events[n] # <<>>, events' = Drop(n)
    PROVE  /\ DOMAIN events' = Node /\ \A m \in Node : events'[m] \in Seq(Event)
           /\ \A m \in Node \ {n} : events'[m] = events[m]
           /\ events[n] \in Seq(Event) /\ events'[n] = Tail(events[n])
           /\ Len(events[n]) \in Nat /\ Len(events[n]) >= 1
           /\ Len(events'[n]) = Len(events[n]) - 1
           /\ \A i \in 1..Len(events'[n]) : events'[n][i] = events[n][i + 1]
           /\ Head(events[n]) = events[n][1] /\ events[n][1] \in Event
<1>1. DOMAIN events = Node /\ \A m \in Node : events[m] \in Seq(Event)
  BY DEF TypeOK, Event
<1>2. events'[n] = Tail(events[n]) /\ \A m \in Node \ {n} : events'[m] = events[m]
  BY <1>1 DEF Drop
<1>3. PICK s : s = events[n] /\ s \in Seq(Event)
  BY <1>1
<1>4. PICK t : t = Tail(s)
  OBVIOUS
<1>5. /\ t \in Seq(Event) /\ Len(s) \in Nat /\ Len(s) >= 1 /\ Len(t) = Len(s) - 1
      /\ \A i \in 1..Len(t) : t[i] = s[i + 1]
      /\ Head(s) = s[1] /\ s[1] \in Event
  BY <1>3, <1>4, TailS
<1>6. DOMAIN events' = Node
  BY <1>1 DEF Drop
<1> QED BY <1>1, <1>2, <1>3, <1>4, <1>5, <1>6

LEMMA Sent ==
    ASSUME TypeOK, NEW s, NEW m \in Message, air' = BroadcastFrom(s, m)
    PROVE  /\ air' \in [Link -> Seq(Message)]
           /\ \A l \in Link : l[1] # s => air'[l] = air[l]
           /\ \A l \in Link : l[1] = s =>
                 /\ Len(air[l]) \in Nat /\ Len(air'[l]) = Len(air[l]) + 1
                 /\ \A i \in 1..Len(air[l]) : air'[l][i] = air[l][i]
                 /\ air'[l][Len(air[l]) + 1] = m
<1>1. air \in [Link -> Seq(Message)]
  BY DEF TypeOK
<1>2. \A l \in Link : air'[l] = IF l[1] = s THEN Append(air[l], m) ELSE air[l]
  BY DEF BroadcastFrom
<1>3. ASSUME NEW l \in Link, l[1] = s
      PROVE  /\ Append(air[l], m) \in Seq(Message)
             /\ Len(air[l]) \in Nat /\ Len(air'[l]) = Len(air[l]) + 1
             /\ \A i \in 1..Len(air[l]) : air'[l][i] = air[l][i]
             /\ air'[l][Len(air[l]) + 1] = m
  <2>1. air[l] \in Seq(Message) /\ air'[l] = Append(air[l], m)
    BY <1>1, <1>2, <1>3
  <2> QED BY <2>1, AppendS
<1>4. air' \in [Link -> Seq(Message)]
  BY <1>1, <1>3 DEF BroadcastFrom
<1> QED BY <1>2, <1>3, <1>4

LEMMA Taken ==
    ASSUME TypeOK, NEW l \in Link, air[l] # <<>>, air' = [air EXCEPT ![l] = Tail(@)]
    PROVE  /\ air' \in [Link -> Seq(Message)]
           /\ \A k \in Link \ {l} : air'[k] = air[k]
           /\ Len(air[l]) \in Nat /\ Len(air[l]) >= 1 /\ Len(air'[l]) = Len(air[l]) - 1
           /\ \A i \in 1..Len(air'[l]) : air'[l][i] = air[l][i + 1]
           /\ Head(air[l]) = air[l][1] /\ air[l][1] \in Message
<1>1. air \in [Link -> Seq(Message)]
  BY DEF TypeOK
<1>2. air'[l] = Tail(air[l]) /\ \A k \in Link \ {l} : air'[k] = air[k]
  BY <1>1
<1>3. PICK s : s = air[l] /\ s \in Seq(Message)
  BY <1>1
<1>4. PICK t : t = Tail(s)
  OBVIOUS
<1>5. /\ t \in Seq(Message) /\ Len(s) \in Nat /\ Len(s) >= 1 /\ Len(t) = Len(s) - 1
      /\ \A i \in 1..Len(t) : t[i] = s[i + 1]
      /\ Head(s) = s[1] /\ s[1] \in Message
  BY <1>3, <1>4, TailS
<1>6. air' \in [Link -> Seq(Message)]
  <2>1. DOMAIN air' = Link /\ air' = [k \in Link |-> air'[k]]
    BY <1>1
  <2>2. \A k \in Link : air'[k] \in Seq(Message)
    BY <1>1, <1>2, <1>3, <1>4, <1>5
  <2> QED BY <2>1, <2>2
<1>7. s = air[l] /\ t = air'[l]
  BY <1>2, <1>3, <1>4
<1>8. \A k \in Link \ {l} : air'[k] = air[k]
  BY <1>2
<1> QED BY ONLY <1>5, <1>6, <1>7, <1>8

\* The bytes the coordinator writes.
LEMMA Written ==
    ASSUME TypeOK, NEW m \in Message, rx' = rx \o Bytes(m)
    PROVE  /\ rx' \in Seq(AnswerByte) /\ Len(rx) \in Nat /\ Len(rx') = Len(rx) + answerLength
           /\ \A i \in 1..Len(rx) : rx'[i] = rx[i]
           /\ \A i \in 1..answerLength : rx'[Len(rx) + i] = [answer |-> m.n, pos |-> i]
<1>1. rx \in Seq(AnswerByte) /\ answerLength \in {6, 7}
  BY ZigbeeAssumption DEF TypeOK, AnswerByte, ZigbeeAssumption
<1>2. m.n \in Nat
  BY DEF Message
<1>3. \A i \in 1..answerLength : [answer |-> m.n, pos |-> i] \in AnswerByte
  <2>1. \A i \in 1..answerLength : i \in 1..7
    BY <1>1
  <2> QED BY <1>2, <2>1 DEF AnswerByte
<1>4. PICK b : b = Bytes(m)
  OBVIOUS
<1>5. /\ b \in Seq(AnswerByte) /\ Len(b) = answerLength
      /\ \A i \in 1..answerLength : b[i] = [answer |-> m.n, pos |-> i]
  BY <1>1, <1>3, <1>4 DEF Bytes
<1>6. PICK r : r = rx \o b
  OBVIOUS
<1>7. /\ r \in Seq(AnswerByte)
      /\ Len(r) = Len(rx) + Len(b)
      /\ \A i \in 1 .. Len(rx) + Len(b) : r[i] = IF i <= Len(rx) THEN rx[i] ELSE b[i - Len(rx)]
  BY <1>1, <1>5, <1>6, ConcatProperties
<1>8. Len(rx) \in Nat
  BY <1>1, LenProperties
<1>9. ASSUME NEW i \in 1..answerLength PROVE r[Len(rx) + i] = b[i]
  <2>1. Len(rx) + i \in 1..(Len(rx) + Len(b)) /\ ~(Len(rx) + i <= Len(rx))
        /\ (Len(rx) + i) - Len(rx) = i
    BY <1>1, <1>5, <1>8
  <2> QED BY <1>7, <2>1
<1>10. \A i \in 1..Len(rx) : r[i] = rx[i]
  BY <1>1, <1>5, <1>7, <1>8
<1> QED BY <1>4, <1>5, <1>6, <1>7, <1>8, <1>9, <1>10

\* The chunk that the callback takes from the serial line.
LEMMA Chunk ==
    ASSUME TypeOK, NEW k \in 1..Len(wire)
    PROVE  LET c == SubSeq(wire, 1, k)
           IN  c \in Seq(Command) /\ c # <<>> /\ Heard(c) = wire[1] /\ Serial(c) \in Event
<1>1. wire \in Seq(Command) /\ Len(wire) \in Nat /\ k \in Nat /\ k >= 1
      /\ \A i \in 1..Len(wire) : wire[i] \in Command
  BY LenProperties, ElementOfSeq DEF TypeOK
<1>2. PICK c : c = SubSeq(wire, 1, k)
  OBVIOUS
<1>3. /\ c \in Seq(Command)
      /\ Len(c) = IF 1 <= k THEN k - 1 + 1 ELSE 0
      /\ \A i \in 1..(k - 1 + 1) : c[i] = wire[1 + i - 1]
  BY <1>1, <1>2, SubSeqProperties
<1>4. Len(c) = k /\ c[1] = wire[1]
  BY <1>1, <1>3
<1>5. c # <<>>
  BY <1>1, <1>3, <1>4, EmptyS
<1>6. Head(c) = c[1]
  BY <1>3, <1>5, TailS
<1> QED BY <1>2, <1>3, <1>4, <1>5, <1>6 DEF Heard, Serial, Event

-----------------------------------------------------------------------------
(* What the messages stand for *)

LEMMA Lists ==
    ASSUME TypeOK
    PROVE  /\ fanSent \in Seq(Texts) /\ wire \in Seq(Command) /\ rx \in Seq(AnswerByte)
           /\ answers \in Seq(Measurement)
BY DEF TypeOK, AnswerByte, Measurement

LEMMA Numbers ==
    ASSUME TypeOK
    PROVE  /\ MaxEvents \in Nat /\ Len(fanSent) \in Nat
           /\ round \in Nat /\ lost \in Nat /\ restarts \in Nat /\ fanLast \in Nat
           /\ round <= MaxEvents
           /\ Len(wire) \in Nat /\ Len(rx) \in Nat /\ Len(answers) \in Nat
           /\ answerLength \in {6, 7}
<1>1. Len(fanSent) \in Nat /\ Len(wire) \in Nat /\ Len(rx) \in Nat /\ Len(answers) \in Nat
  BY Lists, LenProperties
<1>2. /\ MaxEvents \in Nat /\ round \in Nat /\ lost \in Nat /\ restarts \in Nat
      /\ fanLast \in Nat /\ round <= MaxEvents /\ answerLength \in {6, 7}
  BY ZigbeeAssumption DEF TypeOK, ZigbeeAssumption
<1> QED BY <1>1, <1>2

LEMMA Elements ==
    ASSUME TypeOK
    PROVE  /\ \A i \in 1..Len(wire) : wire[i] \in Command
           /\ \A i \in 1..Len(rx) : rx[i] \in AnswerByte
           /\ \A i \in 1..Len(answers) : answers[i] \in Measurement
BY Lists, ElementOfSeq

LEMMA NodeQueues ==
    ASSUME TypeOK, NEW n \in Node
    PROVE  /\ events[n] \in Seq(Event) /\ Len(events[n]) \in Nat
           /\ (events[n] = <<>> <=> Len(events[n]) = 0)
           /\ \A i \in 1..Len(events[n]) : events[n][i] \in Event
<1>1. events[n] \in Seq(Event)
  BY DEF TypeOK, Event
<1> QED BY <1>1, EmptyS, ElementOfSeq

LEMMA AirQueues ==
    ASSUME TypeOK, NEW l \in Link
    PROVE  /\ air[l] \in Seq(Message) /\ Len(air[l]) \in Nat
           /\ (air[l] = <<>> <=> Len(air[l]) = 0)
           /\ \A i \in 1..Len(air[l]) : air[l][i] \in Message
<1>1. air[l] \in Seq(Message)
  BY DEF TypeOK
<1> QED BY <1>1, EmptyS, ElementOfSeq

\* What was known stays known.
Growing ==
    \A m : Stands(m, Len(fanSent), round, Len(answers))
              => Stands(m, Len(fanSent'), round', Len(answers'))

LEMMA Grown ==
    ASSUME NEW f \in Nat, NEW ff \in Nat, f <= ff,
           NEW r \in Nat, NEW rr \in Nat, r <= rr,
           NEW a \in Nat, NEW aa \in Nat, a <= aa
    PROVE  \A m : Stands(m, f, r, a) => Stands(m, ff, rr, aa)
BY DEF Stands

LEMMA SameKnown ==
    ASSUME UNCHANGED <<fanSent, round, answers>>
    PROVE  Growing
BY DEF Growing

LEMMA Kept ==
    ASSUME Messages, Growing
    PROVE  /\ UNCHANGED wire => WireOK'
           /\ UNCHANGED events => QueueOK'
           /\ UNCHANGED air => AirOK'
           /\ UNCHANGED <<events, new_cmd>> => BufferOK'
<1>1. WireOK /\ QueueOK /\ AirOK /\ BufferOK
  BY DEF Messages
<1>2. UNCHANGED wire => WireOK'
  BY <1>1 DEF WireOK, Growing, Known
<1>3. UNCHANGED events => QueueOK'
  BY <1>1 DEF QueueOK, Serials, Voice, Queue, Growing, Known
<1>4. UNCHANGED air => AirOK'
  BY <1>1 DEF AirOK, Growing, Known
<1>5. UNCHANGED <<events, new_cmd>> => BufferOK'
  BY <1>1 DEF BufferOK, Queue, Growing, Known
<1> QED BY <1>2, <1>3, <1>4, <1>5

LEMMA MessagesFanWrite ==
    ASSUME TypeOK, Messages, NEW t \in Texts, FanWrite(t)
    PROVE  TypeOK' /\ Messages'
<1>1. UNCHANGED <<round, tpc, reading, rx, events, new_cmd, air, answers, pin, fanLast,
                  missed, lost, restarts, answerLength>>
  BY DEF FanWrite, netVars, ghostVars
<1>2. fanSent' = Append(fanSent, t) /\ wire' = Append(wire, Fan(Len(fanSent) + 1))
  BY DEF FanWrite
<1>3. Len(fanSent) + round + lost + restarts < MaxEvents
  BY DEF FanWrite, MayGoOn
<1>4. fanSent' \in Seq(Texts) /\ Len(fanSent') = Len(fanSent) + 1
  BY <1>2, Lists, AppendS
<1>5. Fan(Len(fanSent) + 1) \in Command
  BY Numbers DEF Fan, Command
<1>6. wire' \in Seq(Command)
  BY <1>2, <1>5, Lists, AppendS
<1>7. /\ Len(wire') = Len(wire) + 1
      /\ \A i \in 1..Len(wire) : wire'[i] = wire[i]
      /\ wire'[Len(wire) + 1] = Fan(Len(fanSent) + 1)
  BY <1>2, <1>5, Lists, AppendS
<1>8. PICK f \in Nat, g \in Nat : f = Len(fanSent) /\ g = Len(fanSent') /\ g = f + 1
  BY <1>4, Numbers
<1>9. TypeOK'
  BY <1>1, <1>4, <1>6 DEF TypeOK
<1>10. Growing
  <2>1. PICK a \in Nat : a = Len(answers)
    BY Numbers
  <2>2. round \in Nat /\ f <= g
    BY <1>8, Numbers
  <2>3. \A m : Stands(m, f, round, a) => Stands(m, g, round, a)
    BY <2>2, Grown
  <2> QED BY <1>1, <1>8, <2>1, <2>3 DEF Growing
<1>11. CountsOK'
  <2>1. /\ g + round' + lost' + restarts' <= MaxEvents
        /\ fanLast' <= g
    <3>1. f + round + lost + restarts < MaxEvents /\ fanLast <= f
      BY <1>3, <1>8 DEF Messages, CountsOK
    <3>2. round \in Nat /\ lost \in Nat /\ restarts \in Nat /\ fanLast \in Nat /\ MaxEvents \in Nat
      BY Numbers
    <3> QED BY <1>1, <1>8, <3>1, <3>2
  <2>2. missed' \subseteq 1..round' /\ \A i \in 1..Len(answers') : answers'[i].query \in 1..round'
    BY <1>1 DEF Messages, CountsOK
  <2> QED BY <1>8, <2>1, <2>2 DEF CountsOK
<1>12. WireOK'
  <2>1. PICK n, w : n \in Nat /\ n = Len(wire) /\ w = wire'
    BY Numbers
  <2> n \in Nat
    BY <2>1
  <2>2. Len(w) = n + 1 /\ w[n + 1] = Fan(g) /\ \A i \in 1..n : w[i] = wire[i]
    BY <1>7, <1>8, <2>1
  <2>3. \A i \in 1..n : Stands(wire[i], g, round', Len(answers'))
    BY <1>8, <1>10, <2>1 DEF Growing, Messages, WireOK, Known
  <2>4. Stands(Fan(g), g, round', Len(answers'))
    BY <1>8 DEF Stands, Fan
  <2>5. \A i \in 1..(n + 1) : Stands(w[i], g, round', Len(answers'))
    BY <2>2, <2>3, <2>4
  <2> QED BY <1>8, <2>1, <2>2, <2>5 DEF WireOK, Known
<1>13. BytesOK'
  BY <1>1 DEF Messages, BytesOK
<1> QED BY <1>1, <1>9, <1>10, <1>11, <1>12, <1>13, Kept DEF Messages

LEMMA MessagesTransferWrite ==
    ASSUME TypeOK, Messages, TransferWrite
    PROVE  TypeOK' /\ Messages'
<1>1. UNCHANGED <<fanSent, reading, rx, events, new_cmd, air, answers, pin, fanLast,
                  missed, lost, restarts, answerLength>>
  BY DEF TransferWrite, netVars, ghostVars
<1>2. wire' = Append(wire, Query(round + 1))
  BY DEF TransferWrite
<1>3. /\ Len(fanSent) + round + lost + restarts < MaxEvents
      /\ round' = round + 1 /\ tpc' = "asked"
  BY DEF TransferWrite, MayGoOn
<1>4. Query(round + 1) \in Command
  BY Numbers DEF Query, Command
<1>5. wire' \in Seq(Command)
  BY <1>2, <1>4, Lists, AppendS
<1>6. /\ Len(wire') = Len(wire) + 1
      /\ \A i \in 1..Len(wire) : wire'[i] = wire[i]
      /\ wire'[Len(wire) + 1] = Query(round + 1)
  BY <1>2, <1>4, Lists, AppendS
<1>7. PICK f \in Nat, a \in Nat : f = Len(fanSent) /\ a = Len(answers)
  BY Numbers
<1>8. round' \in 0..MaxEvents
  BY <1>3, <1>7, Numbers
<1>9. TypeOK'
  BY <1>1, <1>3, <1>5, <1>8 DEF TypeOK
<1>10. Growing
  <2>1. round \in Nat /\ round' \in Nat /\ round <= round'
    BY <1>3, Numbers
  <2>2. \A m : Stands(m, f, round, a) => Stands(m, f, round', a)
    BY <2>1, Grown
  <2> QED BY <1>1, <1>7, <2>2 DEF Growing
<1>11. CountsOK'
  <2>1. missed \subseteq 1..round' /\ \A i \in 1..a : answers[i].query \in 1..round'
    <3>1. missed \subseteq 1..round /\ \A i \in 1..a : answers[i].query \in 1..round
      BY <1>7 DEF Messages, CountsOK
    <3>2. round \in Nat /\ round' \in Nat /\ round <= round'
      BY <1>3, Numbers
    <3>3. 1..round \subseteq 1..round'
      BY <3>2
    <3> QED BY <3>1, <3>3
  <2>2. fanLast <= f
    BY <1>7 DEF Messages, CountsOK
  <2>3. f + round' + lost + restarts <= MaxEvents
    <3>1. f + round + lost + restarts < MaxEvents /\ round' = round + 1
      BY <1>3, <1>7
    <3>2. round \in Nat /\ lost \in Nat /\ restarts \in Nat /\ MaxEvents \in Nat
      BY Numbers
    <3> QED BY <3>1, <3>2
  <2> QED BY <1>1, <1>7, <2>1, <2>2, <2>3 DEF CountsOK
<1>12. WireOK'
  <2>1. PICK n, w : n \in Nat /\ n = Len(wire) /\ w = wire'
    BY Numbers
  <2> n \in Nat
    BY <2>1
  <2>2. Len(w) = n + 1 /\ w[n + 1] = Query(round') /\ \A i \in 1..n : w[i] = wire[i]
    BY <1>3, <1>6, <2>1
  <2>3. \A i \in 1..n : Stands(wire[i], Len(fanSent'), round', Len(answers'))
    BY <1>10, <2>1 DEF Growing, Messages, WireOK, Known
  <2>4. Stands(Query(round'), Len(fanSent'), round', Len(answers'))
    BY <1>3, Numbers DEF Stands, Query
  <2>5. \A i \in 1..(n + 1) : Stands(w[i], Len(fanSent'), round', Len(answers'))
    BY <2>2, <2>3, <2>4
  <2>6. \A i \in 1..Len(w) : Stands(w[i], Len(fanSent'), round', Len(answers'))
    BY <2>2, <2>5
  <2> QED BY ONLY <2>1, <2>6 DEF WireOK, Known
<1>13. BytesOK'
  BY <1>1 DEF Messages, BytesOK
<1> QED BY <1>1, <1>9, <1>10, <1>11, <1>12, <1>13, Kept DEF Messages

\* The transfer thread takes k bytes.
LEMMA ReadEffect ==
    ASSUME TypeOK, TransferRead
    PROVE  \E k \in 1..7, n \in Nat :
             /\ n = Len(rx) /\ k <= n /\ (k = 7 \/ k = n)
             /\ reading' = [i \in 1..7 |-> IF i <= k THEN rx[i] ELSE reading[i]]
             /\ rx' \in Seq(AnswerByte) /\ Len(rx') = n - k
             /\ \A i \in 1..(n - k) : rx'[i] = rx[i + k]
<1>1. PICK n \in Nat : n = Len(rx)
  BY Numbers
<1>2. n >= 1
  <2>1. rx # <<>>
    BY DEF TransferRead
  <2>2. Len(rx) # 0
    BY <2>1, Lists, EmptyS
  <2> QED BY <1>1, <2>2
<1>3. PICK k : k = IF n < 7 THEN n ELSE 7
  OBVIOUS
<1>4. k \in 1..7 /\ k <= n /\ (k = 7 \/ k = n) /\ k \in 0..n
  BY <1>2, <1>3
<1>5. /\ reading' = [i \in 1..7 |-> IF i <= k THEN rx[i] ELSE reading[i]]
      /\ rx' = SubSeq(rx, k + 1, Len(rx))
  BY <1>1, <1>3 DEF TransferRead
<1>6. /\ rx' \in Seq(AnswerByte) /\ Len(rx') = Len(rx) - k
      /\ \A i \in 1..Len(rx') : rx'[i] = rx[i + k]
  <2>1. rx \in Seq(AnswerByte) /\ k \in 0..Len(rx)
    BY <1>1, <1>4, Lists
  <2> QED BY <1>5, <2>1, CutS
<1> QED BY <1>1, <1>4, <1>5, <1>6

LEMMA MessagesTransferRead ==
    ASSUME TypeOK, Messages, TransferRead
    PROVE  TypeOK' /\ Messages'
<1>1. UNCHANGED <<fanSent, round, wire, events, new_cmd, air, answers, pin, fanLast,
                  missed, lost, restarts, answerLength>>
  BY DEF TransferRead, netVars, ghostVars
<1>2. tpc' = "idle"
  BY DEF TransferRead
<1>3. PICK k \in 1..7, n \in Nat :
             /\ n = Len(rx) /\ k <= n
             /\ reading' = [i \in 1..7 |-> IF i <= k THEN rx[i] ELSE reading[i]]
             /\ rx' \in Seq(AnswerByte) /\ Len(rx') = n - k
             /\ \A i \in 1..(n - k) : rx'[i] = rx[i + k]
  BY ReadEffect
<1>4. \A i \in 1..7 : reading'[i] \in [answer: Nat, pos: 0..7]
  <2>1. ASSUME NEW i \in 1..7 PROVE reading'[i] \in [answer: Nat, pos: 0..7]
    <3>1. reading[i] \in [answer: Nat, pos: 0..7]
      BY DEF TypeOK
    <3>2. i <= k => i \in 1..n
      BY <1>3
    <3>3. i <= k => rx[i] \in AnswerByte
      BY <1>3, <3>2, Elements
    <3>4. AnswerByte \subseteq [answer: Nat, pos: 0..7]
      BY DEF AnswerByte
    <3>5. reading'[i] = IF i <= k THEN rx[i] ELSE reading[i]
      BY <1>3
    <3> QED BY <3>1, <3>3, <3>4, <3>5
  <2> QED BY <2>1
<1>5. reading' \in [1..7 -> [answer: Nat, pos: 0..7]]
  BY <1>3, <1>4
<1>6. rx' \in Seq(AnswerByte)
  BY <1>3
<1>7. TypeOK'
  BY <1>1, <1>2, <1>5, <1>6 DEF TypeOK, AnswerByte
<1>8. Growing
  BY <1>1, SameKnown
<1>9. CountsOK'
  BY <1>1 DEF Messages, CountsOK
<1>10. BytesOK'
  <2>1. PICK a \in Nat : a = Len(answers)
    BY Numbers
  <2>2. \A i \in 1..n : rx[i].answer \in 1..a
    BY <1>3, <2>1 DEF Messages, BytesOK
  <2>3. \A i \in 1..7 : reading[i].answer \in 0..a
    BY <2>1 DEF Messages, BytesOK
  <2>4. \A i \in 1..(n - k) : rx[i + k].answer \in 1..a
    BY <2>2
  <2>5. \A i \in 1..k : rx[i].answer \in 0..a
    BY <1>3, <2>2
  <2>6. \A i \in 1..7 : reading'[i] = IF i <= k THEN rx[i] ELSE reading[i]
    BY <1>3
  <2>7. \A i \in 1..7 : reading'[i].answer \in 0..a
    BY <2>3, <2>5, <2>6
  <2>8. \A i \in 1..(n - k) : rx'[i].answer \in 1..a
    BY <1>3, <2>4
  <2>9. Len(rx') = n - k /\ Len(answers') = a
    BY <1>1, <1>3, <2>1
  <2> QED BY <2>7, <2>8, <2>9 DEF BytesOK
<1> QED BY <1>1, <1>7, <1>8, <1>9, <1>10, Kept DEF Messages

LEMMA MessagesRestart ==
    ASSUME TypeOK, Messages, Restart
    PROVE  TypeOK' /\ Messages'
<1>1. UNCHANGED <<fanSent, round, wire, events, new_cmd, air, answers, pin, fanLast,
                  missed, lost, answerLength>>
  BY DEF Restart, netVars
<1>2. /\ tpc' = "idle" /\ restarts' = restarts + 1
      /\ Len(fanSent) + round + lost + restarts < MaxEvents
  BY DEF Restart, MayGoOn
<1>3. reading' = [i \in 1..7 |-> [answer |-> 0, pos |-> 0]]
  BY DEF Restart
<1>4. rx' = <<>>
  BY DEF Restart
<1>5. rx' \in Seq(AnswerByte) /\ Len(rx') = 0
  BY <1>4, EmptySeq
<1>6. reading' \in [1..7 -> [answer: Nat, pos: 0..7]]
  BY <1>3
<1>7. PICK f \in Nat : f = Len(fanSent)
  BY Numbers
<1>8. restarts' \in 0..MaxEvents
  <2>1. /\ round \in Nat /\ lost \in Nat /\ restarts \in Nat /\ MaxEvents \in Nat
    BY Numbers
  <2> QED BY <1>2, <1>7, <2>1
<1>9. TypeOK'
  BY <1>1, <1>2, <1>5, <1>6, <1>8 DEF TypeOK, AnswerByte
<1>10. Growing
  BY <1>1, SameKnown
<1>11. CountsOK'
  <2>1. fanLast <= f /\ missed \subseteq 1..round /\ \A i \in 1..Len(answers) : answers[i].query \in 1..round
    BY <1>7 DEF Messages, CountsOK
  <2>2. f + round' + lost' + restarts' <= MaxEvents
    <3>1. /\ round \in Nat /\ lost \in Nat /\ restarts \in Nat /\ MaxEvents \in Nat
      BY Numbers
    <3> QED BY <1>1, <1>2, <1>7, <3>1
  <2> QED BY <1>1, <1>7, <2>1, <2>2 DEF CountsOK
<1>12. BytesOK'
  <2>1. PICK a \in Nat : a = Len(answers)
    BY Numbers
  <2>2. \A i \in 1..7 : reading'[i].answer = 0
    BY <1>3
  <2>3. \A i \in 1..7 : reading'[i].answer \in 0..a
    BY <2>2
  <2> QED BY <1>1, <1>5, <2>1, <2>3 DEF BytesOK
<1> QED BY <1>1, <1>9, <1>10, <1>11, <1>12, Kept DEF Messages

LEMMA CoordinatorQueue ==
    ASSUME TypeOK
    PROVE  /\ Queue \in Seq(Event) /\ Len(Queue) \in Nat /\ (Queue = <<>> <=> Len(Queue) = 0)
           /\ \A i \in 1..Len(Queue) : Queue[i] \in Event
BY NodeQueues DEF Queue, Node

\* The callback takes the first k commands of the wire, of w, for one chunk c.
CallbackFacts(k, w, q, c) ==
    /\ w = Len(wire) /\ k \in 1..w /\ q = Len(Queue)
    /\ c # <<>> /\ Heard(c) = wire[1]
    /\ DOMAIN events' = Node /\ \A n \in Node : events'[n] \in Seq(Event)
    /\ \A n \in Node \ {"coordinator"} : events'[n] = events[n]
    /\ Queue' = Append(Queue, Serial(c)) /\ Len(Queue') = q + 1
    /\ \A i \in 1..q : Queue'[i] = Queue[i]
    /\ Queue'[q + 1] = Serial(c)
    /\ wire' \in Seq(Command) /\ Len(wire') = w - k
    /\ \A i \in 1..(w - k) : wire'[i] = wire[i + k]
    /\ missed' = missed \cup {wire[i].n : i \in {j \in 2..k : wire[j].kind = "query"}}

LEMMA CallbackEffect ==
    ASSUME TypeOK, SerialCallback
    PROVE  \E k \in Nat, w \in Nat, q \in Nat, c \in Seq(Command) : CallbackFacts(k, w, q, c)
<1>1. PICK w \in Nat, q \in Nat : w = Len(wire) /\ q = Len(Queue)
  BY Numbers, CoordinatorQueue
<1>2. PICK k \in 1..w :
          /\ events' = [events EXCEPT !["coordinator"] = Append(@, Serial(SubSeq(wire, 1, k)))]
          /\ wire' = SubSeq(wire, k + 1, Len(wire))
          /\ missed' = missed \cup {wire[i].n : i \in {j \in 2..k : wire[j].kind = "query"}}
  BY <1>1 DEF SerialCallback
<1>3. PICK c : c = SubSeq(wire, 1, k)
  OBVIOUS
<1>4. c \in Seq(Command) /\ c # <<>> /\ Heard(c) = wire[1] /\ Serial(c) \in Event
  BY <1>1, <1>3, Chunk
<1>5. "coordinator" \in Node /\ events' = [events EXCEPT !["coordinator"] = Append(@, Serial(c))]
  BY <1>2, <1>3 DEF Node
<1>6. /\ DOMAIN events' = Node /\ \A m \in Node : events'[m] \in Seq(Event)
      /\ \A m \in Node \ {"coordinator"} : events'[m] = events[m]
      /\ Queue' = Append(Queue, Serial(c))
      /\ Len(Queue') = q + 1
      /\ \A i \in 1..q : Queue'[i] = Queue[i]
      /\ Queue'[q + 1] = Serial(c)
  BY <1>1, <1>4, <1>5, Queued DEF Queue
<1>7. k \in 0..Len(wire)
  BY <1>1
<1>8. /\ wire' \in Seq(Command) /\ Len(wire') = w - k
      /\ \A i \in 1..(w - k) : wire'[i] = wire[i + k]
  BY <1>1, <1>2, <1>7, Lists, CutS
<1>9. missed' = missed \cup {wire[i].n : i \in {j \in 2..k : wire[j].kind = "query"}}
  BY <1>2
<1>10. k \in Nat /\ k \in 1..w /\ c \in Seq(Command) /\ c # <<>> /\ Heard(c) = wire[1]
  BY <1>4
<1>11. CallbackFacts(k, w, q, c)
  BY ONLY <1>1, <1>6, <1>8, <1>9, <1>10 DEF CallbackFacts
<1> QED BY <1>10, <1>11

LEMMA MessagesCallback ==
    ASSUME TypeOK, Messages, SerialCallback
    PROVE  TypeOK' /\ Messages'
<1>1. UNCHANGED <<fanSent, round, tpc, reading, rx, new_cmd, air, answers, pin, fanLast, lost,
                  restarts, answerLength>>
  BY DEF SerialCallback, monitorVars
<1>2. PICK k \in Nat, w \in Nat, q \in Nat, c \in Seq(Command) : CallbackFacts(k, w, q, c)
  BY CallbackEffect
<1>3. \A i \in 1..w : Known(wire[i])
  BY <1>2 DEF Messages, WireOK, CallbackFacts
<1>4. missed' \subseteq 1..round
  <2>1. \A i \in 2..k : wire[i].kind = "query" => wire[i].n \in 1..round
    BY <1>2, <1>3 DEF Known, Stands, CallbackFacts
  <2>2. missed \subseteq 1..round
    BY DEF Messages, CountsOK
  <2> QED BY <1>2, <2>1, <2>2 DEF CallbackFacts
<1>5. missed' \subseteq 1..MaxEvents
  BY <1>4, Numbers
<1>6. TypeOK'
  BY <1>1, <1>2, <1>5 DEF TypeOK, Event, CallbackFacts
<1>7. Growing
  BY <1>1, SameKnown
<1>8. CountsOK'
  BY <1>1, <1>4 DEF Messages, CountsOK
<1>9. \A m : Known(m) <=> Stands(m, Len(fanSent'), round', Len(answers'))
  BY <1>1 DEF Known
<1>10. WireOK'
  <2>1. \A i \in 1..(w - k) : Known(wire[i + k])
    BY <1>2, <1>3 DEF CallbackFacts
  <2>2. \A i \in 1..(w - k) : Stands(wire'[i], Len(fanSent'), round', Len(answers'))
    BY <1>2, <1>9, <2>1 DEF CallbackFacts
  <2> QED BY <1>2, <2>2 DEF WireOK, Known, CallbackFacts
<1>11. QueueOK'
  <2>1. \A i \in 1..q : Queue[i].kind = "serial" =>
            Queue[i].chunk # <<>> /\ Known(Heard(Queue[i].chunk))
    BY <1>2 DEF Messages, QueueOK, Serials, Voice, CallbackFacts
  <2>2. Known(Heard(c)) /\ Serial(c).chunk = c
    BY <1>2, <1>3 DEF Serial, CallbackFacts
  <2>3. \A i \in 1..(q + 1) : Queue'[i].kind = "serial" =>
            Queue'[i].chunk # <<>> /\ Known(Heard(Queue'[i].chunk))
    BY <1>2, <2>1, <2>2 DEF CallbackFacts
  <2>4. \A i \in Serials' : Queue'[i].chunk # <<>> /\ Known(Voice(i))'
    BY <1>2, <1>9, <2>3 DEF Serials, Voice, Known, CallbackFacts
  <2>5. \A n \in {"temp", "fan"} : \A i \in 1..Len(events'[n]) : events'[n][i].kind = "radio"
    <3>1. \A n \in {"temp", "fan"} : events'[n] = events[n]
      BY <1>2 DEF Node, CallbackFacts
    <3>2. \A n \in {"temp", "fan"} : \A i \in 1..Len(events[n]) : events[n][i].kind = "radio"
      BY DEF Messages, QueueOK
    <3> QED BY <3>1, <3>2
  <2> QED BY <2>4, <2>5 DEF QueueOK
<1>12. BufferOK'
  <2>1. \A i \in 1..q : Queue[i].kind = "radio" => new_cmd["coordinator"].kind = "answer"
    BY <1>2 DEF Messages, BufferOK, CallbackFacts
  <2>2. Serial(c).kind # "radio"
    BY DEF Serial
  <2>3. \A i \in 1..(q + 1) : Queue'[i].kind = "radio" => new_cmd["coordinator"].kind = "answer"
    BY <1>2, <2>1, <2>2 DEF CallbackFacts
  <2> QED BY <1>1, <1>2, <1>9, <2>3 DEF Messages, BufferOK, Known, CallbackFacts
<1>13. BytesOK'
  BY <1>1 DEF Messages, BytesOK
<1> QED BY <1>1, <1>6, <1>7, <1>8, <1>10, <1>11, <1>12, <1>13, Kept DEF Messages

LEMMA Links ==
    /\ Link = {CoordTemp, CoordFan, TempCoord, <<"temp", "fan">>}
    /\ CoordTemp[1] = "coordinator" /\ CoordTemp[2] = "temp"
    /\ CoordFan[1] = "coordinator" /\ CoordFan[2] = "fan"
    /\ TempCoord[1] = "temp" /\ TempCoord[2] = "coordinator"
    /\ \A l \in Link : l[1] # "fan" /\ l[2] \in Node
    /\ \A l \in Link : l[2] = "coordinator" => l = TempCoord
    /\ \A l \in Link : l[2] = "temp" => l = CoordTemp
    /\ \A l \in Link : l[2] = "fan" => l = CoordFan \/ l[1] = "temp"
    /\ CoordTemp # CoordFan /\ CoordTemp # TempCoord /\ CoordFan # TempCoord
BY DEF Link, CoordTemp, CoordFan, TempCoord, Node

\* Node n, which has q events, finds the first of a messages in its buffer and an event
\* in its queue.
IncomingFacts(l, n, q, a) ==
    /\ n = l[2] /\ q = Len(events[n]) /\ a = Len(air[l]) /\ a >= 1
    /\ air[l][1] \in Message
    /\ new_cmd' = [new_cmd EXCEPT ![n] = air[l][1]]
    /\ DOMAIN events' = Node /\ \A m \in Node : events'[m] \in Seq(Event)
    /\ \A m \in Node \ {n} : events'[m] = events[m]
    /\ events'[n] = Append(events[n], Radio) /\ Len(events'[n]) = q + 1
    /\ \A i \in 1..q : events'[n][i] = events[n][i]
    /\ events'[n][q + 1] = Radio
    /\ air' \in [Link -> Seq(Message)]
    /\ \A k \in Link \ {l} : air'[k] = air[k]
    /\ Len(air'[l]) = a - 1
    /\ \A i \in 1..(a - 1) : air'[l][i] = air[l][i + 1]
    /\ missed' = IF n = "temp" /\ Unseen(n) THEN missed \cup {new_cmd[n].n} ELSE missed

LEMMA IncomingEffect ==
    ASSUME TypeOK, NEW l \in Link, Incoming(l)
    PROVE  \E n \in Node, q \in Nat, a \in Nat : IncomingFacts(l, n, q, a)
<1>1. PICK n \in Node : n = l[2]
  BY Links
<1>2. Radio \in Event
  BY EmptySeq DEF Radio, Event
<1>3. /\ air[l] # <<>>
      /\ new_cmd' = [new_cmd EXCEPT ![n] = Head(air[l])]
      /\ events' = [events EXCEPT ![n] = Append(@, Radio)]
      /\ missed' = IF n = "temp" /\ Unseen(n) THEN missed \cup {new_cmd[n].n} ELSE missed
      /\ air' = [air EXCEPT ![l] = Tail(@)]
  BY <1>1 DEF Incoming
<1>4. /\ DOMAIN events' = Node /\ \A m \in Node : events'[m] \in Seq(Event)
      /\ \A m \in Node \ {n} : events'[m] = events[m]
      /\ events'[n] = Append(events[n], Radio)
      /\ Len(events[n]) \in Nat /\ Len(events'[n]) = Len(events[n]) + 1
      /\ \A i \in 1..Len(events[n]) : events'[n][i] = events[n][i]
      /\ events'[n][Len(events[n]) + 1] = Radio
  BY <1>2, <1>3, Queued
<1>5. /\ air' \in [Link -> Seq(Message)]
      /\ \A k \in Link \ {l} : air'[k] = air[k]
      /\ Len(air[l]) \in Nat /\ Len(air[l]) >= 1 /\ Len(air'[l]) = Len(air[l]) - 1
      /\ \A i \in 1..Len(air'[l]) : air'[l][i] = air[l][i + 1]
      /\ Head(air[l]) = air[l][1] /\ air[l][1] \in Message
  BY <1>3, Taken
<1>6. new_cmd' = [new_cmd EXCEPT ![n] = air[l][1]]
  BY <1>3, <1>5
<1>7. PICK q \in Nat, a \in Nat : q = Len(events[n]) /\ a = Len(air[l])
  BY <1>4, <1>5
<1>8. missed' = IF n = "temp" /\ Unseen(n) THEN missed \cup {new_cmd[n].n} ELSE missed
  BY <1>3
<1>9. /\ DOMAIN events' = Node /\ \A m \in Node : events'[m] \in Seq(Event)
      /\ \A m \in Node \ {n} : events'[m] = events[m]
      /\ events'[n] = Append(events[n], Radio) /\ Len(events'[n]) = q + 1
      /\ \A i \in 1..q : events'[n][i] = events[n][i]
      /\ events'[n][q + 1] = Radio
  BY ONLY <1>4, <1>7
<1>10. /\ air' \in [Link -> Seq(Message)]
       /\ \A k \in Link \ {l} : air'[k] = air[k]
       /\ Len(air'[l]) = a - 1 /\ a >= 1 /\ air[l][1] \in Message
       /\ \A i \in 1..(a - 1) : air'[l][i] = air[l][i + 1]
  BY ONLY <1>5, <1>7
<1>11. n \in Node /\ q \in Nat /\ a \in Nat
  OBVIOUS
<1>12. IncomingFacts(l, n, q, a)
  BY ONLY <1>1, <1>6, <1>7, <1>8, <1>9, <1>10, <1>11 DEF IncomingFacts
<1> QED BY <1>11, <1>12

\* The messages that are left on a link, and what is known of the first.
LEMMA AirKnown ==
    ASSUME TypeOK, Messages, NEW l \in Link
    PROVE  \A i \in 1..Len(air[l]) :
              /\ Known(air[l][i]) /\ air[l][i] \in Message
              /\ l[1] = "temp" => air[l][i].kind = "answer"
              /\ l[1] # "temp" => air[l][i].kind \in {"fan", "query"}
<1>1. \A i \in 1..Len(air[l]) : air[l][i] \in Message
  BY AirQueues
<1> QED BY <1>1 DEF Messages, AirOK

LEMMA AirShorter ==
    ASSUME TypeOK, Messages, Growing, NEW l \in Link, NEW a \in Nat, a = Len(air[l]), a >= 1,
           \A k \in Link \ {l} : air'[k] = air[k],
           Len(air'[l]) = a - 1, \A i \in 1..(a - 1) : air'[l][i] = air[l][i + 1]
    PROVE  AirOK'
<1> DEFINE Fits(k, m) == /\ Stands(m, Len(fanSent'), round', Len(answers'))
                         /\ m.kind \in IF k[1] = "temp" THEN {"answer"} ELSE {"fan", "query"}
<1>1. \A k \in Link : \A i \in 1..Len(air[k]) : Fits(k, air[k][i])
  BY DEF Messages, AirOK, Growing, Known
<1>2. \A i \in 1..(a - 1) : Fits(l, air'[l][i])
  <2>1. \A i \in 1..a : Fits(l, air[l][i])
    BY <1>1
  <2>2. \A i \in 1..(a - 1) : i + 1 \in 1..a
    OBVIOUS
  <2> HIDE DEF Fits
  <2> QED BY <2>1, <2>2
<1>3. \A k \in Link : \A i \in 1..Len(air'[k]) : Fits(k, air'[k][i])
  <2>1. \A k \in Link \ {l} : \A i \in 1..Len(air'[k]) : Fits(k, air'[k][i])
    BY <1>1
  <2>2. \A i \in 1..Len(air'[l]) : Fits(l, air'[l][i])
    BY <1>2
  <2> HIDE DEF Fits
  <2> QED BY <2>1, <2>2
<1> QED BY <1>3 DEF AirOK, Known

LEMMA MessagesIncoming ==
    ASSUME TypeOK, Messages, NEW l \in Link, Incoming(l)
    PROVE  TypeOK' /\ Messages'
<1>1. UNCHANGED <<fanSent, round, tpc, reading, wire, rx, answers, pin, fanLast, lost,
                  restarts, answerLength>>
  BY DEF Incoming, monitorVars, lineVars
<1>2. PICK n \in Node, q \in Nat, a \in Nat : IncomingFacts(l, n, q, a)
  BY IncomingEffect
<1>3. n = l[2] /\ q = Len(events[n]) /\ a = Len(air[l]) /\ a >= 1
  BY <1>2 DEF IncomingFacts
<1>4. missed' \subseteq 1..round
  <2>1. Known(new_cmd["temp"])
    BY DEF Messages, BufferOK, Node
  <2>2. Unseen("temp") => new_cmd["temp"].n \in 1..round
    BY <2>1 DEF Unseen, Known, Stands
  <2>3. missed \subseteq 1..round
    BY DEF Messages, CountsOK
  <2>4. missed' = IF n = "temp" /\ Unseen(n) THEN missed \cup {new_cmd[n].n} ELSE missed
    BY <1>2 DEF IncomingFacts
  <2> QED BY <2>2, <2>3, <2>4
<1>5. missed' \subseteq 1..MaxEvents
  BY <1>4, Numbers
<1>6. new_cmd' = [new_cmd EXCEPT ![n] = air[l][1]] /\ air[l][1] \in Message
  BY <1>2 DEF IncomingFacts
<1>7. new_cmd' \in [Node -> Message]
  BY <1>6 DEF TypeOK
<1>8. TypeOK'
  BY <1>1, <1>2, <1>5, <1>7 DEF TypeOK, Event, IncomingFacts
<1>9. Growing
  BY <1>1, SameKnown
<1>10. CountsOK'
  BY <1>1, <1>4 DEF Messages, CountsOK
<1>11. \A m : Known(m) <=> Stands(m, Len(fanSent'), round', Len(answers'))
  BY <1>1 DEF Known
<1>12. /\ \A m \in Node \ {n} : events'[m] = events[m]
       /\ Len(events'[n]) = q + 1 /\ \A i \in 1..q : events'[n][i] = events[n][i]
       /\ events'[n][q + 1].kind = "radio"
  BY <1>2 DEF IncomingFacts, Radio
<1>13. QueueOK'
  <2>1. \A i \in Serials' : i \in Serials /\ Queue'[i] = Queue[i]
    <3>1. CASE n = "coordinator"
      <4>1. ASSUME NEW i \in 1..(q + 1), events'[n][i].kind = "serial"
            PROVE  i \in 1..q /\ events'[n][i] = events[n][i]
        BY <1>12, <4>1
      <4> QED BY <1>3, <1>12, <3>1, <4>1 DEF Serials, Queue
    <3>2. CASE n # "coordinator"
      BY <1>12, <3>2 DEF Serials, Queue, Node
    <3> QED BY <3>1, <3>2
  <2>2. \A i \in Serials' : Queue'[i].chunk # <<>> /\ Known(Voice(i))'
    BY <1>11, <2>1 DEF Messages, QueueOK, Voice, Known
  <2>3. \A m \in {"temp", "fan"} : \A i \in 1..Len(events'[m]) : events'[m][i].kind = "radio"
    <3>1. \A m \in {"temp", "fan"} : \A i \in 1..Len(events[m]) : events[m][i].kind = "radio"
      BY DEF Messages, QueueOK
    <3>2. n \in {"temp", "fan"} => \A i \in 1..(q + 1) : events'[n][i].kind = "radio"
      <4>1. ASSUME n \in {"temp", "fan"}, NEW i \in 1..(q + 1)
            PROVE  events'[n][i].kind = "radio"
        <5>1. CASE i = q + 1
          BY <1>12, <5>1
        <5>2. CASE i \in 1..q
          <6>1. events'[n][i] = events[n][i]
            BY <1>12, <5>2
          <6>2. events[n][i].kind = "radio"
            BY <1>3, <3>1, <4>1, <5>2
          <6> QED BY <6>1, <6>2
        <5> QED BY <5>1, <5>2
      <4> QED BY <4>1
    <3>3. ASSUME NEW m \in {"temp", "fan"}
          PROVE  \A i \in 1..Len(events'[m]) : events'[m][i].kind = "radio"
      <4>1. CASE m = n
        BY <1>12, <3>2, <4>1
      <4>2. CASE m # n
        <5>1. events'[m] = events[m]
          BY <1>12, <4>2 DEF Node
        <5> QED BY <3>1, <5>1
      <4> QED BY <4>1, <4>2
    <3> QED BY <3>3
  <2> QED BY <2>2, <2>3 DEF QueueOK
<1>14. AirOK'
  BY <1>2, <1>9, AirShorter DEF IncomingFacts
<1>15. BufferOK'
  <2>1. /\ Known(air[l][1])
        /\ l[1] = "temp" => air[l][1].kind = "answer"
        /\ l[1] # "temp" => air[l][1].kind \in {"fan", "query"}
    BY <1>3, AirKnown
  <2>2. /\ n = "coordinator" => l[1] = "temp"
        /\ n = "temp" => l[1] # "temp"
    BY <1>3, Links
  <2>3. /\ \A m \in Node : Known(new_cmd[m])
        /\ new_cmd["temp"].kind # "answer"
        /\ \A i \in 1..Len(Queue) :
              Queue[i].kind = "radio" => new_cmd["coordinator"].kind = "answer"
    BY DEF Messages, BufferOK
  <2>4. \A m \in Node : new_cmd'[m] = IF m = n THEN air[l][1] ELSE new_cmd[m]
    BY <1>6 DEF TypeOK
  <2>5. \A m \in Node : Stands(new_cmd'[m], Len(fanSent'), round', Len(answers'))
    BY <1>11, <2>1, <2>3, <2>4
  <2>6. new_cmd'["temp"].kind # "answer"
    BY <2>1, <2>2, <2>3, <2>4 DEF Node
  <2>7. \A i \in 1..Len(Queue') :
              Queue'[i].kind = "radio" => new_cmd'["coordinator"].kind = "answer"
    <3>1. CASE n = "coordinator"
      BY <2>1, <2>2, <2>4, <3>1 DEF Node
    <3>2. CASE n # "coordinator"
      BY <1>12, <2>3, <2>4, <3>2 DEF Node, Queue
    <3> QED BY <3>1, <3>2
  <2> QED BY <2>5, <2>6, <2>7 DEF BufferOK, Known
<1>16. BytesOK'
  BY <1>1 DEF Messages, BytesOK
<1> QED BY <1>1, <1>8, <1>9, <1>10, <1>13, <1>14, <1>15, <1>16, Kept DEF Messages

LEMMA LoseEffect ==
    ASSUME TypeOK, NEW l \in Link, Lose(l)
    PROVE  \E a \in Nat :
             /\ a = Len(air[l]) /\ a >= 1
             /\ air' \in [Link -> Seq(Message)]
             /\ \A k \in Link \ {l} : air'[k] = air[k]
             /\ Len(air'[l]) = a - 1
             /\ \A i \in 1..(a - 1) : air'[l][i] = air[l][i + 1]
<1>1. air[l] # <<>> /\ air' = [air EXCEPT ![l] = Tail(@)]
  BY DEF Lose
<1>2. PICK a \in Nat : a = Len(air[l])
  BY AirQueues
<1>3. /\ air' \in [Link -> Seq(Message)]
      /\ \A k \in Link \ {l} : air'[k] = air[k]
      /\ Len(air[l]) \in Nat /\ Len(air[l]) >= 1 /\ Len(air'[l]) = Len(air[l]) - 1
      /\ \A i \in 1..Len(air'[l]) : air'[l][i] = air[l][i + 1]
  BY <1>1, Taken
<1> QED BY ONLY <1>2, <1>3

LEMMA MessagesLose ==
    ASSUME TypeOK, Messages, NEW l \in Link, Lose(l)
    PROVE  TypeOK' /\ Messages'
<1>1. UNCHANGED <<fanSent, round, tpc, reading, wire, rx, events, new_cmd, answers, pin,
                  fanLast, missed, restarts, answerLength>>
  BY DEF Lose, monitorVars, lineVars
<1>2. PICK a \in Nat :
             /\ a = Len(air[l]) /\ a >= 1
             /\ air' \in [Link -> Seq(Message)]
             /\ \A k \in Link \ {l} : air'[k] = air[k]
             /\ Len(air'[l]) = a - 1
             /\ \A i \in 1..(a - 1) : air'[l][i] = air[l][i + 1]
  BY LoseEffect
<1>3. lost' = lost + 1 /\ Len(fanSent) + round + lost + restarts < MaxEvents
  BY DEF Lose, MayGoOn
<1>4. PICK f \in Nat : f = Len(fanSent)
  BY Numbers
<1>5. lost' \in 0..MaxEvents
  BY <1>3, <1>4, Numbers
<1>6. TypeOK'
  BY <1>1, <1>2, <1>5 DEF TypeOK
<1>7. Growing
  BY <1>1, SameKnown
<1>8. CountsOK'
  <2>1. f + round + lost' + restarts <= MaxEvents
    <3>1. /\ round \in Nat /\ lost \in Nat /\ restarts \in Nat /\ MaxEvents \in Nat
      BY Numbers
    <3> QED BY <1>3, <1>4, <3>1
  <2> QED BY <1>1, <1>4, <2>1 DEF Messages, CountsOK
<1>9. AirOK'
  BY <1>2, <1>7, AirShorter
<1>10. BytesOK'
  BY <1>1 DEF Messages, BytesOK
<1> QED BY <1>1, <1>6, <1>7, <1>8, <1>9, <1>10, Kept DEF Messages

\* Node n has looked at the first of its q events.
DropFacts(n, q) ==
    /\ q = Len(events[n]) /\ q >= 1
    /\ DOMAIN events' = Node /\ \A m \in Node : events'[m] \in Seq(Event)
    /\ \A m \in Node \ {n} : events'[m] = events[m]
    /\ events'[n] = Tail(events[n]) /\ Len(events'[n]) = q - 1
    /\ \A i \in 1..(q - 1) : events'[n][i] = events[n][i + 1]
    /\ Head(events[n]) = events[n][1] /\ events[n][1] \in Event

LEMMA DropEffect ==
    ASSUME TypeOK, NEW n \in Node, events[n] # <<>>, events' = Drop(n)
    PROVE  \E q \in Nat : DropFacts(n, q)
<1>1. /\ DOMAIN events' = Node /\ \A m \in Node : events'[m] \in Seq(Event)
      /\ \A m \in Node \ {n} : events'[m] = events[m]
      /\ events[n] \in Seq(Event) /\ events'[n] = Tail(events[n])
      /\ Len(events[n]) \in Nat /\ Len(events[n]) >= 1
      /\ Len(events'[n]) = Len(events[n]) - 1
      /\ \A i \in 1..Len(events'[n]) : events'[n][i] = events[n][i + 1]
      /\ Head(events[n]) = events[n][1] /\ events[n][1] \in Event
  BY Dropped
<1>2. PICK q \in Nat : q = Len(events[n])
  BY <1>1
<1>3. DropFacts(n, q)
  BY ONLY <1>1, <1>2 DEF DropFacts
<1> QED BY <1>3

LEMMA QueueShorter ==
    ASSUME TypeOK, Messages, Growing, NEW n \in Node, NEW q \in Nat, DropFacts(n, q)
    PROVE  QueueOK' /\ (UNCHANGED new_cmd => BufferOK')
<1>1. /\ q = Len(events[n]) /\ q >= 1
      /\ \A m \in Node \ {n} : events'[m] = events[m]
      /\ Len(events'[n]) = q - 1
      /\ \A i \in 1..(q - 1) : events'[n][i] = events[n][i + 1]
  BY DEF DropFacts
<1>2. \A m \in Node : \A i \in 1..Len(events'[m]) :
         \E j \in 1..Len(events[m]) : events'[m][i] = events[m][j]
  <2>1. \A i \in 1..(q - 1) : i + 1 \in 1..q
    OBVIOUS
  <2>2. \A m \in Node \ {n} : \A i \in 1..Len(events'[m]) :
           \E j \in 1..Len(events[m]) : events'[m][i] = events[m][j]
    BY <1>1
  <2>3. \A i \in 1..Len(events'[n]) :
           \E j \in 1..Len(events[n]) : events'[n][i] = events[n][j]
    BY <1>1, <2>1
  <2> QED BY <2>2, <2>3
<1>3. \A m : Known(m) => Stands(m, Len(fanSent'), round', Len(answers'))
  BY DEF Known, Growing
<1>4. \A i \in Serials' : Queue'[i].chunk # <<>> /\ Known(Voice(i))'
  <2>1. \A i \in 1..Len(Queue') : \E j \in 1..Len(Queue) : Queue'[i] = Queue[j]
    BY <1>2 DEF Queue, Node
  <2>2. \A j \in 1..Len(Queue) : Queue[j].kind = "serial" =>
           Queue[j].chunk # <<>> /\ Known(Heard(Queue[j].chunk))
    BY DEF Messages, QueueOK, Serials, Voice
  <2>3. \A i \in 1..Len(Queue') : Queue'[i].kind = "serial" =>
           /\ Queue'[i].chunk # <<>>
           /\ Stands(Heard(Queue'[i].chunk), Len(fanSent'), round', Len(answers'))
    BY <1>3, <2>1, <2>2
  <2> QED BY <2>3 DEF Serials, Voice, Known
<1>5. \A m \in {"temp", "fan"} : \A i \in 1..Len(events'[m]) : events'[m][i].kind = "radio"
  <2>1. \A m \in {"temp", "fan"} : \A j \in 1..Len(events[m]) : events[m][j].kind = "radio"
    BY DEF Messages, QueueOK
  <2>2. {"temp", "fan"} \subseteq Node
    BY DEF Node
  <2> QED BY ONLY <1>2, <2>1, <2>2
<1>6. ASSUME UNCHANGED new_cmd PROVE BufferOK'
  <2>1. \A m \in Node : Stands(new_cmd[m], Len(fanSent'), round', Len(answers'))
    BY <1>3 DEF Messages, BufferOK
  <2>2. \A i \in 1..Len(Queue') :
           Queue'[i].kind = "radio" => new_cmd["coordinator"].kind = "answer"
    BY <1>2 DEF Messages, BufferOK, Queue, Node
  <2> QED BY <1>6, <2>1, <2>2 DEF Messages, BufferOK, Known
<1> QED BY <1>4, <1>5, <1>6 DEF QueueOK

\* What node s broadcasts is the last on its links.
SentFacts(s, m) ==
    /\ air' \in [Link -> Seq(Message)]
    /\ \A l \in Link : l[1] # s => air'[l] = air[l]
    /\ \A l \in Link : l[1] = s =>
          /\ Len(air[l]) \in Nat /\ Len(air'[l]) = Len(air[l]) + 1
          /\ \A i \in 1..Len(air[l]) : air'[l][i] = air[l][i]
          /\ air'[l][Len(air[l]) + 1] = m

LEMMA AirLonger ==
    ASSUME TypeOK, Messages, Growing, NEW s, NEW m, SentFacts(s, m),
           Stands(m, Len(fanSent'), round', Len(answers')),
           m.kind \in IF s = "temp" THEN {"answer"} ELSE {"fan", "query"}
    PROVE  AirOK'
<1> DEFINE Fits(k, x) == /\ Stands(x, Len(fanSent'), round', Len(answers'))
                         /\ x.kind \in IF k[1] = "temp" THEN {"answer"} ELSE {"fan", "query"}
<1>1. \A k \in Link : \A i \in 1..Len(air[k]) : Fits(k, air[k][i])
  BY DEF Messages, AirOK, Growing, Known
<1>2. \A k \in Link : k[1] = s => Fits(k, m)
  OBVIOUS
<1> HIDE DEF Fits
<1>3. \A k \in Link : k[1] # s => \A i \in 1..Len(air'[k]) : Fits(k, air'[k][i])
  BY <1>1 DEF SentFacts
<1>4. ASSUME NEW k \in Link, k[1] = s PROVE \A i \in 1..Len(air'[k]) : Fits(k, air'[k][i])
  <2>1. PICK n, t : n \in Nat /\ n = Len(air[k]) /\ t = air'[k]
    BY <1>4 DEF SentFacts
  <2> n \in Nat
    BY <2>1
  <2>2. Len(t) = n + 1 /\ t[n + 1] = m /\ \A i \in 1..n : t[i] = air[k][i]
    BY <1>4, <2>1 DEF SentFacts
  <2>3. \A i \in 1..n : Fits(k, t[i])
    BY <1>1, <2>1, <2>2
  <2>4. Fits(k, t[n + 1])
    BY <1>2, <1>4, <2>2
  <2>5. \A i \in 1..(n + 1) : Fits(k, t[i])
    BY <2>3, <2>4
  <2> QED BY <2>1, <2>2, <2>5
<1>5. \A k \in Link : \A i \in 1..Len(air'[k]) : Fits(k, air'[k][i])
  BY <1>3, <1>4
<1> QED BY <1>5 DEF AirOK, Known, Fits

LEMMA SendEffect ==
    ASSUME TypeOK, Messages, CoordinatorSend
    PROVE  /\ \E q \in Nat : DropFacts("coordinator", q)
           /\ Queue[1].kind = "serial" /\ 1 \in Serials
           /\ Known(Voice(1)) /\ Voice(1) \in Command
           /\ SentFacts("coordinator", Voice(1))
<1>1. /\ events["coordinator"] # <<>> /\ Head(events["coordinator"]).kind = "serial"
      /\ events' = Drop("coordinator") /\ "coordinator" \in Node
      /\ air' = BroadcastFrom("coordinator", Heard(Head(events["coordinator"]).chunk))
  BY DEF CoordinatorSend, NextEvent, Node
<1>2. PICK q \in Nat : DropFacts("coordinator", q)
  BY <1>1, DropEffect
<1>3. Head(Queue) = Queue[1] /\ Queue[1] \in Event /\ q = Len(Queue) /\ q >= 1
  BY <1>2 DEF DropFacts, Queue
<1>4. Queue[1].kind = "serial"
  BY <1>1, <1>3 DEF Queue
<1>5. 1 \in Serials
  BY <1>3, <1>4 DEF Serials
<1>6. Queue[1].chunk # <<>> /\ Known(Voice(1))
  BY <1>5 DEF Messages, QueueOK
<1>7. Voice(1) \in Command
  <2>1. Queue[1].chunk \in Seq(Command)
    BY <1>3 DEF Event
  <2>2. Head(Queue[1].chunk) \in Command
    BY <1>6, <2>1, HeadTailProperties
  <2> QED BY <2>2 DEF Voice, Heard
<1>8. Voice(1) \in Message /\ air' = BroadcastFrom("coordinator", Voice(1))
  BY <1>1, <1>3, <1>7 DEF Voice, Queue, Command, Message
<1>9. SentFacts("coordinator", Voice(1))
  BY <1>8, Sent DEF SentFacts
<1> QED BY <1>2, <1>4, <1>5, <1>6, <1>7, <1>9

LEMMA MessagesSend ==
    ASSUME TypeOK, Messages, CoordinatorSend
    PROVE  TypeOK' /\ Messages'
<1>1. UNCHANGED <<fanSent, round, tpc, reading, wire, rx, new_cmd, answers, pin, fanLast,
                  missed, lost, restarts, answerLength>>
  BY DEF CoordinatorSend, monitorVars, lineVars, ghostVars
<1>2. PICK q \in Nat : DropFacts("coordinator", q)
  BY SendEffect
<1>3. SentFacts("coordinator", Voice(1)) /\ Known(Voice(1)) /\ Voice(1) \in Command
  BY SendEffect
<1>4. TypeOK'
  BY <1>1, <1>2, <1>3 DEF TypeOK, DropFacts, SentFacts, Event
<1>5. Growing
  BY <1>1, SameKnown
<1>6. CountsOK'
  BY <1>1 DEF Messages, CountsOK
<1>7. AirOK'
  <2>1. Voice(1).kind \in {"fan", "query"}
    BY <1>3 DEF Command
  <2>2. Stands(Voice(1), Len(fanSent'), round', Len(answers'))
    BY <1>1, <1>3 DEF Known
  <2> QED BY <1>3, <1>5, <2>1, <2>2, AirLonger
<1>8. QueueOK' /\ BufferOK'
  BY <1>1, <1>2, <1>5, QueueShorter DEF Node
<1>9. BytesOK'
  BY <1>1 DEF Messages, BytesOK
<1> QED BY <1>1, <1>4, <1>5, <1>6, <1>7, <1>8, <1>9, Kept DEF Messages

\* The coordinator writes the answer in its buffer.
WriteFacts(r, n) ==
    /\ r = Len(rx) /\ n = new_cmd["coordinator"].n
    /\ rx' \in Seq(AnswerByte) /\ Len(rx') = r + answerLength
    /\ \A i \in 1..r : rx'[i] = rx[i]
    /\ \A i \in 1..answerLength : rx'[r + i] = [answer |-> n, pos |-> i]

LEMMA WriteEffect ==
    ASSUME TypeOK, Messages, CoordinatorWrite
    PROVE  /\ \E q \in Nat : DropFacts("coordinator", q)
           /\ Queue[1].kind = "radio"
           /\ \E r \in Nat : WriteFacts(r, new_cmd["coordinator"].n)
           /\ new_cmd["coordinator"].n \in 1..Len(answers)
<1>1. /\ events["coordinator"] # <<>> /\ Head(events["coordinator"]).kind = "radio"
      /\ events' = Drop("coordinator") /\ "coordinator" \in Node
      /\ rx' = rx \o Bytes(new_cmd["coordinator"])
  BY DEF CoordinatorWrite, NextEvent, Node
<1>2. PICK q \in Nat : DropFacts("coordinator", q)
  BY <1>1, DropEffect
<1>3. Head(Queue) = Queue[1] /\ q = Len(Queue) /\ q >= 1
  BY <1>2 DEF DropFacts, Queue
<1>4. Queue[1].kind = "radio"
  BY <1>1, <1>3 DEF Queue
<1>5. new_cmd["coordinator"] \in Message
  BY <1>1 DEF TypeOK
<1>6. /\ rx' \in Seq(AnswerByte) /\ Len(rx) \in Nat /\ Len(rx') = Len(rx) + answerLength
      /\ \A i \in 1..Len(rx) : rx'[i] = rx[i]
      /\ \A i \in 1..answerLength :
            rx'[Len(rx) + i] = [answer |-> new_cmd["coordinator"].n, pos |-> i]
  BY <1>1, <1>5, Written
<1>7. PICK r \in Nat : r = Len(rx)
  BY <1>6
<1>8. WriteFacts(r, new_cmd["coordinator"].n)
  BY ONLY <1>6, <1>7 DEF WriteFacts
<1>9. new_cmd["coordinator"].kind = "answer" /\ Known(new_cmd["coordinator"])
  BY <1>1, <1>3, <1>4 DEF Messages, BufferOK
<1> QED BY <1>2, <1>4, <1>8, <1>9 DEF Known, Stands

LEMMA MessagesWrite ==
    ASSUME TypeOK, Messages, CoordinatorWrite
    PROVE  TypeOK' /\ Messages'
<1>1. UNCHANGED <<fanSent, round, tpc, reading, wire, new_cmd, air, answers, pin, fanLast,
                  missed, lost, restarts, answerLength>>
  BY DEF CoordinatorWrite, monitorVars, ghostVars
<1>2. PICK q \in Nat : DropFacts("coordinator", q)
  BY WriteEffect
<1>3. PICK n, r \in Nat : WriteFacts(r, n) /\ n \in 1..Len(answers)
  BY WriteEffect
<1>4. TypeOK'
  BY <1>1, <1>2, <1>3 DEF TypeOK, DropFacts, WriteFacts, Event, AnswerByte
<1>5. Growing
  BY <1>1, SameKnown
<1>6. CountsOK'
  BY <1>1 DEF Messages, CountsOK
<1>7. QueueOK' /\ BufferOK'
  BY <1>1, <1>2, <1>5, QueueShorter DEF Node
<1>8. BytesOK'
  <2>1. PICK a \in Nat : a = Len(answers)
    BY Numbers
  <2>2. \A i \in 1..r : rx'[i].answer \in 1..a
    BY <1>3, <2>1 DEF Messages, BytesOK, WriteFacts
  <2>3. \A i \in 1..answerLength : rx'[r + i].answer \in 1..a
    <3>1. \A i \in 1..answerLength : rx'[r + i] = [answer |-> n, pos |-> i]
      BY <1>3 DEF WriteFacts
    <3>2. n \in 1..a
      BY <1>3, <2>1
    <3>3. ASSUME NEW i \in 1..answerLength PROVE rx'[r + i].answer = n
      <4>1. rx'[r + i] = [answer |-> n, pos |-> i]
        BY <3>1
      <4>2. [answer |-> n, pos |-> i].answer = n
        OBVIOUS
      <4> QED BY ONLY <4>1, <4>2
    <3> QED BY <3>2, <3>3
  <2>4. PICK b \in Nat : b = answerLength
    BY Numbers
  <2>5. \A i \in 1..(r + b) : rx'[i].answer \in 1..a
    <3>1. ASSUME NEW i \in 1..(r + b) PROVE rx'[i].answer \in 1..a
      <4>1. CASE i <= r
        BY <2>2, <4>1
      <4>2. CASE ~(i <= r)
        <5>1. i - r \in 1..b /\ r + (i - r) = i
          BY <4>2
        <5> QED BY <2>3, <2>4, <5>1
      <4> QED BY <4>1, <4>2
    <3> QED BY <3>1
  <2>6. Len(rx') = r + b /\ \A i \in 1..7 : reading'[i].answer \in 0..Len(answers')
    BY <1>1, <1>3, <2>4 DEF WriteFacts, Messages, BytesOK
  <2> QED BY <1>1, <2>1, <2>5, <2>6 DEF BytesOK
<1> QED BY <1>1, <1>4, <1>5, <1>6, <1>7, <1>8, Kept DEF Messages

\* The temperature node, whose buffer holds the query, answers; a answers were before.
MeasureFacts(a) ==
    /\ a = Len(answers)
    /\ answers' \in Seq(Measurement) /\ Len(answers') = a + 1
    /\ \A i \in 1..a : answers'[i] = answers[i]
    /\ answers'[a + 1].query = new_cmd["temp"].n
    /\ SentFacts("temp", Answer(a + 1))

LEMMA MeasureEffect ==
    ASSUME TypeOK, Messages, TempControl
    PROVE  /\ \E q \in Nat : DropFacts("temp", q)
           /\ \E a \in Nat : MeasureFacts(a)
           /\ new_cmd["temp"].n \in 1..round
<1>1. /\ events["temp"] # <<>> /\ events' = Drop("temp") /\ "temp" \in Node
      /\ new_cmd["temp"].kind = "query"
  BY DEF TempControl, NextEvent, Node
<1>2. PICK d \in Tens :
         /\ answers' = Append(answers, [query |-> new_cmd["temp"].n, tens |-> d])
         /\ air' = BroadcastFrom("temp", Answer(Len(answers) + 1))
  BY DEF TempControl
<1>3. PICK q \in Nat : DropFacts("temp", q)
  BY <1>1, DropEffect
<1>4. new_cmd["temp"].n \in 1..round
  BY <1>1 DEF Messages, BufferOK, Known, Stands
<1>5. PICK a, m : a \in Nat /\ a = Len(answers) /\ m = [query |-> new_cmd["temp"].n, tens |-> d]
  BY Numbers
<1> a \in Nat
  BY <1>5
<1>6. m \in Measurement /\ m.query = new_cmd["temp"].n
  <2>1. new_cmd["temp"].n \in 1..MaxEvents
    BY <1>4, Numbers
  <2> QED BY <1>5, <2>1 DEF Measurement
<1>7. answers' = Append(answers, m)
  BY <1>2, <1>5
<1>8. /\ answers' \in Seq(Measurement) /\ Len(answers') = a + 1
      /\ \A i \in 1..a : answers'[i] = answers[i]
      /\ answers'[a + 1] = m
  BY <1>5, <1>6, <1>7, Lists, AppendS
<1>9. Answer(a + 1) \in Message /\ air' = BroadcastFrom("temp", Answer(a + 1))
  BY <1>2, <1>5 DEF Answer, Message
<1>10. SentFacts("temp", Answer(a + 1))
  BY <1>9, Sent DEF SentFacts
<1>11. MeasureFacts(a)
  BY ONLY <1>5, <1>6, <1>8, <1>10 DEF MeasureFacts
<1> QED BY <1>3, <1>4, <1>11

LEMMA MessagesMeasure ==
    ASSUME TypeOK, Messages, TempControl
    PROVE  TypeOK' /\ Messages'
<1>1. UNCHANGED <<fanSent, round, tpc, reading, wire, rx, new_cmd, pin, fanLast,
                  missed, lost, restarts, answerLength>>
  BY DEF TempControl, monitorVars, lineVars, ghostVars
<1>2. PICK q \in Nat : DropFacts("temp", q)
  BY MeasureEffect
<1>3. PICK a \in Nat : MeasureFacts(a)
  BY MeasureEffect
<1>4. TypeOK'
  BY <1>1, <1>2, <1>3 DEF TypeOK, DropFacts, MeasureFacts, SentFacts, Event, Measurement
<1>5. a = Len(answers) /\ Len(answers') = a + 1 /\ SentFacts("temp", Answer(a + 1))
  BY <1>3 DEF MeasureFacts
<1>6. Growing
  <2>1. PICK f \in Nat : f = Len(fanSent)
    BY Numbers
  <2>2. round \in Nat /\ a <= a + 1 /\ a + 1 \in Nat
    BY Numbers
  <2>3. \A m : Stands(m, f, round, a) => Stands(m, f, round, a + 1)
    BY <2>2, Grown
  <2> QED BY <1>1, <1>5, <2>1, <2>3 DEF Growing
<1>7. CountsOK'
  <2>1. \A i \in 1..a : answers'[i].query \in 1..round
    BY <1>3 DEF MeasureFacts, Messages, CountsOK
  <2>2. answers'[a + 1].query \in 1..round
    BY <1>3, MeasureEffect DEF MeasureFacts
  <2>3. \A i \in 1..(a + 1) : answers'[i].query \in 1..round
    BY <2>1, <2>2
  <2> QED BY <1>1, <1>5, <2>3 DEF Messages, CountsOK
<1>8. AirOK'
  <2>1. Answer(a + 1).kind \in {"answer"}
    BY DEF Answer
  <2>2. Stands(Answer(a + 1), Len(fanSent'), round', a + 1)
    BY DEF Answer, Stands
  <2> QED BY <1>5, <1>6, <2>1, <2>2, AirLonger
<1>9. QueueOK' /\ BufferOK'
  BY <1>1, <1>2, <1>6, QueueShorter DEF Node
<1>10. BytesOK'
  <2>1. /\ \A i \in 1..Len(rx) : rx[i].answer \in 1..a
        /\ \A i \in 1..7 : reading[i].answer \in 0..a
    BY <1>5 DEF Messages, BytesOK
  <2>2. 1..a \subseteq 1..(a + 1) /\ 0..a \subseteq 0..(a + 1)
    OBVIOUS
  <2>3. /\ \A i \in 1..Len(rx) : rx[i].answer \in 1..(a + 1)
        /\ \A i \in 1..7 : reading[i].answer \in 0..(a + 1)
    BY ONLY <2>1, <2>2
  <2> QED BY <1>1, <1>5, <2>3 DEF BytesOK
<1> QED BY <1>1, <1>4, <1>6, <1>7, <1>8, <1>9, <1>10, Kept DEF Messages

LEMMA MessagesIgnore ==
    ASSUME TypeOK, Messages, TempIgnores
    PROVE  TypeOK' /\ Messages'
<1>1. UNCHANGED <<fanSent, round, tpc, reading, wire, rx, new_cmd, air, answers, pin, fanLast,
                  missed, lost, restarts, answerLength>>
  BY DEF TempIgnores, monitorVars, lineVars, ghostVars
<1>2. events["temp"] # <<>> /\ events' = Drop("temp") /\ "temp" \in Node
  BY DEF TempIgnores, NextEvent, Node
<1>3. PICK q \in Nat : DropFacts("temp", q)
  BY <1>2, DropEffect
<1>4. TypeOK'
  BY <1>1, <1>3 DEF TypeOK, DropFacts, Event
<1>5. Growing
  BY <1>1, SameKnown
<1>6. QueueOK' /\ BufferOK'
  BY <1>1, <1>2, <1>3, <1>5, QueueShorter
<1>7. CountsOK' /\ BytesOK'
  BY <1>1 DEF Messages, CountsOK, BytesOK
<1> QED BY <1>1, <1>4, <1>5, <1>6, <1>7, Kept DEF Messages

\* What the fan node makes of a message.
LEMMA Digits ==
    ASSUME TypeOK, NEW m
    PROVE  FirstDigit(m) \in {0, 1} =>
              \/ m.kind = "fan" /\ fanSent[m.n] = "0" /\ FirstDigit(m) = 0
              \/ m.kind = "fan" /\ fanSent[m.n] = "1" /\ FirstDigit(m) = 1
              \/ m.kind = "answer" /\ FirstDigit(m) = answers[m.n].tens
BY DEF FirstDigit

LEMMA FanEffect ==
    ASSUME TypeOK, Messages, FanControl
    PROVE  /\ UNCHANGED <<fanSent, round, tpc, reading, wire, rx, new_cmd, air, answers,
                          missed, lost, restarts, answerLength>>
           /\ \E q \in Nat : DropFacts("fan", q)
           /\ \/ UNCHANGED fanLast
              \/ /\ new_cmd["fan"].kind = "fan" /\ FirstDigit(new_cmd["fan"]) \in {0, 1}
                 /\ fanLast' = new_cmd["fan"].n /\ pin' = FirstDigit(new_cmd["fan"])
           /\ pin' \in {0, 1} /\ fanLast' \in 0..Len(fanSent)
<1>1. UNCHANGED <<fanSent, round, tpc, reading, wire, rx, new_cmd, air, answers,
                          missed, lost, restarts, answerLength>>
  BY DEF FanControl, monitorVars, lineVars, ghostVars
<1>2. events["fan"] # <<>> /\ events' = Drop("fan") /\ "fan" \in Node
  BY DEF FanControl, NextEvent, Node
<1>3. \E q \in Nat : DropFacts("fan", q)
  BY <1>2, DropEffect
<1>4. PICK m : m = new_cmd["fan"]
  OBVIOUS
<1>5. /\ pin' = IF FirstDigit(m) \in {0, 1} THEN FirstDigit(m) ELSE pin
      /\ fanLast' = IF m.kind = "fan" /\ FirstDigit(m) \in {0, 1} THEN m.n ELSE fanLast
  BY <1>4 DEF FanControl
<1>6. pin' \in {0, 1}
  BY <1>5 DEF TypeOK
<1>7. fanLast' \in 0..Len(fanSent)
  <2>1. PICK f \in Nat : f = Len(fanSent)
    BY Numbers
  <2>2. Known(m)
    BY <1>2, <1>4 DEF Messages, BufferOK
  <2>3. m.kind = "fan" => m.n \in 1..f
    BY <2>1, <2>2 DEF Known, Stands
  <2>4. fanLast \in 0..f
    BY <2>1, Numbers DEF Messages, CountsOK
  <2> QED BY <1>5, <2>1, <2>3, <2>4
<1> QED BY <1>1, <1>3, <1>4, <1>5, <1>6, <1>7

LEMMA MessagesFan ==
    ASSUME TypeOK, Messages, FanControl
    PROVE  TypeOK' /\ Messages'
<1>1. UNCHANGED <<fanSent, round, tpc, reading, wire, rx, new_cmd, air, answers,
                  missed, lost, restarts, answerLength>>
  BY FanEffect
<1>2. PICK q \in Nat : DropFacts("fan", q)
  BY FanEffect
<1>3. PICK f \in Nat : f = Len(fanSent)
  BY Numbers
<1>4. pin' \in {0, 1} /\ fanLast' \in 0..f
  BY <1>3, FanEffect
<1>5. f <= MaxEvents
  BY <1>3, Numbers DEF Messages, CountsOK
<1>6. fanLast' \in 0..MaxEvents
  BY <1>4, <1>5, Numbers
<1>7. TypeOK'
  BY <1>1, <1>2, <1>4, <1>6 DEF TypeOK, DropFacts, Event
<1>8. Growing
  BY <1>1, SameKnown
<1>9. QueueOK' /\ BufferOK'
  BY <1>1, <1>2, <1>8, QueueShorter DEF Node
<1>10. CountsOK'
  BY <1>1, <1>3, <1>4 DEF Messages, CountsOK
<1>11. BytesOK'
  BY <1>1 DEF Messages, BytesOK
<1> QED BY <1>1, <1>7, <1>8, <1>9, <1>10, <1>11, Kept DEF Messages

LEMMA MessagesStutter ==
    ASSUME TypeOK, Messages, UNCHANGED vars
    PROVE  TypeOK' /\ Messages'
<1>1. UNCHANGED <<fanSent, round, tpc, reading, wire, rx, events, new_cmd, air, answers, pin,
                  fanLast, missed, lost, restarts, answerLength>>
  BY DEF vars, monitorVars, lineVars, netVars, ghostVars
<1>2. TypeOK'
  BY <1>1 DEF TypeOK
<1>3. Growing
  BY <1>1, SameKnown
<1>4. CountsOK' /\ BytesOK'
  BY <1>1 DEF Messages, CountsOK, BytesOK
<1> QED BY <1>1, <1>2, <1>3, <1>4, Kept DEF Messages

LEMMA StepCases ==
    ASSUME [Next]_vars
    PROVE  \/ \E t \in Texts : FanWrite(t)
           \/ TransferWrite \/ TransferRead \/ Restart
           \/ SerialCallback \/ (\E l \in Link : Incoming(l))
           \/ CoordinatorSend \/ CoordinatorWrite
           \/ TempControl \/ TempIgnores \/ FanControl
           \/ (\E l \in Link : Lose(l))
           \/ UNCHANGED vars
BY DEF Next, NodeStep

LEMMA MessagesNext ==
    ASSUME TypeOK, Messages, [Next]_vars
    PROVE  TypeOK' /\ Messages'
BY StepCases, MessagesFanWrite, MessagesTransferWrite, MessagesTransferRead, MessagesRestart,
   MessagesCallback, MessagesIncoming, MessagesSend, MessagesWrite, MessagesMeasure,
   MessagesIgnore, MessagesFan, MessagesLose, MessagesStutter

-----------------------------------------------------------------------------
(* The pin of the fan *)

LEMMA FanDigit ==
    ASSUME NEW k
    PROVE  FirstDigit(Fan(k)) = IF fanSent[k] = "0" THEN 0
                                ELSE IF fanSent[k] = "1" THEN 1 ELSE 2
BY DEF FirstDigit, Fan

LEMMA PinNext ==
    ASSUME TypeOK, Messages, PinAsCommanded, [Next]_vars
    PROVE  PinAsCommanded'
<1> DEFINE Code(t) == IF t = "0" THEN 0 ELSE IF t = "1" THEN 1 ELSE 2
           Plain == \A i \in 1..Len(answers) : answers[i].tens \notin {0, 1}
<1>1. fanLast # 0 /\ Plain => pin = Code(fanSent[fanLast])
  <2>1. DOMAIN answers = 1..Len(answers)
    BY Lists, LenProperties
  <2>2. Plain => \A i \in DOMAIN answers : answers[i].tens \notin {0, 1}
    BY <2>1
  <2> HIDE DEF Plain
  <2> QED BY <2>2, FanDigit DEF PinAsCommanded
<1>2. ASSUME fanLast' # 0 /\ Plain' => pin' = Code(fanSent'[fanLast'])
      PROVE  PinAsCommanded'
  <2>1. answers' \in Seq(Measurement)
    BY MessagesNext DEF TypeOK, Measurement
  <2>2. DOMAIN answers' = 1..Len(answers')
    BY <2>1, LenProperties
  <2>3. FirstDigit(Fan(fanLast))' = Code(fanSent'[fanLast'])
    BY DEF FirstDigit, Fan
  <2>4. (\A i \in DOMAIN answers' : answers'[i].tens \notin {0, 1}) => Plain'
    BY <2>2
  <2> HIDE DEF Plain, Code
  <2> QED BY <1>2, <2>3, <2>4 DEF PinAsCommanded
<1> HIDE DEF Code
<1>3. ASSUME NEW t \in Texts, FanWrite(t) PROVE PinAsCommanded'
  <2>1. UNCHANGED <<answers, pin, fanLast>> /\ fanSent' = Append(fanSent, t)
    BY <1>3 DEF FanWrite
  <2>2. \A i \in 1..Len(fanSent) : fanSent'[i] = fanSent[i]
    BY <2>1, Lists, AppendS
  <2>3. fanLast # 0 => fanLast \in 1..Len(fanSent)
    BY Numbers DEF Messages, CountsOK
  <2> QED BY <1>1, <1>2, <2>1, <2>2, <2>3
<1>4. CASE TempControl
  <2>1. UNCHANGED <<fanSent, pin, fanLast>>
    BY <1>4 DEF TempControl, monitorVars
  <2>2. PICK a \in Nat : MeasureFacts(a)
    BY <1>4, MeasureEffect
  <2>3. a = Len(answers) /\ Len(answers') = a + 1 /\ \A i \in 1..a : answers'[i] = answers[i]
    BY <2>2 DEF MeasureFacts
  <2>4. Plain' => Plain
    <3>1. \A i \in 1..a : i \in 1..(a + 1)
      OBVIOUS
    <3> QED BY <2>3, <3>1
  <2> QED BY <1>1, <1>2, <2>1, <2>4
<1>5. CASE FanControl
  <2>1. PICK m : m = new_cmd["fan"]
    OBVIOUS
  <2>2. /\ pin' = IF FirstDigit(m) \in {0, 1} THEN FirstDigit(m) ELSE pin
        /\ fanLast' = IF m.kind = "fan" /\ FirstDigit(m) \in {0, 1} THEN m.n ELSE fanLast
    BY <1>5, <2>1 DEF FanControl
  <2>3. UNCHANGED <<fanSent, answers>>
    BY <1>5, FanEffect
  <2>4. Known(m)
    BY <2>1 DEF Messages, BufferOK, Node
  <2>5. CASE m.kind = "fan" /\ FirstDigit(m) \in {0, 1}
    <3>1. FirstDigit(m) = Code(fanSent[m.n])
      BY <2>5 DEF FirstDigit, Code
    <3> QED BY <1>2, <2>2, <2>3, <2>5, <3>1
  <2>6. CASE ~(m.kind = "fan" /\ FirstDigit(m) \in {0, 1})
    <3>1. Plain => FirstDigit(m) \notin {0, 1}
      BY <2>4, <2>6, Digits DEF Known, Stands
    <3>2. Plain' <=> Plain
      BY <2>3
    <3> HIDE DEF Plain
    <3> QED BY <1>1, <1>2, <2>2, <2>3, <2>6, <3>1, <3>2
  <2> QED BY <2>5, <2>6
<1>6. CASE UNCHANGED <<fanSent, answers, pin, fanLast>>
  BY <1>6 DEF PinAsCommanded, FirstDigit, Fan
<1>7. \/ \E t \in Texts : FanWrite(t)
      \/ TempControl \/ FanControl
      \/ UNCHANGED <<fanSent, answers, pin, fanLast>>
  BY StepCases DEF TransferWrite, TransferRead, Restart, SerialCallback, Incoming, CoordinatorSend,
     CoordinatorWrite, TempIgnores, Lose, vars, monitorVars, lineVars
<1> QED BY <1>3, <1>4, <1>5, <1>6, <1>7

-----------------------------------------------------------------------------
(* Something is under way to the transfer thread *)

LEMMA PendingNext ==
    ASSUME TypeOK, Messages, Pending, [Next]_vars
    PROVE  Pending'
<1> SUFFICES ASSUME tpc' = "asked", round' \notin missed', ~(lost' > 0)
             PROVE  UnderWay'
  BY DEF Pending
<1>1. ASSUME NEW t \in Texts, FanWrite(t) PROVE UnderWay'
  <2>1. UNCHANGED <<round, tpc, rx, events, new_cmd, air, missed, lost>>
    BY <1>1 DEF FanWrite, netVars, ghostVars
  <2>2. UnderWay
    BY <2>1 DEF Pending
  <2>3. Fan(Len(fanSent) + 1) \in Command /\ wire' = Append(wire, Fan(Len(fanSent) + 1))
    BY <1>1, Numbers DEF FanWrite, Fan, Command
  <2>4. PICK n \in Nat : n = Len(wire) /\ Len(wire') = n + 1 /\ \A i \in 1..n : wire'[i] = wire[i]
    BY <2>3, Lists, AppendS
  <2>5. (\E i \in 1..Len(wire) : wire[i] = Query(round))
           => \E i \in 1..Len(wire') : wire'[i] = Query(round')
    <3>1. \A i \in 1..n : i \in 1..(n + 1)
      OBVIOUS
    <3> QED BY <2>1, <2>4, <3>1
  <2> QED BY <2>1, <2>2, <2>5 DEF UnderWay, Serials, Voice, Queue
<1>2. CASE TransferWrite
  <2>1. Query(round + 1) \in Command /\ round' = round + 1
        /\ wire' = Append(wire, Query(round + 1))
    BY <1>2, Numbers DEF TransferWrite, Query, Command
  <2>2. PICK n \in Nat : n = Len(wire) /\ Len(wire') = n + 1 /\ wire'[n + 1] = Query(round')
    BY <2>1, Lists, AppendS
  <2>3. n + 1 \in 1..Len(wire')
    BY <2>2
  <2> QED BY <2>2, <2>3 DEF UnderWay
<1>3. CASE TransferRead \/ Restart
  BY <1>3 DEF TransferRead, Restart
<1>4. CASE SerialCallback
  <2>1. UNCHANGED <<round, tpc, rx, new_cmd, air, lost>>
    BY <1>4 DEF SerialCallback, monitorVars
  <2>2. PICK k \in Nat, w \in Nat, q \in Nat, c \in Seq(Command) : CallbackFacts(k, w, q, c)
    BY <1>4, CallbackEffect
  <2>3. round \notin missed
    BY <2>1, <2>2 DEF CallbackFacts
  <2>4. UnderWay
    BY <2>1, <2>3 DEF Pending
  <2>5. /\ q = Len(Queue) /\ Len(Queue') = q + 1
        /\ \A i \in 1..q : Queue'[i] = Queue[i] /\ i \in 1..(q + 1)
    BY <2>2 DEF CallbackFacts
  <2>6. Queue'[q + 1].kind = "serial" /\ Heard(Queue'[q + 1].chunk) = wire[1]
        /\ q + 1 \in 1..(q + 1)
    BY <2>2 DEF CallbackFacts, Serial
  <2>7. ASSUME NEW i \in 1..Len(wire), wire[i] = Query(round) PROVE UnderWay'
    <3>1. w = Len(wire) /\ k \in 1..w /\ i \in 1..w
      BY <2>2 DEF CallbackFacts
    <3>2. CASE i = 1
      <4>1. q + 1 \in Serials' /\ Voice(q + 1)' = Query(round)
        BY <2>5, <2>6, <2>7, <3>2 DEF Serials, Voice
      <4> QED BY <2>1, <4>1 DEF UnderWay
    <3>3. CASE i \in 2..k
      <4>1. wire[i].kind = "query" /\ wire[i].n = round
        BY <2>7 DEF Query
      <4>2. round \in missed'
        BY <2>2, <3>3, <4>1 DEF CallbackFacts
      <4> QED BY <2>1, <4>2
    <3>4. CASE i \notin 1..k
      <4>1. i - k \in 1..(w - k) /\ (i - k) + k = i
        BY <3>1, <3>4
      <4>2. wire'[i - k] = wire[i] /\ Len(wire') = w - k
        BY <2>2, <4>1 DEF CallbackFacts
      <4> QED BY <2>1, <2>7, <4>1, <4>2 DEF UnderWay
    <3> QED BY <3>1, <3>2, <3>3, <3>4
  <2>8. ASSUME NEW i \in Serials, Voice(i) = Query(round) PROVE UnderWay'
    <3>1. i \in 1..q /\ Queue[i].kind = "serial"
      BY <2>5 DEF Serials
    <3>2. i \in Serials' /\ Voice(i)' = Query(round)
      BY <2>5, <2>8, <3>1 DEF Serials, Voice
    <3> QED BY <2>1, <3>2 DEF UnderWay
  <2>9. ASSUME NEW i \in 1..Len(Queue), Queue[i].kind = "radio" PROVE UnderWay'
    <3>1. i \in 1..Len(Queue') /\ Queue'[i].kind = "radio"
      BY <2>5, <2>9
    <3> QED BY <3>1 DEF UnderWay
  <2>10. events'["temp"] = events["temp"]
    BY <2>2 DEF CallbackFacts, Node
  <2> QED BY <2>1, <2>4, <2>7, <2>8, <2>9, <2>10 DEF UnderWay
<1>5. ASSUME NEW l \in Link, Incoming(l) PROVE UnderWay'
  <2>1. UNCHANGED <<round, tpc, wire, rx, lost>>
    BY <1>5 DEF Incoming, monitorVars, lineVars
  <2>2. PICK n \in Node, q \in Nat, a \in Nat : IncomingFacts(l, n, q, a)
    BY <1>5, IncomingEffect
  <2>3. /\ n = l[2] /\ q = Len(events[n]) /\ a = Len(air[l]) /\ a >= 1
        /\ \A m \in Node \ {n} : events'[m] = events[m]
        /\ Len(events'[n]) = q + 1 /\ \A i \in 1..q : events'[n][i] = events[n][i]
        /\ events'[n][q + 1] = Radio
        /\ \A k \in Link \ {l} : air'[k] = air[k]
        /\ Len(air'[l]) = a - 1
        /\ \A i \in 1..(a - 1) : air'[l][i] = air[l][i + 1]
    BY <2>2 DEF IncomingFacts
  <2>4. \A m \in Node : new_cmd'[m] = IF m = n THEN air[l][1] ELSE new_cmd[m]
    BY <2>2 DEF IncomingFacts, TypeOK
  <2>5. events'[n] # <<>>
    <3>1. events'[n] \in Seq(Event) /\ Len(events'[n]) = q + 1
      BY <2>2 DEF IncomingFacts
    <3>2. Len(events'[n]) # 0
      BY <3>1
    <3> QED BY <3>1, <3>2, EmptyS
  <2>6. n = "temp" /\ events["temp"] # <<>> /\ new_cmd["temp"] = Query(round) => round \in missed'
    BY <2>2 DEF IncomingFacts, Unseen, Query
  <2>7. round \notin missed
    BY <2>1, <2>2 DEF IncomingFacts
  <2>8. UnderWay
    BY <2>1, <2>7 DEF Pending
  <2>9. CASE l = TempCoord
    <3>1. n = "coordinator"
      BY <2>3, <2>9, Links
    <3>2. q + 1 \in 1..Len(Queue') /\ Queue'[q + 1].kind = "radio"
      BY <2>3, <3>1 DEF Queue, Radio
    <3> QED BY <3>2 DEF UnderWay
  <2>10. CASE l = CoordTemp
    <3>1. n = "temp"
      BY <2>3, <2>10, Links
    <3>2. UNCHANGED Queue /\ air'[TempCoord] = air[TempCoord]
      BY <2>3, <2>10, <3>1, Links DEF Queue, Node
    <3>3. ASSUME NEW i \in 1..a, air[l][i] = Query(round) PROVE UnderWay'
      <4>1. CASE i = 1
        <5>1. new_cmd'["temp"] = Query(round) /\ events'["temp"] # <<>>
          BY <2>4, <2>5, <3>1, <3>3, <4>1
        <5> QED BY <2>1, <5>1 DEF UnderWay
      <4>2. CASE i # 1
        <5>1. i - 1 \in 1..(a - 1) /\ (i - 1) + 1 = i
          BY <4>2
        <5>2. air'[l][i - 1] = Query(round)
          BY <2>3, <3>3, <5>1
        <5> QED BY <2>1, <2>3, <2>10, <5>1, <5>2 DEF UnderWay
      <4> QED BY <4>1, <4>2
    <3>4. ~(new_cmd["temp"] = Query(round) /\ events["temp"] # <<>>)
      BY <2>1, <2>6, <3>1
    <3>5. ASSUME NEW i \in Serials, Voice(i) = Query(round) PROVE UnderWay'
      BY <2>1, <3>2, <3>5 DEF UnderWay, Serials, Voice
    <3> QED BY <2>1, <2>3, <2>8, <2>10, <3>2, <3>3, <3>4, <3>5 DEF UnderWay
  <2>11. CASE l # TempCoord /\ l # CoordTemp
    <3>1. n # "temp" /\ n # "coordinator"
      BY <2>3, <2>11, Links
    <3>2. /\ UNCHANGED Queue /\ air'[TempCoord] = air[TempCoord]
          /\ air'[CoordTemp] = air[CoordTemp]
          /\ events'["temp"] = events["temp"] /\ new_cmd'["temp"] = new_cmd["temp"]
      BY <2>3, <2>4, <2>11, <3>1, Links DEF Queue, Node
    <3> QED BY <2>1, <2>8, <3>2 DEF UnderWay, Serials, Voice
  <2> QED BY <2>9, <2>10, <2>11
<1>6. CASE CoordinatorSend
  <2>1. UNCHANGED <<round, tpc, wire, rx, new_cmd, missed, lost>>
    BY <1>6 DEF CoordinatorSend, monitorVars, lineVars, ghostVars
  <2>2. UnderWay
    BY <2>1 DEF Pending
  <2>3. PICK q \in Nat : DropFacts("coordinator", q)
    BY <1>6, SendEffect
  <2>4. /\ q = Len(Queue) /\ q >= 1 /\ Len(Queue') = q - 1
        /\ \A i \in 1..(q - 1) : Queue'[i] = Queue[i + 1]
        /\ events'["temp"] = events["temp"]
    BY <2>3 DEF DropFacts, Queue, Node
  <2>5. Queue[1].kind = "serial" /\ SentFacts("coordinator", Voice(1))
    BY <1>6, SendEffect
  <2>6. air'[TempCoord] = air[TempCoord]
    BY <2>5, Links DEF SentFacts
  <2>7. PICK a \in Nat :
           /\ a = Len(air[CoordTemp]) /\ Len(air'[CoordTemp]) = a + 1
           /\ \A i \in 1..a : air'[CoordTemp][i] = air[CoordTemp][i] /\ i \in 1..(a + 1)
           /\ air'[CoordTemp][a + 1] = Voice(1) /\ a + 1 \in 1..(a + 1)
    <3>1. CoordTemp \in Link /\ CoordTemp[1] = "coordinator"
      BY Links
    <3>2. /\ Len(air[CoordTemp]) \in Nat /\ Len(air'[CoordTemp]) = Len(air[CoordTemp]) + 1
          /\ \A i \in 1..Len(air[CoordTemp]) : air'[CoordTemp][i] = air[CoordTemp][i]
          /\ air'[CoordTemp][Len(air[CoordTemp]) + 1] = Voice(1)
      BY <2>5, <3>1 DEF SentFacts
    <3>3. PICK a \in Nat : a = Len(air[CoordTemp])
      BY <3>2
    <3>4. a + 1 \in 1..(a + 1) /\ \A i \in 1..a : i \in 1..(a + 1)
      OBVIOUS
    <3> QED BY ONLY <3>2, <3>3, <3>4
  <2>8. \A i \in 2..q : i - 1 \in 1..(q - 1) /\ Queue'[i - 1] = Queue[i]
    <3>1. \A i \in 2..q : i - 1 \in 1..(q - 1) /\ (i - 1) + 1 = i
      OBVIOUS
    <3> QED BY <2>4, <3>1
  <2>9. ASSUME NEW i \in Serials, Voice(i) = Query(round) PROVE UnderWay'
    <3>1. i \in 1..q /\ Queue[i].kind = "serial"
      BY <2>4 DEF Serials
    <3>2. CASE i = 1
      BY <2>1, <2>7, <2>9, <3>2 DEF UnderWay
    <3>3. CASE i # 1
      <4>1. i - 1 \in 1..(q - 1) /\ Queue'[i - 1] = Queue[i]
        BY <2>8, <3>1, <3>3
      <4>2. i - 1 \in Serials' /\ Voice(i - 1)' = Query(round)
        BY <2>4, <2>9, <3>1, <4>1 DEF Serials, Voice
      <4> QED BY <2>1, <4>2 DEF UnderWay
    <3> QED BY <3>2, <3>3
  <2>10. ASSUME NEW i \in 1..Len(Queue), Queue[i].kind = "radio" PROVE UnderWay'
    <3>1. i \in 2..q
      BY <2>4, <2>5, <2>10
    <3>2. i - 1 \in 1..Len(Queue') /\ Queue'[i - 1].kind = "radio"
      BY <2>4, <2>8, <2>10, <3>1
    <3> QED BY <3>2 DEF UnderWay
  <2>11. (\E i \in 1..Len(air[CoordTemp]) : air[CoordTemp][i] = Query(round))
            => \E i \in 1..Len(air'[CoordTemp]) : air'[CoordTemp][i] = Query(round')
    BY <2>1, <2>7
  <2> QED BY <2>1, <2>2, <2>4, <2>6, <2>9, <2>10, <2>11 DEF UnderWay
<1>7. CASE CoordinatorWrite
  <2>1. PICK n, r \in Nat : WriteFacts(r, n)
    BY <1>7, WriteEffect
  <2>2. PICK b \in Nat : b = answerLength /\ b >= 6
    BY Numbers
  <2>3. Len(rx') = r + b /\ rx' \in Seq(AnswerByte)
    BY <2>1, <2>2 DEF WriteFacts
  <2>4. rx' # <<>>
    BY <2>2, <2>3, EmptyS
  <2> QED BY <2>4 DEF UnderWay
<1>8. CASE TempControl
  <2>1. PICK a \in Nat : MeasureFacts(a)
    BY <1>8, MeasureEffect
  <2>2. PICK n \in Nat : n = Len(air[TempCoord]) /\ Len(air'[TempCoord]) = n + 1
    BY <2>1, Links DEF MeasureFacts, SentFacts
  <2>3. air'[TempCoord] \in Seq(Message)
    BY <2>1, Links DEF MeasureFacts, SentFacts
  <2>4. air'[TempCoord] # <<>>
    BY <2>2, <2>3, EmptyS
  <2> QED BY <2>4 DEF UnderWay
<1>9. CASE TempIgnores
  <2>1. UNCHANGED <<round, tpc, wire, rx, new_cmd, air, missed, lost>>
    BY <1>9 DEF TempIgnores, monitorVars, lineVars, ghostVars
  <2>2. UnderWay /\ new_cmd["temp"].kind # "query"
    BY <1>9, <2>1 DEF Pending, TempIgnores
  <2>3. events["temp"] # <<>> /\ events' = Drop("temp") /\ "temp" \in Node
    BY <1>9 DEF TempIgnores, NextEvent, Node
  <2>4. UNCHANGED Queue
    BY <2>3, Dropped DEF Queue, Node
  <2>5. new_cmd["temp"] # Query(round)
    BY <2>2 DEF Query
  <2> QED BY <2>1, <2>2, <2>4, <2>5 DEF UnderWay, Serials, Voice
<1>10. CASE FanControl
  <2>1. UNCHANGED <<round, tpc, wire, rx, new_cmd, air, missed, lost>>
    BY <1>10, FanEffect
  <2>2. UnderWay
    BY <2>1 DEF Pending
  <2>3. UNCHANGED Queue /\ events'["temp"] = events["temp"]
    BY <1>10, FanEffect DEF DropFacts, Queue, Node
  <2> QED BY <2>1, <2>2, <2>3 DEF UnderWay, Serials, Voice
<1>11. ASSUME NEW l \in Link, Lose(l) PROVE UnderWay'
  BY <1>11, Numbers DEF Lose
<1>12. CASE UNCHANGED vars
  BY <1>12 DEF Pending, UnderWay, Serials, Voice, Queue, vars, monitorVars, lineVars, netVars, ghostVars
<1> QED BY StepCases, <1>1, <1>2, <1>3, <1>4, <1>5, <1>6, <1>7, <1>8, <1>9, <1>10, <1>11, <1>12

LEMMA PendingEnough ==
    ASSUME TypeOK, Pending
    PROVE  QueryAnswered
<1> SUFFICES ASSUME Silent, tpc = "asked", UnderWay PROVE FALSE
  BY DEF QueryAnswered, Pending
<1>1. Len(wire) = 0 /\ Len(Queue) = 0 /\ Len(air[CoordTemp]) = 0
  BY Lists, CoordinatorQueue, AirQueues, EmptyS, Links DEF Silent, Queue, Node
<1>2. Serials = {}
  BY <1>1 DEF Serials
<1>3. rx = <<>> /\ events["temp"] = <<>> /\ air[TempCoord] = <<>>
  BY Links DEF Silent, Node
<1> QED BY <1>1, <1>2, <1>3 DEF UnderWay

-----------------------------------------------------------------------------
(* The commands of the fan *)

LEMMA FansCut ==
    ASSUME NEW s, NEW n \in Nat, n = Len(s), NEW k \in 0..n,
           NEW t, Len(t) = n - k, \A i \in 1..(n - k) : t[i] = s[i + k]
    PROVE  /\ Fans(t) \subseteq Fans(s)
           /\ Ordered(s) => Ordered(t)
           /\ Ordered(s) /\ k >= 1 /\ s[1].kind = "fan" => Below({s[1].n}, Fans(t))
           /\ k >= 1 /\ s[1].kind = "fan" => s[1].n \in Fans(s)
<1>1. \A i \in 1..(n - k) : i + k \in 1..n /\ t[i] = s[i + k]
  OBVIOUS
<1>2. Fans(t) \subseteq Fans(s)
  BY <1>1 DEF Fans
<1>3. ASSUME Ordered(s) PROVE Ordered(t)
  <2>1. ASSUME NEW i \in 1..(n - k), NEW j \in 1..(n - k),
               i < j, t[i].kind = "fan", t[j].kind = "fan"
        PROVE  t[i].n < t[j].n
    <3>1. i + k \in 1..n /\ j + k \in 1..n /\ i + k < j + k /\ t[i] = s[i + k] /\ t[j] = s[j + k]
      BY <1>1, <2>1
    <3> QED BY <1>3, <2>1, <3>1 DEF Ordered
  <2> QED BY <2>1 DEF Ordered
<1>4. ASSUME Ordered(s), k >= 1, s[1].kind = "fan" PROVE Below({s[1].n}, Fans(t))
  <2>1. ASSUME NEW i \in 1..(n - k), t[i].kind = "fan" PROVE s[1].n < t[i].n
    <3>1. 1 \in 1..n /\ i + k \in 1..n /\ 1 < i + k /\ t[i] = s[i + k]
      BY <1>1, <1>4
    <3> QED BY <1>4, <2>1, <3>1 DEF Ordered
  <2> QED BY <2>1 DEF Below, Fans
<1>5. ASSUME k >= 1, s[1].kind = "fan" PROVE s[1].n \in Fans(s)
  <2>1. 1 \in 1..Len(s)
    BY <1>5
  <2> QED BY <1>5, <2>1 DEF Fans
<1> QED BY <1>2, <1>3, <1>4, <1>5

LEMMA FansAppend ==
    ASSUME NEW s, NEW n \in Nat, n = Len(s), NEW e,
           NEW t, Len(t) = n + 1, \A i \in 1..n : t[i] = s[i], t[n + 1] = e
    PROVE  /\ Fans(t) \subseteq Fans(s) \cup (IF e.kind = "fan" THEN {e.n} ELSE {})
           /\ Ordered(s) /\ (e.kind = "fan" => Below(Fans(s), {e.n})) => Ordered(t)
<1>1. Fans(t) \subseteq Fans(s) \cup (IF e.kind = "fan" THEN {e.n} ELSE {})
  <2>1. ASSUME NEW i \in 1..(n + 1), t[i].kind = "fan"
        PROVE  t[i].n \in Fans(s) \cup (IF e.kind = "fan" THEN {e.n} ELSE {})
    <3>1. CASE i = n + 1
      BY <2>1, <3>1
    <3>2. CASE i # n + 1
      <4>1. i \in 1..n /\ t[i] = s[i]
        BY <3>2
      <4> QED BY <2>1, <4>1 DEF Fans
    <3> QED BY <3>1, <3>2
  <2> QED BY <2>1 DEF Fans
<1>2. ASSUME Ordered(s), e.kind = "fan" => Below(Fans(s), {e.n}) PROVE Ordered(t)
  <2>1. ASSUME NEW i \in 1..(n + 1), NEW j \in 1..(n + 1),
               i < j, t[i].kind = "fan", t[j].kind = "fan"
        PROVE  t[i].n < t[j].n
    <3>1. i \in 1..n /\ t[i] = s[i]
      BY <2>1
    <3>2. CASE j = n + 1
      <4>1. s[i].n \in Fans(s)
        BY <2>1, <3>1 DEF Fans
      <4> QED BY <1>2, <2>1, <3>1, <3>2, <4>1 DEF Below
    <3>3. CASE j # n + 1
      <4>1. j \in 1..n /\ t[j] = s[j]
        BY <3>3
      <4> QED BY <1>2, <2>1, <3>1, <4>1 DEF Ordered
    <3> QED BY <3>2, <3>3
  <2> QED BY <2>1 DEF Ordered
<1> QED BY <1>1, <1>2

\* The same of the queue of the coordinator.
LEMMA ChunksTail ==
    ASSUME NEW q \in Nat, q = Len(Queue), q >= 1, Len(Queue') = q - 1,
           \A i \in 1..(q - 1) : Queue'[i] = Queue[i + 1]
    PROVE  /\ ChunkFans' \subseteq ChunkFans
           /\ ChunksOrdered => ChunksOrdered'
           /\ ChunksOrdered /\ Queue[1].kind = "serial" /\ Voice(1).kind = "fan"
                 => Below({Voice(1).n}, ChunkFans') /\ Voice(1).n \in ChunkFans
<1>1. \A i \in 1..(q - 1) : i + 1 \in 1..q /\ 1 < i + 1 /\ Queue'[i] = Queue[i + 1]
  OBVIOUS
<1>2. \A i \in Serials' : i \in 1..(q - 1) /\ i + 1 \in Serials /\ Voice(i)' = Voice(i + 1)
  BY <1>1 DEF Serials, Voice
<1>3. ChunkFans' \subseteq ChunkFans
  BY <1>2 DEF ChunkFans
<1>4. ASSUME ChunksOrdered PROVE ChunksOrdered'
  <2>1. ASSUME NEW i \in Serials', NEW j \in Serials', i < j,
               Voice(i)'.kind = "fan", Voice(j)'.kind = "fan"
        PROVE  Voice(i)'.n < Voice(j)'.n
    <3>1. i + 1 < j + 1
      BY <1>2, <2>1
    <3> QED BY <1>2, <1>4, <2>1, <3>1 DEF ChunksOrdered
  <2> QED BY <2>1 DEF ChunksOrdered
<1>5. ASSUME ChunksOrdered, Queue[1].kind = "serial", Voice(1).kind = "fan"
      PROVE  Below({Voice(1).n}, ChunkFans') /\ Voice(1).n \in ChunkFans
  <2>1. 1 \in Serials
    BY <1>5 DEF Serials
  <2>2. ASSUME NEW i \in Serials', Voice(i)'.kind = "fan" PROVE Voice(1).n < Voice(i)'.n
    BY <1>1, <1>2, <1>5, <2>1, <2>2 DEF ChunksOrdered
  <2>3. \A y \in ChunkFans' : Voice(1).n < y
    BY <2>2 DEF ChunkFans
  <2> QED BY <1>5, <2>1, <2>3 DEF Below, ChunkFans
<1> QED BY <1>3, <1>4, <1>5

LEMMA ChunksAppend ==
    ASSUME NEW q \in Nat, q = Len(Queue), NEW e, Len(Queue') = q + 1,
           \A i \in 1..q : Queue'[i] = Queue[i], Queue'[q + 1] = e
    PROVE  LET New == IF e.kind = "serial" /\ Heard(e.chunk).kind = "fan"
                      THEN {Heard(e.chunk).n} ELSE {}
           IN  /\ ChunkFans' \subseteq ChunkFans \cup New
               /\ ChunksOrdered /\ Below(ChunkFans, New) => ChunksOrdered'
<1> DEFINE New == IF e.kind = "serial" /\ Heard(e.chunk).kind = "fan"
                  THEN {Heard(e.chunk).n} ELSE {}
<1>1. ASSUME NEW i \in Serials', Voice(i)'.kind = "fan"
      PROVE  \/ i \in 1..q /\ i \in Serials /\ Voice(i)' = Voice(i)
             \/ i = q + 1 /\ New = {Voice(i)'.n}
  <2>1. i \in 1..(q + 1) /\ Queue'[i].kind = "serial" /\ Voice(i)' = Heard(Queue'[i].chunk)
    BY DEF Serials, Voice
  <2>2. CASE i = q + 1
    BY <1>1, <2>1, <2>2
  <2>3. CASE i # q + 1
    <3>1. i \in 1..q /\ Queue'[i] = Queue[i]
      BY <2>1, <2>3
    <3> QED BY <2>1, <3>1 DEF Serials, Voice
  <2> QED BY <2>2, <2>3
<1>2. ChunkFans' \subseteq ChunkFans \cup New
  <2> HIDE DEF New
  <2>1. ASSUME NEW i \in Serials', Voice(i)'.kind = "fan" PROVE Voice(i)'.n \in ChunkFans \cup New
    <3>1. i \in Serials /\ Voice(i)' = Voice(i) => Voice(i)'.n \in ChunkFans
      BY <2>1 DEF ChunkFans
    <3> QED BY <1>1, <2>1, <3>1
  <2> QED BY <2>1 DEF ChunkFans
<1>3. ASSUME ChunksOrdered, Below(ChunkFans, New) PROVE ChunksOrdered'
  <2> HIDE DEF New
  <2>1. ASSUME NEW i \in Serials', NEW j \in Serials', i < j,
               Voice(i)'.kind = "fan", Voice(j)'.kind = "fan"
        PROVE  Voice(i)'.n < Voice(j)'.n
    <3>1. i \in 1..(q + 1) /\ j \in 1..(q + 1)
      BY DEF Serials
    <3>2. i \in Serials /\ Voice(i)' = Voice(i)
      BY <1>1, <2>1, <3>1
    <3>3. CASE j = q + 1 /\ New = {Voice(j)'.n}
      <4>1. Voice(i).n \in ChunkFans
        BY <2>1, <3>2 DEF ChunkFans
      <4> QED BY <1>3, <3>2, <3>3, <4>1 DEF Below
    <3>4. CASE j \in Serials /\ Voice(j)' = Voice(j)
      BY <1>3, <2>1, <3>2, <3>4 DEF ChunksOrdered
    <3> QED BY <1>1, <2>1, <3>3, <3>4
  <2> QED BY <2>1 DEF ChunksOrdered
<1> QED BY <1>2, <1>3

LEMMA FanNumbers ==
    ASSUME TypeOK, Messages
    PROVE  /\ Len(fanSent) \in Nat
           /\ Newest \in 0..Len(fanSent) /\ fanLast \in 0..Len(fanSent)
           /\ Fans(wire) \subseteq 1..Len(fanSent)
           /\ ChunkFans \subseteq 1..Len(fanSent)
           /\ Fans(air[CoordFan]) \subseteq 1..Len(fanSent)
<1>1. PICK f \in Nat : f = Len(fanSent)
  BY Numbers
<1>2. \A m : Known(m) /\ m.kind = "fan" => m.n \in 1..f
  BY <1>1 DEF Known, Stands
<1>3. fanLast \in 0..f
  BY <1>1, Numbers DEF Messages, CountsOK
<1>4. Newest \in 0..f
  BY <1>2, <1>3 DEF Newest, Messages, BufferOK, Node
<1>5. Fans(wire) \subseteq 1..f
  BY <1>2 DEF Fans, Messages, WireOK
<1>6. ChunkFans \subseteq 1..f
  BY <1>2 DEF ChunkFans, Messages, QueueOK
<1>7. Fans(air[CoordFan]) \subseteq 1..f
  <2>1. \A i \in 1..Len(air[CoordFan]) : Known(air[CoordFan][i])
    BY AirKnown, Links
  <2> QED BY <1>2, <2>1 DEF Fans
<1> QED BY <1>1, <1>3, <1>4, <1>5, <1>6, <1>7

LEMMA BelowFewer ==
    ASSUME NEW S, NEW T, NEW U, NEW V, Below(S, T), U \subseteq S, V \subseteq T
    PROVE  Below(U, V)
BY DEF Below

\* Whatever is dropped on the way, the order stays.
LEMMA FanOrderShrinks ==
    ASSUME TypeOK, Messages, FanOrder,
           Ordered(wire'), ChunksOrdered', Ordered(air'[CoordFan]),
           Fans(wire') \subseteq Fans(wire), ChunkFans' \subseteq ChunkFans,
           Fans(air'[CoordFan]) \subseteq Fans(air[CoordFan]),
           Newest' \in Nat, Newest' <= Newest, fanLast' <= Newest'
    PROVE  FanOrder'
<1> DEFINE F == Fans(air[CoordFan]) \cup ChunkFans \cup Fans(wire)
           FF == Fans(air'[CoordFan]) \cup ChunkFans' \cup Fans(wire')
<1>1. Newest \in Nat /\ F \subseteq Nat
  BY FanNumbers
<1>2. Below({Newest}, F) /\ FF \subseteq F
  BY DEF FanOrder
<1>3. Below({Newest'}, FF)
  <2> HIDE DEF F, FF
  <2>1. ASSUME NEW y \in FF PROVE Newest' < y
    <3>1. Newest < y /\ y \in Nat
      BY <1>1, <1>2 DEF Below
    <3> QED BY <1>1, <3>1
  <2> QED BY <2>1 DEF Below
<1>4. Below(Fans(air'[CoordFan]), ChunkFans' \cup Fans(wire')) /\ Below(ChunkFans', Fans(wire'))
  BY DEF Below, FanOrder
<1> QED BY <1>3, <1>4 DEF FanOrder

\* The buffer, the events and the air of the fan are as they were.
LEMMA FanOrderNext ==
    ASSUME TypeOK, Messages, FanOrder, [Next]_vars
    PROVE  FanOrder'
<1> DEFINE A == Fans(air[CoordFan])
           C == ChunkFans
           W == Fans(wire)
<1>0. PICK f \in Nat :
         /\ f = Len(fanSent) /\ Newest \in 0..f /\ fanLast \in 0..f
         /\ A \subseteq 1..f /\ C \subseteq 1..f /\ W \subseteq 1..f
  BY FanNumbers
<1>a. /\ fanLast <= Newest
      /\ Ordered(wire) /\ ChunksOrdered /\ Ordered(air[CoordFan])
      /\ Below({Newest}, A \cup C \cup W) /\ Below(A, C \cup W) /\ Below(C, W)
  BY DEF FanOrder
<1>b. PICK n \in Nat : n = Len(wire)
  BY Numbers
<1>1. ASSUME NEW t \in Texts, FanWrite(t) PROVE FanOrder'
  <2>1. UNCHANGED <<events, new_cmd, air, fanLast>> /\ wire' = Append(wire, Fan(f + 1))
    BY <1>0, <1>1 DEF FanWrite, netVars
  <2>2. Fan(f + 1) \in Command /\ Fan(f + 1).kind = "fan" /\ Fan(f + 1).n = f + 1
    BY DEF Fan, Command
  <2>3. Len(wire') = n + 1 /\ wire'[n + 1] = Fan(f + 1) /\ \A i \in 1..n : wire'[i] = wire[i]
    BY <1>b, <2>1, <2>2, Lists, AppendS
  <2>4. Below(W, {f + 1})
    BY <1>0 DEF Below
  <2>5. Fans(wire') \subseteq W \cup {f + 1} /\ Ordered(wire')
    <3>1. /\ Fans(wire') \subseteq
                Fans(wire) \cup (IF Fan(f + 1).kind = "fan" THEN {Fan(f + 1).n} ELSE {})
          /\ Ordered(wire) /\ (Fan(f + 1).kind = "fan" => Below(Fans(wire), {Fan(f + 1).n}))
                => Ordered(wire')
      BY <1>b, <2>3, FansAppend
    <3>2. Below(Fans(wire), {Fan(f + 1).n})
      BY <2>2, <2>4
    <3> QED BY <1>a, <2>2, <3>1, <3>2
  <2>6. UNCHANGED <<Newest, ChunkFans, ChunksOrdered>>
    BY <2>1 DEF Newest, ChunkFans, ChunksOrdered, Serials, Voice, Queue
  <2>7. Below({Newest}, {f + 1}) /\ Below(A, {f + 1}) /\ Below(C, {f + 1})
    BY <1>0 DEF Below
  <2>8. /\ Below({Newest}, A \cup C \cup Fans(wire'))
        /\ Below(A, C \cup Fans(wire')) /\ Below(C, Fans(wire'))
    <3> HIDE DEF A, C, W
    <3> QED BY <1>a, <2>5, <2>7 DEF Below
  <2> QED BY <1>a, <2>1, <2>5, <2>6, <2>8 DEF FanOrder
<1>2. CASE TransferWrite
  <2>1. UNCHANGED <<events, new_cmd, air, fanLast>> /\ wire' = Append(wire, Query(round + 1))
    BY <1>2 DEF TransferWrite, netVars
  <2>2. Query(round + 1) \in Command /\ Query(round + 1).kind # "fan"
    BY Numbers DEF Query, Command
  <2>3. Len(wire') = n + 1 /\ wire'[n + 1] = Query(round + 1) /\ \A i \in 1..n : wire'[i] = wire[i]
    BY <1>b, <2>1, <2>2, Lists, AppendS
  <2>4. Fans(wire') \subseteq W /\ Ordered(wire')
    <3>1. /\ Fans(wire') \subseteq Fans(wire) \cup
                (IF Query(round + 1).kind = "fan" THEN {Query(round + 1).n} ELSE {})
          /\ Ordered(wire) /\ (Query(round + 1).kind = "fan"
                                 => Below(Fans(wire), {Query(round + 1).n}))
                => Ordered(wire')
      BY <1>b, <2>3, FansAppend
    <3> QED BY <1>a, <2>2, <3>1
  <2>5. UNCHANGED <<Newest, ChunkFans, ChunksOrdered>>
    BY <2>1 DEF Newest, ChunkFans, ChunksOrdered, Serials, Voice, Queue
  <2> QED BY <1>0, <1>a, <2>1, <2>4, <2>5, FanOrderShrinks
<1>3. CASE SerialCallback
  <2>1. UNCHANGED <<new_cmd, air, fanLast>>
    BY <1>3 DEF SerialCallback
  <2>2. PICK k \in Nat, w \in Nat, q \in Nat, c \in Seq(Command) : CallbackFacts(k, w, q, c)
    BY <1>3, CallbackEffect
  <2>3. /\ w = Len(wire) /\ k \in 0..w /\ k >= 1 /\ Len(wire') = w - k
        /\ \A i \in 1..(w - k) : wire'[i] = wire[i + k]
    BY <2>2 DEF CallbackFacts
  <2>4. /\ Fans(wire') \subseteq W /\ Ordered(wire')
        /\ wire[1].kind = "fan" => Below({wire[1].n}, Fans(wire')) /\ wire[1].n \in W
    BY <1>a, <2>3, FansCut
  <2> DEFINE New == IF wire[1].kind = "fan" THEN {wire[1].n} ELSE {}
  <2>5. New \subseteq W /\ Below(New, Fans(wire'))
    BY <2>4 DEF Below
  <2>6. Serial(c).kind = "serial" /\ Heard(Serial(c).chunk) = wire[1]
    BY <2>2 DEF CallbackFacts, Serial
  <2>7. /\ q = Len(Queue) /\ Len(Queue') = q + 1
        /\ \A i \in 1..q : Queue'[i] = Queue[i] /\ Queue'[q + 1] = Serial(c)
        /\ Queue'[q + 1] = Serial(c)
    BY <2>2 DEF CallbackFacts
  <2>8. Below(C, New)
    BY <1>a, <2>5 DEF Below
  <2>9. ChunkFans' \subseteq C \cup New /\ ChunksOrdered'
    <3>1. PICK e : e = Serial(c)
      OBVIOUS
    <3>2. New = IF e.kind = "serial" /\ Heard(e.chunk).kind = "fan" THEN {Heard(e.chunk).n} ELSE {}
      BY <2>6, <3>1
    <3>3. Len(Queue') = q + 1 /\ Queue'[q + 1] = e /\ \A i \in 1..q : Queue'[i] = Queue[i]
      BY <2>7, <3>1
    <3> HIDE DEF New, C
    <3> QED BY <1>a, <2>7, <2>8, <3>2, <3>3, ChunksAppend DEF C
  <2>10. UNCHANGED Newest
    BY <2>1 DEF Newest
  <2>11. /\ Below({Newest}, A \cup ChunkFans' \cup Fans(wire'))
         /\ Below(A, ChunkFans' \cup Fans(wire')) /\ Below(ChunkFans', Fans(wire'))
    <3> HIDE DEF A, C, W, New
    <3> QED BY <1>a, <2>4, <2>5, <2>9 DEF Below
  <2> QED BY <1>a, <2>1, <2>4, <2>9, <2>10, <2>11 DEF FanOrder
<1>4. ASSUME NEW l \in Link, Incoming(l) PROVE FanOrder'
  <2>1. UNCHANGED <<wire, fanLast>>
    BY <1>4 DEF Incoming, lineVars
  <2>2. PICK m \in Node, q \in Nat, a \in Nat : IncomingFacts(l, m, q, a)
    BY <1>4, IncomingEffect
  <2>3. /\ m = l[2] /\ q = Len(events[m]) /\ a = Len(air[l]) /\ a >= 1
        /\ \A k \in Node \ {m} : events'[k] = events[k]
        /\ Len(events'[m]) = q + 1 /\ \A i \in 1..q : events'[m][i] = events[m][i]
        /\ events'[m][q + 1] = Radio
        /\ \A k \in Link \ {l} : air'[k] = air[k]
        /\ Len(air'[l]) = a - 1
        /\ \A i \in 1..(a - 1) : air'[l][i] = air[l][i + 1]
    BY <2>2 DEF IncomingFacts
  <2>4. \A k \in Node : new_cmd'[k] = IF k = m THEN air[l][1] ELSE new_cmd[k]
    BY <2>2 DEF IncomingFacts, TypeOK
  <2>5. ChunkFans' \subseteq C /\ ChunksOrdered'
    <3>1. CASE m = "coordinator"
      <4>1. /\ q = Len(Queue) /\ Len(Queue') = q + 1
            /\ \A i \in 1..q : Queue'[i] = Queue[i]
            /\ Queue'[q + 1] = Radio
        BY <2>3, <3>1 DEF Queue
      <4>2. Radio.kind # "serial" /\ Below(C, {})
        BY DEF Radio, Below
      <4> QED BY <1>a, <4>1, <4>2, ChunksAppend
    <3>2. CASE m # "coordinator"
      <4>1. UNCHANGED Queue
        BY <2>3, <3>2 DEF Queue, Node
      <4> QED BY <1>a, <4>1 DEF ChunkFans, ChunksOrdered, Serials, Voice
    <3> QED BY <3>1, <3>2
  <2>6. CASE l # CoordFan
    <3>1. UNCHANGED <<air[CoordFan]>>
      BY <2>3, <2>6, Links
    <3>2. Newest' \in {Newest, fanLast}
      <4>1. CASE m = "fan"
        <5>1. l[1] = "temp"
          BY <2>3, <2>6, <4>1, Links
        <5>2. air[l][1].kind = "answer"
          <6>1. 1 \in 1..Len(air[l])
            BY <2>3
          <6> QED BY <5>1, <6>1, AirKnown
        <5> QED BY <2>1, <2>4, <4>1, <5>2 DEF Newest, Node
      <4>2. CASE m # "fan"
        BY <2>1, <2>4, <4>2 DEF Newest, Node
      <4> QED BY <4>1, <4>2
    <3>3. Newest' \in Nat /\ Newest' <= Newest /\ fanLast' <= Newest'
      BY <1>0, <1>a, <2>1, <3>2
    <3> QED BY <1>a, <2>1, <2>5, <3>1, <3>3, FanOrderShrinks
  <2>7. CASE l = CoordFan
    <3>1. m = "fan" /\ new_cmd'["fan"] = air[CoordFan][1]
      BY <2>3, <2>4, <2>7, Links DEF Node
    <3>2. 1 \in 0..a /\ 1 >= 1
      BY <2>3
    <3>3. /\ Fans(air'[CoordFan]) \subseteq A /\ Ordered(air'[CoordFan])
          /\ air[CoordFan][1].kind = "fan" =>
                Below({air[CoordFan][1].n}, Fans(air'[CoordFan])) /\ air[CoordFan][1].n \in A
      <4>1. /\ a = Len(air[CoordFan]) /\ Len(air'[CoordFan]) = a - 1
            /\ \A i \in 1..(a - 1) : air'[CoordFan][i] = air[CoordFan][i + 1]
        BY <2>3, <2>7
      <4> QED BY <1>a, <3>2, <4>1, FansCut
    <3>4. CASE air[CoordFan][1].kind = "fan"
      <4>1. Newest' = air[CoordFan][1].n /\ Newest' \in A
        BY <3>1, <3>3, <3>4 DEF Newest
      <4>2. fanLast' <= Newest'
        <5>1. Newest < Newest'
          BY <1>a, <4>1 DEF Below
        <5> QED BY <1>0, <1>a, <2>1, <4>1, <5>1
      <4>3. Below({Newest'}, Fans(air'[CoordFan]) \cup ChunkFans' \cup Fans(wire'))
        <5>1. Below({Newest'}, Fans(air'[CoordFan])) /\ Below({Newest'}, C \cup W)
          BY <1>a, <3>3, <3>4, <4>1 DEF Below
        <5> HIDE DEF A, C, W
        <5> QED BY <2>1, <2>5, <5>1 DEF Below, W
      <4>4. /\ Below(Fans(air'[CoordFan]), ChunkFans' \cup Fans(wire'))
            /\ Below(ChunkFans', Fans(wire'))
        BY <1>a, <2>1, <2>5, <3>3 DEF Below
      <4> QED BY <1>a, <2>1, <2>5, <3>3, <4>2, <4>3, <4>4 DEF FanOrder
    <3>5. CASE air[CoordFan][1].kind # "fan"
      <4>1. Newest' = fanLast
        BY <2>1, <3>1, <3>5 DEF Newest
      <4>2. Newest' \in Nat /\ Newest' <= Newest /\ fanLast' <= Newest'
        BY <1>0, <1>a, <2>1, <4>1
      <4> QED BY <1>a, <2>1, <2>5, <3>3, <4>2, FanOrderShrinks
    <3> QED BY <3>4, <3>5
  <2> QED BY <2>6, <2>7
<1>5. CASE CoordinatorSend
  <2>1. UNCHANGED <<wire, new_cmd, fanLast>>
    BY <1>5 DEF CoordinatorSend, lineVars
  <2>2. PICK q \in Nat : DropFacts("coordinator", q)
    BY <1>5, SendEffect
  <2>3. /\ q = Len(Queue) /\ q >= 1 /\ Len(Queue') = q - 1
        /\ \A i \in 1..(q - 1) : Queue'[i] = Queue[i + 1]
    BY <2>2 DEF DropFacts, Queue
  <2>4. Queue[1].kind = "serial" /\ SentFacts("coordinator", Voice(1))
    BY <1>5, SendEffect
  <2>5. PICK v : v = Voice(1)
    OBVIOUS
  <2>6. /\ ChunkFans' \subseteq C /\ ChunksOrdered'
        /\ v.kind = "fan" => Below({v.n}, ChunkFans') /\ v.n \in C
    BY <1>a, <2>3, <2>4, <2>5, ChunksTail
  <2>7. PICK a \in Nat :
           /\ a = Len(air[CoordFan]) /\ Len(air'[CoordFan]) = a + 1
           /\ \A i \in 1..a : air'[CoordFan][i] = air[CoordFan][i]
           /\ air'[CoordFan][a + 1] = v
    BY <2>4, <2>5, Links DEF SentFacts
  <2> DEFINE New == IF v.kind = "fan" THEN {v.n} ELSE {}
  <2>8. New \subseteq C /\ Below(New, ChunkFans')
    BY <2>6 DEF Below
  <2>9. v.kind = "fan" => Below(A, {v.n})
    BY <1>a, <2>8 DEF Below
  <2>10. Fans(air'[CoordFan]) \subseteq A \cup New /\ Ordered(air'[CoordFan])
    <3>1. /\ Fans(air'[CoordFan]) \subseteq A \cup (IF v.kind = "fan" THEN {v.n} ELSE {})
          /\ Ordered(air[CoordFan]) /\ (v.kind = "fan" => Below(A, {v.n}))
                => Ordered(air'[CoordFan])
      <4> HIDE DEF New, C, W
      <4>1. PICK x, y : x = air[CoordFan] /\ y = air'[CoordFan]
        OBVIOUS
      <4>2. /\ a = Len(x) /\ Len(y) = a + 1
            /\ \A i \in 1..a : y[i] = x[i]
            /\ y[a + 1] = v
        BY <2>7, <4>1
      <4>3. /\ Fans(y) \subseteq Fans(x) \cup (IF v.kind = "fan" THEN {v.n} ELSE {})
            /\ Ordered(x) /\ (v.kind = "fan" => Below(Fans(x), {v.n})) => Ordered(y)
        BY <4>2, FansAppend
      <4> QED BY <4>1, <4>3
    <3> QED BY <1>a, <2>9, <3>1
  <2>11. UNCHANGED Newest
    BY <2>1 DEF Newest
  <2>12. /\ Below({Newest}, Fans(air'[CoordFan]) \cup ChunkFans' \cup W)
         /\ Below(Fans(air'[CoordFan]), ChunkFans' \cup W) /\ Below(ChunkFans', W)
    <3> HIDE DEF A, C, W, New
    <3> QED BY <1>a, <2>6, <2>8, <2>10 DEF Below
  <2> QED BY <1>a, <2>1, <2>6, <2>10, <2>11, <2>12 DEF FanOrder
<1>6. CASE CoordinatorWrite
  <2>1. UNCHANGED <<wire, new_cmd, air, fanLast>>
    BY <1>6 DEF CoordinatorWrite
  <2>2. PICK q \in Nat : DropFacts("coordinator", q)
    BY <1>6, WriteEffect
  <2>3. /\ q = Len(Queue) /\ q >= 1 /\ Len(Queue') = q - 1
        /\ \A i \in 1..(q - 1) : Queue'[i] = Queue[i + 1]
    BY <2>2 DEF DropFacts, Queue
  <2>4. ChunkFans' \subseteq C /\ ChunksOrdered'
    BY <1>a, <2>3, ChunksTail
  <2>5. UNCHANGED Newest
    BY <2>1 DEF Newest
  <2> QED BY <1>0, <1>a, <2>1, <2>4, <2>5, FanOrderShrinks
<1>7. CASE TempControl \/ TempIgnores
  <2>1. UNCHANGED <<wire, new_cmd, fanLast>> /\ air'[CoordFan] = air[CoordFan]
    <3>1. CASE TempControl
      <4>1. PICK a \in Nat : MeasureFacts(a)
        BY <3>1, MeasureEffect
      <4> QED BY <3>1, <4>1, Links DEF TempControl, lineVars, MeasureFacts, SentFacts
    <3>2. CASE TempIgnores
      BY <3>2 DEF TempIgnores, lineVars
    <3> QED BY <1>7, <3>1, <3>2
  <2>2. events["temp"] # <<>> /\ events' = Drop("temp") /\ "temp" \in Node
    BY <1>7 DEF TempControl, TempIgnores, NextEvent, Node
  <2>3. UNCHANGED Queue
    BY <2>2, Dropped DEF Queue, Node
  <2>4. UNCHANGED <<Newest, ChunkFans, ChunksOrdered>>
    BY <2>1, <2>3 DEF Newest, ChunkFans, ChunksOrdered, Serials, Voice
  <2> QED BY <1>0, <1>a, <2>1, <2>4, FanOrderShrinks
<1>8. CASE FanControl
  <2>1. UNCHANGED <<wire, new_cmd, air>>
    BY <1>8, FanEffect
  <2>2. UNCHANGED Queue
    BY <1>8, FanEffect DEF DropFacts, Queue, Node
  <2>3. \/ UNCHANGED fanLast
        \/ new_cmd["fan"].kind = "fan" /\ fanLast' = new_cmd["fan"].n
    BY <1>8, FanEffect
  <2>4. Newest' = Newest /\ fanLast' <= Newest'
    BY <1>0, <1>a, <2>1, <2>3 DEF Newest
  <2>5. UNCHANGED <<ChunkFans, ChunksOrdered>>
    BY <2>2 DEF ChunkFans, ChunksOrdered, Serials, Voice
  <2> QED BY <1>0, <1>a, <2>1, <2>4, <2>5, FanOrderShrinks
<1>9. ASSUME NEW l \in Link, Lose(l) PROVE FanOrder'
  <2>1. UNCHANGED <<wire, events, new_cmd, fanLast>>
    BY <1>9 DEF Lose, lineVars
  <2>2. PICK a \in Nat :
             /\ a = Len(air[l]) /\ a >= 1
             /\ \A k \in Link \ {l} : air'[k] = air[k]
             /\ Len(air'[l]) = a - 1
             /\ \A i \in 1..(a - 1) : air'[l][i] = air[l][i + 1]
    BY <1>9, LoseEffect
  <2>3. Fans(air'[CoordFan]) \subseteq A /\ Ordered(air'[CoordFan])
    <3>1. CASE l = CoordFan
      <4>1. 1 \in 0..a
        BY <2>2
      <4>2. /\ a = Len(air[CoordFan]) /\ Len(air'[CoordFan]) = a - 1
            /\ \A i \in 1..(a - 1) : air'[CoordFan][i] = air[CoordFan][i + 1]
        BY <2>2, <3>1
      <4> QED BY <1>a, <4>1, <4>2, FansCut
    <3>2. CASE l # CoordFan
      BY <1>a, <2>2, <3>2, Links
    <3> QED BY <3>1, <3>2
  <2>4. UNCHANGED <<Newest, ChunkFans, ChunksOrdered>>
    BY <2>1 DEF Newest, ChunkFans, ChunksOrdered, Serials, Voice, Queue
  <2> QED BY <1>0, <1>a, <2>1, <2>3, <2>4, FanOrderShrinks
<1>10. CASE UNCHANGED <<wire, events, new_cmd, air, fanLast>>
  <2>1. UNCHANGED <<Newest, ChunkFans, ChunksOrdered>>
    BY <1>10 DEF Newest, ChunkFans, ChunksOrdered, Serials, Voice, Queue
  <2> QED BY <1>10, <2>1 DEF FanOrder
<1>11. TransferRead \/ Restart \/ UNCHANGED vars => UNCHANGED <<wire, events, new_cmd, air, fanLast>>
  BY DEF TransferRead, Restart, vars, lineVars, netVars
<1> QED BY StepCases, <1>1, <1>2, <1>3, <1>4, <1>5, <1>6, <1>7, <1>8, <1>9, <1>10, <1>11

-----------------------------------------------------------------------------
(* How old what is read can be *)

LEMMA BlocksFacts ==
    ASSUME answerLength \in {6, 7}
    PROVE  /\ Blocks(0) = 0 /\ Blocks(1) = 1
           /\ \A n \in Nat : Blocks(n) \in Nat /\ (n >= 1 => Blocks(n) >= 1)
           /\ \A m, n \in Nat : m <= n => Blocks(m) <= Blocks(n)
           /\ \A n \in Nat : Blocks(n + answerLength) = Blocks(n) + 1
           /\ \A n \in Nat : Blocks(n) + 1 <= Blocks(n + 7)
<1>1. CASE answerLength = 6
  BY <1>1 DEF Blocks
<1>2. CASE answerLength = 7
  BY <1>2 DEF Blocks
<1> QED BY <1>1, <1>2

\* The lengths that the distances are made of.
Lengths ==
    /\ Len(fanSent) \in Nat /\ restarts \in Nat /\ round \in Nat
    /\ Blocks(Len(rx)) \in Nat /\ Radios \in Nat /\ Len(air[TempCoord]) \in Nat
    /\ Len(events["temp"]) \in Nat /\ Len(air[CoordTemp]) \in Nat
    /\ SerialUpTo(Len(Queue)) \in Nat /\ Len(wire) \in Nat

Distances ==
    /\ Slack \in Nat /\ AtCoordinator \in Nat /\ BeforeTemp \in Nat /\ BeforeAir \in Nat
    /\ BeforeChunks \in Nat /\ BeforeWire \in Nat
    /\ Blocks(Len(rx)) <= AtCoordinator /\ AtCoordinator <= BeforeTemp
    /\ BeforeTemp <= BeforeAir /\ BeforeAir <= BeforeChunks /\ BeforeChunks <= BeforeWire

LEMMA LengthsOK ==
    ASSUME TypeOK
    PROVE  Lengths /\ Distances
<1>1. /\ Len(fanSent) \in Nat /\ restarts \in Nat /\ round \in Nat /\ Len(wire) \in Nat
      /\ Len(rx) \in Nat /\ answerLength \in {6, 7}
  BY Numbers
<1>2. Blocks(Len(rx)) \in Nat
  BY <1>1, BlocksFacts
<1>3. Len(events["temp"]) \in Nat
  BY NodeQueues DEF Node
<1>4. Len(air[TempCoord]) \in Nat /\ Len(air[CoordTemp]) \in Nat
  BY AirQueues, Links
<1>5. Len(Queue) \in Nat
  BY CoordinatorQueue
<1>6. SerialsIn(Queue, Len(Queue)) \in Nat /\ SerialsIn(Queue, Len(Queue)) <= Len(Queue)
  BY <1>5, SerialsType
<1>7. SerialUpTo(Len(Queue)) = SerialsIn(Queue, Len(Queue))
  BY DEF SerialUpTo, SerialsIn, SerialSet
<1>8. SerialUpTo(Len(Queue)) \in Nat /\ Radios \in Nat
  BY <1>5, <1>6, <1>7 DEF Radios
<1>9. Lengths
  BY <1>1, <1>2, <1>3, <1>4, <1>8 DEF Lengths
<1>10. Slack \in Nat
  <2>1. \A f, r, b \in Nat : f + r + b \in Nat
    OBVIOUS
  <2>2. (IF tpc = "asked" THEN 1 ELSE 0) \in Nat
    OBVIOUS
  <2> QED BY <1>1, <2>1, <2>2 DEF Slack
<1>11. Distances
  <2>1. AtCoordinator \in Nat /\ Blocks(Len(rx)) <= AtCoordinator
    BY <1>9 DEF Lengths, AtCoordinator
  <2>2. BeforeTemp \in Nat /\ AtCoordinator <= BeforeTemp
    BY <1>9, <2>1 DEF Lengths, BeforeTemp
  <2>3. BeforeAir \in Nat /\ BeforeTemp <= BeforeAir
    BY <1>9, <2>2 DEF Lengths, BeforeAir
  <2>4. BeforeChunks \in Nat /\ BeforeAir <= BeforeChunks
    BY <1>9, <2>3 DEF Lengths, BeforeChunks
  <2>5. BeforeWire \in Nat /\ BeforeChunks <= BeforeWire
    BY <1>9, <2>4 DEF Lengths, BeforeWire
  <2> QED BY <1>10, <2>1, <2>2, <2>3, <2>4, <2>5 DEF Distances
<1> QED BY <1>9, <1>11

\* What the queries are that the messages stand for.
Queries ==
    /\ \A i \in 1..Len(rx) : answers[rx[i].answer].query \in Nat
    /\ \A i \in 1..Len(answers) : answers[i].query \in Nat
    /\ \A i \in 1..Len(air[TempCoord]) :
          air[TempCoord][i].n \in 1..Len(answers) /\ answers[air[TempCoord][i].n].query \in Nat
    /\ \A i \in 1..Len(air[CoordTemp]) : air[CoordTemp][i].n \in Nat
    /\ \A i \in Serials : Voice(i).kind = "query" => Voice(i).n \in Nat
    /\ \A i \in 1..Len(wire) : wire[i].n \in Nat
    /\ new_cmd["temp"].n \in Nat
    /\ Radios > 0 => /\ new_cmd["coordinator"].n \in 1..Len(answers)
                     /\ answers[new_cmd["coordinator"].n].query \in Nat

\* An event of the coordinator that is not a serial one is a radio one.
LEMMA RadioEvent ==
    ASSUME TypeOK, Radios > 0
    PROVE  \E i \in 1..Len(Queue) : Queue[i].kind = "radio"
<1>1. PICK q \in Nat : q = Len(Queue)
  BY CoordinatorQueue
<1>2. ASSUME \A i \in 1..q : Queue[i].kind = "serial" PROVE FALSE
  <2>1. SerialSet(Queue, q) = 1..q
    BY <1>2 DEF SerialSet
  <2>2. Cardinality(1..q) = q
    <3>1. 1 \in Int /\ q \in Int
      OBVIOUS
    <3>2. Cardinality(1..q) = IF 1 > q THEN 0 ELSE q - 1 + 1
      BY <3>1, FS_Interval
    <3> QED BY <3>2
  <2>3. SerialUpTo(q) = q
    BY <2>1, <2>2 DEF SerialUpTo, SerialSet
  <2> QED BY <1>1, <2>3 DEF Radios
<1>3. PICK i \in 1..q : Queue[i].kind # "serial"
  BY <1>2
<1>4. Queue[i] \in Event
  BY <1>1, CoordinatorQueue
<1> QED BY <1>1, <1>3, <1>4 DEF Event

LEMMA QueriesOK ==
    ASSUME TypeOK, Messages
    PROVE  Queries
<1>1. \A i \in 1..Len(answers) : answers[i].query \in Nat
  BY Elements DEF Measurement
<1>2. \A i \in 1..Len(rx) : answers[rx[i].answer].query \in Nat
  BY <1>1 DEF Messages, BytesOK
<1>3. \A i \in 1..Len(air[TempCoord]) :
          air[TempCoord][i].n \in 1..Len(answers) /\ answers[air[TempCoord][i].n].query \in Nat
  BY <1>1, AirKnown, Links DEF Known, Stands
<1>4. \A i \in 1..Len(air[CoordTemp]) : air[CoordTemp][i].n \in Nat
  BY AirKnown, Links DEF Message
<1>5. \A i \in Serials : Voice(i).kind = "query" => Voice(i).n \in Nat
  BY Numbers DEF Messages, QueueOK, Known, Stands
<1>6. \A i \in 1..Len(wire) : wire[i].n \in Nat
  BY Elements DEF Command
<1>7. new_cmd["temp"].n \in Nat
  BY DEF TypeOK, Node, Message
<1>8. ASSUME Radios > 0
      PROVE  /\ new_cmd["coordinator"].n \in 1..Len(answers)
             /\ answers[new_cmd["coordinator"].n].query \in Nat
  <2>1. new_cmd["coordinator"].kind = "answer"
    BY <1>8, RadioEvent DEF Messages, BufferOK
  <2>2. new_cmd["coordinator"].n \in 1..Len(answers)
    BY <2>1 DEF Messages, BufferOK, Known, Stands, Node
  <2> QED BY <1>1, <2>2
<1> QED BY <1>1, <1>2, <1>3, <1>4, <1>5, <1>6, <1>7, <1>8 DEF Queries

\* The lengths x to w, and the slack s in round r.
Placing(x, d, t, e, c, u, w, s, r) ==
    /\ x = Blocks(Len(rx)) /\ d = Radios /\ t = Len(air[TempCoord])
    /\ e = Len(events["temp"]) /\ c = Len(air[CoordTemp]) /\ u = SerialUpTo(Len(Queue))
    /\ w = Len(wire) /\ s = Slack /\ r = round
    /\ AtCoordinator = x + d /\ BeforeTemp = x + d + t /\ BeforeAir = x + d + t + e
    /\ BeforeChunks = x + d + t + e + c /\ BeforeWire = x + d + t + e + c + u

LEMMA Placed ==
    TypeOK => \E x, d, t, e, c, u, w, s, r \in Nat : Placing(x, d, t, e, c, u, w, s, r)
<1> SUFFICES ASSUME TypeOK
             PROVE  \E x, d, t, e, c, u, w, s, r \in Nat : Placing(x, d, t, e, c, u, w, s, r)
  OBVIOUS
<1>1. PICK x \in Nat, d \in Nat, t \in Nat, e \in Nat, c \in Nat, u \in Nat, w \in Nat,
           s \in Nat, r \in Nat :
          /\ x = Blocks(Len(rx)) /\ d = Radios /\ t = Len(air[TempCoord])
          /\ e = Len(events["temp"]) /\ c = Len(air[CoordTemp]) /\ u = SerialUpTo(Len(Queue))
          /\ w = Len(wire) /\ s = Slack /\ r = round
  BY LengthsOK DEF Lengths, Distances
<1>2. AtCoordinator = x + d
  BY <1>1 DEF AtCoordinator
<1>3. BeforeTemp = x + d + t
  BY <1>1, <1>2 DEF BeforeTemp
<1>4. BeforeAir = x + d + t + e
  BY <1>1, <1>3 DEF BeforeAir
<1>5. BeforeChunks = x + d + t + e + c
  BY <1>1, <1>4 DEF BeforeChunks
<1>6. BeforeWire = x + d + t + e + c + u
  BY <1>1, <1>5 DEF BeforeWire
<1>7. Placing(x, d, t, e, c, u, w, s, r)
  BY <1>1, <1>2, <1>3, <1>4, <1>5, <1>6 DEF Placing
<1> QED BY <1>7

LEMMA PlacedNext ==
    TypeOK' => (\E x, d, t, e, c, u, w, s, r \in Nat : Placing(x, d, t, e, c, u, w, s, r))'
BY Placed, PTL

LEMMA Measured ==
    (TypeOK => Lengths /\ Distances) /\ (TypeOK /\ Messages => Queries)
BY LengthsOK, QueriesOK

LEMMA MeasuredNext ==
    (TypeOK' => Lengths' /\ Distances') /\ (TypeOK' /\ Messages' => Queries')
BY Measured, PTL

\* At y, what was at x is no later than it was.
Nearer(x, y) == y + round' + Slack <= x + round + Slack'

LEMMA NearerRecent ==
    ASSUME Lengths, Distances, Lengths', Distances', NEW q \in Nat, NEW x \in Nat, NEW y \in Nat,
           Recent(q, x), Nearer(x, y)
    PROVE  y + round' <= q + Slack'
<1>1. \A r, rr, k, kk \in Nat :
         x + r <= q + k /\ y + rr + k <= x + r + kk => y + rr <= q + kk
  OBVIOUS
<1>2. round \in Nat /\ round' \in Nat /\ Slack \in Nat /\ Slack' \in Nat
  BY DEF Lengths, Distances
<1> QED BY <1>1, <1>2 DEF Recent, Nearer

\* A step that takes part of what is under way no farther keeps it recent.
LEMMA BoundedKept ==
    ASSUME TypeOK, Messages, Bounded, TypeOK', Messages',
           \A i \in 1..Len(answers) : answers'[i] = answers[i]
    PROVE  /\ UNCHANGED <<rx, answerLength>> /\ Nearer(0, 0) => BytesRecent'
           /\ (Radios' > 0 => Radios > 0) /\ new_cmd'["coordinator"] = new_cmd["coordinator"]
                /\ Nearer(AtCoordinator, AtCoordinator') => BufferRecent'
           /\ UNCHANGED air[TempCoord] /\ Nearer(AtCoordinator, AtCoordinator')
                => AnswersRecent'
           /\ (events'["temp"] # <<>> => events["temp"] # <<>>)
                /\ new_cmd'["temp"] = new_cmd["temp"] /\ Nearer(BeforeAir, BeforeAir')
                => AskedRecent'
           /\ UNCHANGED air[CoordTemp] /\ Nearer(BeforeAir, BeforeAir') => AirRecent'
           /\ Queue' = Queue /\ Nearer(BeforeChunks, BeforeChunks') => ChunksRecent'
           /\ UNCHANGED wire /\ Nearer(BeforeWire, BeforeWire') => WireRecent'
<1>0. /\ Lengths /\ Distances /\ Queries /\ Lengths' /\ Distances'
  BY Measured, MeasuredNext
<1>n. \A q, x, y \in Nat : Recent(q, x) /\ Nearer(x, y) => y + round' <= q + Slack'
  BY <1>0, NearerRecent
<1>m. \A x, y, i \in Nat : Nearer(x, y) => Nearer(x + i, y + i)
  <2>1. \A x, y, i, r, rr, k, kk \in Nat :
           y + rr + k <= x + r + kk => (y + i) + rr + k <= (x + i) + r + kk
    OBVIOUS
  <2>2. round \in Nat /\ round' \in Nat /\ Slack \in Nat /\ Slack' \in Nat
    BY <1>0 DEF Lengths, Distances
  <2> QED BY <2>1, <2>2 DEF Nearer
<1>d. /\ AtCoordinator \in Nat /\ AtCoordinator' \in Nat /\ BeforeAir \in Nat /\ BeforeAir' \in Nat
      /\ BeforeChunks \in Nat /\ BeforeChunks' \in Nat
      /\ BeforeWire \in Nat /\ BeforeWire' \in Nat
  BY <1>0 DEF Distances
<1>b. /\ BytesRecent /\ BufferRecent /\ AnswersRecent /\ AskedRecent
      /\ AirRecent /\ ChunksRecent /\ WireRecent
  BY DEF Bounded
<1>1. ASSUME UNCHANGED <<rx, answerLength>>, Nearer(0, 0) PROVE BytesRecent'
  <2>1. \A n : Blocks(n)' = Blocks(n)
    BY <1>1 DEF Blocks
  <2>2. ASSUME NEW i \in 1..Len(rx)
        PROVE  Blocks(i) + round' <= answers'[rx[i].answer].query + Slack'
    <3>1. i \in Nat /\ Blocks(i) \in Nat /\ Nearer(Blocks(i), Blocks(i))
      <4>1. i \in Nat /\ Blocks(i) \in Nat
        BY BlocksFacts, Numbers
      <4>2. Nearer(0 + Blocks(i), 0 + Blocks(i))
        BY <1>1, <1>m, <4>1
      <4>3. 0 + Blocks(i) = Blocks(i)
        BY <4>1
      <4> QED BY <4>1, <4>2, <4>3 DEF Nearer
    <3>2. Recent(answers[rx[i].answer].query, Blocks(i))
      BY <1>b DEF BytesRecent
    <3>3. answers'[rx[i].answer] = answers[rx[i].answer]
      BY DEF Messages, BytesOK
    <3>4. answers[rx[i].answer].query \in Nat
      BY <1>0 DEF Queries
    <3> QED BY <1>n, <3>1, <3>2, <3>3, <3>4
  <2> QED BY <1>1, <2>1, <2>2 DEF BytesRecent, Recent
<1>2. ASSUME Radios' > 0 => Radios > 0, new_cmd'["coordinator"] = new_cmd["coordinator"],
             Nearer(AtCoordinator, AtCoordinator')
      PROVE  BufferRecent'
  <2>1. ASSUME Radios' > 0
        PROVE  AtCoordinator' + round' <= answers'[new_cmd'["coordinator"].n].query + Slack'
    <3>1. Recent(answers[new_cmd["coordinator"].n].query, AtCoordinator)
      BY <1>2, <1>b, <2>1 DEF BufferRecent
    <3>2. answers[new_cmd["coordinator"].n].query \in Nat
          /\ answers'[new_cmd["coordinator"].n] = answers[new_cmd["coordinator"].n]
      BY <1>0, <1>2, <2>1 DEF Queries
    <3> QED BY <1>2, <1>n, <1>d, <3>1, <3>2
  <2> QED BY <2>1 DEF BufferRecent, Recent
<1>3. ASSUME UNCHANGED air[TempCoord], Nearer(AtCoordinator, AtCoordinator') PROVE AnswersRecent'
  <2>1. ASSUME NEW i \in 1..Len(air[TempCoord])
        PROVE  AtCoordinator' + i + round' <= answers'[air[TempCoord][i].n].query + Slack'
    <3>1. /\ answers[air[TempCoord][i].n].query \in Nat
          /\ answers'[air[TempCoord][i].n] = answers[air[TempCoord][i].n]
      BY <1>0 DEF Queries
    <3>2. Recent(answers[air[TempCoord][i].n].query, AtCoordinator + i)
      BY <1>b DEF AnswersRecent
    <3>3. /\ i \in Nat /\ AtCoordinator + i \in Nat /\ AtCoordinator' + i \in Nat
          /\ Nearer(AtCoordinator + i, AtCoordinator' + i)
      BY <1>3, <1>m, <1>d
    <3> QED BY <1>n, <3>1, <3>2, <3>3
  <2> QED BY <1>3, <2>1 DEF AnswersRecent, Recent
<1>4. ASSUME events'["temp"] # <<>> => events["temp"] # <<>>, new_cmd'["temp"] = new_cmd["temp"],
             Nearer(BeforeAir, BeforeAir')
      PROVE  AskedRecent'
  <2>1. ASSUME events'["temp"] # <<>>, new_cmd["temp"].kind = "query"
        PROVE  BeforeAir' + round' <= new_cmd["temp"].n + Slack'
    <3>1. Recent(new_cmd["temp"].n, BeforeAir)
      BY <1>4, <1>b, <2>1 DEF AskedRecent
    <3>2. new_cmd["temp"].n \in Nat
      BY <1>0 DEF Queries
    <3> QED BY <1>4, <1>n, <1>d, <3>1, <3>2
  <2> QED BY <1>4, <2>1 DEF AskedRecent, Recent
<1>5. ASSUME UNCHANGED air[CoordTemp], Nearer(BeforeAir, BeforeAir') PROVE AirRecent'
  <2>1. ASSUME NEW i \in 1..Len(air[CoordTemp]), air[CoordTemp][i].kind = "query"
        PROVE  BeforeAir' + i + round' <= air[CoordTemp][i].n + Slack'
    <3>1. air[CoordTemp][i].n \in Nat
      BY <1>0 DEF Queries
    <3>2. Recent(air[CoordTemp][i].n, BeforeAir + i)
      BY <1>b, <2>1 DEF AirRecent
    <3>3. /\ i \in Nat /\ BeforeAir + i \in Nat /\ BeforeAir' + i \in Nat
          /\ Nearer(BeforeAir + i, BeforeAir' + i)
      BY <1>5, <1>m, <1>d
    <3> QED BY <1>n, <3>1, <3>2, <3>3
  <2> QED BY <1>5, <2>1 DEF AirRecent, Recent
<1>6. ASSUME Queue' = Queue, Nearer(BeforeChunks, BeforeChunks') PROVE ChunksRecent'
  <2>1. Serials' = Serials /\ \A i : Voice(i)' = Voice(i) /\ SerialUpTo(i)' = SerialUpTo(i)
    BY <1>6 DEF Serials, Voice, SerialUpTo
  <2>0. \A j \in Nat : /\ BeforeChunks + j \in Nat /\ BeforeChunks' + j \in Nat
                       /\ Nearer(BeforeChunks + j, BeforeChunks' + j)
    <3>1. PICK x \in Nat, y \in Nat : x = BeforeChunks /\ y = BeforeChunks'
      BY <1>d
    <3>2. Nearer(x, y)
      BY <1>6, <3>1 DEF Nearer
    <3>3. \A j \in Nat : x + j \in Nat /\ y + j \in Nat /\ Nearer(x + j, y + j)
      BY <1>m, <3>2
    <3> QED BY <3>1, <3>3 DEF Nearer
  <2>2. ASSUME NEW i \in Serials, Voice(i).kind = "query"
        PROVE  BeforeChunks' + SerialUpTo(i) + round' <= Voice(i).n + Slack'
    <3>1. Voice(i).n \in Nat
      BY <1>0, <2>2 DEF Queries
    <3>2. Recent(Voice(i).n, BeforeChunks + SerialUpTo(i))
      BY <1>b, <2>2 DEF ChunksRecent
    <3>3. SerialUpTo(i) \in Nat
      <4>1. i \in Nat
        BY CoordinatorQueue DEF Serials
      <4>2. SerialsIn(Queue, i) \in Nat
        BY <4>1, SerialsType
      <4> QED BY <4>2 DEF SerialUpTo, SerialsIn, SerialSet
    <3>4. PICK j \in Nat : j = SerialUpTo(i)
      BY <3>3
    <3>5. /\ BeforeChunks + j \in Nat /\ BeforeChunks' + j \in Nat
          /\ Nearer(BeforeChunks + j, BeforeChunks' + j)
      BY <2>0
    <3>6. Recent(Voice(i).n, BeforeChunks + j)
      BY <3>2, <3>4 DEF Recent
    <3>7. BeforeChunks' + j + round' <= Voice(i).n + Slack'
      BY <1>n, <3>1, <3>5, <3>6
    <3> QED BY <3>4, <3>7
  <2> QED BY <2>1, <2>2 DEF ChunksRecent, Recent
<1>7. ASSUME UNCHANGED wire, Nearer(BeforeWire, BeforeWire') PROVE WireRecent'
  <2>1. ASSUME NEW i \in 1..Len(wire), wire[i].kind = "query"
        PROVE  BeforeWire' + i + round' <= wire[i].n + Slack'
    <3>1. wire[i].n \in Nat
      BY <1>0 DEF Queries
    <3>2. Recent(wire[i].n, BeforeWire + i)
      BY <1>b, <2>1 DEF WireRecent
    <3>3. /\ i \in Nat /\ BeforeWire + i \in Nat /\ BeforeWire' + i \in Nat
          /\ Nearer(BeforeWire + i, BeforeWire' + i)
      <4>1. i \in Nat /\ BeforeWire \in Nat /\ BeforeWire' \in Nat
        BY <1>d
      <4>2. Nearer(BeforeWire + i, BeforeWire' + i)
        BY <1>7, <1>m, <4>1
      <4>3. \A x, y \in Nat : x + y \in Nat
        OBVIOUS
      <4> QED BY <4>1, <4>2, <4>3
    <3> QED BY <1>n, <3>1, <3>2, <3>3
  <2> QED BY <1>7, <2>1 DEF WireRecent, Recent
<1> QED BY <1>1, <1>2, <1>3, <1>4, <1>5, <1>6, <1>7

\* The places of what a step leaves alone.
LEMMA SamePlaces ==
    /\ UNCHANGED <<rx, answerLength>> /\ Radios' = Radios => AtCoordinator' = AtCoordinator
    /\ AtCoordinator' = AtCoordinator /\ air'[TempCoord] = air[TempCoord]
         => BeforeTemp' = BeforeTemp
    /\ BeforeTemp' = BeforeTemp /\ events'["temp"] = events["temp"] => BeforeAir' = BeforeAir
    /\ BeforeAir' = BeforeAir /\ air'[CoordTemp] = air[CoordTemp]
         => BeforeChunks' = BeforeChunks
    /\ BeforeChunks' = BeforeChunks /\ SerialUpTo(Len(Queue))' = SerialUpTo(Len(Queue))
         => BeforeWire' = BeforeWire
    /\ Queue' = Queue
         => Radios' = Radios /\ SerialUpTo(Len(Queue))' = SerialUpTo(Len(Queue))
    /\ UNCHANGED <<fanSent, restarts, tpc>> => Slack' = Slack
<1>1. UNCHANGED <<rx, answerLength>> /\ Radios' = Radios => AtCoordinator' = AtCoordinator
  BY DEF AtCoordinator, Blocks
<1>2. AtCoordinator' = AtCoordinator /\ air'[TempCoord] = air[TempCoord]
         => BeforeTemp' = BeforeTemp
  BY DEF BeforeTemp
<1>3. BeforeTemp' = BeforeTemp /\ events'["temp"] = events["temp"] => BeforeAir' = BeforeAir
  BY DEF BeforeAir
<1>4. BeforeAir' = BeforeAir /\ air'[CoordTemp] = air[CoordTemp] => BeforeChunks' = BeforeChunks
  BY DEF BeforeChunks
<1>5. BeforeChunks' = BeforeChunks /\ SerialUpTo(Len(Queue))' = SerialUpTo(Len(Queue))
         => BeforeWire' = BeforeWire
  BY DEF BeforeWire
<1>6. Queue' = Queue
         => Radios' = Radios /\ SerialUpTo(Len(Queue))' = SerialUpTo(Len(Queue))
  BY DEF Radios, SerialUpTo
<1>7. UNCHANGED <<fanSent, restarts, tpc>> => Slack' = Slack
  BY DEF Slack
<1> QED BY <1>1, <1>2, <1>3, <1>4, <1>5, <1>6, <1>7

\* A command or a query is written behind everything that is under way.
LEMMA BoundedWritten ==
    ASSUME TypeOK, Messages, Bounded, TypeOK', Messages',
           UNCHANGED <<rx, events, new_cmd, air, answers, answerLength>>,
           NEW w \in Nat, w = Len(wire), Len(wire') = w + 1,
           \A i \in 1..w : wire'[i] = wire[i],
           wire'[w + 1].kind = "query" => wire'[w + 1].n = round',
           Slack' = Slack + 1, round' = round \/ round' = round + 1
    PROVE  Bounded'
<1>0. Lengths /\ Distances /\ Queries /\ Lengths' /\ Distances'
  BY Measured, MeasuredNext
<1>1. Queue' = Queue
  BY DEF Queue
<1>2. /\ AtCoordinator' = AtCoordinator /\ BeforeAir' = BeforeAir
      /\ BeforeChunks' = BeforeChunks /\ BeforeWire' = BeforeWire
  BY <1>1, SamePlaces
<1>3. PICK s \in Nat, r \in Nat, b \in Nat, rr \in Nat :
          s = Slack /\ r = round /\ b = BeforeWire /\ rr = round'
  BY <1>0 DEF Lengths, Distances
<1>4. s + 1 = Slack' /\ (rr = r \/ rr = r + 1) /\ b = BeforeWire'
  BY <1>2, <1>3
<1>5. /\ \A x, q \in Nat : x + r <= q + s => x + rr <= q + (s + 1)
      /\ \A x \in Nat : Nearer(x, x)
  <2>0. rr = r \/ rr = r + 1
    BY <1>4
  <2>1. \A x, q \in Nat : x + r <= q + s => x + rr <= q + (s + 1)
    BY ONLY <2>0, r \in Nat, s \in Nat
  <2>2. \A x \in Nat : x + rr + s <= x + r + (s + 1)
    BY ONLY <2>0, r \in Nat, s \in Nat
  <2> QED BY <1>3, <1>4, <2>1, <2>2 DEF Nearer
<1>6. /\ Nearer(0, 0) /\ Nearer(AtCoordinator, AtCoordinator') /\ Nearer(BeforeAir, BeforeAir')
      /\ Nearer(BeforeChunks, BeforeChunks')
  <2>1. /\ Nearer(0, 0) /\ Nearer(AtCoordinator, AtCoordinator) /\ Nearer(BeforeAir, BeforeAir)
        /\ Nearer(BeforeChunks, BeforeChunks)
    BY <1>0, <1>5 DEF Distances
  <2> QED BY <1>2, <2>1 DEF Nearer
<1>7. b + w <= s
  BY <1>3 DEF Bounded
<1>8. WireRecent'
  <2>1. ASSUME NEW i \in 1..(w + 1), wire'[i].kind = "query"
        PROVE  b + i + rr <= wire'[i].n + (s + 1)
    <3>1. CASE i = w + 1
      <4>1. wire'[i].n = rr
        BY <1>3, <2>1, <3>1
      <4>2. b + i + rr <= rr + (s + 1)
        BY <1>7, <3>1
      <4> QED BY <4>1, <4>2
    <3>2. CASE i # w + 1
      <4>1. i \in 1..w
        BY <3>2
      <4>2. PICK q \in Nat : q = wire[i].n
        BY <1>0, <4>1 DEF Queries
      <4>3. wire[i].kind = "query" /\ wire'[i].n = q
        BY <2>1, <4>1, <4>2
      <4>4. b + i + r <= q + s
        BY <1>3, <4>1, <4>2, <4>3 DEF Bounded, WireRecent, Recent
      <4>5. b + i + rr <= q + (s + 1)
        <5>1. b + i \in Nat
          OBVIOUS
        <5> QED BY <1>5, <4>4, <5>1
      <4> QED BY <4>3, <4>5
    <3> QED BY <3>1, <3>2
  <2> QED BY <1>3, <1>4, <2>1 DEF WireRecent, Recent
<1>9. BeforeWire' + Len(wire') <= Slack'
  <2>1. b + (w + 1) <= s + 1
    BY <1>7
  <2> QED BY <1>4, <2>1
<1>10. Radios' > 0 => Radios > 0
  BY <1>1, SamePlaces
<1> QED BY <1>1, <1>6, <1>8, <1>9, <1>10, BoundedKept DEF Bounded

LEMMA BoundedFanWrite ==
    ASSUME TypeOK, Messages, Bounded, TypeOK', Messages', NEW t \in Texts, FanWrite(t)
    PROVE  Bounded'
<1>1. /\ UNCHANGED <<round, tpc, rx, events, new_cmd, air, answers, restarts, answerLength>>
      /\ fanSent' = Append(fanSent, t) /\ wire' = Append(wire, Fan(Len(fanSent) + 1))
  BY DEF FanWrite, netVars, ghostVars
<1>2. PICK f \in Nat, w \in Nat : f = Len(fanSent) /\ w = Len(wire)
  BY Numbers
<1>3. Len(fanSent') = f + 1
  BY <1>1, <1>2, Lists, AppendS
<1>4. Fan(f + 1) \in Command /\ Fan(f + 1).kind # "query"
  BY DEF Fan, Command
<1>5. Len(wire') = w + 1 /\ (\A i \in 1..w : wire'[i] = wire[i]) /\ wire'[w + 1] = Fan(f + 1)
  BY <1>1, <1>2, <1>4, Lists, AppendS
<1>6. Slack' = Slack + 1
  <2>1. PICK r \in Nat, b \in Nat : r = restarts /\ b = IF tpc = "asked" THEN 1 ELSE 0
    BY Numbers
  <2>2. Slack = f + r + b /\ Slack' = (f + 1) + r + b
    BY <1>1, <1>2, <1>3, <2>1 DEF Slack
  <2> QED BY <2>2
<1> QED BY <1>1, <1>2, <1>4, <1>5, <1>6, BoundedWritten

LEMMA BoundedTransferWrite ==
    ASSUME TypeOK, Messages, Bounded, TypeOK', Messages', TransferWrite
    PROVE  Bounded'
<1>1. /\ UNCHANGED <<fanSent, rx, events, new_cmd, air, answers, restarts, answerLength>>
      /\ round' = round + 1 /\ tpc = "idle" /\ tpc' = "asked"
      /\ wire' = Append(wire, Query(round + 1))
  BY DEF TransferWrite, netVars, ghostVars
<1>2. PICK r \in Nat, w \in Nat : r = round /\ w = Len(wire)
  BY Numbers
<1>3. Query(r + 1) \in Command /\ Query(r + 1).n = r + 1
  BY DEF Query, Command
<1>4. Len(wire') = w + 1 /\ (\A i \in 1..w : wire'[i] = wire[i]) /\ wire'[w + 1] = Query(r + 1)
  BY <1>1, <1>2, <1>3, Lists, AppendS
<1>5. Slack' = Slack + 1
  <2>1. PICK f \in Nat, k \in Nat : f = Len(fanSent) /\ k = restarts
    BY Numbers
  <2>2. Slack = f + k + 0 /\ Slack' = f + k + 1
    BY <1>1, <2>1 DEF Slack
  <2> QED BY <2>2
<1>6. wire'[w + 1].kind = "query" => wire'[w + 1].n = round'
  BY <1>1, <1>2, <1>3, <1>4
<1> QED BY <1>1, <1>2, <1>4, <1>5, <1>6, BoundedWritten

\* What comes no farther away than the allowance lets it.
Nearing(x, d, t, e, c, u, s, r, x1, d1, t1, e1, c1, u1, w1, s1, r1) ==
    /\ r1 + s <= r + s1 => Nearer(0, 0)
    /\ x1 + d1 + r1 + s <= x + d + r + s1 => Nearer(AtCoordinator, AtCoordinator')
    /\ x1 + d1 + t1 + e1 + r1 + s <= x + d + t + e + r + s1
         => Nearer(BeforeAir, BeforeAir')
    /\ x1 + d1 + t1 + e1 + c1 + r1 + s <= x + d + t + e + c + r + s1
         => Nearer(BeforeChunks, BeforeChunks')
    /\ x1 + d1 + t1 + e1 + c1 + u1 + r1 + s <= x + d + t + e + c + u + r + s1
         => Nearer(BeforeWire, BeforeWire')
    /\ x1 + d1 + t1 + e1 + c1 + u1 + w1 <= s1 => BeforeWire' + Len(wire') <= Slack'

\* The lengths before and after a step.
Moved(x, d, t, e, c, u, w, s, r, x1, d1, t1, e1, c1, u1, w1, s1, r1) ==
    /\ Placing(x, d, t, e, c, u, w, s, r)
    /\ Placing(x1, d1, t1, e1, c1, u1, w1, s1, r1)'
    /\ Nearing(x, d, t, e, c, u, s, r, x1, d1, t1, e1, c1, u1, w1, s1, r1)
    /\ x + d + t + e + c + u + w <= s

LEMMA Moving ==
    ASSUME TypeOK, TypeOK', Bounded
    PROVE  \E x, d, t, e, c, u, w, s, r, x1, d1, t1, e1, c1, u1, w1, s1, r1 \in Nat :
              Moved(x, d, t, e, c, u, w, s, r, x1, d1, t1, e1, c1, u1, w1, s1, r1)
<1>1. PICK x \in Nat, d \in Nat, t \in Nat, e \in Nat, c \in Nat, u \in Nat, w \in Nat,
           s \in Nat, r \in Nat : Placing(x, d, t, e, c, u, w, s, r)
  BY Placed
<1>2. PICK x1 \in Nat, d1 \in Nat, t1 \in Nat, e1 \in Nat, c1 \in Nat, u1 \in Nat, w1 \in Nat,
           s1 \in Nat, r1 \in Nat : Placing(x1, d1, t1, e1, c1, u1, w1, s1, r1)'
  BY PlacedNext
<1>3. r1 + s <= r + s1 => Nearer(0, 0)
  <2>1. r1 + s <= r + s1 => 0 + r1 + s <= 0 + r + s1
    OBVIOUS
  <2> QED BY <1>1, <1>2, <2>1 DEF Placing, Nearer
<1>4. x1 + d1 + r1 + s <= x + d + r + s1 => Nearer(AtCoordinator, AtCoordinator')
  BY <1>1, <1>2 DEF Placing, Nearer
<1>5. x1 + d1 + t1 + e1 + r1 + s <= x + d + t + e + r + s1 => Nearer(BeforeAir, BeforeAir')
  BY <1>1, <1>2 DEF Placing, Nearer
<1>6. x1 + d1 + t1 + e1 + c1 + r1 + s <= x + d + t + e + c + r + s1
         => Nearer(BeforeChunks, BeforeChunks')
  BY <1>1, <1>2 DEF Placing, Nearer
<1>7. x1 + d1 + t1 + e1 + c1 + u1 + r1 + s <= x + d + t + e + c + u + r + s1
         => Nearer(BeforeWire, BeforeWire')
  BY <1>1, <1>2 DEF Placing, Nearer
<1>8. x1 + d1 + t1 + e1 + c1 + u1 + w1 <= s1 => BeforeWire' + Len(wire') <= Slack'
  BY <1>2 DEF Placing
<1>9. x + d + t + e + c + u + w <= s
  BY <1>1 DEF Bounded, Placing
<1>10. Nearing(x, d, t, e, c, u, s, r, x1, d1, t1, e1, c1, u1, w1, s1, r1)
  BY <1>3, <1>4, <1>5, <1>6, <1>7, <1>8 DEF Nearing
<1>11. Moved(x, d, t, e, c, u, w, s, r, x1, d1, t1, e1, c1, u1, w1, s1, r1)
  BY <1>1, <1>2, <1>9, <1>10 DEF Moved
<1> QED BY <1>11

LEMMA BoundedRestart ==
    ASSUME TypeOK, Messages, Bounded, TypeOK', Messages', Restart
    PROVE  Bounded'
<1>1. /\ UNCHANGED <<fanSent, round, wire, events, new_cmd, air, answers, answerLength>>
      /\ tpc' = "idle" /\ rx' = <<>> /\ restarts' = restarts + 1
  BY DEF Restart, netVars
<1>2. PICK x \in Nat, d \in Nat, t \in Nat, e \in Nat, c \in Nat, u \in Nat, w \in Nat,
           s \in Nat, r \in Nat, x1 \in Nat, d1 \in Nat, t1 \in Nat, e1 \in Nat, c1 \in Nat,
           u1 \in Nat, w1 \in Nat, s1 \in Nat, r1 \in Nat :
          Moved(x, d, t, e, c, u, w, s, r, x1, d1, t1, e1, c1, u1, w1, s1, r1)
  BY Moving
<1>3. /\ Placing(x, d, t, e, c, u, w, s, r) /\ Placing(x1, d1, t1, e1, c1, u1, w1, s1, r1)'
      /\ x + d + t + e + c + u + w <= s
      /\ Nearing(x, d, t, e, c, u, s, r, x1, d1, t1, e1, c1, u1, w1, s1, r1)
  BY <1>2 DEF Moved
<1>4. s <= s1
  <2>1. PICK f \in Nat, k \in Nat, b \in {0, 1} :
            f = Len(fanSent) /\ k = restarts /\ b = IF tpc = "asked" THEN 1 ELSE 0
    BY Numbers
  <2>2. Slack = f + k + b /\ Slack' = f + (k + 1) + 0
    BY <1>1, <2>1 DEF Slack
  <2>3. s = f + k + b /\ s1 = f + (k + 1) + 0
    BY <1>3, <2>2 DEF Placing
  <2> QED BY <2>3
<1>5. Queue' = Queue
  BY <1>1 DEF Queue
<1>6. x1 = 0 /\ d1 = d /\ t1 = t /\ e1 = e /\ c1 = c /\ u1 = u /\ w1 = w /\ r1 = r
  <2>1. x1 = 0
    <3>1. Len(rx') = 0 /\ answerLength \in {6, 7}
      BY <1>1, Numbers, EmptySeq
    <3>2. x1 = Blocks(0)
      BY <1>1, <1>3, <3>1 DEF Placing, Blocks
    <3> QED BY <3>1, <3>2, BlocksFacts
  <2>2. d1 = d /\ u1 = u
    BY <1>2, <1>3, <1>5, SamePlaces DEF Placing
  <2> QED BY <1>1, <1>2, <1>3, <2>1, <2>2 DEF Placing
<1>8. /\ Nearer(AtCoordinator, AtCoordinator') /\ Nearer(BeforeAir, BeforeAir')
      /\ Nearer(BeforeChunks, BeforeChunks') /\ Nearer(BeforeWire, BeforeWire')
      /\ BeforeWire' + Len(wire') <= Slack'
  <2>1. /\ x1 + d1 + r1 + s <= x + d + r + s1
        /\ x1 + d1 + t1 + e1 + r1 + s <= x + d + t + e + r + s1
        /\ x1 + d1 + t1 + e1 + c1 + r1 + s <= x + d + t + e + c + r + s1
        /\ x1 + d1 + t1 + e1 + c1 + u1 + r1 + s <= x + d + t + e + c + u + r + s1
        /\ x1 + d1 + t1 + e1 + c1 + u1 + w1 <= s1
    BY <1>3, <1>4, <1>6
  <2> QED BY <1>3, <2>1 DEF Nearing
<1>9. BytesRecent'
  BY <1>1, EmptySeq DEF BytesRecent
<1>10. Radios' > 0 => Radios > 0
  BY <1>5, SamePlaces
<1> QED BY <1>1, <1>5, <1>8, <1>9, <1>10, BoundedKept DEF Bounded

LEMMA BoundedTransferRead ==
    ASSUME TypeOK, Messages, Bounded, TypeOK', Messages', TransferRead
    PROVE  Bounded'
<1>1. /\ UNCHANGED <<fanSent, round, wire, events, new_cmd, air, answers, restarts, answerLength>>
      /\ tpc = "asked" /\ tpc' = "idle"
  BY DEF TransferRead, netVars, ghostVars
<1>2. PICK x \in Nat, d \in Nat, t \in Nat, e \in Nat, c \in Nat, u \in Nat, w \in Nat,
           s \in Nat, r \in Nat, x1 \in Nat, d1 \in Nat, t1 \in Nat, e1 \in Nat, c1 \in Nat,
           u1 \in Nat, w1 \in Nat, s1 \in Nat, r1 \in Nat :
          Moved(x, d, t, e, c, u, w, s, r, x1, d1, t1, e1, c1, u1, w1, s1, r1)
  BY Moving
<1>3. /\ Placing(x, d, t, e, c, u, w, s, r) /\ Placing(x1, d1, t1, e1, c1, u1, w1, s1, r1)'
      /\ x + d + t + e + c + u + w <= s
      /\ Nearing(x, d, t, e, c, u, s, r, x1, d1, t1, e1, c1, u1, w1, s1, r1)
  BY <1>2 DEF Moved
<1>4. PICK k \in 1..7, n \in Nat :
         /\ n = Len(rx) /\ k <= n /\ (k = 7 \/ k = n)
         /\ Len(rx') = n - k /\ \A i \in 1..(n - k) : rx'[i] = rx[i + k]
  BY ReadEffect
<1>5. s1 + 1 = s
  <2>1. PICK f \in Nat, a \in Nat : f = Len(fanSent) /\ a = restarts
    BY Numbers
  <2>2. s = f + a + 1 /\ s1 = f + a + 0
    BY <1>1, <1>3, <2>1 DEF Placing, Slack
  <2> QED BY <2>2
<1>6. Queue' = Queue
  BY <1>1 DEF Queue
<1>7. \A i \in 0..(n - k) : Blocks(i) \in Nat /\ Blocks(i + k) \in Nat /\ Blocks(i) + 1 <= Blocks(i + k)
  <2>1. ASSUME NEW i \in 0..(n - k)
        PROVE  Blocks(i) \in Nat /\ Blocks(i + k) \in Nat /\ Blocks(i) + 1 <= Blocks(i + k)
    <3>0. i \in Nat /\ i + k \in Nat /\ i + k >= 1
      OBVIOUS
    <3>1. answerLength \in {6, 7} /\ i \in Nat /\ i + k \in Nat /\ i + k >= 1
      BY <3>0, Numbers
    <3>2. Blocks(i) \in Nat /\ Blocks(i + k) \in Nat /\ Blocks(i + k) >= 1
      BY <3>1, BlocksFacts
    <3>3. CASE k = 7
      BY <3>1, <3>2, <3>3, BlocksFacts
    <3>4. CASE k # 7
      <4>1. i = 0
        BY <1>4, <3>4
      <4>2. Blocks(i) = 0
        BY <3>1, <4>1, BlocksFacts
      <4> QED BY <3>2, <4>2
    <3> QED BY <3>3, <3>4
  <2> QED BY <2>1
<1>8. x1 + 1 <= x /\ d1 = d /\ t1 = t /\ e1 = e /\ c1 = c /\ u1 = u /\ w1 = w /\ r1 = r
  <2>1. x1 + 1 <= x
    <3>1. x = Blocks(n) /\ x1 = Blocks(n - k)
      BY <1>1, <1>3, <1>4 DEF Placing, Blocks
    <3>2. n - k \in 0..(n - k) /\ (n - k) + k = n
      BY <1>4
    <3>3. Blocks(n - k) + 1 <= Blocks((n - k) + k)
      BY <1>7, <3>2
    <3> QED BY <3>1, <3>2, <3>3
  <2>2. d1 = d /\ u1 = u
    BY <1>3, <1>6, SamePlaces DEF Placing
  <2> QED BY <1>1, <1>3, <2>1, <2>2 DEF Placing
<1>9. /\ Nearer(AtCoordinator, AtCoordinator') /\ Nearer(BeforeAir, BeforeAir')
      /\ Nearer(BeforeChunks, BeforeChunks') /\ Nearer(BeforeWire, BeforeWire')
      /\ BeforeWire' + Len(wire') <= Slack'
  <2>1. /\ x1 + d1 + r1 + s <= x + d + r + s1
        /\ x1 + d1 + t1 + e1 + r1 + s <= x + d + t + e + r + s1
        /\ x1 + d1 + t1 + e1 + c1 + r1 + s <= x + d + t + e + c + r + s1
        /\ x1 + d1 + t1 + e1 + c1 + u1 + r1 + s <= x + d + t + e + c + u + r + s1
        /\ x1 + d1 + t1 + e1 + c1 + u1 + w1 <= s1
    BY <1>3, <1>5, <1>8
  <2> QED BY <1>3, <2>1 DEF Nearing
<1>10. BytesRecent'
  <2>1. ASSUME NEW i \in 1..(n - k)
        PROVE  Blocks(i) + r <= answers[rx[i + k].answer].query + s1
    <3>1. i + k \in 1..n /\ i \in 0..(n - k)
      BY <1>4
    <3>2. PICK q \in Nat, a \in Nat, b \in Nat :
             q = answers[rx[i + k].answer].query /\ a = Blocks(i) /\ b = Blocks(i + k)
      BY <1>4, <1>7, <3>1, Measured DEF Queries
    <3>3. b + r <= q + s
      BY <1>3, <1>4, <3>1, <3>2 DEF Bounded, BytesRecent, Recent, Placing
    <3>4. a + 1 <= b
      BY <1>7, <3>1, <3>2
    <3>5. a + r <= q + s1
      BY <1>5, <3>3, <3>4
    <3> QED BY <3>2, <3>5
  <2>2. \A i \in 1..(n - k) : Blocks(i)' + r1 <= answers'[rx'[i].answer].query + s1
    BY <1>1, <1>4, <1>8, <2>1 DEF Blocks
  <2> QED BY <1>3, <1>4, <2>2 DEF BytesRecent, Recent, Placing
<1>11. Radios' > 0 => Radios > 0
  BY <1>6, SamePlaces
<1> QED BY <1>1, <1>6, <1>9, <1>10, <1>11, BoundedKept DEF Bounded

\* What becomes of the places of the chunks when an event comes or goes.
LEMMA QueueAppended ==
    ASSUME TypeOK, NEW v \in Event, Queue' = Append(Queue, v),
           NEW q \in Nat, q = Len(Queue), Len(Queue') = q + 1
    PROVE  /\ \A i \in 0..q : SerialUpTo(i)' = SerialUpTo(i)
           /\ SerialUpTo(q + 1)' = SerialUpTo(q) + (IF v.kind = "serial" THEN 1 ELSE 0)
           /\ Radios' = Radios + (IF v.kind = "serial" THEN 0 ELSE 1)
<1>1. /\ \A i \in 0..q : SerialsIn(Queue', i) = SerialsIn(Queue, i)
      /\ SerialsIn(Queue', q + 1) = SerialsIn(Queue, q) + (IF v.kind = "serial" THEN 1 ELSE 0)
  <2>1. PICK o, p : o \in Seq(Event) /\ o = Queue /\ p = Queue' /\ p = Append(o, v)
    BY CoordinatorQueue
  <2> o \in Seq(Event)
    BY <2>1
  <2>2. Len(o) = q /\ Len(p) = q + 1
    BY <2>1
  <2>3. /\ \A i \in 0..Len(o) : SerialsIn(p, i) = SerialsIn(o, i)
        /\ SerialsIn(p, Len(p)) =
              SerialsIn(o, Len(o)) + IF v.kind = "serial" THEN 1 ELSE 0
    <3>1. p = Append(o, v)
      BY <2>1
    <3> QED BY ONLY o \in Seq(Event), v \in Event, <3>1, SerialsAppend
  <2> QED BY <2>1, <2>2, <2>3
<1>2. /\ \A i \in Nat : SerialUpTo(i)' = SerialsIn(Queue', i)
      /\ \A i \in Nat : SerialUpTo(i) = SerialsIn(Queue, i)
  BY DEF SerialUpTo, SerialsIn, SerialSet
<1>3. PICK a \in Nat : a = SerialsIn(Queue, q)
  BY SerialsType
<1>4. Radios = q - a /\ Radios' = (q + 1) - (a + (IF v.kind = "serial" THEN 1 ELSE 0))
  BY <1>1, <1>2, <1>3 DEF Radios
<1>5. Radios' = Radios + (IF v.kind = "serial" THEN 0 ELSE 1)
  BY <1>4
<1> QED BY <1>1, <1>2, <1>5

LEMMA QueueDropped ==
    ASSUME TypeOK, NEW q \in Nat, DropFacts("coordinator", q)
    PROVE  /\ \A i \in 0..(q - 1) :
                 SerialUpTo(i)' = SerialUpTo(i + 1) - (IF Queue[1].kind = "serial" THEN 1 ELSE 0)
           /\ SerialUpTo(Len(Queue))' =
                 SerialUpTo(Len(Queue)) - (IF Queue[1].kind = "serial" THEN 1 ELSE 0)
           /\ Radios' = Radios - (IF Queue[1].kind = "serial" THEN 0 ELSE 1)
           /\ Queue[1].kind # "serial" => Radios >= 1
<1>1. /\ Queue' = Tail(Queue) /\ q = Len(Queue) /\ q >= 1 /\ Len(Queue') = q - 1
  BY DEF DropFacts, Queue
<1>2. Queue \in Seq(Event) /\ Queue # <<>>
  BY <1>1, CoordinatorQueue
<1>3. \A i \in 0..(q - 1) : SerialsIn(Queue', i) =
           SerialsIn(Queue, i + 1) - (IF Queue[1].kind = "serial" THEN 1 ELSE 0)
  BY <1>1, <1>2, SerialsTail
<1>4. /\ \A i \in Nat : SerialUpTo(i)' = SerialsIn(Queue', i)
      /\ \A i \in Nat : SerialUpTo(i) = SerialsIn(Queue, i)
  BY DEF SerialUpTo, SerialsIn, SerialSet
<1>5. PICK a \in Nat : a = SerialsIn(Queue, q)
  BY SerialsType
<1>6. SerialsIn(Queue', q - 1) = a - (IF Queue[1].kind = "serial" THEN 1 ELSE 0)
  <2>1. q - 1 \in 0..(q - 1) /\ (q - 1) + 1 = q
    BY <1>1
  <2> QED BY <1>3, <1>5, <2>1
<1>7. q - 1 \in Nat
  BY <1>1
<1>8. /\ SerialUpTo(Len(Queue))' = a - (IF Queue[1].kind = "serial" THEN 1 ELSE 0)
      /\ SerialUpTo(Len(Queue)) = a
  BY <1>1, <1>4, <1>5, <1>6, <1>7
<1>9. Radios = q - a /\ Radios' = (q - 1) - (a - (IF Queue[1].kind = "serial" THEN 1 ELSE 0))
  BY <1>1, <1>8 DEF Radios
<1>10. Radios' = Radios - (IF Queue[1].kind = "serial" THEN 0 ELSE 1)
  BY <1>9
<1>11. ASSUME Queue[1].kind # "serial" PROVE Radios >= 1
  <2>1. SerialsIn(Queue, 0) = 0 /\ SerialsIn(Queue, 1) = 0
    <3>1. SerialsIn(Queue, 0 + 1) = SerialsIn(Queue, 0) + IF Queue[0 + 1].kind = "serial" THEN 1 ELSE 0
      BY SerialsNext
    <3> QED BY <1>11, <3>1, SerialsZero
  <2>2. SerialsIn(Queue, q) - SerialsIn(Queue, 1) <= q - 1
    BY <1>1, SerialsUpwards
  <2> QED BY <1>5, <1>9, <2>1, <2>2
<1>12. \A i \in 0..(q - 1) : i \in Nat /\ i + 1 \in Nat
  OBVIOUS
<1> QED BY <1>3, <1>4, <1>8, <1>10, <1>11, <1>12

LEMMA BoundedCallback ==
    ASSUME TypeOK, Messages, Bounded, TypeOK', Messages', SerialCallback
    PROVE  Bounded'
<1>1. UNCHANGED <<fanSent, round, tpc, rx, new_cmd, air, answers, restarts, answerLength>>
  BY DEF SerialCallback, monitorVars
<1>2. PICK x \in Nat, d \in Nat, t \in Nat, e \in Nat, c \in Nat, u \in Nat, w \in Nat,
           s \in Nat, r \in Nat, x1 \in Nat, d1 \in Nat, t1 \in Nat, e1 \in Nat, c1 \in Nat,
           u1 \in Nat, w1 \in Nat, s1 \in Nat, r1 \in Nat :
          Moved(x, d, t, e, c, u, w, s, r, x1, d1, t1, e1, c1, u1, w1, s1, r1)
  BY Moving
<1>3. /\ Placing(x, d, t, e, c, u, w, s, r) /\ Placing(x1, d1, t1, e1, c1, u1, w1, s1, r1)'
      /\ x + d + t + e + c + u + w <= s
      /\ Nearing(x, d, t, e, c, u, s, r, x1, d1, t1, e1, c1, u1, w1, s1, r1)
  BY <1>2 DEF Moved
<1>4. PICK k \in Nat, n \in Nat, q \in Nat, v \in Seq(Command) : CallbackFacts(k, n, q, v)
  BY CallbackEffect
<1>5. /\ n = Len(wire) /\ k \in 1..n /\ q = Len(Queue) /\ Heard(v) = wire[1]
      /\ Queue' = Append(Queue, Serial(v)) /\ Len(Queue') = q + 1
      /\ \A i \in 1..q : Queue'[i] = Queue[i]
      /\ Queue'[q + 1] = Serial(v)
      /\ events'["temp"] = events["temp"]
      /\ Len(wire') = n - k /\ \A i \in 1..(n - k) : wire'[i] = wire[i + k]
  BY <1>4 DEF CallbackFacts, Node
<1>6. Serial(v) \in Event /\ Serial(v).kind = "serial" /\ Serial(v).chunk = v
  BY DEF Serial, Event
<1>7. /\ \A i \in 0..q : SerialUpTo(i)' = SerialUpTo(i)
      /\ SerialUpTo(q + 1)' = SerialUpTo(q) + 1 /\ Radios' = Radios + 0
  BY <1>5, <1>6, QueueAppended
<1>8. /\ x1 = x /\ d1 = d /\ t1 = t /\ e1 = e /\ c1 = c /\ u1 = u + 1 /\ w1 = w - k
      /\ r1 = r /\ s1 = s /\ k >= 1 /\ w >= 1
  <2>1. d1 = d + 0 /\ u1 = u + 1
    BY <1>3, <1>5, <1>7 DEF Placing
  <2>2. x1 = x /\ s1 = s
    BY <1>1, <1>3, SamePlaces DEF Placing, Blocks
  <2> QED BY <1>1, <1>3, <1>5, <2>1, <2>2 DEF Placing
<1>9. /\ Nearer(0, 0) /\ Nearer(AtCoordinator, AtCoordinator') /\ Nearer(BeforeAir, BeforeAir')
      /\ Nearer(BeforeChunks, BeforeChunks') /\ BeforeWire' + Len(wire') <= Slack'
  <2>1. /\ r1 + s <= r + s1
        /\ x1 + d1 + r1 + s <= x + d + r + s1
        /\ x1 + d1 + t1 + e1 + r1 + s <= x + d + t + e + r + s1
        /\ x1 + d1 + t1 + e1 + c1 + r1 + s <= x + d + t + e + c + r + s1
        /\ x1 + d1 + t1 + e1 + c1 + u1 + w1 <= s1
    BY <1>3, <1>8
  <2> QED BY <1>3, <2>1 DEF Nearing
<1>10. PICK b \in Nat : /\ b = BeforeChunks /\ b = BeforeChunks'
                        /\ b + u = BeforeWire /\ b + u + 1 = BeforeWire'
  <2>1. /\ x + d + t + e + c \in Nat
        /\ x1 + d1 + t1 + e1 + c1 = x + d + t + e + c
        /\ x1 + d1 + t1 + e1 + c1 + u1 = (x + d + t + e + c) + u + 1
    BY <1>8
  <2> QED BY <1>3, <2>1 DEF Placing
<1>11. ChunksRecent'
  <2>1. ASSUME NEW i \in 1..(q + 1), Queue'[i].kind = "serial",
               Heard(Queue'[i].chunk).kind = "query"
        PROVE  b + SerialUpTo(i)' + r <= Heard(Queue'[i].chunk).n + s
    <3>1. CASE i = q + 1
      <4>1. Heard(Queue'[i].chunk) = wire[1] /\ 1 \in 1..Len(wire)
        BY <1>5, <1>6, <3>1
      <4>2. PICK y \in Nat : y = wire[1].n
        BY <4>1, Measured DEF Queries
      <4>3. b + u + 1 + r <= y + s
        BY <1>3, <1>10, <2>1, <4>1, <4>2 DEF Bounded, WireRecent, Recent, Placing
      <4>4. SerialUpTo(i)' = u + 1
        BY <1>3, <1>5, <1>7, <3>1 DEF Placing
      <4> QED BY <4>1, <4>2, <4>3, <4>4
    <3>2. CASE i # q + 1
      <4>1. i \in 1..q /\ i \in 0..q
        BY <3>2
      <4>2. Queue'[i] = Queue[i] /\ SerialUpTo(i)' = SerialUpTo(i)
        BY <1>5, <1>7, <4>1
      <4>3. i \in Serials /\ Voice(i) = Heard(Queue'[i].chunk)
        BY <1>5, <2>1, <4>1, <4>2 DEF Serials, Voice
      <4>4. BeforeChunks + SerialUpTo(i) + round <= Voice(i).n + Slack
        BY <2>1, <4>3 DEF Bounded, ChunksRecent, Recent
      <4> QED BY <1>3, <1>10, <4>2, <4>3, <4>4 DEF Placing
    <3> QED BY <3>1, <3>2
  <2> QED BY <1>3, <1>5, <1>8, <1>10, <2>1 DEF ChunksRecent, Recent, Serials, Voice, Placing
<1>12. WireRecent'
  <2>1. ASSUME NEW i \in 1..(n - k), wire'[i].kind = "query"
        PROVE  b + u + 1 + i + r <= wire'[i].n + s
    <3>1. i + k \in 1..n /\ wire'[i] = wire[i + k]
      BY <1>5
    <3>2. PICK y \in Nat : y = wire[i + k].n
      BY <1>5, <3>1, Measured DEF Queries
    <3>3. b + u + (i + k) + r <= y + s
      BY <1>3, <1>5, <1>10, <2>1, <3>1, <3>2 DEF Bounded, WireRecent, Recent, Placing
    <3>4. b + u + 1 + i + r <= y + s
      BY <1>8, <3>3
    <3> QED BY <3>1, <3>2, <3>4
  <2> QED BY <1>3, <1>5, <1>8, <1>10, <2>1 DEF WireRecent, Recent, Placing
<1>13. Radios' > 0 => Radios > 0
  <2>1. Radios \in Nat
    BY Measured DEF Lengths
  <2> QED BY <1>7, <2>1
<1> QED BY <1>1, <1>5, <1>9, <1>11, <1>12, <1>13, BoundedKept DEF Bounded

\* The coordinator hears an answer.
LEMMA BoundedHeard ==
    ASSUME TypeOK, Messages, Bounded, TypeOK', Messages', Incoming(TempCoord)
    PROVE  Bounded'
<1>1. /\ UNCHANGED <<fanSent, round, tpc, wire, rx, answers, restarts, answerLength>>
      /\ TempCoord \in Link
  BY Links DEF Incoming, monitorVars, lineVars
<1>2. PICK x \in Nat, d \in Nat, t \in Nat, e \in Nat, c \in Nat, u \in Nat, w \in Nat,
           s \in Nat, r \in Nat, x1 \in Nat, d1 \in Nat, t1 \in Nat, e1 \in Nat, c1 \in Nat,
           u1 \in Nat, w1 \in Nat, s1 \in Nat, r1 \in Nat :
          Moved(x, d, t, e, c, u, w, s, r, x1, d1, t1, e1, c1, u1, w1, s1, r1)
  BY Moving
<1>3. /\ Placing(x, d, t, e, c, u, w, s, r) /\ Placing(x1, d1, t1, e1, c1, u1, w1, s1, r1)'
      /\ x + d + t + e + c + u + w <= s
      /\ Nearing(x, d, t, e, c, u, s, r, x1, d1, t1, e1, c1, u1, w1, s1, r1)
  BY <1>2 DEF Moved
<1>4. PICK m \in Node, q \in Nat, a \in Nat : IncomingFacts(TempCoord, m, q, a)
  BY <1>1, IncomingEffect
<1>5. m = "coordinator"
  BY <1>4, Links DEF IncomingFacts
<1>6. /\ q = Len(Queue) /\ a = Len(air[TempCoord]) /\ a >= 1
      /\ new_cmd'["coordinator"] = air[TempCoord][1] /\ new_cmd'["temp"] = new_cmd["temp"]
      /\ events'["temp"] = events["temp"]
      /\ Queue' = Append(Queue, Radio) /\ Len(Queue') = q + 1
      /\ \A i \in 1..q : Queue'[i] = Queue[i]
      /\ Queue'[q + 1] = Radio
      /\ air'[CoordTemp] = air[CoordTemp]
      /\ Len(air'[TempCoord]) = a - 1
      /\ \A i \in 1..(a - 1) : air'[TempCoord][i] = air[TempCoord][i + 1]
  <2>1. /\ new_cmd'["coordinator"] = air[TempCoord][1] /\ new_cmd'["temp"] = new_cmd["temp"]
    BY <1>4, <1>5 DEF IncomingFacts, TypeOK, Node
  <2>2. air'[CoordTemp] = air[CoordTemp]
    BY <1>4, Links DEF IncomingFacts
  <2>3. /\ events'["temp"] = events["temp"]
        /\ Queue' = Append(Queue, Radio) /\ Len(Queue') = q + 1
        /\ \A i \in 1..q : Queue'[i] = Queue[i]
        /\ Queue'[q + 1] = Radio /\ q = Len(Queue)
    BY <1>4, <1>5 DEF IncomingFacts, Node, Queue
  <2>4. /\ a = Len(air[TempCoord]) /\ a >= 1 /\ Len(air'[TempCoord]) = a - 1
        /\ \A i \in 1..(a - 1) : air'[TempCoord][i] = air[TempCoord][i + 1]
    BY <1>4 DEF IncomingFacts
  <2> QED BY <2>1, <2>2, <2>3, <2>4
<1>7. Radio \in Event /\ Radio.kind # "serial"
  BY EmptySeq DEF Radio, Event
<1>8. /\ \A i \in 0..q : SerialUpTo(i)' = SerialUpTo(i)
      /\ SerialUpTo(q + 1)' = SerialUpTo(q) + 0 /\ Radios' = Radios + 1
  BY <1>6, <1>7, QueueAppended
<1>9. /\ x1 = x /\ d1 = d + 1 /\ t1 = t - 1 /\ t >= 1 /\ e1 = e /\ c1 = c /\ u1 = u /\ w1 = w
      /\ r1 = r /\ s1 = s
  <2>1. d1 = d + 1 /\ u1 = u + 0
    BY <1>3, <1>6, <1>8 DEF Placing
  <2>2. x1 = x /\ s1 = s
    BY <1>1, <1>3, SamePlaces DEF Placing, Blocks
  <2> QED BY <1>1, <1>3, <1>6, <2>1, <2>2 DEF Placing
<1>10. /\ Nearer(0, 0) /\ Nearer(BeforeAir, BeforeAir') /\ Nearer(BeforeWire, BeforeWire')
       /\ BeforeWire' + Len(wire') <= Slack'
  <2>1. /\ r1 + s <= r + s1
        /\ x1 + d1 + t1 + e1 + r1 + s <= x + d + t + e + r + s1
        /\ x1 + d1 + t1 + e1 + c1 + u1 + r1 + s <= x + d + t + e + c + u + r + s1
        /\ x1 + d1 + t1 + e1 + c1 + u1 + w1 <= s1
    BY <1>3, <1>9
  <2> QED BY <1>3, <2>1 DEF Nearing
<1>11. PICK p \in Nat, b \in Nat : /\ p = AtCoordinator /\ p + 1 = AtCoordinator'
                                   /\ b = BeforeChunks /\ b = BeforeChunks'
  <2>1. /\ x + d \in Nat /\ x1 + d1 = (x + d) + 1
        /\ x + d + t + e + c \in Nat /\ x1 + d1 + t1 + e1 + c1 = x + d + t + e + c
    BY <1>9
  <2> QED BY <1>3, <2>1 DEF Placing
<1>12. \A i \in 1..a : p + i + r <= answers[air[TempCoord][i].n].query + s
  BY <1>3, <1>6, <1>11 DEF Bounded, AnswersRecent, Recent, Placing
<1>13. BufferRecent'
  <2>1. 1 \in 1..a
    BY <1>6
  <2>2. p + 1 + r <= answers[air[TempCoord][1].n].query + s
    BY <1>12, <2>1
  <2> QED BY <1>1, <1>3, <1>6, <1>9, <1>11, <2>2 DEF BufferRecent, Recent, Placing
<1>14. AnswersRecent'
  <2>1. ASSUME NEW i \in 1..(a - 1)
        PROVE  p + 1 + i + r <= answers[air'[TempCoord][i].n].query + s
    <3>0. i + 1 \in 1..a
      OBVIOUS
    <3>1. i + 1 \in 1..a /\ air'[TempCoord][i] = air[TempCoord][i + 1]
      BY <1>6, <3>0
    <3>2. PICK y \in Nat : y = answers[air[TempCoord][i + 1].n].query
      BY <1>6, <3>1, Measured DEF Queries
    <3>3. p + (i + 1) + r <= y + s
      BY <1>12, <3>1, <3>2
    <3>4. p + 1 + i + r <= y + s
      BY <3>3
    <3> QED BY <3>1, <3>2, <3>4
  <2> QED BY <1>1, <1>3, <1>6, <1>9, <1>11, <2>1 DEF AnswersRecent, Recent, Placing
<1>15. ChunksRecent'
  <2>1. ASSUME NEW i \in 1..(q + 1), Queue'[i].kind = "serial",
               Heard(Queue'[i].chunk).kind = "query"
        PROVE  b + SerialUpTo(i)' + r <= Heard(Queue'[i].chunk).n + s
    <3>1. i \in 1..q /\ i \in 0..q
      BY <1>6, <1>7, <2>1
    <3>2. Queue'[i] = Queue[i] /\ SerialUpTo(i)' = SerialUpTo(i)
      BY <1>6, <1>8, <3>1
    <3>3. i \in Serials /\ Voice(i) = Heard(Queue'[i].chunk)
      BY <1>6, <2>1, <3>1, <3>2 DEF Serials, Voice
    <3>4. BeforeChunks + SerialUpTo(i) + round <= Voice(i).n + Slack
      BY <2>1, <3>3 DEF Bounded, ChunksRecent, Recent
    <3> QED BY <1>3, <1>11, <3>2, <3>3, <3>4 DEF Placing
  <2> QED BY <1>3, <1>6, <1>9, <1>11, <2>1 DEF ChunksRecent, Recent, Serials, Voice, Placing
<1> QED BY <1>1, <1>6, <1>10, <1>13, <1>14, <1>15, BoundedKept DEF Bounded

\* The temperature node hears a command or a query.
LEMMA BoundedAsked ==
    ASSUME TypeOK, Messages, Bounded, TypeOK', Messages', Incoming(CoordTemp)
    PROVE  Bounded'
<1>1. /\ UNCHANGED <<fanSent, round, tpc, wire, rx, answers, restarts, answerLength>>
      /\ CoordTemp \in Link
  BY Links DEF Incoming, monitorVars, lineVars
<1>2. PICK x \in Nat, d \in Nat, t \in Nat, e \in Nat, c \in Nat, u \in Nat, w \in Nat,
           s \in Nat, r \in Nat, x1 \in Nat, d1 \in Nat, t1 \in Nat, e1 \in Nat, c1 \in Nat,
           u1 \in Nat, w1 \in Nat, s1 \in Nat, r1 \in Nat :
          Moved(x, d, t, e, c, u, w, s, r, x1, d1, t1, e1, c1, u1, w1, s1, r1)
  BY Moving
<1>3. /\ Placing(x, d, t, e, c, u, w, s, r) /\ Placing(x1, d1, t1, e1, c1, u1, w1, s1, r1)'
      /\ x + d + t + e + c + u + w <= s
      /\ Nearing(x, d, t, e, c, u, s, r, x1, d1, t1, e1, c1, u1, w1, s1, r1)
  BY <1>2 DEF Moved
<1>4. PICK m \in Node, q \in Nat, a \in Nat : IncomingFacts(CoordTemp, m, q, a)
  BY <1>1, IncomingEffect
<1>5. m = "temp"
  BY <1>4, Links DEF IncomingFacts
<1>6. /\ q = Len(events["temp"]) /\ a = Len(air[CoordTemp]) /\ a >= 1
      /\ new_cmd'["temp"] = air[CoordTemp][1]
      /\ new_cmd'["coordinator"] = new_cmd["coordinator"]
      /\ Queue' = Queue /\ Len(events'["temp"]) = q + 1
      /\ air'[TempCoord] = air[TempCoord]
      /\ Len(air'[CoordTemp]) = a - 1
      /\ \A i \in 1..(a - 1) : air'[CoordTemp][i] = air[CoordTemp][i + 1]
  <2>1. /\ new_cmd'["temp"] = air[CoordTemp][1]
        /\ new_cmd'["coordinator"] = new_cmd["coordinator"]
    BY <1>4, <1>5 DEF IncomingFacts, TypeOK, Node
  <2>2. air'[TempCoord] = air[TempCoord]
    BY <1>4, Links DEF IncomingFacts
  <2>3. Queue' = Queue /\ Len(events'["temp"]) = q + 1 /\ q = Len(events["temp"])
    BY <1>4, <1>5 DEF IncomingFacts, Node, Queue
  <2>4. /\ a = Len(air[CoordTemp]) /\ a >= 1 /\ Len(air'[CoordTemp]) = a - 1
        /\ \A i \in 1..(a - 1) : air'[CoordTemp][i] = air[CoordTemp][i + 1]
    BY <1>4 DEF IncomingFacts
  <2> QED BY <2>1, <2>2, <2>3, <2>4
<1>7. /\ x1 = x /\ d1 = d /\ t1 = t /\ e1 = e + 1 /\ c1 = c - 1 /\ c >= 1 /\ u1 = u /\ w1 = w
      /\ r1 = r /\ s1 = s
  <2>1. d1 = d /\ u1 = u
    BY <1>3, <1>6, SamePlaces DEF Placing
  <2>2. x1 = x /\ s1 = s
    BY <1>1, <1>3, SamePlaces DEF Placing, Blocks
  <2> QED BY <1>1, <1>3, <1>6, <2>1, <2>2 DEF Placing
<1>8. /\ Nearer(0, 0) /\ Nearer(AtCoordinator, AtCoordinator')
      /\ Nearer(BeforeChunks, BeforeChunks') /\ Nearer(BeforeWire, BeforeWire')
      /\ BeforeWire' + Len(wire') <= Slack'
  <2>1. /\ r1 + s <= r + s1
        /\ x1 + d1 + r1 + s <= x + d + r + s1
        /\ x1 + d1 + t1 + e1 + c1 + r1 + s <= x + d + t + e + c + r + s1
        /\ x1 + d1 + t1 + e1 + c1 + u1 + r1 + s <= x + d + t + e + c + u + r + s1
        /\ x1 + d1 + t1 + e1 + c1 + u1 + w1 <= s1
    BY <1>3, <1>7
  <2> QED BY <1>3, <2>1 DEF Nearing
<1>9. PICK p \in Nat : p = BeforeAir /\ p + 1 = BeforeAir'
  <2>1. x + d + t + e \in Nat /\ x1 + d1 + t1 + e1 = (x + d + t + e) + 1
    BY <1>7
  <2> QED BY <1>3, <2>1 DEF Placing
<1>10. \A i \in 1..a : air[CoordTemp][i].kind = "query" => p + i + r <= air[CoordTemp][i].n + s
  BY <1>3, <1>6, <1>9 DEF Bounded, AirRecent, Recent, Placing
<1>11. AskedRecent'
  <2>1. 1 \in 1..a
    BY <1>6
  <2>2. air[CoordTemp][1].kind = "query" => p + 1 + r <= air[CoordTemp][1].n + s
    BY <1>10, <2>1
  <2> QED BY <1>3, <1>6, <1>7, <1>9, <2>2 DEF AskedRecent, Recent, Placing
<1>12. AirRecent'
  <2>1. ASSUME NEW i \in 1..(a - 1), air'[CoordTemp][i].kind = "query"
        PROVE  p + 1 + i + r <= air'[CoordTemp][i].n + s
    <3>0. i + 1 \in 1..a
      OBVIOUS
    <3>1. air'[CoordTemp][i] = air[CoordTemp][i + 1]
      BY <1>6
    <3>2. PICK y \in Nat : y = air[CoordTemp][i + 1].n
      BY <1>6, <3>0, Measured DEF Queries
    <3>3. p + (i + 1) + r <= y + s
      BY <1>10, <2>1, <3>0, <3>1, <3>2
    <3>4. p + 1 + i + r <= y + s
      BY <3>3
    <3> QED BY <3>1, <3>2, <3>4
  <2> QED BY <1>3, <1>6, <1>7, <1>9, <2>1 DEF AirRecent, Recent, Placing
<1>13. Radios' > 0 => Radios > 0
  BY <1>6, SamePlaces
<1> QED BY <1>1, <1>6, <1>8, <1>11, <1>12, <1>13, BoundedKept DEF Bounded

\* What only the fan sees.
LEMMA BoundedElsewhere ==
    ASSUME TypeOK, Messages, Bounded, TypeOK', Messages',
           UNCHANGED <<fanSent, round, tpc, wire, rx, answers, restarts, answerLength>>,
           Queue' = Queue, events'["temp"] = events["temp"],
           new_cmd'["temp"] = new_cmd["temp"], new_cmd'["coordinator"] = new_cmd["coordinator"],
           air'[TempCoord] = air[TempCoord], air'[CoordTemp] = air[CoordTemp]
    PROVE  Bounded'
<1>2. PICK x \in Nat, d \in Nat, t \in Nat, e \in Nat, c \in Nat, u \in Nat, w \in Nat,
           s \in Nat, r \in Nat, x1 \in Nat, d1 \in Nat, t1 \in Nat, e1 \in Nat, c1 \in Nat,
           u1 \in Nat, w1 \in Nat, s1 \in Nat, r1 \in Nat :
          Moved(x, d, t, e, c, u, w, s, r, x1, d1, t1, e1, c1, u1, w1, s1, r1)
  BY Moving
<1>3. /\ Placing(x, d, t, e, c, u, w, s, r) /\ Placing(x1, d1, t1, e1, c1, u1, w1, s1, r1)'
      /\ x + d + t + e + c + u + w <= s
      /\ Nearing(x, d, t, e, c, u, s, r, x1, d1, t1, e1, c1, u1, w1, s1, r1)
  BY <1>2 DEF Moved
<1>4. /\ x1 = x /\ d1 = d /\ t1 = t /\ e1 = e /\ c1 = c /\ u1 = u /\ w1 = w
      /\ r1 = r /\ s1 = s
  <2>1. d1 = d /\ u1 = u
    BY <1>3, SamePlaces DEF Placing
  <2>2. x1 = x /\ s1 = s
    BY <1>3, SamePlaces DEF Placing, Blocks
  <2> QED BY <1>3, <2>1, <2>2 DEF Placing
<1>5. /\ Nearer(0, 0)
      /\ Nearer(AtCoordinator, AtCoordinator') /\ Nearer(BeforeAir, BeforeAir')
      /\ Nearer(BeforeChunks, BeforeChunks') /\ Nearer(BeforeWire, BeforeWire')
      /\ BeforeWire' + Len(wire') <= Slack'
  <2>1. /\ x1 + d1 + r1 + s <= x + d + r + s1
        /\ x1 + d1 + t1 + e1 + r1 + s <= x + d + t + e + r + s1
        /\ x1 + d1 + t1 + e1 + c1 + r1 + s <= x + d + t + e + c + r + s1
        /\ x1 + d1 + t1 + e1 + c1 + u1 + r1 + s <= x + d + t + e + c + u + r + s1
        /\ x1 + d1 + t1 + e1 + c1 + u1 + w1 <= s1
    BY <1>3, <1>4
  <2>2. r1 + s <= r + s1
    BY <1>4
  <2> QED BY <1>3, <2>1, <2>2 DEF Nearing
<1>6. Radios' > 0 => Radios > 0
  BY SamePlaces
<1> QED BY <1>5, <1>6, BoundedKept DEF Bounded

LEMMA BoundedIncoming ==
    ASSUME TypeOK, Messages, Bounded, TypeOK', Messages', NEW l \in Link, Incoming(l)
    PROVE  Bounded'
<1>1. CASE l = TempCoord
  BY <1>1, BoundedHeard
<1>2. CASE l = CoordTemp
  BY <1>2, BoundedAsked
<1>3. CASE l \notin {TempCoord, CoordTemp}
  <2>1. UNCHANGED <<fanSent, round, tpc, wire, rx, answers, restarts, answerLength>>
    BY DEF Incoming, monitorVars, lineVars
  <2>2. PICK m \in Node, q \in Nat, a \in Nat : IncomingFacts(l, m, q, a)
    BY IncomingEffect
  <2>3. m = "fan"
    BY <1>3, <2>2, Links DEF IncomingFacts, Node
  <2>4. /\ Queue' = Queue /\ events'["temp"] = events["temp"]
        /\ air'[TempCoord] = air[TempCoord] /\ air'[CoordTemp] = air[CoordTemp]
    BY <1>3, <2>2, <2>3, Links DEF IncomingFacts, Node, Queue
  <2>5. new_cmd'["temp"] = new_cmd["temp"] /\ new_cmd'["coordinator"] = new_cmd["coordinator"]
    BY <2>2, <2>3 DEF IncomingFacts, TypeOK, Node
  <2> QED BY <2>1, <2>4, <2>5, BoundedElsewhere
<1> QED BY <1>1, <1>2, <1>3

LEMMA BoundedFan ==
    ASSUME TypeOK, Messages, Bounded, TypeOK', Messages', FanControl
    PROVE  Bounded'
<1>1. UNCHANGED <<fanSent, round, tpc, wire, rx, new_cmd, air, answers, restarts, answerLength>>
  BY FanEffect
<1>2. Queue' = Queue /\ events'["temp"] = events["temp"]
  BY FanEffect DEF DropFacts, Queue, Node
<1> QED BY <1>1, <1>2, BoundedElsewhere

LEMMA BoundedStutter ==
    ASSUME TypeOK, Messages, Bounded, TypeOK', Messages', UNCHANGED vars
    PROVE  Bounded'
<1>1. UNCHANGED <<fanSent, round, tpc, wire, rx, events, new_cmd, air, answers, restarts,
                  answerLength>>
  BY DEF vars, monitorVars, lineVars, netVars, ghostVars
<1> QED BY <1>1, BoundedElsewhere DEF Queue

\* A lost message leaves the others one place nearer.
LEMMA BoundedLose ==
    ASSUME TypeOK, Messages, Bounded, TypeOK', Messages', NEW l \in Link, Lose(l)
    PROVE  Bounded'
<1>1. UNCHANGED <<fanSent, round, tpc, wire, rx, events, new_cmd, answers, restarts,
                  answerLength>>
  BY DEF Lose, monitorVars, lineVars
<1>2. PICK x \in Nat, d \in Nat, t \in Nat, e \in Nat, c \in Nat, u \in Nat, w \in Nat,
           s \in Nat, r \in Nat, x1 \in Nat, d1 \in Nat, t1 \in Nat, e1 \in Nat, c1 \in Nat,
           u1 \in Nat, w1 \in Nat, s1 \in Nat, r1 \in Nat :
          Moved(x, d, t, e, c, u, w, s, r, x1, d1, t1, e1, c1, u1, w1, s1, r1)
  BY Moving
<1>3. /\ Placing(x, d, t, e, c, u, w, s, r) /\ Placing(x1, d1, t1, e1, c1, u1, w1, s1, r1)'
      /\ x + d + t + e + c + u + w <= s
      /\ Nearing(x, d, t, e, c, u, s, r, x1, d1, t1, e1, c1, u1, w1, s1, r1)
  BY <1>2 DEF Moved
<1>4. PICK a \in Nat :
         /\ a = Len(air[l]) /\ a >= 1
         /\ \A k \in Link \ {l} : air'[k] = air[k]
         /\ Len(air'[l]) = a - 1
         /\ \A i \in 1..(a - 1) : air'[l][i] = air[l][i + 1]
  BY LoseEffect
<1>5. Queue' = Queue
  BY <1>1 DEF Queue
<1>6. x1 = x /\ d1 = d /\ e1 = e /\ u1 = u /\ w1 = w /\ r1 = r /\ s1 = s
  <2>1. d1 = d /\ u1 = u
    BY <1>3, <1>5, SamePlaces DEF Placing
  <2>2. x1 = x /\ s1 = s
    BY <1>1, <1>3, SamePlaces DEF Placing, Blocks
  <2> QED BY <1>1, <1>3, <2>1, <2>2 DEF Placing
<1>7. t1 <= t /\ c1 <= c
  <2>1. CASE l = TempCoord
    <3>1. t = a /\ t1 = a - 1
      BY <1>3, <1>4, <2>1 DEF Placing
    <3>2. c1 = c
      BY <1>3, <1>4, <2>1, Links DEF Placing
    <3> QED BY <3>1, <3>2
  <2>2. CASE l = CoordTemp
    <3>1. c = a /\ c1 = a - 1
      BY <1>3, <1>4, <2>2 DEF Placing
    <3>2. t1 = t
      BY <1>3, <1>4, <2>2, Links DEF Placing
    <3> QED BY <3>1, <3>2
  <2>3. CASE l \notin {TempCoord, CoordTemp}
    <3>1. t1 = t /\ c1 = c
      BY <1>3, <1>4, <2>3, Links DEF Placing
    <3> QED BY <3>1
  <2> QED BY <2>1, <2>2, <2>3
<1>8. /\ Nearer(0, 0)
      /\ Nearer(AtCoordinator, AtCoordinator') /\ Nearer(BeforeAir, BeforeAir')
      /\ Nearer(BeforeChunks, BeforeChunks') /\ Nearer(BeforeWire, BeforeWire')
      /\ BeforeWire' + Len(wire') <= Slack'
  <2>1. /\ x1 + d1 + r1 + s <= x + d + r + s1
        /\ x1 + d1 + t1 + e1 + r1 + s <= x + d + t + e + r + s1
        /\ x1 + d1 + t1 + e1 + c1 + r1 + s <= x + d + t + e + c + r + s1
        /\ x1 + d1 + t1 + e1 + c1 + u1 + r1 + s <= x + d + t + e + c + u + r + s1
        /\ x1 + d1 + t1 + e1 + c1 + u1 + w1 <= s1
    BY <1>3, <1>6, <1>7
  <2>2. r1 + s <= r + s1
    BY <1>6
  <2> QED BY <1>3, <2>1, <2>2 DEF Nearing
<1>9. AnswersRecent'
  <2>1. CASE l = TempCoord
    <3>1. PICK p \in Nat : p = AtCoordinator /\ p = AtCoordinator'
      <4>1. x + d \in Nat /\ x1 + d1 = x + d
        BY <1>6
      <4> QED BY <1>3, <4>1 DEF Placing
    <3>2. ASSUME NEW i \in 1..(a - 1)
          PROVE  p + i + r <= answers[air'[TempCoord][i].n].query + s
      <4>0. i + 1 \in 1..a
        OBVIOUS
      <4>1. air'[TempCoord][i] = air[TempCoord][i + 1] /\ i + 1 \in 1..Len(air[TempCoord])
        BY <1>4, <2>1, <4>0
      <4>2. PICK y \in Nat : y = answers[air[TempCoord][i + 1].n].query
        BY <4>1, Measured DEF Queries
      <4>3. p + (i + 1) + r <= y + s
        BY <1>3, <3>1, <4>1, <4>2 DEF Bounded, AnswersRecent, Recent, Placing
      <4>4. p + i + r <= y + s
        BY <4>3
      <4> QED BY <4>1, <4>2, <4>4
    <3> QED BY <1>1, <1>3, <1>4, <1>6, <2>1, <3>1, <3>2 DEF AnswersRecent, Recent, Placing
  <2>2. CASE l # TempCoord
    <3>1. air'[TempCoord] = air[TempCoord]
      BY <1>4, <2>2, Links
    <3> QED BY <1>1, <1>8, <3>1, BoundedKept
  <2> QED BY <2>1, <2>2
<1>10. AirRecent'
  <2>1. CASE l = CoordTemp
    <3>1. PICK p \in Nat : p = BeforeAir /\ p = BeforeAir'
      <4>1. t1 = t
        BY <1>3, <1>4, <2>1, Links DEF Placing
      <4>2. x + d + t + e \in Nat /\ x1 + d1 + t1 + e1 = x + d + t + e
        BY <1>6, <4>1
      <4> QED BY <1>3, <4>2 DEF Placing
    <3>2. ASSUME NEW i \in 1..(a - 1), air'[CoordTemp][i].kind = "query"
          PROVE  p + i + r <= air'[CoordTemp][i].n + s
      <4>0. i + 1 \in 1..a
        OBVIOUS
      <4>1. air'[CoordTemp][i] = air[CoordTemp][i + 1] /\ i + 1 \in 1..Len(air[CoordTemp])
        BY <1>4, <2>1, <4>0
      <4>2. PICK y \in Nat : y = air[CoordTemp][i + 1].n
        BY <4>1, Measured DEF Queries
      <4>3. p + (i + 1) + r <= y + s
        BY <1>3, <3>1, <3>2, <4>1, <4>2 DEF Bounded, AirRecent, Recent, Placing
      <4>4. p + i + r <= y + s
        BY <4>3
      <4> QED BY <4>1, <4>2, <4>4
    <3> QED BY <1>1, <1>3, <1>4, <1>6, <2>1, <3>1, <3>2 DEF AirRecent, Recent, Placing
  <2>2. CASE l # CoordTemp
    <3>1. air'[CoordTemp] = air[CoordTemp]
      BY <1>4, <2>2, Links
    <3> QED BY <1>1, <1>8, <3>1, BoundedKept
  <2> QED BY <2>1, <2>2
<1>11. Radios' > 0 => Radios > 0
  BY <1>5, SamePlaces
<1> QED BY <1>1, <1>5, <1>8, <1>9, <1>10, <1>11, BoundedKept DEF Bounded

LEMMA BoundedIgnore ==
    ASSUME TypeOK, Messages, Bounded, TypeOK', Messages', TempIgnores
    PROVE  Bounded'
<1>1. UNCHANGED <<fanSent, round, tpc, wire, rx, new_cmd, air, answers, restarts, answerLength>>
  BY DEF TempIgnores, monitorVars, lineVars, ghostVars
<1>2. PICK x \in Nat, d \in Nat, t \in Nat, e \in Nat, c \in Nat, u \in Nat, w \in Nat,
           s \in Nat, r \in Nat, x1 \in Nat, d1 \in Nat, t1 \in Nat, e1 \in Nat, c1 \in Nat,
           u1 \in Nat, w1 \in Nat, s1 \in Nat, r1 \in Nat :
          Moved(x, d, t, e, c, u, w, s, r, x1, d1, t1, e1, c1, u1, w1, s1, r1)
  BY Moving
<1>3. /\ Placing(x, d, t, e, c, u, w, s, r) /\ Placing(x1, d1, t1, e1, c1, u1, w1, s1, r1)'
      /\ x + d + t + e + c + u + w <= s
      /\ Nearing(x, d, t, e, c, u, s, r, x1, d1, t1, e1, c1, u1, w1, s1, r1)
  BY <1>2 DEF Moved
<1>4. /\ events["temp"] # <<>> /\ new_cmd["temp"].kind # "query"
      /\ events' = Drop("temp") /\ "temp" \in Node
  BY DEF TempIgnores, NextEvent, Node
<1>5. PICK q \in Nat : DropFacts("temp", q)
  BY <1>4, DropEffect
<1>6. Queue' = Queue /\ e1 <= e
  <2>1. Queue' = Queue /\ q = Len(events["temp"]) /\ Len(events'["temp"]) = q - 1
    BY <1>5 DEF DropFacts, Node, Queue
  <2>2. e = q /\ e1 = q - 1
    BY <1>3, <2>1 DEF Placing
  <2> QED BY <2>1, <2>2
<1>7. x1 = x /\ d1 = d /\ t1 = t /\ c1 = c /\ u1 = u /\ w1 = w /\ r1 = r /\ s1 = s
  <2>1. d1 = d /\ u1 = u
    BY <1>3, <1>6, SamePlaces DEF Placing
  <2>2. x1 = x /\ s1 = s
    BY <1>1, <1>3, SamePlaces DEF Placing, Blocks
  <2> QED BY <1>1, <1>3, <2>1, <2>2 DEF Placing
<1>8. /\ Nearer(0, 0)
      /\ Nearer(AtCoordinator, AtCoordinator') /\ Nearer(BeforeAir, BeforeAir')
      /\ Nearer(BeforeChunks, BeforeChunks') /\ Nearer(BeforeWire, BeforeWire')
      /\ BeforeWire' + Len(wire') <= Slack'
  <2>1. /\ x1 + d1 + r1 + s <= x + d + r + s1
        /\ x1 + d1 + t1 + e1 + r1 + s <= x + d + t + e + r + s1
        /\ x1 + d1 + t1 + e1 + c1 + r1 + s <= x + d + t + e + c + r + s1
        /\ x1 + d1 + t1 + e1 + c1 + u1 + r1 + s <= x + d + t + e + c + u + r + s1
        /\ x1 + d1 + t1 + e1 + c1 + u1 + w1 <= s1
    BY <1>3, <1>6, <1>7
  <2>2. r1 + s <= r + s1
    BY <1>7
  <2> QED BY <1>3, <2>1, <2>2 DEF Nearing
<1>9. AskedRecent'
  BY <1>1, <1>4 DEF AskedRecent
<1>10. Radios' > 0 => Radios > 0
  BY <1>6, SamePlaces
<1> QED BY <1>1, <1>6, <1>8, <1>9, <1>10, BoundedKept DEF Bounded

\* The temperature node's answer is behind the answers on their way.
LEMMA BoundedMeasure ==
    ASSUME TypeOK, Messages, Bounded, TypeOK', Messages', TempControl
    PROVE  Bounded'
<1>1. UNCHANGED <<fanSent, round, tpc, wire, rx, new_cmd, restarts, answerLength>>
  BY DEF TempControl, monitorVars, lineVars, ghostVars
<1>2. PICK x \in Nat, d \in Nat, t \in Nat, e \in Nat, c \in Nat, u \in Nat, w \in Nat,
           s \in Nat, r \in Nat, x1 \in Nat, d1 \in Nat, t1 \in Nat, e1 \in Nat, c1 \in Nat,
           u1 \in Nat, w1 \in Nat, s1 \in Nat, r1 \in Nat :
          Moved(x, d, t, e, c, u, w, s, r, x1, d1, t1, e1, c1, u1, w1, s1, r1)
  BY Moving
<1>3. /\ Placing(x, d, t, e, c, u, w, s, r) /\ Placing(x1, d1, t1, e1, c1, u1, w1, s1, r1)'
      /\ x + d + t + e + c + u + w <= s
      /\ Nearing(x, d, t, e, c, u, s, r, x1, d1, t1, e1, c1, u1, w1, s1, r1)
  BY <1>2 DEF Moved
<1>4. /\ events["temp"] # <<>> /\ new_cmd["temp"].kind = "query"
  BY DEF TempControl, NextEvent
<1>5. PICK q \in Nat, a \in Nat : DropFacts("temp", q) /\ MeasureFacts(a)
  BY MeasureEffect
<1>6. Queue' = Queue /\ e = q /\ e1 = q - 1 /\ q >= 1
  <2>1. Queue' = Queue /\ q = Len(events["temp"]) /\ Len(events'["temp"]) = q - 1 /\ q >= 1
    BY <1>5 DEF DropFacts, Node, Queue
  <2> QED BY <1>3, <2>1 DEF Placing
<1>7. /\ a = Len(answers) /\ \A i \in 1..a : answers'[i] = answers[i]
      /\ answers'[a + 1].query = new_cmd["temp"].n
      /\ air'[CoordTemp] = air[CoordTemp]
      /\ t = Len(air[TempCoord]) /\ Len(air'[TempCoord]) = t + 1
      /\ \A i \in 1..t : air'[TempCoord][i] = air[TempCoord][i]
      /\ air'[TempCoord][t + 1] = Answer(a + 1)
  <2>1. /\ a = Len(answers) /\ \A i \in 1..a : answers'[i] = answers[i]
        /\ answers'[a + 1].query = new_cmd["temp"].n /\ SentFacts("temp", Answer(a + 1))
    BY <1>5 DEF MeasureFacts
  <2>2. t = Len(air[TempCoord])
    BY <1>3 DEF Placing
  <2>3. air'[CoordTemp] = air[CoordTemp]
    BY <2>1, Links DEF SentFacts
  <2>4. /\ Len(air'[TempCoord]) = t + 1
        /\ \A i \in 1..t : air'[TempCoord][i] = air[TempCoord][i]
        /\ air'[TempCoord][t + 1] = Answer(a + 1)
    BY <2>1, <2>2, Links DEF SentFacts
  <2> QED BY <2>1, <2>2, <2>3, <2>4
<1>8. x1 = x /\ d1 = d /\ t1 = t + 1 /\ c1 = c /\ u1 = u /\ w1 = w /\ r1 = r /\ s1 = s
  <2>1. d1 = d /\ u1 = u
    BY <1>3, <1>6, SamePlaces DEF Placing
  <2>2. x1 = x /\ s1 = s
    BY <1>1, <1>3, SamePlaces DEF Placing, Blocks
  <2> QED BY <1>1, <1>3, <1>7, <2>1, <2>2 DEF Placing
<1>9. /\ Nearer(0, 0)
      /\ Nearer(AtCoordinator, AtCoordinator') /\ Nearer(BeforeAir, BeforeAir')
      /\ Nearer(BeforeChunks, BeforeChunks') /\ Nearer(BeforeWire, BeforeWire')
      /\ BeforeWire' + Len(wire') <= Slack'
  <2>1. /\ x1 + d1 + r1 + s <= x + d + r + s1
        /\ x1 + d1 + t1 + e1 + r1 + s <= x + d + t + e + r + s1
        /\ x1 + d1 + t1 + e1 + c1 + r1 + s <= x + d + t + e + c + r + s1
        /\ x1 + d1 + t1 + e1 + c1 + u1 + r1 + s <= x + d + t + e + c + u + r + s1
        /\ x1 + d1 + t1 + e1 + c1 + u1 + w1 <= s1
    BY <1>3, <1>6, <1>8
  <2>2. r1 + s <= r + s1
    BY <1>8
  <2> QED BY <1>3, <2>1, <2>2 DEF Nearing
<1>10. PICK p \in Nat : p = AtCoordinator /\ p = AtCoordinator' /\ p + t + e = BeforeAir
  <2>1. x + d \in Nat /\ x1 + d1 = x + d
    BY <1>8
  <2> QED BY <1>3, <2>1 DEF Placing
<1>11. AnswersRecent'
  <2>1. ASSUME NEW i \in 1..(t + 1)
        PROVE  p + i + r <= answers'[air'[TempCoord][i].n].query + s
    <3>1. CASE i = t + 1
      <4>1. answers'[air'[TempCoord][i].n].query = new_cmd["temp"].n
        BY <1>7, <3>1 DEF Answer
      <4>2. PICK y \in Nat : y = new_cmd["temp"].n
        BY Measured DEF Queries
      <4>3. p + t + e + r <= y + s
        BY <1>3, <1>4, <1>10, <4>2 DEF Bounded, AskedRecent, Recent, Placing
      <4>4. p + i + r <= y + s
        BY <1>6, <3>1, <4>3
      <4> QED BY <4>1, <4>2, <4>4
    <3>2. CASE i # t + 1
      <4>0. i \in 1..t
        BY <3>2
      <4>1. air'[TempCoord][i] = air[TempCoord][i] /\ i \in 1..Len(air[TempCoord])
        BY <1>7, <4>0
      <4>2. air[TempCoord][i].n \in 1..a
        BY <1>7, <4>1, Measured DEF Queries
      <4>3. p + i + r <= answers[air[TempCoord][i].n].query + s
        BY <1>3, <1>10, <4>1 DEF Bounded, AnswersRecent, Recent, Placing
      <4> QED BY <1>7, <4>1, <4>2, <4>3
    <3> QED BY <3>1, <3>2
  <2> QED BY <1>3, <1>7, <1>8, <1>10, <2>1 DEF AnswersRecent, Recent, Placing
<1>12. /\ Radios' > 0 => Radios > 0
       /\ \A i \in 1..Len(answers) : answers'[i] = answers[i]
       /\ events'["temp"] # <<>> => events["temp"] # <<>>
  BY <1>4, <1>6, <1>7, SamePlaces
<1> QED BY <1>1, <1>6, <1>7, <1>9, <1>11, <1>12, BoundedKept DEF Bounded

\* The chunks that an event at the head of the queue leaves behind.
LEMMA ChunksLeft ==
    ASSUME TypeOK, Messages, Bounded, TypeOK', NEW q \in Nat, DropFacts("coordinator", q),
           UNCHANGED <<round, fanSent, restarts, tpc>>,
           NEW b \in Nat, b = BeforeChunks,
           BeforeChunks' = b + (IF Queue[1].kind = "serial" THEN 1 ELSE 0)
    PROVE  ChunksRecent'
<1>1. /\ Queue' = Tail(Queue) /\ q = Len(Queue) /\ q >= 1 /\ Len(Queue') = q - 1
      /\ \A i \in 1..(q - 1) : Queue'[i] = Queue[i + 1]
  BY DEF DropFacts, Queue
<1>2. PICK s \in Nat, r \in Nat : s = Slack /\ r = round /\ s = Slack' /\ r = round'
  BY Measured, SamePlaces DEF Lengths, Distances
<1>3. PICK k \in {0, 1} : k = IF Queue[1].kind = "serial" THEN 1 ELSE 0
  OBVIOUS
<1>4. BeforeChunks' = b + k /\ \A i \in 0..(q - 1) : SerialUpTo(i)' = SerialUpTo(i + 1) - k
  BY <1>3, QueueDropped
<1>5. ASSUME NEW i \in 1..(q - 1), Queue'[i].kind = "serial",
             Heard(Queue'[i].chunk).kind = "query"
      PROVE  b + k + SerialUpTo(i)' + r <= Heard(Queue'[i].chunk).n + s
  <2>0. i + 1 \in 1..q /\ i \in 0..(q - 1) /\ i + 1 \in Nat
    OBVIOUS
  <2>1. Queue'[i] = Queue[i + 1] /\ i + 1 \in 1..Len(Queue)
    BY <1>1, <2>0
  <2>2. i + 1 \in Serials /\ Voice(i + 1) = Heard(Queue'[i].chunk)
    BY <1>5, <2>1 DEF Serials, Voice
  <2>3. PICK y \in Nat, z \in Nat : y = Voice(i + 1).n /\ z = SerialUpTo(i + 1)
    <3>1. SerialsIn(Queue, i + 1) \in Nat
      BY <2>0, SerialsType
    <3>2. SerialUpTo(i + 1) \in Nat
      BY <3>1 DEF SerialUpTo, SerialsIn, SerialSet
    <3>3. Voice(i + 1).n \in Nat
      BY <1>5, <2>2, Measured DEF Queries
    <3> QED BY <3>2, <3>3
  <2>4. b + z + r <= y + s
    BY <1>2, <1>5, <2>2, <2>3 DEF Bounded, ChunksRecent, Recent
  <2>5. SerialUpTo(i)' = z - k
    BY <1>4, <2>0, <2>3
  <2>6. b + k + (z - k) + r <= y + s
    BY <2>4
  <2> QED BY <2>2, <2>3, <2>5, <2>6
<1> QED BY <1>1, <1>2, <1>4, <1>5 DEF ChunksRecent, Recent, Serials, Voice

LEMMA BoundedSend ==
    ASSUME TypeOK, Messages, Bounded, TypeOK', Messages', CoordinatorSend
    PROVE  Bounded'
<1>1. UNCHANGED <<fanSent, round, tpc, wire, rx, new_cmd, answers, restarts, answerLength>>
  BY DEF CoordinatorSend, monitorVars, lineVars, ghostVars
<1>2. PICK x \in Nat, d \in Nat, t \in Nat, e \in Nat, c \in Nat, u \in Nat, w \in Nat,
           s \in Nat, r \in Nat, x1 \in Nat, d1 \in Nat, t1 \in Nat, e1 \in Nat, c1 \in Nat,
           u1 \in Nat, w1 \in Nat, s1 \in Nat, r1 \in Nat :
          Moved(x, d, t, e, c, u, w, s, r, x1, d1, t1, e1, c1, u1, w1, s1, r1)
  BY Moving
<1>3. /\ Placing(x, d, t, e, c, u, w, s, r) /\ Placing(x1, d1, t1, e1, c1, u1, w1, s1, r1)'
      /\ x + d + t + e + c + u + w <= s
      /\ Nearing(x, d, t, e, c, u, s, r, x1, d1, t1, e1, c1, u1, w1, s1, r1)
  BY <1>2 DEF Moved
<1>4. PICK q \in Nat : DropFacts("coordinator", q)
  BY SendEffect
<1>5. Queue[1].kind = "serial" /\ 1 \in Serials /\ SentFacts("coordinator", Voice(1))
  BY SendEffect
<1>6. /\ c = Len(air[CoordTemp]) /\ Len(air'[CoordTemp]) = c + 1
      /\ \A i \in 1..c : air'[CoordTemp][i] = air[CoordTemp][i]
      /\ air'[CoordTemp][c + 1] = Voice(1)
      /\ air'[TempCoord] = air[TempCoord]
      /\ events'["temp"] = events["temp"]
  <2>1. c = Len(air[CoordTemp])
    BY <1>3 DEF Placing
  <2>2. events'["temp"] = events["temp"]
    BY <1>4 DEF DropFacts, Node
  <2>3. air'[TempCoord] = air[TempCoord]
    BY <1>5, Links DEF SentFacts
  <2>4. /\ Len(air'[CoordTemp]) = c + 1
        /\ \A i \in 1..c : air'[CoordTemp][i] = air[CoordTemp][i]
        /\ air'[CoordTemp][c + 1] = Voice(1)
    BY <1>5, <2>1, Links DEF SentFacts
  <2> QED BY <2>1, <2>2, <2>3, <2>4
<1>7. SerialUpTo(Len(Queue))' = SerialUpTo(Len(Queue)) - 1 /\ Radios' = Radios - 0
  BY <1>4, <1>5, QueueDropped
<1>8. x1 = x /\ d1 = d /\ t1 = t /\ e1 = e /\ c1 = c + 1 /\ u1 = u - 1 /\ w1 = w /\ r1 = r /\ s1 = s
  <2>1. d1 = d - 0 /\ u1 = u - 1
    BY <1>3, <1>7 DEF Placing
  <2>2. x1 = x /\ s1 = s
    BY <1>1, <1>3, SamePlaces DEF Placing, Blocks
  <2> QED BY <1>1, <1>3, <1>6, <2>1, <2>2 DEF Placing
<1>9. /\ Nearer(0, 0) /\ Nearer(AtCoordinator, AtCoordinator') /\ Nearer(BeforeAir, BeforeAir')
      /\ Nearer(BeforeWire, BeforeWire') /\ BeforeWire' + Len(wire') <= Slack'
  <2>1. /\ r1 + s <= r + s1
        /\ x1 + d1 + r1 + s <= x + d + r + s1
        /\ x1 + d1 + t1 + e1 + r1 + s <= x + d + t + e + r + s1
        /\ x1 + d1 + t1 + e1 + c1 + u1 + r1 + s <= x + d + t + e + c + u + r + s1
        /\ x1 + d1 + t1 + e1 + c1 + u1 + w1 <= s1
    BY <1>3, <1>8
  <2> QED BY <1>3, <2>1 DEF Nearing
<1>10. PICK p \in Nat : /\ p = BeforeAir /\ p = BeforeAir'
                        /\ p + c = BeforeChunks /\ p + c + 1 = BeforeChunks'
  <2>1. /\ x + d + t + e \in Nat /\ x1 + d1 + t1 + e1 = x + d + t + e
        /\ x1 + d1 + t1 + e1 + c1 = (x + d + t + e) + c + 1
    BY <1>8
  <2> QED BY <1>3, <2>1 DEF Placing
<1>11. AirRecent'
  <2>1. ASSUME NEW i \in 1..(c + 1), air'[CoordTemp][i].kind = "query"
        PROVE  p + i + r <= air'[CoordTemp][i].n + s
    <3>1. CASE i = c + 1
      <4>1. Voice(1).kind = "query" /\ air'[CoordTemp][i] = Voice(1)
        BY <1>6, <2>1, <3>1
      <4>2. SerialUpTo(1) = 1
        <5>1. SerialsIn(Queue, 0 + 1) = SerialsIn(Queue, 0)
                                           + IF Queue[0 + 1].kind = "serial" THEN 1 ELSE 0
          BY SerialsNext
        <5>2. SerialsIn(Queue, 1) = 1
          BY <1>5, <5>1, SerialsZero
        <5> QED BY <5>2 DEF SerialUpTo, SerialsIn, SerialSet
      <4>3. PICK y \in Nat : y = Voice(1).n
        BY <1>5, <4>1, Measured DEF Queries
      <4>4. p + c + 1 + r <= y + s
        BY <1>3, <1>5, <1>10, <4>1, <4>2, <4>3 DEF Bounded, ChunksRecent, Recent, Placing
      <4>5. p + i + r <= y + s
        BY <3>1, <4>4
      <4> QED BY <4>1, <4>3, <4>5
    <3>2. CASE i # c + 1
      <4>0. i \in 1..c
        BY <3>2
      <4>1. air'[CoordTemp][i] = air[CoordTemp][i] /\ i \in 1..Len(air[CoordTemp])
        BY <1>6, <4>0
      <4>2. p + i + r <= air[CoordTemp][i].n + s
        BY <1>3, <1>10, <2>1, <4>1 DEF Bounded, AirRecent, Recent, Placing
      <4> QED BY <4>1, <4>2
    <3> QED BY <3>1, <3>2
  <2> QED BY <1>3, <1>6, <1>8, <1>10, <2>1 DEF AirRecent, Recent, Placing
<1>12. ChunksRecent'
  <2>1. p + c \in Nat /\ BeforeChunks' = (p + c) + (IF Queue[1].kind = "serial" THEN 1 ELSE 0)
    BY <1>5, <1>10
  <2> QED BY <1>1, <1>4, <1>10, <2>1, ChunksLeft
<1>13. Radios' > 0 => Radios > 0
  BY <1>3, <1>8 DEF Placing
<1> QED BY <1>1, <1>6, <1>9, <1>11, <1>12, <1>13, BoundedKept DEF Bounded

\* The coordinator writes the answer behind the bytes that wait to be read.
LEMMA BoundedWrite ==
    ASSUME TypeOK, Messages, Bounded, TypeOK', Messages', CoordinatorWrite
    PROVE  Bounded'
<1>1. UNCHANGED <<fanSent, round, tpc, wire, new_cmd, air, answers, restarts, answerLength>>
  BY DEF CoordinatorWrite, monitorVars, ghostVars
<1>2. PICK x \in Nat, d \in Nat, t \in Nat, e \in Nat, c \in Nat, u \in Nat, w \in Nat,
           s \in Nat, r \in Nat, x1 \in Nat, d1 \in Nat, t1 \in Nat, e1 \in Nat, c1 \in Nat,
           u1 \in Nat, w1 \in Nat, s1 \in Nat, r1 \in Nat :
          Moved(x, d, t, e, c, u, w, s, r, x1, d1, t1, e1, c1, u1, w1, s1, r1)
  BY Moving
<1>3. /\ Placing(x, d, t, e, c, u, w, s, r) /\ Placing(x1, d1, t1, e1, c1, u1, w1, s1, r1)'
      /\ x + d + t + e + c + u + w <= s
      /\ Nearing(x, d, t, e, c, u, s, r, x1, d1, t1, e1, c1, u1, w1, s1, r1)
  BY <1>2 DEF Moved
<1>4. PICK q \in Nat, n \in Nat :
         DropFacts("coordinator", q) /\ WriteFacts(n, new_cmd["coordinator"].n)
  BY WriteEffect
<1>5. PICK a : a = new_cmd["coordinator"].n
  OBVIOUS
<1>6. /\ Queue[1].kind = "radio" /\ events'["temp"] = events["temp"]
      /\ n = Len(rx) /\ Len(rx') = n + answerLength
      /\ \A i \in 1..n : rx'[i] = rx[i]
      /\ \A i \in 1..answerLength : rx'[n + i] = [answer |-> a, pos |-> i]
  BY <1>4, <1>5, WriteEffect DEF DropFacts, WriteFacts, Node
<1>7. /\ SerialUpTo(Len(Queue))' = SerialUpTo(Len(Queue)) - 0 /\ Radios' = Radios - 1
      /\ Radios >= 1
  BY <1>4, <1>6, QueueDropped
<1>8. PICK g \in {6, 7} : g = answerLength /\ g = answerLength'
  BY <1>1, Numbers
<1>9. /\ x1 = x + 1 /\ d1 = d - 1 /\ d >= 1 /\ t1 = t /\ e1 = e /\ c1 = c /\ u1 = u /\ w1 = w
      /\ r1 = r /\ s1 = s
  <2>1. d1 = d - 1 /\ d >= 1 /\ u1 = u - 0
    BY <1>3, <1>7 DEF Placing
  <2>2. x1 = x + 1
    <3>1. x = Blocks(n) /\ x1 = Blocks(n + answerLength)
      BY <1>1, <1>3, <1>6 DEF Placing, Blocks
    <3> QED BY <1>8, <3>1, BlocksFacts
  <2>3. s1 = s
    BY <1>1, <1>3, SamePlaces DEF Placing
  <2> QED BY <1>1, <1>3, <1>6, <2>1, <2>2, <2>3 DEF Placing
<1>10. /\ Nearer(0, 0)
       /\ Nearer(AtCoordinator, AtCoordinator') /\ Nearer(BeforeAir, BeforeAir')
       /\ Nearer(BeforeChunks, BeforeChunks') /\ Nearer(BeforeWire, BeforeWire')
      /\ BeforeWire' + Len(wire') <= Slack'
  <2>1. /\ x1 + d1 + r1 + s <= x + d + r + s1
        /\ x1 + d1 + t1 + e1 + r1 + s <= x + d + t + e + r + s1
        /\ x1 + d1 + t1 + e1 + c1 + r1 + s <= x + d + t + e + c + r + s1
        /\ x1 + d1 + t1 + e1 + c1 + u1 + r1 + s <= x + d + t + e + c + u + r + s1
        /\ x1 + d1 + t1 + e1 + c1 + u1 + w1 <= s1
    BY <1>3, <1>9
  <2>2. r1 + s <= r + s1
    BY <1>9
  <2> QED BY <1>3, <2>1, <2>2 DEF Nearing
<1>9a. Radios > 0
  BY <1>3, <1>9 DEF Placing
<1>11. PICK p \in Nat : p = AtCoordinator /\ x + 1 <= p
  <2>1. x + d \in Nat /\ x + 1 <= x + d
    BY <1>9
  <2> QED BY <1>3, <2>1 DEF Placing
<1>12. BytesRecent'
  <2>1. ASSUME NEW i \in 1..(n + g)
        PROVE  Blocks(i) + r <= answers[rx'[i].answer].query + s
    <3>1. CASE i \in 1..n
      <4>1. rx'[i] = rx[i]
        BY <1>6, <3>1
      <4>2. Recent(answers[rx[i].answer].query, Blocks(i))
        BY <1>6, <3>1 DEF Bounded, BytesRecent
      <4> QED BY <1>3, <4>1, <4>2 DEF Recent, Placing
    <3>2. CASE i \notin 1..n
      <4>0. i - n \in 1..g /\ n + (i - n) = i /\ i \in Nat /\ n + g \in Nat /\ i <= n + g
        BY <3>2
      <4>1. rx'[i].answer = a
        <5>1. PICK j \in 1..g : i = n + j
          BY <4>0
        <5>2. rx'[n + j] = [answer |-> a, pos |-> j]
          BY <1>6, <1>8
        <5> QED BY <5>1, <5>2
      <4>2. Blocks(i) \in Nat /\ Blocks(i) <= Blocks(n + g) /\ Blocks(n + g) = Blocks(n) + 1
        <5>1. answerLength \in {6, 7} /\ answerLength = g
          BY <1>8
        <5>2. Blocks(i) \in Nat /\ Blocks(i) <= Blocks(n + g)
          BY <4>0, <5>1, BlocksFacts
        <5>3. Blocks(n + answerLength) = Blocks(n) + 1
          BY <5>1, BlocksFacts
        <5> QED BY <5>1, <5>2, <5>3
      <4>3. Blocks(n) = x
        BY <1>3, <1>6 DEF Placing
      <4>4. PICK y \in Nat : y = answers[a].query
        BY <1>5, <1>9a, Measured DEF Queries
      <4>5. p + r <= y + s
        BY <1>3, <1>5, <1>9a, <1>11, <4>4 DEF Bounded, BufferRecent, Recent, Placing
      <4>6. PICK z \in Nat : z = Blocks(i) /\ z <= x + 1
        BY <4>2, <4>3
      <4>7. z + r <= y + s
        BY <1>11, <4>5, <4>6
      <4> QED BY <4>1, <4>4, <4>6, <4>7
    <3> QED BY <3>1, <3>2
  <2>2. \A i : Blocks(i)' = Blocks(i)
    BY <1>1 DEF Blocks
  <2> QED BY <1>1, <1>3, <1>6, <1>8, <1>9, <2>1, <2>2 DEF BytesRecent, Recent, Placing
<1>13. ChunksRecent'
  <2>1. PICK b \in Nat : b = BeforeChunks /\ b = BeforeChunks'
    <3>1. x + d + t + e + c \in Nat /\ x1 + d1 + t1 + e1 + c1 = x + d + t + e + c
      BY <1>9
    <3> QED BY <1>3, <3>1 DEF Placing
  <2>2. BeforeChunks' = b + (IF Queue[1].kind = "serial" THEN 1 ELSE 0)
    <3>1. b = b + (IF Queue[1].kind = "serial" THEN 1 ELSE 0)
      BY <1>6
    <3> QED BY <2>1, <3>1
  <2> QED BY <1>1, <1>4, <2>1, <2>2, ChunksLeft
<1> QED BY <1>1, <1>6, <1>9a, <1>10, <1>12, <1>13, BoundedKept DEF Bounded

LEMMA BoundedNext ==
    ASSUME TypeOK, Messages, Bounded, TypeOK', Messages', [Next]_vars
    PROVE  Bounded'
BY StepCases, BoundedFanWrite, BoundedTransferWrite, BoundedTransferRead, BoundedRestart,
   BoundedCallback, BoundedIncoming, BoundedSend, BoundedWrite, BoundedMeasure,
   BoundedIgnore, BoundedFan, BoundedLose, BoundedStutter

\* Who reads nothing and writes nothing to the line.
LEMMA MonitorSteps ==
    ASSUME [Next]_vars
    PROVE  \/ \E f \in Texts : FanWrite(f)
           \/ TransferWrite \/ TransferRead \/ Restart
           \/ CoordinatorWrite \/ TempControl
           \/ UNCHANGED <<fanSent, round, tpc, reading, rx, answers, restarts, answerLength>>
<1>1. SerialCallback =>
          UNCHANGED <<fanSent, round, tpc, reading, rx, answers, restarts, answerLength>>
  BY DEF SerialCallback, monitorVars
<1>2. \A l \in Link : Incoming(l) \/ Lose(l) =>
          UNCHANGED <<fanSent, round, tpc, reading, rx, answers, restarts, answerLength>>
  BY DEF Incoming, Lose, monitorVars, lineVars
<1>3. CoordinatorSend \/ TempIgnores \/ FanControl =>
          UNCHANGED <<fanSent, round, tpc, reading, rx, answers, restarts, answerLength>>
  BY DEF CoordinatorSend, TempIgnores, FanControl, monitorVars, lineVars, ghostVars
<1>4. UNCHANGED vars =>
          UNCHANGED <<fanSent, round, tpc, reading, rx, answers, restarts, answerLength>>
  BY DEF vars, monitorVars, lineVars, ghostVars
<1> QED BY StepCases, <1>1, <1>2, <1>3, <1>4

LEMMA StaleNext ==
    ASSUME TypeOK, Messages, Bounded, StaleBounded, TypeOK', Messages', [Next]_vars
    PROVE  StaleBounded'
<1>1. PICK f \in Nat, k \in Nat, r \in Nat : f = Len(fanSent) /\ k = restarts /\ r = round
  BY Numbers
<1>2. reading[1].answer \in 0..Len(answers) /\ Len(answers) \in Nat
  <2>1. 1 \in 1..7
    OBVIOUS
  <2> QED BY <2>1, Numbers DEF Messages, BytesOK
<1>3. \A i \in 1..Len(answers) : answers[i].query \in Nat
  BY Measured DEF Queries
<1>4. ASSUME tpc' = tpc, reading' = reading, round' = round, restarts' = restarts,
             Len(fanSent') = f \/ Len(fanSent') = f + 1,
             \A i \in 1..Len(answers) : answers'[i] = answers[i]
      PROVE  StaleBounded'
  <2>1. ASSUME tpc = "idle", reading[1].answer # 0
        PROVE  r - answers'[reading[1].answer].query <= Len(fanSent') + k
    <3>1. reading[1].answer \in 1..Len(answers)
      BY <1>2, <2>1
    <3>2. PICK y \in Nat : y = answers[reading[1].answer].query
      BY <1>3, <3>1
    <3>3. r - y <= f + k
      BY <1>1, <2>1, <3>2 DEF StaleBounded, Behind
    <3>4. r - y <= f + 1 + k
      BY <3>3
    <3> QED BY <1>4, <3>1, <3>2, <3>3, <3>4
  <2> QED BY <1>1, <1>4, <2>1 DEF StaleBounded, Behind
<1>5. ASSUME NEW v \in Texts, FanWrite(v) PROVE StaleBounded'
  <2>1. /\ tpc' = tpc /\ reading' = reading /\ round' = round /\ restarts' = restarts
        /\ answers' = answers /\ fanSent' = Append(fanSent, v)
    BY <1>5 DEF FanWrite, ghostVars
  <2>2. Len(fanSent') = f + 1
    BY <1>1, <2>1, Lists, AppendS
  <2> QED BY <1>4, <2>1, <2>2
<1>6. CASE TransferWrite
  BY <1>6 DEF TransferWrite, StaleBounded
<1>7. CASE Restart
  <2>1. reading'[1].answer = 0
    BY <1>7 DEF Restart
  <2> QED BY <2>1 DEF StaleBounded
<1>8. CASE TransferRead
  <2>1. UNCHANGED <<fanSent, round, answers, restarts>> /\ tpc = "asked"
    BY <1>8 DEF TransferRead, ghostVars
  <2>2. PICK m \in 1..7, n \in Nat :
           /\ n = Len(rx) /\ m <= n
           /\ reading' = [i \in 1..7 |-> IF i <= m THEN rx[i] ELSE reading[i]]
    BY <1>8, ReadEffect
  <2>3. reading'[1] = rx[1] /\ 1 \in 1..Len(rx)
    <3>1. 1 \in 1..7 /\ 1 <= m /\ 1 \in 1..n
      BY <2>2
    <3> QED BY <2>2, <3>1
  <2>4. PICK y \in Nat : y = answers[rx[1].answer].query
    BY <2>3, Measured DEF Queries
  <2>5. Blocks(1) = 1
    BY Numbers, BlocksFacts
  <2>6. Slack = f + k + 1
    BY <1>1, <2>1 DEF Slack
  <2>7. 1 + r <= y + (f + k + 1)
    BY <1>1, <2>3, <2>4, <2>5, <2>6 DEF Bounded, BytesRecent, Recent
  <2>8. r - y <= f + k
    BY <2>7
  <2> QED BY <1>1, <2>1, <2>3, <2>4, <2>8 DEF StaleBounded, Behind
<1>9. CASE CoordinatorWrite
  BY <1>1, <1>4, <1>9 DEF CoordinatorWrite, monitorVars, ghostVars
<1>10. CASE TempControl
  <2>1. PICK a \in Nat : MeasureFacts(a)
    BY <1>10, MeasureEffect
  <2> QED BY <1>1, <1>4, <1>10, <2>1 DEF TempControl, MeasureFacts, monitorVars, ghostVars
<1>11. CASE UNCHANGED <<fanSent, round, tpc, reading, rx, answers, restarts, answerLength>>
  BY <1>1, <1>4, <1>11
<1> QED BY MonitorSteps, <1>5, <1>6, <1>7, <1>8, <1>9, <1>10, <1>11

-----------------------------------------------------------------------------
(* Where the answers begin *)

LEMMA Sevens ==
    /\ \A n \in Nat : n % 7 = 0 /\ n >= 1 => n >= 7
    /\ \A n \in Nat : n % 7 = 0 => (n + 7) % 7 = 0
    /\ \A n \in Nat : n % 7 = 0 /\ n >= 7 => (n - 7) % 7 = 0
    /\ \A i \in Nat : i >= 1 => ((i + 7) - 1) % 7 = (i - 1) % 7
    /\ \A i \in Nat : i >= 1 => (i - 1) % 7 \in 0..6 /\ (i - 1) % 7 < i
    /\ \A n \in Nat : \A j \in 1..7 : n % 7 = 0 => ((n + j) - 1) % 7 = j - 1
OBVIOUS

LEMMA AlignedRead ==
    ASSUME TypeOK, Messages, Aligned, TransferRead
    PROVE  Aligned' /\ OneAnswerPerReading'
<1>1. UNCHANGED <<fanSent, restarts, answerLength>>
  BY DEF TransferRead, ghostVars
<1>2. PICK k \in 1..7, n \in Nat :
         /\ n = Len(rx) /\ k <= n /\ (k = 7 \/ k = n)
         /\ reading' = [i \in 1..7 |-> IF i <= k THEN rx[i] ELSE reading[i]]
         /\ rx' \in Seq(AnswerByte) /\ Len(rx') = n - k
         /\ \A i \in 1..(n - k) : rx'[i] = rx[i + k]
  BY ReadEffect
<1>3. PICK g \in {6, 7} : g = answerLength
  BY Numbers
<1>4. ASSUME fanSent = <<>>, restarts = 0
      PROVE  /\ rx' = <<>>
             /\ \A i \in 1..6 : /\ reading'[i].answer = reading'[1].answer
                                /\ reading'[i].pos = i
  <2>1. rx # <<>>
    BY DEF TransferRead
  <2>2. n = g /\ \A i \in 1..n : rx[i].pos = i /\ rx[i].answer = rx[1].answer
    BY <1>2, <1>3, <1>4, <2>1 DEF Aligned
  <2>3. k = n
    BY <1>2, <1>3, <2>2
  <2>4. rx' = <<>>
    BY <1>2, <2>3, EmptyS
  <2>5. \A i \in 1..6 : i \in 1..7 /\ i <= k /\ i \in 1..n
    BY <1>3, <2>2, <2>3
  <2>6. \A i \in 1..6 : reading'[i] = rx[i]
    BY <1>2, <2>5
  <2> QED BY <2>2, <2>4, <2>5, <2>6
<1>5. ASSUME answerLength = 7
      PROVE  /\ (n - k) % 7 = 0
             /\ \A i \in 1..(n - k) : /\ rx'[i].pos = ((i - 1) % 7) + 1
                                      /\ rx'[i].answer = rx'[i - ((i - 1) % 7)].answer
             /\ \A i \in 1..6 : /\ reading'[i].answer = reading'[1].answer
                                /\ reading'[i].pos = i
  <2>1. /\ n % 7 = 0
        /\ \A i \in 1..n : /\ rx[i].pos = ((i - 1) % 7) + 1
                           /\ rx[i].answer = rx[i - ((i - 1) % 7)].answer
    BY <1>2, <1>5 DEF Aligned
  <2>2. n >= 7 /\ k = 7 /\ (n - k) % 7 = 0
    <3>1. n >= 7
      BY <1>2, <2>1, Sevens
    <3>2. k = 7
      BY <1>2, <3>1
    <3> QED BY <2>1, <3>1, <3>2, Sevens
  <2>3. ASSUME NEW i \in 1..(n - k)
        PROVE  /\ rx'[i].pos = ((i - 1) % 7) + 1
               /\ rx'[i].answer = rx'[i - ((i - 1) % 7)].answer
    <3>1. PICK o \in 0..6 : o = (i - 1) % 7 /\ o < i
      BY Sevens
    <3>2. ((i + 7) - 1) % 7 = o
      BY <3>1, Sevens
    <3>3. i + 7 \in 1..n /\ i - o \in 1..(n - k) /\ (i + 7) - o = (i - o) + 7
      BY <2>2, <3>1
    <3>4. rx[i + 7].pos = o + 1 /\ rx[i + 7].answer = rx[(i + 7) - o].answer
      BY <2>1, <3>2, <3>3
    <3>5. rx'[i] = rx[i + 7] /\ rx'[i - o] = rx[(i - o) + 7]
      BY <1>2, <2>2, <3>3
    <3>6. rx'[i].pos = o + 1 /\ rx'[i].answer = rx'[i - o].answer
      BY <3>3, <3>4, <3>5
    <3> QED BY <3>1, <3>6
  <2>4. ASSUME NEW i \in 1..6
        PROVE  reading'[i].answer = reading'[1].answer /\ reading'[i].pos = i
    <3>1. (i - 1) % 7 = i - 1
      OBVIOUS
    <3>2. i \in 1..n /\ i \in 1..7 /\ i <= k /\ 1 \in 1..7 /\ 1 <= k /\ i - (i - 1) = 1
      BY <2>2
    <3>3. (i - 1) % 7 = i - 1 /\ (i - 1) + 1 = i
      BY <3>1
    <3>4. rx[i].pos = i /\ rx[i].answer = rx[1].answer
      BY <2>1, <3>2, <3>3
    <3>5. reading'[i] = rx[i] /\ reading'[1] = rx[1]
      BY <1>2, <3>2
    <3> QED BY <3>4, <3>5
  <2> QED BY <2>2, <2>3, <2>4
<1>6. Aligned'
  BY <1>1, <1>2, <1>4, <1>5 DEF Aligned
<1>7. OneAnswerPerReading'
  BY <1>1, <1>4, <1>5 DEF OneAnswerPerReading
<1> QED BY <1>6, <1>7

LEMMA AlignedWrite ==
    ASSUME TypeOK, Messages, Bounded, Aligned, CoordinatorWrite
    PROVE  Aligned'
<1>1. UNCHANGED <<fanSent, restarts, answerLength>>
  BY DEF CoordinatorWrite, monitorVars, ghostVars
<1>2. PICK q \in Nat, n \in Nat :
         DropFacts("coordinator", q) /\ WriteFacts(n, new_cmd["coordinator"].n)
  BY WriteEffect
<1>3. PICK a : a = new_cmd["coordinator"].n
  OBVIOUS
<1>4. PICK g \in {6, 7} : g = answerLength
  BY Numbers
<1>5. /\ n = Len(rx) /\ Len(rx') = n + g
      /\ \A i \in 1..n : rx'[i] = rx[i]
      /\ \A i \in 1..g : rx'[n + i] = [answer |-> a, pos |-> i]
  BY <1>2, <1>3, <1>4 DEF WriteFacts
<1>6. ASSUME fanSent = <<>>, restarts = 0
      PROVE  /\ Len(rx') = g
             /\ \A i \in 1..g : rx'[i].pos = i /\ rx'[i].answer = rx'[1].answer
  <2>1. PICK x \in Nat, d \in Nat, t \in Nat, e \in Nat, c \in Nat, u \in Nat, w \in Nat,
             s \in Nat, r \in Nat : Placing(x, d, t, e, c, u, w, s, r)
    BY Placed
  <2>2. d >= 1
    <3>1. Queue[1].kind # "serial"
      BY WriteEffect
    <3> QED BY <1>2, <2>1, <3>1, QueueDropped DEF Placing
  <2>3. s <= 1
    <3>1. Slack = 0 + 0 + IF tpc = "asked" THEN 1 ELSE 0
      BY <1>6, EmptySeq DEF Slack
    <3> QED BY <2>1, <3>1 DEF Placing
  <2>4. x + d + t + e + c + u + w <= s
    BY <2>1 DEF Bounded, Placing
  <2>5. x = 0
    BY <2>2, <2>3, <2>4
  <2>6. n = 0
    <3>1. Blocks(n) = 0
      BY <1>5, <2>1, <2>5 DEF Placing
    <3>2. n >= 1 => Blocks(n) >= 1
      BY <1>4, BlocksFacts
    <3> QED BY <3>1, <3>2
  <2>7. Len(rx') = g /\ \A i \in 1..g : rx'[i] = [answer |-> a, pos |-> i]
    <3>1. 0 + g = g /\ \A i \in 1..g : 0 + i = i
      BY <1>4
    <3> QED BY <1>5, <2>6, <3>1
  <2>8. 1 \in 1..g
    BY <1>4
  <2> QED BY <2>7, <2>8
<1>7. ASSUME g = 7
      PROVE  /\ (n + g) % 7 = 0
             /\ \A i \in 1..(n + g) : /\ rx'[i].pos = ((i - 1) % 7) + 1
                                      /\ rx'[i].answer = rx'[i - ((i - 1) % 7)].answer
  <2>1. /\ n % 7 = 0
        /\ \A i \in 1..n : /\ rx[i].pos = ((i - 1) % 7) + 1
                           /\ rx[i].answer = rx[i - ((i - 1) % 7)].answer
    BY <1>4, <1>5, <1>7 DEF Aligned
  <2>2. (n + g) % 7 = 0
    BY <1>7, <2>1, Sevens
  <2>3. ASSUME NEW i \in 1..n
        PROVE  /\ rx'[i].pos = ((i - 1) % 7) + 1
               /\ rx'[i].answer = rx'[i - ((i - 1) % 7)].answer
    <3>1. PICK o \in 0..6 : o = (i - 1) % 7 /\ o < i
      BY Sevens
    <3>2. i - o \in 1..n
      BY <3>1
    <3>3. rx'[i] = rx[i] /\ rx'[i - o] = rx[i - o]
      BY <1>5, <3>2
    <3>4. rx[i].pos = o + 1 /\ rx[i].answer = rx[i - o].answer
      BY <2>1, <3>1
    <3> QED BY <3>1, <3>3, <3>4
  <2>4. ASSUME NEW j \in 1..7
        PROVE  /\ rx'[n + j].pos = (((n + j) - 1) % 7) + 1
               /\ rx'[n + j].answer = rx'[(n + j) - (((n + j) - 1) % 7)].answer
    <3>1. ((n + j) - 1) % 7 = j - 1
      BY <2>1, Sevens
    <3>2. (n + j) - (j - 1) = n + 1 /\ (j - 1) + 1 = j /\ 1 \in 1..7
      OBVIOUS
    <3>3. /\ rx'[n + j] = [answer |-> a, pos |-> j]
          /\ rx'[n + 1] = [answer |-> a, pos |-> 1]
      BY <1>5, <1>7, <3>2
    <3> QED BY <3>1, <3>2, <3>3
  <2>5. \A i \in 1..(n + g) : i \in 1..n \/ \E j \in 1..7 : i = n + j
    <3>1. ASSUME NEW i \in 1..(n + g), i \notin 1..n PROVE \E j \in 1..7 : i = n + j
      <4>1. i - n \in 1..7 /\ i = n + (i - n)
        BY <1>7, <3>1
      <4> QED BY <4>1
    <3> QED BY <3>1
  <2> QED BY <2>2, <2>3, <2>4, <2>5
<1> QED BY <1>1, <1>4, <1>5, <1>6, <1>7 DEF Aligned

LEMMA AlignedNext ==
    ASSUME TypeOK, Messages, Bounded, Aligned, OneAnswerPerReading, TypeOK', [Next]_vars
    PROVE  Aligned' /\ OneAnswerPerReading'
<1>1. ASSUME UNCHANGED <<reading, rx, restarts, answerLength>>, fanSent' = <<>> => fanSent = <<>>
      PROVE  Aligned' /\ OneAnswerPerReading'
  BY <1>1 DEF Aligned, OneAnswerPerReading
<1>2. ASSUME NEW v \in Texts, FanWrite(v) PROVE Aligned' /\ OneAnswerPerReading'
  <2>1. UNCHANGED <<reading, rx, restarts, answerLength>> /\ fanSent' = Append(fanSent, v)
    BY <1>2 DEF FanWrite, ghostVars
  <2>2. fanSent' # <<>>
    <3>1. PICK s \in Seq(Texts) : s = fanSent
      BY DEF TypeOK
    <3>2. PICK u : u = Append(s, v)
      OBVIOUS
    <3>3. u # <<>>
      BY <3>2, AppendS, <1>2
    <3> QED BY <2>1, <3>1, <3>2, <3>3
  <2> QED BY <1>1, <2>1, <2>2
<1>3. CASE TransferWrite
  BY <1>1, <1>3 DEF TransferWrite, ghostVars
<1>4. CASE Restart
  <2>1. UNCHANGED answerLength /\ rx' = <<>> /\ restarts' = restarts + 1
    BY <1>4 DEF Restart
  <2>2. restarts' # 0 /\ Len(rx') = 0
    <3>1. \A m \in Nat : m + 1 # 0
      OBVIOUS
    <3> QED BY <2>1, <3>1, Numbers, EmptySeq
  <2>3. \A i \in 1..7 : reading'[i] = [answer |-> 0, pos |-> 0]
    BY <1>4 DEF Restart
  <2>4. Aligned'
    <3>1. 0 % 7 = 0 /\ 1..0 = {}
      OBVIOUS
    <3> QED BY <2>2, <3>1 DEF Aligned
  <2>5. OneAnswerPerReading'
    <3>1. \A i \in 1..6 : i \in 1..7 /\ 1 \in 1..7
      OBVIOUS
    <3>2. \A i \in 1..6 : reading'[i].answer = 0 /\ reading'[1].answer = 0
      BY <2>3, <3>1
    <3> QED BY <3>2 DEF OneAnswerPerReading
  <2> QED BY <2>4, <2>5
<1>5. CASE TransferRead
  BY <1>5, AlignedRead
<1>6. CASE CoordinatorWrite
  <2>1. UNCHANGED <<reading, fanSent, restarts, answerLength>>
    BY <1>6 DEF CoordinatorWrite, monitorVars, ghostVars
  <2>2. OneAnswerPerReading'
    BY <2>1 DEF OneAnswerPerReading
  <2> QED BY <1>6, <2>2, AlignedWrite
<1>7. CASE TempControl
  BY <1>1, <1>7 DEF TempControl, monitorVars, lineVars, ghostVars
<1>8. CASE UNCHANGED <<fanSent, round, tpc, reading, rx, answers, restarts, answerLength>>
  BY <1>1, <1>8
<1> QED BY MonitorSteps, <1>2, <1>3, <1>4, <1>5, <1>6, <1>7, <1>8

-----------------------------------------------------------------------------
(* The invariant *)

LEMMA InitTyped ==
    ASSUME Init
    PROVE  TypeOK /\ Messages
<1> USE ZigbeeAssumption DEF ZigbeeAssumption
<1>1. Len(fanSent) = 0 /\ Len(wire) = 0 /\ Len(rx) = 0 /\ Len(answers) = 0
  BY EmptySeq DEF Init
<1>2. /\ fanSent \in Seq(Texts) /\ wire \in Seq(Command)
      /\ rx \in Seq([answer: Nat, pos: 1..7])
      /\ answers \in Seq([query: 1..MaxEvents, tens: Tens])
  BY EmptySeq DEF Init
<1>3. /\ DOMAIN events = Node
      /\ \A n \in Node : events[n] = <<>> /\ Len(events[n]) = 0
                         /\ events[n] \in Seq([kind: {"radio", "serial"}, chunk: Seq(Command)])
  BY EmptySeq DEF Init
<1>4. /\ \A l \in Link : air[l] = <<>> /\ Len(air[l]) = 0 /\ air[l] \in Seq(Message)
      /\ air \in [Link -> Seq(Message)]
  BY EmptySeq DEF Init
<1>5. \A n \in Node : new_cmd[n] = Nothing
  BY DEF Init
<1>6. Nothing.kind = "none" /\ Nothing \in Message
  BY DEF Nothing, Message
<1>7. new_cmd \in [Node -> Message]
  BY <1>6 DEF Init
<1>8. reading \in [1..7 -> [answer: Nat, pos: 0..7]]
  BY DEF Init
<1>9. TypeOK
  BY <1>2, <1>3, <1>4, <1>7, <1>8 DEF Init, TypeOK
<1>10. CountsOK
  BY <1>1 DEF CountsOK, Init
<1>11. WireOK /\ BytesOK
  <2>1. \A i \in 1..7 : reading[i].answer = 0
    BY DEF Init
  <2> QED BY <1>1, <2>1 DEF WireOK, BytesOK
<1>12. QueueOK
  BY <1>3 DEF QueueOK, Serials, Queue, Node
<1>13. AirOK
  BY <1>4 DEF AirOK
<1>14. BufferOK
  <2>1. \A n \in Node : Known(new_cmd[n])
    BY <1>5, <1>6 DEF Known, Stands
  <2> QED BY <1>3, <1>5, <1>6, <2>1 DEF BufferOK, Node, Queue
<1> QED BY <1>9, <1>10, <1>11, <1>12, <1>13, <1>14 DEF Messages

LEMMA InitInv ==
    ASSUME Init
    PROVE  NetInv
<1>1. TypeOK /\ Messages
  BY InitTyped
<1>2. /\ Len(fanSent) = 0 /\ Len(wire) = 0 /\ Len(rx) = 0 /\ fanSent = <<>> /\ rx = <<>>
      /\ tpc = "idle" /\ fanLast = 0 /\ round = 0 /\ restarts = 0
      /\ reading = [i \in 1..7 |-> [answer |-> 0, pos |-> 0]]
  BY EmptySeq DEF Init
<1>3. \A n \in Node : events[n] = <<>> /\ Len(events[n]) = 0
  BY EmptySeq DEF Init
<1>4. \A l \in Link : air[l] = <<>> /\ Len(air[l]) = 0
  BY EmptySeq DEF Init
<1>5. \A n \in Node : new_cmd[n].kind = "none"
  BY DEF Init, Nothing
<1>6. /\ Queue = <<>> /\ Len(Queue) = 0 /\ events["temp"] = <<>> /\ Len(events["temp"]) = 0
      /\ new_cmd["fan"].kind = "none"
  BY <1>3, <1>5 DEF Queue, Node
<1>7. /\ Len(air[CoordTemp]) = 0 /\ Len(air[TempCoord]) = 0 /\ Len(air[CoordFan]) = 0
  BY <1>4, Links
<1>8. Serials = {}
  BY <1>6 DEF Serials
<1>9. \A i \in 1..7 : reading[i].answer = 0
  BY <1>2
<1>10. ZigbeeInv
  <2>1. \A i \in 1..6 : i \in 1..7 /\ 1 \in 1..7
    OBVIOUS
  <2>2. OneAnswerPerReading
    BY <1>9, <2>1 DEF OneAnswerPerReading
  <2>3. PinAsCommanded
    BY <1>2 DEF PinAsCommanded
  <2> QED BY <1>1, <2>2, <2>3 DEF ZigbeeInv
<1>11. FanOrder
  <2>1. Newest = 0 /\ fanLast <= 0
    BY <1>2, <1>6 DEF Newest
  <2>2. Fans(wire) = {} /\ Fans(air[CoordFan]) = {}
    BY <1>2, <1>7 DEF Fans
  <2>3. ChunkFans = {} /\ ChunksOrdered
    BY <1>8 DEF ChunkFans, ChunksOrdered
  <2>4. Ordered(wire) /\ Ordered(air[CoordFan])
    BY <1>2, <1>7 DEF Ordered
  <2> QED BY <2>1, <2>2, <2>3, <2>4 DEF FanOrder, Below
<1>12. Pending
  BY <1>2 DEF Pending
<1>13. StaleBounded
  <2>1. 1 \in 1..7
    OBVIOUS
  <2> QED BY <1>9, <2>1 DEF StaleBounded
<1>14. Aligned
  <2>1. 0 % 7 = 0 /\ 1..0 = {}
    OBVIOUS
  <2> QED BY <1>2, <2>1 DEF Aligned
<1>15. Bounded
  <2>1. SerialUpTo(0) = 0
    <3>1. SerialsIn(Queue, 0) = 0
      BY SerialsZero
    <3> QED BY <3>1 DEF SerialsIn, SerialSet, SerialUpTo
  <2>2. Blocks(0) = 0
    BY <1>1, BlocksFacts, ZigbeeAssumption DEF TypeOK, ZigbeeAssumption
  <2>3. Radios = 0
    BY <1>6, <2>1 DEF Radios
  <2>4. AtCoordinator = 0
    BY <1>2, <2>2, <2>3 DEF AtCoordinator
  <2>5. BeforeWire + Len(wire) = 0
    BY <1>2, <1>6, <1>7, <2>1, <2>4 DEF BeforeWire, BeforeChunks, BeforeAir, BeforeTemp
  <2>6. Slack = 0
    BY <1>2 DEF Slack
  <2>7. BytesRecent /\ BufferRecent /\ AnswersRecent /\ AskedRecent
    BY <1>2, <1>6, <1>7, <2>3 DEF BytesRecent, BufferRecent, AnswersRecent, AskedRecent
  <2>8. AirRecent /\ ChunksRecent /\ WireRecent
    BY <1>2, <1>7, <1>8 DEF AirRecent, ChunksRecent, WireRecent
  <2> QED BY <2>5, <2>6, <2>7, <2>8 DEF Bounded
<1> QED BY <1>1, <1>10, <1>11, <1>12, <1>13, <1>14, <1>15 DEF NetInv

LEMMA NetNext ==
    ASSUME NetInv, [Next]_vars
    PROVE  NetInv'
<1>1. /\ TypeOK /\ PinAsCommanded /\ OneAnswerPerReading /\ Messages /\ FanOrder
      /\ Pending /\ Bounded /\ StaleBounded /\ Aligned
  BY DEF NetInv, ZigbeeInv
<1>2. TypeOK' /\ Messages'
  BY <1>1, MessagesNext
<1>3. PinAsCommanded'
  BY <1>1, PinNext
<1>4. FanOrder'
  BY <1>1, FanOrderNext
<1>5. Pending'
  BY <1>1, PendingNext
<1>6. Bounded'
  BY <1>1, <1>2, BoundedNext
<1>7. StaleBounded'
  BY <1>1, <1>2, StaleNext
<1>8. Aligned' /\ OneAnswerPerReading'
  BY <1>1, <1>2, AlignedNext
<1> QED BY <1>2, <1>3, <1>4, <1>5, <1>6, <1>7, <1>8 DEF NetInv, ZigbeeInv

LEMMA NetInvHolds == Spec => []NetInv
<1>1. Init => NetInv
  BY InitInv
<1>2. NetInv /\ [Next]_vars => NetInv'
  BY NetNext
<1> QED BY <1>1, <1>2, PTL DEF Spec

-----------------------------------------------------------------------------
(* What the network promises *)

\* The fan's pin is as the command it acted upon last says as long as no measurement
\* begins with 0 or 1; a reading is made of the bytes of one answer when every answer
\* has seven bytes, or when neither the fan nor a restart has put one out of its turn
\* (pthread_transfer.c:46-49): for every number of commands, losses and restarts.
THEOREM ZigbeeInvHolds == Spec => []ZigbeeInv
<1>1. NetInv => ZigbeeInv
  BY DEF NetInv
<1> QED BY <1>1, NetInvHolds, PTL

\* A sample read in a round answers the query of this round or of one before that is
\* no further back than there were commands of the fan and restarts: nothing but these
\* makes the line run late, and no loss makes it run later.
THEOREM StaleBoundedHolds == Spec => []StaleBounded
<1>1. NetInv => StaleBounded
  BY DEF NetInv
<1> QED BY <1>1, NetInvHolds, PTL

\* When the network is silent and the transfer thread still waits in read, its query
\* was lost, or another message took its place in the temperature node's buffer.
THEOREM QueryAnsweredHolds == Spec => []QueryAnswered
<1>1. NetInv => QueryAnswered
  BY PendingEnough DEF NetInv, ZigbeeInv
<1> QED BY <1>1, NetInvHolds, PTL

-----------------------------------------------------------------------------
(* The fan acts upon the commands in their order *)

Issued == [i \in DOMAIN fanSent |-> "fan"]
Last == [d \in {"fan"} |-> fanLast]

LEMMA IssuedGrows ==
    ASSUME TypeOK, NEW t \in Texts, FanWrite(t)
    PROVE  FanStream!Issue("fan")
<1>1. fanSent' = Append(fanSent, t) /\ UNCHANGED fanLast
  BY DEF FanWrite, ghostVars
<1>2. PICK n \in Nat : n = Len(fanSent)
  BY Numbers
<1>3. DOMAIN fanSent = 1..n
  BY <1>2, LenProperties DEF TypeOK
<1>4. fanSent' \in Seq(Texts) /\ Len(fanSent') = n + 1
  BY <1>1, <1>2, AppendS DEF TypeOK
<1>5. DOMAIN fanSent' = 1..(n + 1)
  BY <1>4, LenProperties
<1>6. PICK s \in Seq({"fan"}) : s = [i \in 1..n |-> "fan"] /\ Len(s) = n
  <2>1. [i \in 1..n |-> "fan"] \in Seq({"fan"}) /\ Len([i \in 1..n |-> "fan"]) = n
    BY SMT
  <2> QED BY <2>1
<1>7. PICK u \in Seq({"fan"}) : u = Append(s, "fan")
  BY AppendProperties
<1>8. u = [i \in 1..(n + 1) |-> "fan"]
  <2>1. Len(u) = n + 1 /\ \A i \in 1..n : u[i] = s[i]
    BY <1>6, <1>7, AppendS
  <2>2. u[n + 1] = "fan"
    BY <1>6, <1>7, AppendS
  <2>3. \A i \in 1..(n + 1) : u[i] = "fan"
    <3>1. \A i \in 1..(n + 1) : i \in 1..n \/ i = n + 1
      OBVIOUS
    <3> QED BY <1>6, <2>1, <2>2, <3>1
  <2>4. DOMAIN u = 1..(n + 1)
    BY <2>1, LenProperties
  <2> QED BY <2>3, <2>4
<1>9. Issued' = Append(Issued, "fan")
  BY <1>3, <1>5, <1>6, <1>7, <1>8 DEF Issued
<1>10. UNCHANGED Last
  BY <1>1 DEF Last
<1> QED BY <1>9, <1>10 DEF FanStream!Issue, Issued, Last

LEMMA FanActs ==
    ASSUME TypeOK, Messages, FanOrder, FanControl
    PROVE  [FanStream!Next]_(FanStream!vars)
<1>1. UNCHANGED fanSent
  BY FanEffect
<1>2. CASE UNCHANGED fanLast
  BY <1>1, <1>2 DEF FanStream!vars
<1>3. ASSUME fanLast' # fanLast
      PROVE  FanStream!Next
  <2>1. PICK m : m = new_cmd["fan"].n
    OBVIOUS
  <2>2. new_cmd["fan"].kind = "fan" /\ fanLast' = m
    BY <1>3, <2>1, FanEffect
  <2>3. PICK n \in Nat : n = Len(fanSent) /\ Newest \in 0..n /\ fanLast \in 0..n
    BY FanNumbers
  <2>4. Newest = m
    BY <2>1, <2>2 DEF Newest
  <2>5. fanLast <= m
    BY <2>4 DEF FanOrder
  <2>6. m \in 1..n /\ m > fanLast
    BY <1>3, <2>2, <2>3, <2>4, <2>5
  <2>7. DOMAIN fanSent = 1..n
    BY <2>3, LenProperties DEF TypeOK
  <2>8. Issued \in Seq({"fan"}) /\ Len(Issued) = n
    <3>1. Issued = [i \in 1..n |-> "fan"]
      BY <2>7 DEF Issued
    <3>2. [i \in 1..n |-> "fan"] \in Seq({"fan"}) /\ Len([i \in 1..n |-> "fan"]) = n
      BY SMT
    <3> QED BY <3>1, <3>2
  <2>9. Issued[m] = "fan" /\ Last["fan"] = fanLast
    BY <2>6, <2>7 DEF Issued, Last
  <2>10. Last' = [Last EXCEPT !["fan"] = m]
    BY <2>2 DEF Last
  <2>11. UNCHANGED Issued
    BY <1>1 DEF Issued
  <2>12. FanStream!Execute("fan", m)
    BY <2>6, <2>9, <2>10, <2>11 DEF FanStream!Execute, Issued, Last
  <2> QED BY <2>6, <2>8, <2>12 DEF FanStream!Next, Issued
<1> QED BY <1>2, <1>3

LEMMA FanElsewhere ==
    ASSUME [Next]_vars
    PROVE  \/ \E t \in Texts : FanWrite(t)
           \/ FanControl
           \/ UNCHANGED <<fanSent, fanLast>>
<1>1. TransferWrite \/ TransferRead \/ Restart => UNCHANGED <<fanSent, fanLast>>
  BY DEF TransferWrite, TransferRead, Restart
<1>2. SerialCallback => UNCHANGED <<fanSent, fanLast>>
  BY DEF SerialCallback, monitorVars
<1>3. (\E l \in Link : Incoming(l)) \/ (\E l \in Link : Lose(l)) => UNCHANGED <<fanSent, fanLast>>
  BY DEF Incoming, Lose, monitorVars
<1>4. CoordinatorSend \/ CoordinatorWrite => UNCHANGED <<fanSent, fanLast>>
  BY DEF CoordinatorSend, CoordinatorWrite, monitorVars
<1>5. TempControl \/ TempIgnores => UNCHANGED <<fanSent, fanLast>>
  BY DEF TempControl, TempIgnores, monitorVars
<1>6. UNCHANGED vars => UNCHANGED <<fanSent, fanLast>>
  BY DEF vars, monitorVars
<1> QED BY StepCases, <1>1, <1>2, <1>3, <1>4, <1>5, <1>6

\* ZigbeeNet implements CommandStream for the fan: fan_control.c never goes back to an
\* earlier command, although commands share the coordinator's one buffer and the air
\* with queries and answers, and although any of them may be lost or overwritten.
THEOREM FanInOrderHolds == Spec => FanInOrder
<1>1. Init => FanStream!Init
  <2>1. ASSUME Init PROVE FanStream!Init
    <3>1. DOMAIN fanSent = {} /\ fanLast = 0
      <4>1. fanSent \in Seq(Texts) /\ Len(fanSent) = 0 /\ 1..0 = {}
        BY <2>1, EmptySeq DEF Init
      <4> QED BY <2>1, <4>1, LenProperties DEF Init
    <3>2. Issued = <<>>
      <4>1. Issued = [i \in {} |-> "fan"]
        BY <3>1 DEF Issued
      <4> QED BY <4>1
    <3> QED BY <3>1, <3>2 DEF FanStream!Init, Issued
  <2> QED BY <2>1
<1>2. ASSUME NetInv, [Next]_vars
      PROVE  [FanStream!Next]_(FanStream!vars)
  <2>1. TypeOK /\ Messages /\ FanOrder
    BY <1>2 DEF NetInv, ZigbeeInv
  <2>2. ASSUME NEW t \in Texts, FanWrite(t) PROVE FanStream!Next
    BY <2>1, <2>2, IssuedGrows DEF FanStream!Next
  <2>3. CASE UNCHANGED <<fanSent, fanLast>>
    BY <2>3 DEF FanStream!vars
  <2> QED BY <1>2, <2>1, <2>2, <2>3, FanActs, FanElsewhere
<1> QED BY <1>1, <1>2, NetInvHolds, PTL DEF Spec, FanInOrder, FanStream!Spec
=============================================================================
