----------------------------- MODULE ZigbeeNet ------------------------------
(***************************************************************************)
(* The ZigBee network of the home.  Two threads of the monitor write to    *)
(* one serial line: pthread_fan the commands of the fan, pthread_transfer  *)
(* the query "22" of each of its rounds.  The coordinator broadcasts what  *)
(* it receives; the fan node looks for '0' and '1' at the beginning of a   *)
(* message, the temperature node for "22", which it answers by a broadcast *)
(* of its own that begins with the digits of the temperature.  The         *)
(* coordinator writes what it hears to the serial line.                    *)
(*                                                                         *)
(* The radio stack of a node copies each message to the one global buffer  *)
(* new_cmd and queues an event; the application looks at the buffer when   *)
(* it comes to the event.                                                  *)
(***************************************************************************)
EXTENDS Integers, Sequences, FiniteSets

CONSTANTS
    Texts,         \* what the fan thread may write, of "0", "1", "2", "3"
    Tens,          \* the first digits a measurement may have, 0 if it fails
    AnswerLengths, \* bytes of an answer on the serial line: strlen if the
                   \* coordinator runs the temperature node's program, strlen + 1
                   \* if it runs the fan node's
    MaxEvents      \* bound on the commands of the fan, the rounds of the transfer
                   \* thread, the messages lost and the restarts, together

ASSUME ZigbeeAssumption ==
    /\ Texts \subseteq {"0", "1", "2", "3"}
    /\ Tens \subseteq 0..9
    /\ AnswerLengths \subseteq {6, 7}
    /\ MaxEvents \in Nat

VARIABLES
    fanSent,   \* the commands the fan thread has written
    round,     \* queries the transfer thread has written
    tpc,       \* "idle", or "asked" until the transfer thread has read
    reading,   \* zigbee_data, the bytes of the answer
    wire,      \* written and not yet received by the coordinator
    rx,        \* bytes received and not yet read by the transfer thread
    events,    \* the event queue of each node
    new_cmd,   \* the message in the buffer of each node
    air,       \* messages under way, for each sender and receiver
    answers,   \* the measurements: the query they answer, and the first digit
    pin,       \* P1_3 of the fan node
    fanLast,   \* the command that set it last, 0 if none
    missed,    \* queries that the temperature node has not found in its buffer
    lost,      \* messages lost
    restarts,  \* restarts of the monitor
    answerLength  \* which program the coordinator runs

monitorVars == <<fanSent, round, tpc, reading>>
lineVars == <<wire, rx>>
netVars == <<events, new_cmd, air>>
ghostVars == <<missed, lost, restarts, answerLength>>
vars == <<monitorVars, lineVars, netVars, answers, pin, fanLast, ghostVars>>

Node == {"coordinator", "temp", "fan"}
Link == {<<"coordinator", "temp">>, <<"coordinator", "fan">>,
         <<"temp", "coordinator">>, <<"temp", "fan">>}

\* A message, by its beginning: n is the number of the command, the query or
\* the measurement.
Fan(n) == [kind |-> "fan", n |-> n]
Query(n) == [kind |-> "query", n |-> n]
Answer(n) == [kind |-> "answer", n |-> n]
Nothing == [kind |-> "none", n |-> 0]
Command == [kind: {"fan", "query"}, n: Nat]
Message == [kind: {"fan", "query", "answer", "none"}, n: Nat]

Radio == [kind |-> "radio", chunk |-> <<>>]
Serial(chunk) == [kind |-> "serial", chunk |-> chunk]

Init ==
    /\ fanSent = <<>>
    /\ round = 0
    /\ tpc = "idle"
    /\ reading = [i \in 1..7 |-> [answer |-> 0, pos |-> 0]]
    /\ wire = <<>>
    /\ rx = <<>>
    /\ events = [n \in Node |-> <<>>]
    /\ new_cmd = [n \in Node |-> Nothing]
    /\ air = [l \in Link |-> <<>>]
    /\ answers = <<>>
    /\ pin \in {0, 1}
    /\ fanLast = 0
    /\ missed = {}
    /\ lost = 0
    /\ restarts = 0
    /\ answerLength \in AnswerLengths

\* What the bound leaves.
MayGoOn == Len(fanSent) + round + lost + restarts < MaxEvents

----------------------------------------------------------------------------
(* The monitor *)

FanWrite(t) ==
    /\ MayGoOn
    /\ fanSent' = Append(fanSent, t)
    /\ wire' = Append(wire, Fan(Len(fanSent) + 1))
    /\ UNCHANGED <<round, tpc, reading, rx, netVars, answers, pin, fanLast, ghostVars>>

TransferWrite ==
    /\ tpc = "idle"
    /\ MayGoOn
    /\ round' = round + 1
    /\ wire' = Append(wire, Query(round + 1))
    /\ tpc' = "asked"
    /\ UNCHANGED <<fanSent, reading, rx, netVars, answers, pin, fanLast, ghostVars>>

\* read returns what has come, up to seven bytes, and waits for the first.
TransferRead ==
    /\ tpc = "asked"
    /\ rx # <<>>
    /\ LET k == IF Len(rx) < 7 THEN Len(rx) ELSE 7
       IN  /\ reading' = [i \in 1..7 |-> IF i <= k THEN rx[i] ELSE reading[i]]
           /\ rx' = SubSeq(rx, k + 1, Len(rx))
    /\ tpc' = "idle"
    /\ UNCHANGED <<fanSent, round, wire, netVars, answers, pin, fanLast, ghostVars>>

\* A new monitor flushes its side of the line when it configures it.
Restart ==
    /\ MayGoOn
    /\ restarts' = restarts + 1
    /\ tpc' = "idle"
    /\ reading' = [i \in 1..7 |-> [answer |-> 0, pos |-> 0]]
    /\ rx' = <<>>
    /\ UNCHANGED <<fanSent, round, wire, netVars, answers, pin, fanLast, missed, lost, answerLength>>

----------------------------------------------------------------------------
(* The radio stack *)

\* The callback of the serial line takes all bytes there are, of one or more
\* commands, as one message.
SerialCallback ==
    /\ \E k \in 1..Len(wire) :
          /\ events' = [events EXCEPT !["coordinator"] =
                            Append(@, Serial(SubSeq(wire, 1, k)))]
          /\ wire' = SubSeq(wire, k + 1, Len(wire))
          /\ missed' = missed \cup {wire[i].n : i \in {j \in 2..k : wire[j].kind = "query"}}
    /\ UNCHANGED <<monitorVars, rx, new_cmd, air, answers, pin, fanLast, lost, restarts, answerLength>>

\* Whether node n has yet to look at a query in its buffer.
Unseen(n) == events[n] # <<>> /\ new_cmd[n].kind = "query"

\* Mutant of Incoming: the newest message first.
IncomingNewest(l) ==
    /\ air[l] # <<>>
    /\ LET n == l[2]
       IN  /\ new_cmd' = [new_cmd EXCEPT ![n] = air[l][Len(air[l])]]
           /\ events' = [events EXCEPT ![n] = Append(@, Radio)]
    /\ air' = [air EXCEPT ![l] = SubSeq(@, 1, Len(@) - 1)]
    /\ UNCHANGED <<monitorVars, lineVars, answers, pin, fanLast, missed, lost, restarts, answerLength>>

Incoming(l) ==
    /\ air[l] # <<>>
    /\ LET n == l[2]
       IN  /\ new_cmd' = [new_cmd EXCEPT ![n] = Head(air[l])]
           /\ events' = [events EXCEPT ![n] = Append(@, Radio)]
           /\ missed' = IF n = "temp" /\ Unseen(n) THEN missed \cup {new_cmd[n].n}
                        ELSE missed
    /\ air' = [air EXCEPT ![l] = Tail(@)]
    /\ UNCHANGED <<monitorVars, lineVars, answers, pin, fanLast, lost, restarts, answerLength>>

\* Broadcasts are not acknowledged.
Lose(l) ==
    /\ air[l] # <<>>
    /\ MayGoOn
    /\ lost' = lost + 1
    /\ air' = [air EXCEPT ![l] = Tail(@)]
    /\ UNCHANGED <<monitorVars, lineVars, events, new_cmd, answers, pin, fanLast,
                   missed, restarts, answerLength>>

BroadcastFrom(s, m) ==
    [l \in Link |-> IF l[1] = s THEN Append(air[l], m) ELSE air[l]]

----------------------------------------------------------------------------
(* SampleApp_ProcessEvent and DataAnalysis *)

NextEvent(n, kind) == events[n] # <<>> /\ Head(events[n]).kind = kind
Drop(n) == [events EXCEPT ![n] = Tail(@)]

\* Mutant of Heard: the last command of a chunk.
HeardLast(chunk) == chunk[Len(chunk)]

\* Receivers look at the beginning of a message only.
Heard(chunk) == Head(chunk)

CoordinatorSend ==
    /\ NextEvent("coordinator", "serial")
    /\ air' = BroadcastFrom("coordinator", Heard(Head(events["coordinator"]).chunk))
    /\ events' = Drop("coordinator")
    /\ UNCHANGED <<monitorVars, lineVars, new_cmd, answers, pin, fanLast, ghostVars>>

\* Mutant of Bytes: the terminating zero is not written.
BytesShort(m) == [i \in 1..6 |-> [answer |-> m.n, pos |-> i]]

Bytes(m) == [i \in 1..answerLength |-> [answer |-> m.n, pos |-> i]]

CoordinatorWrite ==
    /\ NextEvent("coordinator", "radio")
    /\ rx' = rx \o Bytes(new_cmd["coordinator"])
    /\ events' = Drop("coordinator")
    /\ UNCHANGED <<monitorVars, wire, new_cmd, air, answers, pin, fanLast, ghostVars>>

\* Mutant of TempControl: an event is answered twice.
TempControlTwice ==
    /\ NextEvent("temp", "radio")
    /\ new_cmd["temp"].kind = "query"
    /\ \E d \in Tens :
          /\ answers' = Append(answers, [query |-> new_cmd["temp"].n, tens |-> d])
          /\ air' = BroadcastFrom("temp", Answer(Len(answers) + 1))
    /\ \/ events' = Drop("temp")
       \/ Len(answers) < 2 * MaxEvents /\ UNCHANGED events
    /\ UNCHANGED <<monitorVars, lineVars, new_cmd, pin, fanLast, ghostVars>>

TempControl ==
    /\ NextEvent("temp", "radio")
    /\ new_cmd["temp"].kind = "query"
    /\ \E d \in Tens :
          /\ answers' = Append(answers, [query |-> new_cmd["temp"].n, tens |-> d])
          /\ air' = BroadcastFrom("temp", Answer(Len(answers) + 1))
    /\ events' = Drop("temp")
    /\ UNCHANGED <<monitorVars, lineVars, new_cmd, pin, fanLast, ghostVars>>

TempIgnores ==
    /\ NextEvent("temp", "radio")
    /\ new_cmd["temp"].kind # "query"
    /\ events' = Drop("temp")
    /\ UNCHANGED <<monitorVars, lineVars, new_cmd, air, answers, pin, fanLast, ghostVars>>

\* What strncmp finds at the beginning of a message: 0, 1, or something else.
FirstDigit(m) ==
    CASE m.kind = "fan" /\ fanSent[m.n] = "0" -> 0
      [] m.kind = "fan" /\ fanSent[m.n] = "1" -> 1
      [] m.kind = "answer" -> answers[m.n].tens
      [] OTHER -> 2

FanControl ==
    /\ NextEvent("fan", "radio")
    /\ LET m == new_cmd["fan"]
       IN  /\ pin' = IF FirstDigit(m) \in {0, 1} THEN FirstDigit(m) ELSE pin
           /\ fanLast' = IF m.kind = "fan" /\ FirstDigit(m) \in {0, 1} THEN m.n
                         ELSE fanLast
    /\ events' = Drop("fan")
    /\ UNCHANGED <<monitorVars, lineVars, new_cmd, air, answers, ghostVars>>

----------------------------------------------------------------------------
NodeStep ==
    \/ SerialCallback \/ \E l \in Link : Incoming(l)
    \/ CoordinatorSend \/ CoordinatorWrite
    \/ TempControl \/ TempIgnores \/ FanControl

Next ==
    \/ \E t \in Texts : FanWrite(t)
    \/ TransferWrite \/ TransferRead \/ Restart
    \/ NodeStep
    \/ \E l \in Link : Lose(l)

Spec == Init /\ [][Next]_vars

----------------------------------------------------------------------------
(* Properties *)

TypeOK ==
    /\ fanSent \in Seq(Texts)
    /\ round \in 0..MaxEvents
    /\ tpc \in {"idle", "asked"}
    /\ reading \in [1..7 -> [answer: Nat, pos: 0..7]]
    /\ wire \in Seq(Command)
    /\ rx \in Seq([answer: Nat, pos: 1..7])
    /\ DOMAIN events = Node
    /\ \A n \in Node : events[n] \in Seq([kind: {"radio", "serial"}, chunk: Seq(Command)])
    /\ new_cmd \in [Node -> Message]
    /\ air \in [Link -> Seq(Message)]
    /\ answers \in Seq([query: 1..MaxEvents, tens: Tens])
    /\ pin \in {0, 1}
    /\ fanLast \in 0..MaxEvents
    /\ missed \subseteq 1..MaxEvents
    /\ lost \in 0..MaxEvents
    /\ restarts \in 0..MaxEvents
    /\ answerLength \in AnswerLengths

\* fan_test.c:19: "0:off fan 1:on fan 22:get env".  A query does not switch the fan,
\* nor does an answer that begins with neither 0 nor 1: the pin is as the command that
\* the fan node acted upon last says.  Other answers do (SampleApp.c:359 of the fan).
PinAsCommanded ==
    fanLast # 0 /\ (\A i \in DOMAIN answers : answers[i].tens \notin {0, 1})
        => pin = FirstDigit(Fan(fanLast))

\* The fan node acts upon the commands in the order in which the fan thread has
\* written them, some skipped, whatever is lost, merged or overwritten.
FanStream ==
    INSTANCE CommandStream WITH
        Device <- {"fan"}, Addressee <- {"fan"},
        issued <- [i \in DOMAIN fanSent |-> "fan"], last <- [d \in {"fan"} |-> fanLast]
FanInOrder == FanStream!Spec

\* pthread_transfer.c:46-49 takes the first six bytes for one answer.  They are, even
\* of six-byte answers as long as no answer comes out of its turn.
OneAnswerPerReading ==
    answerLength = 7 \/ (fanSent = <<>> /\ restarts = 0) =>
        \A i \in 1..6 :
            /\ reading[i].answer = reading[1].answer
            /\ reading[1].answer # 0 => reading[i].pos = i

\* The serial line and the fan, whoever writes, loses or overwrites a command.
ZigbeeInv == TypeOK /\ PinAsCommanded /\ OneAnswerPerReading

\* How many rounds the sample stored last is behind its query.
Behind == round - answers[reading[1].answer].query

\* A sample is older than its round only by answers that an event of the fan's command
\* or a restart has left over.
StaleBounded ==
    tpc = "idle" /\ reading[1].answer # 0 =>
        Behind <= Len(fanSent) + restarts

Silent ==
    /\ wire = <<>> /\ rx = <<>>
    /\ \A n \in Node : events[n] = <<>>
    /\ \A l \in Link : air[l] = <<>>

\* The transfer thread is left waiting for ever only if its query was lost, or
\* overwritten before the temperature node looked for it.
QueryAnswered ==
    Silent /\ tpc = "asked" => round \in missed \/ lost > 0
=============================================================================
