----------------------- MODULE CommandDispatch_proofs -----------------------
(***************************************************************************)
(* DispatchInv is an inductive invariant of CommandDispatch, and from it   *)
(* the devices act in the order of issue (CommandDispatch implements       *)
(* CommandStream) and no command is acted upon more often than the order   *)
(* of signal and unlock allows, for every number of CGIs, devices,         *)
(* commands and restarts and every length of the queue.                    *)
(***************************************************************************)
EXTENDS CommandDispatch, SequenceTheorems, TLAPS

LEMMA Numbers ==
    ASSUME DispatchInv
    PROVE  /\ Len(queue) \in Nat /\ Len(issued) \in Nat /\ Received \in Nat
           /\ Received <= Len(issued) /\ Len(issued) <= MaxCommands
           /\ msg \in Nat /\ msg <= Len(issued)
           /\ \A d \in Device : /\ cmd[d] \in Nat /\ last[d] \in Nat
                                /\ cmd[d] <= Len(issued)
                                /\ last[d] <= Len(issued)
<1>1. queue \in Seq(Command) /\ issued \in Seq(Addressee)
      /\ msg \in Command \cup {0}
      /\ cmd \in [Device -> Command \cup {0}] /\ last \in [Device -> Command \cup {0}]
  BY DEF DispatchInv, TypeOK
<1>2. Len(queue) \in Nat /\ Len(issued) \in Nat
  BY <1>1, LenProperties
<1>3. MaxCommands \in Nat
  BY DispatchAssumption
<1>4. msg \in Nat /\ \A d \in Device : cmd[d] \in Nat /\ last[d] \in Nat
  BY <1>1, <1>3 DEF Command
<1>5. Len(queue) <= Len(issued) /\ Len(issued) <= MaxCommands /\ msg <= Received
      /\ \A d \in Device : cmd[d] <= Received /\ last[d] <= Received
  BY DEF DispatchInv, QueueOK, ByteOK
<1>6. Received \in Nat /\ Received <= Len(issued)
  BY <1>2, <1>5 DEF Received
<1>7. \A x, y, z \in Nat : x <= y /\ y <= z => x <= z
  OBVIOUS
<1> QED BY <1>2, <1>4, <1>5, <1>6, <1>7

\* The CGIs: a new command changes nothing of the older ones.
LEMMA InvSend ==
    ASSUME DispatchInv, NEW c \in Sender, Send(c)
    PROVE  DispatchInv'
<1> USE DispatchAssumption
<1>1. /\ queue \in Seq(Command) /\ issued \in Seq(Addressee)
      /\ sending \in [Sender -> Addressee \cup {"none"}]
      /\ QueueOK /\ OwnerOK /\ ByteOK /\ RunsOK /\ TypeOK
  BY DEF DispatchInv, TypeOK
<1>2. PICK n \in Nat, k \in Nat, a \in Addressee :
         /\ n = Len(issued) /\ k = Len(queue) /\ a = sending[c]
         /\ k <= n /\ n < MaxCommands
  BY <1>1, Numbers DEF Send, QueueOK
<1>3. n + 1 \in Command
  BY <1>2 DEF Command
<1>4. /\ issued' \in Seq(Addressee) /\ Len(issued') = n + 1
      /\ \A i \in 1..n : issued'[i] = issued[i]
  BY <1>1, <1>2, AppendProperties DEF Send
<1>5. /\ queue' \in Seq(Command) /\ Len(queue') = k + 1
      /\ \A i \in 1..k : queue'[i] = queue[i]
      /\ queue'[k + 1] = n + 1
  BY <1>1, <1>2, <1>3, AppendProperties DEF Send
<1>6. UNCHANGED <<created, dispatcherVars, workerVars, boots, spurious>>
  BY DEF Send
<1>7. Received = n - k /\ Received' = n - k
  BY <1>2, <1>4, <1>5 DEF Received
<1>8. TypeOK'
  BY <1>1, <1>4, <1>5, <1>6 DEF TypeOK, Send, dispatcherVars, workerVars
<1>9. \A i \in Nat : i # 0 /\ i <= n => issued'[i] = issued[i]
  BY <1>4
<1>10. msg # 0 => Target' = Target
  BY <1>2, <1>6, <1>9, Numbers DEF Target, dispatcherVars
<1>11. Handling => msg # 0
  BY <1>1 DEF QueueOK
<1>12. QueueOK'
  <2>1. Len(queue') <= Len(issued') /\ Len(issued') <= MaxCommands
    BY <1>2, <1>4, <1>5
  <2>2. ASSUME NEW i \in 1..Len(queue') PROVE queue'[i] = (Received + i)'
    <3>1. i \in 1..k + 1
      BY <1>5
    <3>2. CASE i \in 1..k
      <4>1. queue[i] = (n - k) + i
        BY <3>2, <1>1, <1>2, <1>7 DEF QueueOK
      <4> QED BY <4>1, <3>2, <1>5, <1>7
    <3>3. CASE i = k + 1
      BY <3>3, <1>2, <1>5, <1>7
    <3> QED BY <3>1, <3>2, <3>3
  <2>3. msg' <= Received'
    BY <1>1, <1>6, <1>7 DEF QueueOK, dispatcherVars
  <2>4. Handling' => msg' = Received' /\ msg' # 0 /\ Target' \in Device
    BY <1>1, <1>6, <1>7, <1>10 DEF QueueOK, Handling, dispatcherVars
  <2> QED BY <2>1, <2>2, <2>3, <2>4 DEF QueueOK
<1>13. OwnerOK'
  <2>1. \A d \in Device : Locked(d)' <=> Locked(d)
    BY <1>6, <1>10, <1>11 DEF Locked, Handling, SignalsLocked, dispatcherVars
  <2> QED BY <2>1, <1>1, <1>6 DEF OwnerOK, workerVars
<1>14. ByteOK'
  <2> SUFFICES ASSUME NEW d \in Device
               PROVE  /\ cmd'[d] <= Received' /\ last'[d] <= Received'
                      /\ cmd'[d] # 0 => issued'[cmd'[d]] = d /\ last'[d] <= cmd'[d]
    BY DEF ByteOK
  <2>1. cmd'[d] = cmd[d] /\ last'[d] = last[d]
    BY <1>6 DEF workerVars
  <2>2. cmd[d] # 0 => issued'[cmd[d]] = issued[cmd[d]]
    BY <1>2, <1>9, Numbers
  <2> QED BY <2>1, <2>2, <1>1, <1>7 DEF ByteOK
<1>15. RunsOK'
  <2>1. \A d \in Device : Pending(d)' <=> Pending(d)
    BY <1>6, <1>10, <1>11 DEF Pending, Handling, dispatcherVars
  <2> QED BY <2>1, <1>1, <1>6 DEF RunsOK, workerVars
<1> QED BY <1>8, <1>12, <1>13, <1>14, <1>15 DEF DispatchInv

LEMMA InvAsk ==
    ASSUME DispatchInv,
           sending' \in [Sender -> Addressee \cup {"none"}], created' \in BOOLEAN,
           UNCHANGED <<queue, issued, dispatcherVars, workerVars, boots, spurious>>
    PROVE  DispatchInv'
BY DEF DispatchInv, TypeOK, QueueOK, OwnerOK, ByteOK, RunsOK, Received, Handling,
       Target, Locked, Pending, SignalsLocked, dispatcherVars, workerVars

----------------------------------------------------------------------------
\* The dispatcher between two commands holds no mutex and owes no signal.
LEMMA Idle ==
    ASSUME DispatchInv, dpc \notin {"d_store", "d_unlock", "d_signal"}
    PROVE  \A d \in Device : ~Locked(d) /\ ~Pending(d) /\ owner[d] # "dispatcher"
BY DEF DispatchInv, OwnerOK, Locked, Pending

LEMMA InvOpenQueue ==
    ASSUME DispatchInv, OpenQueue
    PROVE  DispatchInv'
<1>1. /\ dpc = "d_open" /\ dpc' = "d_recv" /\ created' = TRUE
      /\ UNCHANGED <<sending, issued, queue, msg, owner, cmd, wpc, last, runs, boots, spurious>>
  BY DEF OpenQueue, senderVars, workerVars
<1>2. TypeOK'
  BY <1>1 DEF DispatchInv, TypeOK, DispatcherLabels
<1>3. QueueOK' /\ ByteOK'
  BY <1>1 DEF DispatchInv, QueueOK, ByteOK, Received, Handling
<1>4. OwnerOK' /\ RunsOK'
  <2>1. \A d \in Device : ~Locked(d)' /\ ~Pending(d)'
    BY <1>1 DEF Locked, Pending
  <2>2. \A d \in Device : ~Locked(d) /\ ~Pending(d)
    BY <1>1, Idle
  <2> QED BY <2>1, <2>2, <1>1 DEF DispatchInv, OwnerOK, RunsOK
<1> QED BY <1>2, <1>3, <1>4 DEF DispatchInv

LEMMA InvReceive ==
    ASSUME DispatchInv, Receive
    PROVE  DispatchInv'
<1> USE DispatchAssumption
<1>1. /\ queue \in Seq(Command) /\ issued \in Seq(Addressee)
      /\ QueueOK /\ OwnerOK /\ ByteOK /\ RunsOK /\ TypeOK
  BY DEF DispatchInv, TypeOK
<1>2. /\ dpc = "d_recv" /\ queue # <<>>
      /\ msg' = Head(queue) /\ queue' = Tail(queue)
      /\ dpc' = IF issued[msg'] \in Device THEN "d_lock" ELSE "d_recv"
      /\ UNCHANGED <<sending, issued, created, owner, cmd, wpc, last, runs, boots, spurious>>
  BY DEF Receive, senderVars, workerVars
<1>3. PICK n \in Nat, k \in Nat :
         n = Len(issued) /\ k = Len(queue) /\ k # 0 /\ k <= n /\ n <= MaxCommands
  BY <1>1, <1>2, Numbers, EmptySeq DEF QueueOK
<1>4. /\ queue' \in Seq(Command) /\ Len(queue') = k - 1
      /\ \A i \in 1..k - 1 : queue'[i] = queue[i + 1]
      /\ msg' = queue[1]
  BY <1>1, <1>2, <1>3, HeadTailProperties
<1>5. Received = n - k /\ Received' = (n - k) + 1
  BY <1>2, <1>3, <1>4 DEF Received
<1>6. \A i \in 1..k : queue[i] = (n - k) + i
  BY <1>1, <1>3, <1>5 DEF QueueOK
<1>7. msg' = (n - k) + 1 /\ msg' \in Command
  BY <1>3, <1>4, <1>6 DEF Command
<1>8. TypeOK'
  BY <1>1, <1>2, <1>4, <1>7 DEF TypeOK, DispatcherLabels
<1>9. QueueOK'
  <2>1. Len(queue') <= Len(issued') /\ Len(issued') <= MaxCommands
    BY <1>2, <1>3, <1>4
  <2>2. ASSUME NEW i \in 1..Len(queue') PROVE queue'[i] = (Received + i)'
    <3>1. i \in 1..k - 1 /\ i + 1 \in 1..k
      BY <1>3, <1>4
    <3>2. queue'[i] = (n - k) + (i + 1)
      BY <3>1, <1>4, <1>6
    <3> QED BY <3>1, <3>2, <1>3, <1>5
  <2>3. msg' = Received' /\ msg' # 0
    BY <1>3, <1>5, <1>7
  <2>4. Handling' => Target' \in Device
    BY <1>2 DEF Handling, Target
  <2>5. msg' <= Received'
    BY <2>3, <1>3, <1>7
  <2> QED BY <2>1, <2>2, <2>3, <2>4, <2>5 DEF QueueOK
<1>10. OwnerOK' /\ RunsOK'
  <2>1. \A d \in Device : ~Locked(d)' /\ ~Pending(d)'
    BY <1>2 DEF Locked, Pending
  <2>2. \A d \in Device : ~Locked(d) /\ ~Pending(d)
    BY <1>2, Idle
  <2> QED BY <2>1, <2>2, <1>1, <1>2 DEF OwnerOK, RunsOK
<1>11. ByteOK'
  <2>1. \A d \in Device : cmd[d] <= Received' /\ last[d] <= Received'
    <3>1. \A x \in Nat : x <= n - k => x <= (n - k) + 1
      BY <1>3
    <3> QED BY <3>1, <1>1, <1>5, Numbers DEF ByteOK
  <2> QED BY <2>1, <1>1, <1>2 DEF ByteOK
<1> QED BY <1>8, <1>9, <1>10, <1>11 DEF DispatchInv

\* What Lock, Store, Unlock and Signal leave alone.
LEMMA Handle ==
    ASSUME DispatchInv, Lock \/ Store \/ Unlock \/ Signal
    PROVE  /\ UNCHANGED <<sending, created, queue, issued, msg, last, boots, spurious>>
           /\ Target \in Device /\ Target' = Target /\ Received' = Received
           /\ Handling /\ msg = Received /\ msg \in Command
           /\ QueueOK'
<1>1. /\ UNCHANGED <<sending, created, queue, issued, msg, last, boots, spurious>>
      /\ Handling
  BY DEF Lock, Store, Unlock, Signal, Handling, senderVars
<1>2. QueueOK /\ msg \in Command \cup {0}
  BY DEF DispatchInv, TypeOK
<1>3. Target \in Device /\ msg = Received /\ msg # 0
  BY <1>1, <1>2 DEF QueueOK
<1>4. Target' = Target /\ Received' = Received
  BY <1>1 DEF Target, Received
<1>5. QueueOK'
  BY <1>1, <1>2, <1>3, <1>4 DEF QueueOK
<1> QED BY <1>1, <1>2, <1>3, <1>4, <1>5

LEMMA InvLock ==
    ASSUME DispatchInv, Lock
    PROVE  DispatchInv'
<1>1. /\ UNCHANGED <<sending, created, queue, issued, msg, last, boots, spurious>>
      /\ Target \in Device /\ Target' = Target /\ Received' = Received /\ QueueOK'
  BY Handle
<1>2. /\ dpc = "d_lock" /\ dpc' = "d_store"
      /\ owner[Target] = "nobody"
      /\ owner' = [owner EXCEPT ![Target] = "dispatcher"]
      /\ UNCHANGED <<cmd, wpc, runs>>
  BY DEF Lock
<1>3. TypeOK /\ OwnerOK /\ ByteOK /\ RunsOK
  BY DEF DispatchInv
<1>4. TypeOK'
  BY <1>1, <1>2, <1>3 DEF TypeOK, DispatcherLabels
<1>5. OwnerOK'
  <2>1. \A d \in Device : Locked(d)' <=> d = Target
    BY <1>1, <1>2 DEF Locked
  <2>2. \A d \in Device : owner'[d] = IF d = Target THEN "dispatcher" ELSE owner[d]
    BY <1>2, <1>3 DEF TypeOK
  <2>3. \A d \in Device : owner[d] # "dispatcher"
    BY <1>2, Idle
  <2> QED BY <2>1, <2>2, <2>3, <1>2, <1>3 DEF OwnerOK
<1>6. ByteOK'
  BY <1>1, <1>2, <1>3 DEF ByteOK
<1>7. RunsOK'
  <2>1. \A d \in Device : ~Pending(d) /\ ~Pending(d)'
    BY <1>2 DEF Pending
  <2> QED BY <2>1, <1>1, <1>2, <1>3 DEF RunsOK
<1> QED BY <1>1, <1>4, <1>5, <1>6, <1>7 DEF DispatchInv

LEMMA InvStore ==
    ASSUME DispatchInv, Store
    PROVE  DispatchInv'
<1>1. /\ UNCHANGED <<sending, created, queue, issued, msg, last, boots, spurious>>
      /\ Target \in Device /\ Target' = Target /\ Received' = Received /\ QueueOK'
      /\ msg = Received /\ msg \in Command
  BY Handle
<1>2. /\ dpc = "d_store"
      /\ dpc' = IF Target \in SignalHeld THEN "d_signal" ELSE "d_unlock"
      /\ cmd' = [cmd EXCEPT ![Target] = msg]
      /\ runs' = [runs EXCEPT ![Target] = 0]
      /\ UNCHANGED <<owner, wpc>>
  BY DEF Store, SignalsLocked
<1>3. TypeOK /\ OwnerOK /\ ByteOK /\ RunsOK
  BY DEF DispatchInv
<1>4. /\ \A d \in Device : cmd'[d] = IF d = Target THEN msg ELSE cmd[d]
      /\ \A d \in Device : runs'[d] = IF d = Target THEN 0 ELSE runs[d]
  BY <1>2, <1>3 DEF TypeOK
<1>5. TypeOK'
  <2>1. cmd' \in [Device -> Command \cup {0}] /\ runs' \in [Device -> 0..3]
    BY <1>1, <1>2, <1>3 DEF TypeOK
  <2> QED BY <2>1, <1>1, <1>2, <1>3 DEF TypeOK, DispatcherLabels
<1>6. OwnerOK'
  <2>1. \A d \in Device : Locked(d)' <=> Locked(d)
    BY <1>1, <1>2 DEF Locked, SignalsLocked
  <2> QED BY <2>1, <1>2, <1>3 DEF OwnerOK
<1>7. ByteOK'
  <2>1. msg <= Received /\ issued[msg] = Target
    BY <1>1, Numbers DEF Target
  <2> QED BY <2>1, <1>1, <1>3, <1>4 DEF ByteOK
<1>8. RunsOK'
  <2>1. \A d \in Device : (Pending(d)' <=> d = Target) /\ ~Pending(d)
    BY <1>1, <1>2 DEF Pending
  <2>2. msg # 0
    BY <1>1 DEF Command
  <2> QED BY <2>1, <2>2, <1>1, <1>2, <1>3, <1>4 DEF RunsOK
<1> QED BY <1>1, <1>5, <1>6, <1>7, <1>8 DEF DispatchInv

LEMMA InvUnlock ==
    ASSUME DispatchInv, Unlock
    PROVE  DispatchInv'
<1>1. /\ UNCHANGED <<sending, created, queue, issued, msg, last, boots, spurious>>
      /\ Target \in Device /\ Target' = Target /\ Received' = Received /\ QueueOK'
  BY Handle
<1>2. /\ dpc = "d_unlock"
      /\ dpc' = IF Target \in SignalHeld THEN "d_recv" ELSE "d_signal"
      /\ owner' = [owner EXCEPT ![Target] = "nobody"]
      /\ UNCHANGED <<cmd, wpc, runs>>
  BY DEF Unlock, SignalsLocked
<1>3. TypeOK /\ OwnerOK /\ ByteOK /\ RunsOK
  BY DEF DispatchInv
<1>4. TypeOK'
  BY <1>1, <1>2, <1>3 DEF TypeOK, DispatcherLabels
<1>5. OwnerOK'
  <2>1. \A d \in Device : ~Locked(d)' /\ (Locked(d) <=> d = Target)
    BY <1>1, <1>2 DEF Locked, SignalsLocked
  <2>2. \A d \in Device : owner'[d] = IF d = Target THEN "nobody" ELSE owner[d]
    BY <1>2, <1>3 DEF TypeOK
  <2> QED BY <2>1, <2>2, <1>2, <1>3 DEF OwnerOK
<1>6. ByteOK'
  BY <1>1, <1>2, <1>3 DEF ByteOK
<1>7. RunsOK'
  <2>1. \A d \in Device : Pending(d)' => Pending(d)
    BY <1>1, <1>2 DEF Pending
  <2>2. \A d \in Device : runs[d] \in 0..3
    BY <1>3 DEF TypeOK
  <2> QED BY <2>1, <2>2, <1>1, <1>2, <1>3 DEF RunsOK
<1> QED BY <1>1, <1>4, <1>5, <1>6, <1>7 DEF DispatchInv

LEMMA InvSignal ==
    ASSUME DispatchInv, Signal
    PROVE  DispatchInv'
<1>1. /\ UNCHANGED <<sending, created, queue, issued, msg, last, boots, spurious>>
      /\ Target \in Device /\ Target' = Target /\ Received' = Received /\ QueueOK'
  BY Handle
<1>2. /\ dpc = "d_signal"
      /\ dpc' = IF Target \in SignalHeld THEN "d_unlock" ELSE "d_recv"
      /\ wpc' = [wpc EXCEPT ![Target] = IF @ = "w_wait" THEN "w_woken" ELSE @]
      /\ UNCHANGED <<cmd, owner, runs>>
  BY DEF Signal, SignalsLocked
<1>3. TypeOK /\ OwnerOK /\ ByteOK /\ RunsOK
  BY DEF DispatchInv
<1>4. \A d \in Device : wpc'[d] = IF d = Target /\ wpc[d] = "w_wait" THEN "w_woken"
                                  ELSE wpc[d]
  BY <1>2, <1>3 DEF TypeOK
<1>5. TypeOK'
  <2>1. wpc' \in [Device -> WorkerLabels]
    BY <1>2, <1>3 DEF TypeOK, WorkerLabels
  <2> QED BY <2>1, <1>1, <1>2, <1>3 DEF TypeOK, DispatcherLabels
<1>6. OwnerOK'
  <2>1. \A d \in Device : Locked(d)' <=> Locked(d)
    BY <1>1, <1>2 DEF Locked, SignalsLocked
  <2> QED BY <2>1, <1>2, <1>3, <1>4 DEF OwnerOK
<1>7. ByteOK'
  BY <1>1, <1>2, <1>3 DEF ByteOK
<1>8. RunsOK'
  <2>1. \A d \in Device : /\ Pending(d) <=> d = Target
                          /\ Pending(d)' <=> d = Target /\ d \in SignalHeld
    BY <1>1, <1>2 DEF Pending
  <2>2. \A d \in Device : runs[d] \in 0..3
    BY <1>3 DEF TypeOK
  <2> QED BY <2>1, <2>2, <1>1, <1>2, <1>3, <1>4 DEF RunsOK
<1> QED BY <1>1, <1>5, <1>6, <1>7, <1>8 DEF DispatchInv

----------------------------------------------------------------------------
\* What a step of a worker leaves alone.
Elsewhere == <<sending, created, queue, issued, dpc, msg, cmd, boots>>

\* A worker step that runs nothing: d goes on at l, and its mutex changes
\* hands only when it finishes.
LEMMA InvWorkerMove ==
    ASSUME DispatchInv, NEW d \in Device, NEW l \in WorkerLabels, NEW o,
           UNCHANGED Elsewhere, UNCHANGED <<last, runs>>,
           wpc' = [wpc EXCEPT ![d] = l],
           owner' = [owner EXCEPT ![d] = o],
           l # "w_act",
           o = IF wpc[d] = "w_act" THEN "nobody" ELSE owner[d],
           spurious' \in BOOLEAN, spurious => spurious', l = "w_woken" => spurious'
    PROVE  DispatchInv'
<1>1. TypeOK /\ QueueOK /\ OwnerOK /\ ByteOK /\ RunsOK
  BY DEF DispatchInv
<1>2. \A q \in Device : /\ wpc'[q] = IF q = d THEN l ELSE wpc[q]
                        /\ owner'[q] = IF q = d THEN o ELSE owner[q]
  BY <1>1 DEF TypeOK
<1>3. TypeOK'
  <2>1. o \in {"nobody", "dispatcher", "worker"}
    BY <1>1 DEF TypeOK
  <2>2. owner' \in [Device -> {"nobody", "dispatcher", "worker"}]
        /\ wpc' \in [Device -> WorkerLabels]
    BY <2>1, <1>1 DEF TypeOK
  <2> QED BY <2>2, <1>1 DEF TypeOK, Elsewhere
<1>4. QueueOK' /\ ByteOK'
  BY <1>1 DEF QueueOK, ByteOK, Received, Handling, Target, Elsewhere
<1>5. OwnerOK'
  <2>1. \A q \in Device : Locked(q)' <=> Locked(q)
    BY DEF Locked, Target, SignalsLocked, Elsewhere
  <2> QED BY <2>1, <1>1, <1>2 DEF OwnerOK
<1>6. RunsOK'
  <2>1. \A q \in Device : Pending(q)' <=> Pending(q)
    BY DEF Pending, Target, Elsewhere
  <2>2. \A q \in Device : runs[q] \in 0..3
    BY <1>1 DEF TypeOK
  <2>3. cmd' = cmd
    BY DEF Elsewhere
  <2> QED BY <2>1, <2>2, <2>3, <1>1, <1>2 DEF RunsOK
<1> QED BY <1>3, <1>4, <1>5, <1>6 DEF DispatchInv

LEMMA InvAct ==
    ASSUME DispatchInv, NEW d \in Device, Act(d)
    PROVE  DispatchInv'
<1>1. TypeOK /\ QueueOK /\ OwnerOK /\ ByteOK /\ RunsOK
  BY DEF DispatchInv
<1>2. /\ wpc[d] = "w_woken" /\ owner[d] = "nobody"
      /\ owner' = [owner EXCEPT ![d] = "worker"]
      /\ wpc' = [wpc EXCEPT ![d] = "w_act"]
      /\ last' = [last EXCEPT ![d] = IF cmd[d] = 0 THEN @ ELSE cmd[d]]
      /\ runs' = [runs EXCEPT ![d] = IF cmd[d] = 0 \/ @ = 3 THEN @ ELSE @ + 1]
      /\ UNCHANGED Elsewhere /\ spurious' = spurious
  BY DEF Act, Elsewhere, senderVars, dispatcherVars
<1>3. /\ \A q \in Device : wpc'[q] = IF q = d THEN "w_act" ELSE wpc[q]
      /\ \A q \in Device : owner'[q] = IF q = d THEN "worker" ELSE owner[q]
      /\ \A q \in Device : last'[q] = IF q = d /\ cmd[d] # 0 THEN cmd[d] ELSE last[q]
      /\ \A q \in Device : runs'[q] \in {runs[q], runs[q] + 1} /\ (q # d => runs'[q] = runs[q])
  BY <1>1, <1>2 DEF TypeOK
<1>4. TypeOK'
  <2>1. /\ owner' \in [Device -> {"nobody", "dispatcher", "worker"}]
        /\ wpc' \in [Device -> WorkerLabels]
        /\ last' \in [Device -> Command \cup {0}]
    BY <1>1, <1>2 DEF TypeOK, WorkerLabels
  <2>2. runs' \in [Device -> 0..3]
    BY <1>1, <1>2 DEF TypeOK
  <2> QED BY <2>1, <2>2, <1>1, <1>2 DEF TypeOK, Elsewhere
<1>5. QueueOK'
  BY <1>1, <1>2 DEF QueueOK, Received, Handling, Target, Elsewhere
<1>6. \A q \in Device : (Locked(q)' <=> Locked(q)) /\ (Pending(q)' <=> Pending(q))
  BY <1>2 DEF Locked, Pending, Target, SignalsLocked, Elsewhere
<1>7. OwnerOK'
  BY <1>1, <1>2, <1>3, <1>6 DEF OwnerOK
<1>8. ByteOK'
  <2>1. Received' = Received /\ cmd' = cmd /\ issued' = issued
    BY <1>2 DEF Received, Elsewhere
  <2>2. \A q \in Device : cmd[q] <= cmd[q]
    BY Numbers
  <2> QED BY <2>1, <2>2, <1>1, <1>3 DEF ByteOK
<1>9. RunsOK'
  <2> SUFFICES ASSUME ~spurious' PROVE RunsOK'
    BY DEF RunsOK
  <2>1. ~Locked(d)
    BY <1>1, <1>2 DEF OwnerOK
  <2>2. d \in SignalHeld => ~Pending(d)
    BY <2>1 DEF Locked, Pending, SignalsLocked
  <2>3. \A q \in Device : runs[q] \in 0..3
    BY <1>1 DEF TypeOK
  <2>4. \A q \in Device :
           /\ runs[q] + (IF wpc[q] = "w_woken" THEN 1 ELSE 0)
                      + (IF Pending(q) THEN 1 ELSE 0) <= 2
           /\ q \in SignalHeld =>
                 /\ runs[q] <= 1
                 /\ wpc[q] = "w_woken" => runs[q] = 0
                 /\ Pending(q) => runs[q] = 0
           /\ wpc[q] \in {"w_woken", "w_act"} \/ Pending(q) => cmd[q] # 0
    BY <1>1, <1>2 DEF RunsOK
  <2>5. ASSUME NEW q \in Device
        PROVE  /\ runs'[q] + (IF wpc'[q] = "w_woken" THEN 1 ELSE 0)
                           + (IF Pending(q) THEN 1 ELSE 0) <= 2
               /\ q \in SignalHeld =>
                     /\ runs'[q] <= 1
                     /\ wpc'[q] = "w_woken" => runs'[q] = 0
                     /\ Pending(q) => runs'[q] = 0
               /\ wpc'[q] \in {"w_woken", "w_act"} \/ Pending(q) => cmd[q] # 0
    <3>1. CASE q = d
      BY <3>1, <1>2, <1>3, <2>2, <2>3, <2>4
    <3>2. CASE q # d
      BY <3>2, <1>3, <2>4
    <3> QED BY <3>1, <3>2
  <2>6. cmd' = cmd
    BY <1>2 DEF Elsewhere
  <2> QED BY <2>5, <2>6, <1>6 DEF RunsOK
<1> QED BY <1>4, <1>5, <1>7, <1>8, <1>9 DEF DispatchInv

LEMMA InvWorker ==
    ASSUME DispatchInv, NEW d \in Device, Work(d) \/ SpuriousWakeup(d)
    PROVE  DispatchInv'
<1>1. /\ OwnerOK /\ owner = [owner EXCEPT ![d] = owner[d]] /\ spurious \in BOOLEAN
      /\ {"w_lock", "w_wait", "w_woken"} \subseteq WorkerLabels
  BY DEF DispatchInv, TypeOK, WorkerLabels
<1>2. CASE OpenDevice(d)
  <2>1. /\ UNCHANGED Elsewhere /\ UNCHANGED <<last, runs, spurious>>
        /\ wpc' = [wpc EXCEPT ![d] = "w_lock"]
        /\ owner' = [owner EXCEPT ![d] = owner[d]]
        /\ wpc[d] # "w_act"
    BY <1>1, <1>2 DEF OpenDevice, Elsewhere, senderVars, dispatcherVars
  <2> QED BY <2>1, <1>1, InvWorkerMove
<1>3. CASE LockAndWait(d)
  <2>1. /\ UNCHANGED Elsewhere /\ UNCHANGED <<last, runs, spurious>>
        /\ wpc' = [wpc EXCEPT ![d] = "w_wait"]
        /\ owner' = [owner EXCEPT ![d] = owner[d]]
        /\ wpc[d] # "w_act"
    BY <1>1, <1>3 DEF LockAndWait, Elsewhere, senderVars, dispatcherVars
  <2> QED BY <2>1, <1>1, InvWorkerMove
<1>4. CASE SpuriousWakeup(d)
  BY <1>1, <1>4, InvWorkerMove
     DEF SpuriousWakeup, Elsewhere, senderVars, dispatcherVars
<1>5. CASE Finish(d)
  <2>1. /\ UNCHANGED Elsewhere /\ UNCHANGED <<last, runs, spurious>>
        /\ wpc' = [wpc EXCEPT ![d] = "w_lock"]
        /\ owner' = [owner EXCEPT ![d] = "nobody"]
        /\ wpc[d] = "w_act"
    BY <1>5 DEF Finish, Elsewhere, senderVars, dispatcherVars
  <2> QED BY <2>1, <1>1, InvWorkerMove
<1>6. CASE Act(d)
  BY <1>6, InvAct
<1> QED BY <1>2, <1>3, <1>4, <1>5, <1>6 DEF Work

----------------------------------------------------------------------------
LEMMA InvProcess ==
    ASSUME DispatchInv, EndProcess \/ (Restart /\ UNCHANGED workerVars)
    PROVE  DispatchInv'
<1> USE DispatchAssumption
<1>1. TypeOK /\ QueueOK /\ OwnerOK /\ ByteOK /\ RunsOK
  BY DEF DispatchInv
<1>2. CASE EndProcess
  <2>1. /\ UNCHANGED <<sending, issued, created, queue, last, boots>>
        /\ spurious' \in BOOLEAN
        /\ dpc' = "down" /\ msg' = 0
        /\ owner' = [d \in Device |-> "nobody"]
        /\ cmd' = [d \in Device |-> 0]
        /\ wpc' = [d \in Device |-> "w_open"]
        /\ runs' = [d \in Device |-> 0]
    BY <1>2 DEF EndProcess, senderVars
  <2>2. TypeOK'
    BY <2>1, <1>1 DEF TypeOK, DispatcherLabels, WorkerLabels
  <2>3. QueueOK' /\ ByteOK'
    BY <2>1, <1>1, Numbers DEF QueueOK, ByteOK, Received, Handling
  <2>4. \A d \in Device : ~Locked(d)' /\ ~Pending(d)'
    BY <2>1 DEF Locked, Pending
  <2>5. OwnerOK' /\ RunsOK'
    BY <2>1, <2>4 DEF OwnerOK, RunsOK
  <2> QED BY <2>2, <2>3, <2>5 DEF DispatchInv
<1>3. CASE Restart /\ UNCHANGED workerVars
  <2>1. /\ UNCHANGED <<sending, issued, created, queue, msg, owner, cmd, wpc, last, runs,
                       spurious>>
        /\ dpc = "down" /\ dpc' = "d_open" /\ boots' = boots + 1 /\ boots < MaxBoots
    BY <1>3 DEF Restart, senderVars, workerVars
  <2>2. TypeOK'
    BY <2>1, <1>1 DEF TypeOK, DispatcherLabels
  <2>3. QueueOK' /\ ByteOK'
    BY <2>1, <1>1 DEF QueueOK, ByteOK, Received, Handling
  <2>4. \A d \in Device : ~Locked(d)' /\ ~Pending(d)' /\ ~Locked(d) /\ ~Pending(d)
    BY <2>1 DEF Locked, Pending
  <2>5. OwnerOK' /\ RunsOK'
    BY <2>1, <2>4, <1>1 DEF OwnerOK, RunsOK
  <2> QED BY <2>2, <2>3, <2>5 DEF DispatchInv
<1> QED BY <1>2, <1>3

LEMMA InitInv ==
    ASSUME Init
    PROVE  DispatchInv
<1> USE DispatchAssumption
<1>1. /\ Len(queue) = 0 /\ Len(issued) = 0 /\ queue \in Seq(Command)
      /\ issued \in Seq(Addressee)
  BY EmptySeq DEF Init
<1>2. TypeOK
  <2>1. 1 \in 1..MaxBoots /\ 0 \in 0..3
    OBVIOUS
  <2>2. /\ sending \in [Sender -> Addressee \cup {"none"}]
        /\ owner \in [Device -> {"nobody", "dispatcher", "worker"}]
        /\ cmd \in [Device -> Command \cup {0}]
        /\ last \in [Device -> Command \cup {0}]
        /\ wpc \in [Device -> WorkerLabels]
    BY DEF Init, WorkerLabels
  <2>3. runs \in [Device -> 0..3] /\ boots \in 1..MaxBoots
    BY <2>1 DEF Init
  <2> QED BY <1>1, <2>2, <2>3 DEF Init, TypeOK, DispatcherLabels
<1>3. QueueOK /\ ByteOK
  BY <1>1 DEF Init, QueueOK, ByteOK, Received, Handling
<1>4. OwnerOK /\ RunsOK
  BY DEF Init, OwnerOK, RunsOK, Locked, Pending
<1> QED BY <1>2, <1>3, <1>4 DEF DispatchInv

LEMMA InvNext ==
    ASSUME DispatchInv, [Next]_vars
    PROVE  DispatchInv'
<1>1. ASSUME NEW c \in Sender, Send(c) \/ Abandon(c) \/ \E a \in Addressee : Request(c, a)
      PROVE  DispatchInv'
  <2>1. CASE Send(c)
    BY <2>1, InvSend
  <2>2. CASE Abandon(c) \/ \E a \in Addressee : Request(c, a)
    <3>1. sending' \in [Sender -> Addressee \cup {"none"}]
      BY <2>2 DEF DispatchInv, TypeOK, Abandon, Request
    <3>2. created' \in BOOLEAN /\ UNCHANGED <<queue, issued, dispatcherVars, workerVars, boots, spurious>>
      BY <2>2 DEF DispatchInv, TypeOK, Abandon, Request
    <3> QED BY <3>1, <3>2, InvAsk
  <2> QED BY <1>1, <2>1, <2>2
<1>2. CASE Dispatch
  BY <1>2, InvOpenQueue, InvReceive, InvLock, InvStore, InvUnlock, InvSignal DEF Dispatch
<1>3. CASE \E d \in Device : Work(d) \/ SpuriousWakeup(d)
  BY <1>3, InvWorker
<1>4. CASE Interrupt \/ Restart \/ \E d \in Device : OpenFails(d)
  BY <1>4, InvProcess DEF Interrupt, Restart, OpenFails
<1>5. CASE UNCHANGED vars
  <2>1. /\ sending' \in [Sender -> Addressee \cup {"none"}] /\ created' \in BOOLEAN
        /\ UNCHANGED <<queue, issued, dispatcherVars, workerVars, boots, spurious>>
    BY <1>5 DEF DispatchInv, TypeOK, vars, dispatcherVars, workerVars
  <2> QED BY <2>1, InvAsk
<1> QED BY <1>1, <1>2, <1>3, <1>4, <1>5 DEF Next

----------------------------------------------------------------------------
(* Theorems *)

\* DispatchInv holds in every state of every behaviour: the queue holds the
\* newest commands in order, each mutex has the holder its program counters
\* say, no command byte is behind what its device did, and what has been run
\* plus what can still be run of a command stays within its budget.
THEOREM InvariantHolds == Spec => []DispatchInv
<1>1. Init => DispatchInv
  BY InitInv
<1>2. DispatchInv /\ [Next]_vars => DispatchInv'
  BY InvNext
<1> QED BY <1>1, <1>2, PTL DEF Spec

\* Without spurious wakeups a device acts only on commands of this life, at most twice on
\* each, and once if it is signalled with its mutex held (pthread_client_request.c:75).
THEOREM ActsAreBounded == Spec => []ActsBounded
<1>1. ASSUME DispatchInv PROVE ActsBounded
  <2> SUFFICES ASSUME ~spurious, NEW d \in Device
               PROVE  /\ runs[d] <= IF d \in SignalHeld THEN 1 ELSE 2
                      /\ wpc[d] \in {"w_woken", "w_act"} => cmd[d] # 0
    BY DEF ActsBounded
  <2>1. runs[d] \in 0..3
    BY <1>1 DEF DispatchInv, TypeOK
  <2>2. runs[d] + (IF wpc[d] = "w_woken" THEN 1 ELSE 0)
                + (IF Pending(d) THEN 1 ELSE 0) <= 2
    BY <1>1 DEF DispatchInv, RunsOK
  <2>3. d \in SignalHeld => runs[d] <= 1
    BY <1>1 DEF DispatchInv, RunsOK
  <2>4. wpc[d] \in {"w_woken", "w_act"} => cmd[d] # 0
    BY <1>1 DEF DispatchInv, RunsOK
  <2> QED BY <2>1, <2>2, <2>3, <2>4
<1> QED BY <1>1, InvariantHolds, PTL

\* While a worker acts (pthread_led.c:28-70) the dispatcher does not write its
\* command byte.
THEOREM CommandIsStable == Spec => CommandStable
<1>1. ASSUME DispatchInv, [Next]_vars, NEW d \in Device,
             wpc[d] = "w_act", wpc'[d] = "w_act"
      PROVE  cmd'[d] = cmd[d]
  <2>1. owner[d] = "worker"
    BY <1>1 DEF DispatchInv, OwnerOK
  <2>2. CASE Store
    <3>1. Target # d
      BY <1>1, <2>1, <2>2 DEF Store, DispatchInv, OwnerOK, Locked
    <3> QED BY <1>1, <3>1, <2>2 DEF Store, DispatchInv, TypeOK
  <2>3. CASE EndProcess
    BY <1>1, <2>3 DEF EndProcess
  <2>4. CASE Interrupt \/ \E q \in Device : OpenFails(q)
    BY <2>3, <2>4 DEF Interrupt, OpenFails
  <2>5. CASE \E c \in Sender : Send(c) \/ Abandon(c) \/ \E a \in Addressee : Request(c, a)
    BY <2>5 DEF Send, Abandon, Request, workerVars
  <2>6. CASE OpenQueue \/ Receive \/ Lock \/ Unlock \/ Signal \/ Restart
    BY <2>6 DEF OpenQueue, Receive, Lock, Unlock, Signal, Restart, workerVars
  <2>7. CASE \E q \in Device : Work(q) \/ SpuriousWakeup(q)
    BY <2>7 DEF Work, OpenDevice, LockAndWait, Act, Finish, SpuriousWakeup
  <2>8. CASE UNCHANGED vars
    BY <2>8 DEF vars
  <2> QED BY <1>1, <2>2, <2>4, <2>5, <2>6, <2>7, <2>8 DEF Next, Dispatch
<1>2. DispatchInv /\ [Next]_vars =>
        [\A d \in Device : wpc[d] = "w_act" /\ wpc'[d] = "w_act" => cmd'[d] = cmd[d]]_vars
  BY <1>1
<1> QED BY <1>2, InvariantHolds, PTL DEF Spec, CommandStable

\* CommandDispatch implements CommandStream: a step that queues a message is
\* an Issue, the beginning of the work on a command not acted upon before is
\* an Execute, and everything else is invisible to the device and the web.
THEOREM ImplementsStream == Spec => InOrder
<1>1. Init => Stream!Init
  BY DEF Init, Stream!Init
<1>2. ASSUME DispatchInv, [Next]_vars
      PROVE  [Stream!Next]_(Stream!vars)
  <2>1. ASSUME NEW c \in Sender, Send(c) PROVE Stream!Next
    <3>1. sending[c] \in Addressee
      BY <1>2, <2>1 DEF Send, DispatchInv, TypeOK
    <3>2. Stream!Issue(sending[c])
      BY <2>1 DEF Send, Stream!Issue, workerVars
    <3> QED BY <3>1, <3>2 DEF Stream!Next
  <2>2. ASSUME NEW d \in Device, Act(d) PROVE [Stream!Next]_(Stream!vars)
    <3>1. /\ last' = [last EXCEPT ![d] = IF cmd[d] = 0 THEN @ ELSE cmd[d]]
          /\ issued' = issued /\ last \in [Device -> Command \cup {0}]
      BY <1>2, <2>2 DEF Act, senderVars, DispatchInv, TypeOK
    <3>2. CASE cmd[d] = 0 \/ cmd[d] = last[d]
      BY <3>1, <3>2 DEF Stream!vars
    <3>3. CASE cmd[d] # 0 /\ cmd[d] # last[d]
      <4>1. cmd[d] \in 1..Len(issued)
        <5>1. /\ cmd[d] \in Nat /\ cmd[d] <= Len(issued) /\ Len(issued) \in Nat
          BY <1>2, Numbers
        <5> QED BY <5>1, <3>3
      <4>2. issued[cmd[d]] = d /\ cmd[d] > last[d]
        <5>1. issued[cmd[d]] = d /\ last[d] <= cmd[d]
          BY <1>2, <3>3 DEF DispatchInv, ByteOK
        <5>2. cmd[d] \in Nat /\ last[d] \in Nat
          BY <1>2, Numbers
        <5> QED BY <5>1, <5>2, <3>3
      <4>3. Stream!Execute(d, cmd[d])
        BY <3>1, <3>3, <4>2 DEF Stream!Execute
      <4> QED BY <4>1, <4>3 DEF Stream!Next
    <3> QED BY <3>2, <3>3
  <2>3. CASE UNCHANGED <<issued, last>>
    BY <2>3 DEF Stream!vars
  <2>4. CASE \E c \in Sender : Abandon(c) \/ \E a \in Addressee : Request(c, a)
    BY <2>3, <2>4 DEF Abandon, Request, workerVars
  <2>5. CASE Dispatch
    BY <2>3, <2>5 DEF Dispatch, OpenQueue, Receive, Lock, Store, Unlock, Signal,
                      senderVars, workerVars
  <2>6. CASE \E d \in Device : OpenDevice(d) \/ LockAndWait(d) \/ Finish(d) \/ SpuriousWakeup(d)
    BY <2>3, <2>6 DEF OpenDevice, LockAndWait, Finish, SpuriousWakeup, senderVars
  <2>7. CASE Interrupt \/ Restart \/ \E d \in Device : OpenFails(d)
    BY <2>3, <2>7 DEF Interrupt, Restart, OpenFails, EndProcess, senderVars, workerVars
  <2>8. CASE UNCHANGED vars
    BY <2>3, <2>8 DEF vars
  <2> QED BY <1>2, <2>1, <2>2, <2>4, <2>5, <2>6, <2>7, <2>8 DEF Next, Work
<1> QED BY <1>1, <1>2, InvariantHolds, PTL DEF Spec, InOrder, Stream!Spec
=============================================================================
