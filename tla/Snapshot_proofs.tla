--------------------------- MODULE Snapshot_proofs --------------------------
(***************************************************************************)
(* SnapshotIInv is an inductive invariant of Snapshot: whatever the pages  *)
(* ask for and whenever mjpg-streamer is stopped and started, for every    *)
(* size of the FIFO, every ring buffer and every number of pictures, what  *)
(* is on disk is the end of what was ever saved, there is never more of it *)
(* than the ring buffer allows, and a command is given the pictures that   *)
(* it asks for.                                                            *)
(***************************************************************************)
EXTENDS Snapshot, SequenceTheorems, FunctionTheorems, FiniteSetTheorems, TLAPS

----------------------------------------------------------------------------
(* The inductive invariant behind the properties *)

\* What a picture taken now would be called.
NextName == [time |-> time, number |-> counter]

\* The names grow: within a process by the counter, from one to the next by the seconds
\* of output_stop and of the exit.
AlbumInOrder ==
    \A i, j \in 1..Len(album) : i < j => Older(album[i], album[j])
NamesPast ==
    \A i \in 1..Len(album) :
        IF wpc = "down" THEN album[i].time < time ELSE Older(album[i], NextName)
FrameNewest ==
    wpc = "save" => /\ Older(name, NextName)
                    /\ \A i \in 1..Len(album) : Older(album[i], name)

\* The pictures that have come on top of the size since the last cleanup, c pictures
\* after the start.
Beyond(c) == IF ringbuffer_exceed > 0 THEN c % (ringbuffer_exceed + 1) ELSE 0

Counted ==
    /\ wpc \in {"create", "open"} => counter = 0
    /\ wpc \in {"save", "maintain", "count"} => counter >= 1

Filled ==
    ringbuffer_size >= 0 =>
        /\ wpc \in {"command", "frame", "count"} /\ counter >= 1 =>
              Cardinality(files) <= ringbuffer_size + Beyond(counter)
        /\ wpc = "save" /\ counter >= 2 =>
              Cardinality(files) <= ringbuffer_size + Beyond(counter - 1)
        /\ wpc = "maintain" /\ counter >= 2 =>
              Cardinality(files) <= ringbuffer_size + Beyond(counter - 1) + 1

\* The pictures asked for with a command, and those taken for it.
Asked(f) == 2 * f - 1
Taken(f) == IF f = 5 THEN 7 ELSE Asked(f)

Progress ==
    /\ wpc \in {"create", "open", "command"} =>
          /\ flags = 0 /\ stop_num = 0
          /\ owed = 0 \/ (owed = 2 /\ 9 \in Modes)
    /\ wpc \in {"frame", "save", "maintain", "count"} =>
          /\ flags \in 1..5 /\ owed = Asked(flags) - stop_num
          /\ flags = 5 => 9 \in Modes
          /\ ~Endless => stop_num < Taken(flags)

SnapshotIInv ==
    /\ SnapshotInv /\ AlbumInOrder /\ NamesPast /\ FrameNewest
    /\ Counted /\ Filled /\ Progress

-----------------------------------------------------------------------------
(* Types *)

LEMMA OptionsType ==
    ASSUME TypeOK
    PROVE  ringbuffer_size \in Int /\ ringbuffer_exceed \in Int
BY SnapshotAssumption DEF SnapshotAssumption, TypeOK

LEMMA ModesType == Modes \ {0} \subseteq {1, 3, 5, 7, 9}
BY SnapshotAssumption DEF SnapshotAssumption

LEMMA FlagsType ==
    \A m \in Modes \ {0} : FlagOf(m) \in 1..5 /\ m = Asked(FlagOf(m)) /\ (FlagOf(m) = 5 => m = 9)
<1>1. \A m \in {1, 3, 5, 7, 9} :
         FlagOf(m) \in 1..5 /\ m = Asked(FlagOf(m)) /\ (FlagOf(m) = 5 => m = 9)
  BY DEF FlagOf, Asked
<1> QED BY <1>1, ModesType

LEMMA TypeInit ==
    ASSUME Init
    PROVE  TypeOK
<1> USE SnapshotAssumption DEF SnapshotAssumption
<1>1. fifo \in Seq(Modes \ {0}) /\ Len(fifo) = 0 /\ album \in Seq(Name)
  BY EmptySeq DEF Init
<1>2. page \in [Page -> PageLabels] /\ mode \in [Page -> Modes \cup {0}]
  BY DEF Init, PageLabels
<1>3. name \in Name
  BY DEF Init, Name, NoName
<1>4. wpc \in WorkerLabels /\ <<ringbuffer_size, ringbuffer_exceed>> \in Options
  <2>1. PICK o \in Options : ringbuffer_size = o[1] /\ ringbuffer_exceed = o[2]
    BY DEF Init
  <2>2. <<o[1], o[2]>> = o
    OBVIOUS
  <2> QED BY <2>1, <2>2 DEF Init, WorkerLabels
<1>5. /\ requests \in 0..MaxRequests /\ starts \in 1..MaxStarts /\ time \in 0..MaxTime
      /\ files \subseteq Name /\ Len(fifo) <= FifoSize
  BY <1>1 DEF Init
<1>6. /\ flags \in 0..5 /\ stop_num \in Nat /\ counter \in Nat /\ owed \in Int
      /\ exists \in BOOLEAN /\ reading \in BOOLEAN /\ stop \in BOOLEAN
  <2>1. flags = 0 /\ stop_num = 0 /\ counter = 0 /\ owed = 0
    BY DEF Init
  <2>2. exists = FALSE /\ reading = FALSE /\ stop = FALSE
    BY DEF Init
  <2>3. exists \in BOOLEAN /\ reading \in BOOLEAN /\ stop \in BOOLEAN
    BY <2>2, Zenon
  <2>4. flags \in 0..5 /\ stop_num \in Nat /\ counter \in Nat /\ owed \in Int
    BY <2>1
  <2> QED BY <2>3, <2>4
<1> QED BY <1>1, <1>2, <1>3, <1>4, <1>5, <1>6 DEF TypeOK

LEMMA TypeNext ==
    ASSUME TypeOK, [Next]_vars
    PROVE  TypeOK'
<1> USE SnapshotAssumption DEF SnapshotAssumption
<1>1. ASSUME NEW p \in Page, NEW m \in Modes, Request(p, m) PROVE TypeOK'
  BY <1>1 DEF Request, TypeOK, PageLabels, workerVars, diskVars, processVars, optionVars
<1>2. ASSUME NEW p \in Page, PageOpen(p) PROVE TypeOK'
  BY <1>2 DEF PageOpen, TypeOK, PageLabels, WorkerLabels, diskVars, processVars, optionVars
<1>3. ASSUME NEW p \in Page, PageWrite(p) PROVE TypeOK'
  <2>1. mode[p] \in Modes \ {0} /\ fifo \in Seq(Modes \ {0})
    BY <1>3 DEF PageWrite, TypeOK
  <2>2. fifo' \in Seq(Modes \ {0}) /\ Len(fifo') = Len(fifo) + 1 /\ Len(fifo) \in Nat
    BY <1>3, <2>1, AppendProperties, LenProperties DEF PageWrite
  <2>3. Len(fifo') <= FifoSize
    BY <1>3, <2>2 DEF PageWrite
  <2>4. page' \in [Page -> PageLabels]
    BY <1>3 DEF PageWrite, TypeOK, PageLabels
  <2> QED BY <1>3, <2>2, <2>3, <2>4
             DEF PageWrite, TypeOK, workerVars, diskVars, processVars, optionVars
<1>4. ASSUME NEW p \in Page, PageWriteNothing(p) PROVE TypeOK'
  BY <1>4 DEF PageWriteNothing, TypeOK, PageLabels, workerVars, diskVars, processVars, optionVars
<1>5. ASSUME NEW p \in Page, PageExit(p) PROVE TypeOK'
  <2>1. fifo' \in Seq(Modes \ {0}) /\ Len(fifo') <= FifoSize
    BY <1>5, EmptySeq DEF PageExit, TypeOK
  <2>2. page' \in [Page -> PageLabels] /\ mode' \in [Page -> Modes \cup {0}]
    BY <1>5 DEF PageExit, TypeOK, PageLabels
  <2> QED BY <1>5, <2>1, <2>2
             DEF PageExit, TypeOK, workerVars, diskVars, processVars, optionVars
<1>6. CASE CreateFifo
  BY <1>6 DEF CreateFifo, TypeOK, WorkerLabels, pageVars, processVars, optionVars
<1>7. CASE OpenFifo
  BY <1>7 DEF OpenFifo, TypeOK, WorkerLabels, pageVars, diskVars, processVars, optionVars
<1>8. CASE ReadCommand
  <2>1. fifo # <<>> /\ fifo \in Seq(Modes \ {0})
    BY <1>8 DEF ReadCommand, TypeOK
  <2>2. /\ Head(fifo) \in Modes \ {0} /\ Tail(fifo) \in Seq(Modes \ {0})
        /\ Len(Tail(fifo)) = Len(fifo) - 1 /\ Len(fifo) \in Nat
    BY <2>1, HeadTailProperties, LenProperties
  <2>3. FlagOf(Head(fifo)) \in 0..5 /\ Head(fifo) \in Int
    <3>1. PICK m \in Modes \ {0} : m = Head(fifo)
      BY <2>2
    <3>2. FlagOf(m) \in 1..5
      BY FlagsType
    <3>3. m \in {1, 3, 5, 7, 9}
      BY ModesType
    <3> QED BY <3>1, <3>2, <3>3
  <2>4. Len(Tail(fifo)) <= FifoSize
    BY <2>2 DEF TypeOK
  <2>5. /\ fifo' = Tail(fifo) /\ flags' \in 0..5 /\ owed' \in Int /\ wpc' \in WorkerLabels
        /\ UNCHANGED <<page, mode, requests, reading, stop_num, counter, name, exists, files,
                       album, stop, time, starts, ringbuffer_size, ringbuffer_exceed>>
    BY <1>8, <2>3 DEF ReadCommand, WorkerLabels, diskVars, processVars, optionVars
  <2> QED BY <2>2, <2>4, <2>5 DEF TypeOK
<1>9. CASE TakeFrame
  BY <1>9 DEF TakeFrame, TypeOK, WorkerLabels, Name, pageVars, diskVars, processVars, optionVars
<1>10. CASE SavePicture \/ WriteFails
  <2>1. album' \in Seq(Name) /\ files' \subseteq Name
    <3>1. album' = Append(album, name) /\ files' = files \cup {name}
      BY <1>10 DEF SavePicture, WriteFails
    <3>2. album \in Seq(Name) /\ name \in Name /\ files \subseteq Name
      BY DEF TypeOK
    <3>3. Append(album, name) \in Seq(Name)
      BY <3>2, AppendProperties
    <3> QED BY <3>1, <3>2, <3>3
  <2>2. /\ wpc' \in WorkerLabels
        /\ UNCHANGED <<page, mode, fifo, requests, reading, flags, stop_num, counter, name, owed,
                       exists, stop, time, starts, ringbuffer_size, ringbuffer_exceed>>
    BY <1>10 DEF SavePicture, WriteFails, WorkerLabels, pageVars, processVars, optionVars
  <2> QED BY <2>1, <2>2 DEF TypeOK
<1>11. CASE OpenFails
  BY <1>11 DEF OpenFails, TypeOK, WorkerLabels, pageVars, diskVars, processVars, optionVars
<1>12. CASE Maintain
  <2>1. files' \subseteq files
    BY <1>12 DEF Maintain, maintain_ringbuffer, Newest
  <2> QED BY <1>12, <2>1 DEF Maintain, TypeOK, WorkerLabels, pageVars, processVars, optionVars
<1>13. CASE Count
  <2>1. /\ flags' \in {0, flags} /\ stop_num' \in {0, stop_num + 1} /\ owed' = owed - 1
        /\ wpc' \in {"ended", "command", "frame"}
        /\ UNCHANGED <<page, mode, fifo, requests, reading, counter, name, exists, files, album,
                       stop, time, starts, ringbuffer_size, ringbuffer_exceed>>
    BY <1>13 DEF Count, pageVars, diskVars, processVars, optionVars
  <2>2. flags' \in 0..5 /\ stop_num' \in Nat /\ owed' \in Int /\ wpc' \in WorkerLabels
    BY <2>1 DEF TypeOK, WorkerLabels
  <2> QED BY <2>1, <2>2 DEF TypeOK
<1>14. CASE Interrupt
  BY <1>14 DEF Interrupt, TypeOK, pageVars, workerVars, diskVars, optionVars
<1>15. CASE Cancel
  BY <1>15 DEF Cancel, TypeOK, WorkerLabels, pageVars, diskVars, optionVars
<1>16. CASE Exit
  <2>1. fifo' \in Seq(Modes \ {0}) /\ Len(fifo') <= FifoSize
    BY <1>16, EmptySeq DEF Exit, TypeOK
  <2>2. /\ wpc' = "down" /\ reading' = FALSE /\ time' \in 0..MaxTime
        /\ UNCHANGED <<page, mode, requests, flags, stop_num, counter, name, owed, exists, files,
                       album, stop, starts, ringbuffer_size, ringbuffer_exceed>>
    BY <1>16 DEF Exit, TypeOK, diskVars, optionVars
  <2> QED BY <2>1, <2>2 DEF TypeOK, WorkerLabels
<1>17. CASE Start
  <2>1. /\ wpc' = "create" /\ stop' = FALSE /\ flags' = 0 /\ stop_num' = 0 /\ counter' = 0
        /\ owed' = 0 /\ starts' \in 1..MaxStarts
        /\ UNCHANGED <<page, mode, fifo, requests, reading, name, exists, files, album, time>>
    BY <1>17 DEF Start, TypeOK, pageVars, diskVars
  <2>2. <<ringbuffer_size', ringbuffer_exceed'>> \in Options
    <3>1. PICK o \in Options : ringbuffer_size' = o[1] /\ ringbuffer_exceed' = o[2]
      BY <1>17 DEF Start
    <3> QED BY <3>1
  <2>3. flags' \in 0..5 /\ stop_num' \in Nat /\ counter' \in Nat /\ owed' \in Int
    BY <2>1
  <2> QED BY <2>1, <2>2, <2>3 DEF TypeOK, WorkerLabels
<1>18. CASE Tick
  BY <1>18 DEF Tick, TypeOK, pageVars, workerVars, diskVars, optionVars
<1>19. CASE UNCHANGED vars
  BY <1>19 DEF vars, TypeOK, pageVars, workerVars, diskVars, processVars, optionVars
<1> QED BY <1>1, <1>2, <1>3, <1>4, <1>5, <1>6, <1>7, <1>8, <1>9, <1>10, <1>11, <1>12, <1>13,
           <1>14, <1>15, <1>16, <1>17, <1>18, <1>19 DEF Next, PageStep, WorkerStep

-----------------------------------------------------------------------------
(* What a step does to the worker and to the disk *)

Worker == <<wpc, flags, stop_num, counter, name, owed>>
Disk == <<files, album>>

Elsewhere == UNCHANGED <<Worker, Disk, optionVars>> /\ time' \in {time, time + 1}
Opens ==
    /\ \/ wpc = "create" /\ wpc' = "open"
       \/ wpc = "open" /\ wpc' \in {"ended", "command"}
    /\ UNCHANGED <<flags, stop_num, counter, name, owed, Disk, optionVars, time>>
Reads ==
    /\ wpc = "command" /\ wpc' = "frame"
    /\ \E m \in Modes \ {0} : flags' = FlagOf(m) /\ owed' = m
    /\ UNCHANGED <<stop_num, counter, name, Disk, optionVars, time>>
Takes ==
    /\ wpc = "frame" /\ wpc' = "save"
    /\ name' = [time |-> time, number |-> counter] /\ counter' = counter + 1
    /\ UNCHANGED <<flags, stop_num, owed, Disk, optionVars, time>>
Saves ==
    /\ wpc = "save" /\ wpc' \in {"maintain", "ended"}
    /\ files' = files \cup {name} /\ album' = Append(album, name)
    /\ UNCHANGED <<flags, stop_num, counter, name, owed, optionVars, time>>
Ends ==
    /\ wpc # "down" /\ wpc' = "ended"
    /\ UNCHANGED <<flags, stop_num, counter, name, owed, Disk, optionVars>>
    /\ time' \in {time, time + 1}
Cleans ==
    /\ wpc = "maintain" /\ wpc' = "count"
    /\ files' = IF CleanupDue THEN maintain_ringbuffer(ringbuffer_size) ELSE files
    /\ UNCHANGED <<flags, stop_num, counter, name, owed, album, optionVars, time>>
Counts ==
    /\ wpc = "count"
    /\ IF Enough(flags, stop_num + 1)
       THEN stop_num' = 0 /\ flags' = 0 /\ wpc' \in {"ended", "command"}
       ELSE /\ stop_num' = stop_num + 1 /\ flags' = flags
            /\ wpc' \in {"ended"} \cup IF flags = 0 THEN {"command"} ELSE {"frame"}
    /\ owed' = owed - 1
    /\ UNCHANGED <<counter, name, Disk, optionVars, time>>
Exits ==
    /\ wpc = "ended" /\ wpc' = "down" /\ time' = time + 1
    /\ UNCHANGED <<flags, stop_num, counter, name, owed, Disk, optionVars>>
Starts ==
    /\ wpc = "down" /\ wpc' = "create"
    /\ flags' = 0 /\ stop_num' = 0 /\ counter' = 0 /\ owed' = 0
    /\ UNCHANGED <<name, Disk, time>>

LEMMA StepCases ==
    ASSUME TypeOK, [Next]_vars
    PROVE  \/ Elsewhere \/ Opens \/ Reads \/ Takes \/ Saves \/ Ends
           \/ Cleans \/ Counts \/ Exits \/ Starts
<1> USE DEF Worker, Disk, optionVars
<1>1. ASSUME NEW p \in Page, NEW m \in Modes, Request(p, m) PROVE Elsewhere
  BY <1>1 DEF Request, Elsewhere, workerVars, diskVars, processVars
<1>2. ASSUME NEW p \in Page, PageOpen(p) PROVE Elsewhere \/ Opens
  <2>1. CASE wpc = "open"
    BY <1>2, <2>1 DEF PageOpen, Opens, diskVars, processVars
  <2>2. CASE wpc # "open"
    BY <1>2, <2>2 DEF PageOpen, Elsewhere, diskVars, processVars
  <2> QED BY <2>1, <2>2
<1>3. ASSUME NEW p \in Page, PageWrite(p) \/ PageWriteNothing(p) \/ PageExit(p) PROVE Elsewhere
  BY <1>3 DEF PageWrite, PageWriteNothing, PageExit, Elsewhere, workerVars, diskVars, processVars
<1>4. CASE CreateFifo
  BY <1>4 DEF CreateFifo, Opens, processVars
<1>5. CASE OpenFifo
  BY <1>5 DEF OpenFifo, Opens, diskVars, processVars
<1>6. CASE ReadCommand
  <2>1. fifo # <<>> /\ fifo \in Seq(Modes \ {0})
    BY <1>6 DEF ReadCommand, TypeOK
  <2>2. Head(fifo) \in Modes \ {0}
    BY <2>1, HeadTailProperties
  <2> QED BY <1>6, <2>2 DEF ReadCommand, Reads, diskVars, processVars
<1>7. CASE TakeFrame
  BY <1>7 DEF TakeFrame, Takes, diskVars, processVars
<1>8. CASE SavePicture \/ WriteFails
  BY <1>8 DEF SavePicture, WriteFails, Saves, processVars
<1>9. CASE OpenFails \/ Cancel
  BY <1>9 DEF OpenFails, Cancel, Ends, diskVars, processVars
<1>10. CASE Maintain
  BY <1>10 DEF Maintain, Cleans, processVars
<1>11. CASE Count
  BY <1>11 DEF Count, Counts, diskVars, processVars
<1>12. CASE Interrupt \/ Tick \/ UNCHANGED vars
  BY <1>12 DEF Interrupt, Tick, vars, Elsewhere, workerVars, diskVars, processVars
<1>13. CASE Exit
  BY <1>13 DEF Exit, Exits, diskVars
<1>14. CASE Start
  BY <1>14 DEF Start, Starts, diskVars
<1> QED BY <1>1, <1>2, <1>3, <1>4, <1>5, <1>6, <1>7, <1>8, <1>9, <1>10, <1>11, <1>12, <1>13,
           <1>14 DEF Next, PageStep, WorkerStep

-----------------------------------------------------------------------------
(* The pictures of a command *)

LEMMA CountedNext ==
    ASSUME TypeOK, Counted, [Next]_vars
    PROVE  Counted'
<1> USE DEF Worker, Disk
<1>1. counter \in Nat
  BY DEF TypeOK
<1>2. Elsewhere \/ Opens \/ Reads \/ Ends \/ Cleans \/ Exits \/ Starts => Counted'
  BY <1>1 DEF Counted, Elsewhere, Opens, Reads, Ends, Cleans, Exits, Starts
<1>3. Takes \/ Saves \/ Counts => Counted'
  BY <1>1 DEF Counted, Takes, Saves, Counts
<1> QED BY <1>2, <1>3, StepCases

LEMMA ProgressNext ==
    ASSUME TypeOK, Progress, [Next]_vars
    PROVE  Progress'
<1> USE DEF Worker, Disk
<1>1. flags \in 0..5 /\ stop_num \in Nat /\ owed \in Int
  BY DEF TypeOK
<1>2. Elsewhere \/ Opens \/ Ends \/ Cleans \/ Exits \/ Starts => Progress'
  BY DEF Progress, Elsewhere, Opens, Ends, Cleans, Exits, Starts, Endless
<1>3. Takes \/ Saves => Progress'
  BY DEF Progress, Takes, Saves, Endless
<1>4. CASE Reads
  <2>1. PICK m \in Modes \ {0} : flags' = FlagOf(m) /\ owed' = m
    BY <1>4 DEF Reads
  <2>2. flags' \in 1..5 /\ m = Asked(flags') /\ (flags' = 5 => m = 9)
    BY <2>1, FlagsType
  <2>3. wpc' = "frame" /\ stop_num' = 0
    BY <1>4 DEF Reads, Progress
  <2>4. Taken(flags') > 0 /\ owed' = Asked(flags') - 0
    BY <2>1, <2>2 DEF Taken, Asked
  <2>5. flags' = 5 => 9 \in Modes
    BY <2>2
  <2> QED BY <2>2, <2>3, <2>4, <2>5 DEF Progress
<1>5. CASE Counts
  <2>1. /\ flags \in 1..5 /\ owed = Asked(flags) - stop_num
        /\ flags = 5 => 9 \in Modes
        /\ ~Endless => stop_num < Taken(flags)
    BY <1>5 DEF Counts, Progress
  <2>2. CASE Enough(flags, stop_num + 1)
    <3>1. stop_num' = 0 /\ flags' = 0 /\ wpc' \in {"ended", "command"} /\ owed' = owed - 1
      BY <1>5, <2>2 DEF Counts
    <3>2. owed - 1 = 0 \/ (owed - 1 = 2 /\ flags = 5)
      BY <1>1, <2>1, <2>2 DEF Enough, Asked, Taken, Endless, FlagOf
    <3> QED BY <2>1, <3>1, <3>2 DEF Progress
  <2>3. CASE ~Enough(flags, stop_num + 1)
    <3>1. stop_num' = stop_num + 1 /\ flags' = flags /\ wpc' \in {"ended", "frame"} /\ owed' = owed - 1
      BY <1>5, <2>1, <2>3 DEF Counts
    <3>2. owed - 1 = Asked(flags) - (stop_num + 1)
      BY <1>1, <2>1 DEF Asked
    <3>3. ~Endless => stop_num + 1 < Taken(flags)
      BY <1>1, <2>1, <2>3 DEF Enough, Asked, Taken, Endless, FlagOf
    <3>4. Endless' = Endless
      BY <3>1 DEF Endless
    <3> QED BY <2>1, <3>1, <3>2, <3>3, <3>4 DEF Progress
  <2> QED BY <2>2, <2>3
<1> QED BY <1>2, <1>3, <1>4, <1>5, StepCases

LEMMA ProgressEnough ==
    ASSUME TypeOK, Progress
    PROVE  AsManyAsAsked
<1>1. NoMoreThanAsked
  <2>1. ASSUME wpc \in {"frame", "save", "maintain", "count"}, ~Endless PROVE owed >= 1
    <3>1. flags \in 1..5 /\ owed = Asked(flags) - stop_num /\ stop_num < Taken(flags)
      BY <2>1 DEF Progress
    <3>2. stop_num \in Nat
      BY DEF TypeOK
    <3> QED BY <3>1, <3>2 DEF Asked, Taken
  <2> QED BY <2>1 DEF NoMoreThanAsked
<1>2. NoFewerThanAsked
  BY DEF Progress, NoFewerThanAsked
<1> QED BY <1>1, <1>2 DEF AsManyAsAsked

-----------------------------------------------------------------------------
(* The names of the pictures *)

LEMMA OlderFacts ==
    /\ \A l, m, n \in Name : Older(l, m) /\ Older(m, n) => Older(l, n)
    /\ \A m, n \in Name : ~(Older(m, n) /\ Older(n, m))
    /\ \A m \in Name : ~Older(m, m)
<1>1. \A m \in Name : m.time \in Nat /\ m.number \in Nat
  BY SnapshotAssumption DEF Name, SnapshotAssumption
<1>2. ASSUME NEW l \in Name, NEW m \in Name, NEW n \in Name, Older(l, m), Older(m, n)
      PROVE  Older(l, n)
  BY <1>1, <1>2 DEF Older
<1>3. ASSUME NEW m \in Name, NEW n \in Name, Older(m, n), Older(n, m) PROVE FALSE
  BY <1>1, <1>3 DEF Older
<1> QED BY <1>2, <1>3

LEMMA AlbumType ==
    ASSUME TypeOK
    PROVE  /\ Len(album) \in Nat /\ \A i \in 1..Len(album) : album[i] \in Name
           /\ name \in Name /\ NextName \in Name /\ time \in Nat /\ counter \in Nat
           /\ NextName.time = time /\ NextName.number = counter
<1>1. album \in Seq(Name)
  BY DEF TypeOK
<1>2. NextName \in Name
  BY DEF NextName, Name, TypeOK
<1>3. time \in Nat
  BY SnapshotAssumption DEF TypeOK, SnapshotAssumption
<1> QED BY <1>1, <1>2, <1>3, LenProperties, ElementOfSeq DEF TypeOK, NextName

LEMMA AlbumGrows ==
    ASSUME TypeOK, Saves
    PROVE  /\ Len(album') = Len(album) + 1
           /\ \A i \in 1..Len(album) : album'[i] = album[i]
           /\ album'[Len(album) + 1] = name
           /\ album' # <<>>
BY AppendProperties DEF Saves, TypeOK

LEMMA NamesNext ==
    ASSUME TypeOK, AlbumInOrder, NamesPast, FrameNewest, TypeOK', [Next]_vars
    PROVE  AlbumInOrder' /\ NamesPast' /\ FrameNewest'
<1> USE DEF Worker, Disk
<1>1. PICK n \in Nat : n = Len(album) /\ \A i \in 1..n : album[i] \in Name
  BY AlbumType
<1>2. /\ name \in Name /\ NextName \in Name /\ NextName' \in Name /\ name' \in Name
      /\ NextName.time = time /\ NextName.number = counter
      /\ NextName'.time = time' /\ NextName'.number = counter'
      /\ time \in Nat /\ time' \in Nat /\ counter \in Nat /\ counter' \in Nat
  <2>1. NextName \in Name /\ NextName' \in Name /\ name \in Name /\ name' \in Name
    BY DEF NextName, Name, TypeOK
  <2>2. time \in Nat /\ time' \in Nat /\ counter \in Nat /\ counter' \in Nat
    BY SnapshotAssumption DEF SnapshotAssumption, TypeOK
  <2> QED BY <2>1, <2>2 DEF NextName
<1>3. \A m \in Name : m.time \in Nat /\ m.number \in Nat
  BY SnapshotAssumption DEF Name, SnapshotAssumption
<1>4. ASSUME UNCHANGED album PROVE AlbumInOrder'
  BY <1>4 DEF AlbumInOrder
<1>5. ASSUME time <= time', counter' = counter, NEW m \in Name, Older(m, NextName)
      PROVE  Older(m, NextName')
  BY <1>2, <1>3, <1>5 DEF Older
<1>6. ASSUME UNCHANGED album, time <= time', counter' = counter,
             wpc' = "down" => wpc = "down"
      PROVE  NamesPast'
  <2>1. ASSUME NEW i \in 1..n
        PROVE  IF wpc' = "down" THEN album'[i].time < time' ELSE Older(album'[i], NextName')
    <3>1. album[i] \in Name /\ album'[i] = album[i] /\ album[i].time \in Nat
      BY <1>1, <1>3, <1>6
    <3>2. CASE wpc = "down"
      <4>1. album[i].time < time'
        BY <1>1, <1>2, <1>6, <3>1, <3>2 DEF NamesPast
      <4>2. Older(album'[i], NextName')
        BY <1>2, <3>1, <4>1 DEF Older
      <4> QED BY <3>1, <4>1, <4>2
    <3>3. CASE wpc # "down"
      <4>1. Older(album[i], NextName)
        BY <1>1, <3>3 DEF NamesPast
      <4> QED BY <1>5, <1>6, <3>1, <3>3, <4>1
    <3> QED BY <3>2, <3>3
  <2> QED BY <1>1, <1>6, <2>1 DEF NamesPast
<1>7. CASE Elsewhere \/ Opens \/ Reads \/ Ends \/ Cleans \/ Counts
  <2>1. UNCHANGED album /\ counter' = counter /\ time' \in {time, time + 1}
    BY <1>7 DEF Elsewhere, Opens, Reads, Ends, Cleans, Counts
  <2>2. wpc' = "down" => wpc = "down"
    BY <1>7 DEF Elsewhere, Opens, Reads, Ends, Cleans, Counts
  <2>3. time <= time'
    BY <1>2, <2>1
  <2>4. wpc' = "save" => wpc = "save" /\ UNCHANGED name
    BY <1>7 DEF Elsewhere, Opens, Reads, Ends, Cleans, Counts
  <2>5. FrameNewest'
    <3>1. wpc' = "save" => Older(name', NextName')
      BY <1>2, <1>5, <2>1, <2>3, <2>4 DEF FrameNewest
    <3>2. wpc' = "save" => \A i \in 1..Len(album') : Older(album'[i], name')
      BY <2>1, <2>4 DEF FrameNewest
    <3> QED BY <3>1, <3>2 DEF FrameNewest
  <2> QED BY <1>4, <1>6, <2>1, <2>2, <2>3, <2>5
<1>8. CASE Takes
  <2>1. /\ wpc' = "save" /\ wpc # "down" /\ UNCHANGED <<album, time>> /\ counter' = counter + 1
        /\ name' = NextName
    BY <1>8 DEF Takes, NextName
  <2>2. Older(NextName, NextName')
    BY <1>2, <2>1 DEF Older
  <2>3. \A i \in 1..n : Older(album[i], NextName)
    BY <1>1, <2>1 DEF NamesPast
  <2>4. \A i \in 1..n : Older(album[i], NextName')
    BY <1>1, <1>2, <2>2, <2>3, OlderFacts
  <2>5. NamesPast'
    BY <1>1, <2>1, <2>4 DEF NamesPast
  <2>6. FrameNewest'
    BY <1>1, <2>1, <2>2, <2>3 DEF FrameNewest
  <2> QED BY <1>4, <2>1, <2>5, <2>6
<1>9. CASE Saves
  <2>1. wpc = "save" /\ wpc' \in {"maintain", "ended"} /\ UNCHANGED <<name, counter, time>>
    BY <1>9 DEF Saves
  <2>2. PICK a : a = album'
    OBVIOUS
  <2>3. Len(a) = n + 1 /\ a[n + 1] = name /\ \A i \in 1..n : a[i] = album[i]
    BY <1>1, <1>9, <2>2, AlbumGrows
  <2>4. Older(name, NextName) /\ NextName' = NextName /\ \A i \in 1..n : Older(album[i], name)
    BY <1>1, <2>1 DEF FrameNewest, NextName
  <2>5. \A i \in 1..(n + 1) : i \in 1..n \/ i = n + 1
    OBVIOUS
  <2>6. \A i \in 1..(n + 1) : Older(a[i], NextName')
    <3>1. \A i \in 1..n : Older(album[i], NextName)
      BY <1>1, <2>1 DEF NamesPast
    <3> QED BY <2>3, <2>4, <2>5, <3>1
  <2>7. NamesPast'
    BY <2>1, <2>2, <2>3, <2>6 DEF NamesPast
  <2>8. ASSUME NEW i \in 1..(n + 1), NEW j \in 1..(n + 1), i < j
        PROVE  Older(a[i], a[j])
    <3>1. i \in 1..n
      BY <2>8
    <3>2. CASE j = n + 1
      BY <2>3, <2>4, <3>1, <3>2
    <3>3. CASE j \in 1..n
      <4>1. Older(album[i], album[j])
        BY <1>1, <2>8, <3>1, <3>3 DEF AlbumInOrder
      <4> QED BY <2>3, <3>1, <3>3, <4>1
    <3> QED BY <2>5, <3>2, <3>3
  <2>9. AlbumInOrder'
    BY <2>2, <2>3, <2>8 DEF AlbumInOrder
  <2>10. FrameNewest'
    BY <2>1 DEF FrameNewest
  <2> QED BY <2>7, <2>9, <2>10
<1>10. CASE Exits
  <2>1. /\ wpc = "ended" /\ wpc' = "down" /\ time' = time + 1 /\ UNCHANGED album
    BY <1>10 DEF Exits
  <2>2. ASSUME NEW i \in 1..n PROVE album[i].time < time + 1
    <3>1. Older(album[i], NextName) /\ album[i].time \in Nat
      BY <1>1, <1>3, <2>1 DEF NamesPast
    <3> QED BY <1>2, <3>1 DEF Older
  <2>3. NamesPast'
    BY <1>1, <2>1, <2>2 DEF NamesPast
  <2>4. FrameNewest'
    BY <2>1 DEF FrameNewest
  <2> QED BY <1>4, <2>1, <2>3, <2>4
<1>11. CASE Starts
  <2>1. wpc = "down" /\ wpc' = "create" /\ UNCHANGED <<album, time>>
    BY <1>11 DEF Starts
  <2>2. ASSUME NEW i \in 1..n PROVE Older(album[i], NextName')
    <3>1. album[i].time < time
      BY <1>1, <2>1 DEF NamesPast
    <3> QED BY <1>2, <2>1, <3>1 DEF Older
  <2>3. NamesPast'
    BY <1>1, <2>1, <2>2 DEF NamesPast
  <2>4. FrameNewest'
    BY <2>1 DEF FrameNewest
  <2> QED BY <1>4, <2>1, <2>3, <2>4
<1> QED BY <1>7, <1>8, <1>9, <1>10, <1>11, StepCases

-----------------------------------------------------------------------------
(* The end of the album *)

Suffix(k) == {album[i] : i \in k + 1..Len(album)}

LEMMA AlbumDistinct ==
    ASSUME TypeOK, AlbumInOrder
    PROVE  \A i, j \in 1..Len(album) : /\ Older(album[i], album[j]) <=> i < j
                                       /\ album[i] = album[j] => i = j
<1>1. PICK n \in Nat : n = Len(album) /\ \A i \in 1..n : album[i] \in Name
  BY AlbumType
<1>2. ASSUME NEW i \in 1..n, NEW j \in 1..n
      PROVE  /\ Older(album[i], album[j]) <=> i < j
             /\ album[i] = album[j] => i = j
  <2>1. i < j => Older(album[i], album[j])
    BY <1>1 DEF AlbumInOrder
  <2>2. j < i => Older(album[j], album[i])
    BY <1>1 DEF AlbumInOrder
  <2>3. ~(Older(album[i], album[j]) /\ Older(album[j], album[i]))
    BY <1>1, OlderFacts
  <2>4. i = j => ~Older(album[i], album[j])
    BY <1>1, OlderFacts
  <2>5. i < j \/ j < i \/ i = j
    OBVIOUS
  <2>6. album[i] = album[j] => ~Older(album[i], album[j]) /\ ~Older(album[j], album[i])
    BY <1>1, OlderFacts
  <2> QED BY <2>1, <2>2, <2>3, <2>4, <2>5, <2>6
<1> QED BY <1>1, <1>2

LEMMA SuffixSize ==
    ASSUME TypeOK, AlbumInOrder, NEW k \in 0..Len(album)
    PROVE  IsFiniteSet(Suffix(k)) /\ Cardinality(Suffix(k)) = Len(album) - k
<1>1. PICK n \in Nat : n = Len(album)
  BY AlbumType
<1>2. PICK D : D = k + 1..n
  OBVIOUS
<1>3. D \subseteq 1..n
  BY <1>1, <1>2
<1>4. PICK f : f = [i \in D |-> album[i]]
  OBVIOUS
<1>5. f \in [D -> Suffix(k)]
  BY <1>1, <1>2, <1>4 DEF Suffix
<1>6. \A a, b \in D : f[a] = f[b] => a = b
  BY <1>1, <1>3, <1>4, AlbumDistinct
<1>7. \A t \in Suffix(k) : \E i \in D : f[i] = t
  BY <1>1, <1>2, <1>4 DEF Suffix
<1>8. ExistsBijection(D, Suffix(k))
  <2>1. f \in Bijection(D, Suffix(k))
    BY <1>5, <1>6, <1>7, Fun_IsBij
  <2> QED BY <2>1, Fun_ExistsBij
<1>9. IsFiniteSet(D) /\ Cardinality(D) = n - k
  <2>1. k + 1 \in Int /\ n \in Int /\ k \in 0..n
    BY <1>1
  <2>2. /\ IsFiniteSet(k + 1..n)
        /\ Cardinality(k + 1..n) = IF k + 1 > n THEN 0 ELSE n - (k + 1) + 1
    BY <2>1, FS_Interval
  <2>3. (IF k + 1 > n THEN 0 ELSE n - (k + 1) + 1) = n - k
    BY <2>1
  <2> QED BY <1>2, <2>2, <2>3
<1> QED BY <1>1, <1>8, <1>9, FS_Bijection

\* maintain_ringbuffer keeps the end of the end, and no more than the size.
LEMMA CleanupKeeps ==
    ASSUME TypeOK, AlbumInOrder, NEW k \in 0..Len(album), files = Suffix(k),
           NEW size \in Nat
    PROVE  \E j \in k..Len(album) :
              /\ Newest(size) = Suffix(j) /\ Len(album) - j <= size
              /\ size >= 1 /\ k < Len(album) => j < Len(album)
<1>1. PICK n \in Nat : n = Len(album)
  BY AlbumType
<1>2. PICK j \in k..n : j = IF n - size > k THEN n - size ELSE k
  BY <1>1
<1>3. n - j <= size /\ (size >= 1 /\ k < n => j < n)
  BY <1>2
<1>4. ASSUME NEW i \in k + 1..n
      PROVE  Cardinality({m \in files : Older(album[i], m)}) = n - i
  <2>1. {m \in files : Older(album[i], m)} = Suffix(i)
    <3>1. ASSUME NEW m \in files, Older(album[i], m) PROVE m \in Suffix(i)
      <4>1. PICK l \in k + 1..n : m = album[l]
        BY <1>1, <3>1 DEF Suffix
      <4>2. l \in 1..n /\ i \in 1..n
        BY <1>1
      <4>3. i < l
        BY <1>1, <3>1, <4>1, <4>2, AlbumDistinct
      <4> QED BY <1>1, <4>1, <4>3 DEF Suffix
    <3>2. ASSUME NEW m \in Suffix(i) PROVE m \in files /\ Older(album[i], m)
      <4>1. PICK l \in i + 1..n : m = album[l]
        BY <1>1 DEF Suffix
      <4>2. l \in 1..n /\ i \in 1..n /\ l \in k + 1..n /\ i < l
        BY <1>1
      <4>3. Older(album[i], album[l])
        BY <1>1, <4>2, AlbumDistinct
      <4> QED BY <1>1, <4>1, <4>2, <4>3 DEF Suffix
    <3> QED BY <3>1, <3>2
  <2>2. i \in 0..Len(album)
    BY <1>1
  <2>3. Cardinality(Suffix(i)) = n - i
    BY <1>1, <2>2, SuffixSize
  <2> QED BY <2>1, <2>3
<1>5. Newest(size) = Suffix(j)
  <2>1. ASSUME NEW m \in Newest(size) PROVE m \in Suffix(j)
    <3>1. m \in files /\ Cardinality({x \in files : Older(m, x)}) < size
      BY DEF Newest
    <3>2. PICK i \in k + 1..n : m = album[i]
      BY <1>1, <3>1 DEF Suffix
    <3>3. n - i < size
      BY <1>4, <3>1, <3>2
    <3>4. i \in j + 1..n
      BY <1>1, <1>2, <3>3
    <3> QED BY <1>1, <3>2, <3>4 DEF Suffix
  <2>2. ASSUME NEW m \in Suffix(j) PROVE m \in Newest(size)
    <3>1. PICK i \in j + 1..n : m = album[i]
      BY <1>1 DEF Suffix
    <3>2. i \in k + 1..n /\ n - i < size
      BY <1>1, <1>2
    <3>3. m \in files
      BY <1>1, <3>1, <3>2 DEF Suffix
    <3>4. Cardinality({x \in files : Older(m, x)}) < size
      BY <1>4, <3>1, <3>2
    <3> QED BY <3>3, <3>4 DEF Newest
  <2> QED BY <2>1, <2>2
<1> QED BY <1>1, <1>3, <1>5

-----------------------------------------------------------------------------
(* What is on disk *)

LEMMA OnDisk ==
    ASSUME TypeOK, AlbumInOrder, KeepsSuffix
    PROVE  \E k \in 0..Len(album) :
              files = Suffix(k) /\ IsFiniteSet(files) /\ Cardinality(files) = Len(album) - k
<1>1. PICK k \in 0..Len(album) : files = Suffix(k)
  BY DEF KeepsSuffix, Suffix
<1> QED BY <1>1, SuffixSize

LEMMA Saved ==
    ASSUME TypeOK, AlbumInOrder, KeepsSuffix, Saves
    PROVE  /\ KeepsSuffix' /\ KeepsNewest'
           /\ Cardinality(files) \in Nat /\ Cardinality(files') <= Cardinality(files) + 1
<1>1. PICK n \in Nat : n = Len(album)
  BY AlbumType
<1>2. PICK k \in 0..n : files = Suffix(k) /\ IsFiniteSet(files)
  BY <1>1, OnDisk
<1>3. files' = files \cup {name}
  BY DEF Saves
<1>4. PICK a : a = album' /\ Len(a) = n + 1 /\ a[n + 1] = name /\ \A i \in 1..n : a[i] = album[i]
  BY <1>1, AlbumGrows
<1>5. files' = {a[i] : i \in k + 1..(n + 1)}
  <2>1. ASSUME NEW x \in files' PROVE \E i \in k + 1..(n + 1) : x = a[i]
    <3>1. CASE x = name
      <4>1. n + 1 \in k + 1..(n + 1)
        OBVIOUS
      <4> QED BY <1>4, <3>1, <4>1
    <3>2. CASE x \in files
      <4>1. PICK i \in k + 1..n : x = album[i]
        BY <1>1, <1>2, <3>2 DEF Suffix
      <4>2. i \in 1..n /\ i \in k + 1..(n + 1)
        OBVIOUS
      <4> QED BY <1>4, <4>1, <4>2
    <3> QED BY <1>3, <2>1, <3>1, <3>2
  <2>2. ASSUME NEW i \in k + 1..(n + 1) PROVE a[i] \in files'
    <3>1. CASE i = n + 1
      BY <1>3, <1>4, <3>1
    <3>2. CASE i # n + 1
      <4>1. i \in k + 1..n /\ i \in 1..n
        BY <3>2
      <4> QED BY <1>1, <1>2, <1>3, <1>4, <4>1 DEF Suffix
    <3> QED BY <3>1, <3>2
  <2> QED BY <2>1, <2>2
<1>6. KeepsSuffix'
  <2>1. k \in 0..(n + 1)
    OBVIOUS
  <2> QED BY <1>4, <1>5, <2>1 DEF KeepsSuffix
<1>7. KeepsNewest'
  BY <1>3, <1>4 DEF KeepsNewest
<1>8. Cardinality(files) \in Nat /\ Cardinality(files') <= Cardinality(files) + 1
  <2>1. Cardinality(files) \in Nat
    BY <1>2, FS_CardinalityType
  <2>2. Cardinality(files') = IF name \in files THEN Cardinality(files) ELSE Cardinality(files) + 1
    BY <1>2, <1>3, FS_AddElement
  <2> QED BY <2>1, <2>2
<1> QED BY <1>6, <1>7, <1>8

LEMMA Cleaned ==
    ASSUME TypeOK, AlbumInOrder, KeepsSuffix, KeepsNewest, Cleans
    PROVE  /\ KeepsSuffix' /\ KeepsNewest'
           /\ CleanupDue /\ ringbuffer_size >= 0 => Cardinality(files') <= ringbuffer_size
<1>1. PICK n \in Nat : n = Len(album)
  BY AlbumType
<1>2. PICK k \in 0..n : files = Suffix(k)
  BY <1>1, OnDisk
<1>3. UNCHANGED album
  BY DEF Cleans
<1>4. ringbuffer_size \in Int /\ <<ringbuffer_size, ringbuffer_exceed>> \in Options
  BY OptionsType DEF TypeOK
<1>5. CASE ~CleanupDue \/ ringbuffer_size < 0
  <2>1. files' = files
    BY <1>5 DEF Cleans, maintain_ringbuffer
  <2>2. KeepsSuffix' /\ KeepsNewest'
    BY <1>3, <2>1 DEF KeepsSuffix, KeepsNewest
  <2> QED BY <1>4, <1>5, <2>2
<1>6. CASE CleanupDue /\ ~(ringbuffer_size < 0)
  <2>1. ringbuffer_size \in Nat /\ files' = Newest(ringbuffer_size)
    BY <1>4, <1>6 DEF Cleans, maintain_ringbuffer
  <2>2. PICK j \in k..n :
           /\ files' = Suffix(j) /\ n - j <= ringbuffer_size
           /\ ringbuffer_size >= 1 /\ k < n => j < n
    BY <1>1, <1>2, <2>1, CleanupKeeps
  <2>3. j \in 0..n
    OBVIOUS
  <2>4. KeepsSuffix'
    BY <1>1, <1>3, <2>2, <2>3 DEF KeepsSuffix, Suffix
  <2>5. Cardinality(files') = n - j
    BY <1>1, <2>2, <2>3, SuffixSize
  <2>6. KeepsNewest'
    <3>1. SUFFICES ASSUME \A o \in Options : o[1] # 0, album # <<>>
                   PROVE  album[n] \in files'
      BY <1>1, <1>3 DEF KeepsNewest
    <3>2. ringbuffer_size # 0
      BY <1>4, <3>1
    <3>3. album[n] \in files
      BY <1>1, <3>1 DEF KeepsNewest
    <3>4. k < n
      <4>1. PICK i \in k + 1..n : album[n] = album[i]
        BY <1>1, <1>2, <3>3 DEF Suffix
      <4> QED BY <4>1
    <3>5. n \in j + 1..n
      BY <2>1, <2>2, <3>2, <3>4
    <3> QED BY <1>1, <2>2, <3>5 DEF Suffix
  <2> QED BY <2>2, <2>4, <2>5, <2>6
<1> QED BY <1>5, <1>6

LEMMA KeepsNext ==
    ASSUME TypeOK, AlbumInOrder, KeepsSuffix, KeepsNewest, [Next]_vars
    PROVE  KeepsSuffix' /\ KeepsNewest'
<1>1. CASE UNCHANGED Disk
  BY <1>1 DEF Disk, KeepsSuffix, KeepsNewest
<1>2. CASE Elsewhere \/ Opens \/ Reads \/ Takes \/ Ends \/ Counts \/ Exits \/ Starts
  BY <1>1, <1>2 DEF Elsewhere, Opens, Reads, Takes, Ends, Counts, Exits, Starts
<1> QED BY <1>2, StepCases, Saved, Cleaned

-----------------------------------------------------------------------------
(* How much there is on disk *)

\* A number that grows by one leaves one more, or nothing.
LEMMA Remainders ==
    ASSUME NEW c \in Nat, NEW d \in Nat, d >= 1
    PROVE  /\ c % d \in 0..(d - 1)
           /\ (c + 1) % d = 0 \/ (c + 1) % d = (c % d) + 1
<1>1. PICK q \in Int, r \in 0..(d - 1) : c = d * q + r /\ c % d = r
  <2>1. c = d * (c \div d) + (c % d) /\ c \div d \in Int /\ c % d \in 0..(d - 1)
    OBVIOUS
  <2> QED BY <2>1
<1>2. PICK p \in Int, s \in 0..(d - 1) : c + 1 = d * p + s /\ (c + 1) % d = s
  <2>1. /\ c + 1 = d * ((c + 1) \div d) + ((c + 1) % d)
        /\ (c + 1) \div d \in Int /\ (c + 1) % d \in 0..(d - 1)
    OBVIOUS
  <2> QED BY <2>1
<1>3. PICK m \in Int : m = p - q
  OBVIOUS
<1>4. d * m = r + 1 - s
  <2>1. d * m = d * p - d * q
    BY <1>3
  <2>2. PICK x \in Int, y \in Int : x = d * p /\ y = d * q
    OBVIOUS
  <2> QED BY <1>1, <1>2, <2>1, <2>2
<1>5. ~(m >= 2)
  <2>1. ASSUME m >= 2 PROVE d * m >= d * 2
    BY <2>1
  <2> QED BY <1>4, <2>1
<1>6. ~(m <= -1)
  <2>1. ASSUME m <= -1 PROVE d * m <= -d
    BY <2>1
  <2> QED BY <1>4, <2>1
<1>7. m = 0 \/ m = 1
  BY <1>5, <1>6
<1> QED BY <1>1, <1>2, <1>4, <1>7

LEMMA BeyondType ==
    ASSUME TypeOK, NEW c \in Nat
    PROVE  /\ Beyond(c) \in Nat
           /\ Beyond(c) <= IF ringbuffer_exceed > 0 THEN ringbuffer_exceed ELSE 0
           /\ ringbuffer_exceed > 0 =>
                 (c + 1) % (ringbuffer_exceed + 1) = 0 \/ Beyond(c + 1) = Beyond(c) + 1
<1>1. PICK e \in Int : e = ringbuffer_exceed
  BY OptionsType
<1>2. CASE e > 0
  <2>1. PICK d \in Nat : d = e + 1 /\ d >= 1
    BY <1>2
  <2>2. /\ c % d \in 0..(d - 1)
        /\ (c + 1) % d = 0 \/ (c + 1) % d = (c % d) + 1
    BY <2>1, Remainders
  <2>3. Beyond(c) = c % d /\ Beyond(c + 1) = (c + 1) % d
    BY <1>1, <1>2, <2>1 DEF Beyond
  <2> QED BY <1>1, <1>2, <2>1, <2>2, <2>3
<1>3. CASE ~(e > 0)
  BY <1>1, <1>3 DEF Beyond
<1> QED BY <1>2, <1>3

LEMMA FilledNext ==
    ASSUME TypeOK, AlbumInOrder, KeepsSuffix, KeepsNewest, Counted, Filled, [Next]_vars
    PROVE  Filled'
<1> DEFINE N == Cardinality(files)
<1> USE DEF Worker, Disk, optionVars
<1>1. PICK z \in Int, e \in Int, c \in Nat :
         z = ringbuffer_size /\ e = ringbuffer_exceed /\ c = counter
  BY OptionsType DEF TypeOK
<1>2. N \in Nat
  BY OnDisk, FS_CardinalityType
<1>3. ASSUME UNCHANGED <<wpc, counter, files, optionVars>> PROVE Filled'
  BY <1>3 DEF Filled, Beyond
<1>4. ASSUME wpc' \notin {"command", "frame", "count", "save", "maintain"} PROVE Filled'
  BY <1>4 DEF Filled
<1>5. ASSUME wpc \in {"command", "frame", "count"}, wpc' \notin {"save", "maintain"},
             UNCHANGED <<counter, files, optionVars>>
      PROVE  Filled'
  <2>1. Beyond(counter)' = Beyond(counter)
    BY <1>5 DEF Beyond
  <2> QED BY <1>5, <2>1 DEF Filled
<1>6. CASE Elsewhere
  BY <1>3, <1>6 DEF Elsewhere
<1>7. CASE Opens
  <2>1. CASE wpc' = "command"
    <3>1. counter' = 0
      BY <1>7, <2>1 DEF Opens, Counted
    <3>2. ~(0 >= 1)
      OBVIOUS
    <3> QED BY <2>1, <3>1, <3>2 DEF Filled
  <2>2. CASE wpc' # "command"
    BY <1>4, <1>7, <2>2 DEF Opens
  <2> QED BY <2>1, <2>2
<1>8. CASE Reads \/ Counts
  BY <1>5, <1>8 DEF Reads, Counts
<1>9. CASE Ends \/ Exits \/ Starts
  BY <1>4, <1>9 DEF Ends, Exits, Starts
<1>10. CASE Takes
  <2>1. wpc = "frame" /\ wpc' = "save" /\ counter' = c + 1 /\ UNCHANGED <<files, optionVars>>
    BY <1>1, <1>10 DEF Takes
  <2>2. Beyond(c)' = Beyond(c) /\ (c + 1) - 1 = c
    BY <2>1 DEF Beyond
  <2>3. z >= 0 /\ c >= 1 => N <= z + Beyond(c)
    BY <1>1, <2>1 DEF Filled
  <2>4. ringbuffer_size' >= 0 /\ counter' >= 2 => N <= ringbuffer_size' + Beyond(c)
    BY <1>1, <2>1, <2>3
  <2>5. Beyond(counter - 1)' = Beyond(c)
    BY <1>1, <2>1, <2>2 DEF Beyond
  <2> QED BY <2>1, <2>4, <2>5 DEF Filled
<1>11. CASE Saves
  <2>1. CASE wpc' = "ended"
    BY <1>4, <2>1
  <2>2. CASE wpc' = "maintain"
    <3>1. wpc = "save" /\ UNCHANGED <<counter, optionVars>>
      BY <1>11 DEF Saves
    <3>2. Cardinality(files') <= N + 1
      BY <1>11, Saved
    <3>3. Cardinality(files') \in Nat
      <4>1. IsFiniteSet(files)
        BY OnDisk
      <4>2. files' = files \cup {name}
        BY <1>11 DEF Saves
      <4> QED BY <4>1, <4>2, FS_AddElement, FS_CardinalityType
    <3>4. ASSUME z >= 0, c >= 2
          PROVE  Cardinality(files') <= z + Beyond(c - 1) + 1
      <4>1. N <= z + Beyond(c - 1)
        BY <1>1, <3>1, <3>4 DEF Filled
      <4>2. PICK b \in Nat : b = Beyond(c - 1)
        BY <3>4, BeyondType
      <4> QED BY <1>2, <3>2, <3>3, <4>1, <4>2
    <3>5. Beyond(counter - 1)' = Beyond(c - 1)
      BY <1>1, <3>1 DEF Beyond
    <3> QED BY <1>1, <2>2, <3>1, <3>4, <3>5 DEF Filled
  <2> QED BY <1>11, <2>1, <2>2 DEF Saves
<1>12. CASE Cleans
  <2>1. wpc = "maintain" /\ wpc' = "count" /\ UNCHANGED <<counter, optionVars>>
    BY <1>12 DEF Cleans
  <2>2. c >= 1
    BY <1>1, <2>1 DEF Counted
  <2>3. PICK b \in Nat : b = Beyond(c)
    BY BeyondType
  <2>4. ASSUME z >= 0 PROVE Cardinality(files') <= z + b
    <3>1. CASE CleanupDue
      <4>1. Cardinality(files') <= z
        BY <1>1, <1>12, <2>4, <3>1, Cleaned
      <4>2. Cardinality(files') \in Int
        <5>1. KeepsSuffix' /\ UNCHANGED album
          BY <1>12, Cleaned DEF Cleans
        <5>2. PICK k \in 0..Len(album) : files' = Suffix(k)
          BY <5>1 DEF KeepsSuffix, Suffix
        <5>3. Cardinality(files') = Len(album) - k
          BY <5>2, SuffixSize
        <5> QED BY <5>3, AlbumType
      <4> QED BY <4>1, <4>2
    <3>2. CASE ~CleanupDue
      <4>1. files' = files
        BY <1>12, <3>2 DEF Cleans
      <4>2. e > 0 /\ c # 1 /\ ~(c % (e + 1) = 0)
        BY <1>1, <3>2 DEF CleanupDue
      <4>3. PICK p \in Nat : c = p + 1 /\ p = c - 1 /\ c >= 2
        BY <2>2, <4>2
      <4>4. Beyond(p + 1) = Beyond(p) + 1 /\ Beyond(p) \in Nat
        BY <1>1, <4>2, <4>3, BeyondType
      <4>5. N <= z + Beyond(p) + 1
        BY <1>1, <2>1, <2>4, <4>3 DEF Filled
      <4> QED BY <1>2, <2>3, <4>1, <4>3, <4>4, <4>5
    <3> QED BY <3>1, <3>2
  <2>5. Beyond(counter)' = b
    BY <1>1, <2>1, <2>3 DEF Beyond
  <2> QED BY <1>1, <2>1, <2>4, <2>5 DEF Filled
<1> QED BY <1>6, <1>7, <1>8, <1>9, <1>10, <1>11, <1>12, StepCases

LEMMA FilledEnough ==
    ASSUME TypeOK, AlbumInOrder, KeepsSuffix, Filled
    PROVE  RingBounded
<1> DEFINE N == Cardinality(files)
           E == IF ringbuffer_exceed > 0 THEN ringbuffer_exceed ELSE 0
<1>1. SUFFICES ASSUME ringbuffer_size >= 0, counter >= 1, wpc \in {"command", "frame", "count"}
               PROVE  N <= ringbuffer_size + E
  BY DEF RingBounded
<1>2. PICK z \in Int, e \in Int, b \in Nat : z = ringbuffer_size /\ e = E /\ b = Beyond(counter) /\ b <= e
  <2>1. counter \in Nat /\ ringbuffer_size \in Int /\ E \in Int
    BY OptionsType DEF TypeOK
  <2>2. Beyond(counter) \in Nat /\ Beyond(counter) <= E
    BY <2>1, BeyondType
  <2> QED BY <2>1, <2>2
<1>3. N <= z + b
  BY <1>1, <1>2 DEF Filled
<1>4. N \in Nat
  BY OnDisk, FS_CardinalityType
<1> QED BY <1>2, <1>3, <1>4

LEMMA Ring == TypeOK /\ AlbumInOrder /\ KeepsSuffix /\ Filled => RingBounded
BY FilledEnough

LEMMA RingNext == TypeOK' /\ AlbumInOrder' /\ KeepsSuffix' /\ Filled' => RingBounded'
BY Ring, PTL

-----------------------------------------------------------------------------
(* The invariant *)

LEMMA InitInv ==
    ASSUME Init
    PROVE  SnapshotIInv
<1>1. TypeOK
  BY TypeInit
<1>2. /\ album = <<>> /\ Len(album) = 0 /\ files = {} /\ wpc = "create" /\ counter = 0
      /\ flags = 0 /\ stop_num = 0 /\ owed = 0
  BY EmptySeq DEF Init
<1>3. KeepsSuffix
  <2>1. 0 \in 0..0 /\ 0 + 1..0 = {}
    OBVIOUS
  <2> QED BY <1>2, <2>1 DEF KeepsSuffix
<1>4. KeepsNewest /\ RingBounded /\ Filled
  BY <1>2 DEF KeepsNewest, RingBounded, Filled
<1>5. AlbumInOrder /\ NamesPast /\ FrameNewest
  BY <1>2 DEF AlbumInOrder, NamesPast, FrameNewest
<1>6. Counted /\ Progress
  BY <1>2 DEF Counted, Progress
<1> QED BY <1>1, <1>3, <1>4, <1>5, <1>6 DEF SnapshotIInv, SnapshotInv

LEMMA IInvNext ==
    ASSUME SnapshotIInv, [Next]_vars
    PROVE  SnapshotIInv'
<1>1. /\ TypeOK /\ KeepsSuffix /\ KeepsNewest /\ AlbumInOrder /\ NamesPast /\ FrameNewest
      /\ Counted /\ Filled /\ Progress
  BY DEF SnapshotIInv, SnapshotInv
<1>2. TypeOK'
  BY <1>1, TypeNext
<1>3. AlbumInOrder' /\ NamesPast' /\ FrameNewest'
  BY <1>1, <1>2, NamesNext
<1>4. KeepsSuffix' /\ KeepsNewest'
  BY <1>1, KeepsNext
<1>5. Counted' /\ Progress'
  BY <1>1, CountedNext, ProgressNext
<1>6. Filled'
  BY <1>1, FilledNext
<1>8. RingBounded'
  BY <1>2, <1>3, <1>4, <1>6, RingNext
<1> QED BY <1>2, <1>3, <1>4, <1>5, <1>6, <1>8 DEF SnapshotIInv, SnapshotInv

LEMMA IInvHolds == Spec => []SnapshotIInv
<1>1. Init => SnapshotIInv
  BY InitInv
<1>2. SnapshotIInv /\ [Next]_vars => SnapshotIInv'
  BY IInvNext
<1> QED BY <1>1, <1>2, PTL DEF Spec

-----------------------------------------------------------------------------
(* What mjpg-streamer promises of its pictures *)

\* What is on disk is the end of what was ever saved, by whichever process, with the
\* newest picture in it and no more than ringbuffer_size + ringbuffer_exceed of them
\* (maintain_ringbuffer, output_file.c:140-141): for every ring buffer.
THEOREM SnapshotInvHolds == Spec => []SnapshotInv
<1>1. SnapshotIInv => SnapshotInv
  BY DEF SnapshotIInv
<1> QED BY <1>1, IInvHolds, PTL

\* The worker takes the pictures that a command asks for, but for the command for seven,
\* which never ends, and two of nine (output_file.c:381-420).
THEOREM AsManyAsAskedHolds == Spec => []AsManyAsAsked
<1>1. SnapshotIInv => AsManyAsAsked
  BY ProgressEnough DEF SnapshotIInv, SnapshotInv
<1> QED BY <1>1, IInvHolds, PTL
=============================================================================
