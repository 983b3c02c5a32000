------------------------------ MODULE Snapshot ------------------------------
(***************************************************************************)
(* The snapshots of the camera.  capture1.cgi writes a command to the FIFO *)
(* /tmp/webcom; the worker of mjpg-streamer's output_file plugin reads it, *)
(* saves as many frames as files, and keeps the newest of them on disk.    *)
(*                                                                         *)
(* A command is the number of pictures it asks for, 0 a form with a mode   *)
(* that capture1.cgi does not know.  A file is named by the second in which*)
(* the frame came and by a counter, which starts again with the process.   *)
(***************************************************************************)
EXTENDS Integers, Sequences, FiniteSets

CONSTANTS
    Page,            \* the pages that may run capture1.cgi at the same time
    Modes,           \* the modes that a form may have
    FifoSize,        \* commands that fit in the FIFO
    Options,         \* what mjpg-streamer may be started with, <<size, exceed>>
    MaxPictures,     \* bound on the pictures ever saved
    MaxRequests,     \* bound on the pages ever started
    MaxTime,         \* bound on the clock
    MaxStarts        \* how often mjpg-streamer may be started

ASSUME SnapshotAssumption ==
    /\ Modes \subseteq {0, 1, 3, 5, 7, 9}
    /\ FifoSize \in Nat \ {0}
    /\ Options \subseteq Int \X Int
    /\ MaxPictures \in Nat
    /\ MaxRequests \in Nat
    /\ MaxTime \in Nat
    /\ MaxStarts \in Nat \ {0}

VARIABLES
    page,      \* what each page is about to do
    mode,      \* the mode of its form
    fifo,      \* the commands in the FIFO
    exists,    \* whether the FIFO was ever created
    reading,   \* whether the worker has opened it
    wpc,       \* program counter of the worker
    stop,      \* whether SIGINT came
    flags,     \* which command the worker carries out, 0 for none
    stop_num,  \* pictures taken for it
    counter,   \* pictures taken since the start
    ringbuffer_size,    \* the pictures to keep, negative for all
    ringbuffer_exceed,  \* how many more there may be for a while
    name,      \* the file being saved, or saved last
    files,     \* the pictures on disk
    album,     \* every file ever created, in order
    owed,      \* pictures asked for and not yet taken
    requests,  \* pages ever started
    time,      \* the clock, in seconds
    starts     \* how often mjpg-streamer was started

pageVars == <<page, mode, fifo, requests>>
workerVars == <<reading, wpc, flags, stop_num, counter, name, owed>>
diskVars == <<exists, files, album>>
optionVars == <<ringbuffer_size, ringbuffer_exceed>>
processVars == <<stop, time, starts, optionVars>>
vars == <<pageVars, workerVars, diskVars, processVars>>

PageLabels == {"idle", "opening", "writing", "closing"}
WorkerLabels ==
    {"down", "create", "open", "command", "frame", "save", "maintain", "count",
     "ended"}
Name == [time: 0..MaxTime, number: Nat]
NoName == [time |-> 0, number |-> 0]

\* alphasort over "%Y_%m_%d_%H_%M_%S_picture_%09llu.jpg".
Older(m, n) ==
    \/ m.time < n.time
    \/ m.time = n.time /\ m.number < n.number

Init ==
    /\ page = [p \in Page |-> "idle"]
    /\ mode = [p \in Page |-> 0]
    /\ fifo = <<>>
    /\ requests = 0
    /\ exists = FALSE
    /\ files = {}
    /\ album = <<>>
    /\ reading = FALSE
    /\ wpc = "create"
    /\ flags = 0
    /\ stop_num = 0
    /\ counter = 0
    /\ name = NoName
    /\ owed = 0
    /\ stop = FALSE
    /\ time = 0
    /\ starts = 1
    /\ \E o \in Options : ringbuffer_size = o[1] /\ ringbuffer_exceed = o[2]

----------------------------------------------------------------------------
(* capture1.cgi *)

\* Without a FIFO the open fails, and the page ends at once.
Request(p, m) ==
    /\ page[p] = "idle"
    /\ exists
    /\ requests < MaxRequests
    /\ requests' = requests + 1
    /\ page' = [page EXCEPT ![p] = "opening"]
    /\ mode' = [mode EXCEPT ![p] = m]
    /\ UNCHANGED <<fifo, workerVars, diskVars, processVars>>

\* open for writing waits for a reader, and lets a reader go on that waits
\* in its own open.
PageOpen(p) ==
    /\ page[p] = "opening"
    /\ reading \/ wpc = "open"
    /\ page' = [page EXCEPT ![p] = "writing"]
    /\ \/ /\ wpc = "open"
          /\ wpc' = IF stop THEN "ended" ELSE "command"
          /\ reading' = TRUE
       \/ /\ wpc # "open"
          /\ UNCHANGED <<wpc, reading>>
    /\ UNCHANGED <<mode, fifo, requests, flags, stop_num, counter, name, owed,
                   diskVars, processVars>>

\* Each command is 12 bytes, fewer than PIPE_BUF, and as many as a read takes.
PageWrite(p) ==
    /\ page[p] = "writing"
    /\ mode[p] # 0
    /\ reading
    /\ Len(fifo) < FifoSize
    /\ fifo' = Append(fifo, mode[p])
    /\ page' = [page EXCEPT ![p] = "closing"]
    /\ UNCHANGED <<mode, requests, workerVars, diskVars, processVars>>

\* The default branch returns without a write; a write without a reader ends
\* the page with SIGPIPE.
PageWriteNothing(p) ==
    /\ page[p] = "writing"
    /\ mode[p] = 0 \/ ~reading
    /\ page' = [page EXCEPT ![p] = "closing"]
    /\ UNCHANGED <<mode, fifo, requests, workerVars, diskVars, processVars>>

\* What is in the FIFO is lost with the last process that has it open.
PageExit(p) ==
    /\ page[p] = "closing"
    /\ page' = [page EXCEPT ![p] = "idle"]
    /\ mode' = [mode EXCEPT ![p] = 0]
    /\ fifo' = IF reading \/ \E q \in Page \ {p} : page[q] \in {"writing", "closing"}
               THEN fifo ELSE <<>>
    /\ UNCHANGED <<requests, workerVars, diskVars, processVars>>

----------------------------------------------------------------------------
(* worker_thread *)

CreateFifo ==
    /\ wpc = "create"
    /\ exists' = TRUE
    /\ wpc' = "open"
    /\ UNCHANGED <<pageVars, reading, flags, stop_num, counter, name, owed,
                   files, album, processVars>>

\* A page of an earlier life still has the FIFO open.
OpenFifo ==
    /\ wpc = "open"
    /\ \E p \in Page : page[p] \in {"writing", "closing"}
    /\ reading' = TRUE
    /\ wpc' = IF stop THEN "ended" ELSE "command"
    /\ UNCHANGED <<pageVars, flags, stop_num, counter, name, owed, diskVars,
                   processVars>>

FlagOf(m) ==
    CASE m = 1 -> 1
      [] m = 3 -> 2
      [] m = 5 -> 3
      [] m = 7 -> 4
      [] m = 9 -> 5

\* Mutant of ReadCommand: the worker waits for more than one command.
ReadCommandLate ==
    /\ wpc = "command"
    /\ Len(fifo) > 1
    /\ fifo' = Tail(fifo)
    /\ flags' = FlagOf(Head(fifo))
    /\ owed' = Head(fifo)
    /\ wpc' = "frame"
    /\ UNCHANGED <<page, mode, requests, reading, stop_num, counter, name,
                   diskVars, processVars>>

\* A read at the end of the FIFO returns nothing, and is tried again.
ReadCommand ==
    /\ wpc = "command"
    /\ fifo # <<>>
    /\ fifo' = Tail(fifo)
    /\ flags' = FlagOf(Head(fifo))
    /\ owed' = Head(fifo)
    /\ wpc' = "frame"
    /\ UNCHANGED <<page, mode, requests, reading, stop_num, counter, name,
                   diskVars, processVars>>

\* The next frame of the camera is copied and named.
TakeFrame ==
    /\ wpc = "frame"
    /\ name' = [time |-> time, number |-> counter]
    /\ counter' = counter + 1
    /\ wpc' = "save"
    /\ UNCHANGED <<pageVars, reading, flags, stop_num, owed, diskVars,
                   processVars>>

SavePicture ==
    /\ wpc = "save"
    /\ Len(album) < MaxPictures
    /\ files' = files \cup {name}
    /\ album' = Append(album, name)
    /\ wpc' = "maintain"
    /\ UNCHANGED <<pageVars, exists, reading, flags, stop_num, counter, name, owed,
                   processVars>>

\* The file cannot be opened: the thread returns, the process goes on without it.
OpenFails ==
    /\ wpc = "save"
    /\ wpc' = "ended"
    /\ UNCHANGED <<pageVars, diskVars, reading, flags, stop_num, counter, name,
                   owed, processVars>>

\* The disk is full: the thread returns and leaves an empty file.
WriteFails ==
    /\ wpc = "save"
    /\ Len(album) < MaxPictures
    /\ files' = files \cup {name}
    /\ album' = Append(album, name)
    /\ wpc' = "ended"
    /\ UNCHANGED <<pageVars, exists, reading, flags, stop_num, counter, name, owed,
                   processVars>>

Newest(size) ==
    {n \in files : Cardinality({m \in files : Older(n, m)}) < size}

maintain_ringbuffer(size) == IF size < 0 THEN files ELSE Newest(size)

CleanupDue ==
    \/ ringbuffer_exceed <= 0
    \/ counter = 1
    \/ counter % (ringbuffer_exceed + 1) = 0

Maintain ==
    /\ wpc = "maintain"
    /\ files' = IF CleanupDue THEN maintain_ringbuffer(ringbuffer_size) ELSE files
    /\ wpc' = "count"
    /\ UNCHANGED <<pageVars, exists, album, reading, flags, stop_num, counter, name,
                   owed, processVars>>

\* Mutant of Enough: one picture too early.
EnoughEarly(f, n) ==
    \/ f = 1
    \/ f = 2 /\ n = 2
    \/ f = 3 /\ n = 4
    \/ f = 5 /\ n = 6

\* When the worker is done with a command; lines 407 and 415 both test for 5.
Enough(f, n) ==
    \/ f = 1
    \/ f = 2 /\ n = 3
    \/ f = 3 /\ n = 5
    \/ f = 5 /\ n = 7

Count ==
    /\ wpc = "count"
    /\ LET done == Enough(flags, stop_num + 1)
       IN  /\ stop_num' = IF done THEN 0 ELSE stop_num + 1
           /\ flags' = IF done THEN 0 ELSE flags
    /\ owed' = owed - 1
    /\ wpc' = IF stop THEN "ended" ELSE IF flags' = 0 THEN "command" ELSE "frame"
    /\ UNCHANGED <<pageVars, reading, counter, name, diskVars, processVars>>

----------------------------------------------------------------------------
(* mjpg_streamer.c *)

Interrupt ==
    /\ wpc # "down"
    /\ ~stop
    /\ stop' = TRUE
    /\ UNCHANGED <<pageVars, workerVars, diskVars, time, starts, optionVars>>

\* output_stop, a second after SIGINT, wherever the worker is.
Cancel ==
    /\ stop
    /\ wpc \notin {"down", "ended"}
    /\ time < MaxTime
    /\ time' = time + 1
    /\ wpc' = "ended"
    /\ UNCHANGED <<pageVars, reading, flags, stop_num, counter, name, owed,
                   diskVars, stop, starts, optionVars>>

\* Mutant of Exit: the process ends without its second of sleep.
ExitAtOnce ==
    /\ stop
    /\ wpc = "ended"
    /\ wpc' = "down"
    /\ reading' = FALSE
    /\ fifo' = IF \E p \in Page : page[p] \in {"writing", "closing"} THEN fifo ELSE <<>>
    /\ UNCHANGED <<page, mode, requests, flags, stop_num, counter, name, owed,
                   diskVars, processVars>>

\* The second of sleep after output_stop, and the exit.
Exit ==
    /\ stop
    /\ wpc = "ended"
    /\ time < MaxTime
    /\ time' = time + 1
    /\ wpc' = "down"
    /\ reading' = FALSE
    /\ fifo' = IF \E p \in Page : page[p] \in {"writing", "closing"} THEN fifo ELSE <<>>
    /\ UNCHANGED <<page, mode, requests, flags, stop_num, counter, name, owed,
                   diskVars, stop, starts, optionVars>>

Start ==
    /\ wpc = "down"
    /\ starts < MaxStarts
    /\ starts' = starts + 1
    /\ wpc' = "create"
    /\ stop' = FALSE
    /\ flags' = 0
    /\ stop_num' = 0
    /\ counter' = 0
    /\ owed' = 0
    /\ \E o \in Options : ringbuffer_size' = o[1] /\ ringbuffer_exceed' = o[2]
    /\ UNCHANGED <<pageVars, reading, name, diskVars, time>>

Tick ==
    /\ time < MaxTime
    /\ time' = time + 1
    /\ UNCHANGED <<pageVars, workerVars, diskVars, stop, starts, optionVars>>

----------------------------------------------------------------------------
PageStep(p) == PageOpen(p) \/ PageWrite(p) \/ PageWriteNothing(p) \/ PageExit(p)

WorkerStep ==
    \/ CreateFifo \/ OpenFifo \/ ReadCommand \/ TakeFrame \/ SavePicture
    \/ Maintain \/ Count

Next ==
    \/ \E p \in Page : (\E m \in Modes : Request(p, m)) \/ PageStep(p)
    \/ WorkerStep \/ OpenFails \/ WriteFails
    \/ Interrupt \/ Cancel \/ Exit \/ Start \/ Tick

Spec == Init /\ [][Next]_vars

\* The camera delivers frames, and every process that can go on does.
Fairness ==
    /\ WF_vars(~stop /\ WorkerStep)
    /\ \A p \in Page : WF_vars(PageStep(p))

FairSpec == Spec /\ Fairness

----------------------------------------------------------------------------
(* Properties *)

TypeOK ==
    /\ page \in [Page -> PageLabels]
    /\ mode \in [Page -> Modes \cup {0}]
    /\ fifo \in Seq(Modes \ {0})
    /\ Len(fifo) <= FifoSize
    /\ requests \in 0..MaxRequests
    /\ exists \in BOOLEAN
    /\ files \subseteq Name
    /\ album \in Seq(Name)
    /\ reading \in BOOLEAN
    /\ wpc \in WorkerLabels
    /\ flags \in 0..5
    /\ stop_num \in Nat
    /\ counter \in Nat
    /\ name \in Name
    /\ owed \in Int
    /\ stop \in BOOLEAN
    /\ time \in 0..MaxTime
    /\ starts \in 1..MaxStarts
    /\ <<ringbuffer_size, ringbuffer_exceed>> \in Options

\* "The command takes one picture, three, five, seven, nine" (lines 208-214): the
\* worker never takes a picture that nobody asked for, unless it is at the
\* command for seven, which no line ends.
Endless == flags = FlagOf(7)
NoMoreThanAsked ==
    wpc \in {"frame", "save", "maintain", "count"} /\ ~Endless => owed >= 1

\* It turns to the next command only when all pictures of the last one are taken,
\* but for two of the nine (line 407).
NoFewerThanAsked == wpc = "command" => owed = 0 \/ (owed = 2 /\ 9 \in Modes)

\* A command takes the number of pictures that its page asked for.
AsManyAsAsked == NoMoreThanAsked /\ NoFewerThanAsked

\* maintain_ringbuffer (lines 140-141) "deletes oldest files, just keeps size most
\* recent files": what is on disk is the end of everything that was ever saved, over
\* restarts of the process, whose counter begins with 0 again.
KeepsSuffix ==
    \E k \in 0..Len(album) : files = {album[i] : i \in k + 1..Len(album)}

\* The picture taken last is on disk, unless none is ever to be kept.
KeepsNewest ==
    (\A o \in Options : o[1] # 0) /\ album # <<>> => album[Len(album)] \in files

\* Once a process has cleaned up for the first time (lines 372-378), there are never
\* more than ringbuffer_size + ringbuffer_exceed pictures on disk,
\* but for the one just saved.
RingBounded ==
    /\ ringbuffer_size >= 0
    /\ counter >= 1
    /\ wpc \in {"command", "frame", "count"}
    => Cardinality(files) <=
           ringbuffer_size + IF ringbuffer_exceed > 0 THEN ringbuffer_exceed ELSE 0

\* What is on disk, whenever and however often the process was restarted.
SnapshotInv == TypeOK /\ KeepsSuffix /\ KeepsNewest /\ RingBounded

\* The end of the life of the worker.
Over == stop \/ wpc = "ended"

\* A page that writes to a full FIFO gets through, unless the worker is at that command.
PageThrough ==
    \A p \in Page : page[p] = "writing"
        ~> page[p] # "writing" \/ Over \/ Endless \/ Len(album) = MaxPictures
============================================================================
