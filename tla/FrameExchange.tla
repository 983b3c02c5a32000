---------------------------- MODULE FrameExchange ----------------------------
(***************************************************************************)
(* How mjpg-streamer hands the frames of the camera to its outputs.  The   *)
(* camera thread of input_uvc takes filled buffers from the driver, copies *)
(* each frame into the global buffer under the mutex db and wakes everyone *)
(* who waits on db_update; the worker of output_file and one thread for    *)
(* each client of output_http wait there and copy the frame for            *)
(* themselves.  SIGINT stops the threads and frees what they share.        *)
(*                                                                         *)
(* A frame is the number of its capture, from 1.  The bytes, the size and  *)
(* the time stamp of the global buffer are three variables, for they are   *)
(* written and read one after the other; size 0 is that of no bytes.       *)
(***************************************************************************)
EXTENDS Naturals, Sequences, FiniteSets

CONSTANTS
    Worker,     \* the worker of output_file, cancelled at the end
    Stream,     \* clients that are sent a stream
    Single,     \* clients that are sent one picture
    NB_BUFFER,  \* buffers that the driver and the camera thread share
    Kinds,      \* the kinds of frames that the camera delivers
    MinimumSizes, \* what minimum_size may be set to, 0 without the option -m
    MaxFrames,  \* bound on the frames ever captured
    MayStop     \* whether SIGINT comes

Output == Worker \cup Stream \cup Single
Frame == 1..MaxFrames
Nobody == "nobody"
Camera == "camera"

\* How much of its buffer a frame uses: up to HEADERFRAME1 bytes, more but less than a
\* picture, or as much.  A "broken" one has no Huffman table and no SOF marker.
BytesUsed == [void |-> 0, empty |-> 1, small |-> 2, broken |-> 3, picture |-> 3]

ASSUME FrameExchangeAssumption ==
    /\ Nobody \notin Output
    /\ Camera \notin Output
    /\ NB_BUFFER \in Nat \ {0}
    /\ Kinds \subseteq DOMAIN BytesUsed
    /\ MinimumSizes \subseteq 0..3
    /\ MaxFrames \in Nat
    /\ MayStop \in BOOLEAN

VARIABLES
    minimum_size, \* what is smaller is dropped
    captured,   \* the kind of each frame ever captured
    queued,     \* empty buffers that the driver has
    filled,     \* the filled ones, in order
    lost,       \* those that came back empty and were not queued again
    cpc,        \* program counter of the camera thread
    used,       \* the frame in vd->buf
    tmpbuffer,  \* the frame whose bytes are in tmpbuffer, 0 for zeros
    pos,        \* the frame whose size memcpy_picture has returned
    db,         \* who holds the mutex db
    buf,        \* the frame whose bytes are in the global buffer
    size,       \* the frame whose size is there
    timestamp,  \* the frame whose time stamp is there
    freed,      \* whether the global buffer is freed
    pc,         \* program counter of each output
    copy,       \* what each output took last: bytes, size and time stamp
    asked,      \* the frame published last when the output began to wait
    handler     \* how far signal_handler is

driverVars == <<minimum_size, captured, queued, filled, lost>>
cameraVars == <<cpc, used, tmpbuffer, pos>>
sharedVars == <<buf, size, timestamp, freed>>
outputVars == <<pc, copy, asked>>
vars == <<driverVars, cameraVars, db, sharedVars, outputVars, handler>>

NoFrame == [bytes |-> 0, size |-> 0, stamp |-> 0]
stop == handler # "waiting"

Init ==
    /\ minimum_size \in MinimumSizes
    /\ captured = <<>>
    /\ queued = NB_BUFFER
    /\ filled = <<>>
    /\ lost = 0
    /\ cpc = "top"
    /\ used = 0
    /\ tmpbuffer = 0
    /\ pos = 0
    /\ db = Nobody
    /\ buf = 0
    /\ size = 0
    /\ timestamp = 0
    /\ freed = FALSE
    /\ pc = [o \in Output |-> "busy"]
    /\ copy = [o \in Output |-> NoFrame]
    /\ asked = [o \in Output |-> 0]
    /\ handler = "waiting"

----------------------------------------------------------------------------
(* The camera and its driver *)

Capture(k) ==
    /\ Len(captured) < MaxFrames
    /\ queued > 0
    /\ captured' = Append(captured, k)
    /\ queued' = queued - 1
    /\ filled' = Append(filled, Len(captured'))
    /\ UNCHANGED <<minimum_size, lost, cameraVars, db, sharedVars, outputVars, handler>>

----------------------------------------------------------------------------
(* cam_thread *)

Top ==
    /\ cpc = "top"
    /\ ~stop
    /\ cpc' = "grab"
    /\ UNCHANGED <<driverVars, used, tmpbuffer, pos, db, sharedVars, outputVars, handler>>

\* cam_cleanup frees the global buffer without db.
Leave ==
    /\ cpc = "top"
    /\ stop
    /\ cpc' = "ended"
    /\ freed' = TRUE
    /\ UNCHANGED <<driverVars, used, tmpbuffer, pos, db, buf, size, timestamp, outputVars,
                   handler>>

\* Zeros are no picture either.
Kind(f) == IF f = 0 THEN "broken" ELSE captured[f]
IsEmpty(f) == Kind(f) \in {"void", "empty"}
TooSmall(f) == BytesUsed[Kind(f)] < minimum_size

\* Mutant of uvcGrab: the buffer of a dropped frame is queued a second time.
uvcGrabTwice ==
    /\ cpc = "grab"
    /\ filled # <<>>
    /\ LET f == Head(filled)
       IN  /\ filled' = Tail(filled)
           /\ used' = f
           /\ queued' = IF TooSmall(f) THEN queued + 2 ELSE queued + 1
           /\ tmpbuffer' = f
           /\ cpc' = IF TooSmall(f) THEN "top" ELSE "lock"
    /\ UNCHANGED <<minimum_size, captured, lost, pos, db, sharedVars, outputVars, handler>>

\* Of an empty buffer nothing is copied, and it is not queued again, but the
\* thread goes on with the size and time stamp of it.
uvcGrab ==
    /\ cpc = "grab"
    /\ filled # <<>>
    /\ LET f == Head(filled)
       IN  /\ filled' = Tail(filled)
           /\ used' = f
           /\ \/ /\ IsEmpty(f)
                 /\ lost' = lost + 1
                 /\ UNCHANGED <<queued, tmpbuffer>>
              \/ /\ ~IsEmpty(f)
                 /\ queued' = queued + 1
                 /\ tmpbuffer' = f
                 /\ UNCHANGED lost
           /\ cpc' = IF TooSmall(f) THEN "top" ELSE "lock"
    /\ UNCHANGED <<minimum_size, captured, pos, db, sharedVars, outputVars, handler>>

\* Mutant of Lock: the camera thread does not wait for the mutex.
LockNot ==
    /\ cpc = "lock"
    /\ cpc' = "copy"
    /\ UNCHANGED <<driverVars, used, tmpbuffer, pos, db, sharedVars, outputVars, handler>>

Lock ==
    /\ cpc = "lock"
    /\ db = Nobody
    /\ db' = Camera
    /\ cpc' = "copy"
    /\ UNCHANGED <<driverVars, used, tmpbuffer, pos, sharedVars, outputVars, handler>>

\* Nothing is copied of a broken frame, and of the few bytes that an empty one lets it
\* look at perhaps nothing either.
memcpy_picture ==
    /\ cpc = "copy"
    /\ \/ /\ Kind(tmpbuffer) # "broken"
          /\ buf' = tmpbuffer
          /\ pos' = used
       \/ /\ Kind(tmpbuffer) = "broken" \/ IsEmpty(used)
          /\ pos' = 0
          /\ UNCHANGED buf
    /\ cpc' = "size"
    /\ UNCHANGED <<driverVars, used, tmpbuffer, db, size, timestamp, freed, outputVars,
                   handler>>

SetSize ==
    /\ cpc = "size"
    /\ size' = pos
    /\ cpc' = "stamp"
    /\ UNCHANGED <<driverVars, used, tmpbuffer, pos, db, buf, timestamp, freed, outputVars,
                   handler>>

\* Mutant of Broadcast: only one of the outputs is woken.
Signal ==
    /\ cpc = "stamp"
    /\ timestamp' = used
    /\ \/ \E o \in Output : pc[o] = "waiting" /\ pc' = [pc EXCEPT ![o] = "woken"]
       \/ (\A o \in Output : pc[o] # "waiting") /\ UNCHANGED pc
    /\ cpc' = "unlock"
    /\ UNCHANGED <<driverVars, used, tmpbuffer, pos, db, buf, size, freed, copy, asked,
                   handler>>

Broadcast ==
    /\ cpc = "stamp"
    /\ timestamp' = used
    /\ pc' = [o \in Output |-> IF pc[o] = "waiting" THEN "woken" ELSE pc[o]]
    /\ cpc' = "unlock"
    /\ UNCHANGED <<driverVars, used, tmpbuffer, pos, db, buf, size, freed, copy, asked,
                   handler>>

Unlock ==
    /\ cpc = "unlock"
    /\ db' = Nobody
    /\ cpc' = "top"
    /\ UNCHANGED <<driverVars, used, tmpbuffer, pos, sharedVars, outputVars, handler>>

----------------------------------------------------------------------------
(* worker_thread, send_stream and send_snapshot *)

\* Mutant of Await: an output takes a frame that is there without waiting.
AwaitNot(o) ==
    /\ pc[o] = "busy"
    /\ o \in Stream => ~stop
    /\ o \in Single => copy[o] = NoFrame
    /\ db = Nobody
    /\ pc' = [pc EXCEPT ![o] = IF timestamp = 0 THEN "waiting" ELSE "woken"]
    /\ asked' = [asked EXCEPT ![o] = timestamp]
    /\ UNCHANGED <<driverVars, cameraVars, db, sharedVars, copy, handler>>

\* The mutex is taken and released by pthread_cond_wait; only the loop of a
\* stream looks at stop, and only one picture is sent to a Single.
Await(o) ==
    /\ pc[o] = "busy"
    /\ o \in Stream => ~stop
    /\ o \in Single => copy[o] = NoFrame
    /\ db = Nobody
    /\ pc' = [pc EXCEPT ![o] = "waiting"]
    /\ asked' = [asked EXCEPT ![o] = timestamp]
    /\ UNCHANGED <<driverVars, cameraVars, db, sharedVars, copy, handler>>

\* pthread_cond_wait returns with the mutex.
Wake(o) ==
    /\ pc[o] = "woken"
    /\ db = Nobody
    /\ db' = o
    /\ pc' = [pc EXCEPT ![o] = "size"]
    /\ UNCHANGED <<driverVars, cameraVars, sharedVars, copy, asked, handler>>

\* The worker of output_file takes no time stamp.
ReadSize(o) ==
    /\ pc[o] = "size"
    /\ copy' = [copy EXCEPT ![o].size = size, ![o].stamp = timestamp]
    /\ pc' = [pc EXCEPT ![o] = "copy"]
    /\ UNCHANGED <<driverVars, cameraVars, db, sharedVars, asked, handler>>

\* No memory for a frame of that size: the thread ends.
NoMemory(o) ==
    /\ pc[o] = "size"
    /\ db' = Nobody
    /\ pc' = [pc EXCEPT ![o] = "ended"]
    /\ UNCHANGED <<driverVars, cameraVars, sharedVars, copy, asked, handler>>

\* memcpy, and the unlock.
CopyFrame(o) ==
    /\ pc[o] = "copy"
    /\ copy' = [copy EXCEPT ![o].bytes = buf]
    /\ pc' = [pc EXCEPT ![o] = "busy"]
    /\ db' = Nobody
    /\ UNCHANGED <<driverVars, cameraVars, sharedVars, asked, handler>>

\* The client is gone, or its picture is sent.
Close(o) ==
    /\ pc[o] = "busy"
    /\ o \in Stream \cup Single
    /\ pc' = [pc EXCEPT ![o] = "ended"]
    /\ UNCHANGED <<driverVars, cameraVars, db, sharedVars, copy, asked, handler>>

\* A new client is served by a new thread.
Connect(o) ==
    /\ pc[o] = "ended"
    /\ o \in Stream \cup Single
    /\ ~stop
    /\ pc' = [pc EXCEPT ![o] = "busy"]
    /\ copy' = [copy EXCEPT ![o] = NoFrame]
    /\ asked' = [asked EXCEPT ![o] = 0]
    /\ UNCHANGED <<driverVars, cameraVars, db, sharedVars, handler>>

----------------------------------------------------------------------------
(* signal_handler *)

Interrupt ==
    /\ MayStop
    /\ handler = "waiting"
    /\ handler' = "stopping"
    /\ UNCHANGED <<driverVars, cameraVars, db, sharedVars, outputVars>>

\* A second later the threads of the plugins are cancelled; the camera thread has
\* nothing to be cancelled at.
StopPlugins ==
    /\ handler = "stopping"
    /\ handler' = "cancelling"
    /\ UNCHANGED <<driverVars, cameraVars, db, sharedVars, outputVars>>

\* db and db_update are destroyed.
Destroy ==
    /\ handler = "cancelling"
    /\ handler' = "destroyed"
    /\ UNCHANGED <<driverVars, cameraVars, db, sharedVars, outputVars>>

\* A worker that is cancelled in pthread_cond_wait takes the mutex, and its
\* cleanup does not give it back.
CancelWaiting(o) ==
    /\ handler = "cancelling"
    /\ o \in Worker
    /\ pc[o] \in {"waiting", "woken"}
    /\ db = Nobody
    /\ db' = o
    /\ pc' = [pc EXCEPT ![o] = "ended"]
    /\ UNCHANGED <<driverVars, cameraVars, sharedVars, copy, asked, handler>>

CancelBusy(o) ==
    /\ handler = "cancelling"
    /\ o \in Worker
    /\ pc[o] = "busy"
    /\ pc' = [pc EXCEPT ![o] = "ended"]
    /\ UNCHANGED <<driverVars, cameraVars, db, sharedVars, copy, asked, handler>>

----------------------------------------------------------------------------
CameraStep ==
    \/ Top \/ Leave \/ uvcGrab \/ Lock \/ memcpy_picture \/ SetSize \/ Broadcast
    \/ Unlock

Take(o) == Wake(o) \/ ReadSize(o) \/ CopyFrame(o)

Step ==
    \/ \E k \in Kinds : Capture(k)
    \/ CameraStep
    \/ \E o \in Output :
          \/ Await(o) \/ Take(o) \/ NoMemory(o) \/ Close(o) \/ Connect(o)
          \/ CancelWaiting(o) \/ CancelBusy(o)
    \/ Interrupt \/ StopPlugins \/ Destroy

\* What the threads do with a destroyed mutex, in the second that is left, is
\* undefined.
Next == handler # "destroyed" /\ Step

Spec == Init /\ [][Next]_vars

\* The camera captures, its thread goes on, and the mutex, which nobody keeps
\* for longer than it takes to copy a frame, comes to everyone who waits for it.
FairSpec ==
    /\ Spec
    /\ WF_vars(\E k \in Kinds : Capture(k))
    /\ WF_vars(CameraStep)
    /\ \A o \in Output : SF_vars(Wake(o)) /\ WF_vars(Take(o))
----------------------------------------------------------------------------
(* Properties *)

TypeOK ==
    /\ minimum_size \in MinimumSizes
    /\ captured \in Seq(Kinds) /\ Len(captured) <= MaxFrames
    /\ queued \in 0..NB_BUFFER
    /\ lost \in 0..NB_BUFFER
    /\ filled \in Seq(Frame)
    /\ cpc \in {"top", "grab", "lock", "copy", "size", "stamp", "unlock", "ended"}
    /\ {used, tmpbuffer, pos, buf, size, timestamp} \subseteq 0..Len(captured)
    /\ db \in Output \cup {Camera, Nobody}
    /\ freed \in BOOLEAN
    /\ pc \in [Output -> {"busy", "waiting", "woken", "size", "copy", "ended"}]
    /\ copy \in [Output -> [bytes : 0..MaxFrames, size : 0..MaxFrames,
                            stamp : 0..MaxFrames]]
    /\ asked \in [Output -> 0..MaxFrames]
    /\ handler \in {"waiting", "stopping", "cancelling", "destroyed"}

\* p is what one frame becomes when it is published: a picture as a whole; a broken one
\* as no bytes; an empty one as no bytes or as the head, in its size, of what came before.
IsWhole(p) ==
    /\ p.bytes <= p.stamp /\ p.size \in {0, p.stamp}
    /\ Kind(p.stamp) \in {"picture", "small"} => p.bytes = p.stamp /\ p.size = p.stamp
    /\ Kind(p.stamp) = "broken" => p.size = 0

\* What an output has taken is one publication: the bytes and the size (httpd.c,
\* send_snapshot and send_stream) belong to the time stamp that is sent with them.
WholeFrame == \A o \in Output : pc[o] = "busy" => IsWhole(copy[o])

\* "wait for a fresh frame" (httpd.c:311): the frame that an output takes was
\* published after it began to wait, although it waits without a predicate.
Fresh == \A o \in Output : pc[o] \in {"size", "copy"} => timestamp > asked[o]

\* Every output gets whole frames, and new ones.
WholeAndFresh == WholeFrame /\ Fresh

\* No buffer is lost between the driver and the camera thread with a frame that is
\* dropped for its size (input_uvc.c:392); an empty one takes its buffer away for good
\* (v4l2uvc.c:442).
BuffersKept == queued + Len(filled) + lost = NB_BUFFER

\* What is published, from memcpy_picture on, while the camera thread stores the rest.
Published ==
    [bytes |-> buf,
     size |-> IF cpc = "size" THEN pos ELSE size,
     stamp |-> IF cpc \in {"size", "stamp"} THEN used ELSE timestamp]

\* What an output has taken, from ReadSize on: the bytes follow under the same lock.
Taken(o) == IF pc[o] = "copy" THEN [copy[o] EXCEPT !.bytes = buf] ELSE copy[o]

\* Whether an output has asked for a frame that it does not have yet.
Wanting(o) ==
    CASE pc[o] \in {"busy", "copy"} -> "busy"
      [] pc[o] = "ended" -> "gone"
      [] OTHER -> "wanting"

\* Whenever an output asks, it gets all of what is published last, and something later
\* than it had before (worker_thread, send_stream).
Feed == INSTANCE FrameFeed WITH
    published <- Published,
    taken <- [o \in Output |-> Taken(o)],
    status <- [o \in Output |-> Wanting(o)]
Feeds == Feed!Spec

\* An output that waits while a frame that is not dropped is on its way is woken and gets
\* it, or a later one, however many others want it too.
OnItsWay == \E i \in DOMAIN filled : ~TooSmall(filled[i])
Served ==
    \A o \in Output :
        pc[o] = "waiting" /\ OnItsWay ~> pc[o] \in {"busy", "ended"} \/ stop

----------------------------------------------------------------------------
(* The inductive invariant behind WholeFrame, Fresh and Feeds *)

\* The driver hands out the frames in the order of the camera, each once.
FilledOK ==
    /\ used = Len(captured) - Len(filled)
    /\ \A i \in 1..Len(filled) : filled[i] = used + i

\* Who writes or reads the global buffer holds db.
LockOK ==
    /\ cpc \in {"copy", "size", "stamp", "unlock"} => db = Camera
    /\ \A o \in Output : pc[o] \in {"size", "copy"} => db = o

\* The frame on its way to the global buffer is newer than the one in it, and its bytes
\* are not older.
StampOK ==
    /\ buf <= tmpbuffer /\ tmpbuffer <= used /\ timestamp <= used
    /\ cpc \in {"lock", "copy", "size", "stamp"} => timestamp < used

\* Bytes, size and time stamp are those of one publication, if what is still to be stored
\* is taken from the camera thread.
GlobalOK ==
    /\ cpc \in {"lock", "copy"} /\ ~IsEmpty(used) => tmpbuffer = used
    /\ IsWhole(Published)

\* An output is woken by a frame published after it began to wait.
AskedOK ==
    \A o \in Output :
        /\ asked[o] <= timestamp
        /\ pc[o] \in {"woken", "size", "copy"} => asked[o] < timestamp

\* What an output has taken is whole, and older than what it waits for.
CopyOK ==
    \A o \in Output :
        /\ IsWhole(Taken(o))
        /\ pc[o] = "copy" => copy[o].size = size /\ copy[o].stamp = timestamp
        /\ copy[o].stamp <= timestamp
        /\ pc[o] \in {"waiting", "woken", "size"} => copy[o].stamp <= asked[o]

FrameInv ==
    TypeOK /\ BuffersKept /\ FilledOK /\ LockOK /\ StampOK /\ GlobalOK /\ AskedOK /\ CopyOK
=============================================================================
