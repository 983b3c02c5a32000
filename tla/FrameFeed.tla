------------------------------ MODULE FrameFeed ------------------------------
(***************************************************************************)
(* What mjpg-streamer promises to its outputs: whenever an output asks, it *)
(* gets all of what is published last, and something later than it took    *)
(* before.  Bytes, size and time stamp are numbers of frames.  A frame is  *)
(* published once, under its own stamp and in the order of the camera;     *)
(* when it is no picture, with no bytes (size 0) or with earlier ones.     *)
(***************************************************************************)
EXTENDS Naturals

CONSTANTS
    Output,   \* the threads that take frames
    Frame     \* the numbers of the frames, in the order of the camera

VARIABLES
    published,   \* what is published last
    taken,       \* what each output took last
    status       \* whether an output wants a frame, is busy with one, or gone

feedVars == <<published, taken, status>>

Number == Frame \cup {0}
Nothing == [bytes |-> 0, size |-> 0, stamp |-> 0]

Init ==
    /\ published = Nothing
    /\ taken = [o \in Output |-> Nothing]
    /\ status = [o \in Output |-> "busy"]

Publish(p) ==
    /\ p.stamp > published.stamp
    /\ \/ p.size = 0 /\ p.bytes = published.bytes
       \/ p.size = p.stamp /\ published.bytes <= p.bytes /\ p.bytes <= p.stamp
    /\ published' = p
    /\ UNCHANGED <<taken, status>>

Change(o, from, to) ==
    /\ status[o] = from
    /\ status' = [status EXCEPT ![o] = to]

Ask(o) ==
    /\ Change(o, "busy", "wanting")
    /\ UNCHANGED <<published, taken>>

Take(o) ==
    /\ Change(o, "wanting", "busy")
    /\ published.stamp > taken[o].stamp
    /\ taken' = [taken EXCEPT ![o] = published]
    /\ UNCHANGED published

Go(o) ==
    /\ Change(o, "busy", "gone") \/ Change(o, "wanting", "gone")
    /\ UNCHANGED <<published, taken>>

\* A new output has taken nothing yet.
Join(o) ==
    /\ Change(o, "gone", "busy")
    /\ taken' = [taken EXCEPT ![o] = Nothing]
    /\ UNCHANGED published

Next ==
    \/ \E p \in [bytes : Number, size : Number, stamp : Frame] : Publish(p)
    \/ \E o \in Output : Ask(o) \/ Take(o) \/ Go(o) \/ Join(o)

Spec == Init /\ [][Next]_feedVars
==============================================================================
