--------------------------- MODULE CommandStream ---------------------------
(***************************************************************************)
(* What the dispatch of commands promises: a device acts upon commands     *)
(* that were issued, for this device, and in the order in which they were  *)
(* issued.  It may skip a command; it never goes back to an earlier one.   *)
(***************************************************************************)
EXTENDS Naturals, Sequences

CONSTANTS
    Device,     \* those that act
    Addressee   \* those a command can be for

VARIABLES
    issued,     \* the addressee of each command, in the order of issue
    last        \* the command each device acted upon last, 0 if none

vars == <<issued, last>>

Init ==
    /\ issued = <<>>
    /\ last = [d \in Device |-> 0]

Issue(a) ==
    /\ issued' = Append(issued, a)
    /\ UNCHANGED last

Execute(d, i) ==
    /\ issued[i] = d
    /\ i > last[d]
    /\ last' = [last EXCEPT ![d] = i]
    /\ UNCHANGED issued

Next ==
    \/ \E a \in Addressee : Issue(a)
    \/ \E d \in Device, i \in 1..Len(issued) : Execute(d, i)

Spec == Init /\ [][Next]_vars
============================================================================
