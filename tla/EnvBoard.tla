------------------------------ MODULE EnvBoard ------------------------------
(***************************************************************************)
(* What the environment exchange promises to the pages: a notice board     *)
(* that holds one sample.  The sample is replaced as a whole, and a page   *)
(* displays, as a whole, the sample on the board at that moment; nothing   *)
(* can be displayed while the board is being rewritten, nor before its     *)
(* first sample.                                                           *)
(***************************************************************************)
CONSTANTS
    Client,   \* the pages
    Sample,   \* what can be on the board
    None,     \* nothing yet
    Busy      \* being rewritten

VARIABLES
    slot,     \* what is on the board
    shown     \* what each page displays

vars == <<slot, shown>>

Init ==
    /\ slot = None
    /\ shown = [c \in Client |-> None]

Rewrite ==
    /\ slot # Busy
    /\ slot' = Busy
    /\ UNCHANGED shown

Publish ==
    /\ slot = Busy
    /\ slot' \in Sample
    /\ UNCHANGED shown

Show(c) ==
    /\ slot \in Sample
    /\ shown[c] = None
    /\ shown' = [shown EXCEPT ![c] = slot]
    /\ UNCHANGED slot

Withdraw(c) ==
    /\ shown[c] # None
    /\ shown' = [shown EXCEPT ![c] = None]
    /\ UNCHANGED slot

Next ==
    \/ Rewrite
    \/ Publish
    \/ \E c \in Client : Show(c) \/ Withdraw(c)

Spec == Init /\ [][Next]_vars
=============================================================================
