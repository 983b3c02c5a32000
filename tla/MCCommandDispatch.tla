------------------------- MODULE MCCommandDispatch -------------------------
(***************************************************************************)
(* CommandDispatch for TLC.  Two CGIs send at the same time in the first   *)
(* life of the monitor.  One wakeup without a signal is tried in that      *)
(* life, which then goes on with one CGI at a time; behaviours with a      *)
(* restart have none.                                                      *)
(***************************************************************************)
EXTENDS CommandDispatch

OneAtATime == \E c \in Sender : \A e \in Sender \ {c} : sending[e] = "none"

Within ==
    /\ \A d \in Device : SpuriousWakeup(d) => ~spurious /\ boots = 1
    /\ spurious => Up'
    /\ spurious' \/ boots' = 2 => OneAtATime'

Dispatching == Init /\ [][Next /\ Within]_vars /\ Fairness
============================================================================
