----------------------------- MODULE MCSnapshot -----------------------------
(***************************************************************************)
(* Snapshot for TLC: requests for three pictures or with an unknown mode   *)
(* by two pages at a time, and last, when nothing else is going on, one    *)
(* for seven.                                                              *)
(***************************************************************************)
EXTENDS Snapshot

\* The default of output_file, no ring buffer, and one picture with two more.
RingOrNone == {<<-1, 0>>, <<1, 2>>}

Quiet == flags = 0 /\ fifo = <<>> /\ \A p \in Page : page[p] = "idle"

Within ==
    \A p \in Page :
        mode[p] # 7 /\ mode'[p] = 7 => Quiet /\ requests' = MaxRequests

Snapshots == Init /\ [][Next /\ Within]_vars /\ Fairness
============================================================================
