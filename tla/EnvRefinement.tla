--------------------------- MODULE EnvRefinement ---------------------------
(***************************************************************************)
(* In one life of the monitor, EnvExchange implements EnvBoard: although   *)
(* the sample is copied into the shared memory and read out of it in two   *)
(* halves, every page displays one whole slot.                             *)
(***************************************************************************)
EXTENDS EnvExchange

CONSTANTS None, Busy

ASSUME BoardValues == None \notin Sample /\ Busy \notin Sample /\ None # Busy

\* The board is being rewritten between the two halves of the copy, and has
\* nothing on it until shm_status is set.
Published ==
    IF pc[Monitor] = "r_zig" THEN Busy
    ELSE IF shm.status # 1 THEN None
    ELSE [zig |-> shm.zig, a9 |-> shm.a9]

\* A page displays its sample once both halves are read, until it lets go of
\* the slot.
Displayed ==
    [c \in Cgi |-> IF pc[c] = "c_vmutex" THEN page[c] ELSE None]

Board == INSTANCE EnvBoard WITH
    Client <- Cgi, slot <- Published, shown <- Displayed

\* Reading and writing the slot under the semaphores is atomic to the pages
\* (pthread_refresh.c:93-98 against env1.c:69-106).
ImplementsBoard == Board!Spec
============================================================================
