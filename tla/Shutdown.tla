------------------------------ MODULE Shutdown ------------------------------
(***************************************************************************)
(* What main.c's release_pthread_resource releases at SIGINT, and what the *)
(* System V objects of the monitor go through over several of its lives.   *)
(* The handler removes the message queue, the segment and the semaphore    *)
(* with the ids in the globals msgid, shmid and semid.  Nobody assigns     *)
(* these, as the threads keep their ids in variables of their own: the     *)
(* handler removes whatever has the id 0.                                  *)
(*                                                                         *)
(* The kernel numbers the objects of a type from 0 since its boot and does *)
(* not use an id again (before 65536 of them).  No other program of the    *)
(* board uses them.  The values of the semaphores are EnvExchange: here a  *)
(* P or V on a set that exists may succeed, and on a removed one it fails. *)
(***************************************************************************)
EXTENDS Integers

CONSTANTS
    Cgi,       \* the env1.cgi processes
    MaxLives   \* bound on the lives of the monitor

ASSUME ShutdownAssumption == MaxLives \in Nat \ {0}

None == -1
Key == {"queue", "mutex", "empty", "full", "segment"}
Type(k) == IF k = "queue" THEN "msg" ELSE IF k = "segment" THEN "shm" ELSE "sem"
KernelType == {"msg", "sem", "shm"}

VARIABLES
    next_id,  \* the id of the next object of each type
    object,   \* the id of the object with each key, or None
    has,      \* the ids that the monitor's threads work with
    fetched,  \* the ids that each page works with
    refresh,  \* program counter of the refresh thread
    handler,  \* progress of the handler, "none" before SIGINT
    cgi,      \* program counter of each page
    lives,    \* lives begun
    early,    \* whether SIGINT ever came before the refresh thread was in its loop
    removed   \* how many objects of each type handlers have removed

kernelVars == <<next_id, object>>
historyVars == <<lives, early, removed>>
shutdownVars == <<kernelVars, has, fetched, refresh, handler, cgi, historyVars>>

Nothing == [k \in Key |-> None]

ShutdownInit ==
    /\ next_id = [t \in KernelType |-> 0]
    /\ object = Nothing
    /\ has = Nothing
    /\ fetched = [c \in Cgi |-> Nothing]
    /\ refresh = "mutex"
    /\ handler = "none"
    /\ cgi = [c \in Cgi |-> "mutex"]
    /\ lives = 1
    /\ early = FALSE
    /\ removed = [t \in KernelType |-> 0]

Up == handler # "down"

----------------------------------------------------------------------------
(* The threads of the monitor *)

\* msgget, semget and shmget with IPC_CREAT: the object with this key, or a new one.
Create(k) ==
    \/ /\ object[k] # None
       /\ has' = [has EXCEPT ![k] = object[k]]
       /\ UNCHANGED kernelVars
    \/ /\ object[k] = None
       /\ object' = [object EXCEPT ![k] = next_id[Type(k)]]
       /\ has' = [has EXCEPT ![k] = next_id[Type(k)]]
       /\ next_id' = [next_id EXCEPT ![Type(k)] = @ + 1]

OpenQueue ==
    /\ Up
    /\ has["queue"] = None
    /\ Create("queue")
    /\ UNCHANGED <<fetched, refresh, handler, cgi, historyVars>>

AfterOpen(k) ==
    IF k = "mutex" THEN "empty"
    ELSE IF k = "empty" THEN "full"
    ELSE IF k = "full" THEN "segment" ELSE "p_mutex"

RefreshOpen ==
    /\ Up
    /\ refresh \in {"mutex", "empty", "full", "segment"}
    /\ Create(refresh)
    /\ refresh' = AfterOpen(refresh)
    /\ UNCHANGED <<fetched, handler, cgi, historyVars>>

\* P(empty) and V(full) are calls on sets that exist; see SemaphoresStay.
RefreshP ==
    /\ Up
    /\ refresh = "p_mutex"
    /\ has["mutex"] = object["mutex"]
    /\ refresh' = "write"
    /\ UNCHANGED <<kernelVars, has, fetched, handler, cgi, historyVars>>

RefreshV ==
    /\ Up
    /\ refresh = "write"
    /\ has["mutex"] = object["mutex"]
    /\ refresh' = "p_mutex"
    /\ UNCHANGED <<kernelVars, has, fetched, handler, cgi, historyVars>>

\* The end of the process: its threads stop wherever they are.
EndProcess ==
    /\ handler' = "down"
    /\ has' = Nothing
    /\ refresh' = "mutex"
    /\ UNCHANGED <<kernelVars, fetched, cgi>>

\* semop on the removed set: sem_p or sem_v calls exit(1).
RefreshFails ==
    /\ Up
    /\ refresh \in {"p_mutex", "write"}
    /\ has["mutex"] # object["mutex"]
    /\ EndProcess
    /\ UNCHANGED historyVars

----------------------------------------------------------------------------
(* release_pthread_resource: the other threads go on meanwhile *)

\* What becomes of the workers, whose mutexes and conditions are destroyed here, is left
\* out: the process ends with this handler.
Interrupt ==
    /\ handler = "none"
    /\ handler' = "msgctl"
    /\ early' = (early \/ refresh \notin {"p_mutex", "write"})
    /\ UNCHANGED <<kernelVars, has, fetched, refresh, cgi, lives, removed>>

\* Mutant of Remove: the ids that the threads use.
RemoveOwn(t, label, next) ==
    /\ handler = label
    /\ handler' = next
    /\ object' = [k \in Key |-> IF Type(k) = t THEN None ELSE object[k]]
    /\ removed' = [removed EXCEPT ![t] =
          @ + IF \E k \in Key : Type(k) = t /\ object[k] # None THEN 1 ELSE 0]
    /\ UNCHANGED <<next_id, has, fetched, refresh, cgi, lives, early>>

\* IPC_RMID of id 0.
Remove(t, label, next) ==
    /\ handler = label
    /\ handler' = next
    /\ object' = [k \in Key |-> IF Type(k) = t /\ object[k] = 0 THEN None ELSE object[k]]
    /\ removed' = [removed EXCEPT ![t] =
          @ + IF \E k \in Key : Type(k) = t /\ object[k] = 0 THEN 1 ELSE 0]
    /\ UNCHANGED <<next_id, has, fetched, refresh, cgi, lives, early>>

\* Mutant of RemoveSegment: the segment is left.
RemoveSegmentNot ==
    /\ handler = "shmctl"
    /\ handler' = "semctl"
    /\ UNCHANGED <<kernelVars, has, fetched, refresh, cgi, historyVars>>

RemoveQueue == Remove("msg", "msgctl", "shmctl")
RemoveSegment == Remove("shm", "shmctl", "semctl")
RemoveSemaphore == Remove("sem", "semctl", "exit")

Exit ==
    /\ handler = "exit"
    /\ EndProcess
    /\ UNCHANGED historyVars

Restart ==
    /\ handler = "down"
    /\ lives < MaxLives
    /\ lives' = lives + 1
    /\ handler' = "none"
    /\ UNCHANGED <<kernelVars, has, fetched, refresh, cgi, early, removed>>

----------------------------------------------------------------------------
(* env1.cgi *)

\* A new page is asked for as soon as the last one is finished.
PageEnds(c) ==
    /\ cgi' = [cgi EXCEPT ![c] = "mutex"]
    /\ fetched' = [fetched EXCEPT ![c] = Nothing]

\* semget and shmget without IPC_CREAT, in this order.
CgiOpen(c) ==
    /\ cgi[c] \in {"mutex", "empty", "full", "segment"}
    /\ LET k == cgi[c]
       IN  \/ /\ object[k] # None
              /\ fetched' = [fetched EXCEPT ![c][k] = object[k]]
              /\ cgi' = [cgi EXCEPT ![c] = AfterOpen(@)]
           \/ /\ object[k] = None
              /\ PageEnds(c)
    /\ UNCHANGED <<kernelVars, has, refresh, handler, historyVars>>

\* P(full) and P(mutex): the page may have waited for them through several lives.
CgiP(c) ==
    /\ cgi[c] = "p_mutex"
    /\ fetched[c]["mutex"] = object["mutex"]
    /\ cgi' = [cgi EXCEPT ![c] = "read"]
    /\ UNCHANGED <<kernelVars, has, fetched, refresh, handler, historyVars>>

\* The page is displayed; or its semaphore is gone, and exit(1) cuts it off.
CgiEnds(c) ==
    /\ \/ cgi[c] = "read"
       \/ cgi[c] = "p_mutex" /\ fetched[c]["mutex"] # object["mutex"]
    /\ PageEnds(c)
    /\ UNCHANGED <<kernelVars, has, refresh, handler, historyVars>>

----------------------------------------------------------------------------
ShutdownNext ==
    \/ OpenQueue \/ RefreshOpen \/ RefreshP \/ RefreshV \/ RefreshFails
    \/ Interrupt \/ RemoveQueue \/ RemoveSegment \/ RemoveSemaphore \/ Exit \/ Restart
    \/ \E c \in Cgi : CgiOpen(c) \/ CgiP(c) \/ CgiEnds(c)

ShutdownSpec == ShutdownInit /\ [][ShutdownNext]_shutdownVars

----------------------------------------------------------------------------
(* Properties *)

Id == Nat \cup {None}

\* The type invariant; an object's id is below the next one.
ShutdownTypeOK ==
    /\ next_id \in [KernelType -> Nat]
    /\ object \in [Key -> Id]
    /\ \A k \in Key : object[k] < next_id[Type(k)]
    /\ has \in [Key -> Id]
    /\ fetched \in [Cgi -> [Key -> Id]]
    /\ refresh \in {"mutex", "empty", "full", "segment", "p_mutex", "write"}
    /\ handler \in {"none", "msgctl", "shmctl", "semctl", "exit", "down"}
    /\ cgi \in [Cgi -> {"mutex", "empty", "full", "segment", "p_mutex", "read"}]
    /\ lives \in 1..MaxLives
    /\ early \in BOOLEAN
    /\ removed \in [KernelType -> Nat]

\* The handler (main.c:115-117) works once: however often the monitor is interrupted
\* and started again, it removes one queue, one segment and one semaphore since the
\* kernel booted.
RemovedOnce == \A t \in KernelType : removed[t] <= 1

\* Of the semaphores the handler can hit the mutex alone: whoever has fetched empty or
\* full, in whatever life, works with the sets that exist.
SemaphoresStay ==
    \A k \in {"empty", "full"} :
        /\ has[k] # None => object[k] = has[k]
        /\ \A c \in Cgi : fetched[c][k] # None => object[k] = fetched[c][k]

ShutdownInv == ShutdownTypeOK /\ RemovedOnce /\ SemaphoresStay

\* A page that is past its semaphores
Reads(c) == cgi[c] = "read"
InLoop == handler = "none" /\ refresh \in {"p_mutex", "write"}

\* As long as no monitor is interrupted before its refresh thread is in its loop, mutex
\* and segment go together (main.c:116-117): a page that gets in while a monitor runs
\* holds that monitor's mutex just when it reads the segment that the monitor writes.
TogetherUnlessEarly ==
    ~early => \A c \in Cgi :
        Reads(c) /\ InLoop =>
            (fetched[c]["mutex"] = has["mutex"] <=> fetched[c]["segment"] = has["segment"])
=============================================================================
