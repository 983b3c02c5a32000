---------------------------- MODULE EnvExchange ----------------------------
(***************************************************************************)
(* The exchange of environment samples between the monitor process         *)
(* (stage4_storage) and the env1.cgi processes of the web server: a shared *)
(* memory slot guarded by three System V semaphores, every operation of    *)
(* which carries SEM_UNDO.                                                 *)
(*                                                                         *)
(* The monitor contributes two threads.  The refresh thread (its program   *)
(* counter is pc[Monitor]) copies the last sample into the slot; the       *)
(* transfer thread (its program counter is tpc) collects the sample.  Each *)
(* env1.cgi process serves one page and exits, and a later request reuses  *)
(* its identifier.  A sample is named by the number of the transfer run    *)
(* that stored it, 0 meaning "never stored".                               *)
(*                                                                         *)
(* semop(2), exit(2) and semctl(2) are modelled at the granularity of the  *)
(* kernel: waiters queue first come first served, the token of a V goes to *)
(* the head of the queue, and the undo entries of an exiting process are   *)
(* applied one semaphore at a time, clamped at zero.                       *)
(***************************************************************************)
EXTENDS Integers, Sequences, FiniteSets

CONSTANTS
    Cgi,        \* the env1.cgi processes that may run at the same time
    Monitor,    \* the monitor process
    SEMVMX,     \* the kernel's limit on a semaphore and on an undo entry
    MaxBoots,   \* how often the monitor may be started
    MaxSample,  \* bound on the transfer runs of one life of the monitor
    Spurious    \* whether pthread_cond_wait may return without a signal

ASSUME EnvAssumption ==
    /\ Monitor \notin Cgi
    /\ SEMVMX \in Nat \ {0}
    /\ MaxBoots \in Nat \ {0}
    /\ MaxSample \in Nat
    /\ Spurious \in BOOLEAN

VARIABLES
    val,      \* value of each semaphore
    adj,      \* undo entry of each process for each semaphore
    queue,    \* processes blocked in semop, per semaphore, oldest first
    pc,       \* program counter of the refresh thread and of each CGI
    tpc,      \* program counter of the transfer thread
    env,      \* sm_all_env_info.monitor_no[home_id] in the monitor
    shm,      \* the shared memory slot
    page,     \* what the current or last page of each CGI displays
    boots,    \* how often the monitor was started
    overlap   \* whether some init_sem erased the undo entry of a holder

semVars == <<val, adj, queue>>
dataVars == <<env, shm, page>>
vars == <<val, adj, queue, pc, tpc, env, shm, page, boots, overlap>>

Sem == {"mutex", "empty", "full"}
Proc == Cgi \cup {Monitor}
Run == 0..MaxSample
Sample == [zig: Run, a9: Run]
\* shm_status is -1 while the segment does not exist
Slot == [status: {-1, 0, 1}, zig: Run, a9: Run]

RefreshLabels ==
    {"i_mutex", "i_empty", "i_full", "i_shm", "r_empty", "r_mutex", "r_a9",
     "r_zig", "r_vmutex", "r_vfull", "r_signal", "w_empty", "w_mutex",
     "exit", "down"}
CgiLabels ==
    {"idle", "c_full", "c_mutex", "c_zig", "c_a9", "c_vmutex", "c_vempty",
     "w_full", "w_mutex", "exit"}
TransferLabels == {"t_start", "t_wait", "t_zig", "t_a9", "t_sleep"}

Alive == pc[Monitor] \notin {"exit", "down"}

\* The parts of the two programs between P(mutex) and V(mutex).
RefreshCS == {"r_a9", "r_zig", "r_vmutex"}
CgiCS == {"c_zig", "c_a9", "c_vmutex"}
InCS(p) == pc[p] \in RefreshCS \cup CgiCS

Init ==
    /\ val = [s \in Sem |-> 0]
    /\ adj = [p \in Proc |-> [s \in Sem |-> 0]]
    /\ queue = [s \in Sem |-> <<>>]
    /\ pc = [p \in Proc |-> IF p = Monitor THEN "i_mutex" ELSE "idle"]
    /\ tpc = "t_start"
    /\ env = [zig |-> 0, a9 |-> 0]
    /\ shm = [status |-> -1, zig |-> 0, a9 |-> 0]
    /\ page = [c \in Cgi |-> [zig |-> 0, a9 |-> 0]]
    /\ boots = 1
    /\ overlap = FALSE

----------------------------------------------------------------------------
(* sem.c and the kernel's semaphores *)

\* The label of a process blocked on s, and the one it goes on at once it
\* has obtained s.
Waiting(s) == IF s = "mutex" THEN "w_mutex"
              ELSE IF s = "empty" THEN "w_empty" ELSE "w_full"

Obtained(p, s) ==
    IF s = "empty" THEN "r_mutex"
    ELSE IF s = "full" THEN "c_mutex"
    ELSE IF p = Monitor THEN "r_a9" ELSE "c_zig"

\* Mutants of SemP: without SEM_UNDO, and carrying on after ERANGE.
SemPWithoutUndo(p, s) ==
    \/ /\ val[s] > 0
       /\ val' = [val EXCEPT ![s] = @ - 1]
       /\ pc' = [pc EXCEPT ![p] = Obtained(p, s)]
       /\ UNCHANGED <<adj, queue>>
    \/ /\ val[s] = 0
       /\ queue' = [queue EXCEPT ![s] = Append(@, p)]
       /\ pc' = [pc EXCEPT ![p] = Waiting(s)]
       /\ UNCHANGED <<val, adj>>

SemPCarriesOn(p, s) ==
    \/ /\ val[s] > 0
       /\ adj[p][s] < SEMVMX
       /\ val' = [val EXCEPT ![s] = @ - 1]
       /\ adj' = [adj EXCEPT ![p][s] = @ + 1]
       /\ pc' = [pc EXCEPT ![p] = Obtained(p, s)]
       /\ UNCHANGED queue
    \/ /\ val[s] = 0
       /\ queue' = [queue EXCEPT ![s] = Append(@, p)]
       /\ pc' = [pc EXCEPT ![p] = Waiting(s)]
       /\ UNCHANGED <<val, adj>>

\* semop(-1) with SEM_UNDO.  The undo entry is checked after the value, and
\* an entry at its limit makes semop fail with ERANGE: sem_p calls exit(1).
SemP(p, s) ==
    \/ /\ val[s] > 0
       /\ adj[p][s] < SEMVMX
       /\ val' = [val EXCEPT ![s] = @ - 1]
       /\ adj' = [adj EXCEPT ![p][s] = @ + 1]
       /\ pc' = [pc EXCEPT ![p] = Obtained(p, s)]
       /\ UNCHANGED queue
    \/ /\ val[s] > 0
       /\ adj[p][s] = SEMVMX
       /\ pc' = [pc EXCEPT ![p] = "exit"]
       /\ UNCHANGED semVars
    \/ /\ val[s] = 0
       /\ queue' = [queue EXCEPT ![s] = Append(@, p)]
       /\ pc' = [pc EXCEPT ![p] = Waiting(s)]
       /\ UNCHANGED <<val, adj>>

\* Semaphore s rises by n > 0 when the undo entries have become `entries`:
\* the process that slept longest takes a token, or fails with ERANGE when
\* its own undo entry is full.  `labels` are the program counters so far.
Raise(s, n, entries, labels) ==
    \/ /\ queue[s] = <<>>
       /\ val' = [val EXCEPT ![s] = IF @ + n > SEMVMX THEN SEMVMX ELSE @ + n]
       /\ adj' = entries
       /\ pc' = labels
       /\ UNCHANGED queue
    \/ /\ queue[s] # <<>>
       /\ LET h == Head(queue[s])
              granted == entries[h][s] < SEMVMX
          IN  /\ queue' = [queue EXCEPT ![s] = Tail(@)]
              /\ val' = [val EXCEPT ![s] = IF granted THEN @ + n - 1 ELSE @ + n]
              /\ adj' = IF granted THEN [entries EXCEPT ![h][s] = @ + 1]
                                   ELSE entries
              /\ pc' = [labels EXCEPT ![h] =
                            IF granted THEN Obtained(h, s) ELSE "exit"]

\* Mutant of SemV: without SEM_UNDO.
SemVWithoutUndo(p, s, next) ==
    /\ val[s] < SEMVMX
    /\ Raise(s, 1, adj, [pc EXCEPT ![p] = next])

\* semop(+1) with SEM_UNDO; sem_v calls exit(1) when the value or the undo
\* entry would leave its range.
SemV(p, s, next) ==
    \/ /\ val[s] < SEMVMX
       /\ adj[p][s] >= -SEMVMX
       /\ Raise(s, 1, [adj EXCEPT ![p][s] = @ - 1], [pc EXCEPT ![p] = next])
    \/ /\ val[s] = SEMVMX \/ adj[p][s] < -SEMVMX
       /\ pc' = [pc EXCEPT ![p] = "exit"]
       /\ UNCHANGED semVars

\* init_sem: SETVAL discards the undo entries of every process.
InitSem(s, v, next) ==
    LET entries == [p \in Proc |-> [adj[p] EXCEPT ![s] = 0]]
        labels == [pc EXCEPT ![Monitor] = next]
        forget == [val EXCEPT ![s] = v]
    IN  \/ /\ v = 0 \/ queue[s] = <<>>
           /\ val' = forget
           /\ adj' = entries
           /\ pc' = labels
           /\ UNCHANGED queue
        \/ /\ v = 1 /\ queue[s] # <<>>
           /\ LET h == Head(queue[s])
              IN  /\ queue' = [queue EXCEPT ![s] = Tail(@)]
                  /\ val' = [forget EXCEPT ![s] = 0]
                  /\ adj' = [entries EXCEPT ![h][s] = 1]
                  /\ pc' = [labels EXCEPT ![h] = Obtained(h, s)]

Without(q, i) == SubSeq(q, 1, i - 1) \o SubSeq(q, i + 1, Len(q))

\* A process that leaves while it sleeps in semop is taken out of the queue.
Leave(p) ==
    /\ pc' = [pc EXCEPT ![p] = "exit"]
    /\ \/ \E s \in Sem : \E i \in 1..Len(queue[s]) :
             /\ queue[s][i] = p
             /\ queue' = [queue EXCEPT ![s] = Without(@, i)]
       \/ /\ \A s \in Sem : \A i \in 1..Len(queue[s]) : queue[s][i] # p
          /\ UNCHANGED queue
    /\ UNCHANGED <<val, adj>>

\* exit(2) applies one undo entry: a withdrawal stops at zero.
Undo(p, s) ==
    /\ pc[p] = "exit"
    /\ \/ /\ adj[p][s] < 0
          /\ val' = [val EXCEPT ![s] = IF @ + adj[p][s] < 0 THEN 0
                                       ELSE @ + adj[p][s]]
          /\ adj' = [adj EXCEPT ![p][s] = 0]
          /\ UNCHANGED <<queue, pc>>
       \/ /\ adj[p][s] > 0
          /\ Raise(s, adj[p][s], [adj EXCEPT ![p][s] = 0], pc)
    /\ UNCHANGED <<tpc, dataVars, boots, overlap>>

----------------------------------------------------------------------------
(* pthread_refresh.c *)

\* Mutant of InitMutex: two processes admitted.
InitMutexTwo ==
    /\ pc[Monitor] = "i_mutex"
    /\ InitSem("mutex", 2, "i_empty")
    /\ overlap' = (overlap \/ \E p \in Proc : adj[p]["mutex"] # 0)
    /\ UNCHANGED <<tpc, dataVars, boots>>

InitMutex ==
    /\ pc[Monitor] = "i_mutex"
    /\ InitSem("mutex", 1, "i_empty")
    /\ overlap' = (overlap \/ \E p \in Proc : adj[p]["mutex"] # 0)
    /\ UNCHANGED <<tpc, dataVars, boots>>

InitEmpty ==
    /\ pc[Monitor] = "i_empty"
    /\ InitSem("empty", 1, "i_full")
    /\ UNCHANGED <<tpc, dataVars, boots, overlap>>

InitFull ==
    /\ pc[Monitor] = "i_full"
    /\ InitSem("full", 0, "i_shm")
    /\ UNCHANGED <<tpc, dataVars, boots, overlap>>

\* shmget, shmat and bzero: not under the mutex.  monitor_no has one entry, so
\* bzero ends before monitor_no[1], the slot: it keeps the sample of an earlier
\* life.
InitShm ==
    /\ pc[Monitor] = "i_shm"
    /\ shm' = [shm EXCEPT !.status = 0]
    /\ pc' = [pc EXCEPT ![Monitor] = "r_empty"]
    /\ UNCHANGED <<semVars, tpc, env, page, boots, overlap>>

\* Mutant of RefreshP: the slot is written without the mutex.
RefreshPWithoutMutex ==
    /\ \/ pc[Monitor] = "r_empty" /\ SemP(Monitor, "empty")
       \/ /\ pc[Monitor] = "r_mutex"
          /\ pc' = [pc EXCEPT ![Monitor] = "r_a9"]
          /\ UNCHANGED semVars
    /\ UNCHANGED <<tpc, dataVars, boots, overlap>>

RefreshP ==
    /\ \/ pc[Monitor] = "r_empty" /\ SemP(Monitor, "empty")
       \/ pc[Monitor] = "r_mutex" /\ SemP(Monitor, "mutex")
    /\ UNCHANGED <<tpc, dataVars, boots, overlap>>

\* The structure assignment copies field by field, a9_info before
\* zigbee_info, without mutex_transfer.
RefreshCopyA9 ==
    /\ pc[Monitor] = "r_a9"
    /\ shm' = [shm EXCEPT !.status = 1, !.a9 = env.a9]
    /\ pc' = [pc EXCEPT ![Monitor] = "r_zig"]
    /\ UNCHANGED <<semVars, tpc, env, page, boots, overlap>>

RefreshCopyZig ==
    /\ pc[Monitor] = "r_zig"
    /\ shm' = [shm EXCEPT !.zig = env.zig]
    /\ pc' = [pc EXCEPT ![Monitor] = "r_vmutex"]
    /\ UNCHANGED <<semVars, tpc, env, page, boots, overlap>>

RefreshV ==
    /\ \/ pc[Monitor] = "r_vmutex" /\ SemV(Monitor, "mutex", "r_vfull")
       \/ pc[Monitor] = "r_vfull" /\ SemV(Monitor, "full", "r_signal")
    /\ UNCHANGED <<tpc, dataVars, boots, overlap>>

\* pthread_cond_signal wakes the transfer thread only if it is waiting.
RefreshSignal ==
    /\ pc[Monitor] = "r_signal"
    /\ tpc' = IF tpc = "t_wait" THEN "t_zig" ELSE tpc
    /\ pc' = [pc EXCEPT ![Monitor] = "r_empty"]
    /\ UNCHANGED <<semVars, dataVars, boots, overlap>>

----------------------------------------------------------------------------
(* pthread_transfer.c *)

\* Mutant of TransferWait: no wait for the refresh thread.
TransferWithoutWait ==
    /\ Alive
    /\ tpc \in {"t_start", "t_sleep"}
    /\ tpc' = "t_zig"
    /\ UNCHANGED <<semVars, pc, dataVars, boots, overlap>>

\* Opening the devices, and the sleep(2) at the end of a round, lead to
\* pthread_cond_wait.
TransferWait ==
    /\ Alive
    /\ tpc \in {"t_start", "t_sleep"}
    /\ tpc' = "t_wait"
    /\ UNCHANGED <<semVars, pc, dataVars, boots, overlap>>

TransferSpurious ==
    /\ Alive
    /\ Spurious
    /\ tpc = "t_wait"
    /\ tpc' = "t_zig"
    /\ UNCHANGED <<semVars, pc, dataVars, boots, overlap>>

TransferZig ==
    /\ Alive
    /\ tpc = "t_zig"
    /\ env.zig < MaxSample
    /\ env' = [env EXCEPT !.zig = @ + 1]
    /\ tpc' = "t_a9"
    /\ UNCHANGED <<semVars, pc, shm, page, boots, overlap>>

TransferA9 ==
    /\ Alive
    /\ tpc = "t_a9"
    /\ env' = [env EXCEPT !.a9 = env.zig]
    /\ tpc' = "t_sleep"
    /\ UNCHANGED <<semVars, pc, shm, page, boots, overlap>>

----------------------------------------------------------------------------
(* env1.c *)

\* The CGI exits with an error, and changes nothing, while the segment does
\* not exist.
Request(c) ==
    /\ pc[c] = "idle"
    /\ shm.status # -1
    /\ pc' = [pc EXCEPT ![c] = "c_full"]
    /\ page' = [page EXCEPT ![c] = [zig |-> 0, a9 |-> 0]]
    /\ UNCHANGED <<semVars, tpc, env, shm, boots, overlap>>

\* Mutant of CgiP: the slot is read without the mutex.
CgiPWithoutMutex(c) ==
    /\ \/ pc[c] = "c_full" /\ SemP(c, "full")
       \/ /\ pc[c] = "c_mutex"
          /\ pc' = [pc EXCEPT ![c] = "c_zig"]
          /\ UNCHANGED semVars
    /\ UNCHANGED <<tpc, dataVars, boots, overlap>>

CgiP(c) ==
    /\ \/ pc[c] = "c_full" /\ SemP(c, "full")
       \/ pc[c] = "c_mutex" /\ SemP(c, "mutex")
    /\ UNCHANGED <<tpc, dataVars, boots, overlap>>

\* monitor_no is indexed by shm_status, and monitor_no[0] stays zero.  With
\* status 0 at line 76 the page says "Close!" and displays no sample.
CgiReadZig(c) ==
    /\ pc[c] = "c_zig"
    /\ page' = [page EXCEPT ![c].zig = IF shm.status = 1 THEN shm.zig ELSE 0]
    /\ pc' = [pc EXCEPT ![c] = IF shm.status = 1 THEN "c_a9" ELSE "c_vmutex"]
    /\ UNCHANGED <<semVars, tpc, env, shm, boots, overlap>>

CgiReadA9(c) ==
    /\ pc[c] = "c_a9"
    /\ page' = [page EXCEPT ![c].a9 = IF shm.status = 1 THEN shm.a9 ELSE 0]
    /\ pc' = [pc EXCEPT ![c] = "c_vmutex"]
    /\ UNCHANGED <<semVars, tpc, env, shm, boots, overlap>>

CgiV(c) ==
    /\ \/ pc[c] = "c_vmutex" /\ SemV(c, "mutex", "c_vempty")
       \/ pc[c] = "c_vempty" /\ SemV(c, "empty", "exit")
    /\ UNCHANGED <<tpc, dataVars, boots, overlap>>

\* The process is gone once its undo entries are applied.
CgiReaped(c) ==
    /\ pc[c] = "exit"
    /\ \A s \in Sem : adj[c][s] = 0
    /\ pc' = [pc EXCEPT ![c] = "idle"]
    /\ UNCHANGED <<semVars, tpc, dataVars, boots, overlap>>

\* Killed at any point, as SEM_UNDO provides for.
CgiKilled(c) ==
    /\ pc[c] \notin {"idle", "exit"}
    /\ Leave(c)
    /\ UNCHANGED <<tpc, dataVars, boots, overlap>>

----------------------------------------------------------------------------
(* main.c: SIGINT ends the process; the semaphores and the segment stay    *)
(* behind, since msgid, shmid and semid are never assigned.                *)

Interrupt ==
    /\ Alive
    /\ Leave(Monitor)
    /\ UNCHANGED <<tpc, dataVars, boots, overlap>>

MonitorReaped ==
    /\ pc[Monitor] = "exit"
    /\ \A s \in Sem : adj[Monitor][s] = 0
    /\ pc' = [pc EXCEPT ![Monitor] = "down"]
    /\ UNCHANGED <<semVars, tpc, dataVars, boots, overlap>>

Restart ==
    /\ pc[Monitor] = "down"
    /\ boots < MaxBoots
    /\ boots' = boots + 1
    /\ pc' = [pc EXCEPT ![Monitor] = "i_mutex"]
    /\ tpc' = "t_start"
    /\ env' = [zig |-> 0, a9 |-> 0]
    /\ UNCHANGED <<semVars, shm, page, overlap>>

----------------------------------------------------------------------------
Refresh ==
    \/ InitMutex \/ InitEmpty \/ InitFull \/ InitShm
    \/ RefreshP \/ RefreshCopyA9 \/ RefreshCopyZig \/ RefreshV \/ RefreshSignal

Transfer == TransferWait \/ TransferZig \/ TransferA9

Serve(c) == CgiP(c) \/ CgiReadZig(c) \/ CgiReadA9(c) \/ CgiV(c)

Exit(p) == \E s \in Sem : Undo(p, s)

Next ==
    \/ Refresh
    \/ Transfer
    \/ TransferSpurious
    \/ \E c \in Cgi : Request(c) \/ Serve(c) \/ CgiReaped(c) \/ CgiKilled(c)
    \/ \E p \in Proc : Exit(p)
    \/ Interrupt
    \/ MonitorReaped
    \/ Restart

Spec == Init /\ [][Next]_vars

\* The scheduler runs every thread that can go on.  Requests, crashes and
\* restarts are left to the environment.
Fairness ==
    /\ WF_vars(Refresh)
    /\ WF_vars(Transfer)
    /\ \A c \in Cgi : WF_vars(Serve(c)) /\ WF_vars(CgiReaped(c))
    /\ \A p \in Proc : WF_vars(Exit(p))
    /\ WF_vars(MonitorReaped)

FairSpec == Spec /\ Fairness
----------------------------------------------------------------------------
(* Properties *)

TypeOK ==
    /\ val \in [Sem -> 0..SEMVMX]
    /\ adj \in [Proc -> [Sem -> Int]]
    /\ queue \in [Sem -> Seq(Proc)]
    /\ pc \in [Proc -> RefreshLabels \cup CgiLabels]
    /\ tpc \in TransferLabels
    /\ env \in Sample
    /\ shm \in Slot
    /\ page \in [Cgi -> Sample]
    /\ boots \in 1..MaxBoots
    /\ overlap \in BOOLEAN

\* The semaphore `mutex` admits one process at a time to the shared slot,
\* whoever is killed or interrupted where, as long as no restart of the
\* monitor reinitialised it under a process inside (pthread_refresh.c:60).
MutualExclusion ==
    ~overlap => \A p, q \in Proc : InCS(p) /\ InCS(q) => p = q

\* SEM_UNDO gives every page its token back: once a life of the monitor has
\* initialised `full`, its value and the tokens held by pages add up to the
\* publications of that life.  `full` only ever grows, but the undo entry of
\* `empty` (one more per P) is full before it is: sem_v of
\* pthread_refresh.c:98 never fails, in no life.
TokensReturned ==
    /\ pc[Monitor] \notin {"i_mutex", "i_empty", "i_full", "exit", "down"} =>
          val["full"] + Cardinality({c \in Cgi : adj[c]["full"] = 1})
              = -adj[Monitor]["full"]
    /\ pc[Monitor] = "r_vfull" =>
          val["full"] < SEMVMX /\ adj[Monitor]["full"] >= -SEMVMX

\* The copy of pthread_refresh.c:96 is made without mutex_transfer, so a slot
\* published in this life of the monitor can mix two runs of the transfer
\* thread, but two adjacent ones, the later half first: each publication
\* starts at most one run.
TornByAtMostOne ==
    /\ ~Spurious
    /\ \/ pc[Monitor] \in {"r_vmutex", "r_vfull"}
       \/ /\ pc[Monitor] \in {"r_empty", "w_empty", "r_mutex", "w_mutex",
                              "r_a9", "r_signal"}
          /\ adj[Monitor]["full"] < 0
    => shm.zig - shm.a9 \in {0, 1}

\* A request for the page is answered, or the monitor goes away.
PageServed ==
    \A c \in Cgi : pc[c] = "c_full" ~> (pc[c] = "exit" \/ ~Alive)

\* Pages that are completed over and over wear the monitor out: every refresh
\* adds to its undo entry of `empty`, until semop fails and sem_p exits.
PagesWearOutMonitor ==
    ([]<><<\E c \in Cgi : adj'[c]["empty"] < adj[c]["empty"]>>_vars) => <>(~Alive)

\* What the comments at pthread_refresh.c:61-62 say of the semaphores: `empty`
\* means that the slot may be written and `full` that it may be read.  One
\* slot is not both, nor readable twice.
WritableOrReadable ==
    Alive => val["empty"] + val["full"] <= 1

----------------------------------------------------------------------------
(* The inductive invariant behind MutualExclusion *)

LabelsOK ==
    /\ pc[Monitor] \in RefreshLabels
    /\ \A c \in Cgi : pc[c] \in CgiLabels

\* A blocked process is in one queue, once, and only while the semaphore is 0.
QueuesOK ==
    \A s \in Sem :
        /\ \A i \in 1..Len(queue[s]) : pc[queue[s][i]] = Waiting(s)
        /\ \A i, j \in 1..Len(queue[s]) : queue[s][i] = queue[s][j] => i = j
        /\ queue[s] # <<>> => val[s] = 0

\* What an undo entry can be, whatever init_sem erased.
EntriesOK ==
    /\ \A p \in Proc :
          /\ adj[p]["mutex"] <= 1
          /\ adj[p]["mutex"] = 1 => InCS(p) \/ pc[p] = "exit"
    /\ \A c \in Cgi :
          /\ adj[c]["empty"] <= 0
          /\ adj[c]["full"] <= 1
          /\ adj[c]["full"] = 1 => pc[c] \notin {"idle", "c_full", "w_full"}
    /\ adj[Monitor]["empty"] <= SEMVMX
    /\ adj[Monitor]["full"] <= 0

\* Until an entry of a holder is erased, the entries say who holds `mutex`.
HolderOK ==
    ~overlap =>
        /\ \A p \in Proc : adj[p]["mutex"] >= 0
        /\ \A p \in Proc : InCS(p) => adj[p]["mutex"] = 1
        /\ \A p, q \in Proc :
              adj[p]["mutex"] = 1 /\ adj[q]["mutex"] = 1 => p = q
        /\ val["mutex"] <= 1
        /\ val["mutex"] = 1 => \A p \in Proc : adj[p]["mutex"] = 0

EnvInv == TypeOK /\ LabelsOK /\ QueuesOK /\ EntriesOK /\ HolderOK
============================================================================
