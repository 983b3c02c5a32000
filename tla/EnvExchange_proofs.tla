------------------------- MODULE EnvExchange_proofs -------------------------
(***************************************************************************)
(* EnvInv is an inductive invariant of EnvExchange, and with it type       *)
(* correctness and mutual exclusion hold for every number of CGIs, every   *)
(* limit of the kernel and every number of restarts.  TokenInv accounts    *)
(* for the tokens of `full` on top of it, and TornInv for the samples.     *)
(* BoardInv is inductive in one life of the monitor, whose steps then map  *)
(* to steps of EnvBoard.                                                   *)
(***************************************************************************)
EXTENDS EnvRefinement, SequenceTheorems, FiniteSetTheorems, TLAPS

----------------------------------------------------------------------------
(* The inductive invariant behind TokensReturned *)

\* The monitor is between init_sem and its end.
Publishing == pc[Monitor] \notin {"i_mutex", "i_empty", "i_full", "exit", "down"}

\* The token of `empty` the monitor has taken and not published yet.
Owed ==
    IF pc[Monitor] \in {"r_mutex", "w_mutex", "r_a9", "r_zig", "r_vmutex", "r_vfull"}
    THEN 1 ELSE 0

FullHolders == {c \in Cgi : adj[c]["full"] = 1}

\* Every token of `full` is in the semaphore or with a page, and the monitor's
\* entry of `empty` is ahead of its publications by the one under way.
TokenInv ==
    /\ \A c \in Cgi : adj[c]["full"] >= 0
    /\ IsFiniteSet(FullHolders)
    /\ pc[Monitor] = "i_full" => adj[Monitor]["empty"] = 0
    /\ pc[Monitor] = "i_shm" => adj[Monitor]["full"] = 0
    /\ Publishing =>
          /\ val["full"] + Cardinality(FullHolders) = -adj[Monitor]["full"]
          /\ adj[Monitor]["empty"] + adj[Monitor]["full"] = Owed

----------------------------------------------------------------------------
(* The inductive invariant behind TornByAtMostOne *)

\* Where the transfer thread is says how the halves of env differ.
EnvInStep ==
    /\ tpc \in {"t_start", "t_wait", "t_zig", "t_sleep"} => env.zig = env.a9
    /\ tpc = "t_a9" => env.zig = env.a9 + 1

\* Between its two copies the refresh thread sees at most one run begin.
CopyInStep ==
    pc[Monitor] = "r_zig" =>
        /\ env.zig - shm.a9 \in {0, 1}
        /\ tpc = "t_zig" => env.zig = shm.a9

TornInv ==
    ~Spurious =>
        /\ EnvInStep
        /\ CopyInStep
        /\ pc[Monitor] = "i_shm" => adj[Monitor]["full"] = 0
        /\ TornByAtMostOne

----------------------------------------------------------------------------
(* The inductive invariant behind ImplementsBoard *)

\* A page that got past P(full).
PastFull(c) == pc[c] \in {"c_mutex", "w_mutex", "c_zig", "c_a9", "c_vmutex", "c_vempty"}

\* Before the first publication no page has a token of `full`.
NothingYet ==
    shm.status # 1 =>
        /\ val["full"] = 0
        /\ \A c \in Cgi : adj[c]["full"] # 1 /\ ~PastFull(c)
        /\ pc[Monitor] \notin {"r_zig", "r_vmutex", "r_vfull", "r_signal"}

BoardInv ==
    /\ ~overlap
    /\ pc[Monitor] \in {"i_mutex", "i_empty", "i_full", "i_shm"} => shm.status = -1
    /\ shm.status = -1 => \A c \in Cgi : pc[c] = "idle"
    /\ NothingYet
    /\ \A c \in Cgi : pc[c] = "c_a9" => page[c].zig = shm.zig

LEMMA ExceptType ==
    ASSUME NEW S, NEW T, NEW f \in [S -> T], NEW x \in S, NEW y \in T
    PROVE  [f EXCEPT ![x] = y] \in [S -> T]
OBVIOUS

LEMMA EntryType ==
    ASSUME NEW f \in [Proc -> [Sem -> Int]], NEW p \in Proc, NEW s \in Sem, NEW k \in Int
    PROVE  /\ [f EXCEPT ![p][s] = k] \in [Proc -> [Sem -> Int]]
           /\ \A q \in Proc, t \in Sem :
                 [f EXCEPT ![p][s] = k][q][t] = IF q = p /\ t = s THEN k ELSE f[q][t]
<1>1. [f[p] EXCEPT ![s] = k] \in [Sem -> Int]
  OBVIOUS
<1>2. [f EXCEPT ![p] = [f[p] EXCEPT ![s] = k]] \in [Proc -> [Sem -> Int]]
  BY <1>1, ExceptType
<1>3. [f EXCEPT ![p][s] = k] = [f EXCEPT ![p] = [f[p] EXCEPT ![s] = k]]
  OBVIOUS
<1> QED BY <1>2, <1>3

\* Obtaining a semaphore, or waiting for it: the calls of sem_p.
Calls(p, s) ==
    \/ p = Monitor /\ s = "empty" /\ pc[p] = "r_empty"
    \/ p = Monitor /\ s = "mutex" /\ pc[p] = "r_mutex"
    \/ p \in Cgi /\ s = "full" /\ pc[p] = "c_full"
    \/ p \in Cgi /\ s = "mutex" /\ pc[p] = "c_mutex"

Rest == <<tpc, dataVars, boots, overlap>>

LEMMA TypeP ==
    ASSUME EnvInv, NEW p \in Proc, NEW s \in Sem, Calls(p, s), SemP(p, s),
           UNCHANGED Rest
    PROVE  TypeOK'
<1> USE EnvAssumption
<1>1. Waiting(s) \in RefreshLabels \cup CgiLabels
      /\ Obtained(p, s) \in RefreshLabels \cup CgiLabels
      /\ "exit" \in RefreshLabels
  BY DEF Obtained, Waiting, RefreshLabels, CgiLabels, Sem
<1>2. pc' \in [Proc -> RefreshLabels \cup CgiLabels]
  BY <1>1 DEF EnvInv, TypeOK, SemP
<1>3. val' \in [Sem -> 0..SEMVMX]
  <2>1. val' \in {val, [val EXCEPT ![s] = @ - 1]} /\ (val' # val => val[s] > 0)
    BY DEF SemP, semVars
  <2>2. val \in [Sem -> 0..SEMVMX]
    BY DEF EnvInv, TypeOK
  <2>3. val' # val => val[s] - 1 \in 0..SEMVMX
    BY <2>1, <2>2
  <2>4. CASE val' = val
    BY <2>2, <2>4
  <2>5. CASE val' # val
    <3>1. val' = [val EXCEPT ![s] = val[s] - 1]
      BY <2>1, <2>5
    <3>2. val[s] - 1 \in 0..SEMVMX
      BY <2>3, <2>5
    <3> QED BY <3>1, <3>2, <2>2, ExceptType
  <2> QED BY <2>4, <2>5
<1>4. adj' \in [Proc -> [Sem -> Int]]
  <2>1. adj' \in {adj, [adj EXCEPT ![p][s] = adj[p][s] + 1]}
    BY DEF SemP, semVars
  <2>2. adj \in [Proc -> [Sem -> Int]] /\ adj[p][s] + 1 \in Int
    BY DEF EnvInv, TypeOK
  <2> QED BY <2>1, <2>2, EntryType
<1>5. queue' \in [Sem -> Seq(Proc)]
  <2>1. queue' \in {queue, [queue EXCEPT ![s] = Append(queue[s], p)]}
    BY DEF SemP, semVars
  <2>2. queue \in [Sem -> Seq(Proc)]
    BY DEF EnvInv, TypeOK
  <2>3. Append(queue[s], p) \in Seq(Proc)
    BY <2>2, AppendProperties
  <2> QED BY <2>1, <2>2, <2>3
<1> QED
  BY <1>2, <1>3, <1>4, <1>5 DEF EnvInv, TypeOK, Rest, dataVars

LEMMA LabelsP ==
    ASSUME EnvInv, NEW p \in Proc, NEW s \in Sem, Calls(p, s), SemP(p, s),
           UNCHANGED Rest
    PROVE  LabelsOK'
<1> USE EnvAssumption
<1>1. PICK l \in {Obtained(p, s), "exit", Waiting(s)} : pc' = [pc EXCEPT ![p] = l]
  BY DEF SemP
<1>2. p = Monitor => l \in RefreshLabels
  BY DEF Calls, Obtained, Waiting, RefreshLabels, Proc
<1>3. p \in Cgi => l \in CgiLabels
  BY DEF Calls, Obtained, Waiting, CgiLabels, Proc
<1> QED
  BY <1>1, <1>2, <1>3 DEF EnvInv, TypeOK, LabelsOK, Proc

LEMMA QueuesP ==
    ASSUME EnvInv, NEW p \in Proc, NEW s \in Sem, Calls(p, s), SemP(p, s)
    PROVE  QueuesOK'
<1> USE EnvAssumption
<1>0. pc[p] \notin {"w_mutex", "w_empty", "w_full"}
  BY DEF Calls
<1>a. ASSUME NEW t \in Sem, NEW i \in 1..Len(queue[t])
      PROVE  queue[t][i] \in Proc /\ queue[t][i] # p
  BY <1>a, <1>0 DEF EnvInv, TypeOK, QueuesOK, Waiting
<1>1. CASE /\ val[s] > 0
           /\ val' = [val EXCEPT ![s] = @ - 1]
           /\ pc' = [pc EXCEPT ![p] = Obtained(p, s)]
           /\ UNCHANGED queue
  BY <1>1, <1>a DEF EnvInv, TypeOK, QueuesOK
<1>2. CASE pc' = [pc EXCEPT ![p] = "exit"] /\ UNCHANGED semVars
  BY <1>2, <1>a DEF EnvInv, TypeOK, QueuesOK, semVars
<1>3. CASE /\ val[s] = 0
           /\ queue' = [queue EXCEPT ![s] = Append(@, p)]
           /\ pc' = [pc EXCEPT ![p] = Waiting(s)]
           /\ UNCHANGED <<val, adj>>
  <2>1. queue \in [Sem -> Seq(Proc)] /\ pc \in [Proc -> RefreshLabels \cup CgiLabels]
        /\ QueuesOK
    BY DEF EnvInv, TypeOK
  <2>2. ASSUME NEW t \in Sem, t # s
        PROVE  /\ \A i \in 1..Len(queue'[t]) : pc'[queue'[t][i]] = Waiting(t)
               /\ \A i, j \in 1..Len(queue'[t]) : queue'[t][i] = queue'[t][j] => i = j
               /\ queue'[t] # <<>> => val'[t] = 0
    <3>1. queue'[t] = queue[t] /\ val' = val
      BY <1>3, <2>1, <2>2
    <3>2. \A i \in 1..Len(queue[t]) : pc'[queue[t][i]] = pc[queue[t][i]]
      BY <1>3, <1>a, <2>1
    <3> QED BY <3>1, <3>2, <2>1 DEF QueuesOK
  <2>3. queue[s] \in Seq(Proc) /\ queue'[s] = Append(queue[s], p)
    BY <1>3, <2>1
  <2>4. /\ Len(queue'[s]) = Len(queue[s]) + 1 /\ Len(queue[s]) \in Nat
        /\ \A i \in 1..Len(queue[s]) : queue'[s][i] = queue[s][i]
        /\ queue'[s][Len(queue[s]) + 1] = p
    BY <2>3
  <2>5. \A i \in 1..Len(queue'[s]) : pc'[queue'[s][i]] = Waiting(s)
    <3>1. pc'[p] = Waiting(s)
      BY <1>3, <2>1
    <3>2. \A i \in 1..Len(queue[s]) : pc'[queue[s][i]] = Waiting(s)
      BY <1>3, <1>a, <2>1 DEF QueuesOK
    <3> QED BY <3>1, <3>2, <2>4
  <2>6. \A i, j \in 1..Len(queue'[s]) : queue'[s][i] = queue'[s][j] => i = j
    <3>1. \A i \in 1..Len(queue[s]) : queue[s][i] # p
      BY <1>a
    <3>2. \A i, j \in 1..Len(queue[s]) : queue[s][i] = queue[s][j] => i = j
      BY <2>1 DEF QueuesOK
    <3> QED BY <3>1, <3>2, <2>4
  <2>7. val'[s] = 0
    BY <1>3
  <2> QED BY <2>2, <2>5, <2>6, <2>7 DEF QueuesOK
<1> QED BY <1>1, <1>2, <1>3 DEF SemP

LEMMA EntriesP ==
    ASSUME EnvInv, NEW p \in Proc, NEW s \in Sem, Calls(p, s), SemP(p, s)
    PROVE  EntriesOK'
<1> USE EnvAssumption
<1>1. CASE /\ val[s] > 0
           /\ adj[p][s] < SEMVMX
           /\ adj' = [adj EXCEPT ![p][s] = @ + 1]
           /\ pc' = [pc EXCEPT ![p] = Obtained(p, s)]
  <2>1. /\ adj \in [Proc -> [Sem -> Int]] /\ pc \in [Proc -> RefreshLabels \cup CgiLabels]
        /\ EntriesOK
    BY DEF EnvInv, TypeOK
  <2>2. adj' \in [Proc -> [Sem -> Int]]
        /\ \A q \in Proc, t \in Sem :
              adj'[q][t] = IF q = p /\ t = s THEN adj[p][s] + 1 ELSE adj[q][t]
    BY <1>1, <2>1, EntryType
  <2>3. \A q \in Proc : pc'[q] = IF q = p THEN Obtained(p, s) ELSE pc[q]
    BY <1>1, <2>1
  <2>4. CASE s = "mutex"
    <3>1. adj[p]["mutex"] <= 0 /\ Obtained(p, s) \in {"r_a9", "c_zig"}
      BY <2>1, <2>4 DEF EntriesOK, Calls, InCS, RefreshCS, CgiCS, Obtained
    <3> QED BY <3>1, <2>1, <2>2, <2>3, <2>4
            DEF EntriesOK, InCS, RefreshCS, CgiCS, Proc, Sem
  <2>5. CASE s = "empty"
    <3>1. p = Monitor /\ pc[p] = "r_empty" /\ Obtained(p, s) = "r_mutex"
      BY <2>5 DEF Calls, Obtained
    <3> QED BY <3>1, <1>1, <2>1, <2>2, <2>3, <2>5
            DEF EntriesOK, InCS, RefreshCS, CgiCS, Proc, Sem
  <2>6. CASE s = "full"
    <3>1. p \in Cgi /\ pc[p] = "c_full" /\ Obtained(p, s) = "c_mutex"
      BY <2>6 DEF Calls, Obtained
    <3> QED BY <3>1, <1>1, <2>1, <2>2, <2>3, <2>6
            DEF EntriesOK, InCS, RefreshCS, CgiCS, Proc, Sem
  <2> QED BY <2>4, <2>5, <2>6 DEF Sem
<1>2. CASE /\ pc' \in {[pc EXCEPT ![p] = "exit"], [pc EXCEPT ![p] = Waiting(s)]}
           /\ UNCHANGED adj
  BY <1>2 DEF EnvInv, TypeOK, EntriesOK, Calls, Waiting, InCS, RefreshCS, CgiCS, Proc, Sem
<1> QED BY <1>1, <1>2 DEF SemP, semVars

LEMMA HolderP ==
    ASSUME EnvInv, NEW p \in Proc, NEW s \in Sem, Calls(p, s), SemP(p, s),
           UNCHANGED Rest
    PROVE  HolderOK'
<1> USE EnvAssumption
<1> SUFFICES ASSUME ~overlap PROVE HolderOK'
  BY DEF HolderOK, Rest
<1>1. CASE /\ val[s] > 0
           /\ adj[p][s] < SEMVMX
           /\ val' = [val EXCEPT ![s] = @ - 1]
           /\ adj' = [adj EXCEPT ![p][s] = @ + 1]
           /\ pc' = [pc EXCEPT ![p] = Obtained(p, s)]
  <2>1. CASE s = "mutex"
    BY <1>1, <2>1 DEF EnvInv, TypeOK, HolderOK, InCS, Sem
  <2>2. CASE s # "mutex"
    BY <1>1, <2>2 DEF EnvInv, TypeOK, HolderOK, Calls, Obtained, InCS, RefreshCS, CgiCS, Sem
  <2> QED BY <2>1, <2>2
<1>2. CASE /\ pc' \in {[pc EXCEPT ![p] = "exit"], [pc EXCEPT ![p] = Waiting(s)]}
           /\ UNCHANGED <<val, adj>>
  BY <1>2 DEF EnvInv, TypeOK, HolderOK, Waiting, InCS, RefreshCS, CgiCS, Sem
<1> QED BY <1>1, <1>2 DEF SemP, semVars

LEMMA InvP ==
    ASSUME EnvInv, NEW p \in Proc, NEW s \in Sem, Calls(p, s), SemP(p, s),
           UNCHANGED Rest
    PROVE  EnvInv'
BY TypeP, LabelsP, QueuesP, EntriesP, HolderP DEF EnvInv

----------------------------------------------------------------------------
\* What the callers of Raise guarantee: p, which is not blocked, lets its undo
\* entry of s sink to a and goes on at l; only one token can be wanted.
Raises(p, s, n, a, l) ==
    /\ n \in 1..SEMVMX
    /\ a \in Int /\ a < adj[p][s]
    /\ pc[p] \notin {"w_mutex", "w_empty", "w_full"}
    /\ l \notin RefreshCS \cup CgiCS \cup {"idle", "c_full", "w_full"}
    /\ p = Monitor => l \in RefreshLabels
    /\ p \in Cgi => l \in CgiLabels
    /\ s = "mutex" => n = 1 /\ a <= 0 /\ (~overlap => adj[p][s] = 1 /\ a = 0)
    /\ s # "mutex" => adj[p]["mutex"] <= 0 \/ l = "exit"
    /\ queue[s] # <<>> => n = 1

\* The head of a queue is blocked on its semaphore, and only once.
LEMMA HeadOfQueue ==
    ASSUME EnvInv, NEW s \in Sem, queue[s] # <<>>
    PROVE  /\ Head(queue[s]) \in Proc
           /\ pc[Head(queue[s])] = Waiting(s)
           /\ Tail(queue[s]) \in Seq(Proc)
           /\ Len(Tail(queue[s])) = Len(queue[s]) - 1
           /\ \A i \in 1..Len(Tail(queue[s])) :
                 /\ i + 1 \in 1..Len(queue[s])
                 /\ Tail(queue[s])[i] = queue[s][i + 1]
                 /\ Tail(queue[s])[i] # Head(queue[s])
           /\ val[s] = 0
           /\ s = "empty" => Head(queue[s]) = Monitor /\ Tail(queue[s]) = <<>>
           /\ s # "empty" => adj[Head(queue[s])][s] <= 0
           /\ Head(queue[s]) = Monitor => s # "full"
           /\ adj[Head(queue[s])]["mutex"] <= 0
<1> DEFINE q == queue[s]
<1> USE EnvAssumption
<1>1. q \in Seq(Proc) /\ Len(q) \in Nat \ {0}
  BY EmptySeq, LenProperties DEF EnvInv, TypeOK
<1>2. 1 \in 1..Len(q) /\ Head(q) = q[1] /\ q[1] \in Proc
  BY <1>1, HeadTailProperties
<1>3. pc[Head(q)] = Waiting(s)
  BY <1>2 DEF EnvInv, QueuesOK
<1>4. /\ Tail(q) \in Seq(Proc)
      /\ Len(Tail(q)) = Len(q) - 1
      /\ \A i \in 1..Len(Tail(q)) : Tail(q)[i] = q[i + 1]
  BY <1>1, HeadTailProperties
<1>5. \A i \in 1..Len(Tail(q)) : i + 1 \in 1..Len(q) /\ i + 1 # 1
  BY <1>1, <1>4
<1>6. \A i, j \in 1..Len(q) : q[i] = q[j] => i = j
  BY DEF EnvInv, QueuesOK
<1>7. \A i \in 1..Len(Tail(q)) : Tail(q)[i] # Head(q)
  BY <1>2, <1>4, <1>5, <1>6
<1>8. val[s] = 0
  BY DEF EnvInv, QueuesOK
<1>9. s = "empty" => \A i \in 1..Len(q) : q[i] = Monitor
  <2> SUFFICES ASSUME s = "empty", NEW i \in 1..Len(q) PROVE q[i] = Monitor
    OBVIOUS
  <2>1. pc[q[i]] = "w_empty" /\ q[i] \in Proc
    BY <1>1 DEF EnvInv, QueuesOK, Waiting
  <2> QED BY <2>1 DEF EnvInv, LabelsOK, CgiLabels, Proc
<1>10. s = "empty" => Head(q) = Monitor /\ Len(Tail(q)) = 0
  <2>1. s = "empty" => Len(q) = 1
    <3>1. ASSUME s = "empty", Len(q) # 1 PROVE FALSE
      <4>1. 2 \in 1..Len(q) /\ 1 \in 1..Len(q) /\ 1 # 2
        <5>1. PICK n \in Nat \ {0} : n = Len(q)
          BY <1>1
        <5>2. n # 1
          BY <5>1, <3>1
        <5>3. 1 \in 1..n /\ 2 \in 1..n
          BY <5>2
        <5> QED BY <5>1, <5>3
      <4>2. q[1] = Monitor /\ q[2] = Monitor
        BY <4>1, <3>1, <1>9
      <4> QED BY <4>1, <4>2, <1>6
    <3> QED BY <3>1
  <2> QED BY <2>1, <1>1, <1>2, <1>4, <1>9
<1>11. s = "empty" => Tail(q) = <<>>
  BY <1>10, <1>4, EmptySeq
<1>12. adj[Head(q)]["mutex"] <= 0
  <2>1. ~InCS(Head(q)) /\ pc[Head(q)] # "exit"
    BY <1>3 DEF Waiting, InCS, RefreshCS, CgiCS
  <2>2. adj[Head(q)]["mutex"] \in Int /\ adj[Head(q)]["mutex"] <= 1
        /\ adj[Head(q)]["mutex"] # 1
    BY <1>2, <2>1 DEF EnvInv, TypeOK, EntriesOK, Sem
  <2>3. \A k \in Int : k <= 1 /\ k # 1 => k <= 0
    OBVIOUS
  <2> QED BY <2>2, <2>3
<1>13. Head(q) = Monitor => s # "full"
  BY <1>3 DEF EnvInv, LabelsOK, Waiting, RefreshLabels
<1>14. s # "empty" => adj[Head(q)][s] <= 0
  <2>1. CASE s = "full"
    BY <2>1, <1>2, <1>3, <1>13 DEF EnvInv, TypeOK, EntriesOK, Waiting, Proc, Sem
  <2>2. CASE s = "mutex"
    BY <2>2, <1>12
  <2> QED BY <2>1, <2>2 DEF Sem
<1> QED
  BY <1>2, <1>3, <1>4, <1>5, <1>7, <1>8, <1>10, <1>11, <1>12, <1>13, <1>14

\* The three outcomes of Raise: nobody waits, the oldest waiter h obtains the
\* token, or the monitor is refused it because its own entry is full.
Free(p, s, n, a, l) ==
    /\ queue[s] = <<>>
    /\ val' = [val EXCEPT ![s] = IF @ + n > SEMVMX THEN SEMVMX ELSE @ + n]
    /\ adj' = [adj EXCEPT ![p][s] = a]
    /\ pc' = [pc EXCEPT ![p] = l]
    /\ queue' = queue

Grants(p, s, a, l, h) ==
    /\ queue[s] # <<>> /\ h = Head(queue[s])
    /\ val' = val
    /\ adj' = [[adj EXCEPT ![p][s] = a] EXCEPT ![h][s] = adj[h][s] + 1]
    /\ pc' = [[pc EXCEPT ![p] = l] EXCEPT ![h] = Obtained(h, s)]
    /\ queue' = [queue EXCEPT ![s] = Tail(@)]
    /\ adj[h][s] < SEMVMX

Refuses(p, s, a, l) ==
    /\ s = "empty"
    /\ queue[s] # <<>> /\ Head(queue[s]) = Monitor
    /\ val' = [val EXCEPT ![s] = 1]
    /\ adj' = [adj EXCEPT ![p][s] = a]
    /\ pc' = [[pc EXCEPT ![p] = l] EXCEPT ![Monitor] = "exit"]
    /\ queue' = [queue EXCEPT ![s] = <<>>]

LEMMA RaiseOutcome ==
    ASSUME EnvInv, NEW p \in Proc, NEW s \in Sem, NEW n, NEW a, NEW l,
           Raises(p, s, n, a, l),
           Raise(s, n, [adj EXCEPT ![p][s] = a], [pc EXCEPT ![p] = l])
    PROVE  \/ Free(p, s, n, a, l)
           \/ \E h \in Proc : h # p /\ pc[h] = Waiting(s) /\ Grants(p, s, a, l, h)
           \/ Refuses(p, s, a, l)
<1> USE EnvAssumption
<1> DEFINE e == [adj EXCEPT ![p][s] = a]
           h == Head(queue[s])
<1>1. CASE queue[s] = <<>>
  BY <1>1 DEF Raise, Free
<1>2. CASE queue[s] # <<>>
  <2>1. /\ h \in Proc /\ pc[h] = Waiting(s) /\ val[s] = 0
        /\ s = "empty" => h = Monitor /\ Tail(queue[s]) = <<>>
        /\ s # "empty" => adj[h][s] <= 0
    BY <1>2, HeadOfQueue
  <2>2. h # p /\ n = 1
    BY <1>2, <2>1 DEF Raises, Waiting
  <2>3. a \in Int /\ adj \in [Proc -> [Sem -> Int]] /\ val \in [Sem -> 0..SEMVMX]
    BY DEF Raises, EnvInv, TypeOK
  <2>4. e[h][s] = adj[h][s]
    BY <2>1, <2>2, <2>3, EntryType
  <2>5. CASE e[h][s] < SEMVMX
    <3>1. val' = [val EXCEPT ![s] = val[s] + 1 - 1]
      BY <1>2, <2>2, <2>5 DEF Raise
    <3>2. val' = val
      BY <3>1, <2>1, <2>3
    <3>3. adj' = [e EXCEPT ![h][s] = e[h][s] + 1]
      BY <1>2, <2>5 DEF Raise
    <3>4. pc' = [[pc EXCEPT ![p] = l] EXCEPT ![h] = Obtained(h, s)]
      BY <1>2, <2>5 DEF Raise
    <3>5. queue' = [queue EXCEPT ![s] = Tail(@)]
      BY <1>2, <2>5 DEF Raise
    <3>6. Grants(p, s, a, l, h)
      BY <1>2, <2>4, <2>5, <3>2, <3>3, <3>4, <3>5 DEF Grants
    <3> QED BY <2>1, <2>2, <3>6
  <2>6. CASE ~(e[h][s] < SEMVMX)
    <3>1. s = "empty"
      BY <2>1, <2>4, <2>6, <2>3
    <3>2. val' = [val EXCEPT ![s] = val[s] + 1]
      BY <1>2, <2>2, <2>6 DEF Raise
    <3>3. val' = [val EXCEPT ![s] = 1]
      BY <3>2, <2>1
    <3>4. adj' = e
      BY <1>2, <2>6 DEF Raise
    <3>5. pc' = [[pc EXCEPT ![p] = l] EXCEPT ![Monitor] = "exit"]
      BY <1>2, <2>1, <2>6, <3>1 DEF Raise
    <3>6. queue' = [queue EXCEPT ![s] = <<>>]
      BY <1>2, <2>1, <2>6, <3>1 DEF Raise
    <3> QED BY <1>2, <2>1, <3>1, <3>3, <3>4, <3>5, <3>6 DEF Refuses
  <2> QED BY <2>5, <2>6
<1> QED BY <1>1, <1>2

\* Taking one blocked process g out of the queue of s leaves w, a part of the
\* queue whose positions f are distinct.
Shrinks(s, g, w, f) ==
    /\ f \in [1..Len(w) -> 1..Len(queue[s])]
    /\ \A j \in 1..Len(w) : w[j] = queue[s][f[j]] /\ w[j] # g
    /\ \A j, k \in 1..Len(w) : f[j] = f[k] => j = k
    /\ pc[g] = Waiting(s)
    /\ queue' = [queue EXCEPT ![s] = w]
    /\ \A q \in Proc : q # g /\ pc[q] \in {"w_mutex", "w_empty", "w_full"}
                           => pc'[q] = pc[q]
    /\ \A t \in Sem : t # s => val'[t] = val[t]
    /\ w # <<>> => val'[s] = 0

LEMMA QueueShrinks ==
    ASSUME EnvInv, NEW s \in Sem, NEW g \in Proc, NEW w \in Seq(Proc), NEW f,
           Shrinks(s, g, w, f)
    PROVE  QueuesOK'
<1> USE DEF Shrinks
<1>1. queue \in [Sem -> Seq(Proc)] /\ QueuesOK
  BY DEF EnvInv, TypeOK
<1>2. \A t \in Sem : Waiting(t) \in {"w_mutex", "w_empty", "w_full"}
  BY DEF Waiting
<1>3. ASSUME NEW t \in Sem
      PROVE  /\ \A i \in 1..Len(queue'[t]) : pc'[queue'[t][i]] = Waiting(t)
             /\ \A i, j \in 1..Len(queue'[t]) : queue'[t][i] = queue'[t][j] => i = j
             /\ queue'[t] # <<>> => val'[t] = 0
  <2>1. CASE t = s
    <3>1. queue'[t] = w
      BY <2>1, <1>1
    <3>2. ASSUME NEW i \in 1..Len(w) PROVE pc'[w[i]] = Waiting(t)
      <4>1. f[i] \in 1..Len(queue[s]) /\ w[i] = queue[s][f[i]] /\ w[i] # g /\ w[i] \in Proc
        OBVIOUS
      <4>2. pc[w[i]] = Waiting(s)
        BY <4>1, <1>1 DEF QueuesOK
      <4> QED BY <4>1, <4>2, <1>2, <2>1
    <3>3. ASSUME NEW i \in 1..Len(w), NEW j \in 1..Len(w), w[i] = w[j] PROVE i = j
      <4>1. f[i] \in 1..Len(queue[s]) /\ f[j] \in 1..Len(queue[s])
            /\ queue[s][f[i]] = queue[s][f[j]]
        BY <3>3
      <4>2. f[i] = f[j]
        BY <4>1, <1>1 DEF QueuesOK
      <4> QED BY <4>2
    <3> QED BY <2>1, <3>1, <3>2, <3>3
  <2>2. CASE t # s
    <3>1. queue'[t] = queue[t] /\ queue[t] \in Seq(Proc)
      BY <2>2, <1>1
    <3>2. ASSUME NEW i \in 1..Len(queue[t]) PROVE pc'[queue[t][i]] = Waiting(t)
      <4>1. queue[t][i] \in Proc /\ pc[queue[t][i]] = Waiting(t)
        BY <3>1, <1>1 DEF QueuesOK
      <4>2. queue[t][i] # g
        BY <4>1, <2>2 DEF Waiting, Sem
      <4> QED BY <4>1, <4>2, <1>2
    <3> QED BY <2>2, <3>1, <3>2, <1>1 DEF QueuesOK
  <2> QED BY <2>1, <2>2
<1> QED BY <1>3 DEF QueuesOK, Waiting

\* Taking the head out.
LEMMA HeadLeaves ==
    ASSUME EnvInv, NEW s \in Sem, queue[s] # <<>>,
           queue' = [queue EXCEPT ![s] = Tail(queue[s])],
           \A q \in Proc :
              q # Head(queue[s]) /\ pc[q] \in {"w_mutex", "w_empty", "w_full"}
                 => pc'[q] = pc[q],
           \A t \in Sem : t # s => val'[t] = val[t],
           Tail(queue[s]) # <<>> => val'[s] = 0
    PROVE  QueuesOK'
<1> DEFINE w == Tail(queue[s])
           f == [j \in 1..Len(w) |-> j + 1]
<1>1. /\ Head(queue[s]) \in Proc /\ pc[Head(queue[s])] = Waiting(s)
      /\ w \in Seq(Proc)
      /\ \A i \in 1..Len(w) :
            /\ i + 1 \in 1..Len(queue[s])
            /\ w[i] = queue[s][i + 1]
            /\ w[i] # Head(queue[s])
  BY HeadOfQueue
<1>2. f \in [1..Len(w) -> 1..Len(queue[s])]
  BY <1>1
<1>3. \A j \in 1..Len(w) : w[j] = queue[s][f[j]] /\ w[j] # Head(queue[s])
  BY <1>1
<1>4. \A j, k \in 1..Len(w) : f[j] = f[k] => j = k
  <2>1. PICK n \in Nat : n = Len(w)
    BY <1>1, LenProperties
  <2>2. \A j, k \in 1..n : j + 1 = k + 1 => j = k
    OBVIOUS
  <2> QED BY <2>1, <2>2
<1>5. PICK g \in Proc, v \in Seq(Proc) : g = Head(queue[s]) /\ v = w
  BY <1>1
<1>6. PICK k : k = f
  OBVIOUS
<1>7. Shrinks(s, g, v, k)
  <2>1. k \in [1..Len(v) -> 1..Len(queue[s])]
    BY <1>2, <1>5, <1>6
  <2>2. \A i \in 1..Len(v) : v[i] = queue[s][k[i]] /\ v[i] # g
    BY <1>3, <1>5, <1>6
  <2>3. \A i, j \in 1..Len(v) : k[i] = k[j] => i = j
    BY <1>4, <1>5, <1>6
  <2> HIDE DEF w, f
  <2>4. pc[g] = Waiting(s)
    BY <1>1, <1>5
  <2>5. queue' = [queue EXCEPT ![s] = v] /\ (v # <<>> => val'[s] = 0)
    BY <1>5 DEF w
  <2>6. \A q \in Proc : q # g /\ pc[q] \in {"w_mutex", "w_empty", "w_full"}
                              => pc'[q] = pc[q]
    BY <1>5
  <2> QED BY <2>1, <2>2, <2>3, <2>4, <2>5, <2>6 DEF Shrinks
<1> HIDE DEF w, f
<1> QED BY <1>7, QueueShrinks

\* The hypotheses shared by the lemmas on Raise.
Raising(p, s, n, a, l) ==
    /\ EnvInv
    /\ Raises(p, s, n, a, l)
    /\ Raise(s, n, [adj EXCEPT ![p][s] = a], [pc EXCEPT ![p] = l])
    /\ UNCHANGED Rest

LEMMA TypeRaise ==
    ASSUME NEW p \in Proc, NEW s \in Sem, NEW n, NEW a, NEW l, Raising(p, s, n, a, l)
    PROVE  TypeOK'
<1> USE EnvAssumption
<1>1. /\ val \in [Sem -> 0..SEMVMX]
      /\ adj \in [Proc -> [Sem -> Int]]
      /\ queue \in [Sem -> Seq(Proc)]
      /\ pc \in [Proc -> RefreshLabels \cup CgiLabels]
  BY DEF Raising, EnvInv, TypeOK
<1>2. a \in Int /\ l \in RefreshLabels \cup CgiLabels /\ n \in 1..SEMVMX
  BY DEF Raising, Raises, Proc
<1>3. /\ [adj EXCEPT ![p][s] = a] \in [Proc -> [Sem -> Int]]
      /\ [pc EXCEPT ![p] = l] \in [Proc -> RefreshLabels \cup CgiLabels]
  BY <1>1, <1>2, EntryType, ExceptType
<1>4. CASE Free(p, s, n, a, l)
  <2>1. val' \in [Sem -> 0..SEMVMX]
    <3>1. (IF val[s] + n > SEMVMX THEN SEMVMX ELSE val[s] + n) \in 0..SEMVMX
      BY <1>1, <1>2
    <3> QED BY <3>1, <1>1, <1>4, ExceptType DEF Free
  <2> QED
    BY <2>1, <1>1, <1>3, <1>4 DEF Free, Raising, Rest, dataVars, EnvInv, TypeOK
<1>5. ASSUME NEW h \in Proc, h # p, Grants(p, s, a, l, h)
      PROVE  TypeOK'
  <2>1. adj[h][s] + 1 \in Int
    BY <1>1
  <2>2. adj' \in [Proc -> [Sem -> Int]]
    <3>1. PICK g : g = [adj EXCEPT ![p][s] = a]
      OBVIOUS
    <3>2. g \in [Proc -> [Sem -> Int]] /\ adj' = [g EXCEPT ![h][s] = adj[h][s] + 1]
      BY <3>1, <1>3, <1>5 DEF Grants
    <3> QED BY <3>2, <2>1, EntryType
  <2>3. Obtained(h, s) \in RefreshLabels \cup CgiLabels
    BY DEF Obtained, RefreshLabels, CgiLabels
  <2>4. pc' \in [Proc -> RefreshLabels \cup CgiLabels]
    BY <2>3, <1>3, <1>5, ExceptType DEF Grants
  <2>5. queue' \in [Sem -> Seq(Proc)]
    BY <1>1, <1>5, HeadOfQueue, ExceptType DEF Grants, Raising
  <2> QED
    BY <2>2, <2>4, <2>5, <1>1, <1>5 DEF Grants, Raising, Rest, dataVars, EnvInv, TypeOK
<1>6. CASE Refuses(p, s, a, l)
  <2>1. 1 \in 0..SEMVMX /\ <<>> \in Seq(Proc) /\ Monitor \in Proc
        /\ "exit" \in RefreshLabels \cup CgiLabels
    BY EmptySeq DEF Proc, RefreshLabels
  <2>2. val' \in [Sem -> 0..SEMVMX]
    BY <2>1, <1>1, <1>6, ExceptType DEF Refuses
  <2>3. pc' \in [Proc -> RefreshLabels \cup CgiLabels]
    BY <2>1, <1>3, <1>6, ExceptType DEF Refuses
  <2>4. queue' \in [Sem -> Seq(Proc)]
    BY <2>1, <1>1, <1>6, ExceptType DEF Refuses
  <2> QED
    BY <2>2, <2>3, <2>4, <1>3, <1>6 DEF Refuses, Raising, Rest, dataVars, EnvInv, TypeOK
<1> QED
  BY <1>4, <1>5, <1>6, RaiseOutcome DEF Raising

LEMMA LabelsRaise ==
    ASSUME NEW p \in Proc, NEW s \in Sem, NEW n, NEW a, NEW l, Raising(p, s, n, a, l)
    PROVE  LabelsOK'
<1> USE EnvAssumption
<1>1. pc \in [Proc -> RefreshLabels \cup CgiLabels] /\ LabelsOK
  BY DEF Raising, EnvInv, TypeOK
<1>2. (p = Monitor => l \in RefreshLabels) /\ (p \in Cgi => l \in CgiLabels)
  BY DEF Raising, Raises
<1>3. CASE Free(p, s, n, a, l)
  BY <1>1, <1>2, <1>3 DEF Free, LabelsOK, Proc
<1>4. ASSUME NEW h \in Proc, h # p, pc[h] = Waiting(s), Grants(p, s, a, l, h)
      PROVE  LabelsOK'
  <2>1. h = Monitor => Obtained(h, s) \in RefreshLabels
    BY <1>1, <1>4 DEF Obtained, Waiting, RefreshLabels, LabelsOK, Sem
  <2>2. h \in Cgi => Obtained(h, s) \in CgiLabels
    BY <1>1, <1>4 DEF Obtained, Waiting, CgiLabels, LabelsOK, Sem
  <2>3. pc' = [[pc EXCEPT ![p] = l] EXCEPT ![h] = Obtained(h, s)]
    BY <1>4 DEF Grants
  <2> QED BY <2>1, <2>2, <2>3, <1>1, <1>2 DEF LabelsOK, Proc
<1>5. CASE Refuses(p, s, a, l)
  BY <1>1, <1>2, <1>5 DEF Refuses, LabelsOK, Proc, RefreshLabels
<1> QED
  BY <1>3, <1>4, <1>5, RaiseOutcome DEF Raising

LEMMA QueuesRaise ==
    ASSUME NEW p \in Proc, NEW s \in Sem, NEW n, NEW a, NEW l, Raising(p, s, n, a, l)
    PROVE  QueuesOK'
<1> USE EnvAssumption
<1>1. /\ val \in [Sem -> 0..SEMVMX]
      /\ queue \in [Sem -> Seq(Proc)]
      /\ pc \in [Proc -> RefreshLabels \cup CgiLabels]
      /\ QueuesOK /\ EnvInv
  BY DEF Raising, EnvInv, TypeOK
<1>2. pc[p] \notin {"w_mutex", "w_empty", "w_full"}
  BY DEF Raising, Raises
<1>3. \A t \in Sem : \A i \in 1..Len(queue[t]) : queue[t][i] \in Proc /\ queue[t][i] # p
  BY <1>1, <1>2 DEF QueuesOK, Waiting
<1>4. CASE Free(p, s, n, a, l)
  <2>1. \A t \in Sem : \A i \in 1..Len(queue[t]) : pc'[queue[t][i]] = pc[queue[t][i]]
    BY <1>1, <1>3, <1>4 DEF Free
  <2>2. \A t \in Sem : queue[t] # <<>> => val'[t] = val[t]
    BY <1>1, <1>4 DEF Free
  <2> QED BY <2>1, <2>2, <1>1, <1>4 DEF QueuesOK, Free
<1>5. ASSUME NEW h \in Proc, h # p, pc[h] = Waiting(s), Grants(p, s, a, l, h)
      PROVE  QueuesOK'
  <2>1. \A q \in Proc : q # h /\ pc[q] \in {"w_mutex", "w_empty", "w_full"}
                           => pc'[q] = pc[q]
    BY <1>1, <1>2, <1>5 DEF Grants
  <2>2. val'[s] = 0
    BY <1>1, <1>5, HeadOfQueue DEF Grants
  <2> QED BY <2>1, <2>2, <1>1, <1>5, HeadLeaves DEF Grants
<1>6. CASE Refuses(p, s, a, l)
  <2>1. Tail(queue[s]) = <<>>
    BY <1>1, <1>6, HeadOfQueue DEF Refuses
  <2>2. \A q \in Proc : q # Monitor /\ pc[q] \in {"w_mutex", "w_empty", "w_full"}
                           => pc'[q] = pc[q]
    BY <1>1, <1>2, <1>6 DEF Refuses
  <2>3. \A t \in Sem : t # s => val'[t] = val[t]
    BY <1>1, <1>6 DEF Refuses
  <2> QED BY <2>1, <2>2, <2>3, <1>1, <1>6, HeadLeaves DEF Refuses
<1> QED
  BY <1>4, <1>5, <1>6, RaiseOutcome DEF Raising

LEMMA EntriesRaise ==
    ASSUME NEW p \in Proc, NEW s \in Sem, NEW n, NEW a, NEW l, Raising(p, s, n, a, l)
    PROVE  EntriesOK'
<1> USE EnvAssumption
<1>1. /\ adj \in [Proc -> [Sem -> Int]]
      /\ pc \in [Proc -> RefreshLabels \cup CgiLabels]
      /\ EntriesOK /\ EnvInv
  BY DEF Raising, EnvInv, TypeOK
<1>2. /\ a \in Int /\ a < adj[p][s]
      /\ l \notin RefreshCS \cup CgiCS \cup {"idle", "c_full", "w_full"}
      /\ s = "mutex" => a <= 0
      /\ s # "mutex" => adj[p]["mutex"] <= 0 \/ l = "exit"
  BY DEF Raising, Raises
\* with p's entry lowered and p at l, the entries are still fine
<1> DEFINE e == [adj EXCEPT ![p][s] = a]
           m == [pc EXCEPT ![p] = l]
           Fine(f, g) ==
              /\ \A q \in Proc :
                    /\ f[q]["mutex"] <= 1
                    /\ f[q]["mutex"] = 1 =>
                          g[q] \in RefreshCS \cup CgiCS \/ g[q] = "exit"
              /\ \A c \in Cgi :
                    /\ f[c]["empty"] <= 0
                    /\ f[c]["full"] <= 1
                    /\ f[c]["full"] = 1 => g[c] \notin {"idle", "c_full", "w_full"}
              /\ f[Monitor]["empty"] <= SEMVMX
              /\ f[Monitor]["full"] <= 0
<1>3. Fine(adj, pc) /\ (EntriesOK' <=> Fine(adj', pc'))
  BY <1>1 DEF EntriesOK, InCS
<1>4. e \in [Proc -> [Sem -> Int]] /\ m \in [Proc -> RefreshLabels \cup CgiLabels \cup {l}]
  BY <1>1, <1>2, EntryType
<1>5. \A q \in Proc, t \in Sem : e[q][t] = IF q = p /\ t = s THEN a ELSE adj[q][t]
  BY <1>1, <1>2, EntryType
<1>6. \A q \in Proc : m[q] = IF q = p THEN l ELSE pc[q]
  BY <1>1
<1>7. \A q \in Proc, t \in Sem : e[q][t] <= adj[q][t] /\ e[q][t] \in Int /\ adj[q][t] \in Int
  BY <1>1, <1>2, <1>4, <1>5
<1>8. Fine(e, m)
  <2>1. ASSUME NEW q \in Proc
        PROVE  /\ e[q]["mutex"] <= 1
               /\ e[q]["mutex"] = 1 => m[q] \in RefreshCS \cup CgiCS \/ m[q] = "exit"
    BY <1>1, <1>2, <1>3, <1>5, <1>6, <1>7 DEF Sem
  <2>2. ASSUME NEW c \in Cgi
        PROVE  /\ e[c]["empty"] <= 0
               /\ e[c]["full"] <= 1
               /\ e[c]["full"] = 1 => m[c] \notin {"idle", "c_full", "w_full"}
    BY <1>1, <1>2, <1>3, <1>5, <1>6, <1>7 DEF Sem, Proc
  <2>3. e[Monitor]["empty"] <= SEMVMX /\ e[Monitor]["full"] <= 0
    BY <1>1, <1>2, <1>3, <1>5, <1>7 DEF Sem, Proc
  <2> QED BY <2>1, <2>2, <2>3
<1>9. CASE Free(p, s, n, a, l)
  BY <1>3, <1>8, <1>9 DEF Free
<1>10. ASSUME NEW h \in Proc, h # p, pc[h] = Waiting(s), Grants(p, s, a, l, h)
       PROVE  EntriesOK'
  <2>1. /\ s = "empty" => h = Monitor
        /\ s # "empty" => adj[h][s] <= 0
        /\ h = Monitor => s # "full"
        /\ adj[h]["mutex"] <= 0
        /\ adj[h][s] < SEMVMX
    BY <1>1, <1>10, HeadOfQueue DEF Grants
  <2>2. /\ adj[h][s] + 1 \in Int
        /\ adj' = [e EXCEPT ![h][s] = adj[h][s] + 1]
        /\ pc' = [m EXCEPT ![h] = Obtained(h, s)]
    BY <1>1, <1>10 DEF Grants
  <2>3. \A q \in Proc, t \in Sem :
           adj'[q][t] = IF q = h /\ t = s THEN adj[h][s] + 1 ELSE e[q][t]
    BY <2>2, <1>4, EntryType
  <2>4. \A q \in Proc : pc'[q] = IF q = h THEN Obtained(h, s) ELSE m[q]
    BY <2>2, <1>4
  <2>5. \A t \in Sem : e[h][t] = adj[h][t]
    BY <1>5, <1>10
  <2>6. ASSUME NEW q \in Proc
        PROVE  /\ adj'[q]["mutex"] <= 1
               /\ adj'[q]["mutex"] = 1 => pc'[q] \in RefreshCS \cup CgiCS \/ pc'[q] = "exit"
    <3>1. CASE q = h /\ s = "mutex"
      BY <3>1, <1>1, <2>1, <2>3, <2>4 DEF Sem, Obtained, RefreshCS, CgiCS
    <3>2. CASE q = h /\ s # "mutex"
      BY <3>2, <1>1, <2>1, <2>3, <2>5 DEF Sem
    <3>3. CASE q # h
      BY <3>3, <1>8, <2>3, <2>4 DEF Sem
    <3> QED BY <3>1, <3>2, <3>3
  <2>7. ASSUME NEW c \in Cgi
        PROVE  /\ adj'[c]["empty"] <= 0
               /\ adj'[c]["full"] <= 1
               /\ adj'[c]["full"] = 1 => pc'[c] \notin {"idle", "c_full", "w_full"}
    <3>0. c \in Proc
      BY DEF Proc
    <3>1. CASE c = h
      <4>1. s # "empty"
        BY <3>1, <2>1
      <4>2. adj'[c]["empty"] = adj[c]["empty"] /\ adj[c]["empty"] <= 0
        BY <4>1, <3>0, <3>1, <2>3, <2>5, <1>3 DEF Sem
      <4>3. adj[h]["full"] <= 1 /\ pc'[c] \in {"c_mutex", "c_zig"} /\ adj[h][s] \in Int
        BY <4>1, <3>0, <3>1, <2>4, <1>1, <1>3 DEF Sem, Obtained
      <4>4. adj'[c]["full"] <= 1
        BY <4>1, <4>3, <3>0, <3>1, <2>1, <2>3, <2>5 DEF Sem
      <4> QED BY <4>2, <4>3, <4>4
    <3>2. CASE c # h
      BY <3>0, <3>2, <1>8, <2>3, <2>4 DEF Sem
    <3> QED BY <3>1, <3>2
  <2>8. adj'[Monitor]["empty"] <= SEMVMX /\ adj'[Monitor]["full"] <= 0
    <3>0. Monitor \in Proc
      BY DEF Proc
    <3>1. CASE s = "empty" /\ h = Monitor
      BY <3>0, <3>1, <1>1, <1>3, <2>1, <2>3, <2>5 DEF Sem
    <3>2. CASE ~(s = "empty" /\ h = Monitor)
      BY <3>0, <3>2, <1>8, <2>1, <2>3 DEF Sem
    <3> QED BY <3>1, <3>2
  <2> QED BY <1>3, <2>6, <2>7, <2>8
<1>11. CASE Refuses(p, s, a, l)
  <2>1. adj' = e /\ pc' = [m EXCEPT ![Monitor] = "exit"]
    BY <1>11 DEF Refuses
  <2>2. \A q \in Proc : pc'[q] = IF q = Monitor THEN "exit" ELSE m[q]
    BY <2>1, <1>4
  <2> QED BY <2>1, <2>2, <1>3, <1>8 DEF Proc
<1> QED
  BY <1>1, <1>9, <1>10, <1>11, RaiseOutcome DEF Raising

LEMMA HolderRaise ==
    ASSUME NEW p \in Proc, NEW s \in Sem, NEW n, NEW a, NEW l, Raising(p, s, n, a, l)
    PROVE  HolderOK'
<1> USE EnvAssumption
<1> SUFFICES ASSUME ~overlap PROVE HolderOK'
  BY DEF HolderOK, Raising, Rest
<1>1. /\ adj \in [Proc -> [Sem -> Int]]
      /\ val \in [Sem -> 0..SEMVMX]
      /\ pc \in [Proc -> RefreshLabels \cup CgiLabels]
      /\ HolderOK /\ EnvInv
  BY DEF Raising, EnvInv, TypeOK
<1>2. /\ a \in Int
      /\ l \notin RefreshCS \cup CgiCS
      /\ s = "mutex" => n = 1 /\ adj[p][s] = 1 /\ a = 0
  BY DEF Raising, Raises
<1>3. /\ \A q \in Proc : adj[q]["mutex"] >= 0
      /\ \A q \in Proc : InCS(q) => adj[q]["mutex"] = 1
      /\ \A q, r \in Proc : adj[q]["mutex"] = 1 /\ adj[r]["mutex"] = 1 => q = r
      /\ val["mutex"] <= 1
      /\ val["mutex"] = 1 => \A q \in Proc : adj[q]["mutex"] = 0
  BY <1>1 DEF HolderOK
<1> DEFINE e == [adj EXCEPT ![p][s] = a]
           m == [pc EXCEPT ![p] = l]
<1>4. e \in [Proc -> [Sem -> Int]] /\ m \in [Proc -> RefreshLabels \cup CgiLabels \cup {l}]
  BY <1>1, <1>2, EntryType
<1>5. \A q \in Proc, t \in Sem : e[q][t] = IF q = p /\ t = s THEN a ELSE adj[q][t]
  BY <1>1, <1>2, EntryType
<1>6. \A q \in Proc : m[q] = IF q = p THEN l ELSE pc[q]
  BY <1>1
<1>7. s = "mutex" => \A q \in Proc : e[q]["mutex"] = 0
  <2> SUFFICES ASSUME s = "mutex", NEW q \in Proc PROVE e[q]["mutex"] = 0
    OBVIOUS
  <2>1. CASE q = p
    BY <2>1, <1>2, <1>5 DEF Sem
  <2>2. CASE q # p
    <3>1. adj[q]["mutex"] \in Int /\ adj[q]["mutex"] >= 0 /\ adj[q]["mutex"] <= 1
      BY <1>1, <1>3 DEF EnvInv, EntriesOK, Sem
    <3>2. adj[q]["mutex"] # 1
      BY <2>2, <1>2, <1>3
    <3>3. \A k \in Int : k >= 0 /\ k <= 1 /\ k # 1 => k = 0
      OBVIOUS
    <3> QED BY <3>1, <3>2, <3>3, <2>2, <1>5 DEF Sem
  <2> QED BY <2>1, <2>2
<1>8. s = "mutex" => val["mutex"] = 0
  BY <1>1, <1>2, <1>3 DEF Sem
<1>9. s # "mutex" => \A q \in Proc : e[q]["mutex"] = adj[q]["mutex"]
  BY <1>5 DEF Sem
<1>10. \A q \in Proc : m[q] \in RefreshCS \cup CgiCS => q # p /\ InCS(q)
  BY <1>2, <1>6 DEF InCS
\* so nobody is inside once the holder has let go
<1>11. s = "mutex" => \A q \in Proc : m[q] \notin RefreshCS \cup CgiCS
  BY <1>2, <1>3, <1>10
<1>12. CASE Free(p, s, n, a, l)
  <2>1. CASE s = "mutex"
    <3>1. val'["mutex"] = 1
      BY <2>1, <1>1, <1>2, <1>8, <1>12 DEF Free, Sem
    <3> QED BY <2>1, <3>1, <1>7, <1>11, <1>12 DEF Free, HolderOK, InCS
  <2>2. CASE s # "mutex"
    <3>1. val'["mutex"] = val["mutex"]
      BY <2>2, <1>1, <1>12 DEF Free, Sem
    <3> QED BY <2>2, <3>1, <1>3, <1>9, <1>10, <1>12 DEF Free, HolderOK, InCS
  <2> QED BY <2>1, <2>2
<1>13. ASSUME NEW h \in Proc, h # p, pc[h] = Waiting(s), Grants(p, s, a, l, h)
       PROVE  HolderOK'
  <2>1. /\ adj[h][s] + 1 \in Int
        /\ adj' = [e EXCEPT ![h][s] = adj[h][s] + 1]
        /\ pc' = [m EXCEPT ![h] = Obtained(h, s)]
        /\ val' = val
    BY <1>1, <1>13 DEF Grants
  <2>2. \A q \in Proc, t \in Sem :
           adj'[q][t] = IF q = h /\ t = s THEN adj[h][s] + 1 ELSE e[q][t]
    BY <2>1, <1>4, EntryType
  <2>3. \A q \in Proc : pc'[q] = IF q = h THEN Obtained(h, s) ELSE m[q]
    BY <2>1, <1>4
  <2>4. CASE s = "mutex"
    <3>1. adj[h]["mutex"] = e[h]["mutex"]
      BY <1>5, <1>13 DEF Sem
    <3>2. \A q \in Proc : adj'[q]["mutex"] = IF q = h THEN 1 ELSE 0
      BY <2>4, <2>2, <3>1, <1>7 DEF Sem
    <3>3. \A q \in Proc : q # h => pc'[q] \notin RefreshCS \cup CgiCS
      BY <2>4, <2>3, <1>11
    <3>4. \A q \in Proc : adj'[q]["mutex"] \in {0, 1} /\ (adj'[q]["mutex"] = 1 <=> q = h)
      BY <3>2
    <3>5. \A q \in Proc : InCS(q)' => adj'[q]["mutex"] = 1
      BY <3>3, <3>4 DEF InCS
    <3>6. val'["mutex"] = 0
      BY <2>1, <2>4, <1>8
    <3>7. \A q \in Proc : adj'[q]["mutex"] >= 0
      BY <3>4
    <3> QED BY <3>4, <3>5, <3>6, <3>7 DEF HolderOK
  <2>5. CASE s # "mutex"
    <3>1. \A q \in Proc : adj'[q]["mutex"] = adj[q]["mutex"]
      BY <2>5, <2>2, <1>9 DEF Sem
    <3>2. Obtained(h, s) \notin RefreshCS \cup CgiCS
      BY <2>5 DEF Obtained, RefreshCS, CgiCS, Sem
    <3>3. \A q \in Proc : pc'[q] \in RefreshCS \cup CgiCS => InCS(q)
      BY <2>3, <3>2, <1>10
    <3>4. \A q \in Proc : InCS(q)' => adj'[q]["mutex"] = 1
      BY <3>1, <3>3, <1>3 DEF InCS
    <3>5. /\ \A q \in Proc : adj'[q]["mutex"] >= 0
          /\ \A q, r \in Proc : adj'[q]["mutex"] = 1 /\ adj'[r]["mutex"] = 1 => q = r
      BY <3>1, <1>3
    <3>6. val'["mutex"] = val["mutex"]
      BY <2>1
    <3>7. val'["mutex"] <= 1
      BY <3>6, <1>3
    <3>8. val'["mutex"] = 1 => \A q \in Proc : adj'[q]["mutex"] = 0
      BY <3>1, <3>6, <1>3
    <3> QED BY <3>4, <3>5, <3>7, <3>8 DEF HolderOK
  <2> QED BY <2>4, <2>5
<1>14. CASE Refuses(p, s, a, l)
  <2>1. s # "mutex" /\ val'["mutex"] = val["mutex"] /\ adj' = e
        /\ pc' = [m EXCEPT ![Monitor] = "exit"]
    BY <1>1, <1>14 DEF Refuses, Sem
  <2>2. \A q \in Proc : pc'[q] \in RefreshCS \cup CgiCS => InCS(q)
    BY <2>1, <1>4, <1>10 DEF RefreshCS, CgiCS
  <2>3. \A q \in Proc : adj'[q]["mutex"] = adj[q]["mutex"]
    BY <2>1, <1>9
  <2>4. \A q \in Proc : InCS(q)' => adj'[q]["mutex"] = 1
    BY <2>2, <2>3, <1>3 DEF InCS
  <2>5. /\ \A q \in Proc : adj'[q]["mutex"] >= 0
        /\ \A q, r \in Proc : adj'[q]["mutex"] = 1 /\ adj'[r]["mutex"] = 1 => q = r
        /\ val'["mutex"] = 1 => \A q \in Proc : adj'[q]["mutex"] = 0
    BY <2>1, <2>3, <1>3
  <2>6. val'["mutex"] <= 1
    BY <2>1, <1>3
  <2> QED BY <2>4, <2>5, <2>6 DEF HolderOK
<1> QED
  BY <1>1, <1>12, <1>13, <1>14, RaiseOutcome DEF Raising

LEMMA InvRaise ==
    ASSUME NEW p \in Proc, NEW s \in Sem, NEW n, NEW a, NEW l, Raising(p, s, n, a, l)
    PROVE  EnvInv'
BY TypeRaise, LabelsRaise, QueuesRaise, EntriesRaise, HolderRaise DEF EnvInv

----------------------------------------------------------------------------
\* A step of p to l that leaves the semaphores alone.
Moves(p, l) ==
    /\ pc' = [pc EXCEPT ![p] = l]
    /\ UNCHANGED <<val, adj, queue, overlap>>
    /\ pc[p] \notin {"w_mutex", "w_empty", "w_full"}
    /\ p = Monitor => l \in RefreshLabels
    /\ p \in Cgi => l \in CgiLabels
    /\ adj[p]["mutex"] = 1 => l \in RefreshCS \cup CgiCS \cup {"exit"}
    /\ l \in RefreshCS \cup CgiCS => InCS(p)
    /\ l \in {"idle", "c_full", "w_full"} => adj[p]["full"] # 1

LEMMA InvMove ==
    ASSUME EnvInv, NEW p \in Proc, NEW l, Moves(p, l)
    PROVE  LabelsOK' /\ QueuesOK' /\ EntriesOK' /\ HolderOK'
           /\ pc' \in [Proc -> RefreshLabels \cup CgiLabels]
<1> USE EnvAssumption
<1>1. /\ val \in [Sem -> 0..SEMVMX]
      /\ adj \in [Proc -> [Sem -> Int]]
      /\ queue \in [Sem -> Seq(Proc)]
      /\ pc \in [Proc -> RefreshLabels \cup CgiLabels]
      /\ LabelsOK /\ QueuesOK /\ EntriesOK /\ HolderOK
  BY DEF EnvInv, TypeOK
<1>2. \A q \in Proc : pc'[q] = IF q = p THEN l ELSE pc[q]
  BY <1>1 DEF Moves
<1>3. LabelsOK'
  BY <1>1, <1>2 DEF Moves, LabelsOK, Proc
<1>4. QueuesOK'
  <2>1. \A t \in Sem : \A i \in 1..Len(queue[t]) : queue[t][i] \in Proc /\ queue[t][i] # p
    BY <1>1 DEF Moves, QueuesOK, Waiting
  <2> QED BY <2>1, <1>1, <1>2 DEF Moves, QueuesOK
<1>5. EntriesOK'
  <2>1. \A q \in Proc : adj[q]["mutex"] = 1 => InCS(q)' \/ pc'[q] = "exit"
    BY <1>1, <1>2 DEF Moves, EntriesOK, InCS
  <2>2. \A c \in Cgi : adj[c]["full"] = 1 => pc'[c] \notin {"idle", "c_full", "w_full"}
    BY <1>1, <1>2 DEF Moves, EntriesOK, Proc
  <2> QED BY <2>1, <2>2, <1>1 DEF Moves, EntriesOK
<1>6. HolderOK'
  <2>1. \A q \in Proc : InCS(q)' => InCS(q)
    BY <1>1, <1>2 DEF Moves, InCS
  <2> QED BY <2>1, <1>1 DEF Moves, HolderOK
<1>7. pc' \in [Proc -> RefreshLabels \cup CgiLabels]
  <2>1. l \in RefreshLabels \cup CgiLabels
    BY DEF Moves, Proc
  <2> QED BY <2>1, <1>1, ExceptType DEF Moves
<1> QED BY <1>3, <1>4, <1>5, <1>6, <1>7

LEMMA InvPureMove ==
    ASSUME EnvInv, NEW p \in Proc, NEW l, Moves(p, l), UNCHANGED Rest
    PROVE  EnvInv'
BY InvMove DEF EnvInv, TypeOK, Moves, Rest, dataVars

\* Giving a semaphore back: the calls of sem_v.
Returns(p, s, l) ==
    \/ p = Monitor /\ s = "mutex" /\ pc[p] = "r_vmutex" /\ l = "r_vfull"
    \/ p = Monitor /\ s = "full" /\ pc[p] = "r_vfull" /\ l = "r_signal"
    \/ p \in Cgi /\ s = "mutex" /\ pc[p] = "c_vmutex" /\ l = "c_vempty"
    \/ p \in Cgi /\ s = "empty" /\ pc[p] = "c_vempty" /\ l = "exit"

\* A sem_v that succeeds meets the conditions of Raise.
LEMMA ReturnRaises ==
    ASSUME EnvInv, NEW p \in Proc, NEW s \in Sem, NEW l, Returns(p, s, l)
    PROVE  Raises(p, s, 1, adj[p][s] - 1, l)
<1> USE EnvAssumption
<1> DEFINE a == adj[p][s] - 1
<1>1. /\ adj \in [Proc -> [Sem -> Int]]
      /\ EntriesOK /\ HolderOK /\ LabelsOK
  BY DEF EnvInv, TypeOK
<1>2. a \in Int /\ a < adj[p][s] /\ 1 \in 1..SEMVMX
  BY <1>1
<1>3. /\ pc[p] \notin {"w_mutex", "w_empty", "w_full"}
      /\ l \notin RefreshCS \cup CgiCS \cup {"idle", "c_full", "w_full"}
      /\ p = Monitor => l \in RefreshLabels
      /\ p \in Cgi => l \in CgiLabels
  BY DEF Returns, RefreshCS, CgiCS, RefreshLabels, CgiLabels
<1>4. s = "mutex" => a <= 0 /\ (~overlap => adj[p][s] = 1 /\ a = 0)
  <2>1. s = "mutex" => InCS(p)
    BY DEF Returns, InCS, RefreshCS, CgiCS
  <2>2. adj[p]["mutex"] <= 1 /\ adj[p]["mutex"] \in Int
    BY <1>1 DEF EntriesOK, Sem
  <2>3. \A k \in Int : k <= 1 => k - 1 <= 0
    OBVIOUS
  <2> QED BY <2>1, <2>2, <2>3, <1>1 DEF HolderOK
<1>5. s # "mutex" => adj[p]["mutex"] <= 0 \/ l = "exit"
  <2>1. s # "mutex" /\ l # "exit" => ~InCS(p) /\ pc[p] # "exit"
    BY DEF Returns, InCS, RefreshCS, CgiCS
  <2>2. adj[p]["mutex"] <= 1 /\ adj[p]["mutex"] \in Int
    BY <1>1 DEF EntriesOK, Sem
  <2>3. \A k \in Int : k <= 1 /\ k # 1 => k <= 0
    OBVIOUS
  <2> QED BY <2>1, <2>2, <2>3, <1>1 DEF EntriesOK
<1> QED BY <1>2, <1>3, <1>4, <1>5 DEF Raises

LEMMA InvV ==
    ASSUME EnvInv, NEW p \in Proc, NEW s \in Sem, NEW l, Returns(p, s, l),
           SemV(p, s, l), UNCHANGED Rest
    PROVE  EnvInv'
<1>1. CASE Raise(s, 1, [adj EXCEPT ![p][s] = @ - 1], [pc EXCEPT ![p] = l])
  <2>1. [adj EXCEPT ![p][s] = @ - 1] = [adj EXCEPT ![p][s] = adj[p][s] - 1]
    OBVIOUS
  <2>2. Raising(p, s, 1, adj[p][s] - 1, l)
    BY <1>1, <2>1, ReturnRaises DEF Raising
  <2> QED BY <2>2, InvRaise
<1>2. CASE pc' = [pc EXCEPT ![p] = "exit"] /\ UNCHANGED semVars
  <2>1. Moves(p, "exit")
    BY <1>2, EnvAssumption DEF Returns, Moves, semVars, Rest, RefreshLabels, CgiLabels,
                               RefreshCS, CgiCS
  <2> QED BY <2>1, InvPureMove
<1> QED BY <1>1, <1>2 DEF SemV

\* An entry that exit(2) gives back meets them too.
LEMMA UndoRaises ==
    ASSUME EnvInv, NEW p \in Proc, NEW s \in Sem, pc[p] = "exit", adj[p][s] > 0
    PROVE  /\ Raises(p, s, adj[p][s], 0, "exit")
           /\ s \in {"mutex", "full"} => adj[p][s] = 1
           /\ s = "full" => p \in Cgi
<1> USE EnvAssumption
<1>1. /\ adj \in [Proc -> [Sem -> Int]]
      /\ QueuesOK /\ EntriesOK /\ HolderOK /\ LabelsOK
      /\ adj[p][s] \in Int
  BY DEF EnvInv, TypeOK
<1>2. p = Monitor => s # "full"
  <2>1. adj[Monitor]["full"] <= 0 /\ (p = Monitor => adj[Monitor][s] \in Int)
    BY <1>1 DEF EntriesOK
  <2>2. \A k \in Int : ~(k > 0 /\ k <= 0)
    OBVIOUS
  <2> QED BY <2>1, <2>2
<1>3. s \in {"mutex", "full"} => adj[p][s] = 1
  <2>1. adj[p]["mutex"] <= 1 /\ (p \in Cgi => adj[p]["full"] <= 1)
    BY <1>1 DEF EntriesOK
  <2>2. \A k \in Int : k > 0 /\ k <= 1 => k = 1
    OBVIOUS
  <2> QED BY <2>1, <2>2, <1>1, <1>2 DEF Proc
<1>4. s = "empty" => p = Monitor /\ adj[p][s] <= SEMVMX
  <2>1. p \in Cgi => adj[p]["empty"] <= 0
    BY <1>1 DEF EntriesOK
  <2>2. p = Monitor => adj[p]["empty"] <= SEMVMX
    BY <1>1 DEF EntriesOK
  <2>3. \A k \in Int : ~(k > 0 /\ k <= 0)
    OBVIOUS
  <2> QED BY <1>1, <2>1, <2>2, <2>3 DEF Proc
<1>5. s = "empty" => queue[s] = <<>>
  <2> SUFFICES ASSUME s = "empty", queue[s] # <<>> PROVE FALSE
    OBVIOUS
  <2>1. pc[Monitor] = Waiting(s)
    BY HeadOfQueue
  <2> QED BY <2>1, <1>4 DEF Waiting
<1>6. adj[p][s] \in 1..SEMVMX
  <2>1. CASE s = "empty"
    <3>1. \A k \in Int : k > 0 /\ k <= SEMVMX => k \in 1..SEMVMX
      OBVIOUS
    <3> QED BY <3>1, <2>1, <1>1, <1>4
  <2>2. CASE s # "empty"
    BY <2>2, <1>3 DEF Sem
  <2> QED BY <2>1, <2>2
<1>7. queue[s] # <<>> => adj[p][s] = 1
  BY <1>3, <1>5 DEF Sem
<1>8. Raises(p, s, adj[p][s], 0, "exit")
  BY <1>1, <1>3, <1>6, <1>7 DEF Raises, RefreshCS, CgiCS, RefreshLabels, CgiLabels
<1> QED BY <1>2, <1>3, <1>8 DEF Proc

LEMMA InvUndo ==
    ASSUME EnvInv, NEW p \in Proc, NEW s \in Sem, Undo(p, s)
    PROVE  EnvInv'
<1> USE EnvAssumption
<1>1. /\ adj \in [Proc -> [Sem -> Int]]
      /\ val \in [Sem -> 0..SEMVMX]
      /\ pc \in [Proc -> RefreshLabels \cup CgiLabels]
      /\ queue \in [Sem -> Seq(Proc)]
      /\ QueuesOK /\ EntriesOK /\ HolderOK /\ LabelsOK /\ TypeOK
      /\ pc[p] = "exit" /\ UNCHANGED Rest
  BY DEF EnvInv, TypeOK, Undo, Rest
<1>2. CASE adj[p][s] > 0
  <2>1. [pc EXCEPT ![p] = "exit"] = pc
    BY <1>1
  <2>2. Raise(s, adj[p][s], [adj EXCEPT ![p][s] = 0], [pc EXCEPT ![p] = "exit"])
    <3>1. adj[p][s] \in Int /\ \A k \in Int : ~(k > 0 /\ k < 0)
      BY <1>1
    <3>2. Raise(s, adj[p][s], [adj EXCEPT ![p][s] = 0], pc)
      BY <1>2, <3>1 DEF Undo
    <3> QED BY <2>1, <3>2 DEF Raise
  <2>3. Raising(p, s, adj[p][s], 0, "exit")
    BY <1>1, <1>2, <2>2, UndoRaises DEF Raising
  <2> QED BY <2>3, InvRaise
<1>3. CASE adj[p][s] < 0
  <2>1. /\ val' = [val EXCEPT ![s] = IF @ + adj[p][s] < 0 THEN 0 ELSE @ + adj[p][s]]
        /\ adj' = [adj EXCEPT ![p][s] = 0]
        /\ UNCHANGED <<queue, pc>>
    <3>1. adj[p][s] \in Int
      BY <1>1
    <3>2. \A k \in Int : ~(k > 0 /\ k < 0)
      OBVIOUS
    <3> QED BY <1>3, <3>1, <3>2 DEF Undo
  <2>2. \A q \in Proc, t \in Sem : adj'[q][t] = IF q = p /\ t = s THEN 0 ELSE adj[q][t]
    BY <1>1, <2>1, EntryType
  <2>3. adj' \in [Proc -> [Sem -> Int]]
    BY <1>1, <2>1, EntryType
  <2>4. val' \in [Sem -> 0..SEMVMX] /\ (val[s] = 0 => val' = val)
    <3> DEFINE w == IF val[s] + adj[p][s] < 0 THEN 0 ELSE val[s] + adj[p][s]
    <3>1. val[s] \in 0..SEMVMX /\ adj[p][s] \in Int
      BY <1>1
    <3>2. \A v \in 0..SEMVMX, k \in Int :
             k < 0 => /\ (IF v + k < 0 THEN 0 ELSE v + k) \in 0..SEMVMX
                      /\ v = 0 => (IF v + k < 0 THEN 0 ELSE v + k) = 0
      OBVIOUS
    <3>3. w \in 0..SEMVMX /\ (val[s] = 0 => w = 0)
      BY <3>1, <3>2, <1>3
    <3>4. val' = [val EXCEPT ![s] = w]
      BY <2>1
    <3>5. val' \in [Sem -> 0..SEMVMX]
      BY <3>3, <3>4, <1>1, ExceptType
    <3>6. val[s] = 0 => val' = val
      BY <3>3, <3>4, <1>1
    <3> QED BY <3>5, <3>6
  <2>5. TypeOK'
    BY <1>1, <2>1, <2>3, <2>4 DEF TypeOK, Rest, dataVars
  <2>6. LabelsOK'
    BY <1>1, <2>1 DEF LabelsOK
  <2>7. QueuesOK'
    <3>1. \A t \in Sem : queue[t] # <<>> => val'[t] = 0
      BY <1>1, <2>1, <2>4 DEF QueuesOK
    <3> QED BY <3>1, <1>1, <2>1 DEF QueuesOK
  <2>8. EntriesOK'
    BY <1>1, <2>1, <2>2 DEF EntriesOK, InCS, Sem, Proc
  <2>9. HolderOK'
    <3> SUFFICES ASSUME ~overlap PROVE HolderOK'
      BY <1>1 DEF HolderOK, Rest
    <3>1. s # "mutex"
      <4>1. adj[p]["mutex"] \in Int /\ adj[p]["mutex"] >= 0
        BY <1>1 DEF HolderOK, Sem
      <4>2. \A k \in Int : ~(k >= 0 /\ k < 0)
        OBVIOUS
      <4> QED BY <4>1, <4>2, <1>3
    <3>2. \A q \in Proc : adj'[q]["mutex"] = adj[q]["mutex"]
      BY <3>1, <2>2 DEF Sem
    <3>3. val'["mutex"] = val["mutex"]
      BY <3>1, <1>1, <2>1 DEF Sem
    <3>4. \A q \in Proc : InCS(q)' => InCS(q)
      BY <2>1 DEF InCS
    <3>5. /\ \A q \in Proc : adj'[q]["mutex"] >= 0
          /\ \A q, r \in Proc : adj'[q]["mutex"] = 1 /\ adj'[r]["mutex"] = 1 => q = r
          /\ \A q \in Proc : InCS(q)' => adj'[q]["mutex"] = 1
          /\ val'["mutex"] <= 1
          /\ val'["mutex"] = 1 => \A q \in Proc : adj'[q]["mutex"] = 0
      BY <1>1, <3>2, <3>3, <3>4 DEF HolderOK
    <3> QED BY <3>5 DEF HolderOK
  <2> QED BY <2>5, <2>6, <2>7, <2>8, <2>9 DEF EnvInv
<1>4. adj[p][s] < 0 \/ adj[p][s] > 0
  BY DEF Undo
<1> QED BY <1>2, <1>3, <1>4

----------------------------------------------------------------------------
\* The calls of init_sem.
Initialises(s, v, l) ==
    \/ s = "mutex" /\ v = 1 /\ pc[Monitor] = "i_mutex" /\ l = "i_empty"
    \/ s = "empty" /\ v = 1 /\ pc[Monitor] = "i_empty" /\ l = "i_full"
    \/ s = "full" /\ v = 0 /\ pc[Monitor] = "i_full" /\ l = "i_shm"

LEMMA InvInitSem ==
    ASSUME EnvInv, NEW s \in Sem, NEW v, NEW l, Initialises(s, v, l),
           InitSem(s, v, l),
           UNCHANGED <<tpc, dataVars, boots>>,
           overlap' \in BOOLEAN,
           ~overlap' => ~overlap,
           s = "mutex" /\ ~overlap' => \A p \in Proc : adj[p]["mutex"] = 0
    PROVE  EnvInv'
<1> USE EnvAssumption
<1>1. /\ val \in [Sem -> 0..SEMVMX]
      /\ adj \in [Proc -> [Sem -> Int]]
      /\ queue \in [Sem -> Seq(Proc)]
      /\ pc \in [Proc -> RefreshLabels \cup CgiLabels]
      /\ TypeOK /\ LabelsOK /\ QueuesOK /\ EntriesOK /\ HolderOK
  BY DEF EnvInv, TypeOK
<1>2. /\ Monitor \in Proc /\ v \in {0, 1} /\ v \in 0..SEMVMX
      /\ l \in RefreshLabels /\ l \notin RefreshCS \cup CgiCS
      /\ pc[Monitor] \notin {"w_mutex", "w_empty", "w_full", "exit"}
      /\ ~InCS(Monitor)
      /\ v = 0 => s # "mutex"
  BY DEF Initialises, Proc, RefreshLabels, RefreshCS, CgiCS, InCS
<1> DEFINE e == [p \in Proc |-> [adj[p] EXCEPT ![s] = 0]]
           m == [pc EXCEPT ![Monitor] = l]
<1>3. /\ e \in [Proc -> [Sem -> Int]]
      /\ \A q \in Proc, t \in Sem : e[q][t] = IF t = s THEN 0 ELSE adj[q][t]
      /\ m \in [Proc -> RefreshLabels \cup CgiLabels]
      /\ \A q \in Proc : m[q] = IF q = Monitor THEN l ELSE pc[q]
  BY <1>1, <1>2
<1>4. ~overlap' => /\ \A q \in Proc : adj[q]["mutex"] >= 0
                   /\ \A q \in Proc : InCS(q) => adj[q]["mutex"] = 1
                   /\ \A q, r \in Proc :
                         adj[q]["mutex"] = 1 /\ adj[r]["mutex"] = 1 => q = r
                   /\ val["mutex"] <= 1
                   /\ val["mutex"] = 1 => \A q \in Proc : adj[q]["mutex"] = 0
  BY <1>1 DEF HolderOK
<1>5. s = "mutex" /\ ~overlap' => \A q \in Proc : m[q] \notin RefreshCS \cup CgiCS
  BY <1>2, <1>3, <1>4 DEF InCS
<1>6. \A q \in Proc : m[q] \in RefreshCS \cup CgiCS => InCS(q) /\ q # Monitor
  BY <1>2, <1>3 DEF InCS
<1>7. CASE /\ v = 0 \/ queue[s] = <<>>
           /\ val' = [val EXCEPT ![s] = v]
           /\ adj' = e
           /\ pc' = m
           /\ UNCHANGED queue
  <2>1. val' \in [Sem -> 0..SEMVMX]
    BY <1>1, <1>2, <1>7, ExceptType
  <2>2. TypeOK'
    BY <2>1, <1>1, <1>3, <1>7 DEF TypeOK, dataVars
  <2>3. LabelsOK'
    BY <1>1, <1>2, <1>3, <1>7 DEF LabelsOK, Proc
  <2>4. QueuesOK'
    <3>1. \A t \in Sem : \A i \in 1..Len(queue[t]) :
             queue[t][i] \in Proc /\ queue[t][i] # Monitor
      BY <1>1, <1>2 DEF QueuesOK, Waiting
    <3>2. ASSUME NEW t \in Sem, queue[t] # <<>> PROVE val'[t] = 0
      <4>1. val[t] = 0
        BY <3>2, <1>1 DEF QueuesOK
      <4>2. val'[t] = IF t = s THEN v ELSE val[t]
        BY <1>1, <1>7
      <4>3. t = s => v = 0
        BY <3>2, <1>7
      <4> QED BY <4>1, <4>2, <4>3
    <3>3. ASSUME NEW t \in Sem, NEW i \in 1..Len(queue[t])
          PROVE  pc'[queue[t][i]] = Waiting(t)
      <4>1. queue[t][i] \in Proc /\ queue[t][i] # Monitor
        BY <3>1
      <4>2. pc[queue[t][i]] = Waiting(t)
        BY <1>1 DEF QueuesOK
      <4>3. \A q \in Proc : q # Monitor => pc'[q] = pc[q]
        BY <1>3, <1>7
      <4> QED BY <4>1, <4>2, <4>3
    <3>4. queue' = queue
      BY <1>7
    <3>5. \A t \in Sem : \A i, j \in 1..Len(queue[t]) : queue[t][i] = queue[t][j] => i = j
      BY <1>1 DEF QueuesOK
    <3> HIDE DEF e, m
    <3> QED BY <3>2, <3>3, <3>4, <3>5 DEF QueuesOK, Waiting
  <2>5. EntriesOK'
    <3>1. adj[Monitor]["mutex"] # 1
      BY <1>1, <1>2 DEF EntriesOK
    <3>2. ASSUME NEW q \in Proc
          PROVE  /\ adj'[q]["mutex"] <= 1
                 /\ adj'[q]["mutex"] = 1 => InCS(q)' \/ pc'[q] = "exit"
      <4>1. adj[q]["mutex"] <= 1 /\ (adj[q]["mutex"] = 1 => InCS(q) \/ pc[q] = "exit")
        BY <1>1 DEF EntriesOK
      <4>2. adj'[q]["mutex"] = IF s = "mutex" THEN 0 ELSE adj[q]["mutex"]
        BY <1>3, <1>7 DEF Sem
      <4>3. q # Monitor => pc'[q] = pc[q]
        BY <1>3, <1>7
      <4>4. adj'[q]["mutex"] <= 1
        BY <4>1, <4>2
      <4>5. adj'[q]["mutex"] = 1 => q # Monitor /\ adj[q]["mutex"] = 1
        BY <3>1, <4>2
      <4> QED BY <4>1, <4>3, <4>4, <4>5 DEF InCS
    <3>3. \A c \in Cgi :
             /\ adj'[c]["empty"] <= 0
             /\ adj'[c]["full"] <= 1
             /\ adj'[c]["full"] = 1 => pc'[c] \notin {"idle", "c_full", "w_full"}
      BY <1>1, <1>3, <1>7 DEF EntriesOK, Sem, Proc
    <3>4. adj'[Monitor]["empty"] <= SEMVMX /\ adj'[Monitor]["full"] <= 0
      BY <1>1, <1>2, <1>3, <1>7 DEF EntriesOK, Sem
    <3> QED BY <3>2, <3>3, <3>4 DEF EntriesOK
  <2>6. HolderOK'
    <3>1. CASE s = "mutex"
      <4>1. \A q \in Proc : adj'[q]["mutex"] = 0
        BY <3>1, <1>3, <1>7 DEF Sem
      <4>2. ~overlap' => \A q \in Proc : ~InCS(q)'
        BY <3>1, <1>5, <1>7 DEF InCS
      <4>3. val'["mutex"] \in {0, 1}
        BY <3>1, <1>1, <1>2, <1>7 DEF Sem
      <4> QED BY <4>1, <4>2, <4>3 DEF HolderOK
    <3>2. CASE s # "mutex"
      <4>1. \A q \in Proc : adj'[q]["mutex"] = adj[q]["mutex"]
        BY <3>2, <1>3, <1>7 DEF Sem
      <4>2. val'["mutex"] = val["mutex"]
        BY <3>2, <1>1, <1>7 DEF Sem
      <4>3. \A q \in Proc : InCS(q)' => InCS(q)
        BY <1>6, <1>7 DEF InCS
      <4> QED BY <4>1, <4>2, <4>3, <1>4 DEF HolderOK
    <3> QED BY <3>1, <3>2
  <2> QED BY <2>2, <2>3, <2>4, <2>5, <2>6 DEF EnvInv
<1>8. CASE v = 1 /\ queue[s] # <<>>
  <2>1. PICK h \in Proc : h = Head(queue[s])
    BY <1>8, HeadOfQueue
  <2>2. /\ pc[h] = Waiting(s)
        /\ s = "empty" => h = Monitor
        /\ Tail(queue[s]) \in Seq(Proc)
    BY <1>8, <2>1, HeadOfQueue
  <2>3. h # Monitor /\ h \in Cgi
    BY <2>2, <1>2 DEF Waiting, Proc
  <2>4. s = "mutex"
    BY <2>2, <2>3, <1>8 DEF Initialises
  <2>5. /\ queue' = [queue EXCEPT ![s] = Tail(queue[s])]
        /\ val' = [[val EXCEPT ![s] = v] EXCEPT ![s] = 0]
        /\ adj' = [e EXCEPT ![h][s] = 1]
        /\ pc' = [m EXCEPT ![h] = "c_zig"]
    BY <1>8, <2>1, <2>3, <2>4 DEF InitSem, Obtained
  <2>6. /\ adj' \in [Proc -> [Sem -> Int]]
        /\ \A q \in Proc, t \in Sem : adj'[q][t] = IF q = h /\ t = s THEN 1 ELSE e[q][t]
    BY <2>5, <1>3, EntryType
  <2>7. \A q \in Proc : pc'[q] = IF q = h THEN "c_zig" ELSE m[q]
    BY <2>5, <1>3
  <2>8. val' \in [Sem -> 0..SEMVMX] /\ val'[s] = 0 /\ \A t \in Sem : t # s => val'[t] = val[t]
    <3>1. val' = [val EXCEPT ![s] = 0]
      BY <2>5, <1>1
    <3> QED BY <3>1, <1>1, ExceptType
  <2>9. TypeOK'
    <3>1. pc' \in [Proc -> RefreshLabels \cup CgiLabels]
      BY <2>5, <1>3, ExceptType DEF CgiLabels
    <3>2. queue' \in [Sem -> Seq(Proc)]
      BY <2>2, <2>5, <1>1, ExceptType
    <3> QED BY <3>1, <3>2, <2>6, <2>8, <1>1 DEF TypeOK, dataVars
  <2>10. LabelsOK'
    BY <2>3, <2>7, <1>1, <1>2, <1>3 DEF LabelsOK, CgiLabels, Proc
  <2>11. QueuesOK'
    <3>1. \A q \in Proc : q # Head(queue[s]) /\ pc[q] \in {"w_mutex", "w_empty", "w_full"}
             => pc'[q] = pc[q]
      BY <2>1, <2>7, <1>2, <1>3
    <3>2. val'[s] = 0 /\ \A t \in Sem : t # s => val'[t] = val[t]
      BY <2>8
    <3>3. queue' = [queue EXCEPT ![s] = Tail(queue[s])] /\ queue[s] # <<>>
      BY <2>5, <1>8
    <3> HIDE DEF e, m
    <3> QED BY <3>1, <3>2, <3>3, HeadLeaves
  <2>12. \A q \in Proc : adj'[q]["mutex"] = IF q = h THEN 1 ELSE 0
    BY <2>4, <2>6, <1>3 DEF Sem
  <2>13. EntriesOK'
    <3>1. InCS(h)'
      BY <2>7 DEF InCS, CgiCS
    <3>2. \A q \in Proc : /\ adj'[q]["mutex"] <= 1
                          /\ adj'[q]["mutex"] = 1 => InCS(q)' \/ pc'[q] = "exit"
      BY <3>1, <2>12
    <3>3. \A q \in Proc : adj'[q]["empty"] = adj[q]["empty"] /\ adj'[q]["full"] = adj[q]["full"]
      BY <2>4, <2>6, <1>3 DEF Sem
    <3>4. \A c \in Cgi :
             /\ adj'[c]["empty"] <= 0
             /\ adj'[c]["full"] <= 1
             /\ adj'[c]["full"] = 1 => pc'[c] \notin {"idle", "c_full", "w_full"}
      BY <3>3, <2>7, <1>1, <1>3 DEF EntriesOK, Proc
    <3>5. adj'[Monitor]["empty"] <= SEMVMX /\ adj'[Monitor]["full"] <= 0
      BY <3>3, <1>1, <1>2 DEF EntriesOK
    <3> QED BY <3>2, <3>4, <3>5 DEF EntriesOK
  <2>14. HolderOK'
    <3>1. ~overlap' => \A q \in Proc : InCS(q)' => q = h
      BY <2>4, <2>7, <1>5 DEF InCS
    <3>2. val'["mutex"] = 0
      BY <2>4, <2>8
    <3> QED BY <3>1, <3>2, <2>12 DEF HolderOK
  <2> QED BY <2>9, <2>10, <2>11, <2>13, <2>14 DEF EnvInv
<1> QED BY <1>7, <1>8 DEF InitSem

----------------------------------------------------------------------------
\* What is left of a queue when position i is taken out.
LEMMA WithoutProperties ==
    ASSUME NEW S, NEW q \in Seq(S), NEW i \in 1..Len(q)
    PROVE  /\ Without(q, i) \in Seq(S)
           /\ Len(Without(q, i)) = Len(q) - 1
           /\ \A j \in 1..Len(q) - 1 :
                 Without(q, i)[j] = q[IF j < i THEN j ELSE j + 1]
<1>1. PICK n \in Nat : n = Len(q) /\ i \in 1..n
  BY LenProperties
<1>2. \A j \in 1..n : q[j] \in S
  BY <1>1
<1> DEFINE a == SubSeq(q, 1, i - 1)
           b == SubSeq(q, i + 1, n)
<1>3. i \in Int /\ i - 1 \in Int /\ i + 1 \in Int /\ n \in Int /\ i >= 1 /\ i <= n
  BY <1>1
<1>4. /\ a \in Seq(S) /\ Len(a) = i - 1
      /\ \A j \in 1..i - 1 : a[j] = q[j]
  <2>1. \A j \in 1..i - 1 : q[j] \in S
    BY <1>2, <1>3
  <2>2. /\ a \in Seq(S)
        /\ Len(a) = IF 1 <= i - 1 THEN (i - 1) - 1 + 1 ELSE 0
        /\ \A j \in 1..(i - 1) - 1 + 1 : a[j] = q[1 + j - 1]
    BY <1>3, <2>1, SubSeqProperties
  <2> QED BY <1>3, <2>2
<1>5. /\ b \in Seq(S) /\ Len(b) = n - i
      /\ \A j \in 1..n - i : b[j] = q[i + j]
  <2>1. \A j \in (i + 1)..n : q[j] \in S
    BY <1>2, <1>3
  <2>2. /\ b \in Seq(S)
        /\ Len(b) = IF i + 1 <= n THEN n - (i + 1) + 1 ELSE 0
        /\ \A j \in 1..n - (i + 1) + 1 : b[j] = q[(i + 1) + j - 1]
    BY <1>3, <2>1, SubSeqProperties
  <2> QED BY <1>3, <2>2
<1> HIDE DEF a, b
<1>6. /\ a \o b \in Seq(S)
      /\ Len(a \o b) = Len(a) + Len(b)
      /\ \A j \in 1..Len(a) + Len(b) :
            (a \o b)[j] = IF j <= Len(a) THEN a[j] ELSE b[j - Len(a)]
  BY <1>4, <1>5, ConcatProperties
<1>7. Without(q, i) = a \o b
  BY <1>1 DEF Without, a, b
<1>8. ASSUME NEW j \in 1..n - 1
      PROVE  (a \o b)[j] = q[IF j < i THEN j ELSE j + 1]
  <2>0. Len(a) + Len(b) = n - 1
    <3>1. \A x, y \in Int : (x - 1) + (y - x) = y - 1
      OBVIOUS
    <3> QED BY <3>1, <1>3, <1>4, <1>5
  <2>1. (a \o b)[j] = IF j <= i - 1 THEN a[j] ELSE b[j - (i - 1)]
    BY <2>0, <1>4, <1>6
  <2>2. CASE j < i
    <3>1. j \in 1..i - 1
      BY <2>2, <1>3
    <3> QED BY <3>1, <2>1, <2>2, <1>4
  <2>3. CASE ~(j < i)
    <3>1. j - (i - 1) \in 1..n - i /\ i + (j - (i - 1)) = j + 1 /\ ~(j <= i - 1)
      BY <2>3, <1>3
    <3> QED BY <3>1, <2>1, <2>3, <1>5
  <2> QED BY <2>2, <2>3
<1>9. Len(a \o b) = n - 1
  <2>1. \A x, y \in Int : (x - 1) + (y - x) = y - 1
    OBVIOUS
  <2> QED BY <2>1, <1>3, <1>4, <1>5, <1>6
<1> QED BY <1>1, <1>6, <1>7, <1>8, <1>9

\* A process p dies, or is interrupted, wherever it is.
LEMMA InvLeave ==
    ASSUME EnvInv, NEW p \in Proc, Leave(p), UNCHANGED Rest
    PROVE  EnvInv'
<1> USE EnvAssumption
<1>1. /\ val \in [Sem -> 0..SEMVMX]
      /\ adj \in [Proc -> [Sem -> Int]]
      /\ queue \in [Sem -> Seq(Proc)]
      /\ pc \in [Proc -> RefreshLabels \cup CgiLabels]
      /\ TypeOK /\ LabelsOK /\ QueuesOK /\ EntriesOK /\ HolderOK
  BY DEF EnvInv, TypeOK
<1>2. UNCHANGED <<val, adj>> /\ \A q \in Proc : pc'[q] = IF q = p THEN "exit" ELSE pc[q]
  BY <1>1 DEF Leave
<1>3. /\ pc' \in [Proc -> RefreshLabels \cup CgiLabels]
      /\ LabelsOK'
  <2>1. "exit" \in RefreshLabels \cap CgiLabels
    BY DEF RefreshLabels, CgiLabels
  <2>2. pc' \in [Proc -> RefreshLabels \cup CgiLabels]
    BY <2>1, <1>1, ExceptType DEF Leave
  <2> QED BY <2>1, <2>2, <1>1, <1>2 DEF LabelsOK, Proc
<1>4. EntriesOK'
  <2>1. \A q \in Proc : InCS(q) \/ pc[q] = "exit" => InCS(q)' \/ pc'[q] = "exit"
    BY <1>2 DEF InCS
  <2>2. \A c \in Cgi : adj[c]["full"] = 1 => pc'[c] \notin {"idle", "c_full", "w_full"}
    BY <1>1, <1>2 DEF EntriesOK, Proc
  <2>3. adj' = adj
    BY <1>2
  <2>4. \A q \in Proc : adj[q]["mutex"] <= 1
                       /\ (adj[q]["mutex"] = 1 => InCS(q)' \/ pc'[q] = "exit")
    BY <2>1, <1>1 DEF EntriesOK
  <2>5. /\ \A c \in Cgi : adj[c]["empty"] <= 0 /\ adj[c]["full"] <= 1
        /\ adj[Monitor]["empty"] <= SEMVMX
        /\ adj[Monitor]["full"] <= 0
    BY <1>1 DEF EntriesOK
  <2> QED BY <2>2, <2>3, <2>4, <2>5 DEF EntriesOK
<1>5. HolderOK'
  <2>1. \A q \in Proc : InCS(q)' => InCS(q)
    BY <1>2 DEF InCS, RefreshCS, CgiCS
  <2> QED BY <2>1, <1>1, <1>2 DEF HolderOK, Rest
<1>6. ASSUME NEW s \in Sem, NEW i \in 1..Len(queue[s]), queue[s][i] = p,
             queue' = [queue EXCEPT ![s] = Without(@, i)]
      PROVE  QueuesOK' /\ queue' \in [Sem -> Seq(Proc)]
  <2>1. PICK n \in Nat : n = Len(queue[s]) /\ i \in 1..n
    BY <1>1, <1>6, LenProperties
  <2>a. PICK w : w = Without(queue[s], i)
    OBVIOUS
  <2>2. /\ w \in Seq(Proc)
        /\ Len(w) = n - 1
        /\ \A j \in 1..n - 1 : w[j] = queue[s][IF j < i THEN j ELSE j + 1]
    <3>1. queue[s] \in Seq(Proc) /\ i \in 1..Len(queue[s])
      BY <1>1
    <3>2. /\ Without(queue[s], i) \in Seq(Proc)
          /\ Len(Without(queue[s], i)) = Len(queue[s]) - 1
          /\ \A j \in 1..Len(queue[s]) - 1 :
                Without(queue[s], i)[j] = queue[s][IF j < i THEN j ELSE j + 1]
      BY <3>1, WithoutProperties
    <3> QED BY <3>2, <2>1, <2>a
  <2>3. PICK f : f = [j \in 1..Len(w) |-> IF j < i THEN j ELSE j + 1]
    OBVIOUS
  <2>4. /\ \A j \in 1..n - 1 : f[j] = (IF j < i THEN j ELSE j + 1) /\ f[j] \in 1..n /\ f[j] # i
        /\ f \in [1..Len(w) -> 1..Len(queue[s])]
    BY <2>1, <2>2, <2>3
  <2>5. \A j, k \in 1..Len(w) : f[j] = f[k] => j = k
    BY <2>1, <2>2, <2>4
  <2>6. \A j \in 1..Len(w) : w[j] = queue[s][f[j]] /\ w[j] # p
    <3>1. \A j, k \in 1..n : queue[s][j] = queue[s][k] => j = k
      BY <1>1, <2>1 DEF QueuesOK
    <3>2. \A j \in 1..Len(w) : j \in 1..n - 1 /\ w[j] = queue[s][f[j]]
      BY <2>1, <2>2, <2>4
    <3>3. \A j \in 1..Len(w) : f[j] \in 1..n /\ f[j] # i
      BY <3>2, <2>4
    <3>4. queue[s][i] = p
      BY <1>6
    <3> QED BY <3>1, <3>2, <3>3, <3>4, <2>1
  <2>7. queue' = [queue EXCEPT ![s] = w]
    BY <1>6, <2>a
  <2>8. pc[p] = Waiting(s)
    BY <1>1, <1>6 DEF QueuesOK
  <2>9. w # <<>> => val'[s] = 0
    <3>1. w # <<>> => queue[s] # <<>>
      BY <2>1, EmptySeq
    <3> QED BY <3>1, <1>1, <1>2 DEF QueuesOK
  <2>10. Shrinks(s, p, w, f)
    BY <2>4, <2>5, <2>6, <2>7, <2>8, <2>9, <1>2 DEF Shrinks
  <2>11. queue' \in [Sem -> Seq(Proc)]
    BY <2>2, <2>7, <1>1, ExceptType
  <2> QED BY <2>2, <2>10, <2>11, QueueShrinks
<1>7. ASSUME \A s \in Sem : \A i \in 1..Len(queue[s]) : queue[s][i] # p,
             UNCHANGED queue
      PROVE  QueuesOK' /\ queue' \in [Sem -> Seq(Proc)]
  <2>1. ASSUME NEW t \in Sem, NEW i \in 1..Len(queue[t])
        PROVE  pc'[queue[t][i]] = Waiting(t)
    <3>1. queue[t][i] \in Proc /\ queue[t][i] # p
      BY <1>1, <1>7
    <3>2. pc[queue[t][i]] = Waiting(t)
      BY <1>1 DEF QueuesOK
    <3> QED BY <3>1, <3>2, <1>2
  <2>2. queue' = queue /\ val' = val
    BY <1>2, <1>7
  <2>3. /\ \A t \in Sem : \A i, j \in 1..Len(queue[t]) : queue[t][i] = queue[t][j] => i = j
        /\ \A t \in Sem : queue[t] # <<>> => val[t] = 0
    <3>1. QueuesOK
      BY <1>1
    <3> QED BY <3>1 DEF QueuesOK
  <2> QED BY <2>1, <2>2, <2>3, <1>1 DEF QueuesOK, Waiting
<1>8. QueuesOK' /\ queue' \in [Sem -> Seq(Proc)]
  BY <1>6, <1>7 DEF Leave
<1>9. TypeOK'
  BY <1>1, <1>2, <1>3, <1>8 DEF TypeOK, Rest, dataVars
<1> QED BY <1>3, <1>4, <1>5, <1>8, <1>9 DEF EnvInv

----------------------------------------------------------------------------
LEMMA InitInv ==
    ASSUME Init
    PROVE  EnvInv
<1> USE EnvAssumption
<1>1. \A p \in Proc : pc[p] \in RefreshLabels \cup CgiLabels /\ ~InCS(p)
  BY DEF Init, RefreshLabels, CgiLabels, InCS, RefreshCS, CgiCS
<1>2. /\ val \in [Sem -> 0..SEMVMX]
      /\ adj \in [Proc -> [Sem -> Int]]
      /\ queue \in [Sem -> Seq(Proc)]
      /\ pc \in [Proc -> RefreshLabels \cup CgiLabels]
  BY <1>1, EmptySeq DEF Init
<1>3. /\ env \in Sample /\ shm \in Slot /\ page \in [Cgi -> Sample]
      /\ tpc \in TransferLabels /\ boots \in 1..MaxBoots /\ overlap \in BOOLEAN
  <2>1. 0 \in Run
    BY DEF Run
  <2>2. env \in Sample /\ page \in [Cgi -> Sample]
    BY <2>1 DEF Init, Sample
  <2>3. shm \in Slot
    BY <2>1 DEF Init, Slot
  <2>4. tpc \in TransferLabels /\ overlap \in BOOLEAN
    BY DEF Init, TransferLabels
  <2>5. boots \in 1..MaxBoots
    BY DEF Init
  <2> QED BY <2>2, <2>3, <2>4, <2>5
<1>4. LabelsOK
  BY DEF Init, LabelsOK, RefreshLabels, CgiLabels, Proc
<1>5. QueuesOK
  <2>1. \A s \in Sem : queue[s] = <<>> /\ Len(queue[s]) = 0
    BY EmptySeq DEF Init
  <2> QED BY <2>1 DEF QueuesOK
<1>6. \A p \in Proc, s \in Sem : adj[p][s] = 0 /\ val[s] = 0
  BY DEF Init
<1>7. EntriesOK /\ HolderOK
  BY <1>1, <1>6 DEF EntriesOK, HolderOK, Sem, Proc
<1> QED BY <1>2, <1>3, <1>4, <1>5, <1>7 DEF EnvInv, TypeOK

\* A step of p to l that also changes the samples, within their types.
LEMMA InvDataMove ==
    ASSUME EnvInv, NEW p \in Proc, NEW l, Moves(p, l),
           tpc' \in TransferLabels, env' \in Sample, shm' \in Slot,
           page' \in [Cgi -> Sample], boots' \in 1..MaxBoots
    PROVE  EnvInv'
<1>1. UNCHANGED <<val, adj, queue, overlap>>
  BY DEF Moves
<1>2. /\ LabelsOK' /\ QueuesOK' /\ EntriesOK' /\ HolderOK'
      /\ pc' \in [Proc -> RefreshLabels \cup CgiLabels]
  BY InvMove
<1> QED BY <1>1, <1>2 DEF EnvInv, TypeOK

LEMMA InvRefresh ==
    ASSUME EnvInv, Refresh
    PROVE  EnvInv'
<1> USE EnvAssumption
<1>1. /\ TypeOK /\ Monitor \in Proc /\ adj[Monitor]["mutex"] \in Int
      /\ adj[Monitor]["mutex"] = 1 => InCS(Monitor) \/ pc[Monitor] = "exit"
      /\ env \in Sample /\ shm \in Slot /\ page \in [Cgi -> Sample]
      /\ tpc \in TransferLabels /\ boots \in 1..MaxBoots /\ overlap \in BOOLEAN
  BY DEF EnvInv, TypeOK, EntriesOK, Proc, Sem
<1>2. /\ "mutex" \in Sem /\ "empty" \in Sem /\ "full" \in Sem
  BY DEF Sem
<1>3. CASE InitMutex
  <2>1. Initialises("mutex", 1, "i_empty")
    BY <1>3 DEF InitMutex, Initialises
  <2>2. /\ InitSem("mutex", 1, "i_empty")
        /\ UNCHANGED <<tpc, dataVars, boots>>
        /\ overlap' \in BOOLEAN
        /\ ~overlap' => ~overlap /\ \A p \in Proc : adj[p]["mutex"] = 0
    BY <1>1, <1>3 DEF InitMutex
  <2> QED BY <2>1, <2>2, <1>2, InvInitSem
<1>4. CASE InitEmpty
  <2>1. Initialises("empty", 1, "i_full")
    BY <1>4 DEF InitEmpty, Initialises
  <2>2. /\ InitSem("empty", 1, "i_full")
        /\ UNCHANGED <<tpc, dataVars, boots>>
        /\ overlap' \in BOOLEAN
        /\ ~overlap' => ~overlap
    BY <1>1, <1>4 DEF InitEmpty
  <2> QED BY <2>1, <2>2, <1>2, InvInitSem
<1>5. CASE InitFull
  <2>1. Initialises("full", 0, "i_shm")
    BY <1>5 DEF InitFull, Initialises
  <2>2. /\ InitSem("full", 0, "i_shm")
        /\ UNCHANGED <<tpc, dataVars, boots>>
        /\ overlap' \in BOOLEAN
        /\ ~overlap' => ~overlap
    BY <1>1, <1>5 DEF InitFull
  <2> QED BY <2>1, <2>2, <1>2, InvInitSem
<1>6. CASE InitShm
  <2>1. Moves(Monitor, "r_empty")
    BY <1>1, <1>6 DEF InitShm, Moves, semVars, InCS, RefreshCS, CgiCS, RefreshLabels
  <2>2. shm' \in Slot
    BY <1>1, <1>6 DEF InitShm, Slot
  <2> QED BY <2>1, <2>2, <1>1, <1>6, InvDataMove DEF InitShm
<1>7. CASE RefreshP
  BY <1>1, <1>2, <1>7, InvP DEF RefreshP, Calls, Rest
<1>8. CASE RefreshCopyA9
  <2>1. Moves(Monitor, "r_zig")
    BY <1>1, <1>8 DEF RefreshCopyA9, Moves, semVars, InCS, RefreshCS, CgiCS, RefreshLabels
  <2>2. shm' \in Slot
    BY <1>1, <1>8 DEF RefreshCopyA9, Slot, Sample
  <2> QED BY <2>1, <2>2, <1>1, <1>8, InvDataMove DEF RefreshCopyA9
<1>9. CASE RefreshCopyZig
  <2>1. Moves(Monitor, "r_vmutex")
    BY <1>1, <1>9 DEF RefreshCopyZig, Moves, semVars, InCS, RefreshCS, CgiCS, RefreshLabels
  <2>2. shm' \in Slot
    BY <1>1, <1>9 DEF RefreshCopyZig, Slot, Sample
  <2> QED BY <2>1, <2>2, <1>1, <1>9, InvDataMove DEF RefreshCopyZig
<1>10. CASE RefreshV
  BY <1>1, <1>2, <1>10, InvV DEF RefreshV, Returns, Rest
<1>11. CASE RefreshSignal
  <2>1. Moves(Monitor, "r_empty")
    BY <1>1, <1>11 DEF RefreshSignal, Moves, semVars, InCS, RefreshCS, CgiCS, RefreshLabels
  <2>2. tpc' \in TransferLabels
    BY <1>1, <1>11 DEF RefreshSignal, TransferLabels
  <2> QED BY <2>1, <2>2, <1>1, <1>11, InvDataMove DEF RefreshSignal, dataVars
<1> QED
  BY <1>3, <1>4, <1>5, <1>6, <1>7, <1>8, <1>9, <1>10, <1>11 DEF Refresh

LEMMA InvTransfer ==
    ASSUME EnvInv, Transfer \/ TransferSpurious \/ UNCHANGED vars
    PROVE  EnvInv'
<1> USE EnvAssumption
<1>1. /\ UNCHANGED <<semVars, pc, shm, page, boots, overlap>>
      /\ tpc' \in TransferLabels
      /\ env' \in Sample
  <2>1. env \in Sample /\ tpc \in TransferLabels
    BY DEF EnvInv, TypeOK
  <2>2. CASE TransferZig
    <3>1. env.zig \in Run /\ env.zig < MaxSample
      BY <2>1, <2>2 DEF TransferZig, Sample
    <3>2. env.zig + 1 \in Run
      BY <3>1 DEF Run
    <3> QED BY <3>2, <2>1, <2>2 DEF TransferZig, Sample, TransferLabels
  <2>3. CASE TransferWait \/ TransferSpurious \/ TransferA9 \/ UNCHANGED vars
    BY <2>1, <2>3 DEF TransferWait, TransferSpurious, TransferA9, Sample,
                      TransferLabels, vars, semVars, dataVars
  <2> QED BY <2>2, <2>3 DEF Transfer
<1> QED
  BY <1>1 DEF EnvInv, TypeOK, LabelsOK, QueuesOK, EntriesOK, HolderOK, InCS,
              Waiting, semVars

LEMMA InvCgi ==
    ASSUME EnvInv, NEW c \in Cgi,
           Request(c) \/ Serve(c) \/ CgiReaped(c) \/ CgiKilled(c)
    PROVE  EnvInv'
<1> USE EnvAssumption
<1>1. /\ c \in Proc /\ c # Monitor
      /\ adj[c]["mutex"] = 1 => InCS(c) \/ pc[c] = "exit"
      /\ adj[c]["full"] = 1 => pc[c] \notin {"idle", "c_full", "w_full"}
      /\ env \in Sample /\ shm \in Slot /\ page \in [Cgi -> Sample]
      /\ tpc \in TransferLabels /\ boots \in 1..MaxBoots /\ overlap \in BOOLEAN
  BY DEF EnvInv, TypeOK, EntriesOK, Proc
<1>2. "mutex" \in Sem /\ "empty" \in Sem /\ "full" \in Sem /\ 0 \in Run
  BY DEF Sem, Run
<1>3. CASE Request(c)
  <2>1. Moves(c, "c_full")
    BY <1>1, <1>3 DEF Request, Moves, semVars, InCS, RefreshCS, CgiCS, CgiLabels
  <2>2. page' \in [Cgi -> Sample]
    BY <1>1, <1>2, <1>3 DEF Request, Sample
  <2> QED BY <2>1, <2>2, <1>1, <1>3, InvDataMove DEF Request
<1>4. CASE CgiP(c)
  BY <1>1, <1>2, <1>4, InvP DEF CgiP, Calls, Rest
<1>5. CASE CgiReadZig(c)
  <2>1. PICK l \in {"c_a9", "c_vmutex"} : pc' = [pc EXCEPT ![c] = l]
    BY <1>5 DEF CgiReadZig
  <2>2. Moves(c, l)
    BY <2>1, <1>1, <1>5 DEF CgiReadZig, Moves, semVars, InCS, RefreshCS, CgiCS, CgiLabels
  <2>3. page' \in [Cgi -> Sample]
    BY <1>1, <1>2, <1>5 DEF CgiReadZig, Sample, Slot
  <2> QED BY <2>2, <2>3, <1>1, <1>5, InvDataMove DEF CgiReadZig
<1>6. CASE CgiReadA9(c)
  <2>1. Moves(c, "c_vmutex")
    BY <1>1, <1>6 DEF CgiReadA9, Moves, semVars, InCS, RefreshCS, CgiCS, CgiLabels
  <2>2. page' \in [Cgi -> Sample]
    BY <1>1, <1>2, <1>6 DEF CgiReadA9, Sample, Slot
  <2> QED BY <2>1, <2>2, <1>1, <1>6, InvDataMove DEF CgiReadA9
<1>7. CASE CgiV(c)
  BY <1>1, <1>2, <1>7, InvV DEF CgiV, Returns, Rest
<1>8. CASE CgiReaped(c)
  <2>1. adj[c]["mutex"] = 0 /\ adj[c]["full"] = 0
    BY <1>2, <1>8 DEF CgiReaped
  <2>2. Moves(c, "idle")
    BY <2>1, <1>1, <1>8 DEF CgiReaped, Moves, semVars, RefreshCS, CgiCS, CgiLabels
  <2> QED BY <2>2, <1>1, <1>8, InvPureMove DEF CgiReaped, Rest
<1>9. CASE CgiKilled(c)
  BY <1>1, <1>9, InvLeave DEF CgiKilled, Rest
<1> QED
  BY <1>3, <1>4, <1>5, <1>6, <1>7, <1>8, <1>9 DEF Serve

LEMMA InvMain ==
    ASSUME EnvInv, Interrupt \/ MonitorReaped \/ Restart
    PROVE  EnvInv'
<1> USE EnvAssumption
<1>1. /\ Monitor \in Proc
      /\ adj[Monitor]["mutex"] = 1 => InCS(Monitor) \/ pc[Monitor] = "exit"
      /\ env \in Sample /\ shm \in Slot /\ page \in [Cgi -> Sample]
      /\ tpc \in TransferLabels /\ boots \in 1..MaxBoots
  BY DEF EnvInv, TypeOK, EntriesOK, Proc
<1>2. CASE Interrupt
  BY <1>1, <1>2, InvLeave DEF Interrupt, Rest
<1>3. CASE MonitorReaped
  <2>1. adj[Monitor]["mutex"] = 0
    BY <1>3 DEF MonitorReaped, Sem
  <2>2. Moves(Monitor, "down")
    BY <2>1, <1>1, <1>3 DEF MonitorReaped, Moves, semVars, RefreshCS, CgiCS, RefreshLabels
  <2> QED BY <2>2, <1>1, <1>3, InvPureMove DEF MonitorReaped, Rest
<1>4. CASE Restart
  <2>1. Moves(Monitor, "i_mutex")
    BY <1>1, <1>4 DEF Restart, Moves, semVars, InCS, RefreshCS, CgiCS, RefreshLabels
  <2>2. env' \in Sample /\ tpc' \in TransferLabels
    BY <1>4 DEF Restart, Sample, Run, TransferLabels
  <2>3. boots' \in 1..MaxBoots
    BY <1>1, <1>4 DEF Restart
  <2> QED BY <2>1, <2>2, <2>3, <1>1, <1>4, InvDataMove DEF Restart
<1> QED BY <1>2, <1>3, <1>4

LEMMA InvNext ==
    ASSUME EnvInv, [Next]_vars
    PROVE  EnvInv'
<1>1. CASE Refresh
  BY <1>1, InvRefresh
<1>2. CASE Transfer \/ TransferSpurious \/ UNCHANGED vars
  BY <1>2, InvTransfer
<1>3. CASE \E c \in Cgi : Request(c) \/ Serve(c) \/ CgiReaped(c) \/ CgiKilled(c)
  BY <1>3, InvCgi
<1>4. CASE \E p \in Proc : Exit(p)
  BY <1>4, InvUndo DEF Exit
<1>5. CASE Interrupt \/ MonitorReaped \/ Restart
  BY <1>5, InvMain
<1> QED BY <1>1, <1>2, <1>3, <1>4, <1>5 DEF Next

----------------------------------------------------------------------------
\* What the calls of semop, semctl and exit do, value by value.

\* Only semaphore s changes.
Touches(s) ==
    \A t \in Sem : t # s => /\ val'[t] = val[t]
                            /\ \A q \in Proc : adj'[q][t] = adj[q][t]

\* p lowers its entry of s to a and goes on at l while nobody waits for s,
Alone(p, s, n, a, l) ==
    /\ val'[s] = IF val[s] + n > SEMVMX THEN SEMVMX ELSE val[s] + n
    /\ \A q \in Proc : adj'[q][s] = IF q = p THEN a ELSE adj[q][s]
    /\ \A q \in Proc : pc'[q] = IF q = p THEN l ELSE pc[q]

\* or passes the token to h,
PassesTo(p, s, a, l, h) ==
    /\ h # p /\ pc[h] = Waiting(s) /\ val[s] = 0
    /\ val'[s] = val[s]
    /\ \A q \in Proc : adj'[q][s] = IF q = p THEN a
                                    ELSE IF q = h THEN adj[q][s] + 1 ELSE adj[q][s]
    /\ \A q \in Proc : pc'[q] = IF q = p THEN l
                                ELSE IF q = h THEN Obtained(h, s) ELSE pc[q]

\* or fails to, the entry of the monitor being full.
Drops(p, s, a, l) ==
    /\ s = "empty" /\ pc[Monitor] = "w_empty" /\ p # Monitor
    /\ pc'[Monitor] = "exit"
    /\ \A q \in Proc : q # Monitor => pc'[q] = IF q = p THEN l ELSE pc[q]

LEMMA RaiseEffect ==
    ASSUME EnvInv, NEW p \in Proc, NEW s \in Sem, NEW n, NEW a, NEW l,
           Raises(p, s, n, a, l),
           Raise(s, n, [adj EXCEPT ![p][s] = a], [pc EXCEPT ![p] = l])
    PROVE  /\ Touches(s)
           /\ \/ Alone(p, s, n, a, l)
              \/ \E h \in Proc : PassesTo(p, s, a, l, h)
              \/ Drops(p, s, a, l)
<1> USE EnvAssumption
<1>1. /\ a \in Int /\ n \in 1..SEMVMX
      /\ adj \in [Proc -> [Sem -> Int]] /\ val \in [Sem -> 0..SEMVMX]
      /\ pc \in [Proc -> RefreshLabels \cup CgiLabels]
  BY DEF Raises, EnvInv, TypeOK
<1>a. PICK e, m : e = [adj EXCEPT ![p][s] = a] /\ m = [pc EXCEPT ![p] = l]
  OBVIOUS
<1>2. /\ e \in [Proc -> [Sem -> Int]]
      /\ \A q \in Proc, t \in Sem : e[q][t] = IF q = p /\ t = s THEN a ELSE adj[q][t]
  BY <1>a, <1>1, EntryType
<1>3. /\ \A q \in Proc : m[q] = IF q = p THEN l ELSE pc[q]
      /\ DOMAIN m = Proc
  BY <1>a, <1>1
<1>4. CASE Free(p, s, n, a, l)
  <2>1. Touches(s)
    BY <1>a, <1>1, <1>2, <1>4 DEF Free, Touches
  <2>2. Alone(p, s, n, a, l)
    BY <1>a, <1>1, <1>2, <1>3, <1>4 DEF Free, Alone
  <2> QED BY <2>1, <2>2
<1>5. ASSUME NEW h \in Proc, h # p, pc[h] = Waiting(s), Grants(p, s, a, l, h)
      PROVE  Touches(s) /\ PassesTo(p, s, a, l, h)
  <2>1. adj' = [e EXCEPT ![h][s] = adj[h][s] + 1] /\ adj[h][s] + 1 \in Int
    BY <1>a, <1>1, <1>2, <1>5 DEF Grants
  <2>2. \A q \in Proc, t \in Sem :
           adj'[q][t] = IF q = h /\ t = s THEN adj[h][s] + 1 ELSE e[q][t]
    BY <2>1, <1>2, EntryType
  <2>3. pc' = [m EXCEPT ![h] = Obtained(h, s)]
    BY <1>a, <1>3, <1>5 DEF Grants
  <2>4. \A q \in Proc : pc'[q] = IF q = h THEN Obtained(h, s) ELSE m[q]
    BY <2>3, <1>3
  <2>5. val' = val /\ val[s] = 0
    BY <1>5, HeadOfQueue DEF Grants
  <2> QED BY <2>2, <2>4, <2>5, <1>2, <1>3, <1>5 DEF Touches, PassesTo
<1>6. CASE Refuses(p, s, a, l)
  <2>1. Touches(s)
    BY <1>a, <1>1, <1>2, <1>6 DEF Refuses, Touches
  <2>2. pc[Monitor] = "w_empty" /\ p # Monitor
    BY <1>6, HeadOfQueue DEF Refuses, Waiting, Raises
  <2>3. pc' = [m EXCEPT ![Monitor] = "exit"]
    BY <1>a, <1>6 DEF Refuses
  <2>4. \A q \in Proc : pc'[q] = IF q = Monitor THEN "exit" ELSE m[q]
    BY <1>3, <2>3
  <2> QED BY <2>1, <2>2, <2>4, <1>3, <1>6 DEF Refuses, Drops, Proc
<1> QED BY <1>4, <1>5, <1>6, RaiseOutcome

\* A sem_p obtains s,
Takes(p, s) ==
    /\ val[s] > 0 /\ val'[s] = val[s] - 1
    /\ \A q \in Proc : adj'[q][s] = IF q = p THEN adj[q][s] + 1 ELSE adj[q][s]
    /\ \A q \in Proc : pc'[q] = IF q = p THEN Obtained(p, s) ELSE pc[q]

\* or waits for it, or fails.
Misses(p, s) ==
    /\ UNCHANGED <<val, adj>>
    /\ \E l \in {"exit", Waiting(s)} : \A q \in Proc : pc'[q] = IF q = p THEN l ELSE pc[q]

LEMMA TakeEffect ==
    ASSUME EnvInv, NEW p \in Proc, NEW s \in Sem, SemP(p, s)
    PROVE  Touches(s) /\ (Takes(p, s) \/ Misses(p, s))
<1> USE EnvAssumption
<1>1. /\ adj \in [Proc -> [Sem -> Int]] /\ val \in [Sem -> 0..SEMVMX]
      /\ pc \in [Proc -> RefreshLabels \cup CgiLabels]
  BY DEF EnvInv, TypeOK
<1>2. CASE /\ val[s] > 0
           /\ val' = [val EXCEPT ![s] = @ - 1]
           /\ adj' = [adj EXCEPT ![p][s] = @ + 1]
           /\ pc' = [pc EXCEPT ![p] = Obtained(p, s)]
  <2>1. adj' = [adj EXCEPT ![p][s] = adj[p][s] + 1] /\ adj[p][s] + 1 \in Int
    BY <1>1, <1>2
  <2>2. \A q \in Proc, t \in Sem :
           adj'[q][t] = IF q = p /\ t = s THEN adj[p][s] + 1 ELSE adj[q][t]
    BY <2>1, <1>1, EntryType
  <2> QED BY <2>2, <1>1, <1>2 DEF Touches, Takes
<1>3. CASE /\ pc' \in {[pc EXCEPT ![p] = "exit"], [pc EXCEPT ![p] = Waiting(s)]}
           /\ UNCHANGED <<val, adj>>
  BY <1>1, <1>3 DEF Touches, Misses
<1> QED BY <1>2, <1>3 DEF SemP, semVars

\* init_sem forgets every entry of s.
LEMMA InitEffect ==
    ASSUME EnvInv, NEW s \in Sem, NEW v, NEW l, Initialises(s, v, l), InitSem(s, v, l)
    PROVE  /\ Touches(s)
           /\ adj'[Monitor][s] = 0 /\ pc'[Monitor] = l
           /\ s = "full" => val'[s] = 0 /\ \A q \in Proc : adj'[q][s] = 0
<1> USE EnvAssumption
<1>1. /\ adj \in [Proc -> [Sem -> Int]] /\ val \in [Sem -> 0..SEMVMX]
      /\ pc \in [Proc -> RefreshLabels \cup CgiLabels] /\ Monitor \in Proc
  BY DEF EnvInv, TypeOK, Proc
<1>a. PICK e, m : /\ e = [p \in Proc |-> [adj[p] EXCEPT ![s] = 0]]
                  /\ m = [pc EXCEPT ![Monitor] = l]
  OBVIOUS
<1>2. /\ e \in [Proc -> [Sem -> Int]]
      /\ \A q \in Proc, t \in Sem : e[q][t] = IF t = s THEN 0 ELSE adj[q][t]
  BY <1>a, <1>1
<1>3. m[Monitor] = l /\ DOMAIN m = Proc
  BY <1>a, <1>1
<1>4. CASE /\ val' = [val EXCEPT ![s] = v]
           /\ adj' = e
           /\ pc' = m
  BY <1>1, <1>2, <1>3, <1>4 DEF Touches, Initialises
<1>5. CASE v = 1 /\ queue[s] # <<>>
  <2>1. PICK h \in Proc : h = Head(queue[s])
    BY <1>5, HeadOfQueue
  <2>2. h # Monitor /\ s # "full"
    BY <2>1, <1>5, HeadOfQueue DEF Waiting, Initialises
  <2>3. /\ val' = [[val EXCEPT ![s] = v] EXCEPT ![s] = 0]
        /\ adj' = [e EXCEPT ![h][s] = 1]
        /\ pc' = [m EXCEPT ![h] = Obtained(h, s)]
    BY <1>a, <1>5, <2>1 DEF InitSem
  <2>4. \A q \in Proc, t \in Sem : adj'[q][t] = IF q = h /\ t = s THEN 1 ELSE e[q][t]
    BY <2>3, <1>2, EntryType
  <2>5. pc'[Monitor] = l
    BY <2>2, <2>3, <1>1, <1>3
  <2>6. adj'[Monitor][s] = 0
    BY <2>2, <2>4, <1>1, <1>2
  <2>7. Touches(s)
    BY <2>3, <2>4, <1>1, <1>2 DEF Touches
  <2> QED BY <2>2, <2>5, <2>6, <2>7
<1> QED BY <1>4, <1>5, <1>a DEF InitSem

----------------------------------------------------------------------------
\* The steps that leave `full` and its entries alone, by what the monitor does
\* meanwhile: it stays where it is, ends, starts, or goes on with a round.
Same == adj'[Monitor]["empty"] = adj[Monitor]["empty"]

Onward ==
    /\ val'["full"] = val["full"]
    /\ \A q \in Proc : adj'[q]["full"] = adj[q]["full"]
    /\ \/ pc'[Monitor] = pc[Monitor] /\ (Same \/ pc[Monitor] = "exit")
       \/ pc'[Monitor] \in {"exit", "down", "i_mutex", "i_empty"}
       \/ pc'[Monitor] = "i_full" /\ adj'[Monitor]["empty"] = 0
       \/ pc[Monitor] = "r_empty" /\ pc'[Monitor] = "w_empty" /\ Same
       \/ /\ pc[Monitor] \in {"r_empty", "w_empty"} /\ pc'[Monitor] = "r_mutex"
          /\ adj'[Monitor]["empty"] = adj[Monitor]["empty"] + 1
       \/ /\ pc[Monitor] \in {"r_mutex", "w_mutex"} /\ pc'[Monitor] \in {"w_mutex", "r_a9"}
          /\ Same
       \/ pc[Monitor] = "r_vmutex" /\ pc'[Monitor] = "r_vfull" /\ Same

LEMMA OnwardP ==
    ASSUME EnvInv, NEW p \in Proc, NEW s \in Sem, s # "full", Calls(p, s), SemP(p, s)
    PROVE  Onward
<1> USE EnvAssumption
<1>1. Touches(s) /\ (Takes(p, s) \/ Misses(p, s)) /\ Monitor \in Proc
  BY TakeEffect DEF Proc
<1>2. val'["full"] = val["full"] /\ \A q \in Proc : adj'[q]["full"] = adj[q]["full"]
  BY <1>1 DEF Touches, Sem
<1>3. s = "mutex" => Same
  BY <1>1 DEF Touches, Same, Sem
<1>4. CASE p # Monitor
  BY <1>1, <1>2, <1>3, <1>4 DEF Takes, Misses, Same, Onward, Calls, Sem
<1>5. CASE p = Monitor /\ s = "empty"
  BY <1>1, <1>2, <1>5 DEF Takes, Misses, Same, Onward, Calls, Obtained, Waiting
<1>6. CASE p = Monitor /\ s = "mutex"
  BY <1>1, <1>2, <1>3, <1>6 DEF Takes, Misses, Onward, Calls, Obtained, Waiting
<1> QED BY <1>4, <1>5, <1>6 DEF Sem

LEMMA OnwardRaise ==
    ASSUME EnvInv, NEW p \in Proc, NEW s \in Sem, s # "full", NEW n, NEW a, NEW l,
           Raises(p, s, n, a, l),
           Raise(s, n, [adj EXCEPT ![p][s] = a], [pc EXCEPT ![p] = l]),
           p = Monitor => \/ s = "mutex" /\ pc[p] = "r_vmutex" /\ l = "r_vfull"
                          \/ l = "exit"
    PROVE  Onward
<1> USE EnvAssumption
<1>1. /\ Touches(s) /\ Monitor \in Proc
      /\ \/ Alone(p, s, n, a, l)
         \/ \E h \in Proc : PassesTo(p, s, a, l, h)
         \/ Drops(p, s, a, l)
  BY RaiseEffect DEF Proc
<1>2. val'["full"] = val["full"] /\ \A q \in Proc : adj'[q]["full"] = adj[q]["full"]
  BY <1>1 DEF Touches, Sem
<1>3. s = "mutex" => Same
  BY <1>1 DEF Touches, Same, Sem
<1>4. CASE Alone(p, s, n, a, l)
  <2>1. CASE p = Monitor
    BY <2>1, <1>1, <1>2, <1>3, <1>4 DEF Alone, Onward
  <2>2. CASE p # Monitor
    BY <2>2, <1>1, <1>2, <1>3, <1>4 DEF Alone, Onward, Same, Sem
  <2> QED BY <2>1, <2>2
<1>5. ASSUME NEW h \in Proc, PassesTo(p, s, a, l, h)
      PROVE  Onward
  <2>1. CASE p = Monitor
    BY <2>1, <1>1, <1>2, <1>3, <1>5 DEF PassesTo, Onward
  <2>2. CASE h = Monitor /\ s = "mutex"
    <3>1. pc[Monitor] = "w_mutex" /\ pc'[Monitor] = "r_a9"
      BY <2>2, <1>1, <1>5 DEF PassesTo, Waiting, Obtained
    <3> QED BY <3>1, <2>2, <1>2, <1>3 DEF Onward
  <2>3. CASE h = Monitor /\ s = "empty"
    <3>1. pc[Monitor] = "w_empty" /\ pc'[Monitor] = "r_mutex"
      BY <2>3, <1>1, <1>5 DEF PassesTo, Waiting, Obtained
    <3>2. adj'[Monitor]["empty"] = adj[Monitor]["empty"] + 1
      BY <2>3, <1>1, <1>5 DEF PassesTo
    <3> QED BY <3>1, <3>2, <1>2 DEF Onward
  <2>4. CASE p # Monitor /\ h # Monitor
    BY <2>4, <1>1, <1>2, <1>3, <1>5 DEF PassesTo, Onward, Same, Sem
  <2> QED BY <2>1, <2>2, <2>3, <2>4 DEF Sem
<1>6. CASE Drops(p, s, a, l)
  BY <1>2, <1>6 DEF Drops, Onward
<1> QED BY <1>1, <1>4, <1>5, <1>6

----------------------------------------------------------------------------
\* A step of the monitor between its calls keeps its account too.
InRound ==
    /\ val'["full"] = val["full"]
    /\ \A q \in Proc : adj'[q]["full"] = adj[q]["full"]
    /\ pc'[Monitor] = "i_full" => adj'[Monitor]["empty"] = 0
    /\ pc'[Monitor] = "i_shm" => pc[Monitor] = "i_shm"
    /\ Publishing' =>
          /\ Publishing
          /\ adj'[Monitor]["empty"] - Owed' = adj[Monitor]["empty"] - Owed

LEMMA OnwardInRound ==
    ASSUME EnvInv, TokenInv, Onward
    PROVE  InRound
<1>1. adj[Monitor]["empty"] \in Int /\ Owed \in {0, 1} /\ Owed' \in {0, 1}
  BY DEF EnvInv, TypeOK, Proc, Sem, Owed
<1>2. CASE pc'[Monitor] = pc[Monitor]
  BY <1>2 DEF Onward, InRound, Same, Publishing, Owed, TokenInv
<1>3. CASE pc'[Monitor] # pc[Monitor]
  BY <1>1, <1>3 DEF Onward, InRound, Same, Publishing, Owed
<1> QED BY <1>2, <1>3

\* A semaphore `full` that nobody touched.
LEMMA TokenRound ==
    ASSUME EnvInv, EnvInv', TokenInv, InRound
    PROVE  TokenInv'
<1>1. /\ adj[Monitor]["full"] \in Int /\ adj[Monitor]["empty"] \in Int
      /\ Monitor \in Proc /\ Cgi \subseteq Proc
      /\ Owed \in {0, 1} /\ Owed' \in {0, 1}
  BY DEF EnvInv, TypeOK, Proc, Sem, Owed
<1>2. FullHolders' = FullHolders /\ adj'[Monitor]["full"] = adj[Monitor]["full"]
  BY <1>1 DEF InRound, FullHolders
<1>3. \A c \in Cgi : adj'[c]["full"] >= 0
  BY <1>1 DEF TokenInv, InRound
<1>4. pc'[Monitor] = "i_full" => adj'[Monitor]["empty"] = 0
  BY DEF InRound
<1>5. pc'[Monitor] = "i_shm" => adj'[Monitor]["full"] = 0
  BY <1>2 DEF TokenInv, InRound
<1>6. ASSUME Publishing'
      PROVE  /\ val'["full"] + Cardinality(FullHolders') = -adj'[Monitor]["full"]
             /\ adj'[Monitor]["empty"] + adj'[Monitor]["full"] = Owed'
  <2>1. val'["full"] + Cardinality(FullHolders') = -adj'[Monitor]["full"]
    BY <1>2, <1>6 DEF TokenInv, InRound
  <2>2. /\ adj[Monitor]["empty"] + adj[Monitor]["full"] = Owed
        /\ adj'[Monitor]["empty"] - Owed' = adj[Monitor]["empty"] - Owed
    BY <1>6 DEF TokenInv, InRound
  <2>3. adj'[Monitor]["empty"] \in Int
    BY <1>1 DEF EnvInv, TypeOK, Sem
  <2>4. PICK a \in Int, b \in Int, d \in Int, x \in Int, y \in Int :
           /\ a = adj[Monitor]["empty"] /\ b = adj'[Monitor]["empty"]
           /\ d = adj[Monitor]["full"] /\ x = Owed /\ y = Owed'
    BY <2>3, <1>1
  <2>5. a + d = x /\ b - y = a - x
    BY <2>2, <2>4
  <2>6. b + d = y
    BY <2>5
  <2> QED BY <2>1, <2>4, <2>6, <1>2
<1>7. IsFiniteSet(FullHolders')
  BY <1>2 DEF TokenInv
<1> QED BY <1>3, <1>4, <1>5, <1>6, <1>7 DEF TokenInv

\* A page takes a token of `full`, or gives one back.
LEMMA HolderGained ==
    ASSUME EnvInv, IsFiniteSet(FullHolders), NEW c \in Cgi, adj[c]["full"] # 1,
           \A q \in Cgi : adj'[q]["full"] = IF q = c THEN 1 ELSE adj[q]["full"]
    PROVE  /\ IsFiniteSet(FullHolders')
           /\ Cardinality(FullHolders) \in Nat
           /\ Cardinality(FullHolders') = Cardinality(FullHolders) + 1
<1>1. FullHolders' = FullHolders \cup {c} /\ c \notin FullHolders
  BY DEF FullHolders
<1> QED BY <1>1, FS_AddElement, FS_CardinalityType

LEMMA HolderLost ==
    ASSUME EnvInv, IsFiniteSet(FullHolders), NEW c \in Cgi, adj[c]["full"] = 1,
           \A q \in Cgi : adj'[q]["full"] = IF q = c THEN 0 ELSE adj[q]["full"]
    PROVE  /\ IsFiniteSet(FullHolders')
           /\ Cardinality(FullHolders) \in Nat
           /\ Cardinality(FullHolders') = Cardinality(FullHolders) - 1
<1>1. FullHolders' = FullHolders \ {c} /\ c \in FullHolders
  BY DEF FullHolders
<1> QED BY <1>1, FS_RemoveElement, FS_CardinalityType

\* What EnvInv and TokenInv say of the entries of `full`.
LEMMA FullEntries ==
    ASSUME EnvInv, TokenInv
    PROVE  /\ Monitor \in Proc /\ Cgi \subseteq Proc /\ Monitor \notin Cgi
           /\ \A c \in Cgi : adj[c]["full"] \in {0, 1}
           /\ \A c \in Cgi : pc[c] \in {"c_full", "w_full"} => adj[c]["full"] = 0
           /\ adj[Monitor]["full"] \in Int /\ adj[Monitor]["empty"] \in Int
           /\ val["full"] \in 0..SEMVMX
           /\ Cardinality(FullHolders) \in Nat
<1> USE EnvAssumption
<1>1. /\ val \in [Sem -> 0..SEMVMX] /\ adj \in [Proc -> [Sem -> Int]] /\ EntriesOK
      /\ "full" \in Sem /\ "empty" \in Sem
  BY DEF EnvInv, TypeOK, Sem
<1>2. Monitor \in Proc /\ Cgi \subseteq Proc
  BY DEF Proc
<1>3. ASSUME NEW c \in Cgi
      PROVE  /\ adj[c]["full"] \in {0, 1}
             /\ pc[c] \in {"c_full", "w_full"} => adj[c]["full"] # 1
  <2>1. /\ adj[c]["full"] \in Int /\ adj[c]["full"] >= 0 /\ adj[c]["full"] <= 1
        /\ adj[c]["full"] = 1 => pc[c] \notin {"idle", "c_full", "w_full"}
    BY <1>1, <1>2 DEF EntriesOK, TokenInv
  <2> QED BY <2>1
<1>4. Cardinality(FullHolders) \in Nat
  BY FS_CardinalityType DEF TokenInv
<1> QED BY <1>1, <1>2, <1>3, <1>4

\* env1.c:69: a page takes the token, waits for it or fails.
LEMMA TokenTaken ==
    ASSUME EnvInv, EnvInv', TokenInv, NEW c \in Cgi, pc[c] = "c_full", SemP(c, "full")
    PROVE  TokenInv'
<1> USE EnvAssumption
<1>1. /\ Monitor \in Proc /\ Cgi \subseteq Proc /\ c # Monitor
      /\ \A q \in Cgi : adj[q]["full"] \in {0, 1}
      /\ adj[c]["full"] = 0
      /\ adj[Monitor]["full"] \in Int /\ val["full"] \in Int
  BY FullEntries
<1>2. Touches("full") /\ (Takes(c, "full") \/ Misses(c, "full"))
  BY <1>1, TakeEffect DEF Sem
<1>3. Same
  BY <1>1, <1>2 DEF Touches, Same, Sem
<1>4. CASE Misses(c, "full")
  <2>1. Onward
    BY <1>1, <1>3, <1>4 DEF Misses, Onward
  <2> QED BY <2>1, OnwardInRound, TokenRound
<1>5. CASE Takes(c, "full")
  <2>1. \A q \in Cgi : adj'[q]["full"] = IF q = c THEN 1 ELSE adj[q]["full"]
    BY <1>1, <1>5 DEF Takes
  <2>2. /\ IsFiniteSet(FullHolders')
        /\ Cardinality(FullHolders) \in Nat
        /\ Cardinality(FullHolders') = Cardinality(FullHolders) + 1
    BY <1>1, <2>1, HolderGained DEF TokenInv
  <2>3. val'["full"] = val["full"] - 1 /\ adj'[Monitor]["full"] = adj[Monitor]["full"]
        /\ pc'[Monitor] = pc[Monitor]
    BY <1>1, <1>5 DEF Takes
  <2>4. Publishing' = Publishing /\ Owed' = Owed
    BY <2>3 DEF Publishing, Owed
  <2>5. \A q \in Cgi : adj'[q]["full"] >= 0
    BY <1>1, <2>1
  <2>6. Publishing => val'["full"] + Cardinality(FullHolders') = -adj'[Monitor]["full"]
    BY <1>1, <2>2, <2>3 DEF TokenInv
  <2> QED BY <1>3, <2>2, <2>3, <2>4, <2>5, <2>6 DEF TokenInv, Same
<1> QED BY <1>2, <1>4, <1>5

\* pthread_refresh.c:98: the monitor publishes.
LEMMA TokenPublished ==
    ASSUME EnvInv, EnvInv', TokenInv, pc[Monitor] = "r_vfull",
           SemV(Monitor, "full", "r_signal")
    PROVE  TokenInv'
<1> USE EnvAssumption
<1>1. /\ Monitor \in Proc /\ Cgi \subseteq Proc /\ Monitor \notin Cgi
      /\ \A q \in Cgi : adj[q]["full"] \in {0, 1}
      /\ adj[Monitor]["full"] \in Int /\ adj[Monitor]["empty"] \in Int
      /\ val["full"] \in 0..SEMVMX
      /\ Cardinality(FullHolders) \in Nat
  BY FullEntries
<1>2. Publishing /\ Owed = 1
  BY DEF Publishing, Owed
<1>3. /\ val["full"] + Cardinality(FullHolders) = -adj[Monitor]["full"]
      /\ adj[Monitor]["empty"] + adj[Monitor]["full"] = 1
  BY <1>2 DEF TokenInv
<1>4. CASE pc' = [pc EXCEPT ![Monitor] = "exit"] /\ UNCHANGED semVars
  <2>1. Onward
    BY <1>1, <1>4 DEF Onward, EnvInv, TypeOK, semVars
  <2> QED BY <2>1, OnwardInRound, TokenRound
<1>5. CASE /\ val["full"] < SEMVMX
           /\ Raise("full", 1, [adj EXCEPT ![Monitor]["full"] = @ - 1],
                    [pc EXCEPT ![Monitor] = "r_signal"])
  <2> DEFINE a == adj[Monitor]["full"] - 1
  <2>1. Raises(Monitor, "full", 1, a, "r_signal")
    BY <1>1, ReturnRaises DEF Returns, Sem
  <2>2. Raise("full", 1, [adj EXCEPT ![Monitor]["full"] = a],
              [pc EXCEPT ![Monitor] = "r_signal"])
    BY <1>5
  <2>3. /\ Touches("full")
        /\ \/ Alone(Monitor, "full", 1, a, "r_signal")
           \/ \E h \in Proc : PassesTo(Monitor, "full", a, "r_signal", h)
    BY <1>1, <2>1, <2>2, RaiseEffect DEF Drops, Sem
  <2>4. /\ pc'[Monitor] = "r_signal" /\ adj'[Monitor]["full"] = adj[Monitor]["full"] - 1
        /\ adj'[Monitor]["empty"] = adj[Monitor]["empty"]
    BY <1>1, <2>3 DEF Alone, PassesTo, Touches, Sem
  <2>5. Owed' = 0 /\ adj'[Monitor]["empty"] + adj'[Monitor]["full"] = 0
    BY <1>1, <1>3, <2>4 DEF Owed
  <2>6. /\ \A q \in Cgi : adj'[q]["full"] >= 0
        /\ IsFiniteSet(FullHolders')
        /\ val'["full"] + Cardinality(FullHolders')
              = val["full"] + Cardinality(FullHolders) + 1
    <3>1. CASE Alone(Monitor, "full", 1, a, "r_signal")
      <4>1. \A q \in Cgi : adj'[q]["full"] = adj[q]["full"]
        BY <1>1, <3>1 DEF Alone
      <4>2. FullHolders' = FullHolders
        BY <4>1 DEF FullHolders
      <4>3. val'["full"] = val["full"] + 1
        BY <1>1, <1>5, <3>1 DEF Alone
      <4> QED BY <1>1, <4>1, <4>2, <4>3 DEF TokenInv
    <3>2. ASSUME NEW h \in Proc, PassesTo(Monitor, "full", a, "r_signal", h)
          PROVE  /\ \A q \in Cgi : adj'[q]["full"] >= 0
                 /\ IsFiniteSet(FullHolders')
                 /\ val'["full"] + Cardinality(FullHolders')
                       = val["full"] + Cardinality(FullHolders) + 1
      <4>1. h \in Cgi /\ pc[h] = "w_full"
        BY <3>2 DEF PassesTo, Waiting, Proc
      <4>2. adj[h]["full"] = 0
        BY <4>1, FullEntries
      <4>3. \A q \in Cgi : adj'[q]["full"] = IF q = h THEN 1 ELSE adj[q]["full"]
        BY <1>1, <3>2, <4>2 DEF PassesTo
      <4>4. /\ IsFiniteSet(FullHolders')
            /\ Cardinality(FullHolders') = Cardinality(FullHolders) + 1
        BY <4>1, <4>2, <4>3, HolderGained DEF TokenInv
      <4>5. val'["full"] = val["full"]
        BY <3>2 DEF PassesTo
      <4> QED BY <1>1, <4>3, <4>4, <4>5
    <3> QED BY <2>3, <3>1, <3>2
  <2>7. val'["full"] + Cardinality(FullHolders') = -adj'[Monitor]["full"]
    BY <1>1, <1>3, <2>4, <2>6
  <2> HIDE DEF a
  <2> QED BY <2>4, <2>5, <2>6, <2>7 DEF TokenInv
<1> QED BY <1>4, <1>5 DEF SemV

\* exit(2) gives the token of a page back, to the semaphore or to a page that
\* waits for it.
LEMMA TokenUndone ==
    ASSUME EnvInv, EnvInv', TokenInv, NEW p \in Proc, Undo(p, "full")
    PROVE  TokenInv'
<1> USE EnvAssumption
<1>1. /\ Monitor \in Proc /\ Cgi \subseteq Proc /\ Monitor \notin Cgi
      /\ \A q \in Cgi : adj[q]["full"] \in {0, 1}
      /\ adj[Monitor]["full"] \in Int /\ adj[Monitor]["empty"] \in Int
      /\ val["full"] \in 0..SEMVMX
      /\ Cardinality(FullHolders) \in Nat
      /\ pc[p] = "exit" /\ "full" \in Sem /\ "empty" \in Sem
      /\ adj \in [Proc -> [Sem -> Int]] /\ pc \in [Proc -> RefreshLabels \cup CgiLabels]
  BY FullEntries DEF Undo, Sem, EnvInv, TypeOK
<1>2. CASE adj[p]["full"] < 0
  <2>1. p = Monitor /\ p \notin Cgi
    BY <1>1, <1>2 DEF Proc
  <2>2. adj' = [adj EXCEPT ![p]["full"] = 0] /\ pc' = pc
    BY <1>1, <1>2, <2>1 DEF Undo
  <2>3. \A q \in Cgi : adj'[q]["full"] = adj[q]["full"]
    BY <1>1, <2>1, <2>2
  <2>4. FullHolders' = FullHolders
    BY <2>3 DEF FullHolders
  <2> QED BY <1>1, <2>1, <2>2, <2>3, <2>4 DEF TokenInv, Publishing
<1>3. CASE adj[p]["full"] > 0
  <2>1. /\ Raises(p, "full", adj[p]["full"], 0, "exit")
        /\ adj[p]["full"] = 1 /\ p \in Cgi
    BY <1>1, <1>3, UndoRaises
  <2>2. [pc EXCEPT ![p] = "exit"] = pc
    BY <1>1
  <2>3. Raise("full", adj[p]["full"], [adj EXCEPT ![p]["full"] = 0], [pc EXCEPT ![p] = "exit"])
    <3>1. Raise("full", adj[p]["full"], [adj EXCEPT ![p]["full"] = 0], pc)
      BY <2>1 DEF Undo
    <3> QED BY <2>2, <3>1
  <2>4. /\ Touches("full")
        /\ \/ Alone(p, "full", 1, 0, "exit")
           \/ \E h \in Proc : PassesTo(p, "full", 0, "exit", h)
    <3>1. /\ Touches("full")
          /\ \/ Alone(p, "full", adj[p]["full"], 0, "exit")
             \/ \E h \in Proc : PassesTo(p, "full", 0, "exit", h)
             \/ Drops(p, "full", 0, "exit")
      BY <1>1, <2>1, <2>3, RaiseEffect
    <3> QED BY <2>1, <3>1 DEF Drops
  <2>5. adj'[Monitor]["empty"] = adj[Monitor]["empty"] /\ p # Monitor
    BY <1>1, <2>1, <2>4 DEF Touches
  <2>6. /\ IsFiniteSet(FullHolders \ {p})
        /\ Cardinality(FullHolders \ {p}) = Cardinality(FullHolders) - 1
        /\ Cardinality(FullHolders \ {p}) \in Nat
    <3>1. p \in FullHolders /\ IsFiniteSet(FullHolders)
      BY <2>1 DEF FullHolders, TokenInv
    <3> QED BY <3>1, FS_RemoveElement, FS_CardinalityType
  <2>7. CASE Alone(p, "full", 1, 0, "exit")
    <3>1. \A q \in Cgi : adj'[q]["full"] = IF q = p THEN 0 ELSE adj[q]["full"]
      BY <1>1, <2>7 DEF Alone
    <3>2. adj'[Monitor]["full"] = adj[Monitor]["full"] /\ pc'[Monitor] = pc[Monitor]
      BY <1>1, <2>5, <2>7 DEF Alone
    <3>3. FullHolders' = FullHolders \ {p}
      BY <3>1 DEF FullHolders
    <3>4. Publishing' = Publishing /\ Owed' = Owed
      BY <3>2 DEF Publishing, Owed
    <3>5. ASSUME Publishing
          PROVE  val'["full"] + Cardinality(FullHolders') = -adj'[Monitor]["full"]
      <4>1. /\ val["full"] + Cardinality(FullHolders) = -adj[Monitor]["full"]
            /\ adj[Monitor]["empty"] + adj[Monitor]["full"] \in {0, 1}
        BY <3>5 DEF TokenInv, Owed
      <4>2. adj[Monitor]["empty"] <= SEMVMX
        BY DEF EnvInv, EntriesOK
      <4>3. val["full"] + 1 <= SEMVMX
        BY <4>1, <4>2, <1>1, <2>6
      <4>4. val'["full"] = val["full"] + 1
        BY <4>3, <1>1, <2>7 DEF Alone
      <4> QED BY <4>1, <4>4, <1>1, <2>6, <3>2, <3>3
    <3>6. \A q \in Cgi : adj'[q]["full"] >= 0
      BY <1>1, <3>1
    <3> QED BY <2>5, <2>6, <3>2, <3>3, <3>4, <3>5, <3>6 DEF TokenInv
  <2>8. ASSUME NEW h \in Proc, PassesTo(p, "full", 0, "exit", h)
        PROVE  TokenInv'
    <3>1. h \in Cgi /\ pc[h] = "w_full" /\ h # p
      BY <2>8 DEF PassesTo, Waiting, Proc, EnvInv, LabelsOK, RefreshLabels
    <3>2. adj[h]["full"] = 0
      BY <3>1, FullEntries
    <3>3. \A q \in Cgi : adj'[q]["full"] = IF q = p THEN 0 ELSE IF q = h THEN 1
                                            ELSE adj[q]["full"]
      BY <1>1, <2>8, <3>2 DEF PassesTo
    <3>4. /\ adj'[Monitor]["full"] = adj[Monitor]["full"] /\ pc'[Monitor] = pc[Monitor]
          /\ val'["full"] = val["full"]
      BY <1>1, <2>5, <2>8, <3>1 DEF PassesTo
    <3>5. FullHolders' = (FullHolders \ {p}) \cup {h} /\ h \notin FullHolders \ {p}
      BY <3>1, <3>2, <3>3 DEF FullHolders
    <3>6. /\ IsFiniteSet(FullHolders')
          /\ Cardinality(FullHolders') = Cardinality(FullHolders)
      <4>1. /\ IsFiniteSet((FullHolders \ {p}) \cup {h})
            /\ Cardinality((FullHolders \ {p}) \cup {h}) = Cardinality(FullHolders \ {p}) + 1
        BY <2>6, <3>5, FS_AddElement
      <4> QED BY <4>1, <1>1, <2>6, <3>5
    <3>7. Publishing' = Publishing /\ Owed' = Owed
      BY <3>4 DEF Publishing, Owed
    <3>8. \A q \in Cgi : adj'[q]["full"] >= 0
      BY <1>1, <3>3
    <3> QED BY <2>5, <3>4, <3>6, <3>7, <3>8 DEF TokenInv
  <2> QED BY <2>4, <2>7, <2>8
<1> QED BY <1>2, <1>3 DEF Undo

\* init_sem of `full` starts the account of a life.
LEMMA TokenInitialised ==
    ASSUME EnvInv, EnvInv', TokenInv, InitFull
    PROVE  TokenInv'
<1>1. /\ Touches("full") /\ pc'[Monitor] = "i_shm"
      /\ val'["full"] = 0 /\ \A q \in Proc : adj'[q]["full"] = 0
  BY InitEffect DEF InitFull, Initialises, Sem
<1>2. Monitor \in Proc /\ Cgi \subseteq Proc
  BY DEF Proc
<1>3. adj'[Monitor]["empty"] = 0
  BY <1>1, <1>2 DEF TokenInv, InitFull, Touches, Sem
<1>4. FullHolders' = {}
  BY <1>1, <1>2 DEF FullHolders
<1>5. IsFiniteSet(FullHolders') /\ Cardinality(FullHolders') = 0
  BY <1>4, FS_EmptySet
<1>6. Owed' = 0
  BY <1>1 DEF Owed
<1> QED BY <1>1, <1>2, <1>3, <1>5, <1>6 DEF TokenInv

----------------------------------------------------------------------------
\* The steps by what they do to `full` and to the samples.
Quiet == Onward /\ UNCHANGED <<tpc, env, shm>>

Takings == \E c \in Cgi : pc[c] = "c_full" /\ SemP(c, "full") /\ UNCHANGED <<tpc, env, shm>>

Publication ==
    /\ pc[Monitor] = "r_vfull" /\ SemV(Monitor, "full", "r_signal")
    /\ UNCHANGED <<tpc, env, shm>>

Givings == \E p \in Proc : Undo(p, "full")

DataStep ==
    \/ InitShm \/ RefreshCopyA9 \/ RefreshCopyZig \/ RefreshSignal
    \/ Transfer \/ TransferSpurious \/ Restart

LEMMA QuietMove ==
    ASSUME EnvInv, NEW p \in Proc, NEW l, pc' = [pc EXCEPT ![p] = l], UNCHANGED <<val, adj>>,
           p = Monitor => l \in {"exit", "down"}
    PROVE  Onward
BY DEF EnvInv, TypeOK, Onward, Same, Proc

LEMMA QuietRefresh ==
    ASSUME EnvInv, InitMutex \/ InitEmpty \/ RefreshP \/ RefreshV
    PROVE  Quiet \/ Publication
<1>1. "mutex" \in Sem /\ "empty" \in Sem /\ "full" \in Sem /\ Monitor \in Proc
  BY DEF Sem, Proc
<1>2. CASE InitMutex
  <2>1. Touches("mutex") /\ pc'[Monitor] = "i_empty"
    BY <1>1, <1>2, InitEffect DEF InitMutex, Initialises
  <2> QED BY <1>1, <1>2, <2>1 DEF Touches, Onward, Quiet, InitMutex, dataVars
<1>3. CASE InitEmpty
  <2>1. Touches("empty") /\ pc'[Monitor] = "i_full" /\ adj'[Monitor]["empty"] = 0
    BY <1>1, <1>3, InitEffect DEF InitEmpty, Initialises
  <2> QED BY <1>1, <1>3, <2>1 DEF Touches, Onward, Quiet, InitEmpty, dataVars
<1>4. CASE RefreshP
  <2>1. Onward
    BY <1>1, <1>4, OnwardP DEF RefreshP, Calls
  <2> QED BY <1>4, <2>1 DEF Quiet, RefreshP, dataVars
<1>5. CASE pc[Monitor] = "r_vmutex" /\ SemV(Monitor, "mutex", "r_vfull") /\ RefreshV
  <2>1. CASE Raise("mutex", 1, [adj EXCEPT ![Monitor]["mutex"] = @ - 1],
                   [pc EXCEPT ![Monitor] = "r_vfull"])
    <3>1. Raises(Monitor, "mutex", 1, adj[Monitor]["mutex"] - 1, "r_vfull")
      BY <1>1, <1>5, ReturnRaises DEF Returns
    <3>2. Raise("mutex", 1, [adj EXCEPT ![Monitor]["mutex"] = adj[Monitor]["mutex"] - 1],
                [pc EXCEPT ![Monitor] = "r_vfull"])
      BY <2>1
    <3> QED BY <1>1, <1>5, <3>1, <3>2, OnwardRaise DEF Quiet, RefreshV, dataVars
  <2>2. CASE pc' = [pc EXCEPT ![Monitor] = "exit"] /\ UNCHANGED semVars
    BY <1>1, <1>5, <2>2, QuietMove DEF Quiet, RefreshV, dataVars, semVars
  <2> QED BY <1>5, <2>1, <2>2 DEF SemV
<1>6. CASE pc[Monitor] = "r_vfull" /\ SemV(Monitor, "full", "r_signal") /\ RefreshV
  BY <1>6 DEF Publication, RefreshV, dataVars
<1> QED BY <1>2, <1>3, <1>4, <1>5, <1>6 DEF RefreshV

LEMMA QuietCgi ==
    ASSUME EnvInv, NEW c \in Cgi,
           Request(c) \/ Serve(c) \/ CgiReaped(c) \/ CgiKilled(c)
    PROVE  Quiet \/ Takings
<1> USE EnvAssumption
<1>1. "mutex" \in Sem /\ "empty" \in Sem /\ c \in Proc /\ c # Monitor
  BY DEF Sem, Proc
<1>2. CASE Request(c) \/ CgiReadZig(c) \/ CgiReadA9(c) \/ CgiReaped(c)
  <2>1. \E l : pc' = [pc EXCEPT ![c] = l] /\ UNCHANGED <<val, adj, tpc, env, shm>>
    BY <1>2 DEF Request, CgiReadZig, CgiReadA9, CgiReaped, semVars, dataVars
  <2> QED BY <1>1, <2>1, QuietMove DEF Quiet
<1>3. CASE CgiKilled(c)
  BY <1>1, <1>3, QuietMove DEF CgiKilled, Leave, Quiet, dataVars
<1>4. CASE CgiP(c)
  <2>1. CASE pc[c] = "c_mutex" /\ SemP(c, "mutex")
    BY <1>1, <1>4, <2>1, OnwardP DEF Calls, CgiP, Quiet, dataVars
  <2>2. CASE pc[c] = "c_full" /\ SemP(c, "full")
    BY <1>4, <2>2 DEF CgiP, Takings, dataVars
  <2> QED BY <1>4, <2>1, <2>2 DEF CgiP
<1>5. ASSUME NEW s \in {"mutex", "empty"}, NEW l, Returns(c, s, l), SemV(c, s, l), CgiV(c)
      PROVE  Quiet
  <2>1. CASE Raise(s, 1, [adj EXCEPT ![c][s] = @ - 1], [pc EXCEPT ![c] = l])
    <3>1. Raises(c, s, 1, adj[c][s] - 1, l)
      BY <1>1, <1>5, ReturnRaises
    <3>2. Raise(s, 1, [adj EXCEPT ![c][s] = adj[c][s] - 1], [pc EXCEPT ![c] = l])
      BY <2>1
    <3> QED BY <1>1, <1>5, <3>1, <3>2, OnwardRaise DEF Quiet, CgiV, dataVars
  <2>2. CASE pc' = [pc EXCEPT ![c] = "exit"] /\ UNCHANGED semVars
    BY <1>1, <1>5, <2>2, QuietMove DEF Quiet, CgiV, dataVars, semVars
  <2> QED BY <1>5, <2>1, <2>2 DEF SemV
<1>6. CASE CgiV(c)
  BY <1>1, <1>5, <1>6 DEF CgiV, Returns
<1> QED BY <1>2, <1>3, <1>4, <1>6 DEF Serve

LEMMA QuietUndo ==
    ASSUME EnvInv, NEW p \in Proc, NEW s \in Sem, s # "full", Undo(p, s)
    PROVE  Quiet
<1> USE EnvAssumption
<1>1. /\ adj \in [Proc -> [Sem -> Int]] /\ adj[p][s] \in Int /\ pc[p] = "exit"
      /\ pc \in [Proc -> RefreshLabels \cup CgiLabels] /\ val \in [Sem -> 0..SEMVMX]
      /\ Monitor \in Proc /\ "full" \in Sem /\ "empty" \in Sem
      /\ UNCHANGED <<tpc, env, shm>>
  BY DEF EnvInv, TypeOK, Undo, Proc, Sem, dataVars
<1>2. CASE adj[p][s] > 0
  <2>1. Raises(p, s, adj[p][s], 0, "exit")
    BY <1>1, <1>2, UndoRaises
  <2>2. Raise(s, adj[p][s], [adj EXCEPT ![p][s] = 0], [pc EXCEPT ![p] = "exit"])
    <3>1. [pc EXCEPT ![p] = "exit"] = pc
      BY <1>1
    <3>2. Raise(s, adj[p][s], [adj EXCEPT ![p][s] = 0], pc)
      BY <1>1, <1>2 DEF Undo
    <3> QED BY <3>1, <3>2
  <2> QED BY <1>1, <2>1, <2>2, OnwardRaise DEF Quiet
<1>3. CASE adj[p][s] < 0
  <2>1. /\ val' = [val EXCEPT ![s] = IF @ + adj[p][s] < 0 THEN 0 ELSE @ + adj[p][s]]
        /\ adj' = [adj EXCEPT ![p][s] = 0] /\ pc' = pc
    BY <1>1, <1>3 DEF Undo
  <2>2. \A q \in Proc, t \in Sem : adj'[q][t] = IF q = p /\ t = s THEN 0 ELSE adj[q][t]
    BY <1>1, <2>1, EntryType
  <2>3. Same \/ pc[Monitor] = "exit"
    BY <1>1, <2>2 DEF Same
  <2> QED BY <1>1, <2>1, <2>2, <2>3 DEF Onward, Quiet
<1> QED BY <1>2, <1>3 DEF Undo

LEMMA StepKinds ==
    ASSUME EnvInv, [Next]_vars
    PROVE  Quiet \/ Takings \/ Publication \/ Givings \/ InitFull \/ DataStep
<1>1. CASE Refresh
  BY <1>1, QuietRefresh DEF Refresh, DataStep
<1>2. CASE Transfer \/ TransferSpurious \/ Restart
  BY <1>2 DEF DataStep
<1>3. CASE \E c \in Cgi : Request(c) \/ Serve(c) \/ CgiReaped(c) \/ CgiKilled(c)
  BY <1>3, QuietCgi
<1>4. CASE \E p \in Proc : Exit(p)
  BY <1>4, QuietUndo DEF Exit, Givings
<1>5. CASE Interrupt \/ MonitorReaped
  BY <1>5, QuietMove DEF Interrupt, MonitorReaped, Leave, Quiet, Proc, semVars, dataVars
<1>6. CASE UNCHANGED vars
  BY <1>6 DEF vars, Quiet, Onward, Same
<1> QED BY <1>1, <1>2, <1>3, <1>4, <1>5, <1>6 DEF Next

LEMMA TokenNext ==
    ASSUME EnvInv, EnvInv', TokenInv, [Next]_vars
    PROVE  TokenInv'
<1>1. CASE Quiet
  BY <1>1, OnwardInRound, TokenRound DEF Quiet
<1>2. CASE Takings
  BY <1>2, TokenTaken DEF Takings
<1>3. CASE Publication
  BY <1>3, TokenPublished DEF Publication
<1>4. CASE Givings
  BY <1>4, TokenUndone DEF Givings
<1>5. CASE InitFull
  BY <1>5, TokenInitialised
<1>6. CASE DataStep
  <2>1. UNCHANGED <<val, adj>>
    BY <1>6 DEF DataStep, Transfer, InitShm, RefreshCopyA9, RefreshCopyZig, RefreshSignal,
                TransferWait, TransferZig, TransferA9, TransferSpurious, Restart, semVars
  <2>2. /\ Monitor \in Proc /\ pc \in [Proc -> RefreshLabels \cup CgiLabels]
        /\ adj[Monitor]["empty"] \in Int
    BY DEF EnvInv, TypeOK, Proc, Sem
  <2>3. ASSUME InitShm \/ RefreshCopyA9 \/ RefreshCopyZig \/ RefreshSignal
        PROVE  InRound
    <3>1. \/ pc[Monitor] \in {"i_shm", "r_signal"} /\ pc'[Monitor] = "r_empty"
          \/ pc[Monitor] \in {"r_a9", "r_zig"} /\ pc'[Monitor] \in {"r_zig", "r_vmutex"}
      BY <2>2, <2>3 DEF InitShm, RefreshCopyA9, RefreshCopyZig, RefreshSignal
    <3> QED BY <2>1, <3>1 DEF InRound, Publishing, Owed
  <2>4. ASSUME Transfer \/ TransferSpurious
        PROVE  InRound
    <3>1. pc' = pc
      BY <2>4 DEF Transfer, TransferWait, TransferZig, TransferA9, TransferSpurious
    <3> QED BY <2>1, <3>1 DEF InRound, TokenInv, Publishing, Owed
  <2>6. ASSUME Restart
        PROVE  InRound
    <3>1. pc'[Monitor] = "i_mutex"
      BY <2>2, <2>6 DEF Restart
    <3> QED BY <2>1, <3>1 DEF InRound, Publishing
  <2>5. InRound
    BY <1>6, <2>3, <2>4, <2>6 DEF DataStep
  <2> QED BY <2>5, TokenRound
<1> QED BY <1>1, <1>2, <1>3, <1>4, <1>5, <1>6, StepKinds

LEMMA TokenInit ==
    ASSUME Init
    PROVE  TokenInv
<1> USE EnvAssumption
<1>1. \A c \in Cgi : adj[c]["full"] = 0
  BY DEF Init, Proc, Sem
<1>2. FullHolders = {}
  BY <1>1 DEF FullHolders
<1>3. pc[Monitor] = "i_mutex"
  BY DEF Init, Proc
<1> QED BY <1>1, <1>2, <1>3, FS_EmptySet DEF TokenInv, Publishing

LEMMA TokenEnough ==
    ASSUME EnvInv, TokenInv
    PROVE  TokensReturned
<1> USE EnvAssumption
<1>1. /\ adj[Monitor]["full"] \in Int /\ adj[Monitor]["empty"] \in Int
      /\ val["full"] \in 0..SEMVMX
      /\ Cardinality(FullHolders) \in Nat
  BY FullEntries
<1>2. ASSUME pc[Monitor] = "r_vfull"
      PROVE  val["full"] < SEMVMX /\ adj[Monitor]["full"] >= -SEMVMX
  <2>1. Publishing /\ Owed = 1
    BY <1>2 DEF Publishing, Owed
  <2>2. /\ val["full"] + Cardinality(FullHolders) = -adj[Monitor]["full"]
        /\ adj[Monitor]["empty"] + adj[Monitor]["full"] = 1
    BY <2>1 DEF TokenInv
  <2>3. adj[Monitor]["empty"] <= SEMVMX
    BY DEF EnvInv, EntriesOK
  <2> QED BY <1>1, <2>2, <2>3
<1> QED BY <1>2 DEF TokensReturned, TokenInv, Publishing, FullHolders

----------------------------------------------------------------------------
\* The samples: a step of the semaphores does not touch them, and where it
\* takes the monitor keeps what TornInv says.
LEMMA TornQuiet ==
    ASSUME EnvInv, ~Spurious, TornInv, Quiet
    PROVE  TornInv'
<1>1. /\ UNCHANGED <<tpc, env, shm>> /\ Monitor \in Proc
      /\ adj'[Monitor]["full"] = adj[Monitor]["full"]
  BY DEF Quiet, Onward, Proc
<1>2. EnvInStep'
  BY <1>1 DEF TornInv, EnvInStep
<1>3. pc'[Monitor] \in {"r_zig", "i_shm"} => pc'[Monitor] = pc[Monitor]
  BY DEF Quiet, Onward
<1>4. CopyInStep' /\ (pc'[Monitor] = "i_shm" => adj'[Monitor]["full"] = 0)
  BY <1>1, <1>3 DEF TornInv, CopyInStep
<1>5. TornByAtMostOne'
  <2>1. /\ pc'[Monitor] \in {"r_vmutex", "r_vfull"} => pc[Monitor] \in {"r_vmutex", "r_vfull"}
        /\ pc'[Monitor] \in {"r_empty", "w_empty", "r_mutex", "w_mutex", "r_a9", "r_signal"} =>
              pc[Monitor] \in {"r_empty", "w_empty", "r_mutex", "w_mutex", "r_a9", "r_signal"}
    BY DEF Quiet, Onward
  <2> QED BY <1>1, <2>1 DEF TornInv, TornByAtMostOne
<1> QED BY <1>2, <1>4, <1>5 DEF TornInv

LEMMA TornFull ==
    ASSUME EnvInv, EnvInv', ~Spurious, TokenInv, TornInv,
           Takings \/ Publication \/ Givings \/ InitFull
    PROVE  TornInv'
<1> USE EnvAssumption
<1>1. /\ Monitor \in Proc /\ Cgi \subseteq Proc /\ Monitor \notin Cgi /\ "full" \in Sem
      /\ adj[Monitor]["full"] \in Int /\ EntriesOK
      /\ pc \in [Proc -> RefreshLabels \cup CgiLabels]
      /\ adj \in [Proc -> [Sem -> Int]]
  <2>1. /\ Monitor \in Proc /\ Cgi \subseteq Proc /\ Monitor \notin Cgi /\ "full" \in Sem
        /\ EntriesOK
    BY DEF EnvInv, Proc, Sem
  <2>2. /\ pc \in [Proc -> RefreshLabels \cup CgiLabels]
        /\ adj \in [Proc -> [Sem -> Int]]
    BY DEF EnvInv, TypeOK
  <2> QED BY <2>1, <2>2
<1>2. UNCHANGED <<tpc, env, shm>>
  BY DEF Takings, Publication, Givings, Undo, InitFull, dataVars
<1>3. EnvInStep'
  BY <1>2 DEF TornInv, EnvInStep
<1>4. CASE Takings
  <2>1. pc'[Monitor] = pc[Monitor] /\ adj'[Monitor]["full"] = adj[Monitor]["full"]
    BY <1>1, <1>4, TakeEffect DEF Takings, Takes, Misses
  <2> QED BY <1>2, <1>3, <2>1 DEF TornInv, CopyInStep, TornByAtMostOne
<1>5. CASE Publication
  <2>1. pc[Monitor] = "r_vfull" /\ pc'[Monitor] \in {"r_signal", "exit"}
    <3>1. CASE pc' = [pc EXCEPT ![Monitor] = "exit"]
      BY <1>1, <1>5, <3>1 DEF Publication
    <3>2. CASE Raise("full", 1, [adj EXCEPT ![Monitor]["full"] = @ - 1],
                     [pc EXCEPT ![Monitor] = "r_signal"])
      <4>1. Raises(Monitor, "full", 1, adj[Monitor]["full"] - 1, "r_signal")
        BY <1>1, <1>5, ReturnRaises DEF Returns, Publication
      <4>2. Raise("full", 1, [adj EXCEPT ![Monitor]["full"] = adj[Monitor]["full"] - 1],
                  [pc EXCEPT ![Monitor] = "r_signal"])
        BY <3>2
      <4>3. \/ Alone(Monitor, "full", 1, adj[Monitor]["full"] - 1, "r_signal")
            \/ \E h \in Proc : PassesTo(Monitor, "full", adj[Monitor]["full"] - 1, "r_signal", h)
            \/ Drops(Monitor, "full", adj[Monitor]["full"] - 1, "r_signal")
        BY <1>1, <4>1, <4>2, RaiseEffect
      <4>4. pc'[Monitor] = "r_signal"
        BY <1>1, <4>3 DEF Alone, PassesTo, Drops
      <4> QED BY <1>5, <4>4 DEF Publication
    <3> QED BY <1>5, <3>1, <3>2 DEF Publication, SemV
  <2> QED BY <1>2, <1>3, <2>1 DEF TornInv, CopyInStep, TornByAtMostOne
<1>6. ASSUME NEW p \in Proc, Undo(p, "full")
      PROVE  TornInv'
  <2>1. CASE p = Monitor
    <3>1. ~(adj[Monitor]["full"] > 0)
      BY <1>1 DEF EntriesOK
    <3>2. pc' = pc /\ pc[Monitor] = "exit"
      BY <1>6, <2>1, <3>1 DEF Undo
    <3> QED BY <1>2, <1>3, <3>2 DEF TornInv, CopyInStep, TornByAtMostOne
  <2>2. CASE p # Monitor
    <3>1. /\ Raises(p, "full", 1, 0, "exit") /\ adj[p]["full"] = 1 /\ pc[p] = "exit"
      <4>1. p \in Cgi /\ adj[p]["full"] \in {0, 1} /\ pc[p] = "exit"
        BY <1>6, <2>2, FullEntries DEF Proc, Undo
      <4>2. adj[p]["full"] = 1
        BY <4>1, <1>6 DEF Undo
      <4> QED BY <4>1, <4>2, <1>1, UndoRaises
    <3>2. Raise("full", 1, [adj EXCEPT ![p]["full"] = 0], [pc EXCEPT ![p] = "exit"])
      <4>1. [pc EXCEPT ![p] = "exit"] = pc
        BY <1>1, <3>1
      <4>2. Raise("full", 1, [adj EXCEPT ![p]["full"] = 0], pc)
        BY <1>6, <3>1 DEF Undo
      <4> QED BY <4>1, <4>2
    <3>3. pc'[Monitor] = pc[Monitor] /\ adj'[Monitor]["full"] = adj[Monitor]["full"]
      <4>1. \A h \in Proc : pc[h] = "w_full" => h # Monitor
        BY DEF EnvInv, LabelsOK, RefreshLabels
      <4>2. \/ Alone(p, "full", 1, 0, "exit")
            \/ \E h \in Proc : PassesTo(p, "full", 0, "exit", h)
            \/ Drops(p, "full", 0, "exit")
        BY <1>1, <3>1, <3>2, RaiseEffect
      <4> QED BY <1>1, <2>2, <4>1, <4>2 DEF Alone, PassesTo, Drops, Waiting
    <3> QED BY <1>2, <1>3, <3>3 DEF TornInv, CopyInStep, TornByAtMostOne
  <2> QED BY <2>1, <2>2
<1>7. CASE InitFull
  <2>1. pc'[Monitor] = "i_shm" /\ adj'[Monitor]["full"] = 0
    BY <1>1, <1>7, InitEffect DEF InitFull, Initialises
  <2> QED BY <1>3, <2>1 DEF TornInv, CopyInStep, TornByAtMostOne
<1> QED BY <1>4, <1>5, <1>6, <1>7 DEF Givings

LEMMA TornData ==
    ASSUME EnvInv, ~Spurious, TornInv, DataStep
    PROVE  TornInv'
<1>1. /\ Monitor \in Proc /\ pc \in [Proc -> RefreshLabels \cup CgiLabels]
      /\ env \in Sample /\ shm \in Slot /\ tpc \in TransferLabels
      /\ env.zig \in Int /\ env.a9 \in Int /\ shm.zig \in Int /\ shm.a9 \in Int
  BY EnvAssumption DEF EnvInv, TypeOK, Proc, Sample, Slot, Run
<1>2. EnvInStep /\ CopyInStep /\ TornByAtMostOne
      /\ (pc[Monitor] = "i_shm" => adj[Monitor]["full"] = 0)
  BY DEF TornInv
<1>3. CASE InitShm
  BY <1>1, <1>2, <1>3 DEF InitShm, semVars, TornInv, EnvInStep, CopyInStep, TornByAtMostOne, Slot
<1>4. CASE RefreshCopyA9
  <2>1. pc'[Monitor] = "r_zig" /\ shm'.a9 = env.a9 /\ UNCHANGED <<tpc, env>>
    BY <1>1, <1>4 DEF RefreshCopyA9, Slot
  <2>2. EnvInStep'
    BY <1>2, <2>1 DEF EnvInStep
  <2>3. CopyInStep'
    <3>1. env.zig - env.a9 \in {0, 1} /\ (tpc = "t_zig" => env.zig = env.a9)
      BY <1>1, <1>2 DEF EnvInStep, TransferLabels
    <3> QED BY <2>1, <3>1 DEF CopyInStep
  <2> QED BY <2>1, <2>2, <2>3 DEF TornInv, TornByAtMostOne
<1>5. CASE RefreshCopyZig
  <2>1. /\ pc[Monitor] = "r_zig" /\ pc'[Monitor] = "r_vmutex"
        /\ shm'.a9 = shm.a9 /\ shm'.zig = env.zig /\ UNCHANGED <<tpc, env>>
    BY <1>1, <1>5 DEF RefreshCopyZig, Slot
  <2>2. env.zig - shm.a9 \in {0, 1}
    BY <1>2, <2>1 DEF CopyInStep
  <2>3. EnvInStep'
    BY <1>2, <2>1 DEF EnvInStep
  <2> QED BY <2>1, <2>2, <2>3 DEF TornInv, CopyInStep, TornByAtMostOne
<1>6. CASE RefreshSignal
  BY <1>1, <1>2, <1>6 DEF RefreshSignal, semVars, dataVars, TornInv, EnvInStep, CopyInStep,
                          TornByAtMostOne
<1>7. CASE TransferWait \/ TransferSpurious
  BY <1>1, <1>2, <1>7 DEF TransferWait, TransferSpurious, semVars, dataVars, TornInv, EnvInStep,
                          CopyInStep, TornByAtMostOne
<1>8. CASE TransferZig
  <2>1. /\ tpc = "t_zig" /\ tpc' = "t_a9" /\ env'.zig = env.zig + 1 /\ env'.a9 = env.a9
        /\ UNCHANGED <<adj, pc, shm>>
    BY <1>1, <1>8 DEF TransferZig, semVars, Sample
  <2>2. EnvInStep'
    BY <1>1, <1>2, <2>1 DEF EnvInStep
  <2>3. CopyInStep'
    BY <1>1, <1>2, <2>1 DEF CopyInStep
  <2> QED BY <1>2, <2>1, <2>2, <2>3 DEF TornInv, TornByAtMostOne
<1>9. CASE TransferA9
  <2>1. /\ tpc = "t_a9" /\ tpc' = "t_sleep" /\ env'.zig = env.zig /\ env'.a9 = env.zig
        /\ UNCHANGED <<adj, pc, shm>>
    BY <1>1, <1>9 DEF TransferA9, semVars, Sample
  <2>2. EnvInStep'
    BY <1>1, <1>2, <2>1 DEF EnvInStep
  <2>3. CopyInStep'
    BY <1>1, <1>2, <2>1 DEF CopyInStep
  <2> QED BY <1>2, <2>1, <2>2, <2>3 DEF TornInv, TornByAtMostOne
<1>10. CASE Restart
  <2>1. /\ pc'[Monitor] = "i_mutex" /\ tpc' = "t_start" /\ env' = [zig |-> 0, a9 |-> 0]
    BY <1>1, <1>10 DEF Restart
  <2> QED BY <2>1 DEF TornInv, EnvInStep, CopyInStep, TornByAtMostOne
<1> QED BY <1>3, <1>4, <1>5, <1>6, <1>7, <1>8, <1>9, <1>10 DEF DataStep, Transfer

LEMMA TornNext ==
    ASSUME EnvInv, EnvInv', TokenInv, TornInv, [Next]_vars
    PROVE  TornInv'
<1>1. CASE Spurious
  BY <1>1 DEF TornInv
<1>2. CASE ~Spurious
  BY <1>2, StepKinds, TornQuiet, TornFull, TornData
<1> QED BY <1>1, <1>2

LEMMA TornInit ==
    ASSUME Init
    PROVE  TornInv
<1>1. pc[Monitor] = "i_mutex" /\ tpc = "t_start" /\ env = [zig |-> 0, a9 |-> 0]
  BY DEF Init, Proc
<1> QED BY <1>1 DEF TornInv, EnvInStep, CopyInStep, TornByAtMostOne

----------------------------------------------------------------------------
(* One life of the monitor implements EnvBoard *)

BoardStep == [Board!Next]_(Board!vars)

\* Whoever calls semop or exits, the others stay where they are or wake up from
\* their wait for that semaphore.
OthersStay(p, s) ==
    \A q \in Proc : q # p => \/ pc'[q] = pc[q]
                             \/ /\ pc[q] = Waiting(s)
                                /\ pc'[q] \in {Obtained(q, s), "exit"}

\* A call of p on s that neither copies nor reads the slot.
Calm(p, s) ==
    /\ OthersStay(p, s)
    /\ UNCHANGED <<shm, page, overlap>>
    /\ pc[p] \notin {"idle", "r_zig", "r_signal"}
    /\ pc'[p] \notin {"idle", "r_zig", "c_a9", "c_vmutex"}
    /\ pc'[Monitor] \in {"i_mutex", "i_empty", "i_full", "i_shm"} =>
          pc[Monitor] \in {"i_mutex", "i_empty", "i_full", "i_shm"}
    /\ shm.status # 1 =>
          /\ val'["full"] = 0
          /\ \A c \in Cgi : adj'[c]["full"] # 1
          /\ p \in Cgi => ~PastFull(p)'
          /\ p = Monitor => pc'[p] \notin {"r_vmutex", "r_vfull", "r_signal"}
          /\ \A q \in Cgi : q # p /\ pc[q] = "w_full" => pc'[q] \in {"w_full", "exit"}

LEMMA DisplayedSame ==
    ASSUME \A c \in Cgi : (pc'[c] = "c_vmutex") <=> (pc[c] = "c_vmutex"),
           \A c \in Cgi : pc[c] = "c_vmutex" => page'[c] = page[c]
    PROVE  Displayed' = Displayed
BY DEF Displayed

LEMMA DisplayedLeft ==
    ASSUME NEW p \in Cgi, pc[p] = "c_vmutex", pc'[p] # "c_vmutex",
           \A c \in Cgi : c # p => ((pc'[c] = "c_vmutex") <=> (pc[c] = "c_vmutex")),
           \A c \in Cgi : pc[c] = "c_vmutex" => page'[c] = page[c],
           page \in [Cgi -> Sample]
    PROVE  /\ Displayed' = [Displayed EXCEPT ![p] = None]
           /\ Displayed[p] # None
<1>1. Displayed[p] = page[p] /\ page[p] \in Sample
  BY DEF Displayed
<1> QED BY <1>1, BoardValues DEF Displayed

\* What the board shows when nothing is published or withdrawn.
LEMMA BoardUnchanged ==
    ASSUME Published' = Published, Displayed' = Displayed
    PROVE  BoardStep
BY DEF BoardStep, Board!vars

LEMMA BoardWithdraws ==
    ASSUME NEW p \in Cgi, Published' = Published,
           Displayed' = [Displayed EXCEPT ![p] = None], Displayed[p] # None
    PROVE  BoardStep
<1>1. Board!Withdraw(p)
  BY DEF Board!Withdraw
<1> QED BY <1>1 DEF BoardStep, Board!Next

LEMMA BoardCalm ==
    ASSUME EnvInv, BoardInv, NEW p \in Proc, NEW s \in Sem, Calm(p, s)
    PROVE  BoardInv' /\ BoardStep
<1> USE EnvAssumption
<1>1. /\ Monitor \in Proc /\ Cgi \subseteq Proc /\ Monitor \notin Cgi
      /\ page \in [Cgi -> Sample] /\ LabelsOK
  BY DEF EnvInv, TypeOK, Proc
<1>2. \A q \in Proc : q # p => \/ pc'[q] = pc[q]
                               \/ /\ pc[q] \in {"w_mutex", "w_empty", "w_full"}
                                  /\ pc'[q] \in {"r_mutex", "r_a9", "c_mutex", "c_zig", "exit"}
  BY DEF Calm, OthersStay, Waiting, Obtained, Sem
<1>3. /\ \A q \in Proc : pc'[q] = "c_a9" => pc[q] = "c_a9"
      /\ \A q \in Proc : pc'[q] = "r_zig" <=> pc[q] = "r_zig"
      /\ \A q \in Proc : pc'[q] = "c_vmutex" => pc[q] = "c_vmutex"
      /\ \A q \in Proc : pc[q] = "c_vmutex" /\ q # p => pc'[q] = "c_vmutex"
  BY <1>2 DEF Calm
<1>4. shm.status = -1 => \A c \in Cgi : pc'[c] = "idle"
  BY <1>1, <1>2 DEF BoardInv, Calm
<1>5. NothingYet'
  <2> SUFFICES ASSUME shm.status # 1 PROVE NothingYet'
    BY DEF NothingYet, Calm
  <2>1. pc[Monitor] \notin {"r_zig", "r_vmutex", "r_vfull", "r_signal"}
        /\ \A c \in Cgi : ~PastFull(c)
    BY DEF BoardInv, NothingYet
  <2>2. pc'[Monitor] \notin {"r_zig", "r_vmutex", "r_vfull", "r_signal"}
    BY <1>1, <1>2, <1>3, <2>1 DEF Calm
  <2>3. ASSUME NEW c \in Cgi PROVE ~PastFull(c)'
    <3>1. CASE c = p
      BY <3>1 DEF Calm
    <3>2. CASE c # p /\ pc[c] # "w_full"
      BY <1>1, <1>2, <2>1, <3>2 DEF PastFull, EnvInv, LabelsOK, CgiLabels
    <3>3. CASE c # p /\ pc[c] = "w_full"
      BY <3>3 DEF Calm, PastFull
    <3> QED BY <3>1, <3>2, <3>3
  <2> QED BY <2>2, <2>3 DEF NothingYet, Calm
<1>6. BoardInv'
  BY <1>1, <1>3, <1>4, <1>5 DEF BoardInv, Calm
<1>7. Published' = Published
  BY <1>1, <1>3 DEF Calm, Published
<1>8. CASE p \in Cgi /\ pc[p] = "c_vmutex"
  <2>1. /\ \A c \in Cgi : c # p => ((pc'[c] = "c_vmutex") <=> (pc[c] = "c_vmutex"))
        /\ pc'[p] # "c_vmutex" /\ page' = page
    BY <1>1, <1>3 DEF Calm
  <2> QED BY <1>1, <1>6, <1>7, <1>8, <2>1, DisplayedLeft, BoardWithdraws
<1>9. CASE ~(p \in Cgi /\ pc[p] = "c_vmutex")
  <2>1. \A c \in Cgi : (pc'[c] = "c_vmutex") <=> (pc[c] = "c_vmutex")
    BY <1>1, <1>3, <1>9
  <2>2. page' = page
    BY DEF Calm
  <2> QED BY <1>6, <1>7, <2>1, <2>2, DisplayedSame, BoardUnchanged
<1> QED BY <1>8, <1>9

\* The calls of sem_p, sem_v, init_sem and exit(2) are calm.
LEMMA CalmP ==
    ASSUME EnvInv, BoardInv, NEW p \in Proc, NEW s \in Sem, Calls(p, s), SemP(p, s),
           UNCHANGED Rest
    PROVE  Calm(p, s)
<1> USE EnvAssumption
<1>1. /\ Monitor \in Proc /\ Cgi \subseteq Proc /\ Monitor \notin Cgi /\ "full" \in Sem
  BY DEF Proc, Sem
<1>2. Touches(s) /\ (Takes(p, s) \/ Misses(p, s))
  BY TakeEffect
<1>3. \A q \in Proc : q # p => pc'[q] = pc[q]
  BY <1>2 DEF Takes, Misses
<1>4. pc'[p] \in {Obtained(p, s), Waiting(s), "exit"} /\ (Misses(p, s) \/ pc'[p] = Obtained(p, s))
  BY <1>2 DEF Takes, Misses
<1>5. shm.status # 1 => /\ val'["full"] = 0
                        /\ \A c \in Cgi : adj'[c]["full"] # 1
                        /\ s = "full" => Misses(p, s)
                        /\ p \in Cgi => s = "full"
  <2> SUFFICES ASSUME shm.status # 1
               PROVE  /\ val'["full"] = 0
                      /\ \A c \in Cgi : adj'[c]["full"] # 1
                      /\ s = "full" => Misses(p, s)
                      /\ p \in Cgi => s = "full"
    OBVIOUS
  <2>1. val["full"] = 0 /\ \A c \in Cgi : adj[c]["full"] # 1 /\ ~PastFull(c)
    BY DEF BoardInv, NothingYet
  <2>2. p \in Cgi => s = "full"
    BY <2>1 DEF Calls, PastFull
  <2>3. s = "full" => Misses(p, s)
    BY <1>2, <2>1 DEF Takes
  <2>4. s # "full" => val'["full"] = 0 /\ \A c \in Cgi : adj'[c]["full"] # 1
    BY <1>1, <1>2, <2>1 DEF Touches
  <2>5. s = "full" => val'["full"] = 0 /\ \A c \in Cgi : adj'[c]["full"] # 1
    BY <2>1, <2>3 DEF Misses
  <2> QED BY <2>2, <2>3, <2>4, <2>5
<1>6. pc'[p] \in {"r_mutex", "r_a9", "c_mutex", "c_zig", "w_mutex", "w_empty", "w_full", "exit"}
  BY <1>4 DEF Obtained, Waiting
<1>7. pc[p] \in {"r_empty", "r_mutex", "c_full", "c_mutex"}
  BY DEF Calls
<1>8. OthersStay(p, s) /\ UNCHANGED <<shm, page, overlap>>
  BY <1>3 DEF OthersStay, Rest, dataVars
<1>9. shm.status # 1 /\ p \in Cgi => ~PastFull(p)'
  <2>1. shm.status # 1 /\ p \in Cgi => pc'[p] \in {"exit", "w_full"}
    BY <1>5 DEF Misses, Waiting
  <2> QED BY <2>1 DEF PastFull
<1>10. pc'[Monitor] \in {"i_mutex", "i_empty", "i_full", "i_shm"} =>
          pc[Monitor] \in {"i_mutex", "i_empty", "i_full", "i_shm"}
  BY <1>1, <1>3, <1>6
<1>11. \A q \in Cgi : q # p /\ pc[q] = "w_full" => pc'[q] \in {"w_full", "exit"}
  BY <1>1, <1>3
<1> QED BY <1>5, <1>6, <1>7, <1>8, <1>9, <1>10, <1>11 DEF Calm

LEMMA CalmRaise ==
    ASSUME EnvInv, BoardInv, NEW p \in Proc, NEW s \in Sem, NEW n, NEW a, NEW l,
           Raises(p, s, n, a, l),
           Raise(s, n, [adj EXCEPT ![p][s] = a], [pc EXCEPT ![p] = l]),
           UNCHANGED Rest,
           Returns(p, s, l) \/ (pc[p] = "exit" /\ l = "exit"),
           s = "full" => shm.status = 1
    PROVE  Calm(p, s)
<1> USE EnvAssumption
<1>1. /\ Monitor \in Proc /\ Cgi \subseteq Proc /\ Monitor \notin Cgi /\ "full" \in Sem
  BY DEF Proc, Sem
<1>2. /\ Touches(s)
      /\ \/ Alone(p, s, n, a, l)
         \/ \E h \in Proc : PassesTo(p, s, a, l, h)
         \/ Drops(p, s, a, l)
  BY RaiseEffect
<1>3. pc'[p] = l
  BY <1>2 DEF Alone, PassesTo, Drops
<1>4. OthersStay(p, s)
  BY <1>1, <1>2 DEF Alone, PassesTo, Drops, OthersStay, Waiting
<1>5. /\ l \in {"r_vfull", "r_signal", "c_vempty", "exit"}
      /\ pc[p] \in {"r_vmutex", "r_vfull", "c_vmutex", "c_vempty", "exit"}
      /\ p = Monitor /\ l # "exit" => pc[p] \in {"r_vmutex", "r_vfull"}
      /\ p \in Cgi /\ l # "exit" => PastFull(p)
  BY <1>1 DEF Returns, PastFull
<1>6. UNCHANGED <<shm, page, overlap>>
  BY DEF Rest, dataVars
<1>7. pc'[Monitor] \in {"i_mutex", "i_empty", "i_full", "i_shm"} =>
          pc[Monitor] \in {"i_mutex", "i_empty", "i_full", "i_shm"}
  <2>1. p # Monitor /\ pc'[Monitor] # pc[Monitor] => pc'[Monitor] \in {Obtained(Monitor, s), "exit"}
    BY <1>1, <1>4 DEF OthersStay
  <2> QED BY <2>1, <1>3, <1>5 DEF Obtained
<1>8. ASSUME shm.status # 1
      PROVE  /\ val'["full"] = 0
             /\ \A c \in Cgi : adj'[c]["full"] # 1
             /\ p \in Cgi => ~PastFull(p)'
             /\ p = Monitor => pc'[p] \notin {"r_vmutex", "r_vfull", "r_signal"}
             /\ \A q \in Cgi : q # p /\ pc[q] = "w_full" => pc'[q] \in {"w_full", "exit"}
  <2>1. /\ val["full"] = 0 /\ \A c \in Cgi : adj[c]["full"] # 1 /\ ~PastFull(c)
        /\ pc[Monitor] \notin {"r_vmutex", "r_vfull"}
    BY <1>8 DEF BoardInv, NothingYet
  <2>2. s # "full"
    BY <1>8
  <2>3. val'["full"] = 0 /\ \A c \in Cgi : adj'[c]["full"] # 1
    BY <1>1, <1>2, <2>1, <2>2 DEF Touches
  <2>4. l = "exit"
    BY <1>5, <2>1 DEF Proc
  <2>5. \A q \in Cgi : q # p /\ pc[q] = "w_full" => pc'[q] = "w_full"
    BY <1>1, <1>4, <2>2 DEF OthersStay, Waiting, Sem
  <2> QED BY <1>3, <2>3, <2>4, <2>5 DEF PastFull
<1> QED BY <1>3, <1>4, <1>5, <1>6, <1>7, <1>8 DEF Calm

LEMMA CalmExit ==
    ASSUME EnvInv, BoardInv, NEW p \in Proc, NEW s \in Sem,
           pc[p] \notin {"idle", "r_zig", "r_signal"},
           \A q \in Proc : pc'[q] = IF q = p THEN "exit" ELSE pc[q],
           val' = val, adj' = adj, UNCHANGED <<shm, page, overlap>>
    PROVE  Calm(p, s)
<1>1. Monitor \in Proc /\ Cgi \subseteq Proc
  BY DEF Proc
<1>2. OthersStay(p, s)
  BY DEF OthersStay
<1>3. shm.status # 1 => val["full"] = 0 /\ \A c \in Cgi : adj[c]["full"] # 1
  BY DEF BoardInv, NothingYet
<1> QED BY <1>1, <1>2, <1>3 DEF Calm, PastFull

LEMMA CalmV ==
    ASSUME EnvInv, BoardInv, NEW p \in Proc, NEW s \in Sem, NEW l, Returns(p, s, l),
           SemV(p, s, l), UNCHANGED Rest
    PROVE  Calm(p, s)
<1>1. CASE Raise(s, 1, [adj EXCEPT ![p][s] = @ - 1], [pc EXCEPT ![p] = l])
  <2>1. Raises(p, s, 1, adj[p][s] - 1, l)
    BY ReturnRaises
  <2>2. Raise(s, 1, [adj EXCEPT ![p][s] = adj[p][s] - 1], [pc EXCEPT ![p] = l])
    BY <1>1
  <2>3. s = "full" => shm.status = 1
    BY DEF Returns, BoardInv, NothingYet
  <2> QED BY <2>1, <2>2, <2>3, CalmRaise
<1>2. CASE pc' = [pc EXCEPT ![p] = "exit"] /\ UNCHANGED semVars
  BY <1>2, CalmExit DEF Returns, EnvInv, TypeOK, semVars, Rest, dataVars
<1> QED BY <1>1, <1>2 DEF SemV

LEMMA CalmUndo ==
    ASSUME EnvInv, BoardInv, NEW p \in Proc, NEW s \in Sem, Undo(p, s)
    PROVE  Calm(p, s)
<1> USE EnvAssumption
<1>1. /\ adj \in [Proc -> [Sem -> Int]] /\ adj[p][s] \in Int /\ pc[p] = "exit"
      /\ pc \in [Proc -> RefreshLabels \cup CgiLabels] /\ val \in [Sem -> 0..SEMVMX]
      /\ Monitor \in Proc /\ Cgi \subseteq Proc /\ "full" \in Sem
      /\ UNCHANGED Rest
  BY DEF EnvInv, TypeOK, Undo, Proc, Sem, Rest
<1>2. CASE adj[p][s] > 0
  <2>1. /\ Raises(p, s, adj[p][s], 0, "exit")
        /\ s = "full" => adj[p][s] = 1 /\ p \in Cgi
    BY <1>1, <1>2, UndoRaises
  <2>2. Raise(s, adj[p][s], [adj EXCEPT ![p][s] = 0], [pc EXCEPT ![p] = "exit"])
    <3>1. [pc EXCEPT ![p] = "exit"] = pc
      BY <1>1
    <3>2. Raise(s, adj[p][s], [adj EXCEPT ![p][s] = 0], pc)
      BY <1>1, <1>2 DEF Undo
    <3> QED BY <3>1, <3>2
  <2>3. s = "full" => shm.status = 1
    BY <2>1 DEF BoardInv, NothingYet
  <2> QED BY <1>1, <2>1, <2>2, <2>3, CalmRaise
<1>3. CASE adj[p][s] < 0
  <2>1. /\ val' = [val EXCEPT ![s] = IF @ + adj[p][s] < 0 THEN 0 ELSE @ + adj[p][s]]
        /\ adj' = [adj EXCEPT ![p][s] = 0] /\ pc' = pc
    BY <1>1, <1>3 DEF Undo
  <2>2. \A q \in Proc, t \in Sem : adj'[q][t] = IF q = p /\ t = s THEN 0 ELSE adj[q][t]
    BY <1>1, <2>1, EntryType
  <2>3. shm.status # 1 => val["full"] = 0 /\ \A c \in Cgi : adj[c]["full"] # 1
    BY DEF BoardInv, NothingYet
  <2>4. val["full"] = 0 => val'["full"] = 0
    BY <1>1, <1>3, <2>1
  <2>5. shm.status # 1 => val'["full"] = 0 /\ \A c \in Cgi : adj'[c]["full"] # 1
    BY <1>1, <2>2, <2>3, <2>4
  <2> QED BY <1>1, <2>1, <2>5 DEF Calm, OthersStay, PastFull, Rest, dataVars
<1> QED BY <1>2, <1>3 DEF Undo

LEMMA CalmInit ==
    ASSUME EnvInv, BoardInv, NEW s \in Sem, NEW v, NEW l, Initialises(s, v, l),
           InitSem(s, v, l), UNCHANGED <<dataVars, boots>>,
           overlap' = overlap \/ \E p \in Proc : adj[p]["mutex"] # 0 /\ s = "mutex"
    PROVE  Calm(Monitor, s)
<1> USE EnvAssumption
<1>1. /\ adj \in [Proc -> [Sem -> Int]] /\ val \in [Sem -> 0..SEMVMX]
      /\ pc \in [Proc -> RefreshLabels \cup CgiLabels] /\ "full" \in Sem /\ "mutex" \in Sem
      /\ Monitor \in Proc /\ Cgi \subseteq Proc /\ EntriesOK /\ HolderOK
  BY DEF EnvInv, TypeOK, Proc, Sem
<1>2. shm.status = -1 /\ ~overlap /\ \A c \in Cgi : pc[c] = "idle"
  BY DEF Initialises, BoardInv
<1>3. \A p \in Proc : adj[p]["mutex"] = 0
  <2> SUFFICES ASSUME NEW p \in Proc PROVE adj[p]["mutex"] = 0
    OBVIOUS
  <2>1. ~InCS(p) /\ pc[p] # "exit"
    BY <1>2 DEF Initialises, InCS, RefreshCS, CgiCS, Proc
  <2>2. adj[p]["mutex"] \in Int /\ adj[p]["mutex"] >= 0 /\ adj[p]["mutex"] <= 1
    BY <1>1, <1>2 DEF HolderOK, EntriesOK
  <2>3. adj[p]["mutex"] # 1
    BY <1>1, <2>1 DEF EntriesOK
  <2> QED BY <2>2, <2>3
<1>4. queue[s] = <<>>
  <2> SUFFICES ASSUME queue[s] # <<>> PROVE FALSE
    OBVIOUS
  <2>1. Head(queue[s]) \in Proc /\ pc[Head(queue[s])] \in {"w_mutex", "w_empty", "w_full"}
    BY HeadOfQueue DEF Waiting
  <2> QED BY <1>2, <2>1 DEF Initialises, Proc
<1>5. /\ val' = [val EXCEPT ![s] = v]
      /\ adj' = [p \in Proc |-> [adj[p] EXCEPT ![s] = 0]]
      /\ pc' = [pc EXCEPT ![Monitor] = l]
  BY <1>4 DEF InitSem
<1>6. val["full"] = 0 /\ \A c \in Cgi : adj[c]["full"] # 1
  BY <1>2 DEF BoardInv, NothingYet
<1>7. val'["full"] = 0 /\ \A c \in Cgi : adj'[c]["full"] # 1
  BY <1>1, <1>5, <1>6 DEF Initialises
<1>8. /\ \A q \in Proc : q # Monitor => pc'[q] = pc[q]
      /\ pc'[Monitor] = l
      /\ l \in {"i_empty", "i_full", "i_shm"}
      /\ pc[Monitor] \in {"i_mutex", "i_empty", "i_full"}
  BY <1>1, <1>5 DEF Initialises
<1>9. overlap' = overlap
  BY <1>3
<1> QED BY <1>1, <1>7, <1>8, <1>9 DEF Calm, OthersStay, dataVars

\* The steps that touch the slot or a page.
LEMMA Exclusive ==
    ASSUME EnvInv, BoardInv
    PROVE  \A p, q \in Proc : InCS(p) /\ InCS(q) => p = q
BY DEF EnvInv, HolderOK, BoardInv

LEMMA BoardInitShm ==
    ASSUME EnvInv, BoardInv, InitShm
    PROVE  BoardInv' /\ BoardStep
<1> USE EnvAssumption
<1>1. /\ pc \in [Proc -> RefreshLabels \cup CgiLabels] /\ Monitor \in Proc
      /\ Cgi \subseteq Proc /\ Monitor \notin Cgi /\ shm \in Slot
  BY DEF EnvInv, TypeOK, Proc
<1>2. /\ shm.status = -1 /\ shm'.status = 0 /\ shm'.zig = shm.zig
      /\ pc'[Monitor] = "r_empty" /\ pc[Monitor] = "i_shm"
      /\ \A c \in Cgi : pc'[c] = pc[c] /\ pc[c] = "idle"
      /\ UNCHANGED <<val, adj, page, overlap>>
  BY <1>1 DEF InitShm, BoardInv, semVars, Slot
<1>3. BoardInv'
  BY <1>2 DEF BoardInv, NothingYet, PastFull
<1>4. Published' = Published /\ Displayed' = Displayed
  BY <1>2 DEF Published, Displayed
<1> QED BY <1>3, <1>4, BoardUnchanged

LEMMA BoardCopyA9 ==
    ASSUME EnvInv, BoardInv, RefreshCopyA9
    PROVE  BoardInv' /\ BoardStep
<1> USE EnvAssumption
<1>1. /\ pc \in [Proc -> RefreshLabels \cup CgiLabels] /\ Monitor \in Proc
      /\ Cgi \subseteq Proc /\ Monitor \notin Cgi /\ shm \in Slot /\ env \in Sample
  BY DEF EnvInv, TypeOK, Proc
<1>2. /\ shm'.status = 1 /\ shm'.zig = shm.zig
      /\ pc'[Monitor] = "r_zig" /\ pc[Monitor] = "r_a9"
      /\ \A c \in Cgi : pc'[c] = pc[c]
      /\ UNCHANGED <<val, adj, page, overlap>>
  BY <1>1 DEF RefreshCopyA9, semVars, Slot
<1>3. BoardInv'
  BY <1>2 DEF BoardInv, NothingYet, PastFull
<1>4. Published' = Busy /\ Displayed' = Displayed
  BY <1>2 DEF Published, Displayed
<1>5. Published # Busy
  <2>1. [zig |-> shm.zig, a9 |-> shm.a9] \in Sample
    BY <1>1 DEF Slot, Sample
  <2> QED BY <1>2, <2>1, BoardValues DEF Published
<1>6. Board!Rewrite
  BY <1>4, <1>5 DEF Board!Rewrite
<1> QED BY <1>3, <1>6 DEF BoardStep, Board!Next

LEMMA BoardCopyZig ==
    ASSUME EnvInv, BoardInv, RefreshCopyZig
    PROVE  BoardInv' /\ BoardStep
<1> USE EnvAssumption
<1>1. /\ pc \in [Proc -> RefreshLabels \cup CgiLabels] /\ Monitor \in Proc
      /\ Cgi \subseteq Proc /\ Monitor \notin Cgi /\ shm \in Slot /\ env \in Sample
  BY DEF EnvInv, TypeOK, Proc
<1>2. /\ shm'.status = shm.status /\ shm'.zig = env.zig /\ shm'.a9 = shm.a9
      /\ pc'[Monitor] = "r_vmutex" /\ pc[Monitor] = "r_zig"
      /\ \A c \in Cgi : pc'[c] = pc[c]
      /\ UNCHANGED <<val, adj, page, overlap>>
  BY <1>1 DEF RefreshCopyZig, semVars, Slot
<1>3. shm.status = 1
  BY <1>2 DEF BoardInv, NothingYet
<1>4. \A c \in Cgi : pc[c] # "c_a9"
  BY <1>1, <1>2, Exclusive DEF InCS, RefreshCS, CgiCS
<1>5. BoardInv'
  BY <1>2, <1>3, <1>4 DEF BoardInv, NothingYet, PastFull
<1>6. Published = Busy /\ Displayed' = Displayed
  BY <1>2 DEF Published, Displayed
<1>7. Published' \in Sample
  BY <1>1, <1>2, <1>3 DEF Published, Sample, Slot
<1>8. Board!Publish
  BY <1>6, <1>7 DEF Board!Publish
<1> QED BY <1>5, <1>8 DEF BoardStep, Board!Next

LEMMA BoardSignal ==
    ASSUME EnvInv, BoardInv, RefreshSignal
    PROVE  BoardInv' /\ BoardStep
<1> USE EnvAssumption
<1>1. /\ pc \in [Proc -> RefreshLabels \cup CgiLabels] /\ Monitor \in Proc
      /\ Cgi \subseteq Proc /\ Monitor \notin Cgi
  BY DEF EnvInv, TypeOK, Proc
<1>2. /\ pc'[Monitor] = "r_empty" /\ pc[Monitor] = "r_signal"
      /\ \A c \in Cgi : pc'[c] = pc[c]
      /\ UNCHANGED <<val, adj, page, shm, overlap>>
  BY <1>1 DEF RefreshSignal, semVars, dataVars
<1>3. BoardInv'
  BY <1>2 DEF BoardInv, NothingYet, PastFull
<1>4. Published' = Published /\ Displayed' = Displayed
  BY <1>2 DEF Published, Displayed
<1> QED BY <1>3, <1>4, BoardUnchanged

\* The transfer thread and stuttering.
LEMMA BoardTransfer ==
    ASSUME BoardInv, UNCHANGED <<val, adj, pc, shm, page, overlap>>
    PROVE  BoardInv' /\ BoardStep
<1>1. BoardInv'
  BY DEF BoardInv, NothingYet, PastFull
<1>2. Published' = Published /\ Displayed' = Displayed
  BY DEF Published, Displayed
<1> QED BY <1>1, <1>2, BoardUnchanged

LEMMA BoardRequest ==
    ASSUME EnvInv, BoardInv, NEW c \in Cgi, Request(c)
    PROVE  BoardInv' /\ BoardStep
<1> USE EnvAssumption
<1>1. /\ pc \in [Proc -> RefreshLabels \cup CgiLabels] /\ Monitor \in Proc
      /\ c \in Proc /\ Cgi \subseteq Proc /\ Monitor \notin Cgi /\ page \in [Cgi -> Sample]
  BY DEF EnvInv, TypeOK, Proc
<1>2. /\ pc'[Monitor] = pc[Monitor] /\ pc'[c] = "c_full" /\ pc[c] = "idle"
      /\ \A d \in Cgi : d # c => pc'[d] = pc[d] /\ page'[d] = page[d]
      /\ shm.status # -1
      /\ UNCHANGED <<val, adj, shm, overlap>>
  BY <1>1 DEF Request, semVars
<1>3. BoardInv'
  BY <1>2 DEF BoardInv, NothingYet, PastFull
<1>4. Published' = Published /\ Displayed' = Displayed
  BY <1>2, DisplayedSame DEF Published
<1> QED BY <1>3, <1>4, BoardUnchanged

LEMMA BoardReadZig ==
    ASSUME EnvInv, BoardInv, NEW c \in Cgi, CgiReadZig(c)
    PROVE  BoardInv' /\ BoardStep
<1> USE EnvAssumption
<1>1. /\ pc \in [Proc -> RefreshLabels \cup CgiLabels] /\ Monitor \in Proc
      /\ c \in Proc /\ Cgi \subseteq Proc /\ Monitor \notin Cgi /\ page \in [Cgi -> Sample]
  BY DEF EnvInv, TypeOK, Proc
<1>2. shm.status = 1
  BY DEF BoardInv, NothingYet, PastFull, CgiReadZig
<1>3. /\ pc'[Monitor] = pc[Monitor] /\ pc'[c] = "c_a9" /\ pc[c] = "c_zig"
      /\ \A d \in Cgi : d # c => pc'[d] = pc[d] /\ page'[d] = page[d]
      /\ page'[c].zig = shm.zig
      /\ UNCHANGED <<val, adj, shm, overlap>>
  BY <1>1, <1>2 DEF CgiReadZig, semVars, Sample
<1>4. BoardInv'
  BY <1>2, <1>3 DEF BoardInv, NothingYet, PastFull
<1>5. Published' = Published /\ Displayed' = Displayed
  BY <1>3, DisplayedSame DEF Published
<1> QED BY <1>4, <1>5, BoardUnchanged

LEMMA BoardReadA9 ==
    ASSUME EnvInv, BoardInv, NEW c \in Cgi, CgiReadA9(c)
    PROVE  BoardInv' /\ BoardStep
<1> USE EnvAssumption
<1>1. /\ pc \in [Proc -> RefreshLabels \cup CgiLabels] /\ Monitor \in Proc
      /\ c \in Proc /\ Cgi \subseteq Proc /\ Monitor \notin Cgi /\ page \in [Cgi -> Sample]
      /\ shm \in Slot
  BY DEF EnvInv, TypeOK, Proc
<1>2. shm.status = 1 /\ page[c].zig = shm.zig
  BY DEF BoardInv, NothingYet, PastFull, CgiReadA9
<1>3. pc[Monitor] # "r_zig"
  BY <1>1, Exclusive DEF InCS, RefreshCS, CgiCS, CgiReadA9
<1>4. /\ pc'[Monitor] = pc[Monitor] /\ pc'[c] = "c_vmutex" /\ pc[c] = "c_a9"
      /\ \A d \in Cgi : d # c => pc'[d] = pc[d] /\ page'[d] = page[d]
      /\ page'[c] = [zig |-> shm.zig, a9 |-> shm.a9]
      /\ UNCHANGED <<val, adj, shm, overlap>>
  BY <1>1, <1>2 DEF CgiReadA9, semVars, Sample
<1>5. BoardInv'
  BY <1>2, <1>4 DEF BoardInv, NothingYet, PastFull
<1>6. /\ Published' = Published /\ Published \in Sample
      /\ Published = [zig |-> shm.zig, a9 |-> shm.a9]
  BY <1>1, <1>2, <1>3, <1>4 DEF Published, Slot, Sample
<1>7. /\ Displayed[c] = None
      /\ Displayed' = [Displayed EXCEPT ![c] = Published]
  BY <1>4, <1>6 DEF Displayed
<1>8. Board!Show(c)
  BY <1>6, <1>7 DEF Board!Show
<1> QED BY <1>5, <1>8 DEF BoardStep, Board!Next

LEMMA BoardReaped ==
    ASSUME EnvInv, BoardInv, NEW c \in Cgi, CgiReaped(c)
    PROVE  BoardInv' /\ BoardStep
<1> USE EnvAssumption
<1>1. /\ pc \in [Proc -> RefreshLabels \cup CgiLabels] /\ Monitor \in Proc
      /\ c \in Proc /\ Cgi \subseteq Proc /\ Monitor \notin Cgi
  BY DEF EnvInv, TypeOK, Proc
<1>2. /\ pc'[Monitor] = pc[Monitor] /\ pc'[c] = "idle" /\ pc[c] = "exit"
      /\ \A d \in Cgi : d # c => pc'[d] = pc[d]
      /\ UNCHANGED <<val, adj, shm, page, overlap>>
  BY <1>1 DEF CgiReaped, semVars, dataVars
<1>3. BoardInv'
  BY <1>2 DEF BoardInv, NothingYet, PastFull
<1>4. Published' = Published /\ Displayed' = Displayed
  BY <1>2, DisplayedSame DEF Published
<1> QED BY <1>3, <1>4, BoardUnchanged

LEMMA BoardKilled ==
    ASSUME EnvInv, BoardInv, NEW c \in Cgi, CgiKilled(c)
    PROVE  BoardInv' /\ BoardStep
<1> USE EnvAssumption
<1>1. /\ pc \in [Proc -> RefreshLabels \cup CgiLabels] /\ c \in Proc /\ "full" \in Sem
  BY DEF EnvInv, TypeOK, Proc, Sem
<1>2. Calm(c, "full")
  <2>1. pc[c] \notin {"idle", "r_zig", "r_signal"}
    BY DEF CgiKilled, EnvInv, LabelsOK, CgiLabels
  <2>2. \A q \in Proc : pc'[q] = IF q = c THEN "exit" ELSE pc[q]
    BY <1>1 DEF CgiKilled, Leave
  <2>3. val' = val /\ adj' = adj /\ UNCHANGED <<shm, page, overlap>>
    BY DEF CgiKilled, Leave, dataVars
  <2> QED BY <1>1, <2>1, <2>2, <2>3, CalmExit
<1> QED BY <1>1, <1>2, BoardCalm

\* An interrupt between the two halves of the copy leaves a slot that mixes
\* two samples on the board for good.
LEMMA BoardInterrupt ==
    ASSUME EnvInv, BoardInv, Interrupt
    PROVE  BoardInv' /\ BoardStep
<1> USE EnvAssumption
<1>1. /\ pc \in [Proc -> RefreshLabels \cup CgiLabels] /\ Monitor \in Proc
      /\ Cgi \subseteq Proc /\ Monitor \notin Cgi /\ shm \in Slot
  BY DEF EnvInv, TypeOK, Proc
<1>2. /\ pc'[Monitor] = "exit" /\ \A c \in Cgi : pc'[c] = pc[c]
      /\ UNCHANGED <<val, adj, shm, page, overlap>>
  BY <1>1 DEF Interrupt, Leave, dataVars
<1>3. BoardInv'
  BY <1>2 DEF BoardInv, NothingYet, PastFull
<1>4. Displayed' = Displayed
  BY <1>2, DisplayedSame
<1>5. CASE pc[Monitor] = "r_zig"
  <2>1. shm.status = 1 /\ Published = Busy
    BY <1>5 DEF BoardInv, NothingYet, Published
  <2>2. Published' \in Sample
    BY <1>1, <1>2, <2>1 DEF Published, Slot, Sample
  <2>3. Board!Publish
    BY <1>4, <2>1, <2>2 DEF Board!Publish
  <2> QED BY <1>3, <2>3 DEF BoardStep, Board!Next
<1>6. CASE pc[Monitor] # "r_zig"
  BY <1>2, <1>3, <1>4, <1>6, BoardUnchanged DEF Published
<1> QED BY <1>5, <1>6

LEMMA BoardMonitorReaped ==
    ASSUME EnvInv, BoardInv, MonitorReaped
    PROVE  BoardInv' /\ BoardStep
<1> USE EnvAssumption
<1>1. /\ pc \in [Proc -> RefreshLabels \cup CgiLabels] /\ Monitor \in Proc
      /\ Cgi \subseteq Proc /\ Monitor \notin Cgi
  BY DEF EnvInv, TypeOK, Proc
<1>2. /\ pc'[Monitor] = "down" /\ pc[Monitor] = "exit" /\ \A c \in Cgi : pc'[c] = pc[c]
      /\ UNCHANGED <<val, adj, shm, page, overlap>>
  BY <1>1 DEF MonitorReaped, semVars, dataVars
<1>3. BoardInv'
  BY <1>2 DEF BoardInv, NothingYet, PastFull
<1>4. Published' = Published /\ Displayed' = Displayed
  BY <1>2, DisplayedSame DEF Published
<1> QED BY <1>3, <1>4, BoardUnchanged

LEMMA BoardInit ==
    ASSUME Init
    PROVE  BoardInv /\ Board!Init
<1> USE EnvAssumption
<1>1. /\ Monitor \in Proc /\ Cgi \subseteq Proc /\ Monitor \notin Cgi
      /\ "full" \in Sem
  BY DEF Proc, Sem
<1>2. /\ ~overlap /\ shm.status = -1 /\ pc[Monitor] = "i_mutex"
      /\ \A c \in Cgi : pc[c] = "idle" /\ adj[c]["full"] = 0
      /\ val["full"] = 0
  BY <1>1 DEF Init
<1>3. BoardInv
  BY <1>2 DEF BoardInv, NothingYet, PastFull
<1>4. Board!Init
  BY <1>2 DEF Board!Init, Published, Displayed
<1> QED BY <1>3, <1>4

LEMMA BoardNext ==
    ASSUME EnvInv, BoardInv, [Next]_vars, boots = 1, boots' = 1
    PROVE  BoardInv' /\ BoardStep
<1> USE EnvAssumption
<1>1. Monitor \in Proc /\ Cgi \subseteq Proc /\ "mutex" \in Sem /\ "empty" \in Sem /\ "full" \in Sem
  BY DEF Proc, Sem
<1>2. CASE InitMutex
  <2>1. overlap' = overlap \/ \E p \in Proc : adj[p]["mutex"] # 0 /\ "mutex" = "mutex"
    <3>1. CASE \E p \in Proc : adj[p]["mutex"] # 0
      BY <3>1
    <3>2. CASE ~\E p \in Proc : adj[p]["mutex"] # 0
      <4>1. overlap \in BOOLEAN
        BY DEF EnvInv, TypeOK
      <4>2. overlap' = (overlap \/ \E p \in Proc : adj[p]["mutex"] # 0)
        BY <1>2 DEF InitMutex
      <4> QED BY <3>2, <4>1, <4>2
    <3> QED BY <3>1, <3>2
  <2>2. Initialises("mutex", 1, "i_empty") /\ InitSem("mutex", 1, "i_empty")
        /\ UNCHANGED <<dataVars, boots>>
    BY <1>2 DEF InitMutex, Initialises
  <2>3. Calm(Monitor, "mutex")
    BY <1>1, <2>1, <2>2, CalmInit
  <2> QED BY <1>1, <2>3, BoardCalm
<1>3. CASE InitEmpty
  <2>1. Calm(Monitor, "empty")
    BY <1>1, <1>3, CalmInit DEF InitEmpty, Initialises
  <2> QED BY <1>1, <2>1, BoardCalm
<1>4. CASE InitFull
  <2>1. Calm(Monitor, "full")
    BY <1>1, <1>4, CalmInit DEF InitFull, Initialises
  <2> QED BY <1>1, <2>1, BoardCalm
<1>5. CASE RefreshP
  <2>1. \E s \in Sem : Calm(Monitor, s)
    BY <1>1, <1>5, CalmP DEF RefreshP, Calls, Rest
  <2> QED BY <1>1, <2>1, BoardCalm
<1>6. CASE RefreshV
  <2>1. \E s \in Sem : Calm(Monitor, s)
    BY <1>1, <1>6, CalmV DEF RefreshV, Returns, Rest
  <2> QED BY <1>1, <2>1, BoardCalm
<1>7. ASSUME NEW c \in Cgi, CgiP(c) PROVE BoardInv' /\ BoardStep
  <2>1. \E s \in Sem : Calm(c, s)
    BY <1>1, <1>7, CalmP DEF CgiP, Calls, Rest
  <2> QED BY <1>1, <2>1, BoardCalm
<1>8. ASSUME NEW c \in Cgi, CgiV(c) PROVE BoardInv' /\ BoardStep
  <2>1. \E s \in Sem : Calm(c, s)
    BY <1>1, <1>8, CalmV DEF CgiV, Returns, Rest
  <2> QED BY <1>1, <2>1, BoardCalm
<1>9. ASSUME NEW p \in Proc, Exit(p) PROVE BoardInv' /\ BoardStep
  <2>1. PICK s \in Sem : Undo(p, s)
    BY <1>9 DEF Exit
  <2>2. Calm(p, s)
    BY <2>1, CalmUndo
  <2> QED BY <2>2, BoardCalm
<1>10. CASE InitShm
  BY <1>10, BoardInitShm
<1>11. CASE RefreshCopyA9
  BY <1>11, BoardCopyA9
<1>12. CASE RefreshCopyZig
  BY <1>12, BoardCopyZig
<1>13. CASE RefreshSignal
  BY <1>13, BoardSignal
<1>14. CASE Transfer
  BY <1>14, BoardTransfer DEF Transfer, TransferWait, TransferZig, TransferA9, semVars, dataVars
<1>15. CASE TransferSpurious
  BY <1>15, BoardTransfer DEF TransferSpurious, semVars, dataVars
<1>16. ASSUME NEW c \in Cgi, Request(c) \/ CgiReadZig(c) \/ CgiReadA9(c) \/ CgiReaped(c) \/ CgiKilled(c)
       PROVE  BoardInv' /\ BoardStep
  BY <1>16, BoardRequest, BoardReadZig, BoardReadA9, BoardReaped, BoardKilled
<1>17. CASE Interrupt
  BY <1>17, BoardInterrupt
<1>18. CASE MonitorReaped
  BY <1>18, BoardMonitorReaped
<1>19. CASE Restart
  BY <1>19 DEF Restart
<1>20. CASE UNCHANGED vars
  BY <1>20, BoardTransfer DEF vars
<1> QED
  BY <1>2, <1>3, <1>4, <1>5, <1>6, <1>7, <1>8, <1>9, <1>10, <1>11, <1>12, <1>13, <1>14,
     <1>15, <1>16, <1>17, <1>18, <1>19, <1>20 DEF Next, Refresh, Serve

----------------------------------------------------------------------------
(* Theorems *)

\* EnvInv holds in every state of every behaviour: no semaphore leaves
\* 0..SEMVMX, a process sleeps in at most one place of one queue and only
\* while that semaphore is 0, and the undo entries say who holds `mutex`
\* until init_sem (sem.c:3-13) erases a holder's entry.
THEOREM InvariantHolds == Spec => []EnvInv
<1>1. Init => EnvInv
  BY InitInv
<1>2. EnvInv /\ [Next]_vars => EnvInv'
  BY InvNext
<1> QED BY <1>1, <1>2, PTL DEF Spec

\* Every variable keeps its type whatever dies or restarts where; of the
\* semaphores this says that neither exit(2) nor sem_v takes them out of
\* 0..SEMVMX.
THEOREM TypeCorrect == Spec => []TypeOK
<1>1. EnvInv => TypeOK
  BY DEF EnvInv
<1> QED BY <1>1, InvariantHolds, PTL

\* The shared slot is never accessed by two processes (pthread_refresh.c:91-97,
\* env1.c:69-105), for any number of pages and whatever is killed where, until
\* a restarted monitor runs init_sem under a process inside.
THEOREM MutualExclusionHolds == Spec => []MutualExclusion
<1>1. EnvInv => MutualExclusion
  BY DEF EnvInv, HolderOK, MutualExclusion
<1> QED BY <1>1, InvariantHolds, PTL

\* Every token of `full` is in the semaphore or with a page, whatever pages are
\* killed where, and sem_v of pthread_refresh.c:98 succeeds in every life of
\* the monitor, for every limit of the kernel.
THEOREM TokensReturnedHolds == Spec => []TokensReturned
<1>1. Init => EnvInv /\ TokenInv
  BY InitInv, TokenInit
<1>2. EnvInv /\ TokenInv /\ [Next]_vars => EnvInv' /\ TokenInv'
  BY InvNext, TokenNext
<1>3. EnvInv /\ TokenInv => TokensReturned
  BY TokenEnough
<1> QED BY <1>1, <1>2, <1>3, PTL DEF Spec

\* A slot published in this life mixes at most two adjacent runs of the
\* transfer thread (pthread_refresh.c:96), for any number of runs, lives and
\* pages, as long as pthread_cond_wait returns only when signalled.
THEOREM TornByAtMostOneHolds == Spec => []TornByAtMostOne
<1>1. Init => EnvInv /\ TokenInv /\ TornInv
  BY InitInv, TokenInit, TornInit
<1>2. EnvInv /\ TokenInv /\ TornInv /\ [Next]_vars => EnvInv' /\ TokenInv' /\ TornInv'
  BY InvNext, TokenNext, TornNext
<1>3. TornInv => TornByAtMostOne
  BY DEF TornInv, TornByAtMostOne
<1> QED BY <1>1, <1>2, <1>3, PTL DEF Spec

\* One life of the monitor, for any number of pages: every page displays one
\* whole slot, whatever is killed or interrupted, although neither the copy
\* (pthread_refresh.c:96) nor the reading (env1.c:82-98) is atomic.
THEOREM ImplementsBoardHolds == Spec /\ [](boots = 1) => ImplementsBoard
<1>1. Init => EnvInv /\ BoardInv /\ Board!Init
  BY InitInv, BoardInit
<1>2. EnvInv /\ [Next]_vars => EnvInv'
  BY InvNext
<1>3. EnvInv /\ BoardInv /\ [Next]_vars /\ boots = 1 /\ (boots = 1)' => BoardInv' /\ BoardStep
  BY BoardNext
<1> QED BY <1>1, <1>2, <1>3, PTL DEF Spec, ImplementsBoard, Board!Spec, BoardStep
=============================================================================
