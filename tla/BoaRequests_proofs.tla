------------------------- MODULE BoaRequests_proofs -------------------------
(***************************************************************************)
(* For any number of clients, descriptors and signals: the queues of boa   *)
(* stay sound while they are walked, no descriptor has two owners, select  *)
(* watches for whatever a sleeping request waits for, and a request goes   *)
(* with everything said to its client.                                     *)
(***************************************************************************)
EXTENDS BoaRequests, FiniteSetTheorems, WellFoundedInduction, TLAPS

-----------------------------------------------------------------------------
(* The inductive invariant *)

Status ==
    {"READ", "BODY_READ", "BODY_WRITE", "WRITE", "PIPE_READ", "PIPE_WRITE", "DONE", "DEAD"}

Request ==
    [fd: 0..MaxFd, data_fd: 0..MaxFd, post_data_fd: 0..MaxFd, status: Status,
     logline: BOOLEAN, keepalive: {"inactive", "active", "stopped"}, kept: Nat,
     parsed: Nat, taken: Nat, buffered: 0..2, left: 0..2, piece: 0..2,
     cgi_status: {"none", "parse", "buffer", "done"}, overruled: BOOLEAN, age: 0..2]

Types ==
    /\ pc \in {"signals", "update", "first", "handle", "accept", "settle", "arm", "select", "down"}
    /\ ready \in Seq(Conn) /\ block \in Seq(Conn) /\ todo \in Seq(Conn)
    /\ retval \in -1..1
    /\ fds \in [{"read", "write"} -> SUBSET Fd]
    /\ max_fd \in Fd \cup {-1}
    /\ pending \in BOOLEAN
    /\ sigterm \in 0..2
    /\ sighup \in BOOLEAN
    /\ hups \in 0..MaxHups
    /\ req \in [Conn -> Request]
    /\ peer \in [Conn -> {"new", "backlog", "open", "gone", "closed"}]
    /\ sent \in [Conn -> Nat]
    /\ children \in Nat
    /\ \A c \in Conn : req[c].parsed <= req[c].taken /\ req[c].taken <= sent[c]

\* Who is in neither queue holds no descriptor; who is in one holds a socket, and was
\* accepted.
Membership ==
    \A c \in Conn :
        /\ c \in Queued <=> req[c].fd # 0
        /\ c \notin Queued => req[c].data_fd = 0 /\ req[c].post_data_fd = 0
        /\ c \in Queued => peer[c] \in {"open", "gone"}

HasItsFds(r) ==
    /\ r.status \in {"PIPE_READ", "PIPE_WRITE"} => r.data_fd # 0
    /\ r.status \in {"BODY_READ", "BODY_WRITE"} => r.post_data_fd # 0

\* No descriptor belongs to two requests, and a request has the one it will wait for.
FdsSound ==
    /\ \A c \in Conn : \A d \in Conn \ {c} : FdsOf(req[c]) \cap FdsOf(req[d]) = {}
    /\ \A c \in Conn : HasItsFds(req[c])

IsWatched(c) ==
    /\ AwaitedFd(req[c]) \in fds[AwaitedSet(req[c])]
    /\ AwaitedFd(req[c]) <= max_fd

\* From where fdset_update has passed a request up to select, the sets have its bit.
WatchedSoFar ==
    /\ pc \in {"first", "handle", "accept", "settle", "arm", "select"} =>
          \A c \in ToSet(block) : IsWatched(c)
    /\ pc = "update" => \A c \in ToSet(block) \ ToSet(todo) : IsWatched(c)

NothingLeft(r) == r.left = 0 /\ r.piece = 0

\* What a request may still have to say to its client, in each state.
LeftIn(r, client) ==
    /\ r.status = "READ" => NothingLeft(r)
    /\ r.status = "WRITE" => r.piece = 0
    /\ r.status \in {"PIPE_READ", "PIPE_WRITE"} => r.left = 0
    /\ r.status = "DONE" => NothingLeft(r) \/ client = "gone" \/ r.overruled

LeftByStatus == \A c \in Conn : LeftIn(req[c], peer[c])

\* There is nothing left to say, or nobody to say it to, or boa has said something else.
IsSaid(r, client) ==
    NothingLeft(r) \/ r.status = "DEAD" \/ client = "gone" \/ r.overruled

OverMeansSaid ==
    pc \in {"accept", "settle"} /\ retval = 0 => IsSaid(req[CurrentConn], peer[CurrentConn])

BoaIInv ==
    /\ Types
    /\ Membership
    /\ QueuesSound
    /\ FdsSound
    /\ WatchedSoFar
    /\ LeftByStatus
    /\ OverMeansSaid

-----------------------------------------------------------------------------
(* Queues *)

LEMMA ToSetType ==
    ASSUME NEW q \in Seq(Conn)
    PROVE  /\ ToSet(q) \subseteq Conn
           /\ ToSet(q) = {q[i] : i \in 1..Len(q)}
           /\ ToSet(q) = {} <=> q = <<>>
<1>1. DOMAIN q = 1..Len(q) /\ \A i \in 1..Len(q) : q[i] \in Conn
  OBVIOUS
<1>2. ToSet(q) = {} <=> q = <<>>
  <2>1. ASSUME q # <<>> PROVE 1 \in 1..Len(q)
    BY <2>1
  <2> QED BY <1>1, <2>1 DEF ToSet
<1> QED BY <1>1, <1>2 DEF ToSet

LEMMA PutFirst ==
    ASSUME NEW q \in Seq(Conn), NEW c \in Conn
    PROVE  /\ <<c>> \o q \in Seq(Conn)
           /\ ToSet(<<c>> \o q) = ToSet(q) \cup {c}
           /\ <<c>> \o q # <<>>
           /\ IsInjective(q) /\ c \notin ToSet(q) => IsInjective(<<c>> \o q)
           /\ \A s \in Seq(Conn) : EndOf(s, q) => EndOf(s, <<c>> \o q)
<1> DEFINE p == <<c>> \o q
<1>1. /\ p \in Seq(Conn) /\ Len(p) = Len(q) + 1 /\ p[1] = c
      /\ \A i \in 2..Len(p) : p[i] = q[i - 1] /\ i - 1 \in 1..Len(q)
      /\ \A i \in 1..Len(q) : q[i] = p[i + 1] /\ i + 1 \in 2..Len(p)
  OBVIOUS
<1> HIDE DEF p
<1>2. DOMAIN p = 1..Len(p) /\ DOMAIN q = 1..Len(q) /\ Len(q) \in Nat
  BY <1>1
<1>3. ToSet(p) = ToSet(q) \cup {c}
  <2>1. ToSet(p) \subseteq ToSet(q) \cup {c}
    <3>1. ASSUME NEW i \in 1..Len(p) PROVE p[i] \in ToSet(q) \cup {c}
      <4>1. CASE i = 1
        BY <1>1, <4>1
      <4>2. CASE i \in 2..Len(p)
        BY <1>1, <1>2, <4>2 DEF ToSet
      <4> QED BY <1>1, <1>2, <4>1, <4>2
    <3> QED BY <1>2, <3>1 DEF ToSet
  <2>2. c \in ToSet(p)
    BY <1>1, <1>2 DEF ToSet
  <2>3. ToSet(q) \subseteq ToSet(p)
    <3>1. ASSUME NEW i \in 1..Len(q) PROVE q[i] \in ToSet(p)
      <4>1. i + 1 \in 1..Len(p) /\ q[i] = p[i + 1]
        BY <1>1, <1>2
      <4> QED BY <1>2, <4>1 DEF ToSet
    <3> QED BY <1>2, <3>1 DEF ToSet
  <2> QED BY <2>1, <2>2, <2>3
<1>4. ASSUME IsInjective(q), c \notin ToSet(q) PROVE IsInjective(p)
  <2> SUFFICES ASSUME NEW i \in 1..Len(p), NEW j \in 1..Len(p), p[i] = p[j], i < j
               PROVE  FALSE
    BY <1>1, <1>2 DEF IsInjective
  <2>1. j \in 2..Len(p) /\ j - 1 \in 1..Len(q) /\ p[j] = q[j - 1]
    BY <1>1, <1>2
  <2>2. CASE i = 1
    BY <1>1, <1>2, <1>4, <2>1, <2>2 DEF ToSet
  <2>3. CASE i # 1
    <3>1. i \in 2..Len(p) /\ i - 1 \in 1..Len(q) /\ p[i] = q[i - 1]
      BY <1>1, <1>2, <2>3
    <3>2. i - 1 = j - 1
      BY <1>2, <1>4, <2>1, <3>1 DEF IsInjective
    <3> QED BY <1>1, <2>1, <3>1, <3>2
  <2> QED BY <2>2, <2>3
<1>5. ASSUME NEW s \in Seq(Conn), EndOf(s, q) PROVE EndOf(s, p)
  <2>1. Len(s) \in Nat /\ Len(s) <= Len(p)
    BY <1>1, <1>2, <1>5 DEF EndOf
  <2>2. ASSUME NEW i \in 1..Len(s) PROVE s[i] = p[Len(p) - Len(s) + i]
    <3>1. s[i] = q[Len(q) - Len(s) + i] /\ Len(q) - Len(s) + i \in 1..Len(q)
      BY <1>2, <1>5, <2>1 DEF EndOf
    <3>2. Len(q) - Len(s) + i + 1 = Len(p) - Len(s) + i
      BY <1>1, <1>2, <2>1
    <3> QED BY <1>1, <3>1, <3>2
  <2> QED BY <2>1, <2>2 DEF EndOf
<1>6. p # <<>>
  BY <1>1, <1>2
<1> QED BY <1>1, <1>3, <1>4, <1>5, <1>6 DEF p

LEMMA DequeueElements ==
    ASSUME NEW q \in Seq(Conn), IsInjective(q), NEW k \in 1..Len(q)
    PROVE  /\ Dequeue(q, q[k]) \in Seq(Conn)
           /\ Len(Dequeue(q, q[k])) = Len(q) - 1
           /\ \A i \in 1..Len(q) - 1 :
                 Dequeue(q, q[k])[i] = IF i < k THEN q[i] ELSE q[i + 1]
<1>1. (CHOOSE i \in DOMAIN q : q[i] = q[k]) = k
  BY DEF IsInjective
<1>2. Dequeue(q, q[k]) = SubSeq(q, 1, k - 1) \o SubSeq(q, k + 1, Len(q))
  BY <1>1 DEF Dequeue, RemoveAt
<1> DEFINE a == SubSeq(q, 1, k - 1)
           b == SubSeq(q, k + 1, Len(q))
<1>3. /\ a \in Seq(Conn) /\ Len(a) = k - 1
      /\ \A i \in 1..k - 1 : a[i] = q[i]
  OBVIOUS
<1>4. /\ b \in Seq(Conn) /\ Len(b) = Len(q) - k
      /\ \A i \in 1..Len(q) - k : b[i] = q[k + i]
  OBVIOUS
<1> HIDE DEF a, b
<1>5. /\ a \o b \in Seq(Conn) /\ Len(a \o b) = Len(q) - 1
  <2>1. a \in Seq(Conn) /\ b \in Seq(Conn)
    BY <1>3, <1>4
  <2>2. a \o b \in Seq(Conn) /\ Len(a \o b) = Len(a) + Len(b)
    BY <2>1
  <2>3. Len(a) = k - 1 /\ Len(b) = Len(q) - k
    BY <1>3, <1>4
  <2> QED BY <2>2, <2>3
<1>6. ASSUME NEW i \in 1..Len(q) - 1
      PROVE  (a \o b)[i] = IF i < k THEN q[i] ELSE q[i + 1]
  <2>1. CASE i < k
    BY <1>3, <1>4, <2>1
  <2>2. CASE ~(i < k)
    <3>1. (a \o b)[i] = b[i - (k - 1)] /\ i - (k - 1) \in 1..Len(q) - k
      BY <1>3, <1>4, <2>2
    <3>2. k + (i - (k - 1)) = i + 1
      OBVIOUS
    <3>3. b[i - (k - 1)] = q[i + 1]
      BY <1>4, <3>1, <3>2
    <3> QED BY <2>2, <3>1, <3>3
  <2> QED BY <2>1, <2>2
<1> QED BY <1>2, <1>5, <1>6 DEF a, b

LEMMA DequeueLeaves ==
    ASSUME NEW q \in Seq(Conn), IsInjective(q), NEW c \in ToSet(q)
    PROVE  /\ Dequeue(q, c) \in Seq(Conn)
           /\ ToSet(Dequeue(q, c)) = ToSet(q) \ {c}
           /\ IsInjective(Dequeue(q, c))
<1>1. PICK k \in 1..Len(q) : c = q[k]
  BY ToSetType
<1>2. PICK p \in Seq(Conn) : p = Dequeue(q, c)
  BY <1>1, DequeueElements
<1>3. /\ Len(p) = Len(q) - 1 /\ Len(q) \in Nat
      /\ DOMAIN p = 1..Len(q) - 1 /\ DOMAIN q = 1..Len(q)
  BY <1>1, <1>2, DequeueElements
<1>4. \A i \in 1..Len(q) - 1 : p[i] = IF i < k THEN q[i] ELSE q[i + 1]
  BY <1>1, <1>2, DequeueElements
<1>5. ToSet(p) = ToSet(q) \ {c}
  <2>1. ASSUME NEW i \in 1..Len(q) - 1 PROVE p[i] \in ToSet(q) \ {c}
    <3>1. PICK j \in 1..Len(q) : p[i] = q[j] /\ j # k
      <4>1. CASE i < k
        <5>1. p[i] = q[i] /\ i \in 1..Len(q) /\ i # k
          BY <1>3, <1>4, <4>1
        <5> QED BY <5>1
      <4>2. CASE ~(i < k)
        <5>1. p[i] = q[i + 1] /\ i + 1 \in 1..Len(q) /\ i + 1 # k
          BY <1>3, <1>4, <4>2
        <5> QED BY <5>1
      <4> QED BY <4>1, <4>2
    <3> QED BY <1>1, <1>3, <3>1 DEF ToSet, IsInjective
  <2>2. ASSUME NEW j \in 1..Len(q), j # k PROVE q[j] \in ToSet(p)
    <3>1. PICK i \in 1..Len(q) - 1 : q[j] = p[i]
      <4>1. CASE j < k
        BY <1>3, <1>4, <4>1
      <4>2. CASE j > k
        <5>1. j - 1 \in 1..Len(q) - 1 /\ ~(j - 1 < k) /\ (j - 1) + 1 = j
          BY <1>3, <4>2
        <5> QED BY <1>4, <5>1
      <4> QED BY <2>2, <4>1, <4>2
    <3> QED BY <1>3, <3>1 DEF ToSet
  <2> QED BY <1>1, <1>3, <2>1, <2>2 DEF ToSet
<1>6. IsInjective(p)
  <2> SUFFICES ASSUME NEW i \in 1..Len(q) - 1, NEW j \in 1..Len(q) - 1, p[i] = p[j]
               PROVE  i = j
    BY <1>3 DEF IsInjective
  <2>1. PICK m \in 1..Len(q) : p[i] = q[m] /\ m = IF i < k THEN i ELSE i + 1
    BY <1>3, <1>4
  <2>2. PICK n \in 1..Len(q) : p[j] = q[n] /\ n = IF j < k THEN j ELSE j + 1
    BY <1>3, <1>4
  <2>3. m = n
    BY <1>3, <2>1, <2>2 DEF IsInjective
  <2> QED BY <2>1, <2>2, <2>3
<1> QED BY <1>2, <1>5, <1>6

\* The rest of a traversal is still the end of the queue when its first element goes.
LEMMA EndOfRest ==
    ASSUME NEW q \in Seq(Conn), NEW s \in Seq(Conn), IsInjective(q), EndOf(s, q), s # <<>>
    PROVE  /\ Head(s) \in ToSet(q)
           /\ Tail(s) \in Seq(Conn)
           /\ ToSet(s) = {Head(s)} \cup ToSet(Tail(s))
           /\ Head(s) \notin ToSet(Tail(s))
           /\ EndOf(Tail(s), q)
           /\ EndOf(Tail(s), Dequeue(q, Head(s)))
<1>1. /\ Len(s) \in Nat /\ Len(s) >= 1 /\ Len(q) \in Nat
      /\ Tail(s) \in Seq(Conn) /\ Len(Tail(s)) = Len(s) - 1
      /\ \A i \in 1..Len(s) - 1 : Tail(s)[i] = s[i + 1]
      /\ DOMAIN s = 1..Len(s) /\ DOMAIN Tail(s) = 1..Len(s) - 1 /\ DOMAIN q = 1..Len(q)
      /\ Head(s) = s[1]
  OBVIOUS
<1>2. PICK k \in 1..Len(q) : k = Len(q) - Len(s) + 1
  BY <1>1 DEF EndOf
<1>3. /\ \A i \in 1..Len(s) : s[i] = q[k - 1 + i] /\ k - 1 + i \in 1..Len(q)
      /\ Head(s) = q[k]
  BY <1>1, <1>2 DEF EndOf
<1>4. Head(s) \in ToSet(q)
  BY <1>1, <1>3 DEF ToSet
<1>5. ToSet(s) = {Head(s)} \cup ToSet(Tail(s))
  <2>1. \A i \in 2..Len(s) : i - 1 \in 1..Len(s) - 1 /\ s[i] = Tail(s)[i - 1]
    BY <1>1
  <2>2. \A i \in 1..Len(s) : i = 1 \/ i \in 2..Len(s)
    BY <1>1
  <2>3. \A i \in 1..Len(s) - 1 : i + 1 \in 1..Len(s)
    BY <1>1
  <2>4. \A i \in 1..Len(s) - 1 : Tail(s)[i] = s[i + 1]
    BY <1>1
  <2>5. 1 \in 1..Len(s) /\ Head(s) = s[1]
    BY <1>1
  <2>6. ASSUME NEW i \in 1..Len(s) PROVE s[i] \in {Head(s)} \cup ToSet(Tail(s))
    BY <1>1, <2>1, <2>2, <2>5 DEF ToSet
  <2>7. ASSUME NEW i \in 1..Len(s) - 1 PROVE Tail(s)[i] \in ToSet(s)
    BY <1>1, <2>3, <2>4 DEF ToSet
  <2> QED BY <1>1, <2>5, <2>6, <2>7 DEF ToSet
<1>6. Head(s) \notin ToSet(Tail(s))
  <2>1. ASSUME NEW i \in 1..Len(s) - 1 PROVE Tail(s)[i] # q[k]
    <3>1. Tail(s)[i] = q[k + i] /\ k + i \in 1..Len(q) /\ k + i # k
      BY <1>1, <1>2, <1>3
    <3> QED BY <1>1, <3>1 DEF IsInjective
  <2> QED BY <1>1, <1>3, <2>1 DEF ToSet
<1>7. EndOf(Tail(s), q)
  BY <1>1, <1>2, <1>3 DEF EndOf
<1>8. EndOf(Tail(s), Dequeue(q, Head(s)))
  <2>1. PICK p \in Seq(Conn) : p = Dequeue(q, q[k])
    BY DequeueElements
  <2>2. /\ Len(p) = Len(q) - 1
        /\ \A i \in 1..Len(q) - 1 : p[i] = IF i < k THEN q[i] ELSE q[i + 1]
    BY <2>1, DequeueElements
  <2>3. ASSUME NEW i \in 1..Len(s) - 1
        PROVE  Tail(s)[i] = p[Len(p) - (Len(s) - 1) + i]
    <3>1. Len(p) - (Len(s) - 1) + i = k - 1 + i /\ k - 1 + i \in 1..Len(q) - 1 /\ ~(k - 1 + i < k)
      BY <1>1, <1>2, <2>2
    <3>2. p[k - 1 + i] = q[k + i]
      <4>1. (k - 1 + i) + 1 = k + i
        BY <1>1, <1>2
      <4>2. p[k - 1 + i] = q[(k - 1 + i) + 1]
        BY <2>2, <3>1
      <4> QED BY <4>1, <4>2
    <3>3. Tail(s)[i] = q[k + i]
      <4>1. i + 1 \in 1..Len(s) /\ k - 1 + (i + 1) = k + i
        BY <1>1
      <4> QED BY <1>1, <1>3, <4>1
    <3> QED BY <3>1, <3>2, <3>3
  <2>4. Dequeue(q, Head(s)) = p
    BY <1>3, <2>1
  <2>5. EndOf(Tail(s), p)
    <3>1. Len(s) - 1 <= Len(p)
      BY <1>1, <1>2, <2>2
    <3> QED BY <1>1, <2>3, <3>1 DEF EndOf
  <2> QED BY <2>4, <2>5
<1> QED BY <1>1, <1>4, <1>5, <1>6, <1>7, <1>8

LEMMA EndOfTrivial ==
    ASSUME NEW q \in Seq(Conn)
    PROVE  EndOf(q, q) /\ EndOf(<<>>, q)
BY DEF EndOf

\* Two queues in one: neither has an element twice, nor have both the same.
LEMMA InjectiveQueues ==
    ASSUME NEW p \in Seq(Conn), NEW q \in Seq(Conn)
    PROVE  IsInjective(p \o q) <=>
               IsInjective(p) /\ IsInjective(q) /\ ToSet(p) \cap ToSet(q) = {}
<1> DEFINE b == p \o q
<1>1. /\ b \in Seq(Conn) /\ Len(b) = Len(p) + Len(q) /\ Len(p) \in Nat /\ Len(q) \in Nat
      /\ \A i \in 1..Len(p) : b[i] = p[i]
      /\ \A i \in 1..Len(q) : b[Len(p) + i] = q[i]
  OBVIOUS
<1> HIDE DEF b
<1>2. DOMAIN b = 1..Len(b) /\ DOMAIN p = 1..Len(p) /\ DOMAIN q = 1..Len(q)
  BY <1>1
<1>3. \A i \in 1..Len(b) : i \in 1..Len(p) \/ \E j \in 1..Len(q) : i = Len(p) + j
  <2>1. ASSUME NEW i \in 1..Len(b), i \notin 1..Len(p)
        PROVE  i - Len(p) \in 1..Len(q) /\ i = Len(p) + (i - Len(p))
    BY <1>1, <2>1
  <2> QED BY <2>1
<1>4. ASSUME IsInjective(b)
      PROVE  IsInjective(p) /\ IsInjective(q) /\ ToSet(p) \cap ToSet(q) = {}
  <2>1. IsInjective(p)
    BY <1>1, <1>2, <1>4 DEF IsInjective
  <2>2. IsInjective(q)
    <3> SUFFICES ASSUME NEW i \in 1..Len(q), NEW j \in 1..Len(q), q[i] = q[j] PROVE i = j
      BY <1>2 DEF IsInjective
    <3>1. Len(p) + i \in 1..Len(b) /\ Len(p) + j \in 1..Len(b) /\ b[Len(p) + i] = b[Len(p) + j]
      BY <1>1
    <3>2. Len(p) + i = Len(p) + j
      BY <1>2, <1>4, <3>1 DEF IsInjective
    <3> QED BY <1>1, <3>2
  <2>3. ASSUME NEW i \in 1..Len(p), NEW j \in 1..Len(q) PROVE p[i] # q[j]
    <3>1. i \in 1..Len(b) /\ Len(p) + j \in 1..Len(b) /\ i # Len(p) + j
      BY <1>1
    <3> QED BY <1>1, <1>2, <1>4, <3>1 DEF IsInjective
  <2> QED BY <1>2, <2>1, <2>2, <2>3 DEF ToSet
<1>5. ASSUME IsInjective(p), IsInjective(q), ToSet(p) \cap ToSet(q) = {}
      PROVE  IsInjective(b)
  <2> SUFFICES ASSUME NEW i \in 1..Len(b), NEW j \in 1..Len(b), b[i] = b[j], i # j
               PROVE  FALSE
    BY <1>2 DEF IsInjective
  <2>1. \A m \in 1..Len(p) : \A n \in 1..Len(q) : p[m] # q[n]
    BY <1>2, <1>5 DEF ToSet
  <2>2. CASE i \in 1..Len(p) /\ j \in 1..Len(p)
    BY <1>1, <1>2, <1>5, <2>2 DEF IsInjective
  <2>3. CASE i \in 1..Len(p) /\ j \notin 1..Len(p)
    BY <1>1, <1>3, <2>1, <2>3
  <2>4. CASE i \notin 1..Len(p) /\ j \in 1..Len(p)
    BY <1>1, <1>3, <2>1, <2>4
  <2>5. CASE i \notin 1..Len(p) /\ j \notin 1..Len(p)
    <3>1. PICK m \in 1..Len(q) : i = Len(p) + m /\ b[i] = q[m]
      BY <1>1, <1>3, <2>5
    <3>2. PICK n \in 1..Len(q) : j = Len(p) + n /\ b[j] = q[n]
      BY <1>1, <1>3, <2>5
    <3> QED BY <1>2, <1>5, <3>1, <3>2 DEF IsInjective
  <2> QED BY <2>2, <2>3, <2>4, <2>5
<1> QED BY <1>4, <1>5 DEF b

-----------------------------------------------------------------------------
(* Descriptors *)

\* A set of naturals that is not empty has a least element.
LEMMA LowestIn ==
    ASSUME NEW S \in SUBSET Nat, S # {}
    PROVE  Lowest(S) \in S
<1> DEFINE R == OpToRel(<, Nat)
<1>1. IsWellFoundedOn(R, Nat)
  BY NatLessThanWellFounded
<1>2. \A x \in Nat : \A y \in Nat : y < x => <<y, x>> \in R
  BY DEF OpToRel
<1> HIDE DEF R
<1>3. PICK x \in S : \A y \in S : ~ (<<y, x>> \in R)
  BY <1>1, WFMin
<1>4. ASSUME NEW y \in S PROVE x <= y
  <2>1. x \in Nat /\ y \in Nat /\ ~(y < x)
    BY <1>2, <1>3
  <2> QED BY <2>1
<1> QED BY <1>3, <1>4 DEF Lowest

LEMMA FreshFd ==
    ASSUME BoaIInv, FreeFds # {}
    PROVE  /\ Lowest(FreeFds) \in FreeFds
           /\ Lowest(FreeFds) \in 1..MaxFd
<1>1. FreeFds \in SUBSET Nat
  BY BoaAssumption DEF FreeFds, Fd, BoaAssumption
<1> QED BY <1>1, LowestIn DEF FreeFds, Fd

\* A free descriptor is nobody's.
LEMMA FreeIsNobodys ==
    ASSUME BoaIInv, NEW c \in Conn
    PROVE  FdsOf(req[c]) \cap FreeFds = {}
<1>1. CASE c \in Queued
  BY <1>1 DEF FdsOf, FreeFds, OpenFds
<1>2. CASE c \notin Queued
  BY <1>2 DEF FdsOf, BoaIInv, Membership
<1> QED BY <1>1, <1>2

LEMMA CurrentIsReady ==
    ASSUME BoaIInv, pc \in {"handle", "accept", "settle"}
    PROVE  /\ CurrentConn \in Conn /\ CurrentConn \in ToSet(ready)
           /\ CurrentConn \in Queued /\ CurrentConn \notin ToSet(block)
           /\ req[CurrentConn] \in Request /\ req[CurrentConn].fd # 0
<1>1. /\ ready \in Seq(Conn) /\ block \in Seq(Conn) /\ todo \in Seq(Conn) /\ todo # <<>>
      /\ EndOf(todo, ready) /\ IsInjective(ready) /\ ToSet(ready) \cap ToSet(block) = {}
  BY InjectiveQueues DEF BoaIInv, Types, QueuesSound
<1>2. CurrentConn \in ToSet(ready)
  BY <1>1, EndOfRest DEF CurrentConn
<1> QED BY <1>1, <1>2, ToSetType DEF Queued, BoaIInv, Types, Membership

-----------------------------------------------------------------------------
(* What the handlers leave *)

\* What a handler that returns v may leave of the request of c.
MayLeave(c, r, v) ==
    /\ v \in -1..1
    /\ r \in Request
    /\ r.fd = req[c].fd /\ r.kept = req[c].kept
    /\ r.parsed <= r.taken /\ r.taken <= sent[c]
    /\ FdsOf(r) \subseteq FdsOf(req[c]) \cup FreeFds
    /\ HasItsFds(r)
    /\ LeftIn(r, peer[c])
    /\ v = 0 => IsSaid(r, peer[c])
    /\ r.status = "DEAD" /\ req[c].status # "DEAD" => peer[c] = "gone" \/ Overfull(c)

\* The request of c as it is now.
LEMMA AsItIs ==
    ASSUME BoaIInv, NEW c \in Conn
    PROVE  MayLeave(c, req[c], 1) /\ MayLeave(c, req[c], -1)
BY DEF MayLeave, BoaIInv, Types, FdsSound, LeftByStatus

LEMMA SquashMayBeLeft ==
    ASSUME NEW c, NEW r, NEW v, MayLeave(c, r, v)
    PROVE  MayLeave(c, Squash(r), v)
<1> DEFINE s == [r EXCEPT !.keepalive = "stopped"]
<1>1. /\ s \in Request
      /\ s.fd = r.fd /\ s.data_fd = r.data_fd /\ s.post_data_fd = r.post_data_fd
      /\ s.status = r.status /\ s.kept = r.kept /\ s.overruled = r.overruled /\ s.parsed = r.parsed /\ s.taken = r.taken
      /\ s.left = r.left /\ s.piece = r.piece
  BY DEF MayLeave, Request
<1> HIDE DEF s
<1>2. MayLeave(c, s, v)
  BY <1>1 DEF MayLeave, FdsOf, HasItsFds, LeftIn, IsSaid, NothingLeft
<1> QED BY <1>2 DEF s, Squash

\* What is left after a write, if what was there before might be.
LEMMA FlushedMayBeLeft ==
    ASSUME NEW c, NEW r, MayLeave(c, r, 1), NEW m \in Left, m = -1 => peer[c] = "gone"
    PROVE  /\ MayLeave(c, Flushed(r, m), 1)
           /\ IsSaid(r, peer[c]) \/ m = -1 => MayLeave(c, Flushed(r, m), 0)
           /\ MayLeave(c, Flushed(r, m), -1)
<1>1. CASE m = -1
  <2> DEFINE s == [r EXCEPT !.status = "DEAD", !.buffered = 0]
  <2>1. /\ s \in Request
        /\ s.fd = r.fd /\ s.data_fd = r.data_fd /\ s.post_data_fd = r.post_data_fd
        /\ s.status = "DEAD" /\ s.kept = r.kept /\ s.overruled = r.overruled /\ s.parsed = r.parsed /\ s.taken = r.taken
    <3>1. r \in Request /\ "DEAD" \in Status /\ 0 \in 0..2
      BY DEF MayLeave, Status
    <3> QED BY <3>1 DEF Request
  <2> HIDE DEF s
  <2>2. \A v \in -1..1 : MayLeave(c, s, v)
    BY <1>1, <2>1 DEF MayLeave, FdsOf, HasItsFds, LeftIn, IsSaid
  <2>3. Flushed(r, m) = s
    BY <1>1 DEF s, Flushed, Dead
  <2> QED BY <2>2, <2>3
<1>2. CASE m # -1
  <2> DEFINE s == [r EXCEPT !.buffered = m]
  <2>1. /\ s \in Request
        /\ s.fd = r.fd /\ s.data_fd = r.data_fd /\ s.post_data_fd = r.post_data_fd
        /\ s.status = r.status /\ s.kept = r.kept /\ s.overruled = r.overruled /\ s.parsed = r.parsed /\ s.taken = r.taken
        /\ s.left = r.left /\ s.piece = r.piece
    BY <1>2 DEF MayLeave, Request, Left
  <2> HIDE DEF s
  <2>2. /\ MayLeave(c, s, 1) /\ MayLeave(c, s, -1)
        /\ IsSaid(r, peer[c]) => MayLeave(c, s, 0)
    BY <2>1 DEF MayLeave, FdsOf, HasItsFds, LeftIn, IsSaid, NothingLeft
  <2>3. Flushed(r, m) = s
    BY <1>2 DEF s, Flushed
  <2> QED BY <1>2, <2>2, <2>3
<1> QED BY <1>1, <1>2

LEMMA FailedWrite ==
    ASSUME NEW c, NEW n \in Nat, NEW m, Write(c, n, m), m = -1
    PROVE  peer[c] = "gone"
BY DEF Write

\* What a step of the handlers does: the current request becomes something it may become.
Leaves(c) == \E r, v : Handled(r, v) /\ MayLeave(c, r, v)

LEMMA RefuseLeaves ==
    ASSUME NEW c, NEW r, MayLeave(c, r, 1), IsSaid(r, peer[c]), Refuse(c, r)
    PROVE  Leaves(c)
<1>1. PICK m \in Left : Write(c, 2, m) /\ Handled(Squash(Flushed(r, m)), 0)
  BY DEF Refuse
<1>2. MayLeave(c, Flushed(r, m), 0)
  BY <1>1, FailedWrite, FlushedMayBeLeft
<1>3. MayLeave(c, Squash(Flushed(r, m)), 0)
  BY <1>2, SquashMayBeLeft
<1> QED BY <1>1, <1>3 DEF Leaves

LEMMA InitCgiLeaves ==
    ASSUME BoaIInv, NEW c, NEW r, MayLeave(c, r, 0), NothingLeft(r), InitCgi(c, r)
    PROVE  Leaves(c)
<1>1. MayLeave(c, Squash(r), 0)
  BY SquashMayBeLeft
<1>2. CASE /\ Cardinality(FreeFds) >= 2
           /\ Handled([Squash(r) EXCEPT !.status = "PIPE_READ", !.cgi_status = "parse",
                          !.data_fd = Lowest(FreeFds), !.post_data_fd = 0], 1)
  <2>1. FreeFds # {}
    BY <1>2, FS_EmptySet
  <2>2. PICK f \in FreeFds : f = Lowest(FreeFds) /\ f \in 1..MaxFd
    BY <2>1, FreshFd
  <2> DEFINE q == Squash(r)
             s == [q EXCEPT !.status = "PIPE_READ", !.cgi_status = "parse",
                       !.data_fd = f, !.post_data_fd = 0]
  <2>3. Handled(s, 1)
    BY <1>2, <2>2
  <2> HIDE DEF q
  <2>4. /\ s \in Request
        /\ s.fd = q.fd /\ s.data_fd = f /\ s.post_data_fd = 0
        /\ s.status = "PIPE_READ" /\ s.kept = q.kept /\ s.overruled = q.overruled /\ s.parsed = q.parsed /\ s.taken = q.taken
        /\ s.left = q.left /\ s.piece = q.piece
    <3>1. q \in Request /\ "PIPE_READ" \in Status /\ f \in 0..MaxFd /\ 0 \in 0..MaxFd
      BY <1>1, <2>2, BoaAssumption DEF q, MayLeave, Status, BoaAssumption
    <3>2. s \in Request
      BY <3>1 DEF Request
    <3> QED BY <3>1 DEF Request
  <2> HIDE DEF s
  <2>5. MayLeave(c, q, 0) /\ NothingLeft(q)
    <3>1. NothingLeft(q)
      BY DEF q, Squash, MayLeave, Request, NothingLeft
    <3> QED BY <1>1, <3>1 DEF q
  <2>6. FdsOf(s) \subseteq FdsOf(req[c]) \cup FreeFds /\ HasItsFds(s)
    BY <2>2, <2>4, <2>5 DEF MayLeave, FdsOf, HasItsFds
  <2>7. MayLeave(c, s, 1)
    BY <2>4, <2>5, <2>6 DEF MayLeave, LeftIn, NothingLeft
  <2> QED BY <2>3, <2>7 DEF Leaves
<1>3. CASE Handled(Squash(r), 0)
  BY <1>1, <1>3 DEF Leaves
<1> QED BY <1>2, <1>3 DEF InitCgi

\* A request is done once nothing is left to say, or its CGI is not to be heard.
LEMMA DoneMayBeLeft ==
    ASSUME NEW c, NEW r, MayLeave(c, r, 1), NothingLeft(r) \/ peer[c] = "gone" \/ r.overruled
    PROVE  /\ MayLeave(c, [r EXCEPT !.status = "DONE"], 1)
           /\ MayLeave(c, [r EXCEPT !.status = "DONE", !.buffered = 1], 1)
<1>1. r \in Request /\ "DONE" \in Status
  BY DEF MayLeave, Status
<1>2. ASSUME NEW s \in Request, s = [r EXCEPT !.status = "DONE", !.buffered = s.buffered]
      PROVE  MayLeave(c, s, 1)
  <2>1. /\ s.fd = r.fd /\ s.data_fd = r.data_fd /\ s.post_data_fd = r.post_data_fd
        /\ s.status = "DONE" /\ s.kept = r.kept /\ s.overruled = r.overruled
        /\ s.parsed = r.parsed /\ s.taken = r.taken
        /\ s.left = r.left /\ s.piece = r.piece
    BY <1>1, <1>2 DEF Request
  <2> QED BY <2>1 DEF MayLeave, FdsOf, HasItsFds, LeftIn, NothingLeft
<1>3. PICK d \in Request : d = [r EXCEPT !.status = "DONE"]
  BY <1>1 DEF Request
<1>4. PICK e \in Request : e = [r EXCEPT !.status = "DONE", !.buffered = 1]
  <2>1. 1 \in 0..2
    OBVIOUS
  <2> QED BY <1>1, <2>1 DEF Request
<1>5. d = [r EXCEPT !.status = "DONE", !.buffered = d.buffered]
  BY <1>1, <1>3 DEF Request
<1>6. e = [r EXCEPT !.status = "DONE", !.buffered = e.buffered]
  BY <1>1, <1>4 DEF Request
<1>7. MayLeave(c, d, 1)
  BY <1>2, <1>5
<1>8. MayLeave(c, e, 1)
  BY <1>2, <1>6
<1> QED BY <1>3, <1>4, <1>7, <1>8

\* A request that was flushed has as much left to say behind the buffer as before.
LEMMA FlushedDone ==
    ASSUME NEW c, NEW r, MayLeave(c, r, 1), NothingLeft(r) \/ r.overruled,
           NEW m \in Left, Write(c, 2, m), Handled([Flushed(r, m) EXCEPT !.status = "DONE"], 1)
    PROVE  Leaves(c)
<1> DEFINE f == Flushed(r, m)
<1>1. MayLeave(c, f, 1)
  BY FailedWrite, FlushedMayBeLeft
<1>2. m = -1 => peer[c] = "gone"
  BY FailedWrite
<1>3. m # -1 => f.left = r.left /\ f.piece = r.piece /\ f.overruled = r.overruled
  BY DEF Flushed, MayLeave, Request
<1>4. Handled([f EXCEPT !.status = "DONE"], 1)
  OBVIOUS
<1> HIDE DEF f
<1>5. NothingLeft(f) \/ peer[c] = "gone" \/ f.overruled
  BY <1>2, <1>3 DEF NothingLeft
<1>6. MayLeave(c, [f EXCEPT !.status = "DONE"], 1)
  BY <1>1, <1>5, DoneMayBeLeft
<1> QED BY <1>4, <1>6 DEF Leaves

LEMMA ProcessCgiHeaderLeaves ==
    ASSUME NEW c, NEW r, MayLeave(c, r, 1), ProcessCgiHeader(c, r)
    PROVE  Leaves(c)
<1> DEFINE s == [r EXCEPT !.piece = 0]
           o == [r EXCEPT !.overruled = TRUE]
<1>1. /\ s \in Request
      /\ s.fd = r.fd /\ s.data_fd = r.data_fd /\ s.post_data_fd = r.post_data_fd
      /\ s.status = r.status /\ s.kept = r.kept /\ s.overruled = r.overruled
      /\ s.parsed = r.parsed /\ s.taken = r.taken
      /\ s.left = r.left /\ s.piece = 0
  BY DEF MayLeave, Request
<1>2. /\ o \in Request
      /\ o.fd = r.fd /\ o.data_fd = r.data_fd /\ o.post_data_fd = r.post_data_fd
      /\ o.status = r.status /\ o.kept = r.kept /\ o.overruled
      /\ o.parsed = r.parsed /\ o.taken = r.taken
      /\ o.left = r.left /\ o.piece = r.piece
  BY DEF MayLeave, Request
<1>3. CASE \E m \in Left : Write(c, 2, m) /\ Handled(Flushed(s, m), 1)
  <2>1. PICK m \in Left : Write(c, 2, m) /\ Handled(Flushed(s, m), 1)
    BY <1>3
  <2> HIDE DEF s
  <2>2. MayLeave(c, s, 1)
    BY <1>1 DEF MayLeave, FdsOf, HasItsFds, LeftIn, NothingLeft
  <2>3. MayLeave(c, Flushed(s, m), 1)
    BY <2>1, <2>2, FailedWrite, FlushedMayBeLeft
  <2> QED BY <2>1, <2>3 DEF Leaves
<1>4. CASE Handled(r, 1)
  BY <1>4 DEF Leaves
<1>5. MayLeave(c, o, 1) /\ IsSaid(o, peer[c])
  <2> HIDE DEF o
  <2> QED BY <1>2 DEF MayLeave, FdsOf, HasItsFds, LeftIn, NothingLeft, IsSaid
<1>6. CASE Refuse(c, o)
  BY <1>5, <1>6, RefuseLeaves
<1>7. CASE \E m \in Left : Write(c, 2, m) /\ Handled([Flushed(o, m) EXCEPT !.status = "DONE"], 1)
  <2> HIDE DEF o
  <2> QED BY <1>2, <1>5, <1>7, FlushedDone
<1>8. CASE Handled([o EXCEPT !.status = "DONE", !.buffered = 1], 1)
  <2> HIDE DEF o
  <2>1. MayLeave(c, [o EXCEPT !.status = "DONE", !.buffered = 1], 1)
    BY <1>2, <1>5, DoneMayBeLeft
  <2> QED BY <1>8, <2>1 DEF Leaves
<1> QED BY <1>3, <1>4, <1>6, <1>7, <1>8 DEF ProcessCgiHeader

LEMMA ProcessHeaderEndLeaves ==
    ASSUME BoaIInv, NEW c \in Conn, NEW r, MayLeave(c, r, 1), MayLeave(c, r, 0),
           r.status = "READ", ProcessHeaderEnd(c, HeaderEnd(c), r)
    PROVE  Leaves(c)
<1> DEFINE n == HeaderEnd(c)
           kind == script[c][n - 1]
           post == [r EXCEPT !.status = "BODY_WRITE", !.post_data_fd = Lowest(FreeFds)]
<1> HIDE DEF n
<1>1. ProcessHeaderEnd(c, n, r)
  BY DEF n
<1>2. r \in Request /\ NothingLeft(r) /\ IsSaid(r, peer[c])
  BY DEF MayLeave, LeftIn, IsSaid
<1>3. CASE kind = "page"
  <2>1. PICK m \in Left : Write(c, 2, m) /\ Handled([Flushed(r, m) EXCEPT !.status = "DONE"], 1)
    BY <1>1, <1>3 DEF ProcessHeaderEnd
  <2> QED BY <1>2, <2>1, FlushedDone
<1>4. CASE kind = "file"
  <2> DEFINE s == [r EXCEPT !.status = "WRITE", !.buffered = 2, !.left = 2]
  <2>1. /\ s \in Request
        /\ s.fd = r.fd /\ s.data_fd = r.data_fd /\ s.post_data_fd = r.post_data_fd
        /\ s.status = "WRITE" /\ s.kept = r.kept /\ s.overruled = r.overruled
        /\ s.parsed = r.parsed /\ s.taken = r.taken
        /\ s.piece = r.piece
    <3>1. "WRITE" \in Status /\ 2 \in 0..2
      BY DEF Status
    <3> QED BY <1>2, <3>1 DEF Request
  <2>2. Handled(s, 1)
    BY <1>1, <1>4 DEF ProcessHeaderEnd
  <2> HIDE DEF s
  <2>3. MayLeave(c, s, 1)
    BY <1>2, <2>1 DEF MayLeave, FdsOf, HasItsFds, LeftIn, NothingLeft
  <2> QED BY <2>2, <2>3 DEF Leaves
<1>5. CASE kind = "cgi"
  <2>1. InitCgi(c, r)
    BY <1>1, <1>5 DEF ProcessHeaderEnd
  <2> QED BY <1>2, <2>1, InitCgiLeaves
<1>6. CASE Handled(r, 0)
  BY <1>6 DEF Leaves
<1>7. ASSUME FreeFds # {}
      PROVE  \E f \in 1..MaxFd : /\ f = Lowest(FreeFds) /\ f \in FreeFds
                                 /\ post \in Request /\ post.post_data_fd = f
  <2>1. PICK f \in FreeFds : f = Lowest(FreeFds) /\ f \in 1..MaxFd
    BY <1>7, FreshFd
  <2>2. "BODY_WRITE" \in Status /\ f \in 0..MaxFd
    BY <2>1, BoaAssumption DEF Status, BoaAssumption
  <2>3. post = [r EXCEPT !.status = "BODY_WRITE", !.post_data_fd = f]
    BY <2>1
  <2>4. post \in Request /\ post.post_data_fd = f
    BY <1>2, <2>2, <2>3 DEF Request
  <2> QED BY <2>1, <2>4
<1>8. ASSUME FreeFds # {}
      PROVE  post \in Request /\ NothingLeft(post) /\ MayLeave(c, post, 1)
  <2>1. PICK f \in FreeFds : post \in Request /\ post.post_data_fd = f /\ f \in 1..MaxFd
    BY <1>7, <1>8
  <2>2. /\ post.fd = r.fd /\ post.data_fd = r.data_fd
        /\ post.status = "BODY_WRITE" /\ post.kept = r.kept /\ post.overruled = r.overruled
        /\ post.parsed = r.parsed /\ post.taken = r.taken
        /\ post.left = r.left /\ post.piece = r.piece
    BY <1>2 DEF Request
  <2> HIDE DEF post
  <2>3. FdsOf(post) \subseteq FdsOf(req[c]) \cup FreeFds /\ HasItsFds(post)
    BY <2>1, <2>2 DEF MayLeave, FdsOf, HasItsFds
  <2> QED BY <1>2, <2>1, <2>2, <2>3 DEF MayLeave, LeftIn, NothingLeft
<1>9. CASE kind = "post" /\ FreeFds # {} /\ Refuse(c, post)
  <2> HIDE DEF post
  <2> QED BY <1>8, <1>9, RefuseLeaves DEF IsSaid
<1>10. CASE /\ kind = "post" /\ FreeFds # {}
            /\ Handled([post EXCEPT !.left = 1, !.piece = IF r.taken > n THEN 1 ELSE 0], 1)
  <2> HIDE DEF post
  <2>1. post \in Request /\ MayLeave(c, post, 1)
    BY <1>8, <1>10
  <2>2. PICK p \in 0..2 : p = IF r.taken > n THEN 1 ELSE 0
    OBVIOUS
  <2> DEFINE s == [post EXCEPT !.left = 1, !.piece = p]
  <2>3. /\ s \in Request
        /\ s.fd = post.fd /\ s.data_fd = post.data_fd /\ s.post_data_fd = post.post_data_fd
        /\ s.status = post.status /\ s.kept = post.kept /\ s.overruled = post.overruled
        /\ s.parsed = post.parsed /\ s.taken = post.taken
    <3>1. 1 \in 0..2
      OBVIOUS
    <3> QED BY <2>1, <3>1 DEF Request
  <2>4. Handled(s, 1)
    BY <1>10, <2>2
  <2> HIDE DEF s
  <2>5. post.status = "BODY_WRITE"
    BY <1>2 DEF post, Request
  <2>6. MayLeave(c, s, 1)
    BY <2>1, <2>3, <2>5 DEF MayLeave, FdsOf, HasItsFds, LeftIn
  <2> QED BY <2>4, <2>6 DEF Leaves
<1>11. CASE Refuse(c, r)
  BY <1>2, <1>11, RefuseLeaves
<1>12. CASE /\ kind = "huge"
            /\ Handled([Squash(r) EXCEPT !.status = "DEAD", !.buffered = 1], 0)
  <2> DEFINE q == Squash(r)
             s == [q EXCEPT !.status = "DEAD", !.buffered = 1]
  <2>1. Overfull(c)
    BY <1>12 DEF Overfull, n
  <2>2. Handled(s, 0)
    BY <1>12
  <2>3. MayLeave(c, q, 0)
    BY SquashMayBeLeft
  <2> HIDE DEF q
  <2>4. /\ s \in Request
        /\ s.fd = q.fd /\ s.data_fd = q.data_fd /\ s.post_data_fd = q.post_data_fd
        /\ s.status = "DEAD" /\ s.kept = q.kept /\ s.parsed = q.parsed /\ s.taken = q.taken
    <3>1. q \in Request /\ "DEAD" \in Status /\ 1 \in 0..2
      BY <2>3 DEF MayLeave, Status
    <3> QED BY <3>1 DEF Request
  <2> HIDE DEF s
  <2>5. MayLeave(c, s, 0)
    BY <2>1, <2>3, <2>4 DEF MayLeave, FdsOf, HasItsFds, LeftIn, IsSaid
  <2> QED BY <2>2, <2>5 DEF Leaves
<1> HIDE DEF post, kind
<1>13. \/ kind = "page" \/ kind = "file" \/ kind = "cgi"
       \/ Handled(r, 0)
       \/ kind = "post" /\ FreeFds # {} /\ Refuse(c, post)
       \/ /\ kind = "post" /\ FreeFds # {}
          /\ Handled([post EXCEPT !.left = 1, !.piece = IF r.taken > n THEN 1 ELSE 0], 1)
       \/ Refuse(c, r)
       \/ kind = "huge" /\ Handled([Squash(r) EXCEPT !.status = "DEAD", !.buffered = 1], 0)
  BY <1>1 DEF ProcessHeaderEnd, post, kind
<1> QED BY <1>3, <1>4, <1>5, <1>6, <1>9, <1>10, <1>11, <1>12, <1>13

LEMMA ProcessHeaderLeaves ==
    ASSUME BoaIInv, NEW c \in Conn, HeaderEnd(c) \in Nat, HeaderEnd(c) <= req[c].taken,
           req[c].status = "READ", ProcessHeader(c, HeaderEnd(c))
    PROVE  Leaves(c)
<1> DEFINE n == HeaderEnd(c)
           q == req[c]
           r == [q EXCEPT !.parsed = n, !.logline = TRUE]
           Kas == {r.keepalive, "active"}
<1>1. MayLeave(c, q, 1) /\ q \in Request /\ NothingLeft(q)
  BY AsItIs DEF BoaIInv, LeftByStatus, LeftIn, MayLeave
<1>2. r \in Request /\ r.keepalive = q.keepalive
  BY <1>1 DEF Request
<1>3. ASSUME NEW ka \in Kas
      PROVE  LET s == [r EXCEPT !.keepalive = ka]
             IN /\ s \in Request
                /\ s.fd = q.fd /\ s.data_fd = q.data_fd /\ s.post_data_fd = q.post_data_fd
                /\ s.status = "READ" /\ s.kept = q.kept /\ s.overruled = q.overruled
                /\ s.parsed = n /\ s.taken = q.taken
                /\ s.left = q.left /\ s.piece = q.piece
  BY <1>1, <1>2, <1>3 DEF Request
<1>4. ASSUME NEW ka \in Kas
      PROVE  LET s == [r EXCEPT !.keepalive = ka]
             IN s.status = "READ" /\ MayLeave(c, s, 1) /\ MayLeave(c, s, 0)
  <2> DEFINE s == [r EXCEPT !.keepalive = ka]
  <2>1. /\ s \in Request
        /\ s.fd = q.fd /\ s.data_fd = q.data_fd /\ s.post_data_fd = q.post_data_fd
        /\ s.status = "READ" /\ s.kept = q.kept /\ s.overruled = q.overruled
        /\ s.parsed = n /\ s.taken = q.taken
        /\ s.left = q.left /\ s.piece = q.piece
    BY <1>3, <1>4
  <2> HIDE DEF s
  <2>2. MayLeave(c, s, 1) /\ MayLeave(c, s, 0)
    BY <1>1, <2>1 DEF MayLeave, FdsOf, HasItsFds, LeftIn, IsSaid, NothingLeft
  <2>3. s.status = "READ"
    BY <2>1
  <2> QED BY <2>2, <2>3 DEF s
<1>5. r = [r EXCEPT !.keepalive = r.keepalive]
  BY <1>2 DEF Request
<1>6. r.status = "READ" /\ MayLeave(c, r, 1) /\ MayLeave(c, r, 0)
  BY <1>4, <1>5
<1>7. CASE ProcessHeaderEnd(c, n, r)
  BY <1>6, <1>7, ProcessHeaderEndLeaves
<1>8. CASE ProcessHeaderEnd(c, n, [r EXCEPT !.keepalive = "active"])
  BY <1>4, <1>8, ProcessHeaderEndLeaves
<1>9. CASE Refuse(c, r)
  <2>1. IsSaid(r, peer[c])
    BY <1>6 DEF MayLeave
  <2> QED BY <1>6, <1>9, <2>1, RefuseLeaves
<1>10. CASE \E ka \in Kas : Handled([r EXCEPT !.keepalive = ka], 0)
  BY <1>4, <1>10 DEF Leaves
<1>11. CASE /\ script[c][n] = "long"
            /\ \E ka \in Kas : Handled([r EXCEPT !.keepalive = ka, !.status = "DEAD"], 0)
  <2>1. Overfull(c)
    BY <1>11 DEF Overfull
  <2>2. PICK ka \in Kas : Handled([r EXCEPT !.keepalive = ka, !.status = "DEAD"], 0)
    BY <1>11
  <2> DEFINE s == [r EXCEPT !.keepalive = ka]
             d == [r EXCEPT !.keepalive = ka, !.status = "DEAD"]
  <2>3. MayLeave(c, s, 0) /\ s \in Request
    BY <1>3, <1>4
  <2>4. Handled(d, 0)
    BY <2>2
  <2>5. /\ d \in Request
        /\ d.fd = s.fd /\ d.data_fd = s.data_fd /\ d.post_data_fd = s.post_data_fd
        /\ d.status = "DEAD" /\ d.kept = s.kept /\ d.parsed = s.parsed /\ d.taken = s.taken
    <3>1. "DEAD" \in Status /\ ka \in {"inactive", "active", "stopped"}
      BY <1>1, <1>2 DEF Status, Request
    <3> QED BY <1>2, <3>1 DEF Request
  <2> HIDE DEF s, d
  <2>6. MayLeave(c, d, 0)
    BY <2>1, <2>3, <2>5 DEF MayLeave, FdsOf, HasItsFds, LeftIn, IsSaid
  <2> QED BY <2>4, <2>6 DEF Leaves
<1> HIDE DEF Kas
<1>12. \/ ProcessHeaderEnd(c, n, r)
       \/ ProcessHeaderEnd(c, n, [r EXCEPT !.keepalive = "active"])
       \/ Refuse(c, r)
       \/ \E ka \in Kas : Handled([r EXCEPT !.keepalive = ka], 0)
       \/ /\ script[c][n] = "long"
          /\ \E ka \in Kas : Handled([r EXCEPT !.keepalive = ka, !.status = "DEAD"], 0)
  BY DEF ProcessHeader, Kas
<1> QED BY <1>7, <1>8, <1>9, <1>10, <1>11, <1>12

LEMMA ReadHeaderLeaves ==
    ASSUME BoaIInv, ReadHeader
    PROVE  Leaves(CurrentConn)
<1> DEFINE c == CurrentConn
           q == req[c]
           r == [q EXCEPT !.parsed = q.taken, !.logline = @ \/ q.taken > q.parsed]
<1>1. c \in Conn /\ q \in Request /\ q.status = "READ"
  BY CurrentIsReady DEF ReadHeader, At
<1>2. MayLeave(c, q, 1) /\ NothingLeft(q)
  BY <1>1, AsItIs DEF BoaIInv, LeftByStatus, LeftIn
<1>3. sent[c] \in Nat /\ q.taken \in Nat /\ q.parsed \in Nat /\ q.taken <= sent[c]
  BY <1>1, <1>2 DEF BoaIInv, Types, Request, MayLeave
<1>4. PICK b \in BOOLEAN : b = (q.logline \/ q.taken > q.parsed)
  OBVIOUS
<1>5. /\ r \in Request
      /\ r.fd = q.fd /\ r.data_fd = q.data_fd /\ r.post_data_fd = q.post_data_fd
      /\ r.status = "READ" /\ r.kept = q.kept /\ r.overruled = q.overruled /\ r.parsed = q.taken /\ r.taken = q.taken
      /\ r.left = q.left /\ r.piece = q.piece
  <2>1. r = [q EXCEPT !.parsed = q.taken, !.logline = b]
    BY <1>4
  <2> QED BY <1>1, <1>3, <2>1 DEF Request
<1> HIDE DEF r
<1>6. \A v \in -1..1 : MayLeave(c, r, v)
  BY <1>2, <1>3, <1>5 DEF MayLeave, FdsOf, HasItsFds, LeftIn, IsSaid, NothingLeft
<1>7. CASE HeaderEnd(c) <= q.taken /\ ProcessHeader(c, HeaderEnd(c))
  <2>1. HeaderEnd(c) \in Nat
    BY <1>3 DEF HeaderEnd
  <2> QED BY <1>1, <1>7, <2>1, ProcessHeaderLeaves
<1>8. CASE Handled([r EXCEPT !.taken = sent[c]], 1)
  <2> DEFINE s == [r EXCEPT !.taken = sent[c]]
  <2>1. /\ s \in Request
        /\ s.fd = r.fd /\ s.data_fd = r.data_fd /\ s.post_data_fd = r.post_data_fd
        /\ s.status = r.status /\ s.kept = r.kept /\ s.overruled = r.overruled /\ s.parsed = r.parsed /\ s.taken = sent[c]
        /\ s.left = r.left /\ s.piece = r.piece
    BY <1>3, <1>5 DEF Request
  <2>2. Handled(s, 1)
    BY <1>8
  <2> HIDE DEF s
  <2>3. MayLeave(c, s, 1)
    BY <1>3, <1>5, <1>6, <2>1 DEF MayLeave, FdsOf, HasItsFds, LeftIn, NothingLeft
  <2> QED BY <2>2, <2>3 DEF Leaves
<1>9. CASE \E v \in -1..1 : Handled(r, v)
  BY <1>6, <1>9 DEF Leaves
<1>10. \/ HeaderEnd(c) <= q.taken /\ ProcessHeader(c, HeaderEnd(c))
       \/ Handled([r EXCEPT !.taken = sent[c]], 1)
       \/ Handled(r, 0)
       \/ Handled(r, -1)
  BY DEF ReadHeader, r
<1> QED BY <1>7, <1>8, <1>9, <1>10

LEMMA ReadBodyLeaves ==
    ASSUME BoaIInv, ReadBody
    PROVE  Leaves(CurrentConn)
<1> DEFINE c == CurrentConn
           r == req[c]
<1>1. c \in Conn /\ r \in Request /\ r.status = "BODY_READ"
  BY CurrentIsReady DEF ReadBody, At
<1>2. MayLeave(c, r, 1) /\ MayLeave(c, r, -1)
  BY <1>1, AsItIs
<1>3. sent[c] \in Nat /\ r.taken \in Nat /\ r.parsed \in Nat /\ r.taken <= sent[c]
  BY <1>1, <1>2 DEF BoaIInv, Types, Request, MayLeave
<1>4. CASE Handled([r EXCEPT !.taken = sent[c], !.piece = 1, !.status = "BODY_WRITE"], 1)
  <2> DEFINE s == [r EXCEPT !.taken = sent[c], !.piece = 1, !.status = "BODY_WRITE"]
  <2>1. /\ s \in Request
        /\ s.fd = r.fd /\ s.data_fd = r.data_fd /\ s.post_data_fd = r.post_data_fd
        /\ s.status = "BODY_WRITE" /\ s.kept = r.kept /\ s.overruled = r.overruled /\ s.parsed = r.parsed /\ s.taken = sent[c]
    <3>1. "BODY_WRITE" \in Status /\ 1 \in 0..2
      BY DEF Status
    <3> QED BY <1>1, <1>3, <3>1 DEF Request
  <2>2. Handled(s, 1)
    BY <1>4
  <2> HIDE DEF s
  <2>3. MayLeave(c, s, 1)
    BY <1>1, <1>2, <1>3, <2>1 DEF MayLeave, FdsOf, HasItsFds, LeftIn
  <2> QED BY <2>2, <2>3 DEF Leaves
<1>5. CASE ReadFinds(c, "eof") /\ Refuse(c, r)
  <2>1. IsSaid(r, peer[c])
    BY <1>5 DEF ReadFinds, IsSaid
  <2> QED BY <1>2, <1>5, <2>1, RefuseLeaves
<1>6. CASE Handled(r, -1)
  BY <1>2, <1>6 DEF Leaves
<1> QED BY <1>4, <1>5, <1>6 DEF ReadBody

LEMMA WriteBodyLeaves ==
    ASSUME BoaIInv, WriteBody
    PROVE  Leaves(CurrentConn)
<1> DEFINE c == CurrentConn
           r == req[c]
<1>1. c \in Conn /\ r \in Request /\ r.status = "BODY_WRITE"
  BY CurrentIsReady DEF WriteBody, At
<1>2. MayLeave(c, r, 1)
  BY <1>1, AsItIs
<1>3. CASE Handled([r EXCEPT !.piece = 0, !.left = 0], 1)
  <2> DEFINE s == [r EXCEPT !.piece = 0, !.left = 0]
  <2>1. /\ s \in Request
        /\ s.fd = r.fd /\ s.data_fd = r.data_fd /\ s.post_data_fd = r.post_data_fd
        /\ s.status = r.status /\ s.kept = r.kept /\ s.overruled = r.overruled /\ s.parsed = r.parsed /\ s.taken = r.taken
    <3>1. r \in Request /\ 0 \in 0..2
      BY <1>1
    <3> HIDE DEF r
    <3> QED BY <3>1 DEF Request
  <2>2. Handled(s, 1)
    BY <1>3
  <2> HIDE DEF s
  <2>3. MayLeave(c, s, 1)
    BY <1>1, <1>2, <2>1 DEF MayLeave, FdsOf, HasItsFds, LeftIn
  <2> QED BY <2>2, <2>3 DEF Leaves
<1>4. CASE Handled([r EXCEPT !.status = "BODY_READ"], 1)
  <2> DEFINE s == [r EXCEPT !.status = "BODY_READ"]
  <2>1. /\ s \in Request
        /\ s.fd = r.fd /\ s.data_fd = r.data_fd /\ s.post_data_fd = r.post_data_fd
        /\ s.status = "BODY_READ" /\ s.kept = r.kept /\ s.overruled = r.overruled /\ s.parsed = r.parsed /\ s.taken = r.taken
    <3>1. "BODY_READ" \in Status
      BY DEF Status
    <3> QED BY <1>1, <3>1 DEF Request
  <2>2. Handled(s, 1)
    BY <1>4
  <2> HIDE DEF s
  <2>3. MayLeave(c, s, 1)
    BY <1>1, <1>2, <2>1 DEF MayLeave, FdsOf, HasItsFds, LeftIn
  <2> QED BY <2>2, <2>3 DEF Leaves
<1>5. CASE r.piece = 0 /\ r.left = 0 /\ InitCgi(c, r)
  <2>1. NothingLeft(r) /\ MayLeave(c, r, 0)
    BY <1>2, <1>5 DEF MayLeave, IsSaid, NothingLeft
  <2> QED BY <1>5, <2>1, InitCgiLeaves
<1> QED BY <1>3, <1>4, <1>5 DEF WriteBody

\* What remains of a write decides what the handler returns.
LEMMA ReturnsType ==
    ASSUME NEW n \in 0..2, NEW m \in Left, NEW v \in 0..1
    PROVE  /\ Returns(n, m, v) \in -1..1
           /\ Returns(n, m, v) = 0 => m = -1 \/ (m = 0 /\ v = 0)
BY DEF Returns, Left

LEMMA ProcessGetLeaves ==
    ASSUME BoaIInv, ProcessGet
    PROVE  Leaves(CurrentConn)
<1> DEFINE c == CurrentConn
           r == req[c]
<1>1. c \in Conn /\ r \in Request /\ r.status = "WRITE" /\ r.left \in 0..2
  BY CurrentIsReady DEF ProcessGet, At, Request
<1>2. MayLeave(c, r, 1) /\ r.piece = 0
  BY <1>1, AsItIs DEF MayLeave, LeftIn
<1>3. PICK m \in Left :
        /\ Write(c, r.left, m)
        /\ Handled(IF m = -1 THEN Dead(r) ELSE [r EXCEPT !.left = m], Returns(r.left, m, 0))
  BY DEF ProcessGet
<1>4. PICK v \in -1..1 : v = Returns(r.left, m, 0) /\ (v = 0 => m \in {-1, 0})
  BY <1>1, ReturnsType
<1>5. CASE m = -1
  <2>1. MayLeave(c, Flushed(r, m), v)
    BY <1>2, <1>3, <1>5, <1>1, FailedWrite, FlushedMayBeLeft
  <2> QED BY <1>3, <1>4, <1>5, <2>1 DEF Leaves, Flushed
<1>6. CASE m # -1
  <2> DEFINE s == [r EXCEPT !.left = m]
  <2>1. /\ s \in Request
        /\ s.fd = r.fd /\ s.data_fd = r.data_fd /\ s.post_data_fd = r.post_data_fd
        /\ s.status = r.status /\ s.kept = r.kept /\ s.overruled = r.overruled /\ s.parsed = r.parsed /\ s.taken = r.taken
        /\ s.left = m /\ s.piece = r.piece
    BY <1>1, <1>6 DEF Request, Left
  <2>2. Handled(s, v)
    BY <1>3, <1>4, <1>6
  <2> HIDE DEF s
  <2>3. MayLeave(c, s, v)
    BY <1>1, <1>2, <1>4, <1>6, <2>1 DEF MayLeave, FdsOf, HasItsFds, LeftIn, IsSaid, NothingLeft
  <2> QED BY <2>2, <2>3 DEF Leaves
<1> QED BY <1>5, <1>6

LEMMA ReadFromPipeLeaves ==
    ASSUME BoaIInv, ReadFromPipe
    PROVE  Leaves(CurrentConn)
<1> DEFINE c == CurrentConn
           r == req[c]
           done == [r EXCEPT !.status = "PIPE_WRITE", !.cgi_status = "done"]
<1>1. c \in Conn /\ r \in Request /\ r.status = "PIPE_READ"
  BY CurrentIsReady DEF ReadFromPipe, At
<1>2. MayLeave(c, r, 1) /\ MayLeave(c, r, -1) /\ r.left = 0
  BY <1>1, AsItIs DEF MayLeave, LeftIn
<1>3. CASE ProcessCgiHeader(c, [r EXCEPT !.cgi_status = "buffer"])
  <2> DEFINE s == [r EXCEPT !.cgi_status = "buffer"]
  <2>1. /\ s \in Request
        /\ s.fd = r.fd /\ s.data_fd = r.data_fd /\ s.post_data_fd = r.post_data_fd
        /\ s.status = r.status /\ s.kept = r.kept /\ s.overruled = r.overruled /\ s.parsed = r.parsed /\ s.taken = r.taken
        /\ s.left = r.left /\ s.piece = r.piece
    BY <1>1 DEF Request
  <2>2. ProcessCgiHeader(c, s)
    BY <1>3
  <2> HIDE DEF s
  <2>3. MayLeave(c, s, 1)
    BY <1>2, <2>1 DEF MayLeave, FdsOf, HasItsFds, LeftIn, NothingLeft
  <2> QED BY <2>2, <2>3, ProcessCgiHeaderLeaves
<1>4. CASE Handled([r EXCEPT !.status = "PIPE_WRITE"], 1)
  <2> DEFINE s == [r EXCEPT !.status = "PIPE_WRITE"]
  <2>1. /\ s \in Request
        /\ s.fd = r.fd /\ s.data_fd = r.data_fd /\ s.post_data_fd = r.post_data_fd
        /\ s.status = "PIPE_WRITE" /\ s.kept = r.kept /\ s.overruled = r.overruled /\ s.parsed = r.parsed /\ s.taken = r.taken
        /\ s.left = r.left /\ s.piece = r.piece
    <3>1. "PIPE_WRITE" \in Status
      BY DEF Status
    <3> QED BY <1>1, <3>1 DEF Request
  <2>2. Handled(s, 1)
    BY <1>4
  <2> HIDE DEF s
  <2>3. MayLeave(c, s, 1)
    BY <1>1, <1>2, <2>1 DEF MayLeave, FdsOf, HasItsFds, LeftIn
  <2> QED BY <2>2, <2>3 DEF Leaves
<1>5. ASSUME NEW p \in 1..2, Handled([r EXCEPT !.piece = p], 1)
      PROVE  Leaves(c)
  <2> DEFINE s == [r EXCEPT !.piece = p]
  <2>1. /\ s \in Request
        /\ s.fd = r.fd /\ s.data_fd = r.data_fd /\ s.post_data_fd = r.post_data_fd
        /\ s.status = r.status /\ s.kept = r.kept /\ s.overruled = r.overruled /\ s.parsed = r.parsed /\ s.taken = r.taken
        /\ s.left = r.left
    BY <1>1 DEF Request
  <2>2. Handled(s, 1)
    BY <1>5
  <2> HIDE DEF s
  <2>3. MayLeave(c, s, 1)
    BY <1>1, <1>2, <2>1 DEF MayLeave, FdsOf, HasItsFds, LeftIn
  <2> QED BY <2>2, <2>3 DEF Leaves
<1>6. MayLeave(c, done, 1) /\ done.left = 0 /\ done.piece = r.piece
  <2>1. /\ done \in Request
        /\ done.fd = r.fd /\ done.data_fd = r.data_fd /\ done.post_data_fd = r.post_data_fd
        /\ done.status = "PIPE_WRITE" /\ done.kept = r.kept /\ done.overruled = r.overruled
        /\ done.parsed = r.parsed /\ done.taken = r.taken
        /\ done.left = r.left /\ done.piece = r.piece
    <3>1. "PIPE_WRITE" \in Status
      BY DEF Status
    <3> QED BY <1>1, <3>1 DEF Request
  <2> HIDE DEF done
  <2> QED BY <1>1, <1>2, <2>1 DEF MayLeave, FdsOf, HasItsFds, LeftIn
<1>7. CASE r.piece = 0 /\ Refuse(c, done)
  <2>1. IsSaid(done, peer[c])
    BY <1>6, <1>7 DEF IsSaid, NothingLeft
  <2> QED BY <1>6, <1>7, <2>1, RefuseLeaves
<1>8. CASE ProcessCgiHeader(c, done)
  BY <1>6, <1>8, ProcessCgiHeaderLeaves
<1>9. CASE Handled(done, 1)
  BY <1>6, <1>9 DEF Leaves
<1>10. CASE Handled(r, -1)
  BY <1>2, <1>10 DEF Leaves
<1>11. \/ ProcessCgiHeader(c, [r EXCEPT !.cgi_status = "buffer"])
       \/ Handled([r EXCEPT !.status = "PIPE_WRITE"], 1)
       \/ \E p \in 1..2 : Handled([r EXCEPT !.piece = p], 1)
       \/ r.piece = 0 /\ Refuse(c, done)
       \/ ProcessCgiHeader(c, done)
       \/ Handled(done, 1)
       \/ Handled(r, -1)
  BY DEF ReadFromPipe
<1> QED BY <1>3, <1>4, <1>5, <1>7, <1>8, <1>9, <1>10, <1>11

LEMMA WriteFromPipeLeaves ==
    ASSUME BoaIInv, WriteFromPipe
    PROVE  Leaves(CurrentConn)
<1> DEFINE c == CurrentConn
           r == req[c]
<1>1. c \in Conn /\ r \in Request /\ r.status = "PIPE_WRITE" /\ r.piece \in 0..2
  BY CurrentIsReady DEF WriteFromPipe, At, Request
<1>2. MayLeave(c, r, 1) /\ r.left = 0
  BY <1>1, AsItIs DEF MayLeave, LeftIn
<1>3. CASE r.piece = 0 /\ Handled(r, 0)
  <2>1. MayLeave(c, r, 0)
    BY <1>2, <1>3 DEF MayLeave, IsSaid, NothingLeft
  <2> QED BY <1>3, <2>1 DEF Leaves
<1>4. CASE Handled([r EXCEPT !.status = "PIPE_READ"], 1)
  <2> DEFINE s == [r EXCEPT !.status = "PIPE_READ"]
  <2>1. /\ s \in Request
        /\ s.fd = r.fd /\ s.data_fd = r.data_fd /\ s.post_data_fd = r.post_data_fd
        /\ s.status = "PIPE_READ" /\ s.kept = r.kept /\ s.overruled = r.overruled /\ s.parsed = r.parsed /\ s.taken = r.taken
        /\ s.left = r.left
    <3>1. "PIPE_READ" \in Status
      BY DEF Status
    <3> QED BY <1>1, <3>1 DEF Request
  <2>2. Handled(s, 1)
    BY <1>4
  <2> HIDE DEF s
  <2>3. MayLeave(c, s, 1)
    BY <1>1, <1>2, <2>1 DEF MayLeave, FdsOf, HasItsFds, LeftIn
  <2> QED BY <2>2, <2>3 DEF Leaves
<1>5. ASSUME NEW m \in Left, Write(c, r.piece, m),
             Handled(IF m = -1 THEN Dead(r) ELSE [r EXCEPT !.piece = m], Returns(r.piece, m, 1))
      PROVE  Leaves(c)
  <2>1. PICK v \in -1..1 : v = Returns(r.piece, m, 1) /\ (v = 0 => m = -1)
    BY <1>1, ReturnsType
  <2>2. CASE m = -1
    <3>1. MayLeave(c, Flushed(r, m), v)
      BY <1>1, <1>2, <1>5, <2>2, FailedWrite, FlushedMayBeLeft
    <3> QED BY <1>5, <2>1, <2>2, <3>1 DEF Leaves, Flushed
  <2>3. CASE m # -1
    <3> DEFINE s == [r EXCEPT !.piece = m]
    <3>1. /\ s \in Request
          /\ s.fd = r.fd /\ s.data_fd = r.data_fd /\ s.post_data_fd = r.post_data_fd
          /\ s.status = r.status /\ s.kept = r.kept /\ s.overruled = r.overruled /\ s.parsed = r.parsed /\ s.taken = r.taken
          /\ s.left = r.left
      BY <1>1, <2>3 DEF Request, Left
    <3>2. Handled(s, v)
      BY <1>5, <2>1, <2>3
    <3> HIDE DEF s
    <3>3. MayLeave(c, s, v)
      BY <1>1, <1>2, <2>1, <2>3, <3>1 DEF MayLeave, FdsOf, HasItsFds, LeftIn
    <3> QED BY <3>2, <3>3 DEF Leaves
  <2> QED BY <2>2, <2>3
<1> QED BY <1>3, <1>4, <1>5 DEF WriteFromPipe

LEMMA FlushLeaves ==
    ASSUME BoaIInv, Flush
    PROVE  Leaves(CurrentConn)
<1> DEFINE c == CurrentConn
           r == req[c]
           v == IF r.status = "DONE" THEN 0 ELSE 1
<1>1. c \in Conn /\ r \in Request /\ r.buffered \in 0..2
  BY CurrentIsReady DEF Flush, At, Request
<1>2. MayLeave(c, r, 1)
  BY <1>1, AsItIs
<1>3. PICK m \in Left : Write(c, r.buffered, m) /\ Handled(Flushed(r, m), Returns(r.buffered, m, v))
  BY DEF Flush
<1>4. PICK u \in -1..1 :
        u = Returns(r.buffered, m, v) /\ (u = 0 => m = -1 \/ r.status = "DONE")
  BY <1>1, ReturnsType
<1>5. r.status = "DONE" => IsSaid(r, peer[c])
  BY <1>2 DEF MayLeave, LeftIn, IsSaid
<1>6. MayLeave(c, Flushed(r, m), u)
  BY <1>1, <1>2, <1>3, <1>4, <1>5, FailedWrite, FlushedMayBeLeft
<1> QED BY <1>3, <1>4, <1>6 DEF Leaves

LEMMA EndLeaves ==
    ASSUME BoaIInv, End
    PROVE  Leaves(CurrentConn)
<1> DEFINE c == CurrentConn
           r == req[c]
<1>1. c \in Conn /\ r \in Request
  BY CurrentIsReady DEF End, At
<1>2. MayLeave(c, r, 1)
  BY <1>1, AsItIs
<1>3. CASE r.status = "DONE" /\ Handled(r, 0)
  <2>1. MayLeave(c, r, 0)
    BY <1>2, <1>3 DEF MayLeave, LeftIn, IsSaid
  <2> QED BY <1>3, <2>1 DEF Leaves
<1>4. CASE r.status = "DEAD" /\ Handled(Squash(Dead(r)), 0)
  <2> DEFINE s == [r EXCEPT !.status = "DEAD", !.buffered = 0]
  <2>1. /\ s \in Request
        /\ s.fd = r.fd /\ s.data_fd = r.data_fd /\ s.post_data_fd = r.post_data_fd
        /\ s.status = "DEAD" /\ s.kept = r.kept /\ s.overruled = r.overruled /\ s.parsed = r.parsed /\ s.taken = r.taken
    <3>1. "DEAD" \in Status /\ 0 \in 0..2
      BY DEF Status
    <3> QED BY <1>1, <3>1 DEF Request
  <2> HIDE DEF s
  <2>2. MayLeave(c, s, 0)
    BY <1>2, <1>4, <2>1 DEF MayLeave, FdsOf, HasItsFds, LeftIn, IsSaid
  <2>3. Dead(r) = s
    BY DEF s, Dead
  <2> QED BY <1>4, <2>2, <2>3, SquashMayBeLeft DEF Leaves
<1> QED BY <1>3, <1>4 DEF End, At

LEMMA HandleLeaves ==
    ASSUME BoaIInv, Handle
    PROVE  Leaves(CurrentConn) /\ pc = "handle"
<1>1. pc = "handle"
  BY DEF Handle, ReadHeader, ReadBody, WriteBody, ProcessGet, ReadFromPipe, WriteFromPipe,
         Flush, End, At
<1> QED BY <1>1, ReadHeaderLeaves, ReadBodyLeaves, WriteBodyLeaves, ProcessGetLeaves,
           ReadFromPipeLeaves, WriteFromPipeLeaves, FlushLeaves, EndLeaves DEF Handle

-----------------------------------------------------------------------------
(* Every step keeps the invariant and answers in full *)

\* What AnsweredInFull says of the request of c in one step.
Answered(c) ==
    /\ /\ req[c].fd # 0
       /\ req'[c].fd = 0 \/ req'[c].kept > req[c].kept
       => \/ req[c].buffered = 0 /\ req[c].piece = 0 /\ req[c].left = 0
          \/ peer[c] = "gone" \/ req[c].status = "DEAD" \/ req[c].overruled
    /\ req'[c].status = "DEAD" /\ req[c].status # "DEAD"
       => peer[c] = "gone" \/ TimedOut(req[c]) \/ Overfull(c)

LEMMA SameIsAnswered ==
    ASSUME BoaIInv, NEW c \in Conn, req'[c] = req[c]
    PROVE  Answered(c)
<1>1. req[c].kept \in Nat
  BY DEF BoaIInv, Types, Request
<1> QED BY <1>1 DEF Answered

LEMMA QueueFacts ==
    ASSUME BoaIInv
    PROVE  /\ ready \in Seq(Conn) /\ block \in Seq(Conn) /\ todo \in Seq(Conn)
           /\ IsInjective(ready) /\ IsInjective(block)
           /\ ToSet(ready) \subseteq Conn /\ ToSet(block) \subseteq Conn
           /\ ToSet(ready) \cap ToSet(block) = {}
BY InjectiveQueues, ToSetType DEF BoaIInv, Types, QueuesSound

LEMMA AwaitedIsOwn ==
    ASSUME NEW r \in Request, HasItsFds(r), r.fd # 0
    PROVE  /\ AwaitedFd(r) \in FdsOf(r) /\ AwaitedFd(r) \in Fd
           /\ AwaitedSet(r) \in {"read", "write"}
<1>1. AwaitedFd(r) \in FdsOf(r)
  BY DEF AwaitedFd, FdsOf, HasItsFds
<1>2. FdsOf(r) \subseteq Fd
  BY BoaAssumption DEF FdsOf, Fd, Request, BoaAssumption
<1> QED BY <1>1, <1>2 DEF AwaitedSet

\* A step that leaves the queues and the requests alone.
Quiet ==
    /\ UNCHANGED <<ready, block, todo, retval, req>>
    /\ pc \in {"update", "handle", "accept", "settle"} => pc' = pc
    /\ pc' \in {"update", "handle", "accept", "settle"} => pc' = pc
    /\ \A c \in Conn : \/ peer'[c] = peer[c]
                       \/ peer[c] = "new" /\ peer'[c] = "backlog"
                       \/ peer[c] \in {"open", "backlog"} /\ peer'[c] = "gone"

LEMMA QuietStep ==
    ASSUME BoaIInv, Types', WatchedSoFar', Quiet
    PROVE  BoaIInv' /\ \A c \in Conn : Answered(c)
<1>1. Membership'
  BY DEF Quiet, BoaIInv, Membership, Queued
<1>2. QueuesSound'
  BY DEF Quiet, BoaIInv, QueuesSound
<1>3. FdsSound'
  BY DEF Quiet, BoaIInv, FdsSound
<1>4. LeftByStatus'
  BY DEF Quiet, BoaIInv, LeftByStatus, LeftIn
<1>5. OverMeansSaid'
  <2> SUFFICES ASSUME pc' \in {"accept", "settle"}, retval' = 0
               PROVE  IsSaid(req'[CurrentConn'], peer'[CurrentConn'])
    BY DEF OverMeansSaid
  <2>1. pc = pc' /\ CurrentConn' = CurrentConn
    BY DEF Quiet, CurrentConn
  <2>2. CurrentConn \in Conn
    BY <2>1, CurrentIsReady
  <2>3. IsSaid(req[CurrentConn], peer[CurrentConn])
    BY <2>1 DEF Quiet, BoaIInv, OverMeansSaid
  <2> QED BY <2>1, <2>2, <2>3 DEF Quiet, IsSaid
<1>6. \A c \in Conn : Answered(c)
  BY SameIsAnswered DEF Quiet
<1> QED BY <1>1, <1>2, <1>3, <1>4, <1>5, <1>6 DEF BoaIInv

LEMMA HandleChildren ==
    ASSUME Handle
    PROVE  children' = children
<1>1. ASSUME NEW c, NEW r, Refuse(c, r) \/ InitCgi(c, r) \/ ProcessCgiHeader(c, r)
      PROVE  children' = children
  BY <1>1 DEF Refuse, InitCgi, ProcessCgiHeader, cgiVars
<1>2. ASSUME NEW c, NEW n, NEW r, ProcessHeaderEnd(c, n, r)
      PROVE  children' = children
  BY <1>1, <1>2 DEF ProcessHeaderEnd, cgiVars
<1>3. CASE ReadHeader
  <2>1. ASSUME NEW c, NEW n, ProcessHeader(c, n)
        PROVE  children' = children
    BY <1>1, <1>2, <2>1 DEF ProcessHeader, cgiVars
  <2> QED BY <1>3, <2>1 DEF ReadHeader, cgiVars
<1>4. CASE ReadBody \/ WriteBody
  BY <1>1, <1>4 DEF ReadBody, WriteBody, cgiVars
<1>5. CASE ReadFromPipe
  BY <1>1, <1>5 DEF ReadFromPipe, cgiVars
<1>6. CASE ProcessGet \/ WriteFromPipe \/ Flush \/ End
  BY <1>6 DEF ProcessGet, WriteFromPipe, Flush, End, cgiVars
<1> QED BY <1>3, <1>4, <1>5, <1>6 DEF Handle

LEMMA HandleStep ==
    ASSUME BoaIInv, Handle
    PROVE  BoaIInv' /\ \A c \in Conn : Answered(c)
<1> DEFINE c == CurrentConn
<1>1. c \in Conn /\ c \in Queued /\ c \notin ToSet(block) /\ req[c] \in Request /\ pc = "handle"
  BY HandleLeaves, CurrentIsReady
<1>2. PICK r0, v : Handled(r0, v) /\ MayLeave(c, r0, v)
  BY HandleLeaves DEF Leaves
<1>3. PICK r : /\ MayLeave(c, r, v)
               /\ req' = [req EXCEPT ![c] = r]
  <2>1. MayLeave(c, Squash(r0), v)
    BY <1>2, SquashMayBeLeft
  <2> QED BY <1>2, <2>1 DEF Handled, Squash
<1>4. /\ retval' = v /\ pc' = "accept" /\ CurrentConn' = c
      /\ UNCHANGED <<ready, block, todo, fds, max_fd, pending, sigterm, sighup, hups, peer, sent>>
  BY <1>2 DEF Handled, signalVars, CurrentConn
<1>5. req'[c] = r /\ \A d \in Conn \ {c} : req'[d] = req[d]
  BY <1>1, <1>3 DEF BoaIInv, Types
<1>6. Queued' = Queued
  BY <1>4 DEF Queued
<1> HIDE DEF c
<1>7. Types'
  <2>1. children' \in Nat
    BY HandleChildren DEF BoaIInv, Types
  <2>2. req' \in [Conn -> Request]
    BY <1>1, <1>3 DEF BoaIInv, Types, MayLeave
  <2>3. \A d \in Conn : req'[d].parsed <= req'[d].taken /\ req'[d].taken <= sent'[d]
    BY <1>3, <1>4, <1>5 DEF BoaIInv, Types, MayLeave
  <2> QED BY <1>3, <1>4, <2>1, <2>2, <2>3 DEF BoaIInv, Types, MayLeave
<1>8. Membership'
  BY <1>1, <1>3, <1>4, <1>5, <1>6 DEF BoaIInv, Membership, MayLeave
<1>9. QueuesSound'
  BY <1>1, <1>4 DEF BoaIInv, QueuesSound
<1>10. FdsSound'
  <2>1. \A d \in Conn \ {c} : FdsOf(r) \cap FdsOf(req[d]) = {}
    BY <1>1, <1>3, FreeIsNobodys DEF BoaIInv, FdsSound, MayLeave
  <2>2. ASSUME NEW d \in Conn, NEW e \in Conn \ {d}
        PROVE  FdsOf(req'[d]) \cap FdsOf(req'[e]) = {}
    BY <1>1, <1>5, <2>1 DEF BoaIInv, FdsSound
  <2>3. \A d \in Conn : HasItsFds(req'[d])
    BY <1>3, <1>5 DEF BoaIInv, FdsSound, MayLeave
  <2> QED BY <2>2, <2>3 DEF FdsSound
<1>11. WatchedSoFar'
  <2>1. \A d \in ToSet(block) : IsWatched(d)
    BY <1>1 DEF BoaIInv, WatchedSoFar
  <2>2. ASSUME NEW d \in ToSet(block) PROVE IsWatched(d)'
    <3>1. d \in Conn \ {c}
      BY <1>1, QueueFacts
    <3> QED BY <1>4, <1>5, <2>1, <3>1 DEF IsWatched
  <2> QED BY <1>4, <2>2 DEF WatchedSoFar
<1>12. LeftByStatus'
  BY <1>3, <1>4, <1>5 DEF BoaIInv, LeftByStatus, MayLeave
<1>13. OverMeansSaid'
  BY <1>3, <1>4, <1>5 DEF OverMeansSaid, MayLeave
<1>14. ASSUME NEW d \in Conn PROVE Answered(d)
  <2>1. CASE d = c
    <3>1. req[c].kept \in Nat
      BY <1>1 DEF Request
    <3> QED BY <1>3, <1>5, <2>1, <3>1 DEF Answered, MayLeave
  <2>2. CASE d # c
    BY <1>5, <2>2, SameIsAnswered
  <2> QED BY <2>1, <2>2
<1> QED BY <1>7, <1>8, <1>9, <1>10, <1>11, <1>12, <1>13, <1>14 DEF BoaIInv

LEMMA SignalsStep ==
    ASSUME BoaIInv, Signals
    PROVE  BoaIInv' /\ \A c \in Conn : Answered(c)
<1>1. /\ pc = "signals" /\ sigterm' \in {sigterm, 2} /\ sighup' = FALSE /\ max_fd' = -1
      /\ todo' = block
      /\ UNCHANGED <<ready, block, retval, pending, hups, req, sent, children>>
  BY DEF Signals, cgiVars
<1>2. fds' \in [{"read", "write"} -> SUBSET Fd]
  <2>1. fds' = NoFds \/ fds' = fds \/ fds' = [fds EXCEPT !.read = @ \ {server_s}]
    BY DEF Signals
  <2>2. fds \in [{"read", "write"} -> SUBSET Fd]
    BY DEF BoaIInv, Types
  <2>3. NoFds \in [{"read", "write"} -> SUBSET Fd]
    BY DEF NoFds
  <2>4. [fds EXCEPT !.read = @ \ {server_s}] \in [{"read", "write"} -> SUBSET Fd]
    BY <2>2
  <2> QED BY <2>1, <2>2, <2>3, <2>4
<1>3. /\ peer' \in [Conn -> {"new", "backlog", "open", "gone", "closed"}]
      /\ \A c \in Conn : peer'[c] = peer[c] \/ (peer[c] = "backlog" /\ peer'[c] = "gone")
  <2>1. CASE sigterm = 1
    BY <2>1 DEF Signals, BoaIInv, Types
  <2>2. CASE sigterm # 1
    BY <2>2 DEF Signals, BoaIInv, Types
  <2> QED BY <2>1, <2>2
<1>4. \/ pc' \in {"down", "first"} /\ block = <<>>
      \/ pc' = "update" /\ block # <<>>
  <2>1. ASSUME total_connections = 0 PROVE block = <<>>
    <3>1. Len(ready) \in Nat /\ Len(block) \in Nat
      BY QueueFacts
    <3>2. Len(block) = 0
      BY <2>1, <3>1 DEF total_connections
    <3> QED BY <3>2, QueueFacts
  <2> QED BY <2>1 DEF Signals
<1>5. Types'
  <2>1. pc' \in {"down", "first", "update"}
    BY <1>4
  <2>2. sigterm' \in 0..2
    BY <1>1 DEF BoaIInv, Types
  <2> QED BY <1>1, <1>2, <1>3, <2>1, <2>2 DEF BoaIInv, Types
<1>6. Membership'
  BY <1>1, <1>3 DEF BoaIInv, Membership, Queued
<1>7. QueuesSound'
  <2>1. EndOf(block, block) /\ EndOf(<<>>, ready)
    BY QueueFacts, EndOfTrivial
  <2> QED BY <1>1, <1>4, <2>1 DEF BoaIInv, QueuesSound
<1>8. FdsSound'
  BY <1>1 DEF BoaIInv, FdsSound
<1>9. WatchedSoFar'
  <2>1. block = <<>> => ToSet(block) = {}
    BY QueueFacts, ToSetType
  <2> QED BY <1>1, <1>4, <2>1 DEF WatchedSoFar
<1>10. LeftByStatus'
  BY <1>1, <1>3 DEF BoaIInv, LeftByStatus, LeftIn
<1>11. OverMeansSaid'
  BY <1>4 DEF OverMeansSaid
<1> QED BY <1>1, <1>5, <1>6, <1>7, <1>8, <1>9, <1>10, <1>11, SameIsAnswered DEF BoaIInv

LEMMA UpdateStep ==
    ASSUME BoaIInv, Update
    PROVE  BoaIInv' /\ \A c \in Conn : Answered(c)
<1> DEFINE c == CurrentConn
           r == Expired(req[c])
<1>1. /\ todo # <<>> /\ EndOf(todo, block) /\ pc = "update"
  BY DEF Update, BoaIInv, QueuesSound
<1>2. /\ c \in Conn /\ c \in ToSet(block) /\ c \in Queued /\ c \notin ToSet(ready)
      /\ Tail(todo) \in Seq(Conn) /\ EndOf(Tail(todo), block) /\ EndOf(Tail(todo), Dequeue(block, c))
      /\ ToSet(todo) = {c} \cup ToSet(Tail(todo)) /\ c \notin ToSet(Tail(todo))
  BY <1>1, QueueFacts, EndOfRest DEF CurrentConn, Queued
<1>3. /\ req[c] \in Request /\ req[c].fd # 0 /\ HasItsFds(req[c])
  BY <1>2 DEF BoaIInv, Types, Membership, FdsSound
<1>4. /\ r \in Request
      /\ r.fd = req[c].fd /\ r.data_fd = req[c].data_fd /\ r.post_data_fd = req[c].post_data_fd
      /\ r.kept = req[c].kept /\ r.parsed = req[c].parsed /\ r.taken = req[c].taken
      /\ \/ r = req[c]
         \/ r.status = "DEAD" /\ TimedOut(req[c])
  <2>1. CASE TimedOut(req[c])
    <3>1. req[c] \in Request /\ "DEAD" \in Status
      BY <1>3 DEF Status
    <3>2. r = [req[c] EXCEPT !.status = "DEAD"]
      BY <2>1 DEF Expired
    <3> QED BY <2>1, <3>1, <3>2 DEF Request
  <2>2. CASE ~TimedOut(req[c])
    BY <1>3, <2>2 DEF Expired
  <2> QED BY <2>1, <2>2
<1> HIDE DEF r
<1>5. /\ req' = [req EXCEPT ![c] = r] /\ todo' = Tail(todo)
      /\ pc' = IF todo' = <<>> THEN "first" ELSE "update"
      /\ UNCHANGED <<retval, pending, sigterm, sighup, hups, peer, sent, children>>
  BY DEF Update, r, signalVars, clientVars, cgiVars
<1>6. req'[c] = r /\ \A d \in Conn \ {c} : req'[d] = req[d]
  BY <1>2, <1>5 DEF BoaIInv, Types
<1>7. HasItsFds(r) /\ AwaitedFd(r) \in FdsOf(r) /\ AwaitedFd(r) \in Fd
      /\ AwaitedSet(r) \in {"read", "write"} /\ FdsOf(r) = FdsOf(req[c])
  <2>1. HasItsFds(r) /\ FdsOf(r) = FdsOf(req[c])
    BY <1>3, <1>4 DEF HasItsFds, FdsOf
  <2> QED BY <1>3, <1>4, <2>1, AwaitedIsOwn
<1>8. \/ /\ IsDue(r)
         /\ ready' = <<c>> \o ready /\ block' = Dequeue(block, c) /\ max_fd' = max_fd
         /\ fds' = [side \in {"read", "write"} |-> fds[side] \ Awaits(r, side)]
      \/ /\ ready' = ready /\ block' = block
         /\ fds' = [side \in {"read", "write"} |-> fds[side] \cup Awaits(r, side)]
         /\ max_fd' = Higher(max_fd, AwaitedFd(r))
  BY <1>6 DEF Update, FdSet
<1>9. /\ ready' \in Seq(Conn) /\ block' \in Seq(Conn) /\ IsInjective(ready' \o block')
      /\ Queued' = Queued
      /\ EndOf(Tail(todo), block')
      /\ EndOf(<<>>, ready')
  <2>1. CASE ready' = <<c>> \o ready /\ block' = Dequeue(block, c)
    <3>1. /\ ready' \in Seq(Conn) /\ ToSet(ready') = ToSet(ready) \cup {c} /\ IsInjective(ready')
      BY <1>2, <2>1, QueueFacts, PutFirst
    <3>2. /\ block' \in Seq(Conn) /\ ToSet(block') = ToSet(block) \ {c} /\ IsInjective(block')
      BY <1>2, <2>1, QueueFacts, DequeueLeaves
    <3>3. IsInjective(ready' \o block')
      BY <3>1, <3>2, QueueFacts, InjectiveQueues
    <3> QED BY <1>2, <2>1, <3>1, <3>2, <3>3, EndOfTrivial DEF Queued
  <2>2. CASE ready' = ready /\ block' = block
    BY <1>2, <2>2, QueueFacts, EndOfTrivial DEF Queued, BoaIInv, QueuesSound
  <2> QED BY <1>8, <2>1, <2>2
<1>10. /\ fds' \in [{"read", "write"} -> SUBSET Fd] /\ max_fd' \in Fd \cup {-1}
  <2>1. \A side : Awaits(r, side) \subseteq Fd
    BY <1>7 DEF Awaits
  <2>2. fds \in [{"read", "write"} -> SUBSET Fd] /\ max_fd \in Fd \cup {-1}
    BY DEF BoaIInv, Types
  <2> QED BY <1>7, <1>8, <2>1, <2>2 DEF Higher
<1>11. Types'
  <2>1. req' \in [Conn -> Request]
    BY <1>4, <1>5 DEF BoaIInv, Types
  <2>2. \A d \in Conn : req'[d].parsed <= req'[d].taken /\ req'[d].taken <= sent'[d]
    BY <1>4, <1>5, <1>6 DEF BoaIInv, Types
  <2> QED BY <1>2, <1>5, <1>9, <1>10, <2>1, <2>2 DEF BoaIInv, Types
<1>12. Membership'
  BY <1>2, <1>4, <1>5, <1>6, <1>9 DEF BoaIInv, Membership
<1>13. QueuesSound'
  BY <1>5, <1>9 DEF QueuesSound
<1>14. FdsSound'
  <2>1. \A d \in Conn : FdsOf(req'[d]) = FdsOf(req[d])
    BY <1>6, <1>7
  <2>2. \A d \in Conn : HasItsFds(req'[d])
    BY <1>6, <1>7 DEF BoaIInv, FdsSound
  <2> QED BY <2>1, <2>2 DEF BoaIInv, FdsSound
<1>15. ASSUME NEW d \in ToSet(block') \ ToSet(Tail(todo))
       PROVE  IsWatched(d)'
  <2>1. CASE /\ ToSet(block') = ToSet(block) \ {c} /\ max_fd' = max_fd
             /\ fds' = [side \in {"read", "write"} |-> fds[side] \ Awaits(r, side)]
    <3>1. d \in Conn /\ d # c /\ d \in ToSet(block) \ ToSet(todo)
      BY <1>2, <1>15, <2>1, QueueFacts
    <3>2. IsWatched(d)
      BY <1>1, <3>1 DEF BoaIInv, WatchedSoFar
    <3>3. d \in Queued
      BY <3>1 DEF Queued
    <3>4. AwaitedFd(req[d]) \in FdsOf(req[d]) /\ AwaitedSet(req[d]) \in {"read", "write"}
      BY <3>1, <3>3, AwaitedIsOwn DEF BoaIInv, Types, Membership, FdsSound
    <3>5. AwaitedFd(req[d]) # AwaitedFd(r)
      BY <1>2, <1>7, <3>1, <3>4 DEF BoaIInv, FdsSound
    <3>6. req'[d] = req[d]
      BY <1>6, <3>1
    <3> QED BY <2>1, <3>2, <3>4, <3>5, <3>6 DEF IsWatched, Awaits
  <2>2. CASE /\ block' = block
             /\ fds' = [side \in {"read", "write"} |-> fds[side] \cup Awaits(r, side)]
             /\ max_fd' = Higher(max_fd, AwaitedFd(r))
    <3>1. d \in Conn
      BY <1>15, <2>2, QueueFacts
    <3>2. max_fd \in Int /\ AwaitedFd(r) \in Int
      BY <1>7 DEF BoaIInv, Types, Fd
    <3>3. CASE d = c
      BY <1>6, <1>7, <2>2, <3>2, <3>3 DEF IsWatched, Awaits, Higher
    <3>4. CASE d # c
      <4>1. d \in ToSet(block) \ ToSet(todo) /\ req'[d] = req[d]
        BY <1>2, <1>6, <1>15, <2>2, <3>1, <3>4
      <4>2. IsWatched(d)
        BY <1>1, <4>1 DEF BoaIInv, WatchedSoFar
      <4>3. AwaitedSet(req[d]) \in {"read", "write"}
        BY DEF AwaitedSet
      <4>4. AwaitedFd(req[d]) \in Int
        <5>1. d \in Queued
          BY <4>1 DEF Queued
        <5> QED BY <3>1, <5>1, AwaitedIsOwn DEF BoaIInv, Types, Membership, FdsSound, Fd
      <4> QED BY <2>2, <3>2, <4>1, <4>2, <4>3, <4>4 DEF IsWatched, Higher
    <3> QED BY <3>3, <3>4
  <2>3. block' = Dequeue(block, c) => ToSet(block') = ToSet(block) \ {c}
    BY <1>2, QueueFacts, DequeueLeaves
  <2> QED BY <1>8, <2>1, <2>2, <2>3
<1>16. WatchedSoFar'
  <2>1. todo' = <<>> => ToSet(Tail(todo)) = {}
    BY <1>2, <1>5, ToSetType
  <2> QED BY <1>5, <1>15, <2>1 DEF WatchedSoFar
<1>17. LeftByStatus'
  <2>1. LeftIn(r, peer[c])
    BY <1>2, <1>4 DEF BoaIInv, LeftByStatus, LeftIn
  <2> QED BY <1>5, <1>6, <2>1 DEF BoaIInv, LeftByStatus
<1>18. OverMeansSaid'
  BY <1>5 DEF OverMeansSaid
<1>19. ASSUME NEW d \in Conn PROVE Answered(d)
  <2>1. CASE d = c
    <3>1. req[c].kept \in Nat
      BY <1>3 DEF Request
    <3> QED BY <1>3, <1>4, <1>6, <2>1, <3>1 DEF Answered
  <2>2. CASE d # c
    BY <1>6, <2>2, SameIsAnswered
  <2> QED BY <2>1, <2>2
<1> QED BY <1>11, <1>12, <1>13, <1>14, <1>16, <1>17, <1>18, <1>19 DEF BoaIInv

\* What get_request does to the queues and the requests.
LEMMA GetRequestKeeps ==
    ASSUME BoaIInv, GetRequest, UNCHANGED <<block, sent, sigterm>>, pc # "down"
    PROVE  /\ ready' \in Seq(Conn) /\ IsInjective(ready' \o block')
           /\ \A s \in Seq(Conn) : EndOf(s, ready) => EndOf(s, ready')
           /\ req' \in [Conn -> Request]
           /\ peer' \in [Conn -> {"new", "backlog", "open", "gone", "closed"}]
           /\ pending' \in BOOLEAN
           /\ \A d \in Conn : req'[d].parsed <= req'[d].taken /\ req'[d].taken <= sent'[d]
           /\ Membership' /\ FdsSound' /\ LeftByStatus'
           /\ \A d \in Queued : req'[d] = req[d] /\ peer'[d] = peer[d]
           /\ \A d \in Conn : Answered(d)
<1>1. CASE UNCHANGED <<ready, req, peer>> /\ pending' \in BOOLEAN
  BY <1>1, SameIsAnswered DEF BoaIInv, Types, QueuesSound, Membership, Queued, FdsSound, LeftByStatus
<1>2. ASSUME NEW c \in Conn, peer[c] = "backlog", FreeFds # {},
             peer' = [peer EXCEPT ![c] = "open"],
             req' = [req EXCEPT ![c] = NewRequest(Lowest(FreeFds), 0, 0, 0)],
             ready' = <<c>> \o ready, pending' = pending
      PROVE  /\ ready' \in Seq(Conn) /\ IsInjective(ready' \o block')
             /\ \A s \in Seq(Conn) : EndOf(s, ready) => EndOf(s, ready')
             /\ req' \in [Conn -> Request]
             /\ peer' \in [Conn -> {"new", "backlog", "open", "gone", "closed"}]
             /\ pending' \in BOOLEAN
             /\ \A d \in Conn : req'[d].parsed <= req'[d].taken /\ req'[d].taken <= sent'[d]
             /\ Membership' /\ FdsSound' /\ LeftByStatus'
             /\ \A d \in Queued : req'[d] = req[d] /\ peer'[d] = peer[d]
             /\ \A d \in Conn : Answered(d)
  <2>1. c \notin Queued /\ req[c].fd = 0
    BY <1>2 DEF BoaIInv, Membership
  <2>2. PICK f \in FreeFds : f = Lowest(FreeFds) /\ f \in 1..MaxFd
    BY <1>2, FreshFd
  <2> DEFINE r == NewRequest(f, 0, 0, 0)
  <2>3. /\ r \in Request /\ r.fd = f /\ r.data_fd = 0 /\ r.post_data_fd = 0
        /\ r.status = "READ" /\ r.parsed = 0 /\ r.taken = 0 /\ r.left = 0 /\ r.piece = 0
    <3>1. f \in 0..MaxFd /\ 0 \in 0..MaxFd /\ "READ" \in Status
      BY <2>2, BoaAssumption DEF BoaAssumption, Status
    <3> QED BY <3>1 DEF NewRequest, Request
  <2> HIDE DEF r
  <2>4. req' = [req EXCEPT ![c] = r]
    BY <1>2, <2>2 DEF r
  <2>5. /\ req'[c] = r /\ peer'[c] = "open"
        /\ \A d \in Conn \ {c} : req'[d] = req[d] /\ peer'[d] = peer[d]
    BY <1>2, <2>4 DEF BoaIInv, Types
  <2>6. /\ ready' \in Seq(Conn) /\ ToSet(ready') = ToSet(ready) \cup {c}
        /\ IsInjective(ready' \o block')
        /\ \A s \in Seq(Conn) : EndOf(s, ready) => EndOf(s, ready')
    <3>1. /\ ready' \in Seq(Conn) /\ ToSet(ready') = ToSet(ready) \cup {c} /\ IsInjective(ready')
          /\ \A s \in Seq(Conn) : EndOf(s, ready) => EndOf(s, ready')
      BY <1>2, <2>1, QueueFacts, PutFirst DEF Queued
    <3>2. ToSet(ready') \cap ToSet(block) = {}
      BY <2>1, <3>1, QueueFacts DEF Queued
    <3> QED BY <3>1, <3>2, QueueFacts, InjectiveQueues
  <2>7. req' \in [Conn -> Request] /\ pending' \in BOOLEAN
        /\ peer' \in [Conn -> {"new", "backlog", "open", "gone", "closed"}]
    <3>1. req \in [Conn -> Request] /\ pending \in BOOLEAN
          /\ peer \in [Conn -> {"new", "backlog", "open", "gone", "closed"}]
      BY DEF BoaIInv, Types
    <3>2. req' \in [Conn -> Request]
      BY <2>3, <2>4, <3>1
    <3>3. peer' \in [Conn -> {"new", "backlog", "open", "gone", "closed"}]
      BY <1>2, <3>1
    <3> QED BY <1>2, <3>1, <3>2, <3>3
  <2>8. ASSUME NEW d \in Conn
        PROVE  req'[d].parsed <= req'[d].taken /\ req'[d].taken <= sent'[d]
    <3>1. /\ sent[d] \in Nat /\ sent' = sent
          /\ req[d].parsed <= req[d].taken /\ req[d].taken <= sent[d]
      BY DEF BoaIInv, Types
    <3> HIDE DEF BoaIInv
    <3> QED BY <2>3, <2>5, <3>1
  <2>9. Membership'
    <3>1. Queued' = Queued \cup {c}
      BY <2>6 DEF Queued
    <3> QED BY <2>2, <2>3, <2>5, <3>1 DEF BoaIInv, Membership
  <2>10. FdsSound'
    <3>1. FdsOf(r) \subseteq FreeFds /\ HasItsFds(r)
      BY <2>2, <2>3 DEF FdsOf, HasItsFds
    <3>2. \A d \in Conn \ {c} : FdsOf(r) \cap FdsOf(req[d]) = {}
      BY <3>1, FreeIsNobodys
    <3>3. ASSUME NEW d \in Conn, NEW e \in Conn \ {d}
          PROVE  FdsOf(req'[d]) \cap FdsOf(req'[e]) = {}
      BY <2>5, <3>2 DEF BoaIInv, FdsSound
    <3>4. \A d \in Conn : HasItsFds(req'[d])
      BY <2>5, <3>1 DEF BoaIInv, FdsSound
    <3> QED BY <3>3, <3>4 DEF FdsSound
  <2>11. LeftByStatus'
    <3>1. LeftIn(r, "open")
      BY <2>3 DEF LeftIn, NothingLeft
    <3> QED BY <2>5, <3>1 DEF BoaIInv, LeftByStatus
  <2>12. Queued \subseteq Conn \ {c}
    BY <2>1, QueueFacts DEF Queued
  <2>13. ASSUME NEW d \in Conn PROVE Answered(d)
    <3>1. CASE d = c
      BY <2>1, <2>3, <2>5, <3>1 DEF Answered
    <3>2. CASE d # c
      BY <2>5, <3>2, SameIsAnswered
    <3> QED BY <3>1, <3>2
  <2> QED BY <2>5, <2>6, <2>7, <2>8, <2>9, <2>10, <2>11, <2>12, <2>13
<1>3. \/ UNCHANGED <<ready, req, peer>> /\ pending' \in BOOLEAN
      \/ \E c \in Conn :
            /\ peer[c] = "backlog" /\ FreeFds # {}
            /\ peer' = [peer EXCEPT ![c] = "open"]
            /\ req' = [req EXCEPT ![c] = NewRequest(Lowest(FreeFds), 0, 0, 0)]
            /\ ready' = <<c>> \o ready /\ pending' = pending
  BY DEF GetRequest, BoaIInv, Types
<1> QED BY <1>1, <1>2, <1>3

\* The blocked ones are watched as before.
LEMMA BlockedAsBefore ==
    ASSUME BoaIInv, UNCHANGED <<block, fds, max_fd>>,
           \A d \in Queued : req'[d] = req[d],
           pc \in {"first", "handle", "accept", "settle", "arm", "select"}, pc' # "update"
    PROVE  WatchedSoFar'
<1>1. ASSUME NEW d \in ToSet(block) PROVE IsWatched(d)'
  <2>1. IsWatched(d) /\ req'[d] = req[d]
    BY <1>1 DEF BoaIInv, WatchedSoFar, Queued
  <2> QED BY <2>1 DEF IsWatched
<1> QED BY <1>1 DEF WatchedSoFar

LEMMA FirstAcceptStep ==
    ASSUME BoaIInv, FirstAccept
    PROVE  BoaIInv' /\ \A c \in Conn : Answered(c)
<1>1. /\ pc = "first" /\ todo' = ready'
      /\ pc' = IF ready' = <<>> THEN "arm" ELSE "handle"
      /\ UNCHANGED <<block, retval, fds, max_fd, sigterm, sighup, hups, sent, children>>
      /\ GetRequest
  BY DEF FirstAccept, signalVars, cgiVars
<1>2. /\ ready' \in Seq(Conn) /\ IsInjective(ready' \o block')
      /\ req' \in [Conn -> Request]
      /\ peer' \in [Conn -> {"new", "backlog", "open", "gone", "closed"}]
      /\ pending' \in BOOLEAN
      /\ \A d \in Conn : req'[d].parsed <= req'[d].taken /\ req'[d].taken <= sent'[d]
      /\ Membership' /\ FdsSound' /\ LeftByStatus'
      /\ \A d \in Queued : req'[d] = req[d] /\ peer'[d] = peer[d]
      /\ \A d \in Conn : Answered(d)
  BY <1>1, GetRequestKeeps
<1>3. Types'
  BY <1>1, <1>2 DEF BoaIInv, Types
<1>4. QueuesSound'
  BY <1>1, <1>2, EndOfTrivial DEF QueuesSound
<1>5. WatchedSoFar'
  BY <1>1, <1>2, BlockedAsBefore
<1>6. OverMeansSaid'
  BY <1>1 DEF OverMeansSaid
<1> QED BY <1>2, <1>3, <1>4, <1>5, <1>6 DEF BoaIInv

LEMMA AcceptStep ==
    ASSUME BoaIInv, Accept
    PROVE  BoaIInv' /\ \A c \in Conn : Answered(c)
<1>1. /\ pc = "accept" /\ pc' = "settle"
      /\ UNCHANGED <<block, todo, retval, fds, max_fd, sigterm, sighup, hups, sent, children>>
      /\ GetRequest
  BY DEF Accept, signalVars, cgiVars
<1>2. /\ ready' \in Seq(Conn) /\ IsInjective(ready' \o block')
      /\ \A s \in Seq(Conn) : EndOf(s, ready) => EndOf(s, ready')
      /\ req' \in [Conn -> Request]
      /\ peer' \in [Conn -> {"new", "backlog", "open", "gone", "closed"}]
      /\ pending' \in BOOLEAN
      /\ \A d \in Conn : req'[d].parsed <= req'[d].taken /\ req'[d].taken <= sent'[d]
      /\ Membership' /\ FdsSound' /\ LeftByStatus'
      /\ \A d \in Queued : req'[d] = req[d] /\ peer'[d] = peer[d]
      /\ \A d \in Conn : Answered(d)
  BY <1>1, GetRequestKeeps
<1>3. Types'
  BY <1>1, <1>2 DEF BoaIInv, Types
<1>4. QueuesSound'
  BY <1>1, <1>2 DEF BoaIInv, Types, QueuesSound
<1>5. WatchedSoFar'
  BY <1>1, <1>2, BlockedAsBefore
<1>6. OverMeansSaid'
  <2>1. CurrentConn \in Queued /\ CurrentConn' = CurrentConn
    BY <1>1, CurrentIsReady DEF CurrentConn
  <2> QED BY <1>1, <1>2, <2>1 DEF BoaIInv, OverMeansSaid, IsSaid
<1> QED BY <1>2, <1>3, <1>4, <1>5, <1>6 DEF BoaIInv

-----------------------------------------------------------------------------
(* What becomes of a request *)

\* What a queued request may become without a descriptor of another.
MaySettle(c, r) ==
    /\ r \in Request
    /\ r.fd = req[c].fd
    /\ r.parsed <= r.taken /\ r.taken <= sent[c]
    /\ FdsOf(r) \subseteq FdsOf(req[c])
    /\ HasItsFds(r)
    /\ LeftIn(r, peer[c])

\* It goes to the block queue, or stays in the ready queue.
LEMMA SettledStep ==
    ASSUME BoaIInv, pc = "settle", NEW c \in Conn, c = CurrentConn,
           NEW r, MaySettle(c, r), req' = [req EXCEPT ![c] = r],
           \/ /\ ready' = Dequeue(ready, c) /\ block' = <<c>> \o block
              /\ FdSet(c)
           \/ UNCHANGED <<ready, block, fds, max_fd>>,
           todo' = Tail(todo), retval' = 0,
           pc' = IF todo' = <<>> THEN "arm" ELSE "handle",
           UNCHANGED <<pending, sigterm, sighup, hups, peer, sent, children>>
    PROVE  BoaIInv'
<1>1. /\ c \in ToSet(ready) /\ c \in Queued /\ c \notin ToSet(block)
      /\ req[c] \in Request /\ req[c].fd # 0
  BY CurrentIsReady
<1>2. /\ Tail(todo) \in Seq(Conn) /\ EndOf(Tail(todo), ready)
      /\ EndOf(Tail(todo), Dequeue(ready, c))
  <2>1. EndOf(todo, ready) /\ todo # <<>>
    BY DEF BoaIInv, QueuesSound
  <2> QED BY <2>1, QueueFacts, EndOfRest DEF CurrentConn
<1>3. req'[c] = r /\ \A d \in Conn \ {c} : req'[d] = req[d]
  BY DEF BoaIInv, Types
<1>4. AwaitedFd(r) \in Fd /\ AwaitedSet(r) \in {"read", "write"}
  BY <1>1, AwaitedIsOwn DEF MaySettle
<1>5. \/ /\ ready' = Dequeue(ready, c) /\ block' = <<c>> \o block
         /\ fds' = [side \in {"read", "write"} |-> fds[side] \cup Awaits(r, side)]
         /\ max_fd' = Higher(max_fd, AwaitedFd(r))
      \/ UNCHANGED <<ready, block, fds, max_fd>>
  BY <1>3 DEF FdSet
<1>6. /\ ready' \in Seq(Conn) /\ block' \in Seq(Conn) /\ IsInjective(ready' \o block')
      /\ Queued' = Queued /\ ToSet(block') \subseteq ToSet(block) \cup {c}
      /\ EndOf(Tail(todo), ready')
      /\ c \in ToSet(block') => block' = <<c>> \o block
  <2>1. CASE ready' = Dequeue(ready, c) /\ block' = <<c>> \o block
    <3>1. /\ ready' \in Seq(Conn) /\ ToSet(ready') = ToSet(ready) \ {c} /\ IsInjective(ready')
      BY <1>1, <2>1, QueueFacts, DequeueLeaves
    <3>2. /\ block' \in Seq(Conn) /\ ToSet(block') = ToSet(block) \cup {c} /\ IsInjective(block')
      BY <1>1, <2>1, QueueFacts, PutFirst
    <3>3. IsInjective(ready' \o block')
      BY <3>1, <3>2, QueueFacts, InjectiveQueues
    <3> QED BY <1>1, <1>2, <2>1, <3>1, <3>2, <3>3 DEF Queued
  <2>2. CASE UNCHANGED <<ready, block>>
    BY <1>1, <1>2, <2>2, QueueFacts DEF Queued, BoaIInv, QueuesSound
  <2> QED BY <1>5, <2>1, <2>2
<1>7. fds' \in [{"read", "write"} -> SUBSET Fd] /\ max_fd' \in Fd \cup {-1}
  <2>1. \A side : Awaits(r, side) \subseteq Fd
    BY <1>4 DEF Awaits
  <2>2. fds \in [{"read", "write"} -> SUBSET Fd] /\ max_fd \in Fd \cup {-1}
    BY DEF BoaIInv, Types
  <2> QED BY <1>4, <1>5, <2>1, <2>2 DEF Higher
<1>8. Types'
  <2>1. req' \in [Conn -> Request]
    BY DEF BoaIInv, Types, MaySettle
  <2>2. \A d \in Conn : req'[d].parsed <= req'[d].taken /\ req'[d].taken <= sent'[d]
    BY <1>3 DEF BoaIInv, Types, MaySettle
  <2>3. /\ pc' \in {"signals", "update", "first", "handle", "accept", "settle", "arm", "select", "down"}
        /\ retval' \in -1..1 /\ todo' \in Seq(Conn)
    BY <1>2
  <2>4. /\ pending' \in BOOLEAN /\ sigterm' \in 0..2 /\ sighup' \in BOOLEAN /\ hups' \in 0..MaxHups
        /\ peer' \in [Conn -> {"new", "backlog", "open", "gone", "closed"}]
        /\ sent' \in [Conn -> Nat] /\ children' \in Nat
    BY DEF BoaIInv, Types
  <2> QED BY <1>6, <1>7, <2>1, <2>2, <2>3, <2>4 DEF Types
<1>9. Membership'
  BY <1>1, <1>3, <1>6 DEF BoaIInv, Membership, MaySettle
<1>10. QueuesSound'
  BY <1>6 DEF QueuesSound
<1>11. FdsSound'
  <2>1. \A d \in Conn : FdsOf(req'[d]) \subseteq FdsOf(req[d]) /\ HasItsFds(req'[d])
    BY <1>3 DEF MaySettle, BoaIInv, FdsSound
  <2>2. ASSUME NEW d \in Conn, NEW e \in Conn \ {d}
        PROVE  FdsOf(req'[d]) \cap FdsOf(req'[e]) = {}
    <3>1. FdsOf(req[d]) \cap FdsOf(req[e]) = {}
      BY DEF BoaIInv, FdsSound
    <3> QED BY <2>1, <3>1
  <2> QED BY <2>1, <2>2 DEF FdsSound
<1>12. WatchedSoFar'
  <2>1. ASSUME NEW d \in ToSet(block') PROVE IsWatched(d)'
    <3>1. max_fd \in Int /\ AwaitedFd(r) \in Int
      BY <1>4 DEF BoaIInv, Types, Fd
    <3>2. CASE d = c
      <4>1. /\ fds' = [side \in {"read", "write"} |-> fds[side] \cup Awaits(r, side)]
            /\ max_fd' = Higher(max_fd, AwaitedFd(r))
        BY <1>1, <1>5, <2>1, <3>2
      <4> QED BY <1>3, <1>4, <3>1, <3>2, <4>1 DEF IsWatched, Awaits, Higher
    <3>3. CASE d # c
      <4>1. d \in ToSet(block) /\ d \in Conn /\ d \in Queued
        BY <1>6, <2>1, <3>3, QueueFacts DEF Queued
      <4>2. IsWatched(d) /\ req'[d] = req[d]
        BY <1>3, <3>3, <4>1 DEF BoaIInv, WatchedSoFar
      <4>3. AwaitedSet(req[d]) \in {"read", "write"} /\ AwaitedFd(req[d]) \in Int
        BY <4>1, AwaitedIsOwn DEF BoaIInv, Types, Membership, FdsSound, Fd
      <4> QED BY <1>5, <3>1, <4>2, <4>3 DEF IsWatched, Higher
    <3> QED BY <3>2, <3>3
  <2> QED BY <2>1 DEF WatchedSoFar
<1>13. LeftByStatus'
  BY <1>3 DEF BoaIInv, LeftByStatus, MaySettle
<1>14. OverMeansSaid'
  BY DEF OverMeansSaid
<1> QED BY <1>8, <1>9, <1>10, <1>11, <1>12, <1>13, <1>14 DEF BoaIInv

\* It goes: its connection is closed.
LEMMA FreedStep ==
    ASSUME BoaIInv, pc = "settle", NEW c \in Conn, c = CurrentConn,
           req' = [req EXCEPT ![c] = Closed],
           peer' = [peer EXCEPT ![c] = "closed"],
           sent' = [sent EXCEPT ![c] = 0],
           ready' = Dequeue(ready, c),
           todo' = Tail(todo), retval' = 0,
           pc' = IF todo' = <<>> THEN "arm" ELSE "handle",
           children' \in Nat,
           UNCHANGED <<block, fds, max_fd, pending, sigterm, sighup, hups>>
    PROVE  BoaIInv'
<1>1. c \in ToSet(ready) /\ c \notin ToSet(block)
  BY CurrentIsReady
<1>2. Tail(todo) \in Seq(Conn) /\ EndOf(Tail(todo), Dequeue(ready, c))
  <2>1. EndOf(todo, ready) /\ todo # <<>>
    BY DEF BoaIInv, QueuesSound
  <2> QED BY <2>1, QueueFacts, EndOfRest DEF CurrentConn
<1>3. /\ Closed \in Request /\ Closed.fd = 0 /\ Closed.data_fd = 0 /\ Closed.post_data_fd = 0
      /\ Closed.status = "READ" /\ NothingLeft(Closed) /\ Closed.parsed = 0 /\ Closed.taken = 0
  <2>1. 0 \in 0..MaxFd /\ "READ" \in Status
    BY BoaAssumption DEF BoaAssumption, Status
  <2> QED BY <2>1 DEF Closed, NewRequest, Request, NothingLeft
<1>4. /\ req'[c] = Closed /\ peer'[c] = "closed" /\ sent'[c] = 0
      /\ \A d \in Conn \ {c} : req'[d] = req[d] /\ peer'[d] = peer[d] /\ sent'[d] = sent[d]
  BY DEF BoaIInv, Types
<1>5. /\ ready' \in Seq(Conn) /\ IsInjective(ready' \o block')
      /\ Queued' = Queued \ {c}
  <2>1. /\ ready' \in Seq(Conn) /\ ToSet(ready') = ToSet(ready) \ {c} /\ IsInjective(ready')
    BY <1>1, QueueFacts, DequeueLeaves
  <2>2. ToSet(ready') \cap ToSet(block) = {}
    BY <2>1, QueueFacts
  <2> QED BY <1>1, <2>1, <2>2, QueueFacts, InjectiveQueues DEF Queued
<1>6. Types'
  <2>1. req' \in [Conn -> Request] /\ sent' \in [Conn -> Nat]
        /\ peer' \in [Conn -> {"new", "backlog", "open", "gone", "closed"}]
    <3>1. req \in [Conn -> Request] /\ sent \in [Conn -> Nat]
          /\ peer \in [Conn -> {"new", "backlog", "open", "gone", "closed"}]
      BY DEF BoaIInv, Types
    <3>2. req' \in [Conn -> Request]
      BY <1>3, <3>1
    <3>3. sent' \in [Conn -> Nat]
      BY <3>1
    <3>4. peer' \in [Conn -> {"new", "backlog", "open", "gone", "closed"}]
      BY <3>1
    <3> QED BY <3>2, <3>3, <3>4
  <2>2. \A d \in Conn : req'[d].parsed <= req'[d].taken /\ req'[d].taken <= sent'[d]
    BY <1>3, <1>4 DEF BoaIInv, Types
  <2>3. /\ pc' \in {"signals", "update", "first", "handle", "accept", "settle", "arm", "select", "down"}
        /\ retval' \in -1..1 /\ todo' \in Seq(Conn)
    BY <1>2
  <2>4. /\ pending' \in BOOLEAN /\ sigterm' \in 0..2 /\ sighup' \in BOOLEAN /\ hups' \in 0..MaxHups
        /\ block' \in Seq(Conn)
        /\ fds' \in [{"read", "write"} -> SUBSET Fd] /\ max_fd' \in Fd \cup {-1}
    BY DEF BoaIInv, Types
  <2> QED BY <1>5, <2>1, <2>2, <2>3, <2>4 DEF Types
<1>7. Membership'
  BY <1>3, <1>4, <1>5 DEF BoaIInv, Membership
<1>8. QueuesSound'
  BY <1>2, <1>5 DEF QueuesSound
<1>9. FdsSound'
  <2>1. FdsOf(Closed) = {} /\ HasItsFds(Closed)
    BY <1>3 DEF FdsOf, HasItsFds
  <2>2. ASSUME NEW d \in Conn, NEW e \in Conn \ {d}
        PROVE  FdsOf(req'[d]) \cap FdsOf(req'[e]) = {}
    BY <1>4, <2>1 DEF BoaIInv, FdsSound
  <2>3. \A d \in Conn : HasItsFds(req'[d])
    BY <1>4, <2>1 DEF BoaIInv, FdsSound
  <2> QED BY <2>2, <2>3 DEF FdsSound
<1>10. WatchedSoFar'
  <2>1. ASSUME NEW d \in ToSet(block) PROVE IsWatched(d)'
    <3>1. d \in Conn \ {c}
      BY <1>1, <2>1, QueueFacts
    <3>2. IsWatched(d) /\ req'[d] = req[d]
      BY <1>4, <2>1, <3>1 DEF BoaIInv, WatchedSoFar
    <3> QED BY <3>2 DEF IsWatched
  <2> QED BY <2>1 DEF WatchedSoFar
<1>11. LeftByStatus'
  <2>1. LeftIn(Closed, "closed")
    BY <1>3 DEF LeftIn
  <2> QED BY <1>4, <2>1 DEF BoaIInv, LeftByStatus
<1>12. OverMeansSaid'
  BY DEF OverMeansSaid
<1> QED BY <1>6, <1>7, <1>8, <1>9, <1>10, <1>11, <1>12 DEF BoaIInv

LEMMA SettleStep ==
    ASSUME BoaIInv, Settle
    PROVE  BoaIInv' /\ \A c \in Conn : Answered(c)
<1> DEFINE c == CurrentConn
           q == req[c]
<1>1. /\ pc = "settle" /\ todo' = Tail(todo) /\ retval' = 0
      /\ pc' = IF todo' = <<>> THEN "arm" ELSE "handle"
      /\ UNCHANGED <<pending, sigterm, sighup, hups>>
  BY DEF Settle, signalVars
<1>2. c \in Conn /\ q \in Request /\ q.fd # 0 /\ c \in Queued
  BY <1>1, CurrentIsReady
<1>3. MaySettle(c, q) /\ q.kept \in Nat
  BY <1>2 DEF MaySettle, BoaIInv, Types, FdsSound, LeftByStatus, Request
<1>4. ASSUME retval = 0 PROVE IsSaid(q, peer[c])
  BY <1>1, <1>4 DEF BoaIInv, OverMeansSaid
<1>5. ASSUME NEW r, req' = [req EXCEPT ![c] = r], r.fd # 0, r.kept = q.kept,
             r.status = "DEAD" => q.status = "DEAD"
      PROVE  \A d \in Conn : Answered(d)
  <2>1. req'[c] = r /\ \A d \in Conn \ {c} : req'[d] = req[d]
    BY <1>2, <1>5 DEF BoaIInv, Types
  <2>2. Answered(c)
    BY <1>3, <1>5, <2>1 DEF Answered
  <2> QED BY <2>1, <2>2, SameIsAnswered
<1>6. CASE retval = -1 /\ BlockRequest(c)
  <2>1. req' = [req EXCEPT ![c] = q]
    BY <1>6 DEF BlockRequest, BoaIInv, Types
  <2>2. /\ ready' = Dequeue(ready, c) /\ block' = <<c>> \o block /\ FdSet(c)
        /\ UNCHANGED <<peer, sent, children>>
    BY <1>6 DEF BlockRequest, clientVars, cgiVars
  <2> HIDE DEF c
  <2>3. BoaIInv'
    BY <1>1, <1>2, <1>3, <2>1, <2>2, SettledStep DEF c
  <2> QED BY <1>2, <1>5, <2>1, <2>3
<1>7. ASSUME NEW st \in Status, st = q.status \/ (st = "DONE" /\ IsSaid(q, peer[c]) /\ q.status # "DEAD"),
             req' = [req EXCEPT ![c] = [q EXCEPT !.status = st, !.age = 0]],
             UNCHANGED <<ready, block, fds, max_fd, peer, sent, children>>
      PROVE  BoaIInv' /\ \A d \in Conn : Answered(d)
  <2> DEFINE r == [q EXCEPT !.status = st, !.age = 0]
  <2>1. /\ r \in Request
        /\ r.fd = q.fd /\ r.data_fd = q.data_fd /\ r.post_data_fd = q.post_data_fd
        /\ r.status = st /\ r.kept = q.kept /\ r.overruled = q.overruled /\ r.parsed = q.parsed /\ r.taken = q.taken
        /\ r.left = q.left /\ r.piece = q.piece
    <3>1. q \in Request /\ 0 \in 0..2
      BY <1>2
    <3> HIDE DEF q
    <3> QED BY <3>1 DEF Request
  <2>2. req' = [req EXCEPT ![c] = r]
    BY <1>7
  <2> HIDE DEF r
  <2>3. MaySettle(c, r)
    BY <1>3, <1>7, <2>1 DEF MaySettle, FdsOf, HasItsFds, LeftIn, IsSaid, NothingLeft
  <2>4. BoaIInv'
    BY <1>1, <1>2, <1>7, <2>2, <2>3, SettledStep
  <2> QED BY <1>2, <1>5, <1>7, <2>1, <2>2, <2>4
<1>8. CASE retval = 1 /\ req' = [req EXCEPT ![c].age = 0]
           /\ UNCHANGED <<ready, block, fds, max_fd, clientVars, cgiVars>>
  <2>1. req' = [req EXCEPT ![c] = [q EXCEPT !.status = q.status, !.age = 0]]
    BY <1>2, <1>8 DEF BoaIInv, Types, Request
  <2> QED BY <1>2, <1>7, <1>8, <2>1 DEF Request, clientVars, cgiVars
<1>9. CASE retval = 0 /\ FreeRequest(c)
  <2>1. CASE /\ q.buffered > 0 /\ q.status # "DEAD"
             /\ req' = [req EXCEPT ![c].status = "DONE", ![c].age = 0]
             /\ UNCHANGED <<ready, block, fds, max_fd, clientVars, cgiVars>>
    <3>1. req' = [req EXCEPT ![c] = [q EXCEPT !.status = "DONE", !.age = 0]]
      BY <1>2, <2>1 DEF BoaIInv, Types, Request
    <3> QED BY <1>4, <1>7, <1>9, <2>1, <3>1 DEF Status, clientVars, cgiVars
  <2>2. CASE /\ ~(q.buffered > 0 /\ q.status # "DEAD")
             /\ req' = [req EXCEPT ![c] = NewRequest(q.fd, q.kept + 1, q.parsed, q.taken)]
             /\ ready' = Dequeue(ready, c) /\ block' = <<c>> \o block
             /\ UNCHANGED <<clientVars, cgiVars>>
             /\ FdSet(c)
    <3> DEFINE r == NewRequest(q.fd, q.kept + 1, q.parsed, q.taken)
    <3>1. /\ r \in Request
          /\ r.fd = q.fd /\ r.data_fd = 0 /\ r.post_data_fd = 0
          /\ r.status = "READ" /\ r.parsed = q.parsed /\ r.taken = q.taken
          /\ r.left = 0 /\ r.piece = 0
      <4>1. 0 \in 0..MaxFd /\ "READ" \in Status
        BY BoaAssumption DEF BoaAssumption, Status
      <4>2. q \in Request
        BY <1>2
      <4> HIDE DEF q
      <4>3. q.fd \in 0..MaxFd /\ q.kept + 1 \in Nat /\ q.parsed \in Nat /\ q.taken \in Nat
        BY <4>2 DEF Request
      <4> QED BY <4>1, <4>3 DEF NewRequest, Request
    <3>2. req' = [req EXCEPT ![c] = r]
      BY <2>2
    <3> HIDE DEF r
    <3>3. MaySettle(c, r)
      BY <1>3, <3>1 DEF MaySettle, FdsOf, HasItsFds, LeftIn, NothingLeft
    <3>4. BoaIInv'
      BY <1>1, <1>2, <2>2, <3>2, <3>3, SettledStep DEF clientVars, cgiVars
    <3>5. req'[c] = r /\ \A d \in Conn \ {c} : req'[d] = req[d]
      BY <1>2, <3>2 DEF BoaIInv, Types
    <3>6. Answered(c)
      <4>1. q.buffered = 0 \/ q.status = "DEAD"
        BY <1>2, <2>2 DEF Request
      <4> QED BY <1>4, <1>9, <3>1, <3>5, <4>1 DEF Answered, IsSaid, NothingLeft
    <3> QED BY <3>4, <3>5, <3>6, SameIsAnswered
  <2>3. CASE /\ ~(q.buffered > 0 /\ q.status # "DEAD")
             /\ req' = [req EXCEPT ![c] = Closed]
             /\ ready' = Dequeue(ready, c)
             /\ peer' = [peer EXCEPT ![c] = "closed"]
             /\ sent' = [sent EXCEPT ![c] = 0]
             /\ children' = children + (IF cgi[c] = "runs" THEN 1 ELSE 0)
             /\ UNCHANGED <<block, fds, max_fd>>
    <3>1. children' \in Nat
      BY <2>3 DEF BoaIInv, Types
    <3>2. BoaIInv'
      BY <1>1, <1>2, <2>3, <3>1, FreedStep
    <3>3. req'[c] = Closed /\ \A d \in Conn \ {c} : req'[d] = req[d]
      BY <1>2, <2>3 DEF BoaIInv, Types
    <3>4. Answered(c)
      <4>1. q.buffered = 0 \/ q.status = "DEAD"
        BY <1>2, <2>3 DEF Request
      <4>2. Closed.status = "READ"
        BY DEF Closed, NewRequest
      <4> QED BY <1>4, <1>9, <3>3, <4>1, <4>2 DEF Answered, IsSaid, NothingLeft
    <3> QED BY <3>2, <3>3, <3>4, SameIsAnswered
  <2> QED BY <1>9, <2>1, <2>2, <2>3 DEF FreeRequest
<1> QED BY <1>6, <1>8, <1>9 DEF Settle

-----------------------------------------------------------------------------
(* The foot of the loop and the environment *)

LEMMA ArmStep ==
    ASSUME BoaIInv, Arm
    PROVE  BoaIInv' /\ \A c \in Conn : Answered(c)
<1>1. /\ pc = "arm" /\ pc' = "select"
      /\ UNCHANGED <<ready, block, todo, retval, pending, sigterm, sighup, hups, req, peer, sent, children>>
  BY DEF Arm, signalVars, clientVars, cgiVars
<1>2. \/ /\ fds' = [fds EXCEPT !.read = @ \cup {server_s}]
         /\ max_fd' = Higher(max_fd, server_s)
      \/ UNCHANGED <<fds, max_fd>>
  BY DEF Arm
<1>3. /\ fds \in [{"read", "write"} -> SUBSET Fd] /\ max_fd \in Fd \cup {-1} /\ server_s \in Fd
  BY BoaAssumption DEF BoaIInv, Types, BoaAssumption, server_s, Fd
<1>4. /\ fds' \in [{"read", "write"} -> SUBSET Fd] /\ max_fd' \in Fd \cup {-1}
      /\ \A side \in {"read", "write"} : fds[side] \subseteq fds'[side]
      /\ max_fd <= max_fd'
  BY <1>2, <1>3 DEF Higher, Fd
<1>5. Types'
  BY <1>1, <1>4 DEF BoaIInv, Types
<1>6. WatchedSoFar'
  <2>1. ASSUME NEW d \in ToSet(block) PROVE IsWatched(d)'
    <3>1. IsWatched(d) /\ d \in Conn /\ d \in Queued
      BY <1>1, <2>1, QueueFacts DEF BoaIInv, WatchedSoFar, Queued
    <3>2. AwaitedSet(req[d]) \in {"read", "write"} /\ AwaitedFd(req[d]) \in Int
      BY <3>1, AwaitedIsOwn DEF BoaIInv, Types, Membership, FdsSound, Fd
    <3>3. max_fd \in Int /\ max_fd' \in Int
      BY <1>3, <1>4 DEF Fd
    <3> QED BY <1>1, <1>4, <3>1, <3>2, <3>3 DEF IsWatched
  <2> QED BY <1>1, <2>1 DEF WatchedSoFar
<1>7. Quiet
  BY <1>1 DEF Quiet
<1> QED BY <1>5, <1>6, <1>7, QuietStep

LEMMA SelectStep ==
    ASSUME BoaIInv, SelectReturns \/ SelectFails \/ SelectTimesOut
    PROVE  BoaIInv' /\ \A c \in Conn : Answered(c)
<1>1. PICK result \in [{"read", "write"} -> SUBSET Fd] : Selected(result)
  <2>1. fds \in [{"read", "write"} -> SUBSET Fd]
    BY DEF BoaIInv, Types
  <2>2. NoFds \in [{"read", "write"} -> SUBSET Fd]
    BY DEF NoFds
  <2>3. ReadyFds \in [{"read", "write"} -> SUBSET Fd]
    <3> DEFINE R == {f \in Below(fds.read) : Readable(f)}
               W == {f \in Below(fds.write) : Writable(f)}
    <3>1. R \in SUBSET Fd /\ W \in SUBSET Fd
      BY <2>1 DEF Below
    <3>2. ReadyFds = [read |-> R, write |-> W]
      BY DEF ReadyFds
    <3> HIDE DEF R, W
    <3> QED BY <3>1, <3>2
  <2> QED BY <2>1, <2>2, <2>3 DEF SelectReturns, SelectFails, SelectTimesOut
<1>2. pc = "select"
  BY DEF SelectReturns, SelectFails, SelectTimesOut
<1>3. /\ fds' = result /\ pending' \in BOOLEAN /\ pc' = "signals"
      /\ UNCHANGED <<ready, block, todo, retval, max_fd, sigterm, sighup, hups, req, peer, sent, children>>
  BY <1>1 DEF Selected, signalVars, clientVars, cgiVars, BoaIInv, Types
<1>4. Types'
  BY <1>3 DEF BoaIInv, Types
<1>5. WatchedSoFar'
  BY <1>3 DEF WatchedSoFar
<1>6. Quiet
  BY <1>2, <1>3 DEF Quiet
<1> QED BY <1>4, <1>5, <1>6, QuietStep

LEMMA SignalArrives ==
    ASSUME BoaIInv, Term \/ Hup \/ SigChld
    PROVE  BoaIInv' /\ \A c \in Conn : Answered(c)
<1>1. /\ pc' = IF pc = "select" THEN "signals" ELSE pc
      /\ UNCHANGED <<ready, block, todo, retval, fds, max_fd, pending, req, peer, sent>>
  BY DEF Term, Hup, SigChld, Interrupt, clientVars
<1>2. /\ sigterm' \in 0..2 /\ sighup' \in BOOLEAN /\ hups' \in 0..MaxHups /\ children' \in Nat
  <2>1. CASE Term
    BY <2>1 DEF Term, cgiVars, BoaIInv, Types
  <2>2. CASE Hup
    <3>1. MaxHups \in Nat
      BY BoaAssumption DEF BoaAssumption
    <3> QED BY <2>2, <3>1 DEF Hup, cgiVars, BoaIInv, Types
  <2>3. CASE SigChld
    BY <2>3 DEF SigChld, signalVars, BoaIInv, Types
  <2> QED BY <2>1, <2>2, <2>3
<1>3. Types'
  BY <1>1, <1>2 DEF BoaIInv, Types
<1>4. WatchedSoFar'
  BY <1>1 DEF BoaIInv, WatchedSoFar, IsWatched
<1>5. Quiet
  BY <1>1 DEF Quiet
<1> QED BY <1>3, <1>4, <1>5, QuietStep

LEMMA ElapseStep ==
    ASSUME BoaIInv, NEW c \in Conn, Elapse(c)
    PROVE  BoaIInv' /\ \A d \in Conn : Answered(d)
<1> DEFINE q == req[c]
           r == [q EXCEPT !.age = @ + 1]
<1>1. /\ pc = "select" /\ c \in Queued
      /\ UNCHANGED <<pc, ready, block, todo, retval, fds, max_fd, pending, sigterm, sighup, hups,
                     peer, sent, children>>
  BY DEF Elapse, loopVars, signalVars, clientVars, cgiVars
<1>2. q \in Request /\ q.age + 1 \in 0..2
  BY DEF Elapse, BoaIInv, Types, Request
<1>3. /\ r \in Request
      /\ r.fd = q.fd /\ r.data_fd = q.data_fd /\ r.post_data_fd = q.post_data_fd
      /\ r.status = q.status /\ r.kept = q.kept /\ r.overruled = q.overruled /\ r.parsed = q.parsed /\ r.taken = q.taken
      /\ r.left = q.left /\ r.piece = q.piece /\ r.buffered = q.buffered
  <2> HIDE DEF q
  <2> QED BY <1>2 DEF Request
<1>4. req' = [req EXCEPT ![c] = r]
  BY <1>2 DEF Elapse, BoaIInv, Types, Request
<1> HIDE DEF r
<1>5. req'[c] = r /\ \A d \in Conn \ {c} : req'[d] = req[d]
  BY <1>4 DEF BoaIInv, Types
<1>6. Types'
  <2>1. req' \in [Conn -> Request]
    BY <1>3, <1>4 DEF BoaIInv, Types
  <2>2. ASSUME NEW d \in Conn
        PROVE  req'[d].parsed <= req'[d].taken /\ req'[d].taken <= sent'[d]
    <3>1. req[d].parsed <= req[d].taken /\ req[d].taken <= sent[d]
      BY DEF BoaIInv, Types
    <3> QED BY <1>1, <1>3, <1>5, <3>1
  <2> QED BY <1>1, <2>1, <2>2 DEF BoaIInv, Types
<1>7. Membership'
  BY <1>1, <1>3, <1>5 DEF BoaIInv, Membership, Queued
<1>8. QueuesSound'
  BY <1>1 DEF BoaIInv, QueuesSound
<1>9. FdsSound'
  <2>1. \A d \in Conn : FdsOf(req'[d]) = FdsOf(req[d]) /\ HasItsFds(req'[d])
    BY <1>3, <1>5 DEF BoaIInv, FdsSound, FdsOf, HasItsFds
  <2> QED BY <2>1 DEF BoaIInv, FdsSound
<1>10. WatchedSoFar'
  <2>1. ASSUME NEW d \in ToSet(block) PROVE IsWatched(d)'
    <3>1. IsWatched(d) /\ d \in Conn
      BY <1>1, <2>1, QueueFacts DEF BoaIInv, WatchedSoFar
    <3>2. AwaitedFd(req'[d]) = AwaitedFd(req[d]) /\ AwaitedSet(req'[d]) = AwaitedSet(req[d])
      BY <1>3, <1>5, <3>1 DEF AwaitedFd, AwaitedSet
    <3> QED BY <1>1, <3>1, <3>2 DEF IsWatched
  <2> QED BY <1>1, <2>1 DEF WatchedSoFar
<1>11. LeftByStatus'
  BY <1>1, <1>3, <1>5 DEF BoaIInv, LeftByStatus, LeftIn, NothingLeft
<1>12. OverMeansSaid'
  BY <1>1 DEF OverMeansSaid
<1>13. ASSUME NEW d \in Conn PROVE Answered(d)
  <2>1. CASE d = c
    <3>1. q.kept \in Nat
      BY <1>2 DEF Request
    <3> QED BY <1>3, <1>5, <2>1, <3>1 DEF Answered
  <2>2. CASE d # c
    BY <1>5, <2>2, SameIsAnswered
  <2> QED BY <2>1, <2>2
<1> QED BY <1>6, <1>7, <1>8, <1>9, <1>10, <1>11, <1>12, <1>13 DEF BoaIInv

LEMMA ClientStep ==
    ASSUME BoaIInv, NEW c \in Conn,
           Connect(c) \/ Send(c) \/ Receive(c) \/ Leave(c) \/ CgiSays(c) \/ CgiExits(c)
    PROVE  BoaIInv' /\ \A d \in Conn : Answered(d)
<1>1. UNCHANGED <<pc, ready, block, todo, retval, fds, max_fd, pending, sigterm, sighup, hups, req>>
  BY DEF Connect, Send, Receive, Leave, CgiSays, CgiExits, loopVars, signalVars
<1>2. /\ peer' \in [Conn -> {"new", "backlog", "open", "gone", "closed"}]
      /\ \A d \in Conn : \/ peer'[d] = peer[d]
                         \/ peer[d] = "new" /\ peer'[d] = "backlog"
                         \/ peer[d] \in {"open", "backlog"} /\ peer'[d] = "gone"
  <2>1. \/ peer' = peer
        \/ peer[c] = "new" /\ peer' = [peer EXCEPT ![c] = "backlog"]
        \/ peer[c] = "open" /\ peer' = [peer EXCEPT ![c] = "gone"]
    BY DEF Connect, Send, Receive, Leave, CgiSays, CgiExits, clientVars
  <2> QED BY <2>1 DEF BoaIInv, Types
<1>3. sent' \in [Conn -> Nat] /\ children' \in Nat /\ \A d \in Conn : sent[d] <= sent'[d]
  <2>1. \/ sent' = sent
        \/ sent' = [sent EXCEPT ![c] = @ + 1]
    BY DEF Connect, Send, Receive, Leave, CgiSays, CgiExits, clientVars
  <2>2. children' \in {children, children + 1}
    BY DEF Connect, Send, Receive, Leave, CgiSays, CgiExits, cgiVars
  <2>3. sent \in [Conn -> Nat] /\ children \in Nat
    BY DEF BoaIInv, Types
  <2> QED BY <2>1, <2>2, <2>3
<1>4. Types'
  <2>1. ASSUME NEW d \in Conn
        PROVE  req'[d].parsed <= req'[d].taken /\ req'[d].taken <= sent'[d]
    <3>1. /\ req[d].taken \in Nat /\ sent[d] \in Nat /\ sent'[d] \in Nat
          /\ req[d].parsed <= req[d].taken /\ req[d].taken <= sent[d]
      BY <1>3 DEF BoaIInv, Types, Request
    <3> QED BY <1>1, <1>3, <3>1
  <2> QED BY <1>1, <1>2, <1>3, <2>1 DEF BoaIInv, Types
<1>5. WatchedSoFar'
  BY <1>1 DEF BoaIInv, WatchedSoFar, IsWatched
<1>6. Quiet
  BY <1>1, <1>2 DEF Quiet
<1> QED BY <1>4, <1>5, <1>6, QuietStep

-----------------------------------------------------------------------------
(* The theorems *)

LEMMA InitHolds == Init => BoaIInv
<1> SUFFICES ASSUME Init PROVE BoaIInv
  OBVIOUS
<1>1. /\ Closed \in Request /\ Closed.fd = 0 /\ Closed.data_fd = 0 /\ Closed.post_data_fd = 0
      /\ Closed.status = "READ" /\ NothingLeft(Closed) /\ Closed.parsed = 0 /\ Closed.taken = 0
  <2>1. 0 \in 0..MaxFd /\ "READ" \in Status
    BY BoaAssumption DEF BoaAssumption, Status
  <2> QED BY <2>1 DEF Closed, NewRequest, Request, NothingLeft
<1>2. \A c \in Conn : req[c] = Closed
  BY DEF Init
<1>3. Types
  <2>1. NoFds \in [{"read", "write"} -> SUBSET Fd]
    BY DEF NoFds
  <2>2. req \in [Conn -> Request]
    BY <1>1 DEF Init
  <2>3. <<>> \in Seq(Conn) /\ 0 \in 0..MaxHups
    BY BoaAssumption DEF BoaAssumption
  <2>4. \A c \in Conn : req[c].parsed <= req[c].taken /\ req[c].taken <= sent[c]
    BY <1>1, <1>2 DEF Init
  <2>5. /\ peer \in [Conn -> {"new", "backlog", "open", "gone", "closed"}]
        /\ sent \in [Conn -> Nat]
    BY DEF Init
  <2>6. /\ pc \in {"signals", "update", "first", "handle", "accept", "settle", "arm", "select", "down"}
        /\ ready \in Seq(Conn) /\ block \in Seq(Conn) /\ todo \in Seq(Conn)
        /\ retval \in -1..1 /\ max_fd \in Fd \cup {-1} /\ pending \in BOOLEAN
        /\ sigterm \in 0..2 /\ sighup \in BOOLEAN /\ hups \in 0..MaxHups /\ children \in Nat
    <3>1. /\ pc = "signals" /\ ready = <<>> /\ block = <<>> /\ todo = <<>>
          /\ retval = 0 /\ max_fd = -1 /\ sigterm = 0 /\ hups = 0 /\ children = 0
      BY DEF Init
    <3>2. pending \in BOOLEAN /\ sighup \in BOOLEAN
      BY DEF Init
    <3> QED BY <2>3, <3>1, <3>2
  <2>7. fds \in [{"read", "write"} -> SUBSET Fd]
    BY <2>1 DEF Init
  <2> QED BY <2>2, <2>4, <2>5, <2>6, <2>7 DEF Types
<1>4. ToSet(ready) = {} /\ ToSet(block) = {} /\ Queued = {}
  BY <1>3, ToSetType DEF Init, Types, Queued
<1>5. Membership
  BY <1>1, <1>2, <1>4 DEF Membership
<1>6. QueuesSound
  <2>1. EndOf(todo, ready) /\ IsInjective(ready \o block)
    BY <1>3 DEF Init, EndOf, IsInjective
  <2> QED BY <2>1 DEF Init, QueuesSound
<1>7. FdsSound
  <2>1. FdsOf(Closed) = {} /\ HasItsFds(Closed)
    BY <1>1 DEF FdsOf, HasItsFds
  <2> QED BY <1>2, <2>1 DEF FdsSound
<1>8. WatchedSoFar /\ OverMeansSaid
  BY DEF Init, WatchedSoFar, OverMeansSaid
<1>9. LeftByStatus
  BY <1>1, <1>2 DEF LeftByStatus, LeftIn
<1> QED BY <1>3, <1>5, <1>6, <1>7, <1>8, <1>9 DEF BoaIInv

LEMMA NextHolds ==
    ASSUME BoaIInv, [Next]_vars
    PROVE  BoaIInv' /\ (UNCHANGED vars \/ \A c \in Conn : Answered(c))
<1>1. CASE UNCHANGED vars
  <2>1. UNCHANGED <<pc, ready, block, todo, retval, fds, max_fd, pending, sigterm, sighup, hups,
                    req, peer, sent, children>>
    BY <1>1 DEF vars, loopVars, signalVars, clientVars, cgiVars
  <2>2. Types'
    BY <2>1 DEF BoaIInv, Types
  <2>3. WatchedSoFar'
    BY <2>1 DEF BoaIInv, WatchedSoFar, IsWatched
  <2>4. Quiet
    BY <2>1 DEF Quiet
  <2> QED BY <1>1, <2>2, <2>3, <2>4, QuietStep
<1>2. CASE Loop
  BY <1>2, SignalsStep, UpdateStep, FirstAcceptStep, HandleStep, AcceptStep, SettleStep,
     ArmStep, SelectStep DEF Loop
<1>3. CASE Term \/ Hup \/ SigChld
  BY <1>3, SignalArrives
<1>4. ASSUME NEW c \in Conn,
             \/ Elapse(c) \/ Connect(c) \/ Send(c) \/ Receive(c) \/ Leave(c)
             \/ CgiSays(c) \/ CgiExits(c)
      PROVE  BoaIInv' /\ \A d \in Conn : Answered(d)
  BY <1>4, ElapseStep, ClientStep
<1> QED BY <1>1, <1>2, <1>3, <1>4 DEF Next

LEMMA AlwaysIInv == Spec => []BoaIInv
<1>1. BoaIInv /\ [Next]_vars => BoaIInv'
  BY NextHolds
<1> QED BY InitHolds, <1>1, PTL DEF Spec

\* Whatever the clients, the CGI processes and the signals do, the traversals of the two
\* queues lose no request and meet none twice (queue.c:36-93, select.c:111-182).
THEOREM BoaSafe == Spec => []BoaInv
<1>1. BoaIInv => BoaInv
  <2> SUFFICES ASSUME BoaIInv PROVE TypeOK /\ OneOwner
    BY DEF BoaIInv, BoaInv
  <2>1. TypeOK
    BY DEF BoaIInv, Types, Membership, TypeOK
  <2>2. OneOwner
    BY DEF BoaIInv, FdsSound, OneOwner
  <2> QED BY <2>1, <2>2
<1> QED BY AlwaysIInv, <1>1, PTL

\* A request that sleeps is watched by select, up to max_fd (select.c:111-182).
THEOREM AlwaysWatched == Spec => []Watched
<1>1. BoaIInv => Watched
  BY DEF BoaIInv, WatchedSoFar, IsWatched, Watched
<1> QED BY AlwaysIInv, <1>1, PTL

\* No request ends with something left to say to a client that is there and in time
\* (request.c:238-243, 272-361).
THEOREM AlwaysAnsweredInFull == Spec => AnsweredInFull
<1> DEFINE AllAnswered == \A c \in Conn : Answered(c)
<1>1. BoaIInv /\ [Next]_vars => [AllAnswered]_vars
  BY NextHolds
<1>2. Spec => [][AllAnswered]_vars
  BY AlwaysIInv, <1>1, PTL DEF Spec
<1> QED BY <1>2 DEF AnsweredInFull, Answered
====
