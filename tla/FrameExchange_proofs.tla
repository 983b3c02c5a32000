------------------------ MODULE FrameExchange_proofs ------------------------
(***************************************************************************)
(* FrameInv is an inductive invariant of FrameExchange; from it every      *)
(* output copies whole frames, published after it asked, in the order of   *)
(* the camera (FrameExchange implements FrameFeed), for every number of    *)
(* outputs, buffers and frames, all kinds of frames and every minimum      *)
(* size.                                                                   *)
(***************************************************************************)
EXTENDS FrameExchange, SequenceTheorems, TLAPS

CopyRecord == [bytes : 0..MaxFrames, size : 0..MaxFrames, stamp : 0..MaxFrames]

\* The numbers in a state, for arithmetic.
LEMMA Numbers ==
    ASSUME FrameInv
    PROVE  /\ Len(captured) \in Nat /\ queued \in Nat /\ lost \in Nat
           /\ Len(filled) \in Nat /\ filled \in Seq(Frame) /\ captured \in Seq(Kinds)
           /\ used \in Nat /\ timestamp \in Nat /\ buf \in Nat /\ size \in Nat
           /\ tmpbuffer \in Nat /\ pos \in Nat
           /\ Len(captured) <= MaxFrames /\ MaxFrames \in Nat
           /\ \A o \in Output : asked[o] \in Nat /\ copy[o] \in CopyRecord
<1>1. MaxFrames \in Nat /\ NB_BUFFER \in Nat /\ TypeOK
  BY FrameExchangeAssumption DEF FrameInv
<1>2. /\ filled \in Seq(Frame) /\ Len(filled) \in Nat
      /\ captured \in Seq(Kinds) /\ Len(captured) \in Nat /\ Len(captured) <= MaxFrames
  BY <1>1, LenProperties DEF TypeOK
<1>3. /\ queued \in Nat /\ lost \in Nat /\ used \in Nat /\ pos \in Nat
      /\ timestamp \in Nat /\ buf \in Nat /\ size \in Nat /\ tmpbuffer \in Nat
  BY <1>1, <1>2 DEF TypeOK
<1>4. \A o \in Output : asked[o] \in Nat /\ copy[o] \in CopyRecord
  BY <1>1 DEF TypeOK, CopyRecord
<1> QED BY <1>1, <1>2, <1>3, <1>4

LEMMA InitInv ==
    ASSUME Init
    PROVE  FrameInv
<1> USE FrameExchangeAssumption
<1>1. /\ minimum_size \in MinimumSizes /\ captured = <<>> /\ queued = NB_BUFFER
      /\ filled = <<>> /\ lost = 0 /\ cpc = "top"
      /\ used = 0 /\ tmpbuffer = 0 /\ pos = 0 /\ db = Nobody
      /\ buf = 0 /\ size = 0 /\ timestamp = 0 /\ freed = FALSE
      /\ pc = [o \in Output |-> "busy"] /\ copy = [o \in Output |-> NoFrame]
      /\ asked = [o \in Output |-> 0] /\ handler = "waiting"
  BY DEF Init
<1>2. /\ filled \in Seq(Frame) /\ Len(filled) = 0
      /\ captured \in Seq(Kinds) /\ Len(captured) = 0
  BY <1>1, EmptySeq
<1>3. TypeOK
  <2>1. 0 \in 0..MaxFrames /\ 0 \in 0..NB_BUFFER /\ NB_BUFFER \in 0..NB_BUFFER
    OBVIOUS
  <2>2. {used, tmpbuffer, pos, buf, size, timestamp} \subseteq 0..Len(captured)
    BY <1>1, <1>2
  <2>3. NoFrame \in [bytes : 0..MaxFrames, size : 0..MaxFrames, stamp : 0..MaxFrames]
    BY <2>1 DEF NoFrame
  <2>4. /\ pc \in [Output -> {"busy", "waiting", "woken", "size", "copy", "ended"}]
        /\ copy \in [Output -> [bytes : 0..MaxFrames, size : 0..MaxFrames,
                                stamp : 0..MaxFrames]]
        /\ asked \in [Output -> 0..MaxFrames]
    BY <1>1, <2>1, <2>3
  <2>5. /\ minimum_size \in MinimumSizes /\ cpc = "top" /\ db = Nobody /\ freed = FALSE
        /\ handler = "waiting" /\ queued \in 0..NB_BUFFER /\ lost \in 0..NB_BUFFER
        /\ filled \in Seq(Frame) /\ captured \in Seq(Kinds) /\ Len(captured) <= MaxFrames
    BY <1>1, <1>2, <2>1
  <2> HIDE FrameExchangeAssumption
  <2> QED BY <2>2, <2>4, <2>5 DEF TypeOK
<1>4. BuffersKept /\ FilledOK /\ StampOK
  <2>1. BuffersKept
    BY <1>1, <1>2 DEF BuffersKept
  <2>2. FilledOK
    BY <1>1, <1>2 DEF FilledOK
  <2>3. StampOK
    BY <1>1 DEF StampOK
  <2> QED BY <2>1, <2>2, <2>3
<1>5. IsWhole(NoFrame)
  BY DEF IsWhole, NoFrame, Kind
<1>6. Published = NoFrame /\ \A o \in Output : Taken(o) = NoFrame
  BY <1>1 DEF Published, Taken, NoFrame
<1>7. GlobalOK
  BY <1>1, <1>5, <1>6 DEF GlobalOK
<1>8. LockOK /\ AskedOK
  BY <1>1 DEF LockOK, AskedOK
<1>9. CopyOK
  BY <1>1, <1>5, <1>6 DEF CopyOK, NoFrame
<1> QED BY <1>3, <1>4, <1>7, <1>8, <1>9 DEF FrameInv

----------------------------------------------------------------------------
(* What is kept *)

\* The kind of a frame does not change when others are captured.
KindsKept ==
    /\ captured' \in Seq(Kinds) /\ Len(captured) <= Len(captured')
    /\ \A f \in 1..Len(captured) : captured'[f] = captured[f]

\* What was whole stays whole.
LEMMA WholeKept ==
    ASSUME FrameInv, KindsKept, NEW p \in CopyRecord, p.stamp <= Len(captured), IsWhole(p)
    PROVE  IsWhole(p)'
<1>1. p.stamp \in 0..Len(captured)
  BY Numbers DEF CopyRecord
<1>2. CASE p.stamp = 0
  BY <1>2 DEF IsWhole, Kind
<1>3. CASE p.stamp # 0
  <2>1. captured'[p.stamp] = captured[p.stamp]
    BY <1>1, <1>3, Numbers DEF KindsKept
  <2> QED BY <1>3, <2>1 DEF IsWhole, Kind
<1> QED BY <1>2, <1>3

\* What is published and what is taken are records of numbers of frames.
LEMMA PublishedIs ==
    ASSUME FrameInv
    PROVE  /\ Published \in CopyRecord /\ Published.bytes = buf
           /\ Published.size = (IF cpc = "size" THEN pos ELSE size)
           /\ Published.stamp = (IF cpc \in {"size", "stamp"} THEN used ELSE timestamp)
           /\ Published.stamp <= Len(captured)
<1>1. 0..Len(captured) \subseteq 0..MaxFrames
  BY Numbers
<1>2. {used, pos, buf, size, timestamp} \subseteq 0..Len(captured)
  BY DEF FrameInv, TypeOK
<1> QED BY <1>1, <1>2 DEF Published, CopyRecord

LEMMA TakenIs ==
    ASSUME FrameInv, NEW o \in Output
    PROVE  /\ Taken(o) \in CopyRecord
           /\ Taken(o).bytes = (IF pc[o] = "copy" THEN buf ELSE copy[o].bytes)
           /\ Taken(o).size = copy[o].size /\ Taken(o).stamp = copy[o].stamp
           /\ Taken(o).stamp <= Len(captured)
<1>1. copy[o] \in CopyRecord /\ buf \in 0..MaxFrames
  BY Numbers DEF FrameInv, TypeOK
<1>2. copy[o].stamp <= timestamp /\ timestamp <= Len(captured)
  BY Numbers DEF FrameInv, CopyOK, TypeOK
<1>3. copy[o].stamp \in Nat /\ timestamp \in Nat /\ Len(captured) \in Nat
  BY <1>1, Numbers DEF CopyRecord
<1>4. copy[o].stamp <= Len(captured)
  BY <1>2, <1>3
<1> QED BY <1>1, <1>4 DEF Taken, CopyRecord

\* A step that publishes nothing keeps GlobalOK.
LEMMA GlobalKept ==
    ASSUME FrameInv, UNCHANGED <<captured, used, tmpbuffer>>, Published' = Published,
           cpc' \in {"lock", "copy"} => cpc \in {"lock", "copy"}
    PROVE  GlobalOK'
<1>1. KindsKept
  BY Numbers DEF KindsKept
<1>2. IsWhole(Published)'
  BY <1>1, PublishedIs, WholeKept DEF FrameInv, GlobalOK, IsWhole, Kind
<1> QED BY <1>2 DEF FrameInv, GlobalOK, IsEmpty, Kind

\* What an output has taken and keeps stays whole.
LEMMA TakenKept ==
    ASSUME FrameInv, KindsKept, NEW o \in Output, Taken(o)' = Taken(o)
    PROVE  IsWhole(Taken(o))'
<1>1. IsWhole(Taken(o))
  BY DEF FrameInv, CopyOK
<1>2. \A q \in CopyRecord : q.stamp <= Len(captured) /\ IsWhole(q) => IsWhole(q)'
  BY WholeKept
<1> QED BY <1>1, <1>2, TakenIs DEF IsWhole, Kind

\* A step that leaves asked alone, copies nothing and is not seen by who copies keeps
\* what the outputs have taken.
LEMMA CopyKept ==
    ASSUME FrameInv, KindsKept, UNCHANGED <<copy, asked>>, timestamp' \in Nat,
           timestamp <= timestamp',
           \A o \in Output :
               /\ pc[o] = "copy" <=> pc'[o] = "copy"
               /\ pc[o] = "copy" => UNCHANGED <<buf, size, timestamp>>
               /\ pc'[o] \in {"waiting", "woken", "size"} =>
                      pc[o] \in {"waiting", "woken", "size"}
    PROVE  CopyOK' /\ \A o \in Output : Taken(o)' = Taken(o)
<1> SUFFICES ASSUME NEW o \in Output
             PROVE  /\ IsWhole(Taken(o))' /\ Taken(o)' = Taken(o)
                    /\ pc'[o] = "copy" => copy'[o].size = size' /\ copy'[o].stamp = timestamp'
                    /\ copy'[o].stamp <= timestamp'
                    /\ pc'[o] \in {"waiting", "woken", "size"} => copy'[o].stamp <= asked'[o]
  BY DEF CopyOK
<1>1. Taken(o)' = Taken(o)
  BY DEF Taken
<1>2. IsWhole(Taken(o))'
  BY <1>1, TakenKept
<1>3. /\ copy'[o] = copy[o] /\ asked'[o] = asked[o]
      /\ copy[o].stamp \in Nat /\ timestamp \in Nat
  BY Numbers DEF CopyRecord
<1> QED BY <1>1, <1>2, <1>3 DEF FrameInv, CopyOK

----------------------------------------------------------------------------
(* The camera *)

LEMMA InvCapture ==
    ASSUME FrameInv, NEW k \in Kinds, Capture(k)
    PROVE  FrameInv' /\ Published' = Published /\ \A o \in Output : Taken(o)' = Taken(o)
<1> USE FrameExchangeAssumption
<1>1. /\ TypeOK /\ BuffersKept /\ FilledOK
      /\ Len(captured) \in Nat /\ queued \in Nat /\ lost \in Nat /\ Len(filled) \in Nat
      /\ filled \in Seq(Frame) /\ captured \in Seq(Kinds) /\ used \in Nat
  BY Numbers DEF FrameInv
<1>2. /\ Len(captured) < MaxFrames /\ queued > 0
      /\ captured' = Append(captured, k) /\ queued' = queued - 1
      /\ filled' = Append(filled, Len(captured'))
      /\ UNCHANGED <<minimum_size, lost, cpc, used, tmpbuffer, pos, db, buf, size, timestamp,
                     freed, pc, copy, asked, handler>>
  BY DEF Capture, cameraVars, sharedVars, outputVars
<1>3. /\ captured' \in Seq(Kinds) /\ Len(captured') = Len(captured) + 1
      /\ \A f \in 1..Len(captured) : captured'[f] = captured[f]
  BY <1>1, <1>2, AppendProperties
<1>4. Len(captured') \in Frame
  BY <1>1, <1>2, <1>3 DEF Frame
<1>5. /\ filled' \in Seq(Frame) /\ Len(filled') = Len(filled) + 1
      /\ \A i \in 1..Len(filled) : filled'[i] = filled[i]
      /\ filled'[Len(filled) + 1] = Len(captured) + 1
  BY <1>1, <1>2, <1>3, <1>4, AppendProperties
<1>6. TypeOK'
  <2>1. {used, tmpbuffer, pos, buf, size, timestamp}' \subseteq 0..Len(captured')
    <3>1. {used, tmpbuffer, pos, buf, size, timestamp} \subseteq 0..Len(captured)
      BY <1>1 DEF TypeOK
    <3>2. 0..Len(captured) \subseteq 0..Len(captured')
      BY <1>1, <1>3
    <3>3. UNCHANGED <<used, tmpbuffer, pos, buf, size, timestamp>>
      BY <1>2
    <3> HIDE FrameExchangeAssumption
    <3> QED BY <3>1, <3>2, <3>3
  <2>2. queued' \in 0..NB_BUFFER /\ Len(captured') <= MaxFrames
    BY <1>1, <1>2, <1>3 DEF TypeOK
  <2> QED BY <1>1, <1>2, <1>3, <1>5, <2>1, <2>2 DEF TypeOK
<1>7. BuffersKept'
  <2>1. queued' = queued - 1 /\ lost' = lost /\ Len(filled') = Len(filled) + 1
    BY <1>2, <1>5
  <2>2. queued \in Nat /\ lost \in Nat /\ Len(filled) \in Nat
    BY <1>1
  <2> HIDE FrameExchangeAssumption
  <2> QED BY <2>1, <2>2, <1>1 DEF BuffersKept
<1>8. FilledOK'
  <2>1. ASSUME NEW i \in 1..Len(filled') PROVE filled'[i] = used + i
    <3>1. CASE i \in 1..Len(filled)
      BY <3>1, <1>1, <1>5 DEF FilledOK
    <3>2. CASE i = Len(filled) + 1
      BY <3>2, <1>1, <1>5 DEF FilledOK
    <3> QED BY <3>1, <3>2, <1>1, <1>5
  <2>2. used' = Len(captured') - Len(filled')
    BY <1>1, <1>2, <1>3, <1>5 DEF FilledOK
  <2> QED BY <2>1, <2>2, <1>2 DEF FilledOK
<1>9. KindsKept
  BY <1>1, <1>3 DEF KindsKept
<1>10. CopyOK' /\ \A o \in Output : Taken(o)' = Taken(o)
  BY <1>2, <1>9, CopyKept, Numbers
<1>11. GlobalOK' /\ Published' = Published
  <2>1. Published' = Published
    BY <1>2 DEF Published
  <2>2. \A q \in CopyRecord : q.stamp <= Len(captured) /\ IsWhole(q) => IsWhole(q)'
    BY <1>9, WholeKept
  <2>3. IsWhole(Published)'
    BY <2>1, <2>2, PublishedIs DEF FrameInv, GlobalOK, IsWhole, Kind
  <2>4. IsEmpty(used)' = IsEmpty(used)
    <3>1. used \in 0..Len(captured)
      BY <1>1 DEF TypeOK
    <3> QED BY <1>1, <1>2, <1>3, <3>1 DEF IsEmpty, Kind
  <2>5. cpc \in {"lock", "copy"} /\ ~IsEmpty(used)' => tmpbuffer = used
    BY <2>4 DEF FrameInv, GlobalOK
  <2> QED BY <1>2, <2>1, <2>3, <2>5 DEF GlobalOK, IsEmpty, Kind
<1>12. LockOK' /\ StampOK' /\ AskedOK'
  BY <1>2 DEF FrameInv, LockOK, StampOK, AskedOK
<1> QED BY <1>6, <1>7, <1>8, <1>10, <1>11, <1>12 DEF FrameInv

\* A frame is taken from the driver: the next after the one used last.
LEMMA InvGrab ==
    ASSUME FrameInv, uvcGrab
    PROVE  FrameInv'
<1> USE FrameExchangeAssumption
<1> DEFINE f == Head(filled)
<1>1. /\ TypeOK /\ BuffersKept /\ FilledOK /\ LockOK /\ StampOK /\ GlobalOK
      /\ Len(captured) \in Nat /\ queued \in Nat /\ lost \in Nat /\ Len(filled) \in Nat
      /\ filled \in Seq(Frame) /\ used \in Nat /\ timestamp \in Nat /\ buf \in Nat
      /\ tmpbuffer \in Nat
  BY Numbers DEF FrameInv
<1>2. /\ cpc = "grab" /\ filled # <<>> /\ filled' = Tail(filled) /\ used' = f
      /\ \/ IsEmpty(f) /\ lost' = lost + 1 /\ UNCHANGED <<queued, tmpbuffer>>
         \/ ~IsEmpty(f) /\ queued' = queued + 1 /\ tmpbuffer' = f /\ UNCHANGED lost
      /\ cpc' \in {"top", "lock"}
      /\ UNCHANGED <<minimum_size, captured, pos, db, buf, size, timestamp, freed, pc, copy,
                     asked, handler>>
  BY DEF uvcGrab, sharedVars, outputVars
<1>3. PICK n \in Nat : n = Len(filled) /\ n # 0
  BY <1>1, <1>2, EmptySeq
<1>4. /\ filled' \in Seq(Frame) /\ Len(filled') = n - 1
      /\ \A i \in 1..n - 1 : filled'[i] = filled[i + 1]
      /\ f = filled[1]
  BY <1>1, <1>2, <1>3, HeadTailProperties
<1>5. f = used + 1 /\ f \in 1..Len(captured)
  <2>1. 1 \in 1..Len(filled)
    BY <1>3
  <2>2. filled[1] = used + 1 /\ used = Len(captured) - Len(filled)
    BY <2>1, <1>1 DEF FilledOK
  <2> QED BY <2>2, <1>1, <1>3, <1>4
<1>6. n + queued + lost = NB_BUFFER
  BY <1>1, <1>3 DEF BuffersKept
<1>7. TypeOK'
  <2>1. queued' \in 0..NB_BUFFER /\ lost' \in 0..NB_BUFFER
    <3>1. queued + 1 <= NB_BUFFER /\ lost + 1 <= NB_BUFFER
      BY <1>1, <1>3, <1>6
    <3>2. queued' \in {queued, queued + 1} /\ lost' \in {lost, lost + 1}
      BY <1>2
    <3>3. queued \in 0..NB_BUFFER /\ lost \in 0..NB_BUFFER
      BY <1>1 DEF TypeOK
    <3> QED BY <1>1, <3>1, <3>2, <3>3
  <2>2. tmpbuffer' \in 0..Len(captured) /\ used' \in 0..Len(captured)
    <3>1. f \in 0..Len(captured) /\ tmpbuffer \in 0..Len(captured)
      BY <1>1, <1>5 DEF TypeOK
    <3>2. used' = f /\ tmpbuffer' \in {f, tmpbuffer}
      BY <1>2
    <3> QED BY <3>1, <3>2
  <2>3. {pos, buf, size, timestamp} \subseteq 0..Len(captured)
    BY <1>1 DEF TypeOK
  <2>4. {used, tmpbuffer, pos, buf, size, timestamp}' \subseteq 0..Len(captured')
    BY <1>2, <2>2, <2>3
  <2>5. cpc' \in {"top", "grab", "lock", "copy", "size", "stamp", "unlock", "ended"}
    BY <1>2
  <2> HIDE FrameExchangeAssumption
  <2> QED BY <1>1, <1>2, <1>4, <2>1, <2>4, <2>5 DEF TypeOK
<1>8. BuffersKept'
  BY <1>1, <1>2, <1>3, <1>4, <1>6 DEF BuffersKept
<1>9. FilledOK'
  <2>1. ASSUME NEW i \in 1..Len(filled') PROVE filled'[i] = used' + i
    <3>1. i \in 1..n - 1 /\ i + 1 \in 1..n
      BY <1>3, <1>4
    <3>2. filled'[i] = used + (i + 1)
      BY <3>1, <1>1, <1>3, <1>4 DEF FilledOK
    <3>3. used' = used + 1
      BY <1>2, <1>5
    <3>4. i \in Nat /\ used \in Nat
      BY <3>1, <1>1
    <3> QED BY <3>2, <3>3, <3>4
  <2>2. used' = Len(captured') - Len(filled')
    BY <1>1, <1>2, <1>3, <1>4, <1>5 DEF FilledOK
  <2> QED BY <2>1, <2>2 DEF FilledOK
<1>10. LockOK'
  BY <1>1, <1>2 DEF LockOK
<1>11. StampOK'
  <2>1. used' = used + 1 /\ tmpbuffer' \in {tmpbuffer, used + 1}
    BY <1>2, <1>5
  <2>2. buf <= tmpbuffer /\ tmpbuffer <= used /\ timestamp <= used
    BY <1>1 DEF StampOK
  <2> QED BY <1>1, <1>2, <2>1, <2>2 DEF StampOK
<1>12. GlobalOK'
  <2>1. Published' = Published /\ captured' = captured
    BY <1>2 DEF Published
  <2>2. IsWhole(Published)'
    BY <1>1, <2>1 DEF GlobalOK, IsWhole, Kind
  <2>3. ~IsEmpty(used)' => tmpbuffer' = used'
    BY <1>2 DEF IsEmpty, Kind
  <2> QED BY <2>2, <2>3 DEF GlobalOK
<1>13. KindsKept /\ timestamp' \in Nat /\ timestamp <= timestamp'
  BY <1>1, <1>2, Numbers DEF KindsKept
<1>14. CopyOK'
  BY <1>2, <1>13, CopyKept
<1>15. AskedOK'
  BY <1>2 DEF FrameInv, AskedOK
<1> QED BY <1>7, <1>8, <1>9, <1>10, <1>11, <1>12, <1>14, <1>15 DEF FrameInv

\* What the steps of the camera thread on the global buffer leave alone.
CameraFrame ==
    UNCHANGED <<minimum_size, captured, queued, filled, lost, used, tmpbuffer, copy, asked,
                handler>>

LEMMA CameraKeeps ==
    ASSUME FrameInv, CameraFrame
    PROVE  BuffersKept' /\ FilledOK' /\ KindsKept
BY Numbers DEF FrameInv, CameraFrame, BuffersKept, FilledOK, KindsKept

LEMMA InvTopLeave ==
    ASSUME FrameInv, Top \/ Leave
    PROVE  FrameInv' /\ Published' = Published
<1>1. /\ cpc = "top" /\ cpc' \in {"grab", "ended"} /\ freed' \in BOOLEAN /\ CameraFrame
      /\ UNCHANGED <<pos, db, buf, size, timestamp, pc>>
  BY DEF Top, Leave, CameraFrame, driverVars, sharedVars, outputVars, FrameInv, TypeOK
<1>2. TypeOK'
  BY <1>1 DEF FrameInv, TypeOK, CameraFrame
<1>3. LockOK' /\ StampOK' /\ AskedOK'
  BY <1>1 DEF FrameInv, LockOK, StampOK, AskedOK, CameraFrame
<1>4. Published' = Published
  BY <1>1 DEF Published, CameraFrame
<1>5. GlobalOK'
  BY <1>1, <1>4, GlobalKept DEF CameraFrame
<1>6. CopyOK'
  BY <1>1, CameraKeeps, CopyKept, Numbers DEF CameraFrame
<1> QED BY <1>1, <1>2, <1>3, <1>4, <1>5, <1>6, CameraKeeps DEF FrameInv

LEMMA InvLock ==
    ASSUME FrameInv, Lock
    PROVE  FrameInv' /\ Published' = Published
<1>1. /\ cpc = "lock" /\ cpc' = "copy" /\ db = Nobody /\ db' = Camera /\ CameraFrame
      /\ UNCHANGED <<pos, buf, size, timestamp, freed, pc>>
  BY DEF Lock, CameraFrame, driverVars, sharedVars, outputVars
<1>2. TypeOK'
  BY <1>1 DEF FrameInv, TypeOK, CameraFrame
<1>3. LockOK'
  <2>1. \A o \in Output : o # Nobody
    BY FrameExchangeAssumption
  <2> QED BY <1>1, <2>1 DEF FrameInv, LockOK
<1>4. Published' = Published
  BY <1>1 DEF Published, CameraFrame
<1>5. GlobalOK'
  BY <1>1, <1>4, GlobalKept DEF CameraFrame
<1>6. CopyOK'
  BY <1>1, CameraKeeps, CopyKept, Numbers DEF CameraFrame
<1>7. StampOK' /\ AskedOK'
  BY <1>1 DEF FrameInv, StampOK, AskedOK, CameraFrame
<1> QED BY <1>1, <1>2, <1>3, <1>5, <1>6, <1>7, <1>4, CameraKeeps DEF FrameInv

\* While the camera thread holds db no output copies.
LEMMA NobodyCopies ==
    ASSUME FrameInv, cpc \in {"copy", "size", "stamp", "unlock"}
    PROVE  db = Camera /\ \A o \in Output : pc[o] \notin {"size", "copy"}
<1>1. \A o \in Output : o # Camera
  BY FrameExchangeAssumption
<1> QED BY <1>1 DEF FrameInv, LockOK

\* What memcpy_picture stores, and the size it returns, make one publication.
LEMMA StoresPicture ==
    ASSUME FrameInv, memcpy_picture
    PROVE  /\ cpc = "copy" /\ cpc' = "size" /\ CameraFrame
           /\ UNCHANGED <<db, size, timestamp, freed, pc>>
           /\ \/ buf' = tmpbuffer /\ pos' = used
              \/ buf' = buf /\ pos' = 0
           /\ Published' = [bytes |-> buf', size |-> pos', stamp |-> used]
           /\ IsWhole(Published)'
<1>1. /\ cpc = "copy" /\ cpc' = "size" /\ CameraFrame
      /\ UNCHANGED <<db, size, timestamp, freed, pc>>
      /\ \/ Kind(tmpbuffer) # "broken" /\ buf' = tmpbuffer /\ pos' = used
         \/ (Kind(tmpbuffer) = "broken" \/ IsEmpty(used)) /\ buf' = buf /\ pos' = 0
  BY DEF memcpy_picture, CameraFrame, driverVars, outputVars
<1>2. Published' = [bytes |-> buf', size |-> pos', stamp |-> used]
  BY <1>1 DEF Published, CameraFrame
<1>3. /\ buf <= tmpbuffer /\ tmpbuffer <= used /\ used \in Nat /\ buf \in Nat
      /\ tmpbuffer \in Nat
  BY Numbers DEF FrameInv, StampOK
<1>4. ~IsEmpty(used) => tmpbuffer = used
  BY <1>1 DEF FrameInv, GlobalOK
<1>5. captured' = captured
  BY <1>1 DEF CameraFrame
<1>6. buf' <= used /\ pos' \in {0, used}
  BY <1>1, <1>3
<1>7. Kind(used) \in {"picture", "small"} => buf' = used /\ pos' = used
  <2>1. Kind(used) \in {"picture", "small"} => ~IsEmpty(used) /\ Kind(used) # "broken"
    BY DEF IsEmpty
  <2> QED BY <2>1, <1>1, <1>4
<1>8. Kind(used) = "broken" => pos' = 0
  <2>1. Kind(used) = "broken" => ~IsEmpty(used)
    BY DEF IsEmpty
  <2> QED BY <2>1, <1>1, <1>4
<1>9. IsWhole(Published)'
  BY <1>2, <1>5, <1>6, <1>7, <1>8 DEF IsWhole, Kind
<1> QED BY <1>1, <1>2, <1>9

LEMMA InvStores ==
    ASSUME FrameInv, memcpy_picture \/ SetSize
    PROVE  FrameInv'
<1>1. /\ CameraFrame /\ UNCHANGED <<db, timestamp, freed, pc>>
      /\ \/ /\ cpc = "copy" /\ cpc' = "size" /\ size' = size
            /\ buf' \in {tmpbuffer, buf} /\ pos' \in {used, 0} /\ IsWhole(Published)'
         \/ /\ cpc = "size" /\ cpc' = "stamp" /\ size' = pos /\ buf' = buf /\ pos' = pos
            /\ Published' = Published
  <2>1. CASE memcpy_picture
    BY <2>1, StoresPicture
  <2>2. CASE SetSize
    BY <2>2 DEF SetSize, CameraFrame, driverVars, outputVars, Published
  <2> QED BY <2>1, <2>2
<1>2. TypeOK'
  <2>1. {used, tmpbuffer, pos, buf, size, timestamp, 0} \subseteq 0..Len(captured)
    BY Numbers DEF FrameInv, TypeOK
  <2>2. {used', tmpbuffer', pos', buf', size', timestamp'} \subseteq 0..Len(captured)
    BY <1>1, <2>1 DEF CameraFrame
  <2>3. cpc' \in {"top", "grab", "lock", "copy", "size", "stamp", "unlock", "ended"}
    BY <1>1
  <2> QED BY <1>1, <2>2, <2>3 DEF FrameInv, TypeOK, CameraFrame
<1>3. LockOK' /\ AskedOK'
  BY <1>1 DEF FrameInv, LockOK, AskedOK, CameraFrame
<1>4. StampOK'
  <2>1. buf' <= tmpbuffer
    BY <1>1, Numbers DEF FrameInv, StampOK
  <2> QED BY <1>1, <2>1 DEF FrameInv, StampOK, CameraFrame
<1>5. GlobalOK'
  <2>1. CASE IsWhole(Published)'
    BY <1>1, <2>1 DEF GlobalOK
  <2>2. CASE Published' = Published
    BY <1>1, <2>2, GlobalKept DEF CameraFrame
  <2> QED BY <1>1, <2>1, <2>2
<1>6. CopyOK'
  BY <1>1, NobodyCopies, CameraKeeps, CopyKept, Numbers DEF CameraFrame
<1> QED BY <1>1, <1>2, <1>3, <1>4, <1>5, <1>6, CameraKeeps DEF FrameInv

LEMMA InvBroadcast ==
    ASSUME FrameInv, Broadcast
    PROVE  FrameInv' /\ Published' = Published
<1>1. /\ cpc = "stamp" /\ cpc' = "unlock" /\ timestamp' = used /\ CameraFrame
      /\ pc' = [o \in Output |-> IF pc[o] = "waiting" THEN "woken" ELSE pc[o]]
      /\ UNCHANGED <<pos, db, buf, size, freed>>
  BY DEF Broadcast, CameraFrame, driverVars
<1>2. TypeOK'
  <2>1. pc' \in [Output -> {"busy", "waiting", "woken", "size", "copy", "ended"}]
    BY <1>1 DEF FrameInv, TypeOK
  <2>2. {used', tmpbuffer', pos', buf', size', timestamp'} \subseteq 0..Len(captured)
    BY <1>1 DEF FrameInv, TypeOK, CameraFrame
  <2> QED BY <1>1, <2>1, <2>2 DEF FrameInv, TypeOK, CameraFrame
<1>3. \A o \in Output : pc[o] \notin {"size", "copy"} /\ pc'[o] \notin {"size", "copy"}
  BY <1>1, NobodyCopies
<1>4. timestamp < timestamp' /\ timestamp' = used'
  BY <1>1 DEF FrameInv, StampOK, CameraFrame
<1>5. timestamp \in Nat /\ timestamp' \in Nat /\ \A o \in Output : asked[o] \in Nat
  BY <1>1, Numbers
<1>6. LockOK'
  BY <1>1, <1>3 DEF FrameInv, LockOK
<1>7. StampOK'
  BY <1>1, <1>4, <1>5 DEF FrameInv, StampOK, CameraFrame
<1>8. AskedOK'
  BY <1>1, <1>4, <1>5 DEF FrameInv, AskedOK, CameraFrame
<1>9. Published' = Published
  BY <1>1 DEF Published, CameraFrame
<1>10. GlobalOK'
  BY <1>1, <1>9, GlobalKept DEF CameraFrame
<1>11. CopyOK'
  <2>1. \A o \in Output : pc'[o] \in {"waiting", "woken", "size"} =>
                              pc[o] \in {"waiting", "woken", "size"}
    BY <1>1
  <2> QED BY <1>1, <1>3, <1>4, <1>5, <2>1, CameraKeeps, CopyKept DEF CameraFrame
<1> QED BY <1>1, <1>2, <1>6, <1>7, <1>8, <1>9, <1>10, <1>11, CameraKeeps DEF FrameInv

LEMMA InvUnlock ==
    ASSUME FrameInv, Unlock
    PROVE  FrameInv' /\ Published' = Published
<1>1. /\ cpc = "unlock" /\ cpc' = "top" /\ db' = Nobody /\ CameraFrame
      /\ UNCHANGED <<pos, buf, size, timestamp, freed, pc>>
  BY DEF Unlock, CameraFrame, driverVars, sharedVars, outputVars
<1>2. TypeOK'
  BY <1>1 DEF FrameInv, TypeOK, CameraFrame
<1>3. LockOK'
  BY <1>1, NobodyCopies DEF LockOK
<1>4. Published' = Published
  BY <1>1 DEF Published, CameraFrame
<1>5. GlobalOK'
  BY <1>1, <1>4, GlobalKept DEF CameraFrame
<1>6. CopyOK'
  BY <1>1, CameraKeeps, CopyKept, Numbers DEF CameraFrame
<1>7. StampOK' /\ AskedOK'
  BY <1>1 DEF FrameInv, StampOK, AskedOK, CameraFrame
<1> QED BY <1>1, <1>2, <1>3, <1>4, <1>5, <1>6, <1>7, CameraKeeps DEF FrameInv

----------------------------------------------------------------------------
(* The outputs *)

PcStates == {"busy", "waiting", "woken", "size", "copy", "ended"}

\* What the steps of an output leave alone.
OutputFrame ==
    UNCHANGED <<minimum_size, captured, queued, filled, lost, cpc, used, tmpbuffer, pos, buf,
                size, timestamp, freed, handler>>

\* What a step of output o does to db: it leaves it, takes it, or gives it back.
DbStep(o, s) ==
    \/ db' = db /\ (s \in {"size", "copy"} => db = o)
    \/ db = Nobody /\ db' = o
    \/ db = o /\ db' = Nobody /\ s \notin {"size", "copy"}

LEMMA OutputKeeps ==
    ASSUME FrameInv, NEW o \in Output, NEW s \in PcStates, OutputFrame,
           pc' = [pc EXCEPT ![o] = s], DbStep(o, s)
    PROVE  /\ BuffersKept' /\ FilledOK' /\ LockOK' /\ StampOK' /\ GlobalOK' /\ KindsKept
           /\ Published' = Published
           /\ pc' \in [Output -> PcStates] /\ db' \in Output \cup {Camera, Nobody}
           /\ \A p \in Output : pc'[p] = IF p = o THEN s ELSE pc[p]
<1>1. BuffersKept' /\ FilledOK' /\ StampOK' /\ KindsKept
  BY Numbers DEF FrameInv, OutputFrame, BuffersKept, FilledOK, StampOK, KindsKept
<1>2. pc \in [Output -> PcStates]
  BY DEF FrameInv, TypeOK, PcStates
<1>3. pc' \in [Output -> PcStates] /\ \A p \in Output : pc'[p] = IF p = o THEN s ELSE pc[p]
  BY <1>2
<1>4. db' \in Output \cup {Camera, Nobody}
  BY DEF FrameInv, TypeOK, DbStep
<1>5. o # Camera /\ o # Nobody /\ Camera # Nobody /\ \A p \in Output : p # Nobody
  BY FrameExchangeAssumption DEF Camera, Nobody
<1>6. LockOK'
  <2>1. cpc' = cpc
    BY DEF OutputFrame
  <2>2. CASE db' = db /\ (s \in {"size", "copy"} => db = o)
    BY <2>1, <2>2, <1>3 DEF FrameInv, LockOK
  <2>3. CASE db = Nobody /\ db' = o
    BY <2>1, <2>3, <1>3, <1>5 DEF FrameInv, LockOK
  <2>4. CASE db = o /\ db' = Nobody /\ s \notin {"size", "copy"}
    BY <2>1, <2>4, <1>3, <1>5 DEF FrameInv, LockOK
  <2> QED BY <2>2, <2>3, <2>4 DEF DbStep
<1>7. Published' = Published
  BY DEF Published, OutputFrame
<1>8. GlobalOK'
  BY <1>7, GlobalKept DEF OutputFrame
<1> QED BY <1>1, <1>3, <1>4, <1>6, <1>7, <1>8

\* The output leaves, or goes on from being woken to its copy.
PlainMove(o, s) ==
    \/ s \in {"busy", "ended"} /\ pc[o] # "copy"
    \/ s = "size" /\ pc[o] = "woken"

\* A step that neither copies nor asks: what it leaves of FrameInv to show.
LEMMA PlainStep ==
    ASSUME FrameInv, NEW o \in Output, NEW s \in PcStates, OutputFrame,
           pc' = [pc EXCEPT ![o] = s], DbStep(o, s), PlainMove(o, s),
           UNCHANGED <<copy, asked>>
    PROVE  FrameInv' /\ Published' = Published /\ \A p \in Output : Taken(p)' = Taken(p)
<1>1. /\ BuffersKept' /\ FilledOK' /\ LockOK' /\ StampOK' /\ GlobalOK' /\ KindsKept
      /\ Published' = Published
      /\ pc' \in [Output -> PcStates] /\ db' \in Output \cup {Camera, Nobody}
      /\ \A p \in Output : pc'[p] = IF p = o THEN s ELSE pc[p]
  BY OutputKeeps
<1>2. TypeOK'
  BY <1>1 DEF FrameInv, TypeOK, OutputFrame, PcStates
<1>3. AskedOK'
  BY <1>1 DEF FrameInv, AskedOK, OutputFrame, PlainMove
<1>4. CopyOK' /\ \A p \in Output : Taken(p)' = Taken(p)
  <2>1. /\ timestamp' = timestamp /\ size' = size /\ buf' = buf
        /\ timestamp \in Nat /\ timestamp <= timestamp'
    BY Numbers DEF OutputFrame
  <2>2. ASSUME NEW p \in Output
        PROVE  /\ pc[p] = "copy" <=> pc'[p] = "copy"
               /\ pc'[p] \in {"waiting", "woken", "size"} =>
                      pc[p] \in {"waiting", "woken", "size"}
    BY <1>1 DEF PlainMove
  <2> QED BY <1>1, <2>1, <2>2, CopyKept
<1> QED BY <1>1, <1>2, <1>3, <1>4 DEF FrameInv

LEMMA InvPlain ==
    ASSUME FrameInv, NEW o \in Output,
           Wake(o) \/ NoMemory(o) \/ Close(o) \/ CancelWaiting(o) \/ CancelBusy(o)
    PROVE  FrameInv' /\ Published' = Published /\ \A p \in Output : Taken(p)' = Taken(p)
<1>1. OutputFrame /\ UNCHANGED <<copy, asked>>
  BY DEF Wake, NoMemory, Close, CancelWaiting, CancelBusy, OutputFrame, driverVars,
         cameraVars, sharedVars, outputVars
<1>2. "ended" \in PcStates /\ "size" \in PcStates
  BY DEF PcStates
<1>3. pc[o] = "size" => db = o
  BY DEF FrameInv, LockOK
<1>4. CASE Wake(o)
  <2>1. pc' = [pc EXCEPT ![o] = "size"] /\ DbStep(o, "size") /\ PlainMove(o, "size")
    BY <1>4 DEF Wake, DbStep, PlainMove
  <2> QED BY <1>1, <1>2, <2>1, PlainStep
<1>5. CASE NoMemory(o) \/ Close(o) \/ CancelWaiting(o) \/ CancelBusy(o)
  <2>1. pc' = [pc EXCEPT ![o] = "ended"] /\ pc[o] # "copy"
    BY <1>5 DEF NoMemory, Close, CancelWaiting, CancelBusy
  <2>2. DbStep(o, "ended")
    <3>1. CASE NoMemory(o)
      BY <1>3, <3>1 DEF NoMemory, DbStep
    <3>2. CASE Close(o)
      BY <3>2 DEF Close, DbStep
    <3>3. CASE CancelBusy(o)
      BY <3>3 DEF CancelBusy, DbStep
    <3>4. CASE CancelWaiting(o)
      BY <3>4 DEF CancelWaiting, DbStep
    <3> QED BY <1>5, <3>1, <3>2, <3>3, <3>4
  <2>3. PlainMove(o, "ended")
    BY <2>1 DEF PlainMove
  <2> QED BY <1>1, <1>2, <2>1, <2>2, <2>3, PlainStep
<1> QED BY <1>4, <1>5

LEMMA InvAwait ==
    ASSUME FrameInv, NEW o \in Output, Await(o)
    PROVE  FrameInv' /\ Published' = Published /\ \A p \in Output : Taken(p)' = Taken(p)
<1>1. /\ pc[o] = "busy" /\ pc' = [pc EXCEPT ![o] = "waiting"] /\ db' = db
      /\ asked' = [asked EXCEPT ![o] = timestamp] /\ copy' = copy /\ OutputFrame
  BY DEF Await, OutputFrame, driverVars, cameraVars, sharedVars
<1>2. /\ BuffersKept' /\ FilledOK' /\ LockOK' /\ StampOK' /\ GlobalOK' /\ KindsKept
      /\ Published' = Published
      /\ pc' \in [Output -> PcStates] /\ db' \in Output \cup {Camera, Nobody}
      /\ \A p \in Output : pc'[p] = IF p = o THEN "waiting" ELSE pc[p]
  <2>1. "waiting" \in PcStates /\ DbStep(o, "waiting")
    BY <1>1 DEF PcStates, DbStep
  <2> QED BY <1>1, <2>1, OutputKeeps
<1>3. /\ asked' \in [Output -> 0..MaxFrames] /\ timestamp \in Nat
      /\ \A p \in Output : asked'[p] = IF p = o THEN timestamp ELSE asked[p]
  <2>1. timestamp \in 0..Len(captured)
    BY DEF FrameInv, TypeOK
  <2>2. timestamp \in 0..MaxFrames /\ timestamp \in Nat
    BY <2>1, Numbers
  <2>3. asked \in [Output -> 0..MaxFrames]
    BY DEF FrameInv, TypeOK
  <2> QED BY <1>1, <2>2, <2>3
<1>4. TypeOK'
  BY <1>1, <1>2, <1>3 DEF FrameInv, TypeOK, OutputFrame, PcStates
<1>5. AskedOK'
  BY <1>1, <1>2, <1>3 DEF FrameInv, AskedOK, OutputFrame
<1>6. \A p \in Output : Taken(p)' = Taken(p)
  BY <1>1, <1>2 DEF Taken, OutputFrame
<1>7. CopyOK'
  <2>1. \A p \in Output : IsWhole(Taken(p))'
    BY <1>2, <1>6, TakenKept
  <2> QED BY <1>1, <1>2, <1>3, <2>1 DEF FrameInv, CopyOK, OutputFrame
<1> QED BY <1>2, <1>4, <1>5, <1>6, <1>7 DEF FrameInv

\* The output that copies holds db: nothing is on its way to the global buffer.
LEMMA GlobalWhole ==
    ASSUME FrameInv, NEW o \in Output, pc[o] \in {"size", "copy"}
    PROVE  /\ db = o /\ cpc \notin {"copy", "size", "stamp", "unlock"}
           /\ Published = [bytes |-> buf, size |-> size, stamp |-> timestamp]
<1>1. db = o /\ o # Camera
  BY FrameExchangeAssumption DEF FrameInv, LockOK
<1>2. cpc \notin {"copy", "size", "stamp", "unlock"}
  BY <1>1 DEF FrameInv, LockOK
<1> QED BY <1>1, <1>2 DEF Published

LEMMA InvReadSize ==
    ASSUME FrameInv, NEW o \in Output, ReadSize(o)
    PROVE  /\ FrameInv' /\ Published' = Published /\ Taken(o)' = Published
           /\ \A p \in Output \ {o} : Taken(p)' = Taken(p)
<1>1. /\ pc[o] = "size" /\ pc' = [pc EXCEPT ![o] = "copy"] /\ db' = db
      /\ copy' = [copy EXCEPT ![o].size = size, ![o].stamp = timestamp]
      /\ asked' = asked /\ OutputFrame
  BY DEF ReadSize, OutputFrame, driverVars, cameraVars, sharedVars
<1>2. /\ BuffersKept' /\ FilledOK' /\ LockOK' /\ StampOK' /\ GlobalOK' /\ KindsKept
      /\ Published' = Published
      /\ pc' \in [Output -> PcStates] /\ db' \in Output \cup {Camera, Nobody}
      /\ \A p \in Output : pc'[p] = IF p = o THEN "copy" ELSE pc[p]
  <2>1. "copy" \in PcStates /\ DbStep(o, "copy")
    BY <1>1 DEF PcStates, DbStep, FrameInv, LockOK
  <2> QED BY <1>1, <2>1, OutputKeeps
<1>3. copy \in [Output -> CopyRecord] /\ copy[o] \in CopyRecord
  BY DEF FrameInv, TypeOK, CopyRecord
<1>4. {size, timestamp} \subseteq 0..MaxFrames
  <2>1. {size, timestamp} \subseteq 0..Len(captured)
    BY DEF FrameInv, TypeOK
  <2> QED BY <2>1, Numbers
<1>5. /\ copy' \in [Output -> CopyRecord]
      /\ \A p \in Output : p # o => copy'[p] = copy[p]
      /\ copy'[o] = [bytes |-> copy[o].bytes, size |-> size, stamp |-> timestamp]
  BY <1>1, <1>3, <1>4 DEF CopyRecord
<1>6. TypeOK'
  BY <1>1, <1>2, <1>5 DEF FrameInv, TypeOK, OutputFrame, PcStates, CopyRecord
<1>7. AskedOK'
  BY <1>1, <1>2 DEF FrameInv, AskedOK, OutputFrame
<1>8. /\ Taken(o)' = [bytes |-> buf, size |-> size, stamp |-> timestamp]
      /\ \A p \in Output \ {o} : Taken(p)' = Taken(p)
  BY <1>1, <1>2, <1>5 DEF Taken, OutputFrame
<1>9. Taken(o)' = Published
  BY <1>1, <1>8, GlobalWhole
<1>10. CopyOK'
  <2>1. \A p \in Output \ {o} : IsWhole(Taken(p))'
    BY <1>2, <1>8, TakenKept
  <2>2. IsWhole(Taken(o))'
    <3>1. IsWhole(Published)'
      BY <1>2 DEF GlobalOK
    <3> QED BY <3>1, <1>2, <1>9 DEF IsWhole, Kind
  <2>3. timestamp \in Nat
    BY Numbers
  <2> QED BY <1>1, <1>2, <1>5, <2>1, <2>2, <2>3 DEF FrameInv, CopyOK, OutputFrame
<1> QED BY <1>2, <1>6, <1>7, <1>8, <1>9, <1>10 DEF FrameInv

LEMMA InvCopyFrame ==
    ASSUME FrameInv, NEW o \in Output, CopyFrame(o)
    PROVE  FrameInv' /\ Published' = Published /\ \A p \in Output : Taken(p)' = Taken(p)
<1>1. /\ pc[o] = "copy" /\ pc' = [pc EXCEPT ![o] = "busy"] /\ db' = Nobody
      /\ copy' = [copy EXCEPT ![o].bytes = buf] /\ asked' = asked /\ OutputFrame
  BY DEF CopyFrame, OutputFrame, driverVars, cameraVars, sharedVars
<1>2. db = o
  BY <1>1, GlobalWhole
<1>3. /\ BuffersKept' /\ FilledOK' /\ LockOK' /\ StampOK' /\ GlobalOK' /\ KindsKept
      /\ Published' = Published
      /\ pc' \in [Output -> PcStates] /\ db' \in Output \cup {Camera, Nobody}
      /\ \A p \in Output : pc'[p] = IF p = o THEN "busy" ELSE pc[p]
  <2>1. "busy" \in PcStates /\ DbStep(o, "busy")
    BY <1>1, <1>2 DEF PcStates, DbStep
  <2> QED BY <1>1, <2>1, OutputKeeps
<1>4. /\ copy \in [Output -> CopyRecord] /\ copy[o] \in CopyRecord /\ buf \in 0..MaxFrames
  <2>1. buf \in 0..Len(captured)
    BY DEF FrameInv, TypeOK
  <2>2. buf \in 0..MaxFrames
    BY <2>1, Numbers
  <2>3. copy \in [Output -> CopyRecord]
    BY DEF FrameInv, TypeOK, CopyRecord
  <2> QED BY <2>2, <2>3
<1>5. /\ copy' \in [Output -> CopyRecord]
      /\ \A p \in Output : p # o => copy'[p] = copy[p]
      /\ copy'[o] = [bytes |-> buf, size |-> copy[o].size, stamp |-> copy[o].stamp]
  BY <1>1, <1>4 DEF CopyRecord
<1>6. TypeOK'
  BY <1>1, <1>3, <1>5 DEF FrameInv, TypeOK, OutputFrame, PcStates, CopyRecord
<1>7. AskedOK'
  BY <1>1, <1>3 DEF FrameInv, AskedOK, OutputFrame
<1>8. \A p \in Output : Taken(p)' = Taken(p)
  <2>1. Taken(o) = [bytes |-> buf, size |-> copy[o].size, stamp |-> copy[o].stamp]
    BY <1>1, <1>4 DEF Taken, CopyRecord
  <2>2. Taken(o)' = Taken(o)
    BY <2>1, <1>3, <1>5 DEF Taken
  <2>3. \A p \in Output : p # o => Taken(p)' = Taken(p)
    BY <1>1, <1>3, <1>5 DEF Taken, OutputFrame
  <2> QED BY <2>2, <2>3
<1>9. CopyOK'
  <2>1. \A p \in Output : IsWhole(Taken(p))'
    BY <1>3, <1>8, TakenKept
  <2>2. ASSUME NEW p \in Output
        PROVE  /\ pc'[p] = "copy" => pc[p] = "copy"
               /\ pc'[p] \in {"waiting", "woken", "size"} =>
                      pc[p] \in {"waiting", "woken", "size"}
               /\ copy'[p].size = copy[p].size /\ copy'[p].stamp = copy[p].stamp
    BY <1>3, <1>5
  <2>3. asked' = asked /\ size' = size /\ timestamp' = timestamp
    BY <1>1 DEF OutputFrame
  <2> QED BY <2>1, <2>2, <2>3 DEF FrameInv, CopyOK
<1> QED BY <1>3, <1>6, <1>7, <1>8, <1>9 DEF FrameInv

LEMMA InvConnect ==
    ASSUME FrameInv, NEW o \in Output, Connect(o)
    PROVE  /\ FrameInv' /\ Published' = Published /\ Taken(o)' = NoFrame
           /\ \A p \in Output \ {o} : Taken(p)' = Taken(p)
<1>1. /\ pc[o] = "ended" /\ pc' = [pc EXCEPT ![o] = "busy"] /\ db' = db
      /\ copy' = [copy EXCEPT ![o] = NoFrame] /\ asked' = [asked EXCEPT ![o] = 0]
      /\ OutputFrame
  BY DEF Connect, OutputFrame, driverVars, cameraVars, sharedVars
<1>2. /\ BuffersKept' /\ FilledOK' /\ LockOK' /\ StampOK' /\ GlobalOK' /\ KindsKept
      /\ Published' = Published
      /\ pc' \in [Output -> PcStates] /\ db' \in Output \cup {Camera, Nobody}
      /\ \A p \in Output : pc'[p] = IF p = o THEN "busy" ELSE pc[p]
  <2>1. "busy" \in PcStates /\ DbStep(o, "busy")
    BY <1>1 DEF PcStates, DbStep
  <2> QED BY <1>1, <2>1, OutputKeeps
<1>3. /\ 0 \in 0..MaxFrames /\ timestamp \in Nat
      /\ NoFrame \in [bytes : 0..MaxFrames, size : 0..MaxFrames, stamp : 0..MaxFrames]
  BY FrameExchangeAssumption, Numbers DEF NoFrame
<1>4. /\ copy' \in [Output -> [bytes : 0..MaxFrames, size : 0..MaxFrames,
                               stamp : 0..MaxFrames]]
      /\ \A p \in Output : copy'[p] = IF p = o THEN NoFrame ELSE copy[p]
      /\ asked' \in [Output -> 0..MaxFrames]
      /\ \A p \in Output : asked'[p] = IF p = o THEN 0 ELSE asked[p]
  BY <1>1, <1>3 DEF FrameInv, TypeOK
<1>5. TypeOK'
  BY <1>1, <1>2, <1>4 DEF FrameInv, TypeOK, OutputFrame, PcStates
<1>6. AskedOK'
  BY <1>1, <1>2, <1>3, <1>4 DEF FrameInv, AskedOK, OutputFrame
<1>7. Taken(o)' = NoFrame /\ \A p \in Output \ {o} : Taken(p)' = Taken(p)
  BY <1>1, <1>2, <1>4 DEF Taken, OutputFrame
<1>8. CopyOK'
  <2>1. NoFrame.bytes = 0 /\ NoFrame.size = 0 /\ NoFrame.stamp = 0
    BY DEF NoFrame
  <2>2. \A p \in Output \ {o} : IsWhole(Taken(p))'
    BY <1>2, <1>7, TakenKept
  <2>3. IsWhole(Taken(o))'
    BY <1>7, <2>1 DEF IsWhole, Kind
  <2> QED BY <1>1, <1>2, <1>3, <1>4, <2>1, <2>2, <2>3 DEF FrameInv, CopyOK, OutputFrame
<1> QED BY <1>2, <1>5, <1>6, <1>7, <1>8 DEF FrameInv

----------------------------------------------------------------------------
(* The specification *)

LEMMA InvOther ==
    ASSUME FrameInv, Interrupt \/ StopPlugins \/ Destroy \/ UNCHANGED vars
    PROVE  FrameInv' /\ Published' = Published /\ \A p \in Output : Taken(p)' = Taken(p)
<1>1. /\ UNCHANGED <<minimum_size, captured, queued, filled, lost, cpc, used, tmpbuffer, pos,
                     db, buf, size, timestamp, freed, pc, copy, asked>>
      /\ handler' \in {"waiting", "stopping", "cancelling", "destroyed"}
  BY DEF Interrupt, StopPlugins, Destroy, vars, driverVars, cameraVars, sharedVars,
         outputVars, FrameInv, TypeOK
<1>2. TypeOK'
  BY <1>1 DEF FrameInv, TypeOK
<1>3. Published' = Published /\ KindsKept
  BY <1>1, Numbers DEF Published, KindsKept
<1>4. GlobalOK'
  BY <1>1, <1>3, GlobalKept
<1>5. CopyOK' /\ \A p \in Output : Taken(p)' = Taken(p)
  BY <1>1, <1>3, CopyKept, Numbers
<1> QED BY <1>1, <1>2, <1>3, <1>4, <1>5
        DEF FrameInv, BuffersKept, FilledOK, LockOK, StampOK, AskedOK

LEMMA InvNext ==
    ASSUME FrameInv, [Next]_vars
    PROVE  FrameInv'
<1>1. CASE UNCHANGED vars
  BY <1>1, InvOther
<1>2. CASE Step
  <2>1. CASE \E k \in Kinds : Capture(k)
    BY <2>1, InvCapture
  <2>2. CASE CameraStep
    BY <2>2, InvTopLeave, InvGrab, InvLock, InvStores, InvBroadcast, InvUnlock
    DEF CameraStep
  <2>3. ASSUME NEW o \in Output,
               \/ Await(o) \/ Take(o) \/ NoMemory(o) \/ Close(o) \/ Connect(o)
               \/ CancelWaiting(o) \/ CancelBusy(o)
        PROVE  FrameInv'
    BY <2>3, InvAwait, InvPlain, InvReadSize, InvCopyFrame, InvConnect DEF Take
  <2>4. CASE Interrupt \/ StopPlugins \/ Destroy
    BY <2>4, InvOther
  <2> QED BY <1>2, <2>1, <2>2, <2>3, <2>4 DEF Step
<1> QED BY <1>1, <1>2 DEF Next

\* FrameInv is an invariant: the global buffer is written and read by who holds db,
\* and what is on its way there is newer than what is there (input_uvc.c, cam_thread).
THEOREM InvariantHolds == Spec => []FrameInv
<1>1. Init => FrameInv
  BY InitInv
<1>2. FrameInv /\ [Next]_vars => FrameInv'
  BY InvNext
<1> QED BY <1>1, <1>2, PTL DEF Spec

\* No frame is torn: bytes, size and time stamp of what an output has taken come from
\* one publication, and of a picture from one capture (httpd.c, send_snapshot and
\* send_stream); and it is "a fresh frame" (httpd.c:311), although pthread_cond_wait has
\* no predicate.
THEOREM FramesAreWholeAndFresh == Spec => []WholeAndFresh
<1>1. FrameInv => WholeFrame
  <2> SUFFICES ASSUME FrameInv, NEW o \in Output, pc[o] = "busy" PROVE IsWhole(copy[o])
    BY DEF WholeFrame
  <2>1. Taken(o) = copy[o]
    BY DEF Taken
  <2>2. IsWhole(Taken(o))
    BY DEF FrameInv, CopyOK
  <2> QED BY <2>1, <2>2
<1>2. FrameInv => Fresh
  BY Numbers DEF FrameInv, AskedOK, Fresh
<1>3. FrameInv => WholeAndFresh
  BY <1>1, <1>2 DEF WholeAndFresh
<1> QED BY <1>3, InvariantHolds, PTL

\* The driver and the camera thread lose a buffer only with an empty frame
\* (v4l2uvc.c, uvcGrab).
THEOREM BuffersAreKept == Spec => []BuffersKept
<1>1. FrameInv => BuffersKept
  BY DEF FrameInv
<1> QED BY <1>1, InvariantHolds, PTL

----------------------------------------------------------------------------
(* The refinement *)

TakenBy == [o \in Output |-> Taken(o)]
Status == [o \in Output |-> Wanting(o)]

\* A step that publishes nothing and changes nobody's status is invisible to the outputs.
LEMMA Invisible ==
    ASSUME Published' = Published, \A o \in Output : Taken(o)' = Taken(o),
           \A o \in Output : Wanting(o)' = Wanting(o)
    PROVE  UNCHANGED Feed!feedVars
<1>1. TakenBy' = TakenBy /\ Status' = Status
  BY DEF TakenBy, Status
<1> QED BY <1>1 DEF Feed!feedVars, TakenBy, Status

\* How the step of one output changes its status.
LEMMA StatusStep ==
    ASSUME FrameInv, NEW o \in Output, NEW s \in PcStates, pc' = [pc EXCEPT ![o] = s]
    PROVE  /\ \A p \in Output \ {o} : Wanting(p)' = Wanting(p)
           /\ Wanting(o)' = CASE s \in {"busy", "copy"} -> "busy"
                              [] s = "ended" -> "gone"
                              [] OTHER -> "wanting"
           /\ Status' = [Status EXCEPT ![o] = Wanting(o)']
<1>1. pc \in [Output -> PcStates]
  BY DEF FrameInv, TypeOK, PcStates
<1>2. pc'[o] = s /\ \A p \in Output \ {o} : pc'[p] = pc[p]
  BY <1>1
<1>3. Wanting(o)' = CASE s \in {"busy", "copy"} -> "busy"
                      [] s = "ended" -> "gone"
                      [] OTHER -> "wanting"
  BY <1>2 DEF Wanting
<1>4. \A p \in Output \ {o} : Wanting(p)' = Wanting(p)
  BY <1>2 DEF Wanting
<1>5. Status' = [Status EXCEPT ![o] = Wanting(o)']
  BY <1>4 DEF Status
<1> QED BY <1>3, <1>4, <1>5

\* An output asks, goes or comes back.
LEMMA FeedMoves ==
    ASSUME FrameInv, NEW o \in Output,
           \/ Await(o) \/ NoMemory(o) \/ Close(o) \/ Connect(o) \/ CancelWaiting(o)
           \/ CancelBusy(o)
    PROVE  Feed!Next
<1>1. Published' = Published
  BY InvAwait, InvPlain, InvConnect
<1>2. {"waiting", "ended", "busy"} \subseteq PcStates
  BY DEF PcStates
<1>3. Status[o] = Wanting(o)
  BY DEF Status
<1>4. CASE Await(o)
  <2>1. Wanting(o) = "busy" /\ pc' = [pc EXCEPT ![o] = "waiting"]
    BY <1>4 DEF Await, Wanting
  <2>2. Status' = [Status EXCEPT ![o] = "wanting"]
    BY <1>2, <2>1, StatusStep
  <2>3. TakenBy' = TakenBy
    BY <1>4, InvAwait DEF TakenBy
  <2>4. Feed!Ask(o)
    BY <1>1, <1>3, <2>1, <2>2, <2>3 DEF Feed!Ask, Feed!Change, Status, TakenBy
  <2> QED BY <2>4 DEF Feed!Next
<1>5. CASE NoMemory(o) \/ Close(o) \/ CancelWaiting(o) \/ CancelBusy(o)
  <2>1. /\ pc[o] \in {"size", "busy", "waiting", "woken"}
        /\ pc' = [pc EXCEPT ![o] = "ended"]
    BY <1>5 DEF NoMemory, Close, CancelWaiting, CancelBusy
  <2>2. Wanting(o) \in {"busy", "wanting"}
    BY <2>1 DEF Wanting
  <2>3. Status' = [Status EXCEPT ![o] = "gone"]
    BY <1>2, <2>1, StatusStep
  <2>4. TakenBy' = TakenBy
    BY <1>5, InvPlain DEF TakenBy
  <2>5. Feed!Go(o)
    BY <1>1, <1>3, <2>2, <2>3, <2>4 DEF Feed!Go, Feed!Change, Status, TakenBy
  <2> QED BY <2>5 DEF Feed!Next
<1>6. CASE Connect(o)
  <2>1. Wanting(o) = "gone" /\ pc' = [pc EXCEPT ![o] = "busy"]
    BY <1>6 DEF Connect, Wanting
  <2>2. Status' = [Status EXCEPT ![o] = "busy"]
    BY <1>2, <2>1, StatusStep
  <2>3. TakenBy' = [TakenBy EXCEPT ![o] = Feed!Nothing]
    <3>1. Taken(o)' = Feed!Nothing /\ \A p \in Output \ {o} : Taken(p)' = Taken(p)
      BY <1>6, InvConnect DEF NoFrame, Feed!Nothing
    <3> QED BY <3>1 DEF TakenBy
  <2>4. Feed!Join(o)
    BY <1>1, <1>3, <2>1, <2>2, <2>3 DEF Feed!Join, Feed!Change, Status, TakenBy
  <2> QED BY <2>4 DEF Feed!Next
<1> QED BY <1>4, <1>5, <1>6

\* The camera thread publishes a frame newer than the last, whole or without a size.
LEMMA FeedPublishes ==
    ASSUME FrameInv, memcpy_picture
    PROVE  Feed!Next
<1>1. /\ cpc = "copy" /\ CameraFrame /\ UNCHANGED <<pc, size, timestamp>>
      /\ \/ buf' = tmpbuffer /\ pos' = used
         \/ buf' = buf /\ pos' = 0
      /\ Published' = [bytes |-> buf', size |-> pos', stamp |-> used]
  BY StoresPicture
<1>2. /\ buf <= tmpbuffer /\ tmpbuffer <= used /\ timestamp < used
      /\ buf \in Nat /\ tmpbuffer \in Nat /\ used \in Nat /\ timestamp \in Nat
  BY <1>1, Numbers DEF FrameInv, StampOK
<1>3. Published.bytes = buf /\ Published.stamp = timestamp
  BY <1>1, PublishedIs
<1>4. used \in Frame /\ buf' \in Feed!Number /\ pos' \in Feed!Number
  <2>1. {used, tmpbuffer, buf} \subseteq 0..Len(captured)
    BY DEF FrameInv, TypeOK
  <2>2. Feed!Number = 0..MaxFrames
    BY Numbers DEF Feed!Number, Frame
  <2>3. {used, tmpbuffer, buf, 0} \subseteq 0..MaxFrames
    BY <2>1, Numbers
  <2>4. used \in Frame
    BY <2>3, <1>2 DEF Frame
  <2> QED BY <1>1, <2>2, <2>3, <2>4
<1>5. TakenBy' = TakenBy /\ Status' = Status
  <2>1. \A o \in Output : Taken(o)' = Taken(o)
    BY <1>1, NobodyCopies DEF Taken, CameraFrame
  <2>2. \A o \in Output : Wanting(o)' = Wanting(o)
    BY <1>1 DEF Wanting
  <2> QED BY <2>1, <2>2 DEF TakenBy, Status
<1> DEFINE p == [bytes |-> buf', size |-> pos', stamp |-> used]
<1>6. p \in [bytes : Feed!Number, size : Feed!Number, stamp : Frame]
  BY <1>4
<1>7. p.bytes = buf' /\ p.size = pos' /\ p.stamp = used /\ Published' = p
  BY <1>1
<1>8. p.stamp > Published.stamp
  BY <1>2, <1>3, <1>7
<1>9. \/ p.size = 0 /\ p.bytes = Published.bytes
      \/ p.size = p.stamp /\ Published.bytes <= p.bytes /\ p.bytes <= p.stamp
  BY <1>1, <1>2, <1>3, <1>7
<1> HIDE DEF p
<1>10. Feed!Publish(p)
  BY <1>5, <1>7, <1>8, <1>9 DEF Feed!Publish, TakenBy, Status
<1> QED BY <1>6, <1>10 DEF Feed!Next

\* An output takes what is published last, something newer than it took before.
LEMMA FeedTakes ==
    ASSUME FrameInv, NEW o \in Output, ReadSize(o)
    PROVE  Feed!Next
<1>1. pc[o] = "size" /\ pc' = [pc EXCEPT ![o] = "copy"]
  BY DEF ReadSize
<1>2. /\ Published' = Published /\ Taken(o)' = Published
      /\ \A p \in Output \ {o} : Taken(p)' = Taken(p)
  BY InvReadSize
<1>3. Status[o] = "wanting"
  BY <1>1 DEF Wanting, Status
<1>4. Published.stamp > Taken(o).stamp
  <2>1. Published.stamp = timestamp /\ Taken(o).stamp = copy[o].stamp
    BY <1>1, GlobalWhole, TakenIs
  <2>2. asked[o] < timestamp /\ copy[o].stamp <= asked[o]
    BY <1>1 DEF FrameInv, AskedOK, CopyOK
  <2>3. asked[o] \in Nat /\ timestamp \in Nat /\ copy[o].stamp \in Nat
    BY Numbers DEF CopyRecord
  <2> QED BY <2>1, <2>2, <2>3
<1>5. Status' = [Status EXCEPT ![o] = "busy"]
  <2>1. "copy" \in PcStates
    BY DEF PcStates
  <2> QED BY <1>1, <2>1, StatusStep
<1>6. TakenBy' = [TakenBy EXCEPT ![o] = Published]
  BY <1>2 DEF TakenBy
<1>7. TakenBy[o] = Taken(o)
  BY DEF TakenBy
<1>8. Feed!Take(o)
  BY <1>2, <1>3, <1>4, <1>5, <1>6, <1>7 DEF Feed!Take, Feed!Change, Status, TakenBy
<1> QED BY <1>8 DEF Feed!Next

LEMMA FeedStep ==
    ASSUME FrameInv, [Next]_vars
    PROVE  [Feed!Next]_(Feed!feedVars)
<1>1. ASSUME NEW o \in Output, ReadSize(o) PROVE Feed!Next
  BY <1>1, FeedTakes
<1>2. ASSUME NEW o \in Output,
             \/ Await(o) \/ NoMemory(o) \/ Close(o) \/ Connect(o) \/ CancelWaiting(o)
             \/ CancelBusy(o)
      PROVE  Feed!Next
  BY <1>2, FeedMoves
<1>3. ASSUME NEW o \in Output, Wake(o) \/ CopyFrame(o) PROVE UNCHANGED Feed!feedVars
  <2>1. Published' = Published /\ \A p \in Output : Taken(p)' = Taken(p)
    BY <1>3, InvPlain, InvCopyFrame
  <2>2. {"size", "busy"} \subseteq PcStates
    BY DEF PcStates
  <2>3. \/ pc' = [pc EXCEPT ![o] = "size"] /\ pc[o] = "woken"
        \/ pc' = [pc EXCEPT ![o] = "busy"] /\ pc[o] = "copy"
    BY <1>3 DEF Wake, CopyFrame
  <2>4. \A p \in Output : Wanting(p)' = Wanting(p)
    BY <2>2, <2>3, StatusStep DEF Wanting
  <2> QED BY <2>1, <2>4, Invisible
<1>4. CASE memcpy_picture
  BY <1>4, FeedPublishes
<1>5. CASE Broadcast
  <2>1. \A p \in Output : Wanting(p)' = Wanting(p)
    BY <1>5 DEF Broadcast, Wanting
  <2>2. \A p \in Output : Taken(p)' = Taken(p)
    <3>1. copy' = copy /\ buf' = buf /\ \A p \in Output : pc[p] = "copy" <=> pc'[p] = "copy"
      BY <1>5 DEF Broadcast
    <3> QED BY <3>1 DEF Taken
  <2> QED BY <1>5, <2>1, <2>2, InvBroadcast, Invisible
<1>6. ASSUME UNCHANGED <<copy, pc, buf>>, Published' = Published
      PROVE  UNCHANGED Feed!feedVars
  <2>1. \A p \in Output : Wanting(p)' = Wanting(p) /\ Taken(p)' = Taken(p)
    BY <1>6 DEF Wanting, Taken
  <2> QED BY <1>6, <2>1, Invisible
<1>7. CASE UNCHANGED vars
  BY <1>6, <1>7, InvOther DEF vars, sharedVars, outputVars
<1>8. CASE \E k \in Kinds : Capture(k)
  BY <1>6, <1>8, InvCapture DEF Capture, sharedVars, outputVars
<1>9. CASE Top \/ Leave \/ uvcGrab \/ Lock \/ SetSize \/ Unlock
  <2>1. UNCHANGED <<copy, pc, buf>>
    BY <1>9 DEF Top, Leave, uvcGrab, Lock, SetSize, Unlock, sharedVars, outputVars
  <2>2. uvcGrab \/ SetSize => Published' = Published
    BY DEF uvcGrab, SetSize, Published, sharedVars, outputVars
  <2>3. Published' = Published
    BY <1>9, <2>2, InvTopLeave, InvLock, InvUnlock
  <2> QED BY <1>6, <2>1, <2>3
<1>10. CASE Interrupt \/ StopPlugins \/ Destroy
  BY <1>6, <1>10, InvOther DEF Interrupt, StopPlugins, Destroy, sharedVars, outputVars
<1> QED BY <1>1, <1>2, <1>3, <1>4, <1>5, <1>7, <1>8, <1>9, <1>10
        DEF Next, Step, CameraStep, Take

\* FrameExchange implements FrameFeed, with every kind of frame and every minimum size:
\* whoever asks gets what is published last, of one publication, and something later
\* than before (input_uvc.c:449-459, httpd.c:312-336, output_file.c:257-285).
THEOREM ImplementsFeed == Spec => Feeds
<1>1. Init => Feed!Init
  <2> SUFFICES ASSUME Init PROVE Feed!Init
    OBVIOUS
  <2>1. Published = Feed!Nothing
    BY DEF Init, Published, Feed!Nothing
  <2>2. TakenBy = [o \in Output |-> Feed!Nothing]
    BY DEF Init, TakenBy, Taken, NoFrame, Feed!Nothing
  <2>3. Status = [o \in Output |-> "busy"]
    BY DEF Init, Status, Wanting
  <2> QED BY <2>1, <2>2, <2>3 DEF Feed!Init, TakenBy, Status
<1>2. FrameInv /\ [Next]_vars => [Feed!Next]_(Feed!feedVars)
  BY FeedStep
<1> QED BY <1>1, <1>2, InvariantHolds, PTL DEF Spec, Feeds, Feed!Spec
=============================================================================
