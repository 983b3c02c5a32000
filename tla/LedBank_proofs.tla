--------------------------- MODULE LedBank_proofs ---------------------------
(***************************************************************************)
(* LED2 and LED3 never lose an update, and of LED4 and LED5 at most one at *)
(* a time has lost its last, for any command bytes and any number of       *)
(* rounds of the water lamp; a command that nobody disturbs shows what it  *)
(* is to show.  And the ADC driver: a lone reader sleeps only while a      *)
(* conversion will wake it, and is given a new one.                        *)
(*                                                                         *)
(* Above the drivers: the forms of the page, for any integers in their     *)
(* fields (ControlForms), and that a worker which acts there in one step   *)
(* does what its ioctls do here.                                           *)
(***************************************************************************)
EXTENDS MCDrivers, ControlForms, TLAPS

----------------------------------------------------------------------------
(* The inductive invariant behind UndisturbedEffect *)

\* What is lit when the ioctls of a job are made one after the other, beginning
\* with `lit`: for each LED the last of them counts.
After(steps, lit) ==
    {l \in Led :
        \/ \E i \in 1..Len(steps) :
              /\ steps[i].led = l
              /\ steps[i].on
              /\ \A j \in i + 1..Len(steps) : steps[j].led # l
        \/ l \in lit /\ \A i \in 1..Len(steps) : steps[i].led # l}

\* What the rest of an undisturbed job leads to is what its command is to show.
AloneOK ==
    \A w \in Worker : alone[w] =>
        /\ loaded
        /\ \A v \in Worker : v # w => job[v] = <<>>
        /\ inside[w] => held[w] = reg[PinOf(Head(job[w]).led).port]
        /\ After(job[w], Lit) = Shown(w, doing[w], before[w])

EffectInv == LedInv /\ AloneOK

----------------------------------------------------------------------------
(* The inductive invariant behind Current, AtRest and WillWake *)

\* Results only get newer on their way from the hardware to a reader.
InOrder ==
    /\ adcdat + (IF converting THEN 1 ELSE 0) <= reads
    /\ fs4412_adc <= adcdat
    /\ \A r \in Reader :
          /\ since[r] <= adcdat
          /\ pc[r] = "copying" => fs4412_adc >= since[r]
          /\ pc[r] # "idle" => r \in users

\* While one reader has the device to itself, and none of its reads was broken
\* off, the flag is raised once per read, by the conversion of this read.
OnePerRead ==
    broken = 0 =>
        \A r \in Reader : Adc!Alone(r) =>
            /\ pc[r] = "waiting" => (have_data <=> ~converting)
            /\ pc[r] \in {"taking", "copying", "clearing"} => have_data /\ ~converting
            /\ pc[r] # "idle" /\ have_data => adcdat > since[r]
            /\ pc[r] = "copying" => fs4412_adc > since[r]

AdcInv == Adc!TypeOK /\ InOrder /\ OnePerRead /\ Adc!Current /\ Adc!AtRest /\ Adc!WillWake

\* The jobs of both workers are sequences of steps.
LEMMA AllIsJob == All(TRUE) \in Seq(Step) /\ All(FALSE) \in Seq(Step)
<1>1. \A i \in 1..4 : /\ [led |-> i + 1, on |-> TRUE] \in Step
                      /\ [led |-> i + 1, on |-> FALSE] \in Step
  BY DEF Step, Led
<1> QED BY <1>1 DEF All

LEMMA ConcatIsJob ==
    ASSUME NEW s \in Seq(Step), NEW t \in Seq(Step)
    PROVE  s \o t \in Seq(Step)
OBVIOUS

LEMMA WaterLampIsJob == WaterLamp \in Seq(Step)
<1>1. 8 * Times \in Nat
  BY LedBankAssumption DEF LedBankAssumption
<1>2. ASSUME NEW i \in 1..8 * Times
      PROVE  [led |-> 2 + (((i - 1) \div 2) % 4), on |-> i % 2 = 1] \in Step
  <2>1. (i - 1) \div 2 \in Int
    BY <1>1
  <2>2. 2 + (((i - 1) \div 2) % 4) \in 2..5
    BY <2>1
  <2> QED BY <2>2 DEF Step, Led
<1> QED BY <1>1, <1>2 DEF WaterLamp

LEMMA DigitIsJob ==
    ASSUME NEW n \in 0..15
    PROVE  Digit(n) \in Seq(Step)
<1>1. BitLength(n) \in 0..4
  BY DEF BitLength
<1>2. \A k \in 1..BitLength(n) : [led |-> k + 1, on |-> BitSet(n, k - 1)] \in Step
  BY <1>1 DEF Step, Led, BitSet
<1> QED BY <1>1, <1>2 DEF Digit

LEMMA JobIsJob ==
    ASSUME NEW w \in Worker, NEW c \in 0..255
    PROVE  Job(w, c) \in Seq(Step)
<1>1. LedJob(c) \in Seq(Step)
  <2>1. CASE c \in 66..69
    <3>1. [led |-> c - 64, on |-> TRUE] \in Step
      BY <2>1 DEF Step, Led
    <3>2. <<[led |-> c - 64, on |-> TRUE]>> \in Seq(Step)
      BY <3>1
    <3> QED BY <2>1, <3>2 DEF LedJob
  <2>2. CASE c = 64
    <3>1. LedJob(c) = All(FALSE)
      BY <2>2 DEF LedJob
    <3> QED BY <3>1, AllIsJob
  <2>3. CASE c = 65
    <3>1. LedJob(c) = All(TRUE)
      BY <2>3 DEF LedJob
    <3> QED BY <3>1, AllIsJob
  <2>4. CASE c = 70
    <3>1. LedJob(c) = WaterLamp
      BY <2>4 DEF LedJob
    <3> QED BY <3>1, WaterLampIsJob
  <2>5. CASE c \notin 64..70
    <3>1. c # 64 /\ c # 65 /\ c \notin 66..69 /\ c # 70
      BY <2>5
    <3>2. LedJob(c) = <<>>
      BY <3>1 DEF LedJob
    <3>3. <<>> \in Seq(Step)
      OBVIOUS
    <3> QED BY <3>2, <3>3
  <2> QED BY <2>1, <2>2, <2>3, <2>4, <2>5
<1>2. SegJob(c) \in Seq(Step)
  <2>1. c % 16 \in 0..15
    OBVIOUS
  <2>2. /\ Digit(c % 16) \in Seq(Step)
        /\ All(FALSE) \in Seq(Step)
        /\ <<>> \in Seq(Step)
    <3>1. Digit(c % 16) \in Seq(Step)
      BY <2>1, DigitIsJob, Zenon
    <3>2. <<>> \in Seq(Step)
      OBVIOUS
    <3> QED BY <3>1, <3>2, AllIsJob
  <2>3. All(FALSE) \o Digit(c % 16) \in Seq(Step)
    BY <2>2, ConcatIsJob
  <2> QED BY <2>2, <2>3 DEF SegJob
<1> QED BY <1>1, <1>2 DEF Job

\* Each LED has a bit of its own; only LED4 and LED5 have a port in common.
LEMMA PinsApart ==
    /\ \A l \in Led : PinOf(l).port \in Port /\ PinOf(l).bit \in {0, 4, 5, 7}
    /\ \A k, l \in Led :
          /\ k # l /\ PinOf(k).port = PinOf(l).port => k \in {4, 5} /\ l \in {4, 5}
          /\ k # l /\ PinOf(k).port = PinOf(l).port => PinOf(k).bit # PinOf(l).bit
<1>1. \A l \in Led : l \in {2, 3, 4, 5}
  BY DEF Led
<1>2. /\ PinOf(2) = [port |-> "gpx2", bit |-> 7]
      /\ PinOf(3) = [port |-> "gpx1", bit |-> 0]
      /\ PinOf(4) = [port |-> "gpf3", bit |-> 4]
      /\ PinOf(5) = [port |-> "gpf3", bit |-> 5]
  BY DEF PinOf
<1> QED BY <1>1, <1>2 DEF Port

LEMMA ChangedIsValue ==
    ASSUME NEW v \in Value, NEW b \in {0, 4, 5, 7}, NEW on \in BOOLEAN
    PROVE  Changed(v, b, on) \in Value /\ (b \in Changed(v, b, on) <=> on)
BY DEF Changed, Value

\* Wherever the writes of the workers meet, only LED4 or LED5 is wrong.
LEMMA WrongIsShared ==
    ASSUME TypeOK, PrivateLeds, loaded
    PROVE  Wrong \subseteq {4, 5}
<1>1. ASSUME NEW l \in Wrong PROVE l \in {2, 3, 4, 5}
  BY <1>1 DEF TypeOK, Wrong, Lit, LitBy, Led
<1>2. 2 \notin Wrong /\ 3 \notin Wrong
  BY DEF PrivateLeds, Wrong
<1> QED BY <1>1, <1>2

LEMMA InvWrite ==
    ASSUME LedInv, NEW w \in Worker, WriteRegister(w)
    PROVE  LedInv'
<1>1. /\ TypeOK /\ StepsOK /\ PrivateLeds /\ OneWrongAtMost
      /\ inside[w] /\ job[w] # <<>> /\ loaded /\ loaded' = loaded
  BY DEF LedInv, StepsOK, WriteRegister
<1>2. job[w] \in Seq(Step)
  BY <1>1 DEF TypeOK
<1>3. PICK step \in Step : step = Head(job[w])
  BY <1>1, <1>2
<1>4. PICK l \in Led, on \in BOOLEAN : l = step.led /\ on = step.on
  BY <1>3 DEF Step
<1>5. PICK p \in Port, b \in {0, 4, 5, 7} : p = PinOf(l).port /\ b = PinOf(l).bit
  BY PinsApart
<1>6. PICK v \in Value : v = Changed(held[w], b, on) /\ (b \in v <=> on)
  <2>1. held[w] \in Value
    BY <1>1 DEF TypeOK
  <2>2. /\ Changed(held[w], b, on) \in Value
        /\ b \in Changed(held[w], b, on) <=> on
    BY <2>1, ChangedIsValue, Zenon
  <2> QED BY <2>2, Zenon
<1>7. reg' = [reg EXCEPT ![p] = v] /\ told' = Changed(told, l, on)
  BY <1>3, <1>4, <1>5, <1>6 DEF WriteRegister
<1>8. TypeOK'
  <2>1. Tail(job[w]) \in Seq(Step)
    BY <1>1, <1>2
  <2>2. job' \in [Worker -> Seq(Step)]
    BY <2>1, <1>1 DEF TypeOK, WriteRegister
  <2>3. reg' \in [Port -> Value] /\ told' \in SUBSET Led
    BY <1>1, <1>7 DEF TypeOK, Changed
  <2>4. inside' \in [Worker -> BOOLEAN] /\ held' \in [Worker -> Value]
    <3>1. {} \in Value
      BY DEF Value
    <3> QED BY <3>1, <1>1 DEF TypeOK, WriteRegister
  <2> QED BY <2>2, <2>3, <2>4, <1>1 DEF TypeOK, WriteRegister
<1>9. StepsOK'
  BY <1>1 DEF StepsOK, TypeOK, WriteRegister
\* The LED of the ioctl is right; one on another port stays as it was.
<1>10. l \in Lit' <=> l \in told'
  <2>1. l \in Lit' <=> on
    BY <1>1, <1>5, <1>6, <1>7 DEF TypeOK, Lit, LitBy
  <2>2. l \in told' <=> on
    BY <1>7 DEF Changed
  <2> QED BY <2>1, <2>2
<1>11. ASSUME NEW k \in Led, PinOf(k).port # p
       PROVE  k \in Wrong' <=> k \in Wrong
  <2>1. k # l
    BY <1>5, <1>11
  <2>2. k \in told' <=> k \in told
    BY <2>1, <1>7 DEF Changed
  <2>3. reg'[PinOf(k).port] = reg[PinOf(k).port]
    BY <1>1, <1>7, <1>11, PinsApart DEF TypeOK
  <2>4. k \in Lit' <=> k \in Lit
    BY <2>3 DEF Lit, LitBy
  <2> QED BY <2>2, <2>4 DEF Wrong
<1>12. l \notin Wrong' /\ Wrong' \subseteq Led
  BY <1>8, <1>10 DEF Wrong, TypeOK, Lit, LitBy
<1>13. Wrong \subseteq {4, 5}
  BY <1>1, WrongIsShared
<1>14. \A k \in Wrong' : k \in {4, 5} /\ k # l
  <2> SUFFICES ASSUME NEW k \in Wrong' PROVE k \in {4, 5} /\ k # l
    OBVIOUS
  <2>1. k \in Led /\ k # l
    BY <1>12
  <2>2. CASE PinOf(k).port # p
    BY <2>1, <2>2, <1>11, <1>13
  <2>3. CASE PinOf(k).port = p
    BY <2>1, <2>3, <1>5, PinsApart
  <2> QED BY <2>1, <2>2, <2>3
<1>15. PrivateLeds'
  <2>1. 2 \notin Wrong' /\ 3 \notin Wrong'
    BY <1>14
  <2> QED BY <2>1 DEF PrivateLeds, Wrong
<1>16. ASSUME NEW j \in Wrong', NEW k \in Wrong'
       PROVE  j = k
  <2>1. CASE l \in {4, 5}
    BY <2>1, <1>14
  <2>2. CASE l \notin {4, 5}
    <3>1. PinOf(4).port # p /\ PinOf(5).port # p
      BY <2>2, <1>5, PinsApart DEF Led
    <3>2. j \in Wrong /\ k \in Wrong
      BY <3>1, <1>11, <1>14 DEF Led
    <3> QED BY <3>2, <1>1 DEF OneWrongAtMost
  <2> QED BY <2>1, <2>2
<1> QED BY <1>8, <1>9, <1>15, <1>16 DEF LedInv, OneWrongAtMost

\* The steps that change no register keep what is wrong.
LEMMA InvQuiet ==
    ASSUME LedInv, UNCHANGED <<loaded, reg, told>>, TypeOK', StepsOK'
    PROVE  LedInv'
<1>1. Lit' = Lit
  BY DEF Lit, LitBy
<1> QED BY <1>1 DEF LedInv, PrivateLeds, OneWrongAtMost, Wrong

LEMMA InvBegin ==
    ASSUME LedInv, NEW w \in Worker, NEW c \in 0..255, Begin(w, c)
    PROVE  LedInv'
<1>1. Job(w, c) \in Seq(Step) /\ Lit \subseteq Led
  BY JobIsJob DEF Lit, LitBy
<1>2. TypeOK'
  BY <1>1 DEF LedInv, TypeOK, Begin
<1>3. StepsOK'
  BY DEF LedInv, TypeOK, StepsOK, Begin
<1> QED BY <1>2, <1>3, InvQuiet DEF Begin

\* LedInv is inductive.
LEMMA InvStep == LedInv /\ [Next]_vars => LedInv'
<1> SUFFICES ASSUME LedInv, [Next]_vars PROVE LedInv'
  OBVIOUS
<1>1. CASE DriverInit
  <2>1. TypeOK'
    <3>1. \A r \in [Port -> Value] : LitBy(r) \subseteq Led
      BY DEF LitBy
    <3>2. reg' \in [Port -> Value]
      <4>1. \A x \in Value : \A y : x \ y \in Value
        BY DEF Value
      <4> QED BY <4>1, <1>1 DEF LedInv, TypeOK, DriverInit, Port
    <3> QED BY <3>1, <3>2, <1>1 DEF LedInv, TypeOK, DriverInit
  <2>2. StepsOK'
    BY <1>1 DEF LedInv, StepsOK, DriverInit
  <2>3. Lit' = told'
    BY <1>1 DEF Lit, DriverInit
  <2> QED BY <2>1, <2>2, <2>3 DEF LedInv, PrivateLeds, OneWrongAtMost, Wrong
<1>2. ASSUME NEW w \in Worker, ReadRegister(w)
      PROVE  LedInv'
  <2>1. TypeOK /\ job[w] # <<>>
    BY <1>2 DEF LedInv, ReadRegister
  <2>2. Head(job[w]) \in Step
    BY <2>1 DEF TypeOK
  <2>3. PinOf(Head(job[w]).led).port \in Port
    BY <2>2, PinsApart DEF Step
  <2>4. TypeOK'
    BY <2>1, <2>3, <1>2 DEF TypeOK, ReadRegister
  <2>5. StepsOK'
    BY <2>1, <1>2 DEF LedInv, TypeOK, StepsOK, ReadRegister
  <2> QED BY <2>4, <2>5, <1>2, InvQuiet DEF ReadRegister
<1>3. ASSUME NEW w \in Worker, WriteRegister(w)
      PROVE  LedInv'
  BY <1>3, InvWrite
<1>4. ASSUME NEW c \in LedBytes, Begin("led", c)
      PROVE  LedInv'
  BY <1>4, InvBegin, LedBankAssumption DEF Worker, LedBankAssumption
<1>5. ASSUME NEW c \in SegBytes, Begin("seg", c)
      PROVE  LedInv'
  BY <1>5, InvBegin, LedBankAssumption DEF Worker, LedBankAssumption
<1>6. CASE Interrupt
  <2>1. \A w \in Worker : inside[w] => Head(job[w]) \in Step
    BY DEF LedInv, StepsOK, TypeOK
  <2>2. \A w \in Worker : (IF inside[w] THEN <<Head(job[w])>> ELSE <<>>) \in Seq(Step)
    BY <2>1
  <2>3. TypeOK'
    BY <2>2, <1>6 DEF LedInv, TypeOK, Interrupt
  <2>4. StepsOK'
    BY <1>6 DEF LedInv, TypeOK, StepsOK, Interrupt
  <2> QED BY <2>3, <2>4, <1>6, InvQuiet DEF Interrupt
<1>7. CASE UNCHANGED vars
  <2>1. TypeOK' /\ StepsOK'
    BY <1>7 DEF LedInv, TypeOK, StepsOK, vars
  <2> QED BY <2>1, <1>7, InvQuiet DEF vars
<1> QED BY <1>1, <1>2, <1>3, <1>4, <1>5, <1>6, <1>7 DEF Next

LEMMA InvInit == Init => LedInv
<1> SUFFICES ASSUME Init PROVE LedInv
  OBVIOUS
<1>1. TypeOK
  <2>1. {} \in Value /\ <<>> \in Seq(Step) /\ 0 \in 0..255 /\ {} \in SUBSET Led
    BY DEF Value
  <2>2. reg \in [Port -> Value]
    BY DEF Init
  <2> QED BY <2>1, <2>2 DEF Init, TypeOK
<1> QED BY <1>1 DEF Init, LedInv, StepsOK, PrivateLeds, OneWrongAtMost

----------------------------------------------------------------------------
(* What an undisturbed job shows *)

\* The last ioctl for an LED decides, so that the first may be made at once.
LEMMA AfterShift ==
    ASSUME NEW n \in Nat, NEW s, NEW t, Len(s) = n + 1, Len(t) = n,
           \A i \in 1..n : t[i] = s[i + 1],
           NEW lit, NEW first, NEW l \in Led,
           l \in first <=> IF s[1].led = l THEN s[1].on ELSE l \in lit
    PROVE  l \in After(t, first) <=> l \in After(s, lit)
<1>1. ASSUME NEW i \in 1..n, t[i].led = l, t[i].on, \A j \in i + 1..n : t[j].led # l
      PROVE  l \in After(s, lit)
  <2>1. i + 1 \in 1..n + 1 /\ s[i + 1].led = l /\ s[i + 1].on
    BY <1>1
  <2>2. ASSUME NEW j \in i + 1 + 1..n + 1 PROVE s[j].led # l
    <3>1. j - 1 \in i + 1..n /\ j - 1 \in 1..n /\ j - 1 + 1 = j
      OBVIOUS
    <3> QED BY <1>1, <3>1
  <2> QED BY <2>1, <2>2 DEF After
<1>2. ASSUME l \in first, \A i \in 1..n : t[i].led # l
      PROVE  l \in After(s, lit)
  <2>1. \A j \in 2..n + 1 : s[j].led # l
    <3> SUFFICES ASSUME NEW j \in 2..n + 1 PROVE s[j].led # l
      OBVIOUS
    <3>1. j - 1 \in 1..n /\ j - 1 + 1 = j
      OBVIOUS
    <3> QED BY <1>2, <3>1
  <2>2. CASE s[1].led = l
    BY <1>2, <2>1, <2>2 DEF After
  <2>3. CASE s[1].led # l
    <3>1. \A j \in 1..n + 1 : s[j].led # l
      BY <2>1, <2>3
    <3> QED BY <1>2, <2>3, <3>1 DEF After
  <2> QED BY <2>2, <2>3
<1>3. ASSUME NEW i \in 1..n + 1, s[i].led = l, s[i].on, \A j \in i + 1..n + 1 : s[j].led # l
      PROVE  l \in After(t, first)
  <2>1. CASE i = 1
    <3>1. \A j \in 1..n : t[j].led # l
      BY <1>3, <2>1
    <3> QED BY <1>3, <2>1, <3>1 DEF After
  <2>2. CASE i # 1
    <3>1. PICK k \in 1..n : i = k + 1
      <4>1. i - 1 \in 1..n /\ i = i - 1 + 1
        BY <2>2
      <4> QED BY <4>1
    <3>2. t[k].led = l /\ t[k].on /\ \A j \in k + 1..n : t[j].led # l
      BY <1>3, <3>1
    <3> QED BY <3>2 DEF After
  <2> QED BY <2>1, <2>2
<1>4. ASSUME l \in lit, \A i \in 1..n + 1 : s[i].led # l
      PROVE  l \in After(t, first)
  <2>1. l \in first /\ \A i \in 1..n : t[i].led # l
    BY <1>4
  <2> QED BY <2>1 DEF After
<1> QED BY <1>1, <1>2, <1>3, <1>4 DEF After

LEMMA AfterTail ==
    ASSUME NEW s \in Seq(Step), s # <<>>, NEW lit \in SUBSET Led
    PROVE  After(Tail(s), Changed(lit, Head(s).led, Head(s).on)) = After(s, lit)
<1>1. PICK n \in Nat : Len(s) = n + 1
  <2>1. Len(s) - 1 \in Nat /\ Len(s) = Len(s) - 1 + 1
    OBVIOUS
  <2> QED BY <2>1
<1>2. /\ Len(Tail(s)) = n
      /\ \A i \in 1..n : Tail(s)[i] = s[i + 1]
      /\ Head(s) = s[1] /\ s[1] \in Step
  BY <1>1
<1>3. ASSUME NEW l \in Led
      PROVE  l \in After(Tail(s), Changed(lit, s[1].led, s[1].on)) <=> l \in After(s, lit)
  <2>1. l \in Changed(lit, s[1].led, s[1].on) <=> IF s[1].led = l THEN s[1].on ELSE l \in lit
    BY <1>2 DEF Changed, Step
  <2>2. PICK t : t = Tail(s)
    OBVIOUS
  <2>3. PICK first : first = Changed(lit, s[1].led, s[1].on)
    OBVIOUS
  <2>4. l \in After(t, first) <=> l \in After(s, lit)
    <3>1. Len(t) = n /\ \A i \in 1..n : t[i] = s[i + 1]
      BY <1>2, <2>2
    <3>2. l \in first <=> IF s[1].led = l THEN s[1].on ELSE l \in lit
      BY <2>1, <2>3
    <3> QED BY <1>1, <3>1, <3>2, AfterShift
  <2> QED BY <2>2, <2>3, <2>4
<1> QED BY <1>2, <1>3 DEF After

LEMMA AfterAll ==
    ASSUME NEW on \in BOOLEAN, NEW lit
    PROVE  After(All(on), lit) = IF on THEN Led ELSE {}
<1>1. Len(All(on)) = 4 /\ \A i \in 1..4 : All(on)[i].led = i + 1 /\ All(on)[i].on = on
  BY DEF All
<1>2. \A l \in Led : /\ l - 1 \in 1..4 /\ All(on)[l - 1].led = l
                     /\ \A j \in l - 1 + 1..4 : All(on)[j].led # l
  BY <1>1 DEF Led
<1>3. ASSUME NEW l \in Led
      PROVE  l \in After(All(on), lit) <=> on
  BY <1>1, <1>2 DEF After
<1>4. After(All(on), lit) \subseteq Led
  BY DEF After
<1> QED BY <1>3, <1>4

\* Each round of the water lamp puts an LED out after it has lit it.
LEMMA AfterWaterLamp ==
    ASSUME NEW lit, Times # 0
    PROVE  After(WaterLamp, lit) = {}
<1>1. PICK n \in Nat : n = 8 * Times /\ n >= 8 /\ n % 2 = 0
  <2>1. 8 * Times \in Nat /\ 8 * Times >= 8 /\ (8 * Times) % 2 = 0
    BY LedBankAssumption DEF LedBankAssumption
  <2> QED BY <2>1
<1>2. PICK s : s = WaterLamp
  OBVIOUS
<1>3. /\ Len(s) = n
      /\ \A i \in 1..n : /\ s[i].led = 2 + (((i - 1) \div 2) % 4)
                         /\ s[i].on <=> i % 2 = 1
  <2>1. s = [i \in 1..n |-> [led |-> 2 + (((i - 1) \div 2) % 4), on |-> i % 2 = 1]]
    BY <1>1, <1>2 DEF WaterLamp
  <2>2. Len(s) = n
    BY <2>1
  <2>3. ASSUME NEW i \in 1..n
        PROVE  /\ s[i].led = 2 + (((i - 1) \div 2) % 4)
               /\ s[i].on <=> i % 2 = 1
    <3>1. PICK b \in BOOLEAN : b <=> i % 2 = 1
      BY Zenon
    <3>2. s[i] = [led |-> 2 + (((i - 1) \div 2) % 4), on |-> b]
      <4>1. b = (i % 2 = 1)
        BY <3>1
      <4> QED BY <2>1, <4>1
    <3>3. s[i].led = 2 + (((i - 1) \div 2) % 4) /\ s[i].on = b
      BY <3>2
    <3> QED BY <3>1, <3>3
  <2> QED BY <2>2, <2>3
<1>4. ASSUME NEW l \in Led
      PROVE  l \notin After(s, lit)
  <2>1. ASSUME NEW i \in 1..n, s[i].led = l, s[i].on
        PROVE  \E j \in i + 1..n : s[j].led = l
    <3>1. i % 2 = 1
      BY <1>3, <2>1
    <3>2. i + 1 \in i + 1..n /\ i + 1 \in 1..n
      BY <1>1, <3>1
    <3>3. (i + 1 - 1) \div 2 = (i - 1) \div 2
      BY <3>1
    <3>4. s[i + 1].led = s[i].led
      BY <1>3, <3>2, <3>3
    <3> QED BY <2>1, <3>2, <3>4
  <2>2. \E i \in 1..n : s[i].led = l
    <3>1. PICK i \in 1..n : i = 2 * l - 3
      BY <1>1 DEF Led
    <3>2. ((i - 1) \div 2) % 4 = l - 2
      BY <3>1 DEF Led
    <3>3. s[i].led = l
      BY <1>3, <3>2 DEF Led
    <3> QED BY <3>3
  <2> QED BY <1>3, <2>1, <2>2 DEF After
<1> QED BY <1>2, <1>4 DEF After

LEMMA AfterOne ==
    ASSUME NEW k \in Led, NEW lit \in SUBSET Led
    PROVE  After(<<[led |-> k, on |-> TRUE]>>, lit) = lit \cup {k}
<1>1. PICK s : s = <<[led |-> k, on |-> TRUE]>>
  OBVIOUS
<1>2. Len(s) = 1 /\ s[1].led = k /\ s[1].on
  BY <1>1
<1>3. (1..1 = {1}) /\ (1 + 1..1 = {})
  OBVIOUS
<1>4. After(s, lit) = {l \in Led : (s[1].led = l /\ s[1].on) \/ (l \in lit /\ s[1].led # l)}
  BY <1>2, <1>3 DEF After
<1> QED BY <1>1, <1>2, <1>4

LEMMA BitsOfDigit ==
    ASSUME NEW c \in 0..255
    PROVE  /\ c % 16 \in 0..15
           /\ \A k \in 0..3 : BitSet(c, k) <=> BitSet(c % 16, k)
           /\ BitLength(c % 16) \in 0..4
           /\ \A k \in 0..3 : k >= BitLength(c % 16) => ~BitSet(c % 16, k)
<1>1. c % 16 \in 0..15 /\ c \in Int
  OBVIOUS
<1>2. \A k \in 0..3 : k = 0 \/ k = 1 \/ k = 2 \/ k = 3
  OBVIOUS
<1>3. 2^0 = 1 /\ 2^1 = 2 /\ 2^2 = 4 /\ 2^3 = 8
  OBVIOUS
<1>4. \A k \in 0..3 : BitSet(c, k) <=> BitSet(c % 16, k)
  <2>1. c \div 1 = c /\ (c % 16) \div 1 = c % 16
    BY <1>1
  <2>2. c % 2 = (c % 16) % 2
    BY <1>1
  <2>3. (c \div 2) % 2 = ((c % 16) \div 2) % 2
    BY <1>1
  <2>4. (c \div 4) % 2 = ((c % 16) \div 4) % 2
    BY <1>1
  <2>5. (c \div 8) % 2 = ((c % 16) \div 8) % 2
    BY <1>1
  <2>6. BitSet(c, 0) <=> BitSet(c % 16, 0)
    BY <1>3, <2>1, <2>2 DEF BitSet
  <2>7. BitSet(c, 1) <=> BitSet(c % 16, 1)
    BY <1>3, <2>3 DEF BitSet
  <2>8. BitSet(c, 2) <=> BitSet(c % 16, 2)
    BY <1>3, <2>4 DEF BitSet
  <2>9. BitSet(c, 3) <=> BitSet(c % 16, 3)
    BY <1>3, <2>5 DEF BitSet
  <2> QED BY <1>2, <2>6, <2>7, <2>8, <2>9
<1>5. ASSUME NEW n \in 0..15
      PROVE  /\ BitLength(n) \in 0..4
             /\ \A k \in 0..3 : k >= BitLength(n) => ~BitSet(n, k)
  <2>1. CASE n = 0
    BY <1>2, <1>3, <2>1 DEF BitLength, BitSet
  <2>2. CASE n = 1
    BY <1>2, <1>3, <2>2 DEF BitLength, BitSet
  <2>3. CASE n \in 2..3
    BY <1>2, <1>3, <2>3 DEF BitLength, BitSet
  <2>4. CASE n \in 4..7
    BY <1>2, <1>3, <2>4 DEF BitLength, BitSet
  <2>5. CASE n \in 8..15
    BY <2>5 DEF BitLength
  <2> QED BY <2>1, <2>2, <2>3, <2>4, <2>5
<1> QED BY <1>1, <1>4, <1>5

\* All LEDs are put out, and those of the digit lit after that.
LEMMA AfterTwice ==
    ASSUME NEW s, NEW m \in 0..4, NEW b, NEW lit, Len(s) = 4 + m,
           \A i \in 1..4 : s[i].led = i + 1 /\ ~s[i].on,
           \A k \in 1..m : s[4 + k].led = k + 1 /\ (s[4 + k].on <=> b[k - 1]),
           \A k \in 0..3 : k >= m => ~b[k]
    PROVE  \A l \in Led : l \in After(s, lit) <=> b[l - 2]
<1> SUFFICES ASSUME NEW l \in Led PROVE l \in After(s, lit) <=> b[l - 2]
  OBVIOUS
<1>1. PICK i \in 1..4 : l = i + 1
  BY DEF Led
<1>2. \A j \in 1..4 + m : s[j].led = l => j = i \/ (j = 4 + i /\ i <= m)
  <2> SUFFICES ASSUME NEW j \in 1..4 + m, s[j].led = l PROVE j = i \/ (j = 4 + i /\ i <= m)
    OBVIOUS
  <2>1. CASE j <= 4
    BY <1>1, <2>1
  <2>2. CASE j > 4
    <3>1. PICK k \in 1..m : j = 4 + k
      BY <2>2
    <3> QED BY <1>1, <3>1
  <2> QED BY <2>1, <2>2
<1>3. i \in 1..4 + m /\ s[i].led = l /\ ~s[i].on
  BY <1>1
<1>4. CASE i <= m
  <2>1. i \in 1..m /\ l - 2 = i - 1 /\ 4 + i \in 1..4 + m
    BY <1>1, <1>4
  <2>2. s[4 + i].led = l /\ (s[4 + i].on <=> b[l - 2])
    BY <1>1, <2>1
  <2>3. \A j \in 4 + i + 1..4 + m : s[j].led # l
    BY <1>2
  <2>4. 4 + i \in i + 1..4 + m
    BY <1>4
  <2>5. l \in After(s, lit) <=> s[4 + i].on
    BY <1>2, <1>3, <2>1, <2>2, <2>3, <2>4 DEF After
  <2> QED BY <2>2, <2>5
<1>5. CASE i > m
  <2>1. ~b[l - 2]
    BY <1>1, <1>5
  <2>2. \A j \in 1..4 + m : s[j].led = l => j = i
    BY <1>2, <1>5
  <2> QED BY <1>3, <2>1, <2>2 DEF After
<1> QED BY <1>4, <1>5

LEMMA AfterDigit ==
    ASSUME NEW c \in 0..255, NEW lit
    PROVE  After(All(FALSE) \o Digit(c % 16), lit) = {l \in Led : BitSet(c, l - 2)}
<1>1. PICK d : d = Digit(c % 16)
  OBVIOUS
<1>2. PICK m \in 0..4 : m = BitLength(c % 16)
  BY BitsOfDigit
<1>3. PICK b : b = [k \in 0..3 |-> BitSet(c % 16, k)]
  OBVIOUS
<1>4. /\ Len(d) = m
      /\ \A k \in 1..m : d[k].led = k + 1 /\ (d[k].on <=> b[k - 1])
  BY <1>1, <1>2, <1>3 DEF Digit
<1>5. PICK a : a = All(FALSE)
  OBVIOUS
<1>6. Len(a) = 4 /\ \A i \in 1..4 : a[i].led = i + 1 /\ ~a[i].on
  BY <1>5 DEF All
<1>7. a \in Seq(Step) /\ d \in Seq(Step)
  BY <1>1, <1>5, AllIsJob, DigitIsJob, BitsOfDigit
<1>8. PICK s : s = a \o d
  OBVIOUS
<1>9. /\ Len(s) = 4 + m
      /\ \A i \in 1..4 : s[i] = a[i]
      /\ \A k \in 1..m : s[4 + k] = d[k]
  <2>1. Len(a \o d) = Len(a) + Len(d)
    BY <1>7
  <2>2. \A i \in 1..Len(a) : (a \o d)[i] = a[i]
    BY <1>7
  <2>3. \A k \in 1..Len(d) : (a \o d)[Len(a) + k] = d[k]
    <3>1. ASSUME NEW k \in 1..Len(d) PROVE (a \o d)[Len(a) + k] = d[k]
      <4>1. Len(a) \in Nat /\ Len(d) \in Nat
        BY <1>7
      <4>2. Len(a) + k \in 1..Len(a) + Len(d) /\ ~(Len(a) + k <= Len(a)) /\ Len(a) + k - Len(a) = k
        BY <4>1
      <4> QED BY <1>7, <4>1, <4>2
    <3> QED BY <3>1
  <2> QED BY <1>4, <1>6, <1>8, <2>1, <2>2, <2>3
<1>10. \A k \in 0..3 : k >= m => ~b[k]
  BY <1>2, <1>3, BitsOfDigit
<1>11. \A l \in Led : l \in After(s, lit) <=> b[l - 2]
  <2>1. \A i \in 1..4 : s[i].led = i + 1 /\ ~s[i].on
    BY <1>6, <1>9
  <2>2. \A k \in 1..m : s[4 + k].led = k + 1 /\ (s[4 + k].on <=> b[k - 1])
    BY <1>4, <1>9
  <2> QED BY <1>9, <1>10, <2>1, <2>2, AfterTwice
<1>12. \A l \in Led : l - 2 \in 0..3
  BY DEF Led
<1>13. \A l \in Led : b[l - 2] <=> BitSet(c, l - 2)
  BY <1>3, <1>12, BitsOfDigit
<1>14. After(s, lit) = {l \in Led : BitSet(c, l - 2)}
  BY <1>11, <1>13 DEF After
<1> QED BY <1>1, <1>5, <1>8, <1>14

\* A command that is carried out without disturbance shows what it is to show.
LEMMA AfterJob ==
    ASSUME NEW w \in Worker, NEW c \in 0..255, Job(w, c) # <<>>, NEW lit \in SUBSET Led
    PROVE  After(Job(w, c), lit) = Shown(w, c, lit)
<1>1. CASE w = "led"
  <2>1. Job(w, c) = LedJob(c)
    BY <1>1 DEF Job
  <2>2. CASE c = 64
    <3>1. LedJob(c) = All(FALSE) /\ Shown(w, c, lit) = {}
      BY <1>1, <2>2 DEF LedJob, Shown
    <3> QED BY <2>1, <3>1, AfterAll
  <2>3. CASE c = 65
    <3>1. LedJob(c) = All(TRUE) /\ Shown(w, c, lit) = Led
      BY <1>1, <2>3 DEF LedJob, Shown
    <3> QED BY <2>1, <3>1, AfterAll
  <2>4. CASE c \in 66..69
    <3>1. c # 64 /\ c # 65 /\ c # 70 /\ c - 64 \in Led
      BY <2>4 DEF Led
    <3>2. LedJob(c) = <<[led |-> c - 64, on |-> TRUE]>>
      BY <2>4, <3>1 DEF LedJob
    <3>3. Shown(w, c, lit) = lit \cup {c - 64}
      BY <1>1, <2>4, <3>1 DEF Shown
    <3> QED BY <2>1, <3>1, <3>2, <3>3, AfterOne
  <2>5. CASE c = 70
    <3>1. LedJob(c) = WaterLamp
      BY <2>5 DEF LedJob
    <3>2. Times # 0
      <4>1. Times = 0 => WaterLamp = <<>>
        BY DEF WaterLamp
      <4> QED BY <2>1, <3>1, <4>1
    <3>3. Shown(w, c, lit) = {}
      BY <1>1, <2>5, <3>2 DEF Shown
    <3> QED BY <2>1, <3>1, <3>2, <3>3, AfterWaterLamp
  <2>6. CASE c \notin 64..70
    <3>1. c # 64 /\ c # 65 /\ c \notin 66..69 /\ c # 70
      BY <2>6
    <3> QED BY <2>1, <3>1 DEF LedJob
  <2> QED BY <2>2, <2>3, <2>4, <2>5, <2>6
<1>2. CASE w = "seg"
  <2>1. Job(w, c) = All(FALSE) \o Digit(c % 16)
    BY <1>2 DEF Job, SegJob
  <2>2. Shown(w, c, lit) = {l \in Led : BitSet(c, l - 2)}
    BY <1>2 DEF Shown
  <2> QED BY <2>1, <2>2, AfterDigit
<1> QED BY <1>1, <1>2 DEF Worker

\* The invariant of the undisturbed job.
LEMMA AloneWrite ==
    ASSUME LedInv, AloneOK, NEW w \in Worker, WriteRegister(w), alone[w]
    PROVE  LET step == Head(job[w])
           IN  Lit' = Changed(Lit, step.led, step.on)
<1>1. /\ TypeOK /\ job[w] # <<>> /\ inside[w] /\ job[w] \in Seq(Step)
      /\ held[w] = reg[PinOf(Head(job[w]).led).port]
  BY DEF LedInv, StepsOK, TypeOK, AloneOK, WriteRegister
<1>2. PICK l \in Led, on \in BOOLEAN : l = Head(job[w]).led /\ on = Head(job[w]).on
  <2>1. Head(job[w]) \in Step
    BY <1>1
  <2> QED BY <2>1 DEF Step
<1>3. PICK p \in Port, b \in {0, 4, 5, 7} : p = PinOf(l).port /\ b = PinOf(l).bit
  BY PinsApart
<1>4. reg' = [reg EXCEPT ![p] = Changed(reg[p], b, on)]
  BY <1>1, <1>2, <1>3 DEF WriteRegister
<1>5. \A q \in Port : reg'[q] = IF q = p THEN Changed(reg[p], b, on) ELSE reg[q]
  BY <1>1, <1>4 DEF TypeOK
<1>6. ASSUME NEW k \in Led
      PROVE  k \in Lit' <=> k \in Changed(Lit, l, on)
  <2>1. k \in Lit' <=> PinOf(k).bit \in reg'[PinOf(k).port]
    BY DEF Lit, LitBy
  <2>2. k \in Lit <=> PinOf(k).bit \in reg[PinOf(k).port]
    BY DEF Lit, LitBy
  <2>3. CASE k = l
    BY <1>3, <1>5, <2>1, <2>3 DEF Changed
  <2>4. CASE k # l
    <3>1. PinOf(k).port \in Port /\ (PinOf(k).port = p => PinOf(k).bit # b)
      BY <1>3, <2>4, PinsApart
    <3>2. k \in Changed(Lit, l, on) <=> k \in Lit
      BY <2>4 DEF Changed
    <3> QED BY <1>5, <2>1, <2>2, <3>1, <3>2 DEF Changed
  <2> QED BY <2>3, <2>4
<1>7. Lit' \subseteq Led /\ Changed(Lit, l, on) \subseteq Led
  BY DEF Lit, LitBy, Changed
<1>8. Lit' = Changed(Lit, l, on)
  BY <1>6, <1>7
<1> QED BY <1>2, <1>8

LEMMA EffectStep == EffectInv /\ [Next]_vars => EffectInv'
<1> SUFFICES ASSUME LedInv, AloneOK, [Next]_vars PROVE AloneOK'
  BY InvStep DEF EffectInv
<1>0. /\ alone \in [Worker -> BOOLEAN] /\ job \in [Worker -> Seq(Step)]
      /\ inside \in [Worker -> BOOLEAN] /\ held \in [Worker -> Value]
      /\ doing \in [Worker -> 0..255] /\ before \in [Worker -> SUBSET Led]
      /\ Lit \in SUBSET Led
  BY DEF LedInv, TypeOK, Lit, LitBy
<1>1. CASE DriverInit
  BY <1>1 DEF DriverInit, AloneOK
<1>2. ASSUME NEW w \in Worker, ReadRegister(w)
      PROVE  AloneOK'
  <2>1. /\ UNCHANGED <<loaded, reg, job, doing, before, alone>>
        /\ \A v \in Worker : inside'[v] => inside[v] \/ v = w
        /\ \A v \in Worker : held'[v] = IF v = w THEN reg[PinOf(Head(job[w]).led).port] ELSE held[v]
    BY <1>0, <1>2 DEF ReadRegister
  <2>2. Lit' = Lit
    BY <2>1 DEF Lit
  <2> QED BY <2>1, <2>2 DEF AloneOK
<1>3. ASSUME NEW w \in Worker, WriteRegister(w)
      PROVE  AloneOK'
  <2> SUFFICES ASSUME NEW v \in Worker, alone'[v]
               PROVE  /\ loaded'
                      /\ \A u \in Worker : u # v => job'[u] = <<>>
                      /\ inside'[v] => held'[v] = reg'[PinOf(Head(job'[v]).led).port]
                      /\ After(job'[v], Lit') = Shown(v, doing'[v], before'[v])
    BY DEF AloneOK
  <2>1. /\ UNCHANGED <<loaded, doing, before, alone>> /\ alone[v]
        /\ inside[w] /\ job[w] # <<>>
    BY <1>3 DEF WriteRegister, LedInv, StepsOK
  <2>2. v = w
    BY <2>1 DEF AloneOK
  <2>3. /\ job'[w] = Tail(job[w]) /\ ~inside'[w]
        /\ \A u \in Worker : u # w => job'[u] = job[u]
    BY <1>0, <1>3 DEF WriteRegister
  <2>4. Lit' = Changed(Lit, Head(job[w]).led, Head(job[w]).on)
    BY <1>3, <2>1, <2>2, AloneWrite
  <2>5. After(job'[w], Lit') = After(job[w], Lit)
    <3>1. job[w] \in Seq(Step) /\ Lit \in SUBSET Led /\ job[w] # <<>>
      BY <1>0, <2>1
    <3>2. After(Tail(job[w]), Changed(Lit, Head(job[w]).led, Head(job[w]).on))
             = After(job[w], Lit)
      BY <3>1, AfterTail
    <3> HIDE DEF After, Changed
    <3> QED BY <2>3, <2>4, <3>2
  <2>6. After(job'[v], Lit') = Shown(v, doing'[v], before'[v])
    <3>1. After(job[w], Lit) = Shown(w, doing[w], before[w]) /\ alone[w]
      BY <2>1, <2>2 DEF AloneOK
    <3>2. doing' = doing /\ before' = before
      BY <2>1
    <3> QED BY <2>2, <2>5, <3>1, <3>2 DEF Shown
  <2>7. loaded' /\ \A u \in Worker : u # v => job'[u] = <<>>
    BY <2>1, <2>2, <2>3 DEF AloneOK
  <2> QED BY <2>2, <2>3, <2>6, <2>7
<1>4. ASSUME NEW w \in Worker, NEW c \in 0..255, Begin(w, c)
      PROVE  AloneOK'
  <2> SUFFICES ASSUME NEW v \in Worker, alone'[v]
               PROVE  /\ loaded'
                      /\ \A u \in Worker : u # v => job'[u] = <<>>
                      /\ inside'[v] => held'[v] = reg'[PinOf(Head(job'[v]).led).port]
                      /\ After(job'[v], Lit') = Shown(v, doing'[v], before'[v])
    BY DEF AloneOK
  <2>1. v = w /\ \A u \in Worker : job[u] = <<>>
    BY <1>4 DEF Begin
  <2>2. /\ job'[w] = Job(w, c) /\ doing'[w] = c /\ before'[w] = Lit /\ Job(w, c) # <<>>
        /\ \A u \in Worker : u # w => job'[u] = job[u]
        /\ UNCHANGED <<loaded, reg, inside>> /\ loaded
    BY <1>0, <1>4 DEF Begin
  <2>3. Lit' = Lit
    BY <2>2 DEF Lit
  <2>4. ~inside[w]
    BY <2>1 DEF LedInv, StepsOK
  <2>5. After(Job(w, c), Lit) = Shown(w, c, Lit)
    BY <1>0, <2>2, AfterJob
  <2> QED BY <2>1, <2>2, <2>3, <2>4, <2>5
<1>5. CASE Interrupt
  BY <1>5 DEF Interrupt, AloneOK
<1>6. CASE UNCHANGED vars
  <2>1. Lit' = Lit
    BY <1>6 DEF vars, Lit
  <2> QED BY <1>6, <2>1 DEF vars, AloneOK
<1>7. LedBytes \subseteq 0..255 /\ SegBytes \subseteq 0..255 /\ "led" \in Worker /\ "seg" \in Worker
  BY LedBankAssumption DEF LedBankAssumption, Worker
<1> QED BY <1>1, <1>2, <1>3, <1>4, <1>5, <1>6, <1>7 DEF Next

LEMMA EffectEnough == EffectInv => UndisturbedEffect
<1> SUFFICES ASSUME LedInv, AloneOK, NEW w \in Worker, alone[w], job[w] = <<>>
             PROVE  Lit = Shown(w, doing[w], before[w])
  BY DEF EffectInv, UndisturbedEffect
<1>1. After(<<>>, Lit) = Lit
  <2>1. Len(<<>>) = 0 /\ 1..0 = {}
    OBVIOUS
  <2> QED BY <2>1 DEF After, Lit, LitBy
<1> QED BY <1>1 DEF AloneOK

LEMMA EffectInit == Init => EffectInv
BY InvInit DEF EffectInv, AloneOK, Init

----------------------------------------------------------------------------
(* Theorems of LedBank *)

\* The two workers and the driver keep LedInv, whatever the command bytes.
THEOREM InvariantHolds == Spec => []LedInv
BY InvInit, InvStep, PTL DEF Spec

\* LED2 and LED3, with a register of their own, keep the update of the last ioctl
\* for them, although the driver takes no lock; LED4 and LED5 share one, and at most
\* one of them misses its last update (a9_led_drv.c:91-119).
THEOREM UpdatesLost == Spec => []LostUpdatesBounded
<1>1. LedInv => LostUpdatesBounded
  BY DEF LedInv, LostUpdatesBounded
<1> QED BY <1>1, InvariantHolds, PTL

----------------------------------------------------------------------------
(* The ADC driver *)

LEMMA AdcInit == Adc!Init => AdcInv
<1> SUFFICES ASSUME Adc!Init PROVE AdcInv
  OBVIOUS
<1>1. /\ have_data = FALSE /\ converting = FALSE /\ adcdat = 0 /\ fs4412_adc = 0
      /\ pc = [r \in Reader |-> "idle"] /\ since = [r \in Reader |-> 0]
      /\ result = [r \in Reader |-> 0] /\ users = {} /\ broken = 0 /\ reads = 0
  BY DEF Adc!Init
<1>2. Adc!TypeOK
  <2>1. have_data \in BOOLEAN /\ converting \in BOOLEAN
    BY <1>1
  <2>2. /\ pc \in [Reader -> {"idle", "waiting", "taking", "copying", "clearing"}]
        /\ since \in [Reader -> Nat] /\ result \in [Reader -> Nat] /\ users \subseteq Reader
    BY <1>1
  <2>3. /\ adcdat \in Nat /\ fs4412_adc \in Nat /\ adcdat <= reads
        /\ broken \in 0..MaxBroken /\ reads \in 0..MaxReads
    BY <1>1, AdcAssumption DEF AdcAssumption
  <2> QED BY <2>1, <2>2, <2>3 DEF Adc!TypeOK
<1>3. InOrder
  BY <1>1 DEF InOrder
<1>4. OnePerRead /\ Adc!Current /\ Adc!AtRest /\ Adc!WillWake
  BY <1>1 DEF OnePerRead, Adc!Current, Adc!NotOlder, Adc!Fresh, Adc!AtRest, Adc!WillWake
<1> QED BY <1>2, <1>3, <1>4 DEF AdcInv

\* What one step of reader r leaves alone, and that the others stay where they are.
Moves(r, from, to) ==
    /\ pc[r] = from /\ pc'[r] = to
    /\ \A q \in Reader : q # r => pc'[q] = pc[q]

LEMMA AdcMoves ==
    ASSUME Adc!TypeOK, NEW r \in Reader, NEW from, NEW to, Adc!Goto(r, from, to),
           to \in {"idle", "waiting", "taking", "copying", "clearing"}
    PROVE  /\ Moves(r, from, to)
           /\ pc' \in [Reader -> {"idle", "waiting", "taking", "copying", "clearing"}]
BY DEF Adc!TypeOK, Adc!Goto, Moves

LEMMA AdcStep == AdcInv /\ [Adc!Next]_adcVars => AdcInv'
<1> SUFFICES ASSUME AdcInv, [Adc!Next]_adcVars PROVE AdcInv'
  OBVIOUS
<1> USE AdcAssumption DEF Adc!deviceVars, Adc!boundVars, AdcAssumption
<1> DEFINE Rest == InOrder /\ OnePerRead /\ Adc!Current /\ Adc!AtRest /\ Adc!WillWake
<1>0. Adc!TypeOK /\ Rest
  BY DEF AdcInv
<1>1. ASSUME NEW r \in Reader, Adc!Start(r) PROVE AdcInv'
  <2>1. /\ Moves(r, "idle", "waiting")
        /\ pc' \in [Reader -> {"idle", "waiting", "taking", "copying", "clearing"}]
    BY <1>0, <1>1, AdcMoves DEF Adc!Start
  <2>2. Adc!TypeOK'
    <3>1. have_data' \in BOOLEAN /\ converting' \in BOOLEAN
      BY <1>0, <1>1 DEF Adc!TypeOK, Adc!Start
    <3>2. /\ since' \in [Reader -> Nat] /\ result' \in [Reader -> Nat] /\ users' \subseteq Reader
      BY <1>0, <1>1 DEF Adc!TypeOK, Adc!Start
    <3>3. /\ adcdat' \in Nat /\ fs4412_adc' \in Nat /\ adcdat' <= reads'
          /\ broken' \in 0..MaxBroken /\ reads' \in 0..MaxReads
      BY <1>0, <1>1 DEF Adc!TypeOK, Adc!Start
    <3> QED BY <2>1, <3>1, <3>2, <3>3 DEF Adc!TypeOK
  <2>3. /\ UNCHANGED <<have_data, adcdat, fs4412_adc, result, broken>>
        /\ converting' = TRUE /\ reads' = reads + 1 /\ users' = users \cup {r}
        /\ \A q \in Reader : since'[q] = IF q = r THEN adcdat ELSE since[q]
    BY <1>0, <1>1 DEF Adc!TypeOK, Adc!Start
  <2>4. InOrder'
    BY <1>0, <2>1, <2>3 DEF Adc!TypeOK, InOrder, Moves
  <2>5. Rest'
    BY <1>0, <2>1, <2>3, <2>4 DEF Adc!TypeOK, InOrder, OnePerRead, Adc!Current,
       Adc!NotOlder, Adc!Fresh, Adc!AtRest, Adc!WillWake, Adc!Alone, Moves
  <2> QED BY <2>2, <2>5 DEF AdcInv
<1>2. ASSUME NEW r \in Reader, Adc!Pass(r) \/ Adc!Interrupted(r) PROVE AdcInv'
  <2>1. /\ Moves(r, "waiting", "taking")
        /\ pc' \in [Reader -> {"idle", "waiting", "taking", "copying", "clearing"}]
    BY <1>0, <1>2, AdcMoves DEF Adc!Pass, Adc!Interrupted
  <2>2. /\ UNCHANGED <<have_data, converting, adcdat, fs4412_adc, since, result, users, reads>>
        /\ \/ have_data /\ broken' = broken
           \/ broken < MaxBroken /\ broken' = broken + 1
    BY <1>0, <1>2 DEF Adc!TypeOK, Adc!Pass, Adc!Interrupted
  <2>3. Adc!TypeOK'
    BY <1>0, <2>1, <2>2 DEF Adc!TypeOK
  <2>4. broken' = 0 => have_data /\ broken = 0
    BY <1>0, <2>2 DEF Adc!TypeOK
  <2>5. Rest'
    BY <1>0, <2>1, <2>2, <2>4 DEF Adc!TypeOK, InOrder, OnePerRead, Adc!Current,
       Adc!NotOlder, Adc!Fresh, Adc!AtRest, Adc!WillWake, Adc!Alone, Moves
  <2> QED BY <2>3, <2>5 DEF AdcInv
<1>3. ASSUME NEW r \in Reader, Adc!Take(r) PROVE AdcInv'
  <2>1. /\ Moves(r, "taking", "copying")
        /\ pc' \in [Reader -> {"idle", "waiting", "taking", "copying", "clearing"}]
    BY <1>0, <1>3, AdcMoves DEF Adc!Take
  <2>2. /\ UNCHANGED <<have_data, converting, adcdat, since, result, users, broken, reads>>
        /\ fs4412_adc' = adcdat
    BY <1>3 DEF Adc!Take
  <2>3. Adc!TypeOK'
    BY <1>0, <2>1, <2>2 DEF Adc!TypeOK
  <2>4. Rest'
    BY <1>0, <2>1, <2>2 DEF Adc!TypeOK, InOrder, OnePerRead, Adc!Current,
       Adc!NotOlder, Adc!Fresh, Adc!AtRest, Adc!WillWake, Adc!Alone, Moves
  <2> QED BY <2>3, <2>4 DEF AdcInv
<1>4. ASSUME NEW r \in Reader, Adc!CopyToUser(r) PROVE AdcInv'
  <2>1. /\ Moves(r, "copying", "clearing")
        /\ pc' \in [Reader -> {"idle", "waiting", "taking", "copying", "clearing"}]
    BY <1>0, <1>4, AdcMoves DEF Adc!CopyToUser
  <2>2. /\ UNCHANGED <<have_data, converting, adcdat, fs4412_adc, since, users, broken, reads>>
        /\ \A q \in Reader : result'[q] = IF q = r THEN fs4412_adc ELSE result[q]
        /\ result' \in [Reader -> Nat]
    BY <1>0, <1>4 DEF Adc!TypeOK, Adc!CopyToUser
  <2>3. Adc!TypeOK'
    BY <1>0, <2>1, <2>2 DEF Adc!TypeOK
  <2>4. Rest'
    BY <1>0, <2>1, <2>2 DEF Adc!TypeOK, InOrder, OnePerRead, Adc!Current,
       Adc!NotOlder, Adc!Fresh, Adc!AtRest, Adc!WillWake, Adc!Alone, Moves
  <2> QED BY <2>3, <2>4 DEF AdcInv
<1>5. ASSUME NEW r \in Reader, Adc!CopyFails(r) PROVE AdcInv'
  <2>1. /\ Moves(r, "copying", "idle")
        /\ pc' \in [Reader -> {"idle", "waiting", "taking", "copying", "clearing"}]
    BY <1>0, <1>5, AdcMoves DEF Adc!CopyFails
  <2>2. /\ UNCHANGED <<have_data, converting, adcdat, fs4412_adc, since, result, users, reads>>
        /\ broken < MaxBroken /\ broken' = broken + 1
    BY <1>0, <1>5 DEF Adc!TypeOK, Adc!CopyFails
  <2>3. Adc!TypeOK' /\ broken' # 0
    BY <1>0, <2>1, <2>2 DEF Adc!TypeOK
  <2>4. Rest'
    BY <1>0, <2>1, <2>2, <2>3 DEF Adc!TypeOK, InOrder, OnePerRead, Adc!Current,
       Adc!NotOlder, Adc!Fresh, Adc!AtRest, Adc!WillWake, Adc!Alone, Moves
  <2> QED BY <2>3, <2>4 DEF AdcInv
\* Only a reader that is under way clears the flag.
<1>6. ASSUME NEW r \in Reader, Adc!Clear(r) PROVE AdcInv'
  <2>1. /\ Moves(r, "clearing", "idle")
        /\ pc' \in [Reader -> {"idle", "waiting", "taking", "copying", "clearing"}]
    BY <1>0, <1>6, AdcMoves DEF Adc!Clear
  <2>2. /\ UNCHANGED <<converting, adcdat, fs4412_adc, since, result, users, broken, reads>>
        /\ have_data' = FALSE
    BY <1>6 DEF Adc!Clear
  <2>3. Adc!TypeOK'
    BY <1>0, <2>1, <2>2 DEF Adc!TypeOK
  <2>4. \A q \in Reader : Adc!Alone(q) => q = r
    BY <1>0, <2>1 DEF InOrder, Adc!Alone, Moves
  <2>5. Rest'
    BY <1>0, <2>1, <2>2, <2>4 DEF Adc!TypeOK, InOrder, OnePerRead, Adc!Current,
       Adc!NotOlder, Adc!Fresh, Adc!AtRest, Adc!WillWake, Adc!Alone, Moves
  <2> QED BY <2>3, <2>5 DEF AdcInv
<1>7. CASE Adc!Convert
  <2>1. /\ UNCHANGED <<fs4412_adc, pc, since, result, users, broken, reads>>
        /\ converting /\ converting' = FALSE /\ adcdat' = adcdat + 1 /\ have_data' = TRUE
    BY <1>7 DEF Adc!Convert
  <2>a. adcdat + 1 <= reads
    BY <1>0, <2>1 DEF InOrder
  <2>2. Adc!TypeOK'
    <3>1. have_data' \in BOOLEAN /\ converting' \in BOOLEAN
      BY <2>1
    <3>2. adcdat' \in Nat /\ fs4412_adc' \in Nat /\ adcdat' <= reads'
      BY <1>0, <2>1, <2>a DEF Adc!TypeOK
    <3> QED BY <1>0, <2>1, <3>1, <3>2 DEF Adc!TypeOK
  <2>3. Rest'
    BY <1>0, <2>1 DEF Adc!TypeOK, InOrder, OnePerRead, Adc!Current,
       Adc!NotOlder, Adc!Fresh, Adc!AtRest, Adc!WillWake, Adc!Alone
  <2> QED BY <2>2, <2>3 DEF AdcInv
<1>8. CASE UNCHANGED adcVars
  BY <1>0, <1>8 DEF adcVars, AdcInv, Adc!TypeOK, InOrder, OnePerRead, Adc!Current,
     Adc!NotOlder, Adc!Fresh, Adc!AtRest, Adc!WillWake, Adc!Alone
<1> QED
  BY <1>1, <1>2, <1>3, <1>4, <1>5, <1>6, <1>7, <1>8 DEF Adc!Next, Adc!GoOn

----------------------------------------------------------------------------
(* Theorems of both drivers *)

LEMMA DriversHold == Drivers => [](EffectInv /\ AdcInv)
<1>1. DriversInit => EffectInv /\ AdcInv
  BY EffectInit, AdcInit DEF DriversInit
<1>2. EffectInv /\ AdcInv /\ [DriversNext]_<<driver, vars, adcVars>>
      => EffectInv' /\ AdcInv'
  <2> SUFFICES ASSUME EffectInv, AdcInv, [DriversNext]_<<driver, vars, adcVars>>
               PROVE  EffectInv' /\ AdcInv'
    OBVIOUS
  <2>1. [Next]_vars /\ [Adc!Next]_adcVars
    BY DEF DriversNext
  <2> QED BY <2>1, EffectStep, AdcStep
<1> QED BY <1>1, <1>2, PTL DEF Drivers

\* A job that the other worker does not disturb ends with what its command is
\* to show, for every command byte and any number of rounds of the water lamp
\* (pthread_led.c:28-70, pthread_seg.c:27-70); a single reader of the ADC leaves
\* the driver at rest behind each read (a9_adc_drv.c:60-76).
THEOREM DriversInvHolds == Drivers => []DriversInv
<1>1. EffectInv /\ AdcInv => DriversInv
  BY EffectEnough DEF EffectInv, AdcInv, DriversInv
<1> QED BY <1>1, DriversHold, PTL

\* However many readers overlap, none is given a conversion older than its read,
\* and one that has the device to itself none of an earlier read.
THEOREM CurrentHolds == Drivers => []Current
<1>1. AdcInv => Current
  BY DEF AdcInv, Current
<1> QED BY <1>1, DriversHold, PTL

\* A reader that has the device to itself never sleeps with nothing to wake it,
\* even when its reads are broken off (a9_adc_drv.c:66-68).
THEOREM WillWakeHolds == Drivers => []WillWake
<1>1. AdcInv => WillWake
  BY DEF AdcInv, WillWake
<1> QED BY <1>1, DriversHold, PTL

-----------------------------------------------------------------------------
(* The forms: from the fields of a form to the byte in the queue *)

\* What the queue holds, and what the CGI of a form sends for it.
Message == [form: Form, byte: 0..255]
Encoded(m) == Sends(m.form) /\ m.byte = Byte(m.form)

LEMMA SegByteRange ==
    ASSUME NEW n \in Int
    PROVE  /\ Or(n) \in (112..127) \cup (240..255)
           /\ n \in 0..15 => Or(n) = 112 + n
           /\ n % 256 > 127 => Or(n) \in 240..255
BY DEF Or

\* The bytes that the form of a digit may send.
DigitByte == {0} \cup (112..127) \cup (240..255)

LEMMA ByteOfForm ==
    ASSUME NEW f \in Form, Sends(f)
    PROVE  /\ Byte(f) \in 0..255
           /\ f.to = "seg" => Byte(f) \in DigitByte
<1> USE DEF Sends
<1>1. /\ f.text.first \in 0..9 \cup {-1} /\ f.text.value \in Int
      /\ f.button \in {"on", "off", "none"}
      /\ f.to \in {"led", "buzzer", "seg", "fan"}
  BY FormsAssumption DEF Form, Device, FormsAssumption, Text, NoDigit
<1>2. CASE f.to = "led"
  <2>1. f.text.first \in 1..6
    BY <1>2
  <2> QED BY <1>1, <1>2, <2>1 DEF Byte, LedByte, House1
<1>3. CASE f.to = "buzzer"
  <2>1. f.text.first \in 1..2
    BY <1>3
  <2> QED BY <1>1, <1>3, <2>1 DEF Byte, BuzzerByte, House1
<1>4. CASE f.to = "seg"
  BY <1>1, <1>4, SegByteRange DEF Byte, SegByte, House1, DigitByte
<1>5. CASE f.to = "fan"
  BY <1>1, <1>5 DEF Byte, FanByte
<1> QED BY <1>1, <1>2, <1>3, <1>4, <1>5

LEMMA LampsOfDigit ==
    ASSUME NEW n \in 0..15
    PROVE  LET bit(l, weight) == IF l \in Lamps(n) THEN weight ELSE 0
           IN  n = bit(2, 1) + bit(3, 2) + bit(4, 4) + bit(5, 8)
<1>1. /\ 2 \in Lamps(n) <=> n % 2 = 1
      /\ 3 \in Lamps(n) <=> (n \div 2) % 2 = 1
      /\ 4 \in Lamps(n) <=> (n \div 4) % 2 = 1
      /\ 5 \in Lamps(n) <=> (n \div 8) % 2 = 1
  BY DEF Lamps, LedNumber, Weight
<1> QED BY <1>1

\* The byte of a digit, alone of all bytes, is none of those the other workers know.
LEMMA DigitsApart ==
    ASSUME NEW b \in DigitByte
    PROVE  /\ \A lit : LedAfter(b, lit) = lit
           /\ \A sounds \in BOOLEAN : BuzzerAfter(b, sounds) = sounds
           /\ \A text : FanAfter(b, text) = text
           /\ b \notin 112..127 => \A lit : SegAfter(b, lit) = lit
<1>1. /\ b # 64 /\ b # 65 /\ b \notin 66..69 /\ b # 70 /\ b # 80 /\ b # 81
      /\ b # 32 /\ b # 33 /\ b # 34 /\ b # 35
      /\ b \notin 112..127 => b \div 16 # 7
  BY DEF DigitByte
<1>2. \A lit : LedAfter(b, lit) = lit
  BY <1>1 DEF LedAfter
<1>3. \A sounds \in BOOLEAN : BuzzerAfter(b, sounds) = sounds
  BY <1>1 DEF BuzzerAfter
<1>4. \A text : FanAfter(b, text) = text
  BY <1>1 DEF FanAfter
<1>5. b \notin 112..127 => \A lit : SegAfter(b, lit) = lit
  BY <1>1 DEF SegAfter
<1> QED BY <1>2, <1>3, <1>4, <1>5

LEMMA EncodedQueue ==
    ASSUME FormsTypeOK, \A i \in 1..Len(queue) : Encoded(queue[i])
    PROVE  DigitsKeepApart
<1> SUFFICES ASSUME NEW i \in 1..Len(queue), queue[i].form.to = "seg"
             PROVE  LET b == queue[i].byte
                    IN  /\ LedAfter(b, {2}) = {2} /\ LedAfter(b, {}) = {}
                        /\ BuzzerAfter(b, TRUE) /\ ~BuzzerAfter(b, FALSE)
                        /\ FanAfter(b, "none") = "none"
                        /\ queue[i].form.button = "on" /\ queue[i].form.text.value % 256 > 127
                               => \A lit \in SUBSET LedNumber : SegAfter(b, lit) = lit
  BY Zenon DEF DigitsKeepApart
<1>1. queue[i] \in Message
  <2>1. queue \in Seq(Message)
    BY DEF FormsTypeOK, Message
  <2> QED BY <2>1
<1>2. /\ queue[i].form \in Form /\ Sends(queue[i].form)
      /\ queue[i].byte = Byte(queue[i].form)
  BY <1>1 DEF Encoded, Message
<1>3. queue[i].byte \in DigitByte
  BY <1>2, ByteOfForm
<1>4. ASSUME queue[i].form.button = "on", queue[i].form.text.value % 256 > 127
      PROVE  queue[i].byte \notin 112..127
  <2>1. queue[i].form.text.value \in Int
    BY <1>2, FormsAssumption DEF Form, FormsAssumption, Text
  <2>2. queue[i].byte = Or(queue[i].form.text.value)
    BY <1>2, <1>4 DEF Byte, SegByte
  <2> DEFINE n == queue[i].form.text.value
             b == queue[i].byte
  <2>3. n \in Int /\ n % 256 > 127 /\ b = Or(n)
    BY <1>4, <2>1, <2>2
  <2> HIDE DEF n, b
  <2>4. b \in 240..255
    BY <2>3, SegByteRange
  <2>5. b \notin 112..127
    BY <2>4
  <2> QED BY <2>5 DEF b
<1>5. /\ \A lit : LedAfter(queue[i].byte, lit) = lit
      /\ \A sounds \in BOOLEAN : BuzzerAfter(queue[i].byte, sounds) = sounds
      /\ \A text : FanAfter(queue[i].byte, text) = text
      /\ queue[i].byte \notin 112..127 => \A lit : SegAfter(queue[i].byte, lit) = lit
  BY <1>3, DigitsApart
<1> QED BY <1>4, <1>5

-----------------------------------------------------------------------------
(* The forms: the invariant *)

\* The bytes in the queue, and the one handled last, are those of forms whose CGI sends.
FormsIInv ==
    /\ FormsInv
    /\ DoneAsAsked
    /\ \A i \in 1..Len(queue) : Encoded(queue[i])

LEMMA FormsBegin ==
    ASSUME FormsInit
    PROVE  FormsIInv
<1>1. FormsTypeOK
  <2>1. /\ up \in BOOLEAN /\ buzzer \in BOOLEAN /\ lights \subseteq LedNumber
        /\ fan \in {"0", "1", "2", "3", "none"}
    BY DEF FormsInit
  <2>2. forms \in 0..MaxForms /\ starts \in 1..MaxStarts
    BY FormsAssumption DEF FormsInit, FormsAssumption
  <2>3. queue \in Seq([form: Form, byte: 0..255]) /\ Len(queue) <= QueueLimit
    BY FormsAssumption DEF FormsInit, FormsAssumption
  <2>4. handled \in [form: Form \cup {NoForm}, byte: 0..255]
    BY DEF FormsInit
  <2> QED BY <2>1, <2>2, <2>3, <2>4 DEF FormsTypeOK
<1>2. DoneAsAsked
  BY DEF FormsInit, DoneAsAsked, Done, NoForm, Mode, NoDigit
<1> QED BY <1>1, <1>2 DEF FormsIInv, FormsInv, SilentWhenDown, FormsInit

LEMMA FormsSubmit ==
    ASSUME FormsIInv, NEW f \in Form, Submit(f)
    PROVE  FormsIInv'
<1>1. FormsTypeOK /\ SilentWhenDown /\ DoneAsAsked
  BY DEF FormsIInv, FormsInv
<1>2. UNCHANGED <<up, handled, lights, buzzer, fan, starts>> /\ forms' = forms + 1
      /\ forms < MaxForms /\ Len(queue) < QueueLimit
  BY DEF Submit, deviceVars
<1>3. forms' \in 0..MaxForms
  BY <1>1, <1>2, FormsAssumption DEF FormsTypeOK, FormsAssumption
<1>4. CASE ~Sends(f)
  <2>1. queue' = queue
    BY <1>4 DEF Submit
  <2>2. FormsTypeOK'
    BY <1>1, <1>2, <1>3, <2>1 DEF FormsTypeOK
  <2>3. DoneAsAsked' /\ SilentWhenDown'
    BY <1>1, <1>2 DEF DoneAsAsked, Done, Mode, Figure, Bit,
       SilentWhenDown
  <2> QED BY <2>1, <2>2, <2>3 DEF FormsIInv, FormsInv
<1>5. CASE Sends(f)
  <2> DEFINE m == [form |-> f, byte |-> Byte(f)]
  <2>1. queue' = Append(queue, m)
    BY <1>5 DEF Submit
  <2>2. m \in Message /\ Encoded(m)
    BY <1>5, ByteOfForm DEF Encoded, Message
  <2>3. queue \in Seq(Message)
    BY <1>1 DEF FormsTypeOK, Message
  <2> HIDE DEF m
  <2>4. queue' \in Seq(Message) /\ Len(queue') = Len(queue) + 1
    BY <2>1, <2>2, <2>3
  <2>5. \A i \in 1..Len(queue') : Encoded(queue'[i])
    <3> SUFFICES ASSUME NEW i \in 1..Len(queue') PROVE Encoded(queue'[i])
      OBVIOUS
    <3>1. i \in 1..Len(queue) \/ i = Len(queue) + 1
      BY <2>3, <2>4
    <3>2. queue'[i] = IF i = Len(queue) + 1 THEN m ELSE queue[i]
      BY <2>1, <2>3, <3>1
    <3> QED BY <2>2, <3>1, <3>2 DEF FormsIInv
  <2>6. Len(queue') <= QueueLimit
    BY <1>2, <2>3, <2>4, FormsAssumption DEF FormsAssumption
  <2>7. FormsTypeOK'
    BY <1>1, <1>2, <1>3, <2>4, <2>6 DEF FormsTypeOK, Message
  <2>8. DoneAsAsked' /\ SilentWhenDown'
    BY <1>1, <1>2 DEF DoneAsAsked, Done, Mode, Figure, Bit,
       SilentWhenDown
  <2> QED BY <2>5, <2>7, <2>8 DEF FormsIInv, FormsInv
<1> QED BY <1>4, <1>5

\* What the worker of a form does with the byte of the form.
LEMMA HandleAsAsked ==
    ASSUME FormsIInv, Handle
    PROVE  DoneAsAsked'
<1> DEFINE f == Head(queue).form
           b == Head(queue).byte
<1>1. queue \in Seq(Message) /\ queue # <<>>
  BY DEF FormsIInv, FormsInv, FormsTypeOK, Handle, Message
<1>2. Encoded(Head(queue)) /\ Head(queue) \in Message
  BY <1>1 DEF FormsIInv
<1>3. /\ f \in Form /\ Sends(f) /\ b = Byte(f)
      /\ f.text.first \in 0..9 \cup {-1} /\ f.text.value \in Int
  BY <1>2, FormsAssumption DEF Encoded, Message, Form, FormsAssumption, Text, NoDigit
<1>4. handled'.form = f
  BY DEF Handle
<1>5. /\ f.to = "led" => lights' = LedAfter(b, lights)
      /\ f.to = "seg" => lights' = SegAfter(b, lights)
      /\ f.to = "buzzer" => buzzer' = BuzzerAfter(b, buzzer)
  BY DEF Handle
<1> HIDE DEF f, b
<1>6. ASSUME f.to = "led", f.button = "on"
      PROVE  CASE f.text.first = 1 -> lights' = LedNumber
               [] f.text.first \in 2..5 -> f.text.first \in lights'
               [] f.text.first = 6 -> lights' = {}
               [] OTHER -> FALSE
  <2>1. f.text.first \in 1..6
    BY <1>3, <1>6 DEF Sends
  <2>2. b = 64 + f.text.first
    BY <1>3, <1>6 DEF Byte, LedByte, House1
  <2>3. lights' = LedAfter(b, lights)
    BY <1>5, <1>6
  <2> QED BY <2>1, <2>2, <2>3 DEF LedAfter
<1>7. ASSUME f.to = "led", f.button = "off", f.text.first # 6
      PROVE  lights' = {}
  BY <1>3, <1>5, <1>7 DEF Byte, LedByte, House1, LedAfter
<1>8. ASSUME f.to = "seg", f.button = "on", f.text.value \in 0..15
      PROVE  f.text.value = Bit(2, 1)' + Bit(3, 2)' + Bit(4, 4)' + Bit(5, 8)'
  <2>1. b = 112 + f.text.value
    BY <1>3, <1>8, SegByteRange DEF Byte, SegByte
  <2>2. b \div 16 = 7 /\ b % 16 = f.text.value
    BY <1>8, <2>1
  <2>3. lights' = Lamps(f.text.value)
    BY <1>5, <1>8, <2>2 DEF SegAfter
  <2> QED BY <1>8, <2>3, LampsOfDigit DEF Bit
<1>9. ASSUME f.to = "buzzer", f.text.first = 1
      PROVE  /\ f.button = "on" => buzzer'
             /\ f.button = "off" => ~buzzer'
  <2>1. b = BuzzerByte(1, f.button) /\ buzzer' = BuzzerAfter(b, buzzer)
    BY <1>3, <1>5, <1>9 DEF Byte
  <2>2. f.button = "on" => b = 81
    BY <2>1 DEF BuzzerByte, House1
  <2>3. f.button = "off" => b = 80
    BY <2>1 DEF BuzzerByte, House1
  <2> QED BY <2>1, <2>2, <2>3 DEF BuzzerAfter
<1> QED BY <1>4, <1>6, <1>7, <1>8, <1>9 DEF DoneAsAsked, Done, Mode, Figure

LEMMA FormsHandle ==
    ASSUME FormsIInv, Handle
    PROVE  FormsIInv'
<1>1. queue \in Seq(Message) /\ queue # <<>> /\ Len(queue) <= QueueLimit /\ QueueLimit \in Nat
  BY FormsAssumption DEF FormsIInv, FormsInv, FormsTypeOK, Handle, FormsAssumption, Message
<1>2. /\ queue' = Tail(queue) /\ handled' = Head(queue) /\ UNCHANGED <<up, forms, starts>>
      /\ up
  BY DEF Handle
<1>3. /\ queue' \in Seq(Message) /\ Len(queue') = Len(queue) - 1 /\ Len(queue') <= QueueLimit
      /\ \A i \in 1..Len(queue') : i + 1 \in 1..Len(queue) /\ queue'[i] = queue[i + 1]
      /\ Head(queue) \in Message
  BY <1>1, <1>2
<1>4. handled' \in [form: Form \cup {NoForm}, byte: 0..255]
  BY <1>2, <1>3 DEF Message
<1>5. lights' \subseteq LedNumber
  <2>1. lights \subseteq LedNumber /\ Head(queue).byte \in 0..255
    BY <1>3 DEF FormsIInv, FormsInv, FormsTypeOK, Message
  <2>2. LedAfter(Head(queue).byte, lights) \subseteq LedNumber
    BY <2>1 DEF LedAfter, LedNumber
  <2>3. SegAfter(Head(queue).byte, lights) \subseteq LedNumber
    BY <2>1 DEF SegAfter, Lamps
  <2> QED BY <2>1, <2>2, <2>3 DEF Handle
<1>6. buzzer' \in BOOLEAN
  <2>1. buzzer \in BOOLEAN
    BY DEF FormsIInv, FormsInv, FormsTypeOK
  <2> QED BY <2>1 DEF Handle, BuzzerAfter
<1>7. fan' \in {"0", "1", "2", "3", "none"}
  <2>1. fan \in {"0", "1", "2", "3", "none"}
    BY DEF FormsIInv, FormsInv, FormsTypeOK
  <2> QED BY <2>1 DEF Handle, FanAfter
<1>8. FormsTypeOK'
  BY <1>2, <1>3, <1>4, <1>5, <1>6, <1>7 DEF FormsIInv, FormsInv, FormsTypeOK, Message
<1>9. \A i \in 1..Len(queue') : Encoded(queue'[i])
  BY <1>3 DEF FormsIInv
<1> QED BY <1>2, <1>8, <1>9, HandleAsAsked DEF FormsIInv, FormsInv, SilentWhenDown

LEMMA FormsStep ==
    ASSUME FormsIInv, [FormsNext]_formsVars
    PROVE  FormsIInv'
<1>1. FormsTypeOK /\ SilentWhenDown /\ DoneAsAsked
  BY DEF FormsIInv, FormsInv
<1>2. CASE UNCHANGED formsVars
  <2>1. UNCHANGED <<up, queue, handled, lights, buzzer, fan, forms, starts>>
    BY <1>2 DEF formsVars, deviceVars
  <2>2. FormsTypeOK' /\ SilentWhenDown'
    BY <1>1, <2>1 DEF FormsTypeOK, SilentWhenDown
  <2>3. DoneAsAsked'
    BY <1>1, <2>1 DEF DoneAsAsked, Done, Mode, Figure, Bit
  <2> QED BY <2>1, <2>2, <2>3 DEF FormsIInv, FormsInv
<1>3. CASE Stop
  <2>1. /\ ~buzzer' /\ buzzer' \in BOOLEAN
        /\ handled' = [form |-> NoForm, byte |-> 0] /\ up' = FALSE
        /\ UNCHANGED <<queue, lights, fan, forms, starts>>
    BY <1>3 DEF Stop
  <2>2. FormsTypeOK'
    <3>1. handled' \in [form: Form \cup {NoForm}, byte: 0..255]
      BY <2>1
    <3>2. up' \in BOOLEAN
      BY <2>1
    <3> QED BY <1>1, <2>1, <3>1, <3>2 DEF FormsTypeOK
  <2>3. DoneAsAsked'
    BY <2>1 DEF DoneAsAsked, Done, NoForm
  <2> QED BY <2>1, <2>2, <2>3 DEF FormsIInv, FormsInv, SilentWhenDown
<1>4. CASE Start
  <2>1. /\ up' = TRUE /\ starts' = starts + 1 /\ starts < MaxStarts
        /\ UNCHANGED <<queue, handled, lights, buzzer, fan, forms>>
    BY <1>4 DEF Start, deviceVars
  <2>2. starts' \in 1..MaxStarts
    BY <1>1, <2>1, FormsAssumption DEF FormsTypeOK, FormsAssumption
  <2>3. FormsTypeOK'
    BY <1>1, <2>1, <2>2 DEF FormsTypeOK
  <2>4. DoneAsAsked'
    BY <1>1, <2>1 DEF DoneAsAsked, Done, Mode, Figure, Bit
  <2> QED BY <2>1, <2>3, <2>4 DEF FormsIInv, FormsInv, SilentWhenDown
<1> QED BY <1>2, <1>3, <1>4, FormsSubmit, FormsHandle DEF FormsNext

LEMMA FormsHold ==
    FormsSpec => []FormsIInv
<1>1. FormsInit => FormsIInv
  BY FormsBegin
<1>2. FormsIInv /\ [FormsNext]_formsVars => FormsIInv'
  BY FormsStep
<1> QED BY <1>1, <1>2, PTL DEF FormsSpec

\* The buzzer is silent once the monitor has closed it (a9_beep_drv.c:75-80), whatever
\* the fields of the forms hold and however long the queue is.
THEOREM FormsInvHolds ==
    FormsSpec => []FormsInv
<1>1. FormsIInv => FormsInv
  BY DEF FormsIInv, FormsInv
<1> QED BY <1>1, FormsHold, PTL

\* A form for the LEDs or the buzzer has the effect that the first character of its field
\* names, and a digit of 0 to 15 shows, through the byte that the CGI makes of it and the
\* comparisons of the worker; a digit beyond that reaches no other device, whatever the
\* fields hold (a9_led.c, a9_beep.c, a9_seg.c).
THEOREM AsAskedHolds ==
    FormsSpec => []AsAsked
<1>1. FormsIInv => AsAsked
  BY EncodedQueue DEF FormsIInv, FormsInv, AsAsked
<1> QED BY <1>1, FormsHold, PTL

\* A fan form that its page calls not supported, by the first character of the field
\* (zigbee_fan.c:49-80), and a digit without a button are sent all the same, and no worker
\* acts on them.
THEOREM RejectedIsHarmlessHolds ==
    FormsSpec => RejectedIsHarmless
<1> DEFINE Harmless ==
        queue # <<>> /\ queue' = Tail(queue) /\ Rejected(Head(queue).form)
            => UNCHANGED deviceVars
<1>1. ASSUME FormsIInv, [FormsNext]_formsVars, queue # <<>>, queue' = Tail(queue),
             Rejected(Head(queue).form)
      PROVE  UNCHANGED deviceVars
  <2>1. queue \in Seq(Message)
    BY <1>1 DEF FormsIInv, FormsInv, FormsTypeOK, Message
  <2>2. Encoded(Head(queue)) /\ Head(queue) \in Message
    BY <1>1, <2>1 DEF FormsIInv
  <2>3. queue' # queue
    BY <1>1, <2>1
  <2>4. CASE Handle
    <3> DEFINE f == Head(queue).form
    <3>1. f \in Form /\ Head(queue).byte = Byte(f)
      BY <2>2 DEF Encoded, Message
    <3>2. f.to \in {"fan", "seg"} /\ Head(queue).byte = 0
      BY <1>1, <3>1 DEF Rejected, Byte, FanByte, SegByte
    <3>3. /\ buzzer' = buzzer
          /\ fan' = IF f.to = "fan" THEN FanAfter(0, fan) ELSE fan
          /\ lights' = IF f.to = "seg" THEN SegAfter(0, lights) ELSE lights
      BY <2>4, <3>2 DEF Handle
    <3>4. FanAfter(0, fan) = fan /\ SegAfter(0, lights) = lights
      BY DEF FanAfter, SegAfter
    <3> QED BY <3>3, <3>4 DEF deviceVars
  <2>5. ASSUME NEW f \in Form, Submit(f) PROVE FALSE
    BY <1>1, <2>1, <2>3, <2>5 DEF Submit
  <2>6. CASE Stop \/ Start \/ UNCHANGED formsVars
    BY <2>3, <2>6 DEF Stop, Start, formsVars
  <2> QED BY <1>1, <2>4, <2>5, <2>6 DEF FormsNext
<1>2. FormsIInv /\ [FormsNext]_formsVars => [Harmless]_formsVars
  BY <1>1
<1>3. FormsSpec => [][Harmless]_formsVars
  BY <1>2, FormsHold, PTL DEF FormsSpec
<1> QED BY <1>3 DEF RejectedIsHarmless

\* A worker that ControlForms takes to act in one step leaves the LEDs as the ioctls of its
\* job do one after the other, when no other worker comes between them (pthread_led.c:26-70,
\* pthread_seg.c:26-67).
THEOREM OneStepForAJob ==
    ASSUME NEW c \in 0..255, NEW lit \in SUBSET Led, Times # 0
    PROVE  /\ After(LedJob(c), lit) = LedAfter(c, lit)
           /\ After(SegJob(c), lit) = SegAfter(c, lit)
<1>1. After(<<>>, lit) = lit
  BY DEF After
<1>2. After(LedJob(c), lit) = LedAfter(c, lit)
  <2>1. CASE c = 64
    <3>1. LedJob(c) = All(FALSE) /\ LedAfter(c, lit) = {}
      BY <2>1 DEF LedJob, LedAfter
    <3> QED BY <3>1, AfterAll
  <2>2. CASE c = 65
    <3>1. LedJob(c) = All(TRUE) /\ LedAfter(c, lit) = Led
      BY <2>2 DEF LedJob, LedAfter, Led, LedNumber
    <3> QED BY <3>1, AfterAll
  <2>3. CASE c \in 66..69
    <3>1. c # 64 /\ c # 65 /\ c # 70 /\ c - 64 \in Led
      BY <2>3 DEF Led
    <3>2. LedJob(c) = <<[led |-> c - 64, on |-> TRUE]>>
      BY <2>3, <3>1 DEF LedJob
    <3>3. LedAfter(c, lit) = lit \cup {c - 64}
      BY <2>3, <3>1 DEF LedAfter
    <3> QED BY <3>1, <3>2, <3>3, AfterOne
  <2>4. CASE c = 70
    BY <2>4, AfterWaterLamp DEF LedJob, LedAfter
  <2>5. CASE c \notin 64..70
    <3>1. c # 64 /\ c # 65 /\ c \notin 66..69 /\ c # 70
      BY <2>5
    <3> QED BY <1>1, <3>1 DEF LedJob, LedAfter
  <2> QED BY <2>1, <2>2, <2>3, <2>4, <2>5
<1>3. After(SegJob(c), lit) = SegAfter(c, lit)
  <2>1. CASE c \div 16 = 7
    <3>1. After(SegJob(c), lit) = {l \in Led : BitSet(c, l - 2)}
      <4>1. SegJob(c) = All(FALSE) \o Digit(c % 16)
        BY <2>1 DEF SegJob
      <4> QED BY <4>1, AfterDigit
    <3>2. \A l \in Led : BitSet(c, l - 2) <=> BitSet(c % 16, l - 2)
      <4>1. \A l \in Led : l - 2 \in 0..3
        BY DEF Led
      <4>2. \A k \in 0..3 : BitSet(c, k) <=> BitSet(c % 16, k)
        BY BitsOfDigit
      <4> HIDE DEF BitSet
      <4> QED BY <4>1, <4>2
    <3>3. c % 16 \in 0..15
      BY BitsOfDigit
    <3>4. PICK n : n = c % 16 /\ n \in 0..15
      BY <3>3
    <3>5. \A l \in Led : BitSet(n, l - 2) <=> (n \div Weight(l)) % 2 = 1
      <4>1. \A l \in Led : <<1, 2, 4, 8>>[l - 2 + 1] = Weight(l)
        BY DEF Led, Weight
      <4>2. \A l \in Led : BitSet(n, l - 2) <=> (n \div <<1, 2, 4, 8>>[l - 2 + 1]) % 2 = 1
        BY DEF BitSet
      <4> HIDE DEF BitSet, Weight
      <4> QED BY <4>1, <4>2
    <3>6. SegAfter(c, lit) = {l \in Led : (n \div Weight(l)) % 2 = 1}
      BY <2>1, <3>4 DEF SegAfter, Lamps, Led, LedNumber
    <3> HIDE DEF BitSet, Weight
    <3> QED BY <3>1, <3>2, <3>4, <3>5, <3>6
  <2>2. CASE c \div 16 # 7
    BY <1>1, <2>2 DEF SegJob, SegAfter
  <2> QED BY <2>1, <2>2
<1> QED BY <1>2, <1>3
=============================================================================
