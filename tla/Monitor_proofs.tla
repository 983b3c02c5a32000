--------------------------- MODULE Monitor_proofs ---------------------------
(***************************************************************************)
(* Two threads of the monitor for which small instances are least: the     *)
(* transfer thread over its own devices, for a byte of any number of       *)
(* values, 256 among them, whichever devices are missing and however often *)
(* a transfer fails (SampleCollection); and the handler of SIGINT with the *)
(* refresh thread and the pages, for any number of pages and of lives      *)
(* (Shutdown).  The two share no variable.                                 *)
(***************************************************************************)
EXTENDS SampleCollection, Shutdown, TLAPS

----------------------------------------------------------------------------
(* The inductive invariant behind SampleInv and StoredAsRead *)

\* What the ioctl has put together is what the thread is going to store.
Assembled ==
    \A k \in Kind :
        pc = <<"store", k>> /\ mpu_fd =>
            /\ mpu6050_sensor_data[k] # Unset
            /\ ~lost[k] => OneStepApart(mpu6050_sensor_data[k], high_at[k])

SampleIInv == SampleInv /\ StoredAsRead /\ Assembled

-----------------------------------------------------------------------------
(* Words *)

LEMMA ByteType ==
    /\ Byte \in Nat /\ Byte >= 1 /\ Byte * Byte \in Nat /\ Byte <= Byte * Byte
    /\ 0..Byte - 1 \subseteq Word
    /\ Unset \notin Word /\ Unset \notin 0..MaxRounds
<1>1. Byte \in Nat /\ Byte >= 1
  BY SampleAssumption DEF SampleAssumption
<1>2. Byte * Byte \in Nat /\ Byte <= Byte * Byte
  BY <1>1
<1>3. 0..Byte - 1 \subseteq Word /\ Word \subseteq 0..Byte * Byte
  <2>1. PICK q \in Nat : q = Byte * Byte /\ Byte <= q
    BY <1>2
  <2>2. 0..Byte - 1 \subseteq 0..q - 1 /\ 0..q - 1 \subseteq 0..q
    BY <1>1, <2>1
  <2> QED BY <2>1, <2>2 DEF Word
<1> QED BY <1>1, <1>2, <1>3, SampleAssumption DEF SampleAssumption

\* A word is its high byte, times Byte, and its low byte.
LEMMA Halves ==
    ASSUME NEW w \in Word
    PROVE  /\ Low(w) \in 0..Byte - 1 /\ High(w) \in 0..Byte - 1
           /\ w = Byte * High(w) + Low(w)
<1>1. PICK b \in Nat : b = Byte /\ b >= 1
  BY ByteType
<1>2. w \in Nat /\ w < b * b
  <2>1. PICK q \in Nat : q = b * b /\ q = Byte * Byte
    BY <1>1, ByteType
  <2>2. w \in 0..q - 1
    BY <2>1 DEF Word
  <2>3. w \in Nat /\ w < q
    BY <2>1, <2>2
  <2> QED BY <2>1, <2>3
<1>3. PICK h \in Int, l \in 0..b - 1 : h = w \div b /\ l = w % b /\ w = b * h + l
  BY <1>1, <1>2
<1>4. ~(h <= -1)
  <2>1. ASSUME h <= -1 PROVE b * h <= -b
    BY <1>1, <2>1
  <2> QED BY <1>1, <1>2, <1>3, <2>1
<1>5. ~(h >= b)
  <2>1. ASSUME h >= b PROVE b * h >= b * b
    BY <1>1, <2>1
  <2>2. PICK p \in Int, q \in Int : p = b * h /\ q = b * b
    BY <1>1
  <2> QED BY <1>2, <1>3, <2>1, <2>2
<1> QED BY <1>1, <1>3, <1>4, <1>5 DEF Low, High

\* Of a low and a high byte the ioctl makes the word that has them.
LEMMA Together ==
    ASSUME NEW w \in Word, NEW d \in 0..Byte - 1
    PROVE  /\ d + Byte * High(w) \in Word
           /\ OneStepApart(d + Byte * High(w), w)
<1>1. PICK b \in Nat : b = Byte /\ b >= 1
  BY ByteType
<1>2. PICK h \in 0..b - 1, l \in 0..b - 1 : h = High(w) /\ l = Low(w) /\ w = b * h + l
  BY <1>1, Halves
<1>3. PICK p \in Nat : p = b * h /\ p <= b * (b - 1)
  <2>1. PICK r \in Nat : r = (b - 1) - h
    BY <1>1
  <2>2. b * r \in Nat /\ b * h \in Nat
    BY <1>1
  <2>3. b * (b - 1) = b * h + b * r
    <3>1. b - 1 = h + r
      BY <1>1, <2>1
    <3> QED BY <1>1, <3>1
  <2>4. \A x, y, z \in Int : y \in Nat /\ z = x + y => x <= z
    OBVIOUS
  <2>5. b * (b - 1) \in Int
    BY <1>1
  <2> QED BY <2>2, <2>3, <2>4, <2>5
<1>4. PICK v \in Nat : v = d + p /\ v = d + Byte * High(w)
  <2>1. Byte * High(w) = p
    BY <1>1, <1>2, <1>3
  <2>2. d \in Nat
    BY <1>1
  <2>3. d + p \in Nat
    BY <2>2
  <2> QED BY <2>1, <2>3
<1>5. v \in Word
  <2>1. PICK q \in Nat : q = b * b /\ q = Byte * Byte
    BY <1>1, ByteType
  <2>2. b * (b - 1) = q - b
    BY <1>1, <2>1
  <2>3. v \in 0..q - 1
    BY <1>1, <1>3, <1>4, <2>1, <2>2
  <2> QED BY <2>1, <2>3 DEF Word
<1>6. v - w \in 1 - b..b - 1
  BY <1>1, <1>2, <1>3, <1>4
<1>7. High(v) = h
  <2>1. PICK i \in 0..b - 1, m \in 0..b - 1 : i = High(v) /\ m = Low(v) /\ v = b * i + m
    BY <1>1, <1>5, Halves
  <2>2. PICK x \in Int : x = i - h
    OBVIOUS
  <2>3. b * x = d - m
    <3>1. b * x = b * i - b * h
      BY <2>2
    <3>2. PICK y \in Int : y = b * i
      OBVIOUS
    <3> QED BY <1>1, <1>3, <1>4, <2>1, <3>1, <3>2
  <2>4. ~(x >= 1)
    <3>1. ASSUME x >= 1 PROVE b * x >= b
      BY <1>1, <3>1
    <3> QED BY <1>1, <2>3, <3>1
  <2>5. ~(x <= -1)
    <3>1. ASSUME x <= -1 PROVE b * x <= -b
      BY <1>1, <3>1
    <3> QED BY <1>1, <2>3, <3>1
  <2>6. x = 0
    BY <2>4, <2>5
  <2>7. \A y, z \in Int : y - z = 0 => y = z
    OBVIOUS
  <2>8. i = h
    BY <2>2, <2>6, <2>7
  <2> QED BY <2>1, <2>8
<1>8. OneStepApart(v, w)
  BY <1>1, <1>2, <1>6, <1>7 DEF OneStepApart
<1> QED BY <1>4, <1>5, <1>8

-----------------------------------------------------------------------------
(* The round *)

Steps == {"low", "high", "store"} \X Kind

LEMMA Labels ==
    /\ \A l \in {"lock", "wait", "adc", "unlock"} : \A k \in Kind :
          At(l) # <<"low", k>> /\ At(l) # <<"high", k>> /\ At(l) # <<"store", k>>
    /\ \A j, k \in Kind : /\ <<"low", j>> # <<"high", k>> /\ <<"low", j>> # <<"store", k>>
                          /\ <<"high", j>> # <<"store", k>>
    /\ At("lock") # At("wait") /\ At("lock") # At("adc") /\ At("lock") # At("unlock")
    /\ At("wait") # At("adc") /\ At("wait") # At("unlock") /\ At("adc") # At("unlock")
    /\ AfterStore("gyro") = <<"low", "accel">> /\ AfterStore("accel") = At("unlock")
    /\ \A k \in Kind : k \in {"gyro", "accel"} /\ k # "none" /\ k # "adc"
    /\ "gyro" \in Kind /\ "accel" \in Kind
BY DEF At, Kind, AfterStore

LEMMA RoundType ==
    ASSUME TypeOK
    PROVE  /\ rounds \in 0..MaxRounds /\ MaxRounds \in Nat
           /\ data \in 0..Byte - 1 /\ data \in Word
           /\ \A k \in Kind : /\ sensor[k] \in Word /\ high_at[k] \in Word
                              /\ lost[k] \in BOOLEAN
                              /\ Low(sensor[k]) \in 0..Byte - 1
                              /\ data + Byte * High(sensor[k]) \in Word
<1>1. rounds \in 0..MaxRounds /\ MaxRounds \in Nat /\ data \in 0..Byte - 1
  BY SampleAssumption DEF TypeOK, SampleAssumption
<1>2. data \in Word
  BY <1>1, ByteType
<1>3. \A k \in Kind : sensor[k] \in Word /\ high_at[k] \in Word /\ lost[k] \in BOOLEAN
  BY DEF TypeOK
<1> QED BY <1>1, <1>2, <1>3, Halves, Together

LEMMA TypeInit ==
    ASSUME Init
    PROVE  TypeOK
<1>1. 0 \in Word /\ 0 \in 0..Byte - 1 /\ 0 \in 0..MaxRounds
  BY ByteType, SampleAssumption DEF SampleAssumption
<1>2. DOMAIN env = {"adc"} \cup Kind /\ env.adc = 0 /\ \A k \in Kind : env[k] = 0
  BY DEF Init, Kind
<1>3. pc \in {At(l) : l \in {"lock", "wait", "adc", "unlock"}}
  BY DEF Init
<1>4. /\ high_at \in [Kind -> Word] /\ lost \in [Kind -> BOOLEAN]
      /\ mpu6050_sensor_data \in [Kind -> Word \cup {Unset}]
  BY <1>1 DEF Init
<1>5. locked \in BOOLEAN /\ twice \in BOOLEAN
  BY Zenon DEF Init
<1> QED BY <1>1, <1>2, <1>3, <1>4, <1>5 DEF Init, TypeOK

LEMMA Unlocked ==
    ASSUME TypeOK, Unlock
    PROVE  locked' \in BOOLEAN /\ twice' \in BOOLEAN
<1>1. locked' = FALSE /\ twice' = (twice \/ ~locked)
  BY DEF Unlock
<1>2. locked' \in BOOLEAN
  BY <1>1, Zenon
<1>3. twice' \in BOOLEAN
  BY <1>1, Zenon
<1> QED BY <1>2, <1>3

LEMMA TypeNext ==
    ASSUME TypeOK, [Next]_vars
    PROVE  TypeOK'
<1> USE DEF mutexVars, ioctlVars
<1>0. pc' \in {At("lock"), At("wait"), At("adc"), At("unlock")} \cup Steps
         => pc' \in {At(l) : l \in {"lock", "wait", "adc", "unlock"}} \cup Steps
  OBVIOUS
<1>1. CASE Measure
  <2>1. sensor' \in [Kind -> Word]
    BY <1>1 DEF Measure, TypeOK
  <2> QED BY <1>1, <2>1 DEF Measure, TypeOK
<1>2. CASE Wait
  <2>1. rounds' \in 0..MaxRounds
    BY <1>2, RoundType DEF Wait
  <2> QED BY <1>0, <1>2, <2>1 DEF Wait, TypeOK, Steps
<1>3. CASE Wake
  <2>1. locked' \in BOOLEAN
    BY <1>3, Zenon DEF Wake
  <2> QED BY <1>0, <1>3, <2>1 DEF Wake, TypeOK, Steps
<1>4. CASE ReadAdc
  <2>1. adc_sensor_data' \in 0..MaxRounds \cup {Unset}
    BY <1>4, RoundType DEF ReadAdc, TypeOK
  <2>2. locked' \in BOOLEAN /\ twice' \in BOOLEAN
    BY <1>4, Unlocked DEF ReadAdc, TypeOK
  <2>3. /\ DOMAIN env' = {"adc"} \cup Kind /\ env'.adc = adc_sensor_data'
        /\ \A k \in Kind : env'[k] = env[k]
    BY <1>4, Labels DEF ReadAdc, TypeOK
  <2>4. pc' \in Steps
    BY <1>4, Labels DEF ReadAdc, Steps
  <2> QED BY <1>4, <2>1, <2>2, <2>3, <2>4 DEF ReadAdc, TypeOK, Steps
<1>5. ASSUME NEW k \in Kind, ReadLow(k) PROVE TypeOK'
  <2>1. data' \in 0..Byte - 1
    <3>1. 0 \in 0..Byte - 1
      BY ByteType
    <3> QED BY <1>5, <3>1, RoundType DEF ReadLow
  <2>2. lost' \in [Kind -> BOOLEAN]
    BY <1>5 DEF ReadLow, TypeOK
  <2>3. pc' \in Steps
    BY <1>5 DEF ReadLow, Steps
  <2> QED BY <1>5, <2>1, <2>2, <2>3 DEF ReadLow, TypeOK, Steps
<1>6. ASSUME NEW k \in Kind, ReadHigh(k) PROVE TypeOK'
  <2>1. mpu6050_sensor_data' \in [Kind -> Word \cup {Unset}]
    BY <1>6, RoundType DEF ReadHigh
  <2>2. PICK failed \in BOOLEAN : lost' = [lost EXCEPT ![k] = @ \/ failed]
    BY <1>6 DEF ReadHigh
  <2>3. lost' \in [Kind -> BOOLEAN]
    BY <2>2 DEF TypeOK
  <2>4. high_at' \in [Kind -> Word]
    BY <1>6, RoundType DEF ReadHigh, TypeOK
  <2>5. pc' \in Steps
    BY <1>6 DEF ReadHigh, Steps
  <2> QED BY <1>6, <2>1, <2>3, <2>4, <2>5 DEF ReadHigh, TypeOK, Steps
<1>7. ASSUME NEW k \in Kind, IoctlFails(k) PROVE TypeOK'
  <2>1. locked' \in BOOLEAN /\ twice' \in BOOLEAN
    BY <1>7, Unlocked DEF IoctlFails
  <2>2. pc' \in Steps
    BY <1>7 DEF IoctlFails, Steps
  <2> QED BY <1>7, <2>1, <2>2 DEF IoctlFails, TypeOK, Steps
<1>8. ASSUME NEW k \in Kind, Store(k) PROVE TypeOK'
  <2>1. mpu6050_sensor_data[k] \in Word \cup {Unset}
    BY DEF TypeOK
  <2>2. /\ DOMAIN env' = {"adc"} \cup Kind /\ env'.adc = env.adc
        /\ \A j \in Kind : env'[j] = IF j = k THEN mpu6050_sensor_data[k] ELSE env[j]
    BY <1>8, Labels DEF Store, TypeOK
  <2>3. pc' \in {At("lock"), At("wait"), At("adc"), At("unlock")} \cup Steps
    BY <1>8, Labels DEF Store, Steps, AfterStore
  <2> QED BY <1>0, <1>8, <2>1, <2>2, <2>3 DEF Store, TypeOK, Steps
<1>9. CASE Finish
  <2>1. locked' \in BOOLEAN /\ twice' \in BOOLEAN
    BY <1>9, Unlocked DEF Finish
  <2> QED BY <1>0, <1>9, <2>1 DEF Finish, TypeOK, Steps
<1>10. CASE UNCHANGED vars
  BY <1>10 DEF vars, TypeOK
<1> QED BY <1>1, <1>2, <1>3, <1>4, <1>5, <1>6, <1>7, <1>8, <1>9, <1>10 DEF Next, Transfer

LEMMA UnlockedOnceNext ==
    ASSUME TypeOK, UnlockedOnce, [Next]_vars
    PROVE  UnlockedOnce'
<1> USE DEF mutexVars
<1> DEFINE Inside(p) == p \in {At("adc"), At("unlock")} \cup Steps
<1>0. UnlockedOnce <=> (adc_fd /\ mpu_fd => ~twice /\ (Inside(pc) => locked))
  BY DEF UnlockedOnce, Steps
<1>1. UnlockedOnce' <=> (adc_fd' /\ mpu_fd' => ~twice' /\ (Inside(pc') => locked'))
  BY DEF UnlockedOnce, Steps
<1>2. ~Inside(At("lock")) /\ ~Inside(At("wait"))
  BY Labels DEF Steps
<1>3. /\ Inside(At("adc")) /\ Inside(At("unlock"))
      /\ \A k \in Kind : Inside(<<"low", k>>) /\ Inside(<<"high", k>>) /\ Inside(<<"store", k>>)
  BY DEF Steps
<1> HIDE DEF Inside
<1>4. UNCHANGED <<adc_fd, mpu_fd>>
  BY DEF Next, Transfer, Measure, Wait, Wake, ReadAdc, ReadLow, ReadHigh, IoctlFails, Store,
         Finish, vars
<1> SUFFICES ASSUME adc_fd, mpu_fd, ~twice, Inside(pc) => locked
             PROVE  ~twice' /\ (Inside(pc') => locked')
  BY <1>0, <1>1, <1>4
<1>5. CASE Measure \/ UNCHANGED vars
  <2>1. UNCHANGED <<locked, twice, pc>>
    BY <1>5 DEF Measure, vars
  <2> QED BY <2>1, Zenon
<1>6. CASE Wait
  BY <1>2, <1>6 DEF Wait
<1>7. CASE Wake
  BY <1>7 DEF Wake
<1>8. CASE ReadAdc
  BY <1>3, <1>8 DEF ReadAdc
<1>9. ASSUME NEW k \in Kind, ReadLow(k) \/ ReadHigh(k) \/ Store(k)
      PROVE  ~twice' /\ (Inside(pc') => locked')
  <2>1. UNCHANGED <<locked, twice>>
    BY <1>9 DEF ReadLow, ReadHigh, Store
  <2>2. Inside(pc)
    BY <1>3, <1>9 DEF ReadLow, ReadHigh, Store
  <2> QED BY <2>1, <2>2, Zenon
<1>10. ASSUME NEW k \in Kind, IoctlFails(k) PROVE FALSE
  BY <1>10 DEF IoctlFails
<1>11. CASE Finish
  BY <1>2, <1>3, <1>11 DEF Finish, Unlock
<1> QED BY <1>5, <1>6, <1>7, <1>8, <1>9, <1>10, <1>11 DEF Next, Transfer

-----------------------------------------------------------------------------
(* What is stored *)

LEMMA NothingMadeUpNext ==
    ASSUME TypeOK, NothingMadeUp, Assembled, [Next]_vars
    PROVE  NothingMadeUp'
<1>1. CASE UNCHANGED <<env, adc_fd, mpu_fd>>
  BY <1>1 DEF NothingMadeUp
<1>2. CASE Measure \/ Wait \/ Wake \/ Finish \/ UNCHANGED vars
  BY <1>1, <1>2 DEF Measure, Wait, Wake, Finish, vars
<1>3. ASSUME NEW k \in Kind, ReadLow(k) \/ ReadHigh(k) \/ IoctlFails(k) PROVE NothingMadeUp'
  BY <1>1, <1>3 DEF ReadLow, ReadHigh, IoctlFails
<1>4. CASE ReadAdc
  <2>1. /\ env'.adc = adc_sensor_data' /\ \A k \in Kind : env'[k] = env[k]
        /\ UNCHANGED <<adc_fd, mpu_fd>>
    BY <1>4, Labels DEF ReadAdc, TypeOK
  <2>2. adc_fd => adc_sensor_data' # Unset
    BY <1>4, RoundType, ByteType DEF ReadAdc
  <2> QED BY <2>1, <2>2 DEF NothingMadeUp
<1>5. ASSUME NEW k \in Kind, Store(k) PROVE NothingMadeUp'
  <2>1. /\ env'.adc = env.adc /\ UNCHANGED <<adc_fd, mpu_fd>>
        /\ \A j \in Kind : env'[j] = IF j = k THEN mpu6050_sensor_data[k] ELSE env[j]
    BY <1>5, Labels DEF Store, TypeOK
  <2>2. mpu_fd => mpu6050_sensor_data[k] # Unset
    BY <1>5 DEF Store, Assembled
  <2> QED BY <2>1, <2>2 DEF NothingMadeUp
<1> QED BY <1>2, <1>3, <1>4, <1>5 DEF Next, Transfer

LEMMA AssembledNext ==
    ASSUME TypeOK, Assembled, [Next]_vars
    PROVE  Assembled'
<1>1. CASE UNCHANGED <<pc, mpu_fd, lost, high_at, mpu6050_sensor_data>>
  BY <1>1 DEF Assembled
<1>2. CASE Measure \/ UNCHANGED vars
  BY <1>1, <1>2 DEF Measure, vars, ioctlVars
<1>3. ASSUME \A k \in Kind : pc' # <<"store", k>> PROVE Assembled'
  BY <1>3 DEF Assembled
<1>4. CASE Wait \/ Wake \/ Finish
  BY <1>3, <1>4, Labels DEF Wait, Wake, Finish
<1>5. CASE ReadAdc
  BY <1>3, <1>5, Labels DEF ReadAdc
<1>6. ASSUME NEW k \in Kind, ReadLow(k) \/ Store(k) PROVE Assembled'
  BY <1>3, <1>6, Labels DEF ReadLow, Store, AfterStore, Kind
<1>7. ASSUME NEW k \in Kind, IoctlFails(k) PROVE Assembled'
  BY <1>7 DEF IoctlFails, Assembled
<1>8. ASSUME NEW k \in Kind, ReadHigh(k) PROVE Assembled'
  <2>1. PICK failed \in BOOLEAN :
           /\ mpu6050_sensor_data'[k] = IF failed THEN data ELSE data + Byte * High(sensor[k])
           /\ lost' = [lost EXCEPT ![k] = @ \/ failed]
    BY <1>8 DEF ReadHigh
  <2>2. high_at'[k] = sensor[k] /\ pc' = <<"store", k>>
    BY <1>8 DEF ReadHigh, TypeOK
  <2>3. failed => lost'[k]
    BY <2>1 DEF TypeOK
  <2>4. mpu6050_sensor_data'[k] # Unset
    BY <2>1, RoundType, ByteType
  <2>5. ~failed => OneStepApart(mpu6050_sensor_data'[k], high_at'[k])
    <3>1. PICK w \in Word, d \in 0..Byte - 1 : w = sensor[k] /\ d = data
      BY RoundType
    <3>2. OneStepApart(d + Byte * High(w), w)
      BY Together
    <3> QED BY <2>1, <2>2, <3>1, <3>2
  <2>6. \A j \in Kind : pc' = <<"store", j>> => j = k
    BY <2>2
  <2> QED BY <2>3, <2>4, <2>5, <2>6 DEF Assembled
<1> QED BY <1>2, <1>4, <1>5, <1>6, <1>7, <1>8 DEF Next, Transfer

LEMMA WithinByteNext ==
    ASSUME TypeOK, WithinByte, Assembled, [Next]_vars
    PROVE  WithinByte'
<1>0. \A j \in Kind : AfterStore(j)' = AfterStore(j)
  BY DEF AfterStore
<1>1. CASE UNCHANGED <<pc, mpu_fd, lost, high_at, env>>
  BY <1>1 DEF WithinByte
<1>2. CASE Measure \/ UNCHANGED vars
  BY <1>1, <1>2 DEF Measure, vars, ioctlVars
<1>3. ASSUME \A k \in Kind : pc' # AfterStore(k) PROVE WithinByte'
  BY <1>3 DEF WithinByte
<1>4. CASE Wait \/ Wake \/ Finish
  BY <1>3, <1>4, Labels DEF Wait, Wake, Finish, Kind
<1>5. CASE ReadAdc
  <2>1. pc' = <<"low", "gyro">>
    BY <1>5 DEF ReadAdc
  <2>2. <<"low", "gyro">> # <<"low", "accel">> /\ <<"low", "gyro">> # At("unlock")
    BY Labels
  <2> QED BY <1>3, <2>1, <2>2 DEF Kind, AfterStore
<1>6. ASSUME NEW k \in Kind, ReadLow(k) \/ ReadHigh(k) PROVE WithinByte'
  BY <1>3, <1>6, Labels DEF ReadLow, ReadHigh, Kind
<1>7. ASSUME NEW k \in Kind, IoctlFails(k) PROVE WithinByte'
  BY <1>7 DEF IoctlFails, WithinByte
<1>8. ASSUME NEW k \in Kind, Store(k) PROVE WithinByte'
  <2>1. /\ pc = <<"store", k>> /\ pc' = AfterStore(k) /\ env'[k] = mpu6050_sensor_data[k]
        /\ UNCHANGED <<mpu_fd, lost, high_at>>
    BY <1>8, Labels DEF Store, TypeOK, ioctlVars
  <2>2. \A j \in Kind : AfterStore(j) = AfterStore(k) => j = k
    BY Labels DEF Kind
  <2>3. mpu_fd /\ ~lost[k] => OneStepApart(mpu6050_sensor_data[k], high_at[k])
    BY <2>1 DEF Assembled
  <2> QED BY <2>1, <2>2, <2>3 DEF WithinByte
<1> QED BY <1>2, <1>4, <1>5, <1>6, <1>7, <1>8 DEF Next, Transfer

-----------------------------------------------------------------------------
(* The invariant *)

LEMMA InitInv ==
    ASSUME Init
    PROVE  SampleIInv
<1>1. TypeOK
  BY TypeInit
<1>2. pc = At("lock") /\ env.adc = 0 /\ env.gyro = 0 /\ env.accel = 0 /\ ~twice /\ ~locked
  BY DEF Init
<1>3. 0 # Unset
  BY SampleAssumption DEF SampleAssumption
<1>4. NothingMadeUp
  BY <1>2, <1>3 DEF NothingMadeUp, Kind
<1>5. WithinByte /\ Assembled
  BY <1>2, Labels DEF WithinByte, Assembled, Kind
<1>6. UnlockedOnce
  BY <1>2, Labels DEF UnlockedOnce
<1> QED BY <1>1, <1>4, <1>5, <1>6 DEF SampleIInv, SampleInv, StoredAsRead

LEMMA InvNext ==
    ASSUME SampleIInv, [Next]_vars
    PROVE  SampleIInv'
<1>1. TypeOK /\ UnlockedOnce /\ NothingMadeUp /\ WithinByte /\ Assembled
  BY DEF SampleIInv, SampleInv, StoredAsRead
<1>2. TypeOK' /\ UnlockedOnce'
  BY <1>1, TypeNext, UnlockedOnceNext
<1>3. NothingMadeUp' /\ WithinByte' /\ Assembled'
  BY <1>1, NothingMadeUpNext, WithinByteNext, AssembledNext
<1> QED BY <1>2, <1>3 DEF SampleIInv, SampleInv, StoredAsRead

LEMMA InvHolds == Spec => []SampleIInv
<1>1. Init => SampleIInv
  BY InitInv
<1>2. SampleIInv /\ [Next]_vars => SampleIInv'
  BY InvNext
<1> QED BY <1>1, <1>2, PTL DEF Spec

-----------------------------------------------------------------------------
(* What a round promises *)

\* With both devices open the thread never unlocks a mutex that it does not hold, and
\* reads and stores with the mutex held, from the wait to the end of the round
\* (pthread_transfer.c:58-104), for every number of rounds.
THEOREM SampleInvHolds == Spec => []SampleInv
<1>1. SampleIInv => SampleInv
  BY DEF SampleIInv
<1> QED BY <1>1, InvHolds, PTL

\* The sample of a device that was opened is made of what the device said, and a word put
\* together from two measurements is less than a step of its high byte away from the later
\* one (a9_mpu6050_drv.c:117-151), for bytes of 256 values as of any other number.
THEOREM StoredAsReadHolds == Spec => []StoredAsRead
<1>1. SampleIInv => StoredAsRead
  BY DEF SampleIInv
<1> QED BY <1>1, InvHolds, PTL

----------------------------------------------------------------------------
(* The inductive invariant behind ShutdownInv and TogetherUnlessEarly *)

\* Whatever anybody works with was made at some time.
MadeBefore ==
    \A k \in Key :
        /\ has[k] < next_id[Type(k)]
        /\ \A c \in Cgi : fetched[c][k] < next_id[Type(k)]

\* The id 0 is given once for each type, and an object that is gone had it.
ZeroGoes ==
    /\ RemovedOnce
    /\ \A t \in KernelType : removed[t] = 1 =>
          next_id[t] > 0 /\ \A k \in Key : Type(k) = t => object[k] # 0
    /\ \A k \in Key :
          /\ has[k] \notin {None, 0} => object[k] = has[k]
          /\ \A c \in Cgi : fetched[c][k] \notin {None, 0} => object[k] = fetched[c][k]

\* The first semaphore is a mutex, and no other has the id 0; it comes before the segment.
MutexFirst ==
    /\ refresh # "mutex" => next_id["sem"] > 0
    /\ next_id["shm"] > 0 => next_id["sem"] > 0
    /\ \A k \in {"empty", "full"} :
          /\ object[k] # 0 /\ has[k] # 0
          /\ \A c \in Cgi : fetched[c][k] # 0

Looping == refresh \in {"p_mutex", "write"}

\* The monitor works with the mutex and the segment that exist, until its handler
\* removes them.
MonitorInStep ==
    /\ handler \in {"msgctl", "shmctl", "semctl", "exit"} => Looping
    /\ handler = "down" => refresh = "mutex"
    /\ refresh # "mutex" /\ handler # "exit" =>
          object["mutex"] = has["mutex"] /\ has["mutex"] # None
    /\ Looping => next_id["shm"] > 0
    /\ Looping /\ handler \in {"none", "msgctl", "shmctl"} =>
          object["segment"] = has["segment"] /\ has["segment"] # None

\* The first segment comes after the first mutex and goes before it.
SegmentWithin ==
    /\ object["segment"] = 0 => object["mutex"] = 0
    /\ object["segment"] > 0 => object["mutex"] # 0
    /\ object["mutex"] = 0 /\ object["segment"] # 0 =>
          handler = "semctl" \/ next_id["shm"] = 0
    /\ handler \in {"semctl", "exit", "down"} => object["segment"] # 0
    /\ handler \in {"exit", "down"} => object["mutex"] # 0
    /\ next_id["shm"] = 0 =>
          handler = "none" /\ (next_id["sem"] > 0 => object["mutex"] = 0)

\* A page reads with the first mutex and the first segment, or with neither.
PageInStep(c) ==
    /\ fetched[c]["segment"] = 0 => fetched[c]["mutex"] = 0
    /\ cgi[c] = "mutex" => fetched[c]["segment"] = None
    /\ cgi[c] # "mutex" => fetched[c]["mutex"] # None
    /\ cgi[c] \in {"p_mutex", "read"} => fetched[c]["segment"] # None
    /\ Reads(c) => (fetched[c]["mutex"] = 0 <=> fetched[c]["segment"] = 0)

InStep == ~early => MonitorInStep /\ SegmentWithin /\ \A c \in Cgi : PageInStep(c)

ShutdownIInv == ShutdownTypeOK /\ MadeBefore /\ ZeroGoes /\ MutexFirst /\ InStep

-----------------------------------------------------------------------------
(* The handler, the refresh thread and the pages *)

\* What msgget, semget and shmget do with one key.
LEMMA CreateEffect ==
    ASSUME NEW k \in Key, ShutdownTypeOK, Create(k)
    PROVE  /\ has' = [has EXCEPT ![k] = object'[k]]
           /\ object' = [object EXCEPT ![k] = object'[k]]
           /\ object'[k] \in Nat
           /\ object[k] # None => object'[k] = object[k] /\ next_id' = next_id
           /\ object[k] = None => object'[k] = next_id[Type(k)]
                                  /\ next_id' = [next_id EXCEPT ![Type(k)] = @ + 1]
           /\ next_id' \in [KernelType -> Nat]
           /\ object'[k] < next_id'[Type(k)]
           /\ \A t \in KernelType : next_id[t] <= next_id'[t]
<1>1. Type(k) \in KernelType
  BY DEF Key, KernelType, Type
<1>2. object[k] \in Id /\ next_id[Type(k)] \in Nat /\ object[k] < next_id[Type(k)]
  BY <1>1 DEF ShutdownTypeOK
<1>3. CASE /\ object[k] # None
           /\ has' = [has EXCEPT ![k] = object[k]]
           /\ next_id' = next_id /\ object' = object
  BY <1>1, <1>2, <1>3 DEF ShutdownTypeOK, Id, None
<1>4. CASE /\ object[k] = None
           /\ object' = [object EXCEPT ![k] = next_id[Type(k)]]
           /\ has' = [has EXCEPT ![k] = next_id[Type(k)]]
           /\ next_id' = [next_id EXCEPT ![Type(k)] = @ + 1]
  BY <1>1, <1>2, <1>4 DEF ShutdownTypeOK, Id, None
<1> QED BY <1>3, <1>4 DEF Create, kernelVars

LEMMA IpcInit ==
    ASSUME ShutdownInit
    PROVE  ShutdownIInv
<1>1. ShutdownTypeOK
  <2>1. \A k \in Key : Type(k) \in KernelType
    BY DEF Key, KernelType, Type
  <2>2. \A k \in Key : object[k] < next_id[Type(k)]
    BY <2>1 DEF ShutdownInit, Nothing, None
  <2>3. 1 \in 1..MaxLives
    BY ShutdownAssumption DEF ShutdownAssumption
  <2> QED BY <2>2, <2>3 DEF ShutdownInit, ShutdownTypeOK, Nothing, None, Id
<1>2. MadeBefore
  BY DEF ShutdownInit, MadeBefore, Nothing, Key, KernelType, Type, None
<1>3. ZeroGoes
  BY DEF ShutdownInit, ZeroGoes, RemovedOnce, Nothing, Key, KernelType, Type,
     None
<1>4. MutexFirst
  BY DEF ShutdownInit, MutexFirst, Nothing, Key, KernelType, None
<1>5. InStep
  BY DEF ShutdownInit, InStep, MonitorInStep, SegmentWithin, PageInStep, Looping,
     Reads, Nothing, Key, None, KernelType
<1> QED BY <1>1, <1>2, <1>3, <1>4, <1>5 DEF ShutdownIInv

\* Types, and ids below the next one.
LEMMA TypeStep ==
    ASSUME ShutdownTypeOK, [ShutdownNext]_shutdownVars
    PROVE  ShutdownTypeOK'
<1> USE DEF Id, None
<1>0. \A k \in Key : Type(k) \in KernelType
  BY DEF Key, KernelType, Type
<1>1. CASE UNCHANGED shutdownVars
  <2>1. UNCHANGED <<next_id, object, has, fetched, refresh, handler, cgi, lives, early, removed>>
    BY <1>1 DEF shutdownVars, kernelVars, historyVars
  <2> QED BY <2>1, Zenon DEF ShutdownTypeOK
<1>2. CASE OpenQueue
  <2>1. "queue" \in Key
    BY DEF Key
  <2>2. Create("queue")
    BY <1>2 DEF OpenQueue
  <2>3. /\ has' \in [Key -> Id] /\ object' \in [Key -> Id]
        /\ next_id' \in [KernelType -> Nat]
    BY <2>1, <2>2, CreateEffect DEF ShutdownTypeOK
  <2>4. \A k \in Key : object'[k] < next_id'[Type(k)]
    BY <1>0, <2>1, <2>2, <2>3, CreateEffect DEF ShutdownTypeOK
  <2> QED BY <1>2, <2>3, <2>4 DEF OpenQueue, ShutdownTypeOK, historyVars
<1>3. CASE RefreshOpen
  <2>1. refresh \in Key
    BY <1>3 DEF RefreshOpen, Key
  <2>2. refresh' \in {"empty", "full", "segment", "p_mutex"}
    BY <1>3 DEF RefreshOpen, AfterOpen
  <2>3. Create(refresh)
    BY <1>3 DEF RefreshOpen
  <2>4. /\ has' \in [Key -> Id] /\ object' \in [Key -> Id]
        /\ next_id' \in [KernelType -> Nat]
    BY <2>1, <2>3, CreateEffect DEF ShutdownTypeOK
  <2>5. \A k \in Key : object'[k] < next_id'[Type(k)]
    BY <1>0, <2>1, <2>3, <2>4, CreateEffect DEF ShutdownTypeOK
  <2> QED BY <1>3, <2>2, <2>4, <2>5 DEF RefreshOpen, ShutdownTypeOK, historyVars
<1>4. CASE RefreshP
  BY <1>4 DEF RefreshP, ShutdownTypeOK, kernelVars, historyVars
<1>5. CASE RefreshV
  BY <1>5 DEF RefreshV, ShutdownTypeOK, kernelVars, historyVars
<1>6. CASE RefreshFails
  BY <1>6 DEF RefreshFails, EndProcess, Nothing, ShutdownTypeOK, kernelVars,
     historyVars
<1>7. CASE Interrupt
  BY <1>7 DEF Interrupt, ShutdownTypeOK, kernelVars
<1>8. ASSUME NEW t \in KernelType, NEW label \in {"msgctl", "shmctl", "semctl"},
             NEW next \in {"shmctl", "semctl", "exit"}, Remove(t, label, next)
      PROVE  ShutdownTypeOK'
  <2>1. object' \in [Key -> Id] /\ \A k \in Key : object'[k] < next_id[Type(k)]
    BY <1>0, <1>8 DEF Remove, ShutdownTypeOK
  <2>2. removed' \in [KernelType -> Nat]
    BY <1>8 DEF Remove, ShutdownTypeOK
  <2> QED BY <2>1, <2>2, <1>8 DEF Remove, ShutdownTypeOK
<1>9. CASE RemoveQueue \/ RemoveSegment \/ RemoveSemaphore
  BY <1>8, <1>9 DEF RemoveQueue, RemoveSegment, RemoveSemaphore, KernelType
<1>10. CASE Exit
  BY <1>10 DEF Exit, EndProcess, Nothing, ShutdownTypeOK, kernelVars, historyVars
<1>11. CASE Restart
  BY <1>11, ShutdownAssumption
     DEF ShutdownAssumption, Restart, ShutdownTypeOK, kernelVars
<1>12. ASSUME NEW c \in Cgi, CgiOpen(c) PROVE ShutdownTypeOK'
  <2>1. cgi[c] \in Key
    BY <1>12 DEF CgiOpen, Key
  <2>2. CASE object[cgi[c]] # None
    <3>1. AfterOpen(cgi[c]) \in {"empty", "full", "segment", "p_mutex"}
      BY DEF AfterOpen
    <3>2. /\ fetched' = [fetched EXCEPT ![c][cgi[c]] = object[cgi[c]]]
          /\ cgi' = [cgi EXCEPT ![c] = AfterOpen(@)]
          /\ UNCHANGED <<kernelVars, has, refresh, handler, historyVars>>
      BY <1>12, <2>2 DEF CgiOpen
    <3>3. fetched' \in [Cgi -> [Key -> Id]]
      BY <2>1, <3>2 DEF ShutdownTypeOK
    <3> QED BY <3>1, <3>2, <3>3 DEF ShutdownTypeOK, kernelVars, historyVars
  <2>3. CASE object[cgi[c]] = None
    <3>1. /\ fetched' = [fetched EXCEPT ![c] = Nothing]
          /\ cgi' = [cgi EXCEPT ![c] = "mutex"]
          /\ UNCHANGED <<kernelVars, has, refresh, handler, historyVars>>
      BY <1>12, <2>3 DEF CgiOpen, PageEnds
    <3>2. Nothing \in [Key -> Id]
      BY DEF Nothing, Id
    <3>3. fetched' \in [Cgi -> [Key -> Id]]
      BY <3>1, <3>2 DEF ShutdownTypeOK
    <3>4. cgi' \in [Cgi -> {"mutex", "empty", "full", "segment", "p_mutex", "read"}]
      BY <3>1 DEF ShutdownTypeOK
    <3> QED BY <3>1, <3>3, <3>4 DEF ShutdownTypeOK, kernelVars, historyVars
  <2> QED BY <2>2, <2>3
<1>13. ASSUME NEW c \in Cgi, CgiP(c) PROVE ShutdownTypeOK'
  BY <1>13 DEF CgiP, ShutdownTypeOK, kernelVars, historyVars
<1>14. ASSUME NEW c \in Cgi, CgiEnds(c) PROVE ShutdownTypeOK'
  BY <1>14 DEF CgiEnds, PageEnds, Nothing, ShutdownTypeOK, kernelVars, historyVars
<1> QED BY <1>1, <1>2, <1>3, <1>4, <1>5, <1>6, <1>7, <1>9, <1>10, <1>11, <1>12, <1>13, <1>14
        DEF ShutdownNext

-----------------------------------------------------------------------------
(* What a step does to the ids *)

\* The steps, by what they do to the ids: one is created and held, the object with the id 0
\* of a type is removed, a page fetches one, or ids are dropped.
Creates(k) ==
    /\ Create(k)
    /\ \/ k = "queue" /\ refresh' = refresh
       \/ k = refresh /\ refresh' = AfterOpen(k)
    /\ UNCHANGED <<fetched, handler, cgi, historyVars>>

Removes(t) ==
    /\ object' = [k \in Key |->
          IF Type(k) = t /\ object[k] = 0 THEN None ELSE object[k]]
    /\ removed' = [removed EXCEPT ![t] =
          @ + IF \E k \in Key : Type(k) = t /\ object[k] = 0 THEN 1 ELSE 0]
    /\ UNCHANGED <<next_id, has, fetched, refresh>>

Fetches(c, k) ==
    /\ k = cgi[c]
    /\ object[k] # None
    /\ fetched' = [fetched EXCEPT ![c][k] = object[k]]
    /\ cgi' = [cgi EXCEPT ![c] = AfterOpen(k)]
    /\ UNCHANGED <<kernelVars, has, refresh, handler, historyVars>>

Drops ==
    /\ UNCHANGED <<kernelVars, removed>>
    /\ \/ UNCHANGED has /\ (refresh = "mutex" <=> refresh' = "mutex")
       \/ has' = Nothing /\ refresh' = "mutex"
    /\ \/ UNCHANGED fetched
       \/ \E c \in Cgi : fetched' = [fetched EXCEPT ![c] = Nothing]

LEMMA StepKinds ==
    ASSUME ShutdownTypeOK, [ShutdownNext]_shutdownVars
    PROVE  \/ \E k \in Key : Creates(k)
           \/ \E t \in KernelType : Removes(t)
           \/ \E c \in Cgi, k \in Key : Fetches(c, k)
           \/ Drops
<1> USE DEF kernelVars, historyVars
<1>1. CASE UNCHANGED shutdownVars
  BY <1>1 DEF shutdownVars, Drops
<1>2. CASE OpenQueue
  BY <1>2 DEF OpenQueue, Key, Creates
<1>3. CASE RefreshOpen
  BY <1>3 DEF RefreshOpen, Key, Creates
<1>4. CASE RefreshP \/ RefreshV \/ Interrupt \/ Restart
  BY <1>4 DEF RefreshP, RefreshV, Interrupt, Restart, Drops
<1>5. CASE RefreshFails \/ Exit
  BY <1>5 DEF RefreshFails, Exit, EndProcess, Drops
<1>6. CASE RemoveQueue \/ RemoveSegment \/ RemoveSemaphore
  BY <1>6 DEF RemoveQueue, RemoveSegment, RemoveSemaphore, Remove, KernelType,
     Removes
<1>7. ASSUME NEW c \in Cgi, CgiOpen(c)
      PROVE  (cgi[c] \in Key /\ Fetches(c, cgi[c])) \/ Drops
  BY <1>7 DEF CgiOpen, PageEnds, Key, Fetches, Drops
<1>8. ASSUME NEW c \in Cgi, CgiP(c) \/ CgiEnds(c)
      PROVE  Drops
  BY <1>8 DEF CgiP, CgiEnds, PageEnds, Drops
<1> QED BY <1>1, <1>2, <1>3, <1>4, <1>5, <1>6, <1>7, <1>8 DEF ShutdownNext

\* Nobody works with an id that has not been given.
LEMMA MadeStep ==
    ASSUME ShutdownTypeOK, MadeBefore, [ShutdownNext]_shutdownVars
    PROVE  MadeBefore'
<1>0. \A k \in Key : Type(k) \in KernelType
  BY DEF Key, KernelType, Type
<1>1. ASSUME NEW k \in Key, Create(k), UNCHANGED fetched PROVE MadeBefore'
  <2>1. \A t \in KernelType :
           next_id[t] \in Nat /\ next_id'[t] \in Nat /\ next_id[t] <= next_id'[t]
    BY <1>1, CreateEffect DEF ShutdownTypeOK
  <2>2. ASSUME NEW j \in Key, NEW x \in Id, x < next_id[Type(j)]
        PROVE  x < next_id'[Type(j)]
    BY <1>0, <2>1, <2>2 DEF Id, None
  <2>3. ASSUME NEW j \in Key PROVE has'[j] < next_id'[Type(j)]
    <3>1. CASE j = k
      BY <1>1, <3>1, CreateEffect DEF ShutdownTypeOK
    <3>2. CASE j # k
      BY <1>1, <2>2, <3>2, CreateEffect DEF ShutdownTypeOK, MadeBefore
    <3> QED BY <3>1, <3>2
  <2>4. ASSUME NEW j \in Key, NEW c \in Cgi PROVE fetched'[c][j] < next_id'[Type(j)]
    BY <1>1, <2>2 DEF ShutdownTypeOK, MadeBefore
  <2> QED BY <2>3, <2>4 DEF MadeBefore
<1>2. CASE UNCHANGED <<next_id, has, fetched>>
  BY <1>2 DEF MadeBefore
<1>3. ASSUME NEW c \in Cgi, NEW k \in Key, UNCHANGED <<next_id, has>>,
             fetched' = [fetched EXCEPT ![c][k] = object[k]]
      PROVE  MadeBefore'
  BY <1>3 DEF MadeBefore, ShutdownTypeOK
<1>4. CASE /\ UNCHANGED next_id
           /\ UNCHANGED has \/ has' = Nothing
           /\ UNCHANGED fetched \/ \E c \in Cgi : fetched' = [fetched EXCEPT ![c] = Nothing]
  <2>1. \A k \in Key : None < next_id[Type(k)] /\ Nothing[k] = None
    BY <1>0 DEF ShutdownTypeOK, Nothing, None
  <2> QED BY <1>4, <2>1 DEF MadeBefore, ShutdownTypeOK
<1> QED BY <1>1, <1>2, <1>3, <1>4, StepKinds
        DEF Creates, Removes, Fetches, Drops, kernelVars, historyVars

\* An id other than 0 stays with its object, and 0 is not given again.
LEMMA ZeroStep ==
    ASSUME ShutdownTypeOK, MadeBefore, ZeroGoes, [ShutdownNext]_shutdownVars
    PROVE  ZeroGoes'
<1>0. \A k \in Key : Type(k) \in KernelType
  BY DEF Key, KernelType, Type
<1> USE DEF RemovedOnce
<1>1. ASSUME NEW k \in Key, Creates(k) PROVE ZeroGoes'
  <2>1. /\ Create(k)
        /\ UNCHANGED <<fetched, removed>>
    BY <1>1 DEF Creates, historyVars
  <2>2. ASSUME NEW t \in KernelType, removed'[t] = 1
        PROVE  next_id'[t] > 0 /\ \A j \in Key : Type(j) = t => object'[j] # 0
    <3>1. next_id[t] > 0 /\ \A j \in Key : Type(j) = t => object[j] # 0
      BY <2>1, <2>2 DEF ZeroGoes
    <3>2. next_id'[t] > 0
      BY <2>1, <3>1, CreateEffect DEF ShutdownTypeOK
    <3>3. ASSUME NEW j \in Key, Type(j) = t PROVE object'[j] # 0
      BY <2>1, <3>1, <3>3, CreateEffect DEF ShutdownTypeOK
    <3> QED BY <3>2, <3>3
  <2>3. ASSUME NEW j \in Key, object[j] # None PROVE object'[j] = object[j]
    BY <2>1, <2>3, CreateEffect DEF ShutdownTypeOK
  <2>4. ASSUME NEW j \in Key, has'[j] \notin {None, 0} PROVE object'[j] = has'[j]
    <3>1. CASE j = k
      BY <2>1, <3>1, CreateEffect DEF ShutdownTypeOK
    <3>2. CASE j # k
      BY <2>1, <2>3, <2>4, <3>2, CreateEffect DEF ShutdownTypeOK, ZeroGoes
    <3> QED BY <3>1, <3>2
  <2>5. ASSUME NEW j \in Key, NEW c \in Cgi, fetched'[c][j] \notin {None, 0}
        PROVE  object'[j] = fetched'[c][j]
    BY <2>1, <2>3, <2>5 DEF ZeroGoes
  <2>6. \A t \in KernelType : removed'[t] <= 1
    BY <2>1 DEF ZeroGoes
  <2> QED BY <2>2, <2>4, <2>5, <2>6, Zenon DEF ZeroGoes
<1>2. ASSUME NEW t \in KernelType, Removes(t) PROVE ZeroGoes'
  <2>1. /\ \A k \in Key :
              object'[k] = IF Type(k) = t /\ object[k] = 0 THEN None ELSE object[k]
        /\ UNCHANGED <<next_id, has, fetched>>
        /\ \A s \in KernelType : s # t => removed'[s] = removed[s]
    BY <1>2 DEF Removes, ShutdownTypeOK
  <2>2. CASE \E k \in Key : Type(k) = t /\ object[k] = 0
    <3>1. removed[t] \in Nat /\ removed[t] <= 1 /\ removed[t] # 1
      BY <2>2 DEF ZeroGoes, ShutdownTypeOK
    <3>2. removed'[t] = 1
      <4>1. removed' = [removed EXCEPT ![t] = @ + 1]
        BY <1>2, <2>2, Zenon DEF Removes
      <4>2. removed[t] = 0
        BY <3>1
      <4>3. removed \in [KernelType -> Nat]
        BY DEF ShutdownTypeOK
      <4> QED BY <4>1, <4>2, <4>3
    <3>3. next_id[t] > 0
      BY <2>2 DEF ShutdownTypeOK
    <3> QED BY <2>1, <3>2, <3>3 DEF ZeroGoes, None
  <2>3. CASE ~\E k \in Key : Type(k) = t /\ object[k] = 0
    <3>1. removed'[t] = removed[t]
      BY <1>2, <2>3 DEF Removes, ShutdownTypeOK
    <3>2. \A k \in Key : object'[k] = object[k]
      BY <2>1, <2>3
    <3> QED BY <2>1, <3>1, <3>2 DEF ZeroGoes
  <2> QED BY <2>2, <2>3
<1>3. ASSUME NEW c \in Cgi, NEW k \in Key, Fetches(c, k) PROVE ZeroGoes'
  BY <1>3 DEF Fetches, ZeroGoes, ShutdownTypeOK, kernelVars, historyVars
<1>4. CASE Drops
  <2>1. \A k \in Key : Nothing[k] = None
    BY DEF Nothing
  <2> QED BY <1>4, <2>1 DEF Drops, ZeroGoes, ShutdownTypeOK, kernelVars
<1> QED BY <1>1, <1>2, <1>3, <1>4, StepKinds

\* Whoever makes the second or third semaphore has made or found the first.
LEMMA MutexStep ==
    ASSUME ShutdownTypeOK, MadeBefore, MutexFirst, [ShutdownNext]_shutdownVars
    PROVE  MutexFirst'
<1>0. /\ \A k \in Key : Type(k) \in KernelType
      /\ Type("mutex") = "sem" /\ Type("empty") = "sem" /\ Type("full") = "sem"
      /\ {"mutex", "empty", "full"} \subseteq Key /\ "sem" \in KernelType
  BY DEF Key, KernelType, Type
<1>1. ASSUME NEW k \in Key, Creates(k) PROVE MutexFirst'
  <2>1. Create(k) /\ UNCHANGED fetched
    BY <1>1 DEF Creates
  <2>2. refresh' # "mutex" => next_id'["sem"] > 0
    <3>1. CASE k = refresh /\ k = "mutex"
      BY <1>0, <2>1, <3>1, CreateEffect DEF ShutdownTypeOK
    <3>2. CASE refresh # "mutex"
      BY <1>0, <2>1, <3>2, CreateEffect DEF ShutdownTypeOK, MutexFirst
    <3>3. CASE refresh = "mutex" /\ refresh' = refresh
      BY <3>3
    <3> QED BY <1>1, <3>1, <3>2, <3>3 DEF Creates
  <2>4. next_id'["shm"] > 0 => next_id'["sem"] > 0
    <3>1. CASE k = "segment"
      <4>1. next_id["sem"] > 0
        BY <1>1, <3>1 DEF Creates, MutexFirst
      <4> QED BY <1>0, <2>1, <4>1, CreateEffect DEF ShutdownTypeOK
    <3>2. CASE k # "segment"
      <4>1. next_id'["shm"] = next_id["shm"] /\ next_id["sem"] <= next_id'["sem"]
        BY <2>1, <3>2, CreateEffect DEF ShutdownTypeOK, Key, Type, KernelType
      <4>2. next_id["sem"] \in Nat /\ next_id'["sem"] \in Nat
        BY <1>0, <2>1, CreateEffect DEF ShutdownTypeOK
      <4> QED BY <4>1, <4>2 DEF MutexFirst
    <3> QED BY <3>1, <3>2
  <2>3. ASSUME NEW j \in {"empty", "full"} PROVE object'[j] # 0 /\ has'[j] # 0
    <3>1. CASE j = k
      <4>1. k = refresh
        BY <1>1, <3>1 DEF Creates
      <4>2. next_id["sem"] > 0 /\ object[k] # 0
        BY <3>1, <4>1 DEF MutexFirst
      <4> QED BY <1>0, <2>1, <3>1, <4>2, CreateEffect DEF ShutdownTypeOK
    <3>2. CASE j # k
      BY <1>0, <2>1, <3>2, CreateEffect DEF ShutdownTypeOK, MutexFirst
    <3> QED BY <3>1, <3>2
  <2> QED BY <2>1, <2>2, <2>3, <2>4 DEF MutexFirst
<1>2. ASSUME NEW t \in KernelType, Removes(t) PROVE MutexFirst'
  <2>1. \A k \in Key : object'[k] = 0 => object[k] = 0
    BY <1>2 DEF Removes, None
  <2> QED BY <1>0, <1>2, <2>1 DEF Removes, MutexFirst
<1>3. ASSUME NEW c \in Cgi, NEW k \in Key, Fetches(c, k) PROVE MutexFirst'
  BY <1>0, <1>3 DEF Fetches, MutexFirst, ShutdownTypeOK, kernelVars
<1>4. CASE Drops
  <2>1. Nothing["empty"] # 0 /\ Nothing["full"] # 0
    BY <1>0 DEF Nothing, None
  <2> QED BY <1>4, <2>1 DEF Drops, MutexFirst, ShutdownTypeOK, kernelVars
<1> QED BY <1>1, <1>2, <1>3, <1>4, StepKinds

LEMMA Keys ==
    /\ \A k \in Key : Type(k) \in KernelType
    /\ {"queue", "mutex", "empty", "full", "segment"} = Key
    /\ {"msg", "sem", "shm"} = KernelType
    /\ Type("mutex") = "sem" /\ Type("segment") = "shm" /\ Type("queue") = "msg"
    /\ Type("empty") = "sem" /\ Type("full") = "sem"
BY DEF Key, KernelType, Type

\* As long as no handler has come early: the monitor's side.
LEMMA MonitorStep ==
    ASSUME ShutdownIInv, [ShutdownNext]_shutdownVars, ~early'
    PROVE  MonitorInStep' /\ SegmentWithin'
<1> USE DEF None
<1>0. ~early
  <2>1. ASSUME NEW c \in Cgi, CgiOpen(c) \/ CgiP(c) \/ CgiEnds(c) PROVE UNCHANGED early
    BY <2>1 DEF CgiOpen, CgiP, CgiEnds, historyVars
  <2>2. CASE \/ UNCHANGED shutdownVars \/ OpenQueue \/ RefreshOpen \/ RefreshP
             \/ RefreshV \/ RefreshFails \/ Exit \/ RemoveQueue
             \/ RemoveSegment \/ RemoveSemaphore \/ Restart
    BY <2>2 DEF shutdownVars, OpenQueue, RefreshOpen, RefreshP, RefreshV,
       RefreshFails, Exit, Remove, RemoveQueue, RemoveSegment,
       RemoveSemaphore, Restart, historyVars
  <2>3. CASE Interrupt
    BY <2>3 DEF Interrupt
  <2> QED BY <2>1, <2>2, <2>3 DEF ShutdownNext
<1>1. MonitorInStep /\ SegmentWithin
  BY <1>0 DEF ShutdownIInv, InStep
<1>2. /\ next_id["sem"] \in Nat /\ next_id["shm"] \in Nat
      /\ object["mutex"] \in Id /\ object["mutex"] < next_id["sem"]
      /\ object["segment"] \in Id /\ object["segment"] < next_id["shm"]
      /\ has["mutex"] \in Id /\ has["segment"] \in Id
      /\ refresh \in {"mutex", "empty", "full", "segment", "p_mutex", "write"}
      /\ handler \in {"none", "msgctl", "shmctl", "semctl", "exit", "down"}
      /\ refresh # "mutex" => next_id["sem"] > 0
      /\ next_id["shm"] > 0 => next_id["sem"] > 0
  BY Keys DEF ShutdownIInv, ShutdownTypeOK, MutexFirst
<1>3. CASE UNCHANGED <<kernelVars, has, refresh, handler>>
  BY <1>1, <1>3 DEF MonitorInStep, SegmentWithin, Looping, kernelVars
<1>4. CASE OpenQueue
  <2>1. Create("queue") /\ UNCHANGED <<refresh, handler>>
    BY <1>4 DEF OpenQueue
  <2>2. /\ object'["mutex"] = object["mutex"] /\ object'["segment"] = object["segment"]
        /\ has'["mutex"] = has["mutex"] /\ has'["segment"] = has["segment"]
        /\ next_id'["sem"] = next_id["sem"] /\ next_id'["shm"] = next_id["shm"]
    BY <2>1, Keys, CreateEffect DEF ShutdownIInv, ShutdownTypeOK
  <2> QED BY <1>1, <2>1, <2>2 DEF MonitorInStep, SegmentWithin, Looping
<1>5. CASE RefreshOpen
  <2>1. Create(refresh) /\ refresh' = AfterOpen(refresh) /\ UNCHANGED handler
    BY <1>5 DEF RefreshOpen
  <2>2. ~Looping /\ handler \in {"none", "down"} /\ handler # "down"
    BY <1>1, <1>2, <1>5 DEF RefreshOpen, MonitorInStep, Looping, Up
  <2>3. CASE refresh = "mutex"
    <3>1. /\ object'["mutex"] = has'["mutex"] /\ has'["mutex"] # None
          /\ object["mutex"] # None => object'["mutex"] = object["mutex"]
                                       /\ next_id'["sem"] = next_id["sem"]
          /\ object["mutex"] = None => object'["mutex"] = next_id["sem"]
          /\ object'["segment"] = object["segment"] /\ has'["segment"] = has["segment"]
          /\ next_id'["shm"] = next_id["shm"]
      BY <2>1, <2>3, Keys, CreateEffect DEF ShutdownIInv, ShutdownTypeOK
    <3>2. refresh' = "empty"
      BY <2>1, <2>3 DEF AfterOpen
    <3>3. MonitorInStep'
      BY <1>1, <2>1, <2>2, <3>1, <3>2 DEF MonitorInStep, Looping
    <3>4. object["segment"] > 0 => next_id["sem"] > 0
      BY <1>2 DEF Id
    <3>5. object["mutex"] = None /\ next_id["sem"] = 0 =>
             next_id["shm"] = 0 /\ object["segment"] = None
      BY <1>2 DEF Id
    <3>6. object["mutex"] # None \/ next_id["sem"] = 0 \/ object'["mutex"] > 0
      BY <1>2, <3>1
    <3> QED BY <1>1, <1>2, <2>1, <2>2, <3>1, <3>3, <3>4, <3>5, <3>6 DEF SegmentWithin
  <2>4. CASE refresh \in {"empty", "full"}
    <3>1. /\ object'["mutex"] = object["mutex"] /\ object'["segment"] = object["segment"]
          /\ has'["mutex"] = has["mutex"] /\ has'["segment"] = has["segment"]
          /\ next_id["sem"] <= next_id'["sem"] /\ next_id'["shm"] = next_id["shm"]
      BY <2>1, <2>4, Keys, CreateEffect DEF ShutdownIInv, ShutdownTypeOK
    <3>2. refresh' \in {"full", "segment"}
      BY <2>1, <2>4 DEF AfterOpen
    <3> QED BY <1>1, <1>2, <2>1, <2>2, <2>4, <3>1, <3>2 DEF MonitorInStep, SegmentWithin,
               Looping
  <2>5. CASE refresh = "segment"
    <3>1. /\ object'["segment"] = has'["segment"] /\ has'["segment"] # None
          /\ object["segment"] # None => object'["segment"] = object["segment"]
                                         /\ next_id'["shm"] = next_id["shm"]
          /\ object["segment"] = None => object'["segment"] = next_id["shm"]
                                         /\ next_id'["shm"] = next_id["shm"] + 1
          /\ object'["mutex"] = object["mutex"] /\ has'["mutex"] = has["mutex"]
          /\ next_id'["sem"] = next_id["sem"]
      BY <2>1, <2>5, Keys, CreateEffect DEF ShutdownIInv, ShutdownTypeOK
    <3>2. refresh' = "p_mutex"
      BY <2>1, <2>5 DEF AfterOpen
    <3> QED BY <1>1, <1>2, <2>1, <2>2, <2>5, <3>1, <3>2 DEF MonitorInStep, SegmentWithin,
               Looping, Id
  <2> QED BY <1>5, <2>3, <2>4, <2>5 DEF RefreshOpen
<1>6. CASE RefreshP \/ RefreshV
  BY <1>1, <1>6 DEF RefreshP, RefreshV, MonitorInStep, SegmentWithin, Looping,
     kernelVars
<1>7. CASE RefreshFails \/ Exit
  <2>1. handler = "exit"
    BY <1>1, <1>7 DEF RefreshFails, Exit, MonitorInStep
  <2> QED BY <1>1, <1>7, <2>1 DEF RefreshFails, Exit, EndProcess, MonitorInStep,
             SegmentWithin, Looping, kernelVars
<1>8. CASE Interrupt
  <2>1. handler = "none" /\ handler' = "msgctl" /\ UNCHANGED <<next_id, object, has, refresh>>
    BY <1>8 DEF Interrupt, kernelVars
  <2>2. Looping
    BY <1>8, Zenon DEF Interrupt, Looping
  <2> QED BY <1>1, <2>1, <2>2 DEF MonitorInStep, SegmentWithin, Looping
<1>9. CASE RemoveQueue
  <2>1. /\ object'["mutex"] = object["mutex"] /\ object'["segment"] = object["segment"]
        /\ handler = "msgctl" /\ handler' = "shmctl" /\ UNCHANGED <<next_id, has, refresh>>
    BY <1>9, Keys DEF RemoveQueue, Remove
  <2> QED BY <1>1, <1>2, <2>1 DEF MonitorInStep, SegmentWithin, Looping, Id
<1>10. CASE RemoveSegment
  <2>1. /\ object'["mutex"] = object["mutex"]
        /\ object'["segment"] = IF object["segment"] = 0 THEN None ELSE object["segment"]
        /\ handler = "shmctl" /\ handler' = "semctl" /\ UNCHANGED <<next_id, has, refresh>>
    BY <1>10, Keys DEF RemoveSegment, Remove
  <2> QED BY <1>1, <1>2, <2>1 DEF MonitorInStep, SegmentWithin, Looping, Id
<1>11. CASE RemoveSemaphore
  <2>1. /\ object'["mutex"] = IF object["mutex"] = 0 THEN None ELSE object["mutex"]
        /\ object'["segment"] = object["segment"]
        /\ handler = "semctl" /\ handler' = "exit" /\ UNCHANGED <<next_id, has, refresh>>
    BY <1>11, Keys DEF RemoveSemaphore, Remove
  <2> QED BY <1>1, <1>2, <2>1 DEF MonitorInStep, SegmentWithin, Looping, Id
<1>12. CASE Restart
  BY <1>1, <1>12 DEF Restart, MonitorInStep, SegmentWithin, Looping,
     kernelVars
<1>13. ASSUME NEW c \in Cgi, CgiOpen(c) \/ CgiP(c) \/ CgiEnds(c)
       PROVE  UNCHANGED <<kernelVars, has, refresh, handler>>
  BY <1>13 DEF CgiOpen, CgiP, CgiEnds
<1> QED BY <1>3, <1>4, <1>5, <1>6, <1>7, <1>8, <1>9, <1>10, <1>11, <1>12, <1>13 DEF ShutdownNext,
           shutdownVars

\* The side of a page: it finds the first segment only while the first mutex is there, and
\* gets in by the mutex that exists.
LEMMA PageStep ==
    ASSUME ShutdownIInv, [ShutdownNext]_shutdownVars, ~early, NEW q \in Cgi
    PROVE  PageInStep(q)'
<1> USE DEF None
<1>1. SegmentWithin /\ PageInStep(q)
  BY DEF ShutdownIInv, InStep
<1>2. /\ object["mutex"] \in Id /\ object["segment"] \in Id
      /\ fetched[q]["mutex"] \in Id /\ fetched[q]["segment"] \in Id
      /\ object["mutex"] < next_id["sem"] /\ object["segment"] < next_id["shm"]
      /\ next_id["sem"] \in Nat /\ next_id["shm"] \in Nat
      /\ cgi[q] \in {"mutex", "empty", "full", "segment", "p_mutex", "read"}
  BY Keys DEF ShutdownIInv, ShutdownTypeOK
<1>3. /\ fetched[q]["mutex"] \notin {None, 0} => object["mutex"] = fetched[q]["mutex"]
      /\ fetched[q]["segment"] \notin {None, 0} => object["segment"] = fetched[q]["segment"]
  BY Keys DEF ShutdownIInv, ZeroGoes
<1>4. CASE fetched'[q] = fetched[q] /\ cgi'[q] = cgi[q]
  BY <1>1, <1>4 DEF PageInStep, Reads
<1>5. CASE fetched'[q] = Nothing /\ cgi'[q] = "mutex"
  BY <1>5, Keys DEF PageInStep, Reads, Nothing
<1>6. ASSUME NEW c \in Cgi, CgiOpen(c) PROVE PageInStep(q)'
  <2>1. CASE c # q
    BY <1>4, <1>6, <2>1 DEF CgiOpen, PageEnds, ShutdownIInv, ShutdownTypeOK
  <2>2. CASE c = q /\ object[cgi[q]] = None
    BY <1>5, <1>6, <2>2 DEF CgiOpen, PageEnds, ShutdownIInv, ShutdownTypeOK
  <2>3. CASE c = q /\ object[cgi[q]] # None
    <3>1. /\ fetched' = [fetched EXCEPT ![q][cgi[q]] = object[cgi[q]]]
          /\ cgi' = [cgi EXCEPT ![q] = AfterOpen(@)]
          /\ cgi[q] \in {"mutex", "empty", "full", "segment"}
      BY <1>6, <2>3 DEF CgiOpen
    <3>2. cgi'[q] = AfterOpen(cgi[q])
      BY <3>1 DEF ShutdownIInv, ShutdownTypeOK
    <3>3. \A k \in Key : fetched'[q][k] = IF k = cgi[q] THEN object[k] ELSE fetched[q][k]
      BY <3>1, Keys DEF ShutdownIInv, ShutdownTypeOK
    <3>4. CASE cgi[q] = "mutex"
      <4>1. fetched'[q]["mutex"] = object["mutex"] /\ object["mutex"] # None
            /\ fetched'[q]["segment"] = fetched[q]["segment"] /\ cgi'[q] = "empty"
        BY <2>3, <3>2, <3>3, <3>4, Keys DEF AfterOpen
      <4>2. fetched[q]["segment"] # 0
        BY <1>1, <3>4 DEF PageInStep
      <4> QED BY <4>1, <4>2 DEF PageInStep, Reads
    <3>5. CASE cgi[q] \in {"empty", "full"}
      <4>1. fetched'[q]["mutex"] = fetched[q]["mutex"]
            /\ fetched'[q]["segment"] = fetched[q]["segment"] /\ cgi'[q] \in {"full", "segment"}
        BY <3>2, <3>3, <3>5, Keys DEF AfterOpen
      <4> QED BY <1>1, <3>5, <4>1 DEF PageInStep, Reads
    <3>6. CASE cgi[q] = "segment"
      <4>1. fetched'[q]["mutex"] = fetched[q]["mutex"] /\ object["segment"] # None
            /\ fetched'[q]["segment"] = object["segment"] /\ cgi'[q] = "p_mutex"
        BY <2>3, <3>2, <3>3, <3>6, Keys DEF AfterOpen
      <4>2. fetched[q]["mutex"] # None
        BY <1>1, <3>6 DEF PageInStep
      <4>3. object["segment"] = 0 => fetched[q]["mutex"] = 0
        BY <1>1, <1>3, <4>2 DEF SegmentWithin
      <4> QED BY <4>1, <4>2, <4>3 DEF PageInStep, Reads
    <3> QED BY <3>1, <3>4, <3>5, <3>6
  <2> QED BY <2>1, <2>2, <2>3
<1>7. ASSUME NEW c \in Cgi, CgiP(c) PROVE PageInStep(q)'
  <2>1. CASE c # q
    BY <1>4, <1>7, <2>1 DEF CgiP, ShutdownIInv, ShutdownTypeOK
  <2>2. CASE c = q
    <3>1. /\ cgi[q] = "p_mutex" /\ cgi'[q] = "read" /\ fetched' = fetched
          /\ fetched[q]["mutex"] = object["mutex"]
      BY <1>7, <2>2 DEF CgiP, ShutdownIInv, ShutdownTypeOK
    <3>2. fetched[q]["mutex"] # None /\ fetched[q]["segment"] # None
      BY <1>1, <3>1 DEF PageInStep
    <3>3. fetched[q]["mutex"] = 0 => fetched[q]["segment"] = 0
      BY <1>1, <1>2, <1>3, <3>1, <3>2 DEF SegmentWithin, Id
    <3> QED BY <1>1, <3>1, <3>2, <3>3 DEF PageInStep, Reads
  <2> QED BY <2>1, <2>2
<1>8. ASSUME NEW c \in Cgi, CgiEnds(c) PROVE PageInStep(q)'
  <2>1. CASE c # q
    BY <1>4, <1>8, <2>1 DEF CgiEnds, PageEnds, ShutdownIInv, ShutdownTypeOK
  <2>2. CASE c = q
    BY <1>5, <1>8, <2>2 DEF CgiEnds, PageEnds, ShutdownIInv, ShutdownTypeOK
  <2> QED BY <2>1, <2>2
<1>9. ASSUME UNCHANGED <<fetched, cgi>> PROVE PageInStep(q)'
  BY <1>4, <1>9
<1> QED BY <1>6, <1>7, <1>8, <1>9 DEF ShutdownNext, shutdownVars, OpenQueue, RefreshOpen,
           RefreshP, RefreshV, RefreshFails, EndProcess, Interrupt,
           Remove, RemoveQueue, RemoveSegment, RemoveSemaphore, Exit,
           Restart

LEMMA IpcNext ==
    ASSUME ShutdownIInv, [ShutdownNext]_shutdownVars
    PROVE  ShutdownIInv'
<1>1. ShutdownTypeOK' /\ MadeBefore' /\ ZeroGoes' /\ MutexFirst'
  BY TypeStep, MadeStep, ZeroStep, MutexStep DEF ShutdownIInv
<1>2. early => early'
  BY DEF ShutdownNext, shutdownVars, OpenQueue, RefreshOpen, RefreshP, RefreshV,
     RefreshFails, EndProcess, Interrupt, Remove, RemoveQueue,
     RemoveSegment, RemoveSemaphore, Exit, Restart, CgiOpen, CgiP,
     CgiEnds, historyVars
<1>3. InStep'
  BY <1>2, MonitorStep, PageStep DEF InStep
<1> QED BY <1>1, <1>3 DEF ShutdownIInv

LEMMA IpcHolds ==
    ShutdownSpec => []ShutdownIInv
<1>1. ShutdownInit => ShutdownIInv
  BY IpcInit
<1>2. ShutdownIInv /\ [ShutdownNext]_shutdownVars => ShutdownIInv'
  BY IpcNext
<1> QED BY <1>1, <1>2, PTL DEF ShutdownSpec

\* Whatever is interrupted and whoever reads meanwhile, the handler (main.c:115-117) removes one
\* queue, one segment and one semaphore since the kernel booted, and never one but the mutex.
THEOREM ReleasedOnce ==
    ShutdownSpec => []ShutdownInv
<1>1. ShutdownIInv => ShutdownInv
  <2> SUFFICES ASSUME ShutdownIInv PROVE SemaphoresStay
    BY DEF ShutdownInv, ShutdownInv, ShutdownIInv, ZeroGoes
  <2> QED BY Keys DEF ShutdownIInv, ZeroGoes, MutexFirst, SemaphoresStay
<1> QED BY <1>1, IpcHolds, PTL

\* With no handler before the refresh thread's loop, a page has the mutex of the monitor that
\* runs just when it has that monitor's segment, for any number of pages and lives.
THEOREM MutexAndSegmentTogether ==
    ShutdownSpec => []TogetherUnlessEarly
<1>1. ASSUME ShutdownIInv, ~early, NEW c \in Cgi, Reads(c), InLoop
      PROVE  fetched[c]["mutex"] = has["mutex"] <=> fetched[c]["segment"] = has["segment"]
  <2>1. MonitorInStep /\ SegmentWithin /\ PageInStep(c)
    BY <1>1 DEF ShutdownIInv, InStep
  <2>2. /\ object["mutex"] = has["mutex"] /\ has["mutex"] # None
        /\ object["segment"] = has["segment"] /\ has["segment"] # None
        /\ next_id["shm"] > 0 /\ handler = "none"
    BY <1>1, <2>1 DEF MonitorInStep, InLoop, Looping
  <2>3. object["mutex"] = 0 <=> object["segment"] = 0
    BY <2>1, <2>2 DEF SegmentWithin
  <2>4. /\ fetched[c]["mutex"] # None /\ fetched[c]["segment"] # None
        /\ fetched[c]["mutex"] = 0 <=> fetched[c]["segment"] = 0
    BY <1>1, <2>1 DEF PageInStep, Reads
  <2>5. /\ fetched[c]["mutex"] # 0 => object["mutex"] = fetched[c]["mutex"]
        /\ fetched[c]["segment"] # 0 => object["segment"] = fetched[c]["segment"]
    BY <1>1, <2>4, Keys DEF ShutdownIInv, ZeroGoes
  <2> QED BY <2>2, <2>3, <2>4, <2>5
<1>2. ShutdownIInv => TogetherUnlessEarly
  BY <1>1 DEF TogetherUnlessEarly, TogetherUnlessEarly
<1> QED BY <1>2, IpcHolds, PTL
=============================================================================
