-------------------------- MODULE SampleCollection --------------------------
(***************************************************************************)
(* One round of pthread_transfer.c over the A9's own devices, with the     *)
(* ioctl of a9_mpu6050_drv.c under it.  A word of the sensor is read in    *)
(* two transfers, low byte first, while the sensor goes on measuring; a    *)
(* device that could not be opened fails every call, and the round carries *)
(* on with what its variables hold.                                        *)
(*                                                                         *)
(* Of the three axes of a kind one is modelled: the others are read after  *)
(* it in the same way.  The ADC is AdcDriver, the node ZigbeeNet.          *)
(***************************************************************************)
EXTENDS Integers

CONSTANTS
    Byte,     \* the values of a byte, 256
    Unset,    \* what a variable holds that was never assigned
    MaxRounds \* bound on the rounds

ASSUME SampleAssumption ==
    /\ Byte \in Nat \ {0}
    /\ MaxRounds \in Nat
    /\ Unset \notin 0..Byte * Byte
    /\ Unset \notin 0..MaxRounds

Kind == {"gyro", "accel"}
Word == 0..Byte * Byte - 1
Low(w) == w % Byte
High(w) == w \div Byte

VARIABLES
    adc_fd, mpu_fd,      \* whether the device was opened
    locked,              \* mutex_transfer, which no other thread takes
    twice,               \* whether it was unlocked when it was not locked
    pc,                  \* program counter of the transfer thread
    rounds,              \* the rounds begun
    sensor,              \* the registers of the MPU6050
    data,                \* the word the ioctl has read so far
    high_at,             \* what the registers held when the high byte was read
    lost,                \* whether a transfer of this ioctl failed
    adc_sensor_data, mpu6050_sensor_data,  \* the thread's variables
    env                  \* a9_info of sm_all_env_info.monitor_no[home_id]

mutexVars == <<locked, twice>>
ioctlVars == <<data, high_at, lost>>
vars == <<adc_fd, mpu_fd, mutexVars, pc, rounds, sensor, ioctlVars,
          adc_sensor_data, mpu6050_sensor_data, env>>

At(label) == <<label, "none">>

Init ==
    /\ adc_fd \in BOOLEAN
    /\ mpu_fd \in BOOLEAN
    /\ locked = FALSE
    /\ twice = FALSE
    /\ pc = At("lock")
    /\ rounds = 0
    /\ sensor \in [Kind -> Word]
    /\ data = 0
    /\ high_at = [k \in Kind |-> 0]
    /\ lost = [k \in Kind |-> FALSE]
    /\ adc_sensor_data = Unset
    /\ mpu6050_sensor_data = [k \in Kind |-> Unset]
    /\ env = [adc |-> 0, gyro |-> 0, accel |-> 0]

Unlock ==
    /\ locked' = FALSE
    /\ twice' = (twice \/ ~locked)

----------------------------------------------------------------------------
(* The sensor, and the mutex and the condition at the head of the round *)

Measure ==
    /\ \E k \in Kind, w \in Word : sensor' = [sensor EXCEPT ![k] = w]
    /\ UNCHANGED <<adc_fd, mpu_fd, mutexVars, pc, rounds, ioctlVars,
                   adc_sensor_data, mpu6050_sensor_data, env>>

\* Locks the mutex, which pthread_cond_wait gives up again.
Wait ==
    /\ pc = At("lock")
    /\ ~locked
    /\ rounds < MaxRounds
    /\ rounds' = rounds + 1
    /\ pc' = At("wait")
    /\ UNCHANGED <<adc_fd, mpu_fd, mutexVars, sensor, ioctlVars,
                   adc_sensor_data, mpu6050_sensor_data, env>>

Wake ==
    /\ pc = At("wait")
    /\ locked' = TRUE
    /\ pc' = At("adc")
    /\ UNCHANGED <<adc_fd, mpu_fd, twice, rounds, sensor, ioctlVars,
                   adc_sensor_data, mpu6050_sensor_data, env>>

----------------------------------------------------------------------------
(* The readings *)

\* Mutant of ReadAdc: the unlock of the error path is reached by every round.
ReadAdcUnlocks ==
    /\ pc = At("adc")
    /\ adc_sensor_data' = IF adc_fd THEN rounds ELSE adc_sensor_data
    /\ Unlock
    /\ env' = [env EXCEPT !.adc = adc_sensor_data']
    /\ pc' = <<"low", "gyro">>
    /\ UNCHANGED <<adc_fd, mpu_fd, rounds, sensor, ioctlVars, mpu6050_sensor_data>>

\* A reading of the ADC is the number of its round.
ReadAdc ==
    /\ pc = At("adc")
    /\ \/ adc_fd /\ adc_sensor_data' = rounds /\ UNCHANGED mutexVars
       \/ ~adc_fd /\ Unlock /\ UNCHANGED adc_sensor_data
    /\ env' = [env EXCEPT !.adc = adc_sensor_data']
    /\ pc' = <<"low", "gyro">>
    /\ UNCHANGED <<adc_fd, mpu_fd, rounds, sensor, ioctlVars, mpu6050_sensor_data>>

\* Mutant of ReadLow: the byte is sign-extended.
ReadLowSigned(k) ==
    /\ pc = <<"low", k>>
    /\ mpu_fd
    /\ data' = IF 2 * Low(sensor[k]) >= Byte THEN Low(sensor[k]) - Byte
                                             ELSE Low(sensor[k])
    /\ lost' = [lost EXCEPT ![k] = FALSE]
    /\ pc' = <<"high", k>>
    /\ UNCHANGED <<adc_fd, mpu_fd, mutexVars, rounds, sensor, high_at,
                   adc_sensor_data, mpu6050_sensor_data, env>>

\* mpu6050_read returns 0 when i2c_transfer fails; it has nothing to report it with.
ReadLow(k) ==
    /\ pc = <<"low", k>>
    /\ mpu_fd
    /\ \/ data' = Low(sensor[k]) /\ lost' = [lost EXCEPT ![k] = FALSE]
       \/ data' = 0 /\ lost' = [lost EXCEPT ![k] = TRUE]
    /\ pc' = <<"high", k>>
    /\ UNCHANGED <<adc_fd, mpu_fd, mutexVars, rounds, sensor, high_at,
                   adc_sensor_data, mpu6050_sensor_data, env>>

\* The ioctl copies its whole structure out, and has set one word of it.
ReadHigh(k) ==
    /\ pc = <<"high", k>>
    /\ \E failed \in BOOLEAN :
          /\ mpu6050_sensor_data' =
                [j \in Kind |-> IF j # k THEN Unset
                                ELSE IF failed THEN data
                                ELSE data + Byte * High(sensor[k])]
          /\ lost' = [lost EXCEPT ![k] = @ \/ failed]
    /\ high_at' = [high_at EXCEPT ![k] = sensor[k]]
    /\ pc' = <<"store", k>>
    /\ UNCHANGED <<adc_fd, mpu_fd, mutexVars, rounds, sensor, data,
                   adc_sensor_data, env>>

IoctlFails(k) ==
    /\ pc = <<"low", k>>
    /\ ~mpu_fd
    /\ Unlock
    /\ pc' = <<"store", k>>
    /\ UNCHANGED <<adc_fd, mpu_fd, rounds, sensor, ioctlVars,
                   adc_sensor_data, mpu6050_sensor_data, env>>

AfterStore(k) == IF k = "gyro" THEN <<"low", "accel">> ELSE At("unlock")

Store(k) ==
    /\ pc = <<"store", k>>
    /\ env' = [env EXCEPT ![k] = mpu6050_sensor_data[k]]
    /\ pc' = AfterStore(k)
    /\ UNCHANGED <<adc_fd, mpu_fd, mutexVars, rounds, sensor, ioctlVars,
                   adc_sensor_data, mpu6050_sensor_data>>

\* Mutant of Finish: the mutex is left to the error paths.
FinishLocked ==
    /\ pc = At("unlock")
    /\ pc' = At("lock")
    /\ UNCHANGED <<adc_fd, mpu_fd, mutexVars, rounds, sensor, ioctlVars,
                   adc_sensor_data, mpu6050_sensor_data, env>>

Finish ==
    /\ pc = At("unlock")
    /\ Unlock
    /\ pc' = At("lock")
    /\ UNCHANGED <<adc_fd, mpu_fd, rounds, sensor, ioctlVars,
                   adc_sensor_data, mpu6050_sensor_data, env>>

----------------------------------------------------------------------------
Transfer ==
    \/ Wait \/ Wake \/ ReadAdc \/ Finish
    \/ \E k \in Kind : ReadLow(k) \/ ReadHigh(k) \/ IoctlFails(k) \/ Store(k)

Next == Transfer \/ Measure

Spec == Init /\ [][Next]_vars

\* The scheduler runs the thread, and the refresh thread signals it again and again
\* (EnvExchange).
FairSpec == Spec /\ WF_vars(Transfer)

----------------------------------------------------------------------------
(* Properties *)

TypeOK ==
    /\ adc_fd \in BOOLEAN /\ mpu_fd \in BOOLEAN
    /\ locked \in BOOLEAN /\ twice \in BOOLEAN
    /\ pc \in {At(l) : l \in {"lock", "wait", "adc", "unlock"}}
             \cup {"low", "high", "store"} \X Kind
    /\ rounds \in 0..MaxRounds
    /\ sensor \in [Kind -> Word]
    /\ data \in 0..Byte - 1
    /\ high_at \in [Kind -> Word]
    /\ lost \in [Kind -> BOOLEAN]
    /\ adc_sensor_data \in 0..MaxRounds \cup {Unset}
    /\ mpu6050_sensor_data \in [Kind -> Word \cup {Unset}]
    /\ DOMAIN env = {"adc"} \cup Kind
    /\ env.adc \in 0..MaxRounds \cup {Unset}
    /\ \A k \in Kind : env[k] \in Word \cup {Unset}

\* The ioctl hands out a structure of which it has set one part (a9_mpu6050_drv.c:117-151),
\* into the variable that the other part is read from: nevertheless a value that was never
\* set is stored only for a device that could not be opened.
NothingMadeUp ==
    /\ env.adc = Unset => ~adc_fd
    /\ \A k \in Kind : env[k] = Unset => ~mpu_fd

OneStepApart(w, v) == w - v \in 1 - Byte..Byte - 1 /\ High(w) = High(v)

\* The two bytes of a word may belong to two measurements (a9_mpu6050_drv.c:122-123).
\* What is stored is then less than one step of the high byte away from the later one,
\* and of its sign, unless a transfer failed.
WithinByte ==
    \A k \in Kind :
        pc = AfterStore(k) /\ mpu_fd /\ ~lost[k] => OneStepApart(env[k], high_at[k])

\* What the thread stores is what it has read.
StoredAsRead == NothingMadeUp /\ WithinByte

\* The error paths give the mutex up in the middle of the round and again at its end
\* (pthread_transfer.c:68, 76, 85, 93); with both devices open the thread unlocks once
\* and stores only with the mutex held.
UnlockedOnce ==
    adc_fd /\ mpu_fd =>
        ~twice /\ (pc \in {At("adc"), At("unlock")} \cup {"low", "high", "store"} \X Kind
                       => locked)

\* The mutex, and the types of everything the thread reads and stores.
SampleInv == TypeOK /\ UnlockedOnce

\* Whatever devices are missing, the thread gets round to its wait again and does not
\* lock itself out of its own mutex.
ComesRound == pc = At("adc") ~> pc = At("lock") /\ ~locked
=============================================================================
