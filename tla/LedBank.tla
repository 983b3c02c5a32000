------------------------------ MODULE LedBank ------------------------------
(***************************************************************************)
(* The four LEDs of the board, driven by two threads of the monitor: the   *)
(* LED worker (pthread_led.c) and the segment worker (pthread_seg.c), which *)
(* shows a digit in binary.  Each holds its own mutex only, so that their  *)
(* ioctls meet in the LED driver, which reads a port register, changes one *)
(* bit and writes it back without a lock.                                  *)
(*                                                                         *)
(* A worker turns its command byte into a job, the sequence of ioctls it   *)
(* makes.  An ioctl is two steps, readl and writel.                        *)
(***************************************************************************)
EXTENDS Integers, Sequences

CONSTANTS
    LedBytes,   \* the command bytes the LED worker may find
    SegBytes,   \* those the segment worker may find
    Times       \* rounds of the water lamp

Value == SUBSET {0, 4, 5, 7}

ASSUME LedBankAssumption ==
    /\ LedBytes \subseteq 0..255
    /\ SegBytes \subseteq 0..255
    /\ Times \in Nat

VARIABLES
    loaded,   \* whether the driver module was inserted
    reg,      \* the bits that are set in each data register
    job,      \* the ioctls each worker still has to make
    inside,   \* whether a worker is between readl and writel
    held,     \* what its readl returned, empty outside
    told,     \* the LEDs that were switched on by the last ioctl for them
    doing,    \* the command each worker acted upon last, 0 if none
    before,   \* the LEDs that were lit when it began
    alone     \* whether the other worker has made no ioctl since

vars == <<loaded, reg, job, inside, held, told, doing, before, alone>>

Worker == {"led", "seg"}
Led == 2..5
Port == {"gpx1", "gpx2", "gpf3"}
\* Bit 0 of GPX2DAT drives no LED.
Pins == [gpx1 |-> {0}, gpx2 |-> {0, 7}, gpf3 |-> {4, 5}]
Step == [led: Led, on: BOOLEAN]

----------------------------------------------------------------------------
(* a9_led_drv.c *)

\* Mutant of PinOf: LED3 on bit 0 of GPX2DAT, as in line 156 of the driver.
PinOfInit(l) ==
    CASE l = 2 -> [port |-> "gpx2", bit |-> 7]
      [] l = 3 -> [port |-> "gpx2", bit |-> 0]
      [] l = 4 -> [port |-> "gpf3", bit |-> 4]
      [] l = 5 -> [port |-> "gpf3", bit |-> 5]

PinOf(l) ==
    CASE l = 2 -> [port |-> "gpx2", bit |-> 7]
      [] l = 3 -> [port |-> "gpx1", bit |-> 0]
      [] l = 4 -> [port |-> "gpf3", bit |-> 4]
      [] l = 5 -> [port |-> "gpf3", bit |-> 5]

LitBy(r) == {l \in Led : PinOf(l).bit \in r[PinOf(l).port]}
Lit == LitBy(reg)

\* The registers hold what the boot loader left.
Init ==
    /\ loaded = FALSE
    /\ reg \in {r \in [Port -> Value] : \A p \in Port : r[p] \subseteq Pins[p]}
    /\ job = [w \in Worker |-> <<>>]
    /\ inside = [w \in Worker |-> FALSE]
    /\ held = [w \in Worker |-> {}]
    /\ told = {}
    /\ doing = [w \in Worker |-> 0]
    /\ before = [w \in Worker |-> {}]
    /\ alone = [w \in Worker |-> FALSE]

\* insmod, before the monitor opens the device.
DriverInit ==
    /\ ~loaded
    /\ loaded' = TRUE
    /\ reg' = [reg EXCEPT !["gpx2"] = @ \ {7, 0}, !["gpf3"] = @ \ {4, 5}]
    /\ told' = LitBy(reg')
    /\ UNCHANGED <<job, inside, held, doing, before, alone>>

ReadRegister(w) ==
    /\ job[w] # <<>>
    /\ ~inside[w]
    /\ inside' = [inside EXCEPT ![w] = TRUE]
    /\ held' = [held EXCEPT ![w] = reg[PinOf(Head(job[w]).led).port]]
    /\ UNCHANGED <<loaded, reg, job, told, doing, before, alone>>

Changed(value, bit, on) == IF on THEN value \cup {bit} ELSE value \ {bit}

WriteRegister(w) ==
    /\ inside[w]
    /\ LET step == Head(job[w])
           pin == PinOf(step.led)
       IN  /\ reg' = [reg EXCEPT ![pin.port] = Changed(held[w], pin.bit, step.on)]
           /\ told' = Changed(told, step.led, step.on)
    /\ job' = [job EXCEPT ![w] = Tail(@)]
    /\ inside' = [inside EXCEPT ![w] = FALSE]
    /\ held' = [held EXCEPT ![w] = {}]
    /\ UNCHANGED <<loaded, doing, before, alone>>

----------------------------------------------------------------------------
(* pthread_led.c and pthread_seg.c *)

All(on) == [i \in 1..4 |-> [led |-> i + 1, on |-> on]]

\* Each LED is lit and put out, one after the other.
WaterLamp ==
    [i \in 1..8 * Times |-> [led |-> 2 + (((i - 1) \div 2) % 4), on |-> i % 2 = 1]]

LedJob(c) ==
    CASE c = 64 -> All(FALSE)
      [] c = 65 -> All(TRUE)
      [] c \in 66..69 -> <<[led |-> c - 64, on |-> TRUE]>>
      [] c = 70 -> WaterLamp
      [] OTHER -> <<>>

\* The loop of fsled_control ends with the highest bit that is set.
BitSet(n, k) == (n \div <<1, 2, 4, 8>>[k + 1]) % 2 = 1
BitLength(n) ==
    CASE n = 0 -> 0
      [] n = 1 -> 1
      [] n \in 2..3 -> 2
      [] n \in 4..7 -> 3
      [] n \in 8..15 -> 4
Digit(n) == [k \in 1..BitLength(n) |-> [led |-> k + 1, on |-> BitSet(n, k - 1)]]

\* Mutant of SegJob: without fsled_close_all.
SegJobOver(c) == IF c \div 16 = 7 THEN Digit(c % 16) ELSE <<>>

SegJob(c) == IF c \div 16 = 7 THEN All(FALSE) \o Digit(c % 16) ELSE <<>>

Job(w, c) == IF w = "led" THEN LedJob(c) ELSE SegJob(c)

\* A worker that has nothing to do is woken with command byte c.
Begin(w, c) ==
    /\ loaded
    /\ job[w] = <<>>
    /\ Job(w, c) # <<>>
    /\ job' = [job EXCEPT ![w] = Job(w, c)]
    /\ doing' = [doing EXCEPT ![w] = c]
    /\ before' = [before EXCEPT ![w] = Lit]
    /\ alone' = [v \in Worker |-> v = w /\ \A u \in Worker : job[u] = <<>>]
    /\ UNCHANGED <<loaded, reg, inside, held, told>>

\* The monitor is interrupted; a thread inside of an ioctl completes it.
Interrupt ==
    /\ job' = [w \in Worker |-> IF inside[w] THEN <<Head(job[w])>> ELSE <<>>]
    /\ doing' = [w \in Worker |-> 0]
    /\ alone' = [w \in Worker |-> FALSE]
    /\ UNCHANGED <<loaded, reg, inside, held, told, before>>

----------------------------------------------------------------------------
Next ==
    \/ DriverInit
    \/ \E w \in Worker : ReadRegister(w) \/ WriteRegister(w)
    \/ \E c \in LedBytes : Begin("led", c)
    \/ \E c \in SegBytes : Begin("seg", c)
    \/ Interrupt

Spec == Init /\ [][Next]_vars
----------------------------------------------------------------------------
(* Properties *)

TypeOK ==
    /\ loaded \in BOOLEAN
    /\ reg \in [Port -> Value]
    /\ job \in [Worker -> Seq(Step)]
    /\ inside \in [Worker -> BOOLEAN]
    /\ held \in [Worker -> Value]
    /\ told \in SUBSET Led
    /\ doing \in [Worker -> 0..255]
    /\ before \in [Worker -> SUBSET Led]
    /\ alone \in [Worker -> BOOLEAN]

\* LED2 and LED3 have a port register of their own (a9_led_drv.c:91-96): however
\* the two workers overlap, they are as the last ioctl for them left them.
PrivateLeds == loaded => Lit \cap {2, 3} = told \cap {2, 3}

\* LED4 and LED5 share GPF3DAT (lines 98-101), and one can lose its update to the
\* other, but never both at a time.
Wrong == (Lit \ told) \cup (told \ Lit)
OneWrongAtMost == loaded => \A k, l \in Wrong : k = l

\* What the missing lock of the driver can cost: the last update of one LED.
LostUpdatesBounded == PrivateLeds /\ OneWrongAtMost

\* What a command shows when the other worker keeps quiet: all LEDs off or
\* on, one LED added to those that were lit, the dark end of the water lamp, or a
\* digit in binary with LED2 as bit 0.
Shown(w, c, lit) ==
    CASE w = "led" /\ c = 65 -> Led
      [] w = "led" /\ c \in 66..69 -> lit \cup {c - 64}
      [] w = "led" /\ c = 70 /\ Times = 0 -> lit
      [] w = "led" /\ c \in {64, 70} -> {}
      [] w = "seg" -> {l \in Led : BitSet(c, l - 2)}

\* A job that the other worker did not disturb ends with what its command is
\* to show (pthread_led.c:28-70, pthread_seg.c:27-70).
UndisturbedEffect ==
    \A w \in Worker :
        alone[w] /\ job[w] = <<>> => Lit = Shown(w, doing[w], before[w])

----------------------------------------------------------------------------
(* The inductive invariant behind PrivateLeds and OneWrongAtMost *)

\* An ioctl under way has its step still in the job, and nothing runs before
\* the driver is loaded.
StepsOK ==
    \A w \in Worker :
        /\ inside[w] => job[w] # <<>>
        /\ job[w] # <<>> => loaded

LedInv == TypeOK /\ StepsOK /\ PrivateLeds /\ OneWrongAtMost
============================================================================
