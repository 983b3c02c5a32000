---------------------------- MODULE ControlForms ----------------------------
(***************************************************************************)
(* From the forms of a9_zigbee1.html to the devices.  A control CGI turns  *)
(* a form into one byte, 0 s t t v v v v: the house s, the type t of the    *)
(* device and a value v, and queues it; the worker of the device compares  *)
(* the byte with the ones it knows.                                        *)
(*                                                                         *)
(* The threads between the queue and the devices are in CommandDispatch,   *)
(* the ioctls of the LEDs in LedBank; here a worker acts in one step.      *)
(***************************************************************************)
EXTENDS Integers, Sequences

CONSTANTS
    Texts,        \* what the fields for a number may hold, see Text
    QueueLimit,   \* messages that fit in the queue
    MaxForms,     \* bound on the forms ever sent
    MaxStarts     \* how often the monitor may be started

\* What a CGI sees of the text of a field: the digit that is its first character, or
\* that this is no digit, and the number that atoi reads from it.
NoDigit == -1
Text == [first: 0..9 \cup {NoDigit}, value: Int]

ASSUME FormsAssumption ==
    /\ Texts \subseteq Text
    /\ QueueLimit \in Nat \ {0}
    /\ MaxForms \in Nat
    /\ MaxStarts \in Nat \ {0}

VARIABLES
    up,       \* whether the monitor runs
    queue,    \* the messages in the queue
    handled,  \* the message handled last since the start, or none
    lights,   \* the LEDs that are lit
    buzzer,   \* whether the buzzer sounds
    fan,      \* the text the fan thread wrote last
    forms,    \* forms ever sent
    starts    \* how often the monitor was started

deviceVars == <<lights, buzzer, fan>>
formsVars == <<up, queue, handled, deviceVars, forms, starts>>

LedNumber == 2..5
Device == {"led", "buzzer", "seg", "fan"}

\* A form: the CGI it calls, the text of its field, and the radio button.
Form == [to: Device, text: Texts, button: {"on", "off", "none"}]
NoForm == [to |-> "none", text |-> [first |-> NoDigit, value |-> 0], button |-> "none"]

FormsInit ==
    /\ up = TRUE
    /\ queue = <<>>
    /\ handled = [form |-> NoForm, byte |-> 0]
    /\ lights \in SUBSET LedNumber
    /\ buzzer = FALSE
    /\ fan = "none"
    /\ forms = 0
    /\ starts = 1

----------------------------------------------------------------------------
(* The CGIs *)

House1 == 64

\* a9_led, a9_beep and zigbee_fan look at the first character only: to them 10 is 1.

\* Without "on" the sixth mode leaves the byte that was cleared.
LedByte(first, button) ==
    IF button = "on" THEN House1 + first
    ELSE IF first = 6 THEN 0 ELSE House1

BuzzerByte(first, button) ==
    House1 + 16 + (CASE first = 1 /\ button = "on" -> 1
                     [] first = 1 /\ button # "on" -> 0
                     [] first = 2 /\ button = "on" -> 2
                     [] first = 2 /\ button # "on" -> 3)

\* 0x70 | n, cut to an unsigned char.
Or(n) == (IF n % 256 < 128 THEN 112 ELSE 240) + (n % 16)

\* a9_seg reads a number; 0 <= seg_no <= 15 (line 58) is always true.
SegByte(value, button) ==
    CASE button = "on" -> Or(value)
      [] button = "off" -> House1 + 48 + 15
      [] button = "none" -> 0

\* Mutant of FanByte: what is not supported is sent like 0.
FanByteZero(first) == IF first \in 0..3 THEN 32 + first ELSE 32

\* The house is not in the byte of the fan.
FanByte(first) == IF first \in 0..3 THEN 32 + first ELSE 0

Byte(f) ==
    CASE f.to = "led" -> LedByte(f.text.first, f.button)
      [] f.to = "buzzer" -> BuzzerByte(f.text.first, f.button)
      [] f.to = "seg" -> SegByte(f.text.value, f.button)
      [] f.to = "fan" -> FanByte(f.text.first)

\* The default branches of a9_led and a9_beep return, that of zigbee_fan does not.
Sends(f) ==
    CASE f.to = "led" -> f.text.first \in 1..6
      [] f.to = "buzzer" -> f.text.first \in 1..2
      [] OTHER -> TRUE

Submit(f) ==
    /\ forms < MaxForms
    /\ forms' = forms + 1
    /\ Len(queue) < QueueLimit
    /\ queue' = IF Sends(f) THEN Append(queue, [form |-> f, byte |-> Byte(f)]) ELSE queue
    /\ UNCHANGED <<up, handled, deviceVars, starts>>

----------------------------------------------------------------------------
(* The workers *)

\* The water lamp switches every LED off after it.
LedAfter(b, lit) ==
    CASE b = 64 -> {}
      [] b = 65 -> LedNumber
      [] b \in 66..69 -> lit \cup {b - 64}
      [] b = 70 -> {}
      [] OTHER -> lit

\* The LEDs that show a digit in binary: LED2 is bit 0, LED5 bit 3.
Weight(l) == CASE l = 2 -> 1 [] l = 3 -> 2 [] l = 4 -> 4 [] l = 5 -> 8
Lamps(digit) == {l \in LedNumber : (digit \div Weight(l)) % 2 = 1}

\* Mutant of SegAfter: the mask 0x70 in place of 0xf0.
SegAfterMask(b, lit) == IF (b \div 16) % 8 = 7 THEN Lamps(b % 16) ELSE lit

SegAfter(b, lit) == IF b \div 16 = 7 THEN Lamps(b % 16) ELSE lit

BuzzerAfter(b, sounds) == IF b = 80 THEN FALSE ELSE IF b = 81 THEN TRUE ELSE sounds

FanAfter(b, text) ==
    CASE b = 32 -> "1" [] b = 33 -> "0" [] b = 34 -> "2" [] b = 35 -> "3"
      [] OTHER -> text

Handle ==
    /\ up
    /\ queue # <<>>
    /\ queue' = Tail(queue)
    /\ handled' = Head(queue)
    /\ LET to == Head(queue).form.to
           b == Head(queue).byte
       IN  /\ lights' = IF to = "led" THEN LedAfter(b, lights)
                        ELSE IF to = "seg" THEN SegAfter(b, lights) ELSE lights
           /\ buzzer' = IF to = "buzzer" THEN BuzzerAfter(b, buzzer) ELSE buzzer
           /\ fan' = IF to = "fan" THEN FanAfter(b, fan) ELSE fan
    /\ UNCHANGED <<up, forms, starts>>

\* Mutant of Stop: closing the buzzer leaves it as it is.
StopSounding ==
    /\ up
    /\ up' = FALSE
    /\ UNCHANGED <<queue, handled, deviceVars, forms, starts>>

\* The end of the monitor closes the buzzer, whose driver then switches it off;
\* the message queue stays.
Stop ==
    /\ up
    /\ up' = FALSE
    /\ buzzer' = FALSE
    /\ handled' = [form |-> NoForm, byte |-> 0]
    /\ UNCHANGED <<queue, lights, fan, forms, starts>>

Start ==
    /\ ~up
    /\ starts < MaxStarts
    /\ starts' = starts + 1
    /\ up' = TRUE
    /\ UNCHANGED <<queue, handled, deviceVars, forms>>

FormsNext == (\E f \in Form : Submit(f)) \/ Handle \/ Stop \/ Start

FormsSpec == FormsInit /\ [][FormsNext]_formsVars

----------------------------------------------------------------------------
(* Properties *)

FormsTypeOK ==
    /\ up \in BOOLEAN
    /\ queue \in Seq([form: Form, byte: 0..255])
    /\ Len(queue) <= QueueLimit
    /\ handled \in [form: Form \cup {NoForm}, byte: 0..255]
    /\ lights \subseteq LedNumber
    /\ buzzer \in BOOLEAN
    /\ fan \in {"0", "1", "2", "3", "none"}
    /\ forms \in 0..MaxForms
    /\ starts \in 1..MaxStarts

Done(to, button) == handled.form.to = to /\ handled.form.button = button
Mode == handled.form.text.first
Figure == handled.form.text.value
Bit(l, weight) == IF l \in lights THEN weight ELSE 0

\* A device does what its form says: all LEDs or one, and the buzzer, by the first character
\* of the field, "1~6" and "1~2"; the digit in binary by the number in it, "0~15".
DoneAsAsked ==
    /\ Done("led", "on") =>
          CASE Mode = 1 -> lights = LedNumber
            [] Mode \in 2..5 -> Mode \in lights
            [] Mode = 6 -> lights = {}
            [] OTHER -> FALSE
    /\ Done("led", "off") /\ Mode # 6 => lights = {}
    /\ Done("seg", "on") /\ Figure \in 0..15 =>
          Figure = Bit(2, 1) + Bit(3, 2) + Bit(4, 4) + Bit(5, 8)
    /\ Mode = 1 /\ Done("buzzer", "on") => buzzer
    /\ Mode = 1 /\ Done("buzzer", "off") => ~buzzer

\* A digit beyond 15 shows its lowest four bits if its eighth bit is clear, and has
\* no effect otherwise; it never reaches another device (a9_seg.c:58).
DigitsKeepApart ==
    \A i \in 1..Len(queue) :
        queue[i].form.to = "seg" =>
            LET b == queue[i].byte
            IN  /\ LedAfter(b, {2}) = {2} /\ LedAfter(b, {}) = {}
                /\ BuzzerAfter(b, TRUE) /\ ~BuzzerAfter(b, FALSE)
                /\ FanAfter(b, "none") = "none"
                /\ queue[i].form.button = "on" /\ queue[i].form.text.value % 256 > 127
                       => \A lit \in SUBSET LedNumber : SegAfter(b, lit) = lit

\* Through the encoding in the CGI, the queue and the comparison in the worker.
AsAsked == DoneAsAsked /\ DigitsKeepApart

\* a9_beep_drv.c:78: the buzzer does not sound after the monitor has closed it.
SilentWhenDown == buzzer => up

FormsInv == FormsTypeOK /\ SilentWhenDown

\* What a page calls not supported (zigbee_fan.c:78), which is a field that does not begin
\* with 0 to 3, and a digit without a button, is sent all the same (zigbee_fan.c:89,
\* a9_seg.c:84); no worker takes it for a command.
Rejected(f) ==
    \/ f.to = "fan" /\ f.text.first \notin 0..3
    \/ f.to = "seg" /\ f.button = "none"

RejectedIsHarmless ==
    [][queue # <<>> /\ queue' = Tail(queue) /\ Rejected(Head(queue).form)
          => UNCHANGED deviceVars]_formsVars
============================================================================
