------------------------------ MODULE AdcDriver ------------------------------
(***************************************************************************)
(* a9_adc_drv.c: a read of /dev/fsadc0 starts a conversion, sleeps until   *)
(* the interrupt at its end sets have_data, and takes the result from      *)
(* ADCDAT.  The flag, the wait queue and the variable that the result      *)
(* passes through are shared by all readers, and nothing locks them.       *)
(*                                                                         *)
(* A result is the number of its conversion.                               *)
(***************************************************************************)
EXTENDS Naturals

CONSTANTS
    Reader,     \* the threads and programs that read the device
    MaxReads,   \* bound on the reads ever begun
    MaxBroken   \* bound on the reads that a signal or a bad buffer breaks off

VARIABLES
    have_data,   \* the flag
    converting,  \* whether the hardware converts
    adcdat,      \* the conversion whose result is in ADCDAT
    fs4412_adc,  \* the result that was taken from there last
    pc,          \* program counter of each reader
    since,       \* what was in ADCDAT when the reader began
    result,      \* what it was given last
    users,       \* the readers that have read at all
    broken,      \* the reads that were broken off
    reads        \* the reads ever begun

deviceVars == <<have_data, converting, adcdat, fs4412_adc>>
boundVars == <<broken, reads>>
vars == <<deviceVars, pc, since, result, users, boundVars>>

Init ==
    /\ have_data = FALSE
    /\ converting = FALSE
    /\ adcdat = 0
    /\ fs4412_adc = 0
    /\ pc = [r \in Reader |-> "idle"]
    /\ since = [r \in Reader |-> 0]
    /\ result = [r \in Reader |-> 0]
    /\ users = {}
    /\ broken = 0
    /\ reads = 0

Goto(r, from, to) == pc[r] = from /\ pc' = [pc EXCEPT ![r] = to]

----------------------------------------------------------------------------
(* fs4412_adc_read *)

\* Mutant of Start: the conversion is not started.
StartNothing(r) ==
    /\ Goto(r, "idle", "waiting")
    /\ reads < MaxReads
    /\ reads' = reads + 1
    /\ since' = [since EXCEPT ![r] = adcdat]
    /\ users' = users \cup {r}
    /\ UNCHANGED <<deviceVars, result, broken>>

\* A conversion that runs already is begun anew.
Start(r) ==
    /\ Goto(r, "idle", "waiting")
    /\ reads < MaxReads
    /\ reads' = reads + 1
    /\ converting' = TRUE
    /\ since' = [since EXCEPT ![r] = adcdat]
    /\ users' = users \cup {r}
    /\ UNCHANGED <<have_data, adcdat, fs4412_adc, result, broken>>

\* Mutant of Pass: the reader does not wait for the flag.
PassAtOnce(r) ==
    /\ Goto(r, "waiting", "taking")
    /\ UNCHANGED <<deviceVars, since, result, users, boundVars>>

\* wait_event_interruptible looks at the flag before it sleeps, and whenever it
\* is woken.
Pass(r) ==
    /\ Goto(r, "waiting", "taking")
    /\ have_data
    /\ UNCHANGED <<deviceVars, since, result, users, boundVars>>

\* A signal ends the wait, and the read goes on as if there were a result.
Interrupted(r) ==
    /\ Goto(r, "waiting", "taking")
    /\ broken < MaxBroken
    /\ broken' = broken + 1
    /\ UNCHANGED <<deviceVars, since, result, users, reads>>

Take(r) ==
    /\ Goto(r, "taking", "copying")
    /\ fs4412_adc' = adcdat
    /\ UNCHANGED <<have_data, converting, adcdat, since, result, users, boundVars>>

CopyToUser(r) ==
    /\ Goto(r, "copying", "clearing")
    /\ result' = [result EXCEPT ![r] = fs4412_adc]
    /\ UNCHANGED <<deviceVars, since, users, boundVars>>

\* The buffer of the program cannot be written: the flag stays set.
CopyFails(r) ==
    /\ Goto(r, "copying", "idle")
    /\ broken < MaxBroken
    /\ broken' = broken + 1
    /\ UNCHANGED <<deviceVars, since, result, users, reads>>

Clear(r) ==
    /\ Goto(r, "clearing", "idle")
    /\ have_data' = FALSE
    /\ UNCHANGED <<converting, adcdat, fs4412_adc, since, result, users, boundVars>>

----------------------------------------------------------------------------
(* fs4412_adc_handler, at the end of a conversion *)

Convert ==
    /\ converting
    /\ converting' = FALSE
    /\ adcdat' = adcdat + 1
    /\ have_data' = TRUE
    /\ UNCHANGED <<fs4412_adc, pc, since, result, users, boundVars>>

----------------------------------------------------------------------------
GoOn(r) == Pass(r) \/ Take(r) \/ CopyToUser(r) \/ Clear(r)

Next ==
    \/ \E r \in Reader :
          Start(r) \/ GoOn(r) \/ Interrupted(r) \/ CopyFails(r)
    \/ Convert

Spec == Init /\ [][Next]_vars

----------------------------------------------------------------------------
(* Properties *)

\* The type invariant; no more conversions end than reads began.
TypeOK ==
    /\ have_data \in BOOLEAN
    /\ converting \in BOOLEAN
    /\ adcdat \in Nat
    /\ fs4412_adc \in Nat
    /\ pc \in [Reader -> {"idle", "waiting", "taking", "copying", "clearing"}]
    /\ since \in [Reader -> Nat]
    /\ result \in [Reader -> Nat]
    /\ users \subseteq Reader
    /\ broken \in 0..MaxBroken
    /\ reads \in 0..MaxReads
    /\ adcdat <= reads

\* However the readers overlap and are broken off, none is given a result from before
\* the last one that was complete when it began.
NotOlder == \A r \in Reader : pc[r] = "clearing" => result[r] >= since[r]

Alone(r) == users \subseteq {r}

\* "The conversion is complete and triggers the interrupt, which wakes the wait queue"
\* (line 66): what the only reader is given was converted after its read began, as long
\* as none of its reads was broken off: one that was leaves the flag behind.
Fresh ==
    broken = 0 =>
        \A r \in Reader : Alone(r) /\ pc[r] = "clearing" => result[r] > since[r]

\* However the readers overlap, the result handed out is the right one or a later one.
Current == NotOlder /\ Fresh

\* The flag is set and the hardware at work only on behalf of a read that is under
\* way (line 76, "waits for the next conversion").
AtRest ==
    broken = 0 =>
        \A r \in Reader : Alone(r) /\ pc[r] = "idle" => ~have_data /\ ~converting

\* The only reader does not sleep for ever: the flag is set, or a conversion will set it.
\* A second reader can clear the flag that the first waits for.
WillWake ==
    \A r \in Reader : Alone(r) /\ pc[r] = "waiting" => have_data \/ converting
=============================================================================
