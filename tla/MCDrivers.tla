------------------------------ MODULE MCDrivers ------------------------------
(***************************************************************************)
(* The LED driver and the ADC driver of the board.  They share neither a   *)
(* register nor a variable, so that the instance takes one or the other.   *)
(***************************************************************************)
EXTENDS LedBank

CONSTANTS Reader, MaxReads, MaxBroken

ASSUME AdcAssumption == MaxReads \in Nat /\ MaxBroken \in Nat

VARIABLES
    driver,   \* the driver of this behaviour
    have_data, converting, adcdat, fs4412_adc, pc, since, result, users, broken, reads

adcVars ==
    <<have_data, converting, adcdat, fs4412_adc, pc, since, result, users, broken, reads>>

Adc == INSTANCE AdcDriver

\* What the boot loader left in the LEDs' registers is of no matter to the ADC.
DriversInit ==
    /\ Init
    /\ Adc!Init
    /\ driver \in {"a9_led_drv", "a9_adc_drv"}
    /\ driver = "a9_adc_drv" => Lit = {} /\ 0 \notin reg["gpx2"]

DriversNext ==
    \/ driver = "a9_led_drv" /\ Next /\ UNCHANGED <<driver, adcVars>>
    \/ driver = "a9_adc_drv" /\ Adc!Next /\ UNCHANGED <<driver, vars>>

Drivers == DriversInit /\ [][DriversNext]_<<driver, vars, adcVars>>

\* The workers and the driver of the LEDs, with a command that nobody disturbs showing
\* what it is to show, and the ADC driver left as it was found by a single reader.
DriversInv == LedInv /\ UndisturbedEffect /\ Adc!TypeOK /\ Adc!AtRest

\* AdcDriver.tla: no reader is given a conversion older than its read, a single one
\* never one of an earlier read (a9_adc_drv.c:60-76).
Current == Adc!Current

\* AdcDriver.tla: a single reader does not sleep for ever (a9_adc_drv.c:66-68).
WillWake == Adc!WillWake
==============================================================================
