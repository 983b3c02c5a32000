-------------------------- MODULE CommandDispatch --------------------------
(***************************************************************************)
(* The way of a command from a control CGI (a9_led, a9_beep, a9_seg,       *)
(* zigbee_fan, setEnv) to the thread that drives the device: a System V    *)
(* message queue, the dispatcher thread pthread_client_request, and one    *)
(* command byte with a mutex and a condition variable for each worker      *)
(* thread (pthread_led, pthread_buzzer, pthread_seg, pthread_fan).         *)
(*                                                                         *)
(* A worker waits without a predicate, and acts while it holds the mutex.  *)
(* The fan's dispatcher branch signals before it unlocks, the other three  *)
(* after.  A command is named by the number of the msgsnd that queued it;  *)
(* the initial value of the command bytes, which no worker acts upon, is 0.*)
(***************************************************************************)
EXTENDS Integers, Sequences

CONSTANTS
    Sender,       \* the control CGIs that may run at the same time
    Device,       \* the devices that have a worker thread
    SignalHeld,   \* those signalled with the mutex held, and whose worker
                  \* exits the monitor when its port cannot be opened: the fan
    QueueLimit,   \* messages that fit in the queue
    MaxCommands,  \* bound on the messages ever queued
    MaxBoots      \* how often the monitor may be started

ASSUME DispatchAssumption ==
    /\ SignalHeld \subseteq Device
    /\ {"setting", "none"} \cap Device = {}
    /\ QueueLimit \in Nat \ {0}
    /\ MaxCommands \in Nat
    /\ MaxBoots \in Nat \ {0}

VARIABLES
    sending,  \* what each CGI is about to queue, or blocked in msgsnd with
    created,  \* whether the message queue exists
    queue,    \* the commands in the message queue
    issued,   \* the addressee of every command ever queued
    dpc,      \* program counter of the dispatcher
    msg,      \* the command in its buffer, 0 before the first
    owner,    \* holder of the mutex of each worker
    cmd,      \* the command byte of each worker
    wpc,      \* program counter of each worker
    last,     \* the last command each device acted upon
    runs,     \* how often it acted upon the command now in its byte
    boots,    \* how often the monitor was started
    spurious  \* whether, in this life of it, pthread_cond_wait returned without a signal

vars == <<sending, created, queue, issued, dpc, msg, owner, cmd, wpc, last,
          runs, boots, spurious>>

\* "setting" stands for a type no branch of the switch hands on (setEnv)
Addressee == Device \cup {"setting"}
Command == 1..MaxCommands
DispatcherLabels ==
    {"d_open", "d_recv", "d_lock", "d_store", "d_unlock", "d_signal", "down"}
WorkerLabels == {"w_open", "w_lock", "w_wait", "w_woken", "w_act"}

Up == dpc # "down"
Target == issued[msg]

Init ==
    /\ sending = [c \in Sender |-> "none"]
    /\ created = FALSE
    /\ queue = <<>>
    /\ issued = <<>>
    /\ dpc = "d_open"
    /\ msg = 0
    /\ owner = [d \in Device |-> "nobody"]
    /\ cmd = [d \in Device |-> 0]
    /\ wpc = [d \in Device |-> "w_open"]
    /\ last = [d \in Device |-> 0]
    /\ runs = [d \in Device |-> 0]
    /\ boots = 1
    /\ spurious = FALSE

senderVars == <<sending, issued>>
dispatcherVars == <<dpc, msg>>
workerVars == <<owner, cmd, wpc, last, runs>>

----------------------------------------------------------------------------
(* The control CGIs *)

\* msgget without IPC_CREAT: a CGI exits with an error before the monitor
\* has ever run.
Request(c, a) ==
    /\ created
    /\ sending[c] = "none"
    /\ sending' = [sending EXCEPT ![c] = a]
    /\ UNCHANGED <<created, queue, issued, dispatcherVars, workerVars, boots, spurious>>

\* msgsnd blocks while the queue is full.
Send(c) ==
    /\ sending[c] # "none"
    /\ Len(queue) < QueueLimit
    /\ Len(issued) < MaxCommands
    /\ issued' = Append(issued, sending[c])
    /\ queue' = Append(queue, Len(issued) + 1)
    /\ sending' = [sending EXCEPT ![c] = "none"]
    /\ UNCHANGED <<created, dispatcherVars, workerVars, boots, spurious>>

\* A CGI is killed while it is blocked.
Abandon(c) ==
    /\ sending[c] # "none"
    /\ sending' = [sending EXCEPT ![c] = "none"]
    /\ UNCHANGED <<created, queue, issued, dispatcherVars, workerVars, boots, spurious>>

----------------------------------------------------------------------------
(* pthread_client_request *)

\* An existing queue is taken over with its messages.
OpenQueue ==
    /\ dpc = "d_open"
    /\ created' = TRUE
    /\ dpc' = "d_recv"
    /\ UNCHANGED <<senderVars, queue, msg, workerVars, boots, spurious>>

\* Mutant of Receive: the newest message first.
ReceiveNewest ==
    /\ dpc = "d_recv"
    /\ queue # <<>>
    /\ msg' = queue[Len(queue)]
    /\ queue' = SubSeq(queue, 1, Len(queue) - 1)
    /\ dpc' = IF issued[msg'] \in Device THEN "d_lock" ELSE "d_recv"
    /\ UNCHANGED <<senderVars, created, workerVars, boots, spurious>>

\* The branches 5 to 10 and the default hand nothing on to a worker.
Receive ==
    /\ dpc = "d_recv"
    /\ queue # <<>>
    /\ msg' = Head(queue)
    /\ queue' = Tail(queue)
    /\ dpc' = IF issued[msg'] \in Device THEN "d_lock" ELSE "d_recv"
    /\ UNCHANGED <<senderVars, created, workerVars, boots, spurious>>

\* The order of signal and unlock in the branch for d; the mutant signals
\* every device after the unlock.
SignalsUnlocked(d) == FALSE

SignalsLocked(d) == d \in SignalHeld

\* Mutant of Lock: pthread_mutex_lock left out.
LockNothing ==
    /\ dpc = "d_lock"
    /\ dpc' = "d_store"
    /\ UNCHANGED <<senderVars, created, queue, msg, workerVars, boots, spurious>>

Lock ==
    /\ dpc = "d_lock"
    /\ owner[Target] = "nobody"
    /\ owner' = [owner EXCEPT ![Target] = "dispatcher"]
    /\ dpc' = "d_store"
    /\ UNCHANGED <<senderVars, created, queue, msg, cmd, wpc, last, runs, boots, spurious>>

Store ==
    /\ dpc = "d_store"
    /\ cmd' = [cmd EXCEPT ![Target] = msg]
    /\ runs' = [runs EXCEPT ![Target] = 0]
    /\ dpc' = IF SignalsLocked(Target) THEN "d_signal" ELSE "d_unlock"
    /\ UNCHANGED <<senderVars, created, queue, msg, owner, wpc, last, boots, spurious>>

\* Mutant of Unlock: pthread_cond_signal left out.
UnlockOnly ==
    /\ dpc = "d_unlock"
    /\ owner' = [owner EXCEPT ![Target] = "nobody"]
    /\ dpc' = "d_recv"
    /\ UNCHANGED <<senderVars, created, queue, msg, cmd, wpc, last, runs, boots, spurious>>

Unlock ==
    /\ dpc = "d_unlock"
    /\ owner' = [owner EXCEPT ![Target] = "nobody"]
    /\ dpc' = IF SignalsLocked(Target) THEN "d_recv" ELSE "d_signal"
    /\ UNCHANGED <<senderVars, created, queue, msg, cmd, wpc, last, runs, boots, spurious>>

\* pthread_cond_signal is lost on a worker that is not waiting.
Signal ==
    /\ dpc = "d_signal"
    /\ wpc' = [wpc EXCEPT ![Target] = IF @ = "w_wait" THEN "w_woken" ELSE @]
    /\ dpc' = IF SignalsLocked(Target) THEN "d_unlock" ELSE "d_recv"
    /\ UNCHANGED <<senderVars, created, queue, msg, owner, cmd, last, runs, boots, spurious>>

----------------------------------------------------------------------------
(* The workers *)

OpenDevice(d) ==
    /\ Up
    /\ wpc[d] = "w_open"
    /\ wpc' = [wpc EXCEPT ![d] = "w_lock"]
    /\ UNCHANGED <<senderVars, created, queue, dispatcherVars, owner, cmd,
                   last, runs, boots, spurious>>

\* Mutant of LockAndWait: the wait names another mutex, and the worker keeps
\* its own while it waits.
LockAndKeep(d) ==
    /\ Up
    /\ wpc[d] = "w_lock"
    /\ owner[d] = "nobody"
    /\ owner' = [owner EXCEPT ![d] = "worker"]
    /\ wpc' = [wpc EXCEPT ![d] = "w_wait"]
    /\ UNCHANGED <<senderVars, created, queue, dispatcherVars, cmd, last,
                   runs, boots, spurious>>

\* pthread_mutex_lock, and pthread_cond_wait, which gives the mutex back
\* while it waits: one step, since nothing happens in between.
LockAndWait(d) ==
    /\ Up
    /\ wpc[d] = "w_lock"
    /\ owner[d] = "nobody"
    /\ wpc' = [wpc EXCEPT ![d] = "w_wait"]
    /\ UNCHANGED <<senderVars, created, queue, dispatcherVars, owner, cmd,
                   last, runs, boots, spurious>>

SpuriousWakeup(d) ==
    /\ Up
    /\ wpc[d] = "w_wait"
    /\ wpc' = [wpc EXCEPT ![d] = "w_woken"]
    /\ spurious' = TRUE
    /\ UNCHANGED <<senderVars, created, queue, dispatcherVars, owner, cmd,
                   last, runs, boots>>

\* pthread_cond_wait returns with the mutex, and the worker begins to act on
\* the command it finds.  Repetitions beyond the third are not told apart.
Act(d) ==
    /\ Up
    /\ wpc[d] = "w_woken"
    /\ owner[d] = "nobody"
    /\ owner' = [owner EXCEPT ![d] = "worker"]
    /\ wpc' = [wpc EXCEPT ![d] = "w_act"]
    /\ last' = [last EXCEPT ![d] = IF cmd[d] = 0 THEN @ ELSE cmd[d]]
    /\ runs' = [runs EXCEPT ![d] = IF cmd[d] = 0 \/ @ = 3 THEN @ ELSE @ + 1]
    /\ UNCHANGED <<senderVars, created, queue, dispatcherVars, cmd, boots, spurious>>

\* After sleeps of up to 12 s with the mutex held.
Finish(d) ==
    /\ Up
    /\ wpc[d] = "w_act"
    /\ owner' = [owner EXCEPT ![d] = "nobody"]
    /\ wpc' = [wpc EXCEPT ![d] = "w_lock"]
    /\ UNCHANGED <<senderVars, created, queue, dispatcherVars, cmd, last,
                   runs, boots, spurious>>

----------------------------------------------------------------------------
(* The monitor process *)

\* The process ends, on SIGINT, by the exit(1) of another thread or because the
\* fan's worker could not open its port, and takes along all that its threads
\* held; the message queue stays.
EndProcess ==
    /\ dpc' = "down"
    /\ msg' = 0
    /\ owner' = [d \in Device |-> "nobody"]
    /\ cmd' = [d \in Device |-> 0]
    /\ wpc' = [d \in Device |-> "w_open"]
    /\ runs' = [d \in Device |-> 0]
    /\ spurious' = FALSE
    /\ UNCHANGED <<senderVars, created, queue, last, boots>>

Interrupt ==
    /\ Up
    /\ EndProcess

OpenFails(d) ==
    /\ Up
    /\ d \in SignalHeld
    /\ wpc[d] = "w_open"
    /\ EndProcess

Restart ==
    /\ dpc = "down"
    /\ boots < MaxBoots
    /\ boots' = boots + 1
    /\ dpc' = "d_open"
    /\ UNCHANGED <<senderVars, created, queue, msg, workerVars, spurious>>

----------------------------------------------------------------------------
Dispatch == OpenQueue \/ Receive \/ Lock \/ Store \/ Unlock \/ Signal

Work(d) == OpenDevice(d) \/ LockAndWait(d) \/ Act(d) \/ Finish(d)

Next ==
    \/ \E c \in Sender : Send(c) \/ Abandon(c) \/ \E a \in Addressee : Request(c, a)
    \/ Dispatch
    \/ \E d \in Device : Work(d) \/ SpuriousWakeup(d) \/ OpenFails(d)
    \/ Interrupt
    \/ Restart

Spec == Init /\ [][Next]_vars

\* Every thread that can go on does.  A CGI blocked in msgsnd is woken when
\* a message is taken out; requests, crashes and restarts are not forced.
Fairness ==
    /\ WF_vars(Dispatch)
    /\ \A d \in Device : WF_vars(Work(d))
    /\ \A c \in Sender : WF_vars(Send(c))

FairSpec == Spec /\ Fairness
----------------------------------------------------------------------------
(* Properties *)

TypeOK ==
    /\ sending \in [Sender -> Addressee \cup {"none"}]
    /\ created \in BOOLEAN
    /\ queue \in Seq(Command)
    /\ issued \in Seq(Addressee)
    /\ dpc \in DispatcherLabels
    /\ msg \in Command \cup {0}
    /\ owner \in [Device -> {"nobody", "dispatcher", "worker"}]
    /\ cmd \in [Device -> Command \cup {0}]
    /\ wpc \in [Device -> WorkerLabels]
    /\ last \in [Device -> Command \cup {0}]
    /\ runs \in [Device -> 0..3]
    /\ boots \in 1..MaxBoots
    /\ spurious \in BOOLEAN

\* However commands and signals overlap, a device acts only on a command of this life
\* of the monitor, and at most twice on each: its worker, still woken by the signal
\* before, acts on the command, waits, and is woken by the command's own signal (lines
\* 55-56, 62-63, 68-69).  A device signalled with the mutex held (75-76) acts once.
ActsBounded ==
    ~spurious =>
        \A d \in Device :
            /\ runs[d] <= IF d \in SignalHeld THEN 1 ELSE 2
            /\ wpc[d] \in {"w_woken", "w_act"} => cmd[d] # 0

\* While a worker acts its command does not change: pthread_led.c:28-70 reads
\* the byte seven times, with sleeps in between.
CommandStable ==
    [][\A d \in Device :
          wpc[d] = "w_act" /\ wpc'[d] = "w_act" => cmd'[d] = cmd[d]]_vars

\* Devices act upon issued commands in the order of issue, skipping some,
\* also across a restart of the monitor.
Stream == INSTANCE CommandStream
InOrder == Stream!Spec

\* A command that the dispatcher takes up while the worker waits is acted
\* upon, it or one that replaced it meanwhile.
IdleWorkerActs ==
    \A d \in Device :
        dpc = "d_lock" /\ Target = d /\ wpc[d] = "w_wait"
            ~> wpc[d] = "w_act" \/ ~Up

\* A CGI is not blocked for ever on a full queue, whatever the workers hold.
\* Once MaxCommands have been sent, the queue still empties for the next.
SenderServed ==
    \A c \in Sender :
        sending[c] # "none"
            ~> \/ sending[c] = "none"
               \/ ~Up
               \/ Len(issued) = MaxCommands /\ Len(queue) < QueueLimit

----------------------------------------------------------------------------
(* The inductive invariant behind InOrder and ActsBounded *)

Received == Len(issued) - Len(queue)
Handling == dpc \in {"d_lock", "d_store", "d_unlock", "d_signal"}

\* The queue holds the newest commands, in order, and the dispatcher handles
\* the one it took out last.
QueueOK ==
    /\ Len(queue) <= Len(issued)
    /\ Len(issued) <= MaxCommands
    /\ \A i \in 1..Len(queue) : queue[i] = Received + i
    /\ msg <= Received
    /\ Handling => msg = Received /\ msg # 0 /\ Target \in Device

Locked(d) ==
    /\ \/ dpc \in {"d_store", "d_unlock"}
       \/ dpc = "d_signal" /\ SignalsLocked(d)
    /\ Target = d

OwnerOK ==
    \A d \in Device :
        /\ owner[d] = "worker" <=> wpc[d] = "w_act"
        /\ owner[d] = "dispatcher" <=> Locked(d)

\* A command byte is for its device, and never behind what was done.
ByteOK ==
    \A d \in Device :
        /\ cmd[d] <= Received /\ last[d] <= Received
        /\ cmd[d] # 0 => issued[cmd[d]] = d /\ last[d] <= cmd[d]

\* What can still happen to the command of d: a worker woken already, and a
\* signal that is still to come.
Pending(d) == dpc \in {"d_unlock", "d_signal"} /\ Target = d

RunsOK ==
    ~spurious =>
        \A d \in Device :
            /\ runs[d] + (IF wpc[d] = "w_woken" THEN 1 ELSE 0)
                       + (IF Pending(d) THEN 1 ELSE 0) <= 2
            /\ d \in SignalHeld =>
                  /\ runs[d] <= 1
                  /\ wpc[d] = "w_woken" => runs[d] = 0
                  /\ Pending(d) => runs[d] = 0
            /\ wpc[d] \in {"w_woken", "w_act"} \/ Pending(d) => cmd[d] # 0

DispatchInv == TypeOK /\ QueueOK /\ OwnerOK /\ ByteOK /\ RunsOK
============================================================================
