# A TLA+ model of the smart-home monitor

The repository is a home monitor built around an ARM Cortex-A9 board.  A web
server starts CGI programs; a multi-threaded process, the *monitor*
(`src/stage4_storage`), drives the board's devices and a ZigBee network over a
serial line; kernel drivers, the firmware of two ZigBee nodes and a patched
`mjpg-streamer` complete it.  The modules in this directory model the parts in
which processes, threads, nodes and the kernel meet, check them with TLC on small
instances, and prove the most important results with TLAPS for all of them.

## 1. Inventory

### Components, state and operations

| component | source | state | operations |
|---|---|---|---|
| environment exchange | `stage4_storage/pthread_refresh.c`, `sem.c`, `html-monitor/cgi_proj/env1.c` | three System V semaphores `mutex`, `empty`, `full` with the undo entries of every process; one shared memory slot | refresh thread: create and SETVAL the semaphores, clear the slot, then for ever P(empty) P(mutex) copy V(mutex) V(full) signal; page: P(full) P(mutex) read V(mutex) V(empty) exit |
| sample collection | `pthread_transfer.c` | `sm_all_env_info`, the last sample | wait for the signal, query the ZigBee node, read ADC and MPU6050, sleep |
| command dispatch | `pthread_client_request.c` | a System V message queue; per device a mutex, a condition variable and a command byte | receive, and per type: lock, store, unlock and signal |
| device workers | `pthread_led.c`, `pthread_buzzer.c`, `pthread_seg.c`, `pthread_fan.c` | descriptor of the device | wait, act upon the command byte with the mutex held, unlock |
| control CGIs | `cgi_proj/a9_led.c`, `a9_beep.c`, `a9_seg.c`, `zigbee_fan.c`, `setEnv.c` | none | encode a form as one byte (`setEnv`: 24 bytes) and `msgsnd` it |
| monitor process | `main.c`, `data_global.c` | the threads; the never assigned ids `msgid`, `shmid`, `semid` | start eight threads; on SIGINT destroy mutexes, remove IPC objects, exit |
| LED, buzzer, ADC, MPU6050 drivers | `A9_drv/driver_source/*_drv.c` | port registers, an interrupt flag, a wait queue | `ioctl`, `read`, interrupt handler |
| temperature and humidity node | `ZigBee/zigbee_wenshidu/Source` | `new_cmd`, network state, DHT11 line | commands from the serial line are broadcast or answered with a measurement |
| fan node | `ZigBee/zigbee_fan/Source` | fan pin P1_3, network state | switch the fan on '0'/'1' |
| snapshots | `mjpg-streamer/plugins/output_file/output_file.c`, `cgi_proj/capture1.c` | the FIFO, command flag, counters, the directory of pictures | read a command, save frames, keep the newest |
| mjpg-streamer | `mjpg_streamer.c`, `input_uvc`, `output_http` | driver buffers, the global buffer with mutex `db` and condition `db_update` | camera thread grabs, copies, broadcasts; outputs wait and copy; SIGINT |
| web server | `boa-0.94.13/src` | ready and blocked queue, two sets of descriptors, signal flags | accept, one handler per state of a request, block, free, select |
| serial line | `linuxuart.c` | termios of the port | configure |
| short messages | `pthread_sms.c` | none | prints a line and returns |
| login page, web pages | `login.c`, `*.html` | none | forms |
| third-party code | cgic, libjpeg, Z-Stack, the other plugins of mjpg-streamer, the archives in `packges_source` | | left aside |

### How they interact

    browser -> boa -> a9_led.cgi ...  --msgsnd-->  client_request --mutex/cond-->  led, buzzer, seg, fan
                      env1.cgi  <--shm + 3 semaphores-->  refresh --cond--> transfer --> ADC, MPU6050, /dev/ttyUSB0
                      capture1.cgi --/tmp/webcom--> output_file worker <--db, db_update-- camera thread
    led, seg -> LED driver;  fan, transfer -> /dev/ttyUSB0 -> coordinator ~~broadcast~~> temperature node, fan node

Calls cross process boundaries through the kernel (System V IPC, FIFO, serial
line, ioctl), thread boundaries through mutexes and condition variables, node
boundaries through unacknowledged broadcasts.  What outlives a process:
semaphores, message queue and shared memory (`msgid`, `shmid` and `semid` of
`main.c:115-117` are never assigned, so SIGINT does not release the monitor's
own), the FIFO and the pictures on disk.  A restarted program takes them over.

### What is hard

* *SEM_UNDO over a producer/consumer protocol* (`sem.c`): every P and V
  leaves an entry that the exit of the process reverts, also after an ordinary
  page.  So `full` never goes down for good and the monitor's entry for `empty` grows
  without bound, up to the kernel's limit (ERANGE, `exit(1)`).
* *Objects of an earlier life*: reinitialised semaphores, removed or kept IPC
  objects, queued messages, late answers, pictures and counters.
* *Condition variables without predicates* (the workers, `pthread_transfer.c:35`,
  the outputs of mjpg-streamer), signalled after the unlock or
  without the mutex at all: lost signals, doubled actions, stale frames.
* *Head-of-line blocking*: the dispatcher behind a sleeping worker, CGIs behind the
  dispatcher, pages behind a worker that takes nine pictures.
* *Shared state without a lock*: the sample, the LED registers, the flag of the ADC
  driver, `new_cmd` of each node, one serial line with two writers.
* *A hand-written event loop* (boa): two queues, sets of descriptors that outlive
  what their bits stood for, timeouts, signals.

The complete list, at the lines where it bites, with the properties that cover
each entry, is `hazards` in `PROJECT.json`.

### What makes each component correct

* exchange: one process at a time in the slot; every page displays one
  published slot, none before the first; killed pages leave no token behind;
  every page is answered or the monitor is gone.
* sample collection: a published sample is torn by at most one round; what is stored
  is what was read; the thread never locks itself out.
* dispatch and workers: commands reach their own device, in the order of
  issue; a command does not change under an acting worker; how often one
  command can act; no action without a command; a command for an idle worker is acted
  upon; a blocked CGI gets through.
* CGIs and workers: within the ranges that the fields state, the device does as
  asked; beyond them nothing else is reached.
* monitor process: shared objects that belong together stay together.
* drivers: no update of one LED is lost to an update of another; a reader gets a
  conversion of its own.
* ZigBee: a query changes no actuator; the fan's pin follows the commands in their
  order; a sample is one answer.
* snapshots: as many pictures as asked for; the newest are on disk.
* mjpg-streamer: an output gets all of one publication, a fresh one, in the order of the
  camera, and so does every other one that waits.
* web server: no request is lost between the queues, what is said is said in full, every
  connection ends.

## 2. The modules

| module | models | role |
|---|---|---|
| `EnvExchange` | `pthread_refresh.c`, `pthread_transfer.c`, `sem.c`, `env1.c`, SIGINT and restart | state machine, properties, inductive invariant |
| `EnvBoard` | | abstract: a notice board, rewritten and displayed as a whole |
| `EnvRefinement` | | the refinement mapping of `EnvExchange` to `EnvBoard` |
| `CommandDispatch` | `pthread_client_request.c`, the frame of the workers, the control CGIs as senders, end and restart of the monitor | state machine, properties, inductive invariant |
| `CommandStream` | | abstract: issued commands are acted upon in order, some skipped; also the abstraction of the fan's way in `ZigbeeNet` |
| `ControlForms` | the five CGIs' encodings, what each worker does with the byte, the buzzer driver's release | state machine, properties |
| `LedBank` | `a9_led_drv.c`, what `pthread_led.c` and `pthread_seg.c` do to the LEDs | state machine, properties |
| `AdcDriver` | `a9_adc_drv.c` | state machine, properties |
| `SampleCollection` | the round of `pthread_transfer.c` over the A9's devices, `a9_mpu6050_drv.c` | state machine, properties |
| `ZigbeeNet` | `pthread_fan.c` and `pthread_transfer.c` on one serial line, coordinator, temperature node, fan node | state machine, properties |
| `Shutdown` | the handler of SIGINT (`main.c`), the ids of the IPC objects over several lives | state machine, properties |
| `Snapshot` | `capture1.c`, `output_file.c` | state machine, properties |
| `FrameExchange` | camera thread, driver buffers, outputs, end of mjpg-streamer | state machine, properties, inductive invariant |
| `FrameFeed` | | abstract: whoever asks gets all of what is published last, something later than before |
| `BoaRequests` | boa's loop, queues, handlers, signals and timeouts | state machine, properties |
| `EnvExchange_proofs`, `CommandDispatch_proofs`, `FrameExchange_proofs`, `ZigbeeNet_proofs`, `Snapshot_proofs`, `BoaRequests_proofs` | | theorems about the component, `EnvExchange_proofs` also about `EnvRefinement` |
| `LedBank_proofs` | | theorems about `LedBank` and `AdcDriver` (over `MCDrivers`, which joins the two) and about `ControlForms` |
| `Monitor_proofs` | | theorems about `SampleCollection` and `Shutdown` |
| `MC...` | | instances for TLC |

### EnvExchange

`pc[Monitor]` is the refresh thread (`i_*`: initialisation, lines 60-81;
`r_*`: the loop, lines 93-99), `tpc` the transfer thread (`t_*`), `pc[c]` the
page `c` (`c_*`, `env1.c:69-106`).  `w_*` is a process asleep in `semop`, `exit`
one that is in `exit(2)` with undo entries still to be applied, `down` and
`idle` are a monitor and a page that do not run.  `val`, `adj` and `queue` are
the kernel's view of the semaphores, `env` is `sm_all_env_info`, `shm` the
slot, and `page` what a page displays.  A sample is named by the number of the
transfer run that stored it, its ZigBee half and its A9 half separately,
because `pthread_transfer.c` stores them at different times.

Kernel semantics, which the code relies on and does not contain: `semop` waiters are served
in order of arrival, and the token of a V goes to the head of the queue; an
undo entry has the limit SEMAEM (the same constant as SEMVMX in Linux), and
exceeding it is ERANGE, upon which `sem_p` and `sem_v` call `exit(1)`; SETVAL
clears the undo entries of all processes; at exit the entries are applied one
semaphore at a time, and a withdrawal below zero stops at zero.

`overlap` is a history variable: some SETVAL of `mutex` erased the entry of a
process that was inside.  `MutualExclusion` is claimed only before that, since
afterwards the code does not provide it.  `InitShm` keeps `monitor_no[1]`: `bzero`
clears `sizeof` of a structure whose array has one entry.

### CommandDispatch

`dpc` is the dispatcher, `wpc[d]` the worker of device `d`, `owner[d]` its
mutex, `cmd[d]` its command byte, `queue` the message queue, `sending` what
each CGI is about to hand over or blocked with.  `issued`, `last` and `runs`
are history: which device each command was for, which command a device acted
upon last, and how often it acted upon the one in its byte.  A command is named
by its number; number 0 is the initial byte, upon which no worker acts.

`SignalsLocked` is the one difference between the branches of the switch: the
fan's branch (lines 72-76) signals before it unlocks, the others after.  The
worker's wait is `LockAndWait` (lock, and the release inside `pthread_cond_wait`,
nothing between), then a signal or a spurious wakeup, then `Act`, which
regains the mutex.  `mutex_client_request` is taken by one thread only and is
left out.

### ControlForms

What the threads of `CommandDispatch` carry: a form (device, text of its field, button)
becomes a byte (`LedByte`, `BuzzerByte`, `SegByte`, `FanByte`, one for each CGI, with
the cut of an `int` to an `unsigned char` in `Or`).  The CGIs for LEDs, buzzer and fan switch on the
first character of the text, that for the digit reads a number with `atoi`; a `Text` is these two,
so `10` is `[first |-> 1, value |-> 10]`.  Then a worker compares the byte
(`LedAfter`, ...; the digit's numbers light `Lamps`).  `handled` is history: the form whose byte was handled last.
`Stop` is the end of the monitor, which closes the buzzer and leaves the queue; a later
monitor handles what is in it.

### LedBank

`reg` are the three data registers GPX1DAT, GPX2DAT and GPF3DAT, each as the set of
the bits that are 1 and drive an LED (and bit 0 of GPX2DAT, which the driver
writes although it drives none).  `job[w]` is what is left of the ioctls that worker `w`
makes for its command byte: `LedJob` is the chain of `if`s of `pthread_led`,
`SegJob` the loop of `fsled_control`.  An ioctl is two steps, `ReadRegister` (`readl`, whose
result is in `held[w]`) and `WriteRegister` (`writel`): `led_ioctl` takes no
lock, and the mutexes of the two workers are different ones.  The sleeps between two
ioctls are the moments in which nothing happens.

`told`, `doing`, `before` and `alone` are history: how the last ioctl for each LED
left it, the command each worker acted upon last, the LEDs lit when it began, and
whether the other worker has kept quiet since.  A worker without a job may be woken
with any byte at any time, which includes every interleaving that the dispatcher
produces.

### AdcDriver

`have_data`, `fs4412_adc` are the driver's globals, `converting` and `adcdat` the
hardware (the result is the number of its conversion), `pc[r]` the place of reader
`r` in `fs4412_adc_read`: start, `wait_event_interruptible`, take the result, copy it
out, clear the flag.  `since` and `result` are history.  A signal ends the wait and the read goes
on (`Interrupted`); a bad buffer ends it with the flag set (`CopyFails`).

### SampleCollection

One round of the transfer thread over ADC and MPU6050: `pc` walks the readings,
`adc_fd` and `mpu_fd` say which device could be opened, `locked` and `twice` what
the error paths do to the mutex.  `mpu6050_read` reads a word in two transfers while the
`sensor` goes on measuring (`ReadLow`, `ReadHigh`, with a lost transfer read as 0), the
ioctl copies out a structure of which it has set one part, and `Store` copies it into the
sample.  A byte has the two values that matter, below and at the sign bit.

### ZigbeeNet

`wire` and `rx` are the two directions of the serial line, `air[l]` the messages
between two nodes, `events[n]` and `new_cmd[n]` the event queue and the one message
buffer of each node: `Incoming` overwrites the buffer and queues an event,
`CoordinatorSend`, `TempControl`, `FanControl` look at the buffer when they come to the
event.  A message is represented by its beginning, since receivers compare prefixes.
`answerLength` says which of the two programs the coordinator runs, which decides how many
bytes of an answer it writes.  `missed`, `lost` and `restarts` count the
disturbances.

### Shutdown

`object[k]` is the kernel's object with key `k`, `next_id` the next id of each type;
`has` what the monitor's threads work with, `fetched[c]` what page `c` does; `handler`
the progress of `release_pthread_resource`.  The handler removes whatever has the id 0
(`Remove`), since nobody assigns `msgid`, `shmid` and `semid`.

### Snapshot

`page[p]` is a process of `capture1.cgi`, which writes one command to `fifo`; `wpc`
the worker of `output_file`: create and open the FIFO, read a command into `flags`, take
frames until `Enough`, keep `ringbuffer_size` of them (`Maintain`).  A file is named
by the second and the counter, which starts again with the process.  `owed` and `album` are
history: the pictures asked for and not yet taken, and everything ever saved.

### FrameExchange

`captured` is the kind of each frame by how much of its buffer it uses (`BytesUsed`): nothing
(`void`), up to `HEADERFRAME1` bytes (`empty`), more (`small`), or as much as a picture, with
the markers that `memcpy_picture` looks for (`picture`) or without (`broken`).  `minimum_size` is
the option of that name, in the measure of `BytesUsed`; 0 is its default, with which `start.sh`
runs.  `queued`, `filled` and `lost` are the driver's buffers, `cpc` the camera thread, `used`
and `tmpbuffer` its frame, `pos` what `memcpy_picture` returned, `buf`, `size` and `timestamp`
the global buffer, each as the number of the frame it came from; `db` the mutex; `pc[o]` an
output (the file worker, a client with a stream, a client with one picture), `copy[o]` what it
took, `asked[o]` the frame published when it began to wait.  `handler` is the handler of SIGINT;
the model stops when `db` is destroyed.

Not every publication is a picture: of a broken frame nothing is copied and size 0 is published,
an empty one that is not dropped is published with the bytes of an earlier one, or with none.  What
each frame becomes is `IsWhole`; a publication (`Published`) is made at
`memcpy_picture` and taken (`Taken`) at `ReadSize`, both with `db` held until the rest is stored
or loaded.

### BoaRequests

`pc` is the place in `select_loop`; `ready` and `block` the queues, `todo` the requests of
the one being passed over that this pass has still to look at: the blocked queue in
`fdset_update`, one request a step (`Update`), the ready queue in `process_requests`; `fds` and `max_fd` the sets of `select` as the program
sees them; `req[c]` the request of a connection, with its descriptors (given out lowest
first), status, what is parsed and taken of the client's bytes and what is buffered for it.
`Handle` has one disjunct for each handler of `process_requests`; `Settle` is what its
return value leads to.  Clients send units of a request, take output or leave; CGI
processes write and end; `age` is the time since `time_last`.

A unit is the first line of a request, named for the answer it asks for, the rest of its header
(`end`, `keep`) or its body.  Three more are what goes wrong with a header: `odd` is a line that
is none (without a colon, or one too many for the environment of a CGI), `long` is what fills
`client_stream`, and `huge` asks for a redirection that does not fit in the buffer.
`ProcessHeader` sends each of them where the code does.  `overruled` is history: the output of a CGI
was dropped, without a blank line in it or for a Location, and boa answered itself
(`ProcessCgiHeader`).

## 3. Runs

| run | instance | distinct states | properties |
|---|---|---|---|
| `env_exchange` | 2 pages, 1 life of the monitor, limit 2, 2 samples, fairness | 191,808 | `TornByAtMostOne`, `ImplementsBoard`, `PageServed`, `PagesWearOutMonitor` |
| `env_restart` | 2 pages, 2 lives, limit 2, 1 sample, spurious wakeups | 1,731,380 | `EnvInv`, `MutualExclusion`, `TokensReturned` |
| `env_semaphores` | 1 page, 1 life, limit 3 | violated | `WritableOrReadable` (section 5) |
| `dispatch` | 2 senders, LED and fan, queue of 2, 3 commands, 2 lives, fairness | 350,420 | `DispatchInv`, `ActsBounded`, `CommandStable`, `InOrder`, `IdleWorkerActs`, `SenderServed` |
| `drivers` | LEDs on, LED4, water lamp; digit 5; or two ADC readers, 5 reads, 1 broken | 1,616,382 | `DriversInv`, `LostUpdatesBounded`, `Current`, `WillWake` |
| `snapshot` | 2 pages, forms for 3, for 7 and unknown, FIFO of 1, 2 starts, no ring buffer or one of 1 + 2, fairness | 577,427 | `SnapshotInv`, `AsManyAsAsked`, `PageThrough` |
| `zigbee` | fan commands 0 and 1, measurements that begin with 1 or 2, both coordinators, 3 commands, rounds, losses and restarts together | 2,589,309 | `ZigbeeInv`, `StaleBounded`, `QueryAnswered`, `FanInOrder` |
| `forms` | every form with 38 texts, 2 forms, 2 lives | 2,845,368 | `FormsInv`, `AsAsked`, `RejectedIsHarmless` |
| `frames` | a file worker, a stream, a single picture, 2 buffers, 2 frames; no minimum size, with broken and empty frames; or one that drops small and empty ones, with SIGINT; fairness | 273,938 | `FrameInv`, `WholeAndFresh`, `Feeds`, `Served` |
| `sample_round` | bytes of two values, 2 rounds, devices there or not, fairness | 221,376 | `SampleInv`, `StoredAsRead`, `ComesRound` |
| `shutdown_lives` | 2 pages, 4 lives | 294,467 | `ShutdownInv`, `TogetherUnlessEarly` |
| `boa` | one client with any of nine scripts, one SIGTERM, one SIGHUP; or two, with a file and a silent CGI, and a third after the first; 4 descriptors, limit 2, fairness | 254,366 | `BoaInv`, `Watched`, `AnsweredInFull`, `EveryConnectionEnds` |

**Bounds, and why they are enough.**

* *Exchange.*  Two pages are enough for one to be inside, one to wait, and one of
  them to be killed; a third would only lengthen a queue.  The limit SEMVMX is
  32767 in Linux; 2 lets every branch that meets it be taken.  Two lives of the
  monitor let the second meet entries and waiters of the first.  `MaxSample`
  counts transfer runs; two let the two halves of a slot be two runs apart (runs 0
  and 2) if the hand-over allowed it.
* *Dispatch.*  The LED stands for the three devices whose branch signals after the unlock,
  the fan for the one that signals before.  Three commands let a worker be woken by one, act
  on the next, and be woken again.  `Dispatching` narrows the instance: two CGIs send at the
  same time in the first life; one wakeup without a signal may come in that life, after which
  CGIs send one at a time and the monitor is not restarted; after a restart they also send one
  at a time.
* *Drivers.*  The registers start with every value that the boot loader may have left.  The
  jobs reach each LED in each order, with one round of the water lamp for the
  three of the code; the digit 5 lights and puts out LEDs on every port.  The two drivers share
  nothing, so a behaviour exercises one of them.  Five reads of the ADC let a conversion that one read left
  behind meet a later one of either reader.
* *Snapshots.*  Three pictures are the shortest command that counts, seven the one without an
  end, which comes last and alone (`Within`).  Nine pictures fill the ring buffer and its excess over
  a restart.  Two seconds of the clock suffice for a restart, which takes both.
* *ZigBee.*  Three events put a fan command, a query and a disturbance into any order.
* *Forms.*  The texts are the numbers inside of the ranges, their neighbours, and those around each
  power of two up to beyond a byte, so that a first character inside of a range comes with
  numbers inside and outside; an empty field, a leading zero and a sign.
* *Frames.*  Three kinds of outputs differ in what they do at SIGINT and after a picture; two
  buffers let one be filled while one is worked on and let an empty frame take one away.  `Within`
  gives each minimum size the frames that it tells apart: without one a small frame is
  as good as a picture, with one a broken one is as good as one; SIGINT comes with the second.  A frame without any
  byte (`void`) differs from an empty one only in what a minimum size below the one of the run
  would drop, and stays with the proofs.
* *Sample round.*  A second round meets what the first has left in the variables; a byte
  of two values has a lowest and a highest bit, and a sign.
* *Shutdown.*  The handler works on the objects with id 0, so that nothing new happens once
  each type has lost its first object, in the second or third life at the latest.
* *boa.*  One client with every kind of answer, every way in which a header goes wrong,
  keep-alive and a pipelined second request, with both signals; but only one of the two comes
  to the kept connection with a CGI behind it, and none to the client with a CGI alone.  Two
  clients, for the order of the queues, have no signals, stay to the end, and their CGIs say
  nothing.  The first has a file and can be closed, upon which a third gets its descriptor, whatever
  `select` still watches it for.  With four descriptors `accept` and `pipe` run out of them.

The actions stop at the bounds, and a real monitor may stop, so deadlock is not
checked: the liveness properties are the check that nobody waits for ever.

**Fairness.**  Weak fairness of every thread and of the kernel's exit
processing: a thread that can go on is scheduled.  Nothing forces requests, kills,
interrupts, restarts or losses.

* The semaphore queues are first come first served in the model as in the kernel.
* The dispatcher gets a worker's mutex because the worker gives it back while it waits, and
  no one else but the dispatcher can wake it.
* `FrameExchange` has strong fairness of `Wake`: the mutex `db` is held by the others for a
  copy only, and the camera thread blocks in `VIDIOC_DQBUF` between two frames; the camera
  captures as long as it has a buffer.
* `SampleCollection` has weak fairness of the thread including its wait: the refresh thread
  signals after every publication (`EnvExchange`).
* `Snapshot` has the worker run as long as no SIGINT came; the camera delivers.
* `BoaRequests` has weak fairness of the loop and strong fairness of `Elapse`: time passes.
  A client sends finitely much and CGI processes write finitely much.

**Mutants.**  Each property of a passing run has a mutant in `PROJECT.json`: an operator
next to the mapped one (`...WithoutUndo`, `LockNothing`, `PinOfInit`, `BlockTwice`, ...)
that stands for a plausible mistake, with which TLC finds the property violated.

## 4. Proofs

Each theorem is about the `Spec` of its component (`FormsSpec`, `ShutdownSpec`) for every value of the constants that the named assumption of
its module allows.  Most of the properties are not inductive.  The invariant that is stands at
the head of the proof module, or next to the properties where a run checks it (`EnvInv`,
`DispatchInv`, `FrameInv`); TLC checked each one before it was proved.  A proof has a lemma for each
part of the invariant that an action can disturb and a step for each action.  Every invariant and
every action property that a passing run checks is stated by a theorem.

`EnvExchange_proofs` proves, for every finite or infinite set of pages, every limit
and any number of lives and samples, from `EnvAssumption` and `BoardValues`:

* `InvariantHolds`: `Spec => []EnvInv`.  `MutualExclusion` is not inductive: it
  follows from the undo entries, which say who holds the mutex as long as no SETVAL
  erased one (`HolderOK`).  That needs what an entry can be (`EntriesOK`), that a
  sleeper is queued once and only on a semaphore that is 0 (`QueuesOK`), since a V
  grants the token to the head, and the types.  `TypeCorrect` and `MutualExclusionHolds` are
  its consequences.
* `TokensReturnedHolds`: `TokenInv` next to `EnvInv`.  The sum of the property is preserved because each
  operation on `full` moves one token between the semaphore and the set `FullHolders`
  of pages, whose finiteness is part of the invariant.  That the V of `full` never fails needs the
  second equation: the entry of `empty` is ahead of the publications by the token that the
  monitor owes (`Owed`), so that P(empty) meets the limit first.
* `TornByAtMostOneHolds`: `TornInv`.  `EnvInStep` says how far the halves of the sample
  are apart wherever the transfer thread is, `CopyInStep` that between the two copies of
  the refresh thread at most one run begins: only a publication starts one.
* `ImplementsBoardHolds`: `Spec /\ [](boots = 1) => ImplementsBoard`, step by step from
  `EnvInv` and `BoardInv`: before the first publication no page is past its P(full)
  (`NothingYet`), and between its two reads a page has the half of the slot that is there (its
  holding the mutex keeps the monitor out).  The hypothesis is one life of the
  monitor, any number of pages: a second life sets the semaphores and clears the slot under pages that
  are reading it.

`CommandDispatch_proofs` proves, from `DispatchAssumption`:

* `InvariantHolds`: `Spec => []DispatchInv`.  `RunsOK` counts for a device the
  actions done, one for a worker already woken and one for a signal still to
  come; their sum is what stays below 2, and while there is a signal or a woken worker
  the byte is a command of this life.  It needs `OwnerOK` (mutex holders
  and program counters agree), `QueueOK` and `ByteOK` (queue and bytes hold the
  numbers they should).
* `ActsAreBounded`, `CommandIsStable`: its consequences.
* `ImplementsStream`: the dispatch implements `CommandStream`.

`ZigbeeNet_proofs` proves, from `ZigbeeAssumption`, for any number of
commands, rounds, losses and restarts, in any order, and both programs of the coordinator:

* `ZigbeeInvHolds`, `StaleBoundedHolds`, `QueryAnsweredHolds`: consequences of `NetInv`.
  `Messages` says which message can be where: the buffer of a node is overwritten, so what its
  events stand for is only known from who sends what.  `Pending` follows a
  query over its seven places to its answer, unless it was lost or overwritten.
  `Bounded` is what makes a sample's age finite.  Whatever is under way may become one answer; there is
  never more of it than commands of the fan, restarts and the query asked (`Slack`), for
  only those put anything on the line that no reading takes off.  What has p
  answers in front of it will be read p rounds from now, so its query must not be
  older than that allows (`Recent`), at each of the seven places.  `Aligned` says
  where answers begin in what waits on the serial line.
* `FanInOrderHolds`: the way of the fan's commands implements `CommandStream`.  `FanOrder`
  says that the commands grow from the pin back through the buffer of the fan node, the air,
  the events of the coordinator and the wire, where losses only leave some out.

`Snapshot_proofs` proves, from `SnapshotAssumption`, for any pages, options of the ring buffer,
numbers of pictures and restarts:

* `SnapshotInvHolds`, `AsManyAsAskedHolds`: consequences of `SnapshotIInv`.  What
  `maintain_ringbuffer` deletes is the oldest by name, so that it deletes the oldest taken needs
  names that grow (`AlbumInOrder`): within a process by the counter, over a restart by the seconds
  that the end takes (`NamesPast`).  `Filled` bounds the number of files between two cleanups by
  the remainder of the counter.  `Progress` relates the flag of the command, the pictures taken and those still
  owed, with the one command whose end comes two pictures early (`Taken`).

`Monitor_proofs` proves, from `SampleAssumption`, for bytes of any number of values where TLC
takes two:

* `SampleInvHolds`, `StoredAsReadHolds`: consequences of `SampleIInv`, which adds what the ioctl has put
  together before the thread stores it (`Assembled`).  Its core is the arithmetic of a word read in two
  transfers: the low byte comes from an earlier
  measurement than the high one, and what is put together has the high byte, hence the sign, of the later.

and, from `ShutdownAssumption`, for any pages and number of lives:

* `ReleasedOnce`, `MutexAndSegmentTogether`: consequences of `ShutdownIInv`.  The handler
  removes what has the id 0.  An id is given once, so the object that had it is gone for good
  (`ZeroGoes`), and among the semaphores the mutex is made first and no other can have it
  (`MutexFirst`).  The first segment comes after the first mutex and goes before it
  (`SegmentWithin`), so that a page has the first of both or of neither (`PageInStep`).

`BoaRequests_proofs` proves, from `BoaAssumption`, for any clients, scripts, number of descriptors,
limits and signals:

* `BoaSafe`, `AlwaysWatched`, `AlwaysAnsweredInFull`: consequences of `BoaIInv`.  A request is on one
  queue, once, also while a pass takes it from one to the other (`QueuesSound`); who is on one holds
  a socket and who is on none holds no descriptor (`Membership`), and no descriptor belongs to
  two requests (`FdsSound`).  From `fdset_update` to `select` the bit of a blocked request is set once
  the pass has looked at it, which is what `WatchedSoFar` says of the requests not in `todo`
  any more: a bit may outlive its request (section 5), but none is missing.
  `AnsweredInFull` says that what boa has begun to say it says in full, with the exceptions that
  the code makes: the client left or was late, the header or the answer did not fit its buffer,
  boa answered in place of the CGI; and only for the first three is a request given up.  It needs
  what each status says of what is still to be sent (`LeftByStatus`, `OverMeansSaid`), and for each
  handler what it may leave behind with which return value (`MayLeave`).  That every
  request is answered is not so (section 5).

`LedBank_proofs` proves, from `LedBankAssumption`, for the two drivers together `AdcAssumption`, and for
the forms `FormsAssumption`:

* `InvariantHolds`: `Spec => []LedInv`.  `PrivateLeds` and `OneWrongAtMost` together with
  the types and `StepsOK` are inductive, without a word on what the workers hold: a
  `WriteRegister` sets the LED of its ioctl right whatever it read, disturbs no LED on another
  port, and on its own port only LED4 and LED5 have a neighbour (`PinsApart`).  So after
  a write on GPF3DAT only the neighbour can be wrong.  `UpdatesLost` is its consequence.
* `DriversInvHolds`: with `UndisturbedEffect`.  `EffectInv` (its part `AloneOK`) says for a worker in the middle of its
  job, and undisturbed so far, that the rest of the job (`After`) leads from what
  the LEDs show now to what the command is to show.
* `CurrentHolds`, `WillWakeHolds`: `AdcInv`.  Results only get newer on their way to a
  reader (`InOrder`), and while one reader has the device to itself its flag is raised once for each
  read (`OnePerRead`).
* `FormsInvHolds`, `AsAskedHolds`, `RejectedIsHarmlessHolds`: for fields with any texts, where TLC
  takes 38 of them.  `FormsIInv` adds that a queued byte is what its page made of the form
  (`Encoded`), so that the ranges of the bytes decide which worker acts (`DigitByte`).
* `OneStepForAJob`: a worker of `ControlForms` that acts upon a byte in one step leaves the LEDs as the
  ioctls of its job in `LedBank` do, one after the other, for every byte and at least one round of the
  water lamp.

`FrameExchange_proofs` proves, from `FrameExchangeAssumption`, for any outputs, number of
buffers and frames:

* `InvariantHolds`: `Spec => []FrameInv`.  The driver hands out the frames in order
  (`FilledOK`), the one on its way is newer than the one in the global buffer (`StampOK`),
  who reads or writes the global buffer holds `db` (`LockOK`), so that an output sees it only when
  its three parts agree (`GlobalOK`); what an output asked for and what it copied are older than what it
  gets next (`AskedOK`, `CopyOK`).
* `FramesAreWholeAndFresh`, `BuffersAreKept`: its consequences.
* `ImplementsFeed`: the exchange implements `FrameFeed`, for every kind of frame and every minimum
  size, also none.  A publication is one step of `FrameFeed` at `memcpy_picture`, a take one at
  `ReadSize`; the stores and loads that follow change nothing of what is published and taken, since
  `db` is held.  `StampOK` gives the order of stamps and bytes that `FrameFeed` asks for; what is whole
  stays so because the kind of a captured frame does not change (`WholeKept`).

Only model-checked: the liveness properties (`PageServed`, `PagesWearOutMonitor`, `IdleWorkerActs`,
`SenderServed`, `PageThrough`, `Served`, `ComesRound`, `EveryConnectionEnds`), since fairness and
ENABLED are beyond the prover.  `WritableOrReadable` is what the code does not do (section 5).

## 5. Where the code departs from what it says

*The two semaphores* (run `env_semaphores`).  `pthread_refresh.c:61-62` calls `empty` "writable" and `full`
"readable".  The exit of an ordinary page undoes its P(full), so both are
positive at once: a published slot stays readable for ever,
and the two semaphores do not alternate.  The slot itself is still protected, by `mutex`.

The models contain the following as well; the properties are stated so that
they hold around them, and each is visible in the definition named.

* `LedBank`: LED4 and LED5 share GPF3DAT, and an update of one can be lost to the other worker
  (`a9_led_drv.c:98`); LED3 is not initialised, since line 156 under the comment `//LED3`
  writes the register of LED2 (`DriverInit`).
* `Snapshot.Enough`: the chain that ends a command tests the flag of nine pictures twice
  (`output_file.c:407`), so nine end after seven, and seven never end.
* `ZigbeeNet.FirstDigit`: a temperature of 10 to 19 degrees, or a failed measurement, begins with
  1 or 0, and its broadcast switches the fan (`SampleApp.c:359` of the fan node).
* `ControlForms`: the pages for LEDs, buzzer and fan look at one character, so that a field with 10
  to 19 acts like 1 (`a9_led.c:55`, `a9_beep.c:54`, `zigbee_fan.c:49`); an unsupported fan command prints an error and is sent as byte 0
  (`zigbee_fan.c:71`); `0 <= seg_no <= 15` is always true (`a9_seg.c:58`), so a number beyond 15
  can show as its lowest four bits; "off" of the digit sends the digit 15, which lights all
  four LEDs (`a9_seg.c:79`); the byte 0x20, "fan off" in the worker's message, writes
  the text "1" (`pthread_fan.c:25`), which `fan_test.c:19` calls on.
* `FrameExchange.uvcGrab`: an empty frame returns success before its buffer is queued again, and
  without a minimum size it is published with the bytes of an earlier one or with none
  (`v4l2uvc.c:442`); a frame without an SOF marker is published with size 0, the earlier bytes in
  place (`v4l2uvc.c:404-405`, `memcpy_picture`); `Leave` frees the global buffer without `db` (`input_uvc.c:465`), and
  `Destroy` destroys a mutex that a cancelled worker may hold (`mjpg_streamer.c:109`).
* `AdcDriver`: a second reader clears the flag that the first waits for (`a9_adc_drv.c:73`, `76`);
  hence `WillWake` speaks of a single reader.
* `Shutdown`: the monitor's IPC objects are released at most once since the kernel booted
  (`main.c:115-117`), and a page that waited through it can hold the old segment; the handler
  destroys mutexes in use (`main.c:85`), after which the process ends.
* `BoaRequests.ProcessHeader`: a line without a colon ends a request without an answer
  (`request.c:665-667`), as does a header that fills `client_stream` (`read.c:202-208`); neither
  puts an end to the keep-alive that the header may have asked for, so that the connection can be kept.
* `BoaRequests.ProcessCgiHeader`: output without a blank line is dropped for a 502
  (`cgi_header.c:61-73`), output with a Location for a redirection, whose answer may not fit the
  buffer: `req_write` then makes the request DEAD (`buffer.c:46-50`), which DONE overwrites
  (`cgi_header.c:85-135`), so that a part of the answer is sent.
* `BoaRequests`: a bit of a descriptor outlives the request that set it (`select.c:130`), so that `select`
  fails or wakes for nothing; the timeouts still end every connection.

## 6. Assumptions and what is left out

* *Exchange.*  A failing `semget` or `shmget` ends the program before the modelled part.
* *Dispatch.*  The branches 5 (print a threshold) and 10 (copy phone numbers) of the switch touch no worker;
  they are a message that goes nowhere (`setting`).  A failing `msgrcv` is left out.
* *Exchange and dispatch.*  SIGINT removes the objects with the id 0 (`main.c:115-117`), which on a
  freshly booted board may be the monitor's own; in `EnvExchange.Interrupt` and
  `CommandDispatch.EndProcess` they stay.  What happens when they go is the subject of `Shutdown`.
* *Forms.*  A worker acts in one step here, which for a worker that nobody disturbs comes to the
  same as its ioctls (`OneStepForAJob`); devices that cannot be opened fail every ioctl
  and are left out.  Nobody presses the keys of the board.
* *ZigBee.*  A command arrives whole on the serial line; a sender does not hear its own broadcast; an answer
  is written whole.  Joining the network and the DHT11's timing are left out.
* *Sample round.*  One of the three axes of each sensor stands for all; a device fails
  from its open on, or not at all, but for single I2C transfers.
* *Shutdown.*  No other program uses System V IPC on the board; the kernel does not reuse an id.
* *Snapshot.*  The pictures are left alone by others; the clock does not go back.
* *Frames.*  A camera with MJPEG at the default of 5 frames a second; the change of the resolution, marked
  as open in `TODO:4`, is left out.  After `Leave` an output that still copies finds the bytes of
  the freed buffer as they were; a frame that memory does not suffice for ends its output (`NoMemory`).
* *boa.*  `MaxConnections` is unset, so the 503 page cannot be reached; at most one SIGTERM;
  errors of `fork`, `complete_env` and temporary files and wrong content lengths are left out; a
  body is one piece.  HEAD and HTTP/0.9 requests are left out.  So is "too much data" of
  `cgi_header.c:156-166`, which cannot happen: `init_cgi` starts the output of a CGI in the middle of
  the buffer, and the header of some 150 bytes that goes before it does not reach there.  The
  kernel gives the lowest free descriptor, and `select` clears the bits above `max_fd`; each
  request has its own age.

**Not modelled.**  `linuxuart.c` sets termios and `pthread_sms.c` prints a line: no state.
`login.c` compares two strings.  Test programs, HTML pages and archives have no behaviour of their own.
Configuration, aliases, MIME types, directory listings, logging and the lexer of boa, the options, controls
and JSON of mjpg-streamer, and its plugins that `start.sh` does not load, take no part in what is concurrent or
persistent here.  cgic, libjpeg and the Z-Stack are third-party libraries; most of
the lines of C in the repository are theirs: libjpeg's transforms, two copies of a test picture as an
array of numbers, cgic twice, boa's generated lexer, and mjpg-streamer twice (the
`-experimental` tree is not built).  So the mapped lines are a small share of the whole, though
most of what was written for this system is among them.

## 7. What could come next

1. `ImplementsBoard` over restarts, for those pages that no SETVAL has met.
2. Compositions: `CommandDispatch` with `LedBank` in place of a worker's single step.
