# Verification of code_project

code_project is a collection of C programs around embedded Linux: thread and
buffer exercises, TCP tools for a network camera, Linux character drivers that
share one GPIO register, and the firmware of a brushless motor controller.
There is no single program; its parts meet through a pool of threads, a byte
stream, a register or a pair of timers, and those meeting points are what this
directory models. It holds TLA+ modules, TLC configurations that check them on
small instances, and TLAPS proofs that hold for all values of the constants.

Paths below are relative to `src/c/`.

## Inventory

| Part | State | Operations | Interaction | Hard behaviour |
|---|---|---|---|---|
| Thread pool, `application/pthread/thread_pool/threadpool.c` | list at `queue_head`, `cur_queue_size`, `shutdown`, the threads | `pool_init`, `pool_add_worker`, `thread_routine`, `pool_destroy` | mutex `queue_lock`, condition `queue_ready`, join | wakeups lost, stolen or spurious; `shutdown` written without the lock; nodes freed by two parties; the pool freed under running threads |
| Directory copy, `thread_pool/a.c` | `targs`, a System V semaphore, the pool | `copydir`, `copyfilepass`, `copyfile` | main and workers share the slots of `targs` | result slot of one file is the argument of the next; workers that end instead of returning; a failed `open`; the broadcast of `pool_destroy` without the lock |
| Bounded buffers, `pthread/producer_consumer/2..6` | ring of `SIZE` slots, two semaphores, initialization flags | `getitem`, `putitem`, `buffer_init` in four styles | mutex, semaphores, `pthread_once` | slots lost or made up, an initialization run twice or used too early, a failure nobody looks at, an initialization that writes the control of the `pthread_once` that runs it |
| GPIO bank, `linux_driver/{gprs,gprs_new,system_ready,buzzer,pcie_gpio}` and the beep of `key/key_gpio` | registers `OE` and `DATAOUT`, mappings, module states | init, write, exit | every driver reads, changes and writes back a shared register | lost updates, also across `msleep`; a device file that exists before its mapping; an `ioremap` that fails unnoticed |
| Key driver, `linux_driver/key/key_gpio/gpio_key.c` | resources of `keys_probe`, `get_my_key`, `state`, the wait queue | probe, remove, interrupt, timer, open, read, release | interrupt and reader share one event | error paths of probe; sleeper that misses a key; an event copied while it changes |
| Stream clients, `application/tcp_ip/tcp/tcp_command`, `udp/tcp_udp/2_slect_test`, `tcp/fileclient.c`, `tcp/project/client.c` | receive buffer, files, `sem_stream`, command and photo state | `data_pthread`, main, `recv` of header, body, ack and photo | semaphore and cancellation between two threads, TCP to the camera | `recv` cuts the stream anywhere; a silent or dead camera; cancelled thread; a disk that is full in the middle of a frame; process out of files |
| Motor controller, `linux_driver/Mini5D_fly_pom_1101/Source` | registers `PHCHG`, `PHCHGNXT`, table index, period, duty | `BLDC_Start`, `BLDC_Control`, `BLDC_STOP`, `Motor_Beep`, `TMR1_IRQHandler` | two timers interrupt main between any two statements | a timer that replaces what main has just written may switch a stopped motor on, or close two switches that short the supply |
| Frame capture, `application/linux_driver_opteration/camera` | queue of mapped buffers, picture file | V4L calls, `read_frame` | buffers pass between driver and program | calls that fail and are ignored, timeouts, buffers read while they are filled |
| Camera control, `application/linux_driver_opteration/i2c/camera.c` and `camera_ctl.c` | registers of an i2c device, gain registers of a sensor, static copies of both gains in each process | `set_exposure_time`, `enable_flashlight`, `set_trigger_mode`, `set_*_gain`, ... | processes share the device and the three pins; `camera_ctl.c` reaches the pins through `/dev/gpio_pcie`, that is, the GPIO bank | a word sent bit by bit while another sends its own; ignored failures; products that overflow; copies that go stale |
| Settings file, `application/file_operation/gedit_config.c` and `set_wifi` of `tcp/project/camera.c` | the file, its saved name | `ReadConfig`, `AddOrAltConfig`, `DeleteConfig`, `set_wifi` | one file, read and rewritten by several programs | a stop after `remove` or after `rename`, a `rename` that fails unnoticed, names that occur twice, a missing newline |
| Camera command server, `application/tcp_ip/tcp/project/camera.c` | connection, command buffer | message loop, `check_cmd` | one client at a time, TCP | commands cut and joined, a client that hangs up with commands on their way, a byte written behind the buffer |
| Character driver exercises, `linux_driver/{ts_irq,timer,test}` | mappings, timers, memory devices, lamps, what init holds | init, exit, file operations, handlers | interrupt, timer, processes and module removal | devices that exist before their memory, exits that forget, a mapping removed under another process, the timer beside `del_timer` |
| Socket exercises, demonstrations, peripheral and file tools, generated files | | | | not modelled: `PROJECT.json` gives the reason for each |

What makes each part correct:

- *Pool*: a task that is added is started, once, in order; a node has one owner;
  the pool outlives its threads; `pool_destroy` returns.
- *Copy*: main ends only after the last copy; what is reported as completed came
  from the source.
- *Buffers*: a FIFO queue of `SIZE` items to its callers; slots conserved;
  semaphores set up once and before use.
- *GPIO bank*: a handler disturbs no pin that nobody is driving; pulses
  end high; no access through an unmapped pointer, but where init leaves it open.
- *Key driver*: a refused probe leaves nothing behind; no handler without its data;
  no key missed and none reported twice.
- *Stream clients*: files and photos hold what was sent, however it was cut;
  a recording can be stopped.
- *Motor controller*: never a short circuit; a stopped motor stays off.
- *Capture*: a saved picture is one whole frame; the program ends.
- *Camera control*: the sensor has what the process believes it has; an answer that
  is no error is true.
- *Settings file*: a call changes its name and no other; a stop inside `set_wifi` loses nothing.
- *Command server*: who asks, and waits for each answer, gets one or loses the connection.
- *Character drivers*: exit leaves nothing behind but what the code is known to
  forget; crashes only in the known ways; no touch is lost; lamps show what was commanded.

## Modules

| Module | Models | Checked by | Proved in |
|---|---|---|---|
| `TaskPool` | what the pool promises: tasks submitted in order, started in order, at most once, finished | refined by `ThreadPool` | |
| `ThreadPool` | `threadpool.c` | `MCThreadPool` | `ThreadPoolProofs` |
| `DirCopy` | `a.c`, on top of what `TaskPool` promises | `MCDirCopy` | `DirCopyProofs` |
| `BoundedQueue` | what a buffer promises: a FIFO queue that answers EAGAIN only when full or empty | refined by `Buffers` | |
| `Buffers` | directories 2 to 6 of `producer_consumer` | `MCBuffers` | `BuffersProofs` |
| `GpioRegister` | five drivers and the beep on one bank | `MCGpioRegister` | `GpioRegisterProofs` |
| `CameraCtl` | `camera.c` and `camera_ctl.c`, the i2c device and the sensor | `MCGpioRegister` | `CameraProofs` |
| `GpioKey` | `gpio_key.c` | `MCGpioKey` | `DriverProofs` |
| `CharDriver` | `ts_irq.c`, `hello.c`, `test.c`, `led.c`, `memdev.c`, `reset.c` | `MCGpioKey` | `DriverProofs` |
| `StreamClient` | four client programs and the camera | `MCStreamClient` | `StreamClientProofs` |
| `Bldc` | main, the firmware functions and both timers | `MCBldc` | `BldcProofs` |
| `FrameGrab` | five capture programs and the video driver | `MCFrameGrab` | `CameraProofs` |
| `CommandServer` | main of `project/camera.c` and its clients | `MCFrameGrab` | |
| `ConfigFile` | `gedit_config.c` and `set_wifi` | `MCFrameGrab` | `CameraProofs` |

Three MC modules put parts beside each other that run on one board:
`MCGpioRegister` the drivers of the bank and the camera control above them,
`MCGpioKey` the two kinds of character driver, `MCFrameGrab` the programs of
one thread. There a variable `which` chooses the part that a behaviour has; the
others stay in one of their initial states, so that the state space is the sum of
the parts and not their product. What the parts share is inside the parts:
the pins that a driver of the bank puts back are an action of `CameraCtl` (`BankUndoes`), the pool that
`DirCopy` uses is its queue, the beep of the key driver is a handler of `GpioRegister`.

The `map` of `PROJECT.json` gives the source lines of every definition.

### How state and actions correspond to the code

- **ThreadPool.** One action per statement group between two synchronization
  points: `Lock`, `Test` (line 159), `Block` (160), `Relock`, `TakeCount`,
  `TakeHead`, `Unlock`, `RunTask`, `FreeNode` for a worker, and the bodies of
  `pool_init`, `pool_add_worker` and `pool_destroy` for main. `Test` and
  `Block` are apart because `pool_destroy` does not take the lock. A `CThread_worker` node is the
  number of its task. `runs`, `live` and the like are history variables.
- **DirCopy.** `src[f]` and `dst[f]` are the two ints of `targs` for file `f`;
  the third int that `copyfilepass` writes is `src[f+1]`. `Take` hands out the
  head of the queue, as `ThreadPool` implements it. A worker that called
  `pthread_exit` is dead. The pool of `a.c` ends as that of `threadpool.c`: `Shutdown`,
  `Broadcast` and `Join` are steps of main, `Test` and `Wait` steps of a worker, which is "drowsy" in between and
  still holds the lock; `Signal` wakes one sleeper. `ReadsTerminal(w)` names a worker whose source is a
  byte count, that is, some low descriptor.
- **Buffers.** `program` selects the directory. A thread waits, locks, accesses,
  unlocks and posts in separate steps. In directory 6 `initialization` writes `init_once = 1` while
  `pthread_once` runs it (line 44): `MarkOnce` is that write, `LeaveOnce` the end of `pthread_once`. A library that
  marks sleepers in the control itself (musl does) forgets those that sleep by then: "stuck". The queue of the refinement is the part
  of the ring from `bufout` on.
- **GpioRegister.** A handler is a sequence of records, one per register access
  or kernel call, in the order of the code; a process walks through it. `held[p]`
  is the local variable between load and store. `IoremapFails` leaves `gpio_data` NULL; five of the drivers go
  on and are loaded (`refused`), the key driver returns.
- **GpioKey.** `Order` lists the resources in the order `keys_probe` takes them;
  the error labels `fail1` to `fail5` are sequences of releases. Copying an
  event to the reader takes two steps, so that it may be torn.
- **StreamClient.** The stream is a sequence of units that name the frame and the
  video they belong to; `recv` takes any non-empty prefix of what was asked
  for. The data thread and the main thread are separate; cancellation acts at `recv`
  and in `fwrite`. `WriteFails` and `WriteFileFails` leave any part of a slice behind and end the thread or the program,
  `SavePart` does the same to an image (`cut`), after which main goes on. What stands in `file` is what `fwrite` took.
  Of `project/client.c` the transfer is modelled, with its failing write; the command it sends first is not.
- **Bldc.** `PHCHG` and `PHCHGNXT` hold an index into `TabPhase` and whether timer 0
  may replace the value. Main proceeds one register write at a time; `Timer0`
  and `TMR1_IRQHandler` come in between, in the order the timers impose once
  the motor turns. `StartDelay` is the 600 us to the first interrupt after `BLDC_Start`, less than 3/4 of the first period.
- **CameraCtl.** A call is a sequence of transactions (`WriteReg`, `ReadReg`, `Pin`,
  `Sysfs`, `Pulse`, `Device`) that the process works off; any may fail, and the call goes
  on or returns as the code does. The sensor shifts a bit at each clock edge and
  takes the word at the latch if it has the right length. Gains and addresses are sets of
  one bits: `Green1Red` and `Green2Blue` are the two registers that hold gains, `Other` stands
  for the rest. A call is "clean" if it is alone, all its transactions succeed and nobody undoes a
  pin; `BankUndoes` spoils also the call that ended last, since enough
  undone pins after a call would clock another word into the sensor.
- **CharDriver.** `driver` selects the module. `InitSteps` and `ExitSteps` list what init
  asks for and exit gives back; `own` is what the module holds. `pcs[p]` is where a
  process is in a call; `early`, `refused`, `wrote` are history variables that say
  which assumption of the code was broken.
- **ConfigFile.** A file is a sequence of lines and whether the last ends with a newline.
  `Altered`, `Deleted` and `WithNewAccount` compute what a call writes; removing,
  renaming, creating and writing are steps of their own, with a stop possible
  between any two. `remove`, `rename`, `fopen` and `fputs` may fail, and the code looks at `fopen` only. After a `rename` that failed
  the call writes over the only copy (`op.do` is "over"); `Uncopied` and `Bare` say when no copy stands beside what is written,
  `hurt` that a write or a stop then went wrong and that no later call has repaired it. `Deleted` goes through the lines as the loop of `DeleteConfig` does.
- **CommandServer.** A command is two halves; `Recv` takes any number of those that have
  come. `Ret` is constant because line 449 replaces what `check_cmd` returned. `owed` counts the answers that
  a client still waits for, one for each command it sent: an answer to two commands that one `recv` joined pays for one.
  A client is `eager` from the moment it sends a command while an answer is owed.
- **FrameGrab.** `queued` and `done` are the two queues of the driver, `content`
  the halves of each buffer. Every call may fail, and goes on as the code does; `WriteNowhere` is the crash of a program
  that did not look whether its picture file was opened.

## Runs

| Run | Instance | Shows |
|---|---|---|
| `pool` | 3 workers, 3 tasks, 2 calls of `pool_destroy`, 1 spurious wakeup | no empty list is read, nodes are owned once and none leaks, the pool outlives its workers, no wakeup is lost by `pool_add_worker`, every task starts unless the pool is shut down, `pool_destroy` returns whenever its broadcast missed nobody, and `ThreadPool` implements `TaskPool` |
| `pool_hang` | 2 workers, 2 tasks | violation: shutdown does not reach every thread |
| `copy_safety` | 3 workers, 3 files | the semaphore is a barrier; a foreign descriptor is read only through the predecessor's result, and a file that was served gets nothing only if its destination was not opened; with a worker per file the program ends, unless a worker reads from the terminal or missed the broadcast |
| `copy_hang` | 2 workers, 3 files | violation: the third file is never taken |
| `copy_slots` | 2 workers, 2 files | violation: a copy that completed came from another file |
| `buffers` | 2 slots, 2 consumers, numbers modulo 3, 1 failing initialization, the write to the control of `pthread_once` | slots conserved, initialization once and before use, the refinement of `BoundedQueue`, every item retrieved when there are semaphores and `pthread_once` has not forgotten all consumers |
| `gpio` | 2 processes; 3 pairs of drivers, 5 calls; camera control with words of 1 bit for each gain, an i2c register of 4 values, 2 calls, 1 failure; any `ioremap` may fail | a pin changes only while a handler that drives it is in progress or overlaps one; pulses of the reset line end high; an unmapped access happens only while the driver's own init runs or after an `ioremap` that failed unnoticed; an undisturbed gain arrives and both gains of its register agree with the copies of the process, whatever was disturbed before; answers of `set_exposure_time` and `enable_flashlight` are true |
| `gpio_hold` | `system_ready` and the key driver, 4 calls | violation: the pins that `system_ready` holds high go low |
| `keys` | 2 keys (one debounced by timer), 2 readers, 3 interrupts, 3 reads; six small drivers, 2 processes, 2 lamps, a memory of 2 cells, 2 touches, 1 or more processors | every refusal of `keys_probe` is undone exactly; no interrupt or timer without its data; no sleeper misses a key; a reader that waited gets a new event; what each small driver leaves behind and how it can crash is what `LeftBehind` and `NoOtherOops` name; touches are reported, lamps and the power pin are as commanded |
| `stream` | 4 programs, 2 videos, 3 kinds of frames, 2 frames, 2 sessions, 3 commands, room for 4 or 8 files, any write short | recordings, transferred files and photos hold what was sent, and after a failed write the beginning of it; no command before the data connection stands; "medium stop" ends |
| `bldc` | periods and duties scaled down with their order kept, 2 counted steps | table index in range, no step turns a phase from its upper to its lower switch, nothing driven between stop and start |
| `grab` | 5 programs, 2 buffers, 4 frames, 2 signals, 2 retries; 2 clients, 3 commands; files of up to 2 lines, 4 values, 2 calls, 1 stop | a buffer that was handed over goes whole into the file; the streaming programs end although the camera is silent; who asks the server and waits for each answer gets it or loses the connection; settings are what the calls have set, and neither a stop inside `set_wifi` nor a failed write loses them, unless its `rename` had failed |

A type invariant is stated in the modules, and proved for the pool, the copy,
the buffers, the bank, the motor and the small drivers; the others document the state. For the
stream clients, the capture programs and the camera control, what the proofs need of the types is
part of their inductive invariants.

### Findings

- `pool_hang`: `pool_destroy` (`threadpool.c:222`) sets `shutdown` and
  broadcasts without `queue_lock`. A worker between line 159 and line 160
  misses the broadcast and the join never returns.
- `copy_hang`: `copyfilepass` ends with `pthread_exit` (`a.c:404`), so that each
  worker serves one file only; further files wait for ever.
- `copy_slots`: `copyfilepass` stores its byte count where main stores the source
  descriptor of the next file (`a.c:400`, `a.c:455`).
- `gpio_hold`: the read-modify-write of the GPIO register has no lock
  (`system_ready/gprs_c5300.c:63`); a write during init puts back the
  register of before.

### What the preconditions leave out

Some properties speak only of a part of the behaviours; the rest is in the model, as in the code, and
a property that covered it would fail.

- `Terminates` and `QueuedFilesAreTaken`: not where a worker reads from standard input, the descriptor that a byte count
  may name; `Terminates` also not where `pool_destroy` missed an idle worker, which is the case of `pool_hang`.
- `EveryItemRetrieved`: not when `pthread_once` has forgotten all consumers of directory 6.
- `OopsOnlyUnmapped` names the two ways in which the bank is accessed unmapped, and excludes all others. `LeftBehind` and
  `NoOtherOops` do the same for the small drivers.
- `OnlyActivePinsChange` counts as a driver's own pin what its handlers drive; `buzzer_exit` drives pin 16.
- `GainsArrive` (`clean`): a word during which another process or the bank moved a pin may be wrong; a later one is not.
- `OutputsAsCommanded`: commands that do not overlap.
- `EventsAreFresh` and `NoSleeperMissesKey`: an event may be torn while it is copied, and one that comes before `state` is cleared is lost.
- `FileHoldsContents` and `PhotosHoldImages` (`short`): a header, or an acknowledgement, that one `recv` brought in part.
- `StopEnds`: of the join; a photo loop whose connection has ended spins for ever.
- `PictureIsWhole` (`taken`): what is saved after a failed `VIDIOC_DQBUF`.
- `EditsRead`: a line added behind one without a newline, a buffer that held more before, an overflow of `sum_buf`.
- `WifiSurvives` (`hurt`, `Bare`): a `rename` that failed, followed by a write or a program that fails too.
  `AddOrAltConfig` and `DeleteConfig` remove the only copy first, and promise nothing of the kind.
- `Answered` (`eager`): a client that sends a command while it waits for an answer. If one `recv` joins both,
  there is one answer, and the client waits for the other for ever.

### Bounds, and why they are enough

- Three workers are the least with one that takes the task another was woken for
  while a third sleeps; three tasks make order visible and fill the list while a
  worker is busy. What holds here for three is proved for every number.
- Two slots and two consumers reach full, empty, the wrap of both indices, and two
  threads that compete for one item. Numbers modulo 3 are one more than
  the slots, so two items in the buffer differ.
- Two processes suffice for the GPIO bank: a lost update involves one load,
  one store in between, one store. Five calls let both drivers be loaded,
  used and one removed. The boards pair drivers that drive a common pin.
- In `CameraCtl` the width of a gain is 1 bit, of an address 2, of a value 2: enough
  for a gain beyond its range (bit 1) and for two gains that share a register. The i2c
  register has 4 values instead of 2^16, so that the product and the sum of both halves
  overflow within small numbers. The gains are the two that share a register; the other
  register differs in its address only. Two processes with one call each disturb each other at every transaction.
- Two processes reach every pair of places in the small drivers; two lamps are a
  lamp and another one; a memory of 2 has a position inside, at the end and none beyond;
  two touches have one that comes while the other is being reported.
- A file of two lines has every order of a name that occurs twice, a plain line, and
  none; two calls show what the first leaves for the second. The values are
  the empty one, both halves of the old account, and one that overflows `sum_buf`.
- Two clients are one that is served and one that waits; three commands of two halves
  are cut and joined in every way.
- Two keys cover a failure before, between and after the buttons, in both
  debouncing styles; three events overwrite one that a reader is copying.
- Two videos and lengths 0, 1 and 2 give frames with an empty, a single and a
  split body; two frames carry what is left over from one to the next;
  two sessions show what a first recording leaves for the second. The limits on files
  make the first or the second session fail at each place where files are opened.
- The motor's time constants matter only through their order; `StartDelay` is below 3/4 of the first period, as the 600 us are. All 6 phases are kept.
- With two buffers the driver fills one while the other is written. The retry
  limit of 100 in `6_camera_test.c` is 2.

The proofs need none of these bounds: they hold for any number of threads, processes, files, frames,
calls, failures and stops, and for words of any width. The command server has no proof; its
one property is a liveness property.

### Fairness

- `pool`: weak fairness of main, except for the step that decides to call
  `pool_destroy` once more, and of each worker. The scheduler
  runs every thread that can run. A mutex that several threads compete for
  needs no strong fairness in this model, where the claim is that *some* worker takes the task.
- `copy_safety`, `copy_hang`, `buffers`: weak fairness of main and of each worker or consumer; none for a worker
  that reads from the terminal, which may have nothing to say. Spurious wakeups, which could only
  help a copy to end, are left to `ThreadPool`.
- `stream`: weak fairness of both threads of the client. The camera need not do anything.
- `grab`: weak fairness of the program, which the two-second timeout of `select`
  justifies for V4L2. The driver need not deliver a frame, and signals are
  bounded: each restarts the timeout. Weak fairness of the server, which does
  nothing but its loop; the clients need not send, nor hang up.
- `gpio`, `keys`, `bldc`, `gpio_hold`, `copy_slots` are safety only and use none.

### Deadlock

Only `bldc` checks for deadlock: firmware never stops. The others set
`CHECK_DEADLOCK FALSE` because the program ends (the three `copy` runs, `stream`, `grab`, and
main of `pool`), because a failed initialization, a lost wakeup or a forgotten `pthread_once` leaves threads
asleep for ever, which the liveness properties speak about (`buffers`, `pool`), or
because the bounded supply of calls and events runs out (`gpio`, `gpio_hold`, `keys`).

## Proofs

All theorems hold for every value of the constants that satisfies the named
`ASSUME` of the module. Each rests on an inductive invariant `IInv`, shown to
hold initially and to be preserved by each action.

- **ThreadPoolProofs** (`PoolAssumption`). `HeadExists` is not inductive: that
  a worker finds a task under the lock needs to know who holds the lock. `IInv` (theorem `Synchronisation`)
  adds: the program counters say who is in the critical section (`LockOwner`), `shutdown` follows main
  (`ShutdownPhase`), threads are created and joined in order (`Lifecycle`),
  `cur_queue_size` differs from the length of the list only between the two statements
  that change them (`SizeMatches`), and, while the list is not empty, some
  worker is awake or main is about to signal (`DrowsyOnlyWhenIdle`). From it follow `TypeCorrect`,
  `HeadAlwaysExists`, `PoolReleasedLast` and `NoLostWakeup`. A second invariant,
  `NodeInv` (theorem `NodeOwnership`), says that the list ascends in the order
  of adding and lies above everything taken, and that the live nodes are
  those on the list, with a worker, or pending in main. It gives
  `TasksRunAtMostOnce`, `NodesHaveOneOwner`, `DestroyLeaksNothing` and `QueueIsFifo`.
- **BuffersProofs** (`BuffersAssumption`). `TokensConserved` counts threads by
  place; with `LockOwner`, `InitPhase`, `Births` and `Polling` it is inductive
  (theorem `Conservation`). The lemma `CountMoves` says what one moving thread
  does to the cardinality of such a set; each action then is arithmetic. It gives
  `TypeCorrect`, which bounds both semaphores by `SIZE`, `NoSlotLost` and `InitializedOnce`.
  `BuffersAreQueues` is the refinement of `BoundedQueue`: by a lemma for each access,
  the ring from `bufout` on grows at its end, shrinks at its head, or stays. `InitializedFirst` adds
  that nobody is past the initialization before it is complete: the write to `init_once` comes after the semaphores
  exist, so it may leave threads asleep but lets none through early.
- **GpioRegisterProofs** (`GpioAssumption`). First, lemmas about each of the
  step sequences: well-typed, and no store without a load of its register before.
  Then the invariant: what a process holds differs from the
  register only in pins that calls of its company drive. It gives `TypeCorrect` and
  `LostUpdatesContained`, for any number of processes and any set of drivers together;
  `PulsesEndHigh` and `MappedWhenUsed` rest on what is left of each handler; the second also on the set of drivers
  whose `ioremap` failed.
- **BldcProofs** (`BldcAssumption`). `IInv` fixes, for each place in main, what
  the two registers, the table index and the timers can be (`Places`,
  `Enabled`, `Off`, `Beeping`, `Turning`). The heart is `Turning`: while the motor turns,
  `PHCHGNXT` is the entry of `PHCHG` or the next one. It gives `TypeCorrect`,
  `StopHolds` and `NeverShorted`.

- **DirCopyProofs** (assumptions of `DirCopy`). The barrier is not inductive: that the
  semaphore reaches zero means that nothing is pending only if its value is the
  *number* of files announced and not yet finished (`Counts`), which in turn needs that a file
  is in the queue or with one worker (`Order`). `Sources` follows the result of one file into the slot
  of the next. It gives `TypeCorrect`, `SemaphoreCounts`, `SemaphoreIsBarrier` and
  `WrongCopiesOnlyThere`: a worker that has copied and left nothing had no destination, and one that reads
  through another's descriptor follows a worker that stored its count.
- **DriverProofs**, keys (`KeyAssumption`). What is held has a rank, the step at which `keys_probe`
  acquires it (`Rank`); while it acquires, nothing of a higher rank is held, and afterwards
  everything held is still listed for release (`HeldInv`). A list is `Ordered`: a timer
  goes after its interrupt, which may start it again, and the data after all handlers.
  Lemmas show this of `Undo` for each refused step and of `Remove`, for any number of keys
  (`ByThree`, `ThenFail4`, `UndoListsAll`). It gives `AllIsReleased` and `NoHandlerWithoutData`.
  `NoReaderSleepsOnKey` and `WaitingReadersGetNewKeys` rest on invariants of
  the readers: whoever has not slept through is older than the event to be read.
- **DriverProofs**, small drivers (`CharAssumption`). `OwnInv` (theorem `Ownership`) says what a module holds while it is
  loaded and what exit still owes; it gives `LeftBehindBounded`. `LampInv` and `PinInv` give `OutputsObey`: a process that writes alone stores what
  was commanded. `CrashesNamed` needs four more: processes are only where their driver has code
  (`Attached`), nothing that exit still needs is gone (`Granted`), the number of ioctls tells whether the
  registers of `ts` are mapped (`Mapped`), and who opened `memdev` found its memory (`Allocated`).
- **StreamClientProofs** (`StreamAssumption`). What a file holds says nothing of
  what is still on its way, so that none of the four properties is inductive. `IInv` has eight parts: the types and places of
  the two threads (`Main`, `Data`), whether the semaphore counts a post that main has not taken (`Session`), that
  nothing is received without a connection (`Link`), where in the stream the data thread is
  (`Stream`), how many frames of it each file has, at each place of the loop, and what a failed write added (`Files`), what a file client has of the
  contents (`Contents`), and what is on its way to the main thread (`Photo`).
  It gives `CommandsConnected`, `FilesOfRecording`, `FileOfServer` and `PhotosOfCommand`, for any number and length of
  frames and any way in which `recv` cuts them. The stream is the concatenation of all frames, a recursive function;
  that it exists, is unique and grows by one frame at a time is shown first (see below).
- **CameraProofs**, capture (`FrameGrabAssumption`). A picture is whole because the buffer it is copied from is
  not with the driver: no buffer is queued twice (`Queues`), what is handed over was filled to the
  end and stays so while the program has it (`Pictures`), and each program takes only the steps of its own
  interface (`Route`). For the second half, that a program without a failed call has written a picture, `Success`
  says that then all granted buffers are mapped. It gives `PicturesWhole`.
- **CameraProofs**, settings (`ConfigAssumption`). At every step of `set_wifi` one of the two
  names has the settings, unless its `rename` failed; the invariant names which. It gives `WifiLosesNothing`, for files of any length.
  `EditsAreRead` is about what the edits compute: `EditsInv` says that the file, or what a call is going to write, has
  the settings asked for (`Promised`). The lemmas state of each edit that it changes the first line of its
  name and of no other (`SettingIs`, `SameSetting`); the loop of `DeleteConfig` keeps the lines of the
  other names, in order (`KeptAll`).
- **CameraProofs**, camera control (`CtlAssumption`). For `AnswersAreTrue` the invariant says what each exposure or flash call has written
  and read at the place it has reached (`Exposures`, `Flashes`), as long as nobody else calls
  (`CtlTurns`); the answer then is arithmetic about the two halves of the product. `GainsReachSensor` follows
  a word bit by bit: `Words` says which part of it the sensor has and which is left of the call (`InWord`),
  `PinsOnly` that such a call touches nothing but the pins, `Gained` that the word
  packs both gains the process remembers. It holds for any width of gain, address (2 bits or more) and value
  (two gains or more).
- **ThreadPoolProofs**, **BuffersProofs** also hold the refinement theorems `PoolKeepsPromise` and
  `BuffersAreQueues`: `ThreadPool` implements `TaskPool`, and `Buffers` implements `BoundedQueue`, step by step.

TLC checked the strengthened invariants before they were proved, on instances as in the runs. The largest runs
are `gpio` with 1.7 million states, `stream` with 1.2 million and `copy_safety` with 225 thousand.

Induction over data is done without the induction theorems of the library, whose
operator parameters the provers cannot instantiate: a claim about all numbers up to a bound is
the claim that a *set* of numbers has 0 and the successor of each of its members
(`NatInSet`, `UpTo`). So a recursive function can be shown to exist, to be unique and to have its values.

Proved is every safety property that a passing run checks. Only model-checked is liveness (the provers have
neither fairness nor ENABLED): that the pool, the copy, the
buffers, the capture programs and the stream clients go on or end, and all that is said of
`CommandServer`.

## Not modelled

- Failures of `malloc`, `pthread_create` and `pthread_mutex_lock` in the pool,
  which the code does not look at.
- The buffers of stdio: `file` is what `fwrite` took, part of which may still be in the process. A `FILE` that an earlier
  recording never closed is flushed when the process ends; that is left out, as is a stop of the board, since nothing here calls `fsync`.
- In the stream client a process that runs out of files leaves main waiting in
  `sem_wait`; the model reaches it, and no property speaks of it.
- The throttle of the motor controller: capture of the pulse, learning of its
  range, and the subtraction of `mini5D_BLDC_main.c:161` that reads a
  variable twice. Line 172 replaces its result.
- `key_ioctl`, and unbinding the key driver while its device is open.
- The first command of `tcp/project/client.c`; its transfer is that of the "file" program.
- The reset pin of the camera and the 26 words that `init_device` writes, one by one.
- In the settings file: lines of 256 and names of 40 characters or more, values of `SAFE_SAPCE`
  or more. A write that fails leaves the file empty here; on a full disk it may also leave a part.
- `send_capture` and `calibrate_date` of `project/camera.c`, which main does not reach.
- Reads and writes of the small drivers that only print or copy a constant
  (`led_read`, `key_write`, `gprs_read` and `gprs_write` of `reset.c`).
- The socket exercises: request and answer loops of one connection each, without state between
  requests. Their one hard case, cut messages, is that of `StreamClient` and `CommandServer`.
- The demonstrations of pthread calls, the display modules, peripheral tools, file, string and message
  tools: sequential, without state of their own. `key/key.c` and `test1/key.c` do not compile.
  Vendor headers and generated files hold no behaviour of this project.

## Plan

Done, in this order: pool and its promise, copy, buffers and their promise,
GPIO bank, keys, stream clients, motor controller, frame capture; then the small
character drivers, camera control, settings file and command server; then the proofs: both refinements,
and every safety property of every part.

What would come next:

1. `Throttle`: pulse capture and learning of the motor controller, with
   `Duty_Command` against the range its comment states, once line 172 is gone.
2. The server side of `tcp/fileserver.c` beyond one transfer.
3. Proofs: the type invariants of `StreamClient` and `CameraCtl`, and abstract specifications
   of the settings file (a record that is changed in one step) and of the gains of the sensor, with their refinements.
