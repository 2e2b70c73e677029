# A TLA+ verification of !CHAOS

!CHAOS (`src/`) is a framework for distributed control systems. A *unit server*
hosts *control units*, each of which drives an instrument. Clients reach a unit
over RPC; a unit executes the *batch commands* they submit and sends its data to
a *data service*, which acquires it in stage files and stores and indexes it
from there. A *metadata server* knows which units exist.

This directory holds TLA+ models of five parts of the framework where threads,
processes and failures meet, the TLC configurations that check them, and TLAPS
proofs of the properties that matter most. `PROJECT.json` maps every definition
to the lines it models.

## The system

### Inventory

| part | state it keeps | operations that change it | what makes it hard |
|---|---|---|---|
| sandbox (`chaos/common/batch_command/BatchCommandSandbox`) | queue, current command, stack of paused commands, two functors, work flag, two one-bit semaphores | submit, install, stack, kill, retire, resume, step, start, stop, deinit | two threads, two mutexes, three condition variables; pointers used after an unlock |
| command (`BatchCommand`) | running property, features, set-up flag | set, acquisition and correlation handlers, timeout, change of features | handlers may throw and leave any property |
| executor (`BatchCommandExecutor`) | command ids, history queue and id map, sandbox map | submit, events, cap, flush, read, init/start/stop/deinit | one shared mutex in three modes; a size read unlocked; ids that restart |
| processing queue (`pqueue`) | FIFO of elements, `in_deinit` | push, pop, clear, deinit | two conditions, a deinit that waits for workers that have left |
| dispatcher, domain schedulers (`dispatcher`, `action`) | `das_map`, action descriptors, `armed` | register, deregister, dispatch | `das_map` read without its lock |
| event dispatcher, event channels (`event`) | the same over a priority queue | register, dispatch | as above |
| message channels (`message`, `thread/*Semaphore*`) | request counter, keyed answers | request, answer, timeout, poll | an answer that arrives late, twice or never |
| network broker, RPC, direct io | maps of channels and servers | open, close, send | mostly sockets; fail-over between servers |
| control manager, work units (`cu_toolkit/ControlManager`) | publication state machines, `active` | publish, acknowledge, fail, unpublish | a metadata server that answers late or twice |
| control units (`*AbstractControlUnit`) | life-cycle state, schedulers | init, start, stop, deinit | a step of several that fails, and its roll-back |
| driver manager | shared driver instances | get, release | reference counts |
| data service workers (`ChaosDataService/worker`) | lock-free job queue, `work` | submit, consume, stop, deinit | notifications without the mutex |
| data service VFS, indexer, query engine | files, chunks, block states, journals | open, append, switch block, index | state in a database and on disk, updated in separate steps |
| metadata server (`ChaosMDSLite`, Java) | SQL tables | RPC actions | the other side of the publication |
| data pack, BSON, caches, memory, pools, plugins, logging | data | | no concurrency of their own, or vendored |

`components` in `PROJECT.json` lists every part with its sources and, where it
is not modelled, the reason.

### How the modelled parts interact

**Commands to a unit.** The RPC server's threads call `dispatchCommand`, which
finds the scheduler of the command's domain and pushes the pack in its queue.
The scheduler's one thread looks up the action, runs it, dispatches a sub
command if the pack carries one, and sends the answer if one is asked for
(`CommandDispatcher`). On the other side a message channel numbers its requests
and keeps a semaphore for each that waits; the answer comes back as a command of
the channel's own domain (`MessageChannel`).

**Units.** The control manager registers its unit server, and then each
submitted unit, with the metadata server. A published unit's actions are
registered with the dispatcher; unloading deregisters them, stops the unit and
deinitializes it (`UnitPublication`).

**Batch commands.** An action of a unit calls the executor, which gives the
command an id and hands it to a sandbox. The sandbox's *checker* thread compares
the command on top of the queue with the current one (`running_vs_submition`):
it waits, stacks, kills, or replaces. The *scheduler* thread calls the current
command's handlers through two functors. Each wakes the other through a
`WaitSemaphore`, one bit that every wait consumes. The sandbox reports each
change of a command as an event; the executor keeps the last event of each
command in a history that clients read, that a capper thread keeps short and
that an RPC flushes (`BatchCommandSandbox`, `BatchCommandExecutor`).

**Data.** A worker of the data service appends packs to its stage block. Full or
expired blocks are released; scanners look for released blocks in the database,
copy and index each pack, and delete the block (`StageArea`).

## The modules

| module | models | state and actions |
|---|---|---|
| `CommandLifecycle` | what a sandbox promises to those who follow its events | the last event of each command, the paused ones in order; queue, run, preempt, end, abandon |
| `BatchCommandSandbox` | `BatchCommandSandbox.cpp`, the part of `BatchCommand` it drives, the executor's entry points that touch a sandbox | the members of the class under their own names, a program counter per thread, `allocated` for what exists, `crashed` for a NULL dereference |
| `BatchCommandExecutor` | the history, ids and service of `BatchCommandExecutor.cpp` | queue and map of states, the capper's program counter, who holds the lock |
| `CommandDelivery` | what a domain's dispatcher promises of the packs given to it | the line, the pack taken, how each ended, its answers; accept, refuse, take, serve, skip, flush |
| `CommandDispatcher` | `DefaultCommandDispatcher`, `DomainActions`, `DomainActionsScheduler` and `CObjectProcessingQueue` for one domain | the two maps, the scheduler and its queue, program counters of the callers, the worker and the registrar |
| `MessageChannel` | `MessageChannel.cpp` over `MultiKeyObjectWaitSemaphore.h` | the request counter, each requester's program counter, the semaphores, the answers in the network |
| `UnitPublication` | `ControlManager`, `WorkUnitManagement`, `AbstractControlUnit`, `RTAbstractControlUnit` | both state machines, both maps and the queue of units, the state machine thread, the timer, each unit's service |
| `StageArea` | `DeviceSharedDataWorker`, the stage files, `StageDataConsumer`, `DataPackScanner`, `StageDataVFileScanner` and the drivers' part in them | each block's state, age and length, the writer's block and counter, each scanner's place |
| `MCSandbox`, `MCDispatcher`, `MCMessageChannel`, `MCUnitPublication` | nothing: instances for TLC | |
| `BatchCommandSandboxTypes`, `*Proofs`, `CommandDispatcherDelivery` | nothing: the theorems | see *What is proved* |

### Modelling decisions

**Steps.** A critical section of a mutex is one step, unless the code does
something in it that others see; then the mutex is a variable or a guard. What
the code does with no lock is a step of its own: the lookups of `das_map` and of
the descriptors, the install into an empty sandbox, the two writes of
`unloadControlUnit` and the state machine thread's walk over the map, the change
of a block's state and the flush of its stream.

**Undefined behaviour.** A read of a deleted command gives any value. A use of a
null or dangling pointer sets `crashed`, after which nothing happens. An
uninitialized counter (`check_validity_counter`) starts anywhere; an uninitialized
pointer (`response_handler` of a channel without remote host) is null or not.

**Batch commands.** A *kind* is what a submission may look like: its rule, the
handlers it implements, its priority, whether it has a step delay and a
timeout. Handlers leave a running property out of `HandlerRP`, keep the one the
command has, or throw. Equal priorities leave the heap in any order, because
`std::priority_queue` does not say. `mutexNextCommandChecker` is held across
steps, so it is a variable; the executor's `sandbox_map_mutex` appears as guards.
The executor sees the sandboxes through `CommandLifecycle`: the events a command
may get next. Its `command_state_rwmutex` is the guards `NoReader` and
`~flushing`.

**Waits.** A `WaitSemaphore` is its `answered` bit: a plain wait ends once it
is set, a timed one at any moment, both clear it. An `ObjectWaitSemaphore` also
clears the bit when the wait begins.

**The dispatcher.** One registrar thread registers and deregisters, as the
toolkit does; the callers are any number. The domain's container, its scheduler
and the scheduler's queue are the variables of one domain, and `das` numbers the
scheduler objects, so that a pointer to an old one is told from a new one.

**The network.** A request or its answer may be late, out of order or lost. The
dispatcher of the far side answers at most once: that is `Delivers` of
`CommandDispatcher`, so the network does not repeat answers in `MessageChannel`.
The metadata server is external: it may answer a registration any number of
times, well or badly, and names the identifier only, so a late answer reaches
whichever unit has it.

**Control units.** A unit is a record of what a life-cycle call can leave behind
(service state, running thread, caches, drivers and storage, whether one of its
own methods threw); each call is the set of records it may end in.

**Stage blocks.** Packs are three units long, the header one, so that a file can
end within a header or a body. Times are the age of a block: valid, expired,
overdue. The block states live in the database; each of its updates is one step,
the claim being a `findAndModify`. The claim is never refused: the driver takes
any reply that is not empty for success, so a scanner that lost the race opens the
block as well. A writer may be late: it checks its block at every sixteenth call
only, and nothing makes it call before the minute is over after which the block
counts as timed out. A write to a data file may fail without the scan ending;
`lost` keeps the packs it failed for. Packs have the fields an index needs (others
are skipped by the scanner). The blocks of the data files and the location an
index entry gives are left out. A writer whose `getNewDataBlock` failed is taken
to be without a block; in the code its pointer dangles.

## The runs

Passing runs:

| run | instance | shows |
|---|---|---|
| `sandbox` | 2 commands of 4 kinds, 2 starts (1.8 million states) | the inductive invariant `Inv`, and with it that no set handler runs twice and the current command's handlers are installed; events agree with places (`EventsAgree`); no wake-up is lost (`NoLostWakeup`); functors never dangle (`FunctorsLive`); a command is in one place (`OnePlace`); an exclusive command is not displaced (`ExclusiveStays`); the events refine `CommandLifecycle` (`FollowsLifecycle`) |
| `sandbox_progress` | 2 commands, never stopped, fair threads | an ended command is retired (`EndedRetired`); a compatible one leaves the queue (`CompatibleServed`) |
| `executor_history` | 3 submissions, history of 1, fair capper | queue and map agree, active commands are known with their last event, only what has ended is forgotten, a cap drops exactly what it must (`CapExact`), an overlong history shrinks |
| `dispatcher` | 4 packs, one of them a sub command, 2 owners in a domain, a caller and the worker, queue limit 1 (180,000 states) | what is registered is served (`RegisteredServed`); a deregistered owner is left alone (`QuietAfterDeregister`); nothing dead is used while nothing is deregistered (`UnlockedDispatchSafe`); the worker never sleeps over a pack (`WorkerAwake`); the refinement `Delivers`; queued packs end (`QueuedEnds`) and deregistration returns (`DeregisterReturns`) |
| `message_channel` | a timed, an untimed and an asynchronous request (176,000 states) | answers are not mixed (`OwnAnswer`), leaked, freed twice or given to two (`AnswerHeldOnce`); no key is left behind (`KeysOfWaiters`); no semaphore is deleted in use (`DeletesUnused`); waits end (`TimedReturns`, `WaitingAnswered`) |
| `publication` | 2 units with one identifier (79,000 states) | a unit is in one place and identifiers are unique (`OneUnitPerCuid`); actions are registered exactly while published (`ServesWhilePublished`); a destroyed unit is quiet and has released what it held (`QuietWhenGone`); one state machine thread (`OneSMThread`); stop, unload and submission end |
| `stage` | 1 block of up to 3 packs, a size of 1 and a check at every second call, 2 scanners, a fault anywhere (725,000 states) | what a scanner saw in a block is indexed and was given to a data file before the block is deleted (`ScannedStored`); a block outgrows its size by less than a check interval (`BlockBounded`); acquired blocks are processed in the end (`AcquiredProcessed`); all with late writers, two scanners on one block and data writes that fail |

Runs that end in a violation, each of a sentence the repository states:

| run | what happens |
|---|---|
| `stop_lost_notify` | the checker notifies `stop` before it waits: `stop` never returns |
| `scheduler_reads_deleted` | the scheduler reads a command the checker has deleted |
| `early_answer` | an answer that comes before its requester waits is forgotten: an untimed request never returns |
| `unit_deinit` | deinitializing a started unit frees the caches its scheduling thread uses |
| `stage_flush` | a block is offered to the scanners before its stream is flushed, and processed and deleted with packs missing |

`findings` in `PROJECT.json` quotes the sentence and the line of each.

### Other behaviour worth knowing

The models have, or reading the code for them showed, behaviour that no run asks
about.

Batch commands:

- `stop` also never returns when a queued command that has to wait keeps the
  checker from testing the work flag (`BatchCommandSandbox.cpp:349`);
- a kill tests the current command without a lock and dereferences NULL
  when it has gone (`BatchCommandExecutor.cpp:608`, `KillCurrentCommand`);
- a command that an empty sandbox could not install keeps the event QUEUED and
  is never deleted (`BatchCommandSandbox.cpp:455`);
- `deinit` tests `currentExecutingCommand` after it has set it to NULL, so paused
  and queued commands are deleted without the KILLED event (`Deinit`);
- after a restart the checker first waits for a wake-up; with a command that
  kept running over the stop nobody gives it one, and a command left in the
  queue waits for the next submission (`CheckerWake`);
- a flush removes the states that have ended, up to the newest that has not; the
  header says the opposite, that all "non ended command state, will be remove from
  the history" (`BatchCommandExecutor.h:183`). The log line of the code ("Flushing
  all endend command state history") agrees with the code, and `ActiveIsKnown` and
  `OnlyTerminatedForgotten` state what the code does;
- after a second `init` of the executor ids start again, and an old state can
  hide a new command (`BatchCommandExecutor.cpp:159`);
- a fault can be read before its description is written
  (`BatchCommandExecutor.cpp:285`);
- a cap puts the active states it passes over back in reverse order
  (`CappedQueue`), and a flush stops at the newest state that has not ended and
  leaves older ended ones (`FlushEnd`).

Dispatching and messages:

- a dispatch that overlaps a deregistration can use a null or deleted scheduler
  or descriptor (`DefaultCommandDispatcher.cpp:181`, `:188`); this is the exception
  `UnlockedDispatchSafe` makes. Its other one is a scheduler that serves before
  `setDispatcher`;
- a pack pushed between `clear` and `deinit` of a queue makes the deregistration
  wait for ever (the condition of `DeregisterReturns`); `clear` drops packs
  without freeing or answering them;
- an action's descriptor stays disabled once it was removed;
- `pollAnswer` never returns an answer and leaves a null entry for each id it is
  asked about;
- a channel made without a remote host never sets `response_handler`
  (`MessageChannel.cpp:44`): an answer nobody waits for may be given to whatever the
  pointer holds. The model says that the answer goes to a handler, not what a
  stray call does;
- two registrars at once could each create a scheduler for a domain.

Publication:

- `deinit` keeps the list of units to stop over its loop, so that each unit is
  stopped and deinitialized once more than the one before it
  (`ControlManager.cpp:223`, `TakenDown`);
- `deinit` skips the units that are not registered, although it logs all of them
  (`ControlManager.cpp:209`);
- the map of unstable units is written under a read lock or with none
  (`ControlManager.cpp:384`, `:482`);
- the registration timer is not removed at `stop`, so the state machine thread may
  start after it; a result code the server does not have would arm it again;
- acknowledgements carry only the identifier, so a late one reaches the unit
  that has it now;
- a `start` that failed leaves the service Started; units submitted to a unit
  server whose registration failed stay queued; a `_defineActionAndDataset` that
  throws ends the state machine thread.

Stage area:

- the location of a pack is taken before `write` may switch the data block, and
  the entry is not corrected when the scan is tried again, because a duplicate
  entry counts as success (`StageDataVFileScanner.cpp:128`);
- a writer that comes back late writes to a deleted file, or takes a block in
  Processing back to None: what it wrote after the scanner opened the file is lost
  (it is not in what `ScannedStored` says the scanner saw);
- two scanners that find the same block both scan it. The driver tests whether the
  whole reply of `findAndModify` is empty (`MongoDBDriver.cpp:372`), which it never
  is. "The operation is done only if the current state of the datablock is equal to
  the given parameter" (`DBDriver.h:121`), but the caller, which means to look for
  another block when "the state has not been changed"
  (`VFSStageReadableFile.cpp:62`), is not told. The packs are stored twice, and
  one scanner deletes the journal, the entry and the file under the other, which
  then ends;
- an error of the data write is overwritten by the journal's result
  (`StageDataVFileScanner.cpp:160`), and errors of the stream are not reported at
  all: the block is processed and deleted, and the pack is indexed and nowhere. It
  is what `ScannedStored` calls lost. Nor is the stream of a data file flushed
  before the stage block is deleted, so that a scanner that crashes loses what it
  buffered;
- a block grows beyond `max_block_size`, which an option calls "the max size that a
  block can reach" (`main.cpp:102`) and the manager "the max size for a logical file
  block" (`VFSManager.h:48`): its size is checked at every sixteenth call.
  `BlockBounded` says by how much;
- a block that ends within the body of a pack is scanned for ever, storing its
  packs each time; a scanner that ends, or cannot open the file, leaves its block
  in Processing (both are the exceptions of `AcquiredProcessed`);
- a failed `getNewDataBlock` leaves a dangling block
  (`VFSStageWriteableFile.cpp:57`); a block that could not be deleted is scanned
  again;
- the areas at `VFSManager.cpp:415` are swapped, and `scanStage` passes the other
  one, so that the two meet.

### Bounds

- *Sandbox.* `Command` bounds the submissions: two let one command wait, stack,
  kill, replace or fail against another. The kinds cover every submission rule
  and each subset of handlers that makes a functor be kept, replaced or removed.
  `MaxStarts` bounds starts: two are a restart. A stack of two and a functor
  inherited over two levels need three commands; they are left to the proofs,
  which have no bound.
- *Executor.* `MaxCommands`, `MaxInits`, `command_state_queue_max_size`: three
  states over a history of one are the shortest in which a cap passes over two
  active ones.
- *Dispatcher.* Each pack is dispatched at most once. Four packs over a limit of
  one fill the queue (it takes two) while one is served and one refused. Two
  owners are the least that can leave a domain one after the other.
- *Channel.* `Request` bounds the ids: one of each mode, in any order.
- *Publication.* `Unit` bounds the submissions. Two with one identifier make
  every uniqueness test matter; a unit that was unloaded makes room for the other,
  which meets the first one's late answers.
- *Stage.* `MaxBlock`, `MaxLen` and `MaxFaults` bound blocks, packs in a block, and
  crashes or errors; `CheckEvery` is 2 for the code's 16. With a `MaxSize` of 1 a
  `MaxLen` of 3 lets a block reach the size `BlockBounded` forbids. Two scanners
  on one block are the case that a second block would only dilute. A failed data
  write is no fault: any number of them may happen.

Deadlock is not checked: each of these systems may really stop, once it was
stopped or everything asked of it is done.

### Fairness

- *Sandbox.* Both threads are weakly fair: the operating system runs them, and no
  wait in them is more than a bit that stays set until it is consumed. An RPC
  thread that has queued a command goes on to wake the checker, and an owner in
  the middle of `stop` goes on. Nobody has to submit, stop, kill or start.
  `sandbox_progress` leaves out stop (after which nothing has to progress) and
  changes of features; `UntouchedSpec` leaves out kills and changes of features,
  so that a `stop` that hangs does not owe it to them.
- *Executor.* The capper is strongly fair, and the RPC traffic leaves the lock
  free again and again: `boost::shared_mutex` lets a waiting writer in before new
  readers, and readers hold the lock for the time of a copy.
- *Dispatcher.* A thread in the middle of a dispatch, the worker and a registrar in
  the middle of a call go on; an action returns or throws.
- *Channel.* A requester goes on, and so does `response` once it has the map. The
  network and the far side owe nothing.
- *Publication.* The state machine thread and the join run. The metadata server
  answers a registration that is pending without end, well or badly: the code
  sends it again with each pass. Nobody has to submit, load, unload or stop.
- *Stage.* Time passes, the maintenance timer fires, the scanners' loops run.
  Faults are bounded, packs need not come.

## What is proved

All theorems hold for every value of the constants, from the assumptions named
in the module that declares them. Those say that a null value is no member of the
set it stands out from, that functions have their domains and bounds are numbers,
and, of `Request`, that it is finite.

**Sandbox** (`BatchCommandSandboxTypes`, `BatchCommandSandboxProofs`)

- `TypeCorrect`: five groups of conjuncts, each with a step lemma.
- `Safety`: `Spec => []Inv`. `Inv` is inductive; none of the properties is alone.
  `FunctorsLive` after a kill needs `OnePlace` (the killed command is not in the
  stack too) and `FunctorsImplement` (a functor is a command with that handler, so
  `removeHandler` clears it). `EventsAgree` across a deletion needs to know that
  `command_to_delete` is set exactly while the checker is between the two halves
  of a replacement. That, and what holds of the mutex and the threads between
  `stop` and `start`, is `ThreadsAndLocks`.
- `FunctorsSafe`, `CommandsSafe` and `EventsTrue`: the parts of `Inv` by name.
- `WakeUpsKept`: `NoLostWakeup`. It is far from inductive, because it speaks of
  both threads asleep, and a wake-up is lost steps before that, when one thread
  has decided to sleep and the other changes what it decided on. `WakeUps` follows
  the decision: from its look at the current command to its sleep, the scheduler
  either saw the command that is still current, which has ended, or has a wake-up
  that is set or that the checker is about to give; and a checker asleep over a
  queued command has its wake-up set or its submitter on the way to set it.
- `ExclusiveProtected`: every rule waits against an exclusive command, and only
  the checker and `deinit` change the current one.
- `LifecycleImplemented`: the refinement of `CommandLifecycle`, with the last
  events as its states and the stack as its paused commands.

The step lemmas follow the way a command can move: stacked, replaced, retired,
installed first, resumed, discarded, submitted, dropped by `deinit`, or not
moved at all.

**Executor** (`BatchCommandExecutorProofs`)

- `CapTypes` and `CappedSurvivors` rest on lemmas about the operators of the cap:
  `TakenStops` (it takes states up to the first place where it has dropped the
  excess, or all of them; the least such number exists by the well-ordering of
  the naturals), `Ranks` and `ReinsertedOnce` (putting back at the front one by
  one repeats and loses no state), for a queue of any length.
- `TypeCorrect`, with `Identified`: a command a sandbox holds has an id.
- `TerminatedForgotten` and `CapsExactly`: action properties, from what a cap, a
  flush and a submission each leave of the queue. They hold across any number
  of initializations.
- `HistoryFound` and `ActiveFound`: `QueueMapAgree` and `ActiveIsKnown`, as long
  as there was one initialization. `init` sets `command_sequence_id` back to 0
  while the history stays, so that with a second one two states can share an id
  and neither property holds: the condition is the code's, and the run has it in
  `MaxInits = 1`. The inductive invariant `History` adds that ids are given once
  and are no larger than the counter, that the queue repeats no state (the map
  loses an id when one of its states goes), and that what a sandbox holds has not
  ended (a cap or a flush may forget what has).

**Dispatcher** (`CommandDispatcherProofs`, `CommandDispatcherDelivery`)

- `TypeCorrect`, with `Busy`: the worker has a pack exactly while it serves, and
  calls the dispatcher only for a sub command.
- `QueueServed`: the queue holds at most one pack more than its limit, and the
  worker does not sleep over it or over a deinit that waits for it.
- `DeregisteredQuiet`: no action of an owner runs once its deregistration has
  returned. `Disabled` carries it: a disabled action is held by no worker, and the
  registrar disables all of an owner's actions before it goes on.
- `ServedAsRegistered`: `RegisteredServed`. It speaks of the registrar at rest;
  `Offers` says what holds in the middle of its calls. The container has the
  actions of the registered owners and those the registrar has added, or not
  yet erased, of the one it is at (`Pending`); the scheduler is in the map from the
  first owner's registration to the last one's deregistration, armed and with a
  thread that cannot leave, because only a closing scheduler is told to. Owners
  share no action, and each has one (`OwnerAssumption`): otherwise erasing the
  actions of one would take away the other's.
- `DispatcherDelivers`: the refinement of `CommandDelivery`. It needs `Placed`: a
  pack is in one place, and a sub command nowhere before its command runs.
- `DispatchIsSafe`: `UnlockedDispatchSafe`, from `Safe`: while nothing is
  deregistered, what a thread has looked up is still there.

**Channel** (`MessageChannelProofs`)

`TypeCorrect`, `AnswersNotMixed`, `NoKeyLeftBehind` and `DeletesWhatIsUnused`
follow from one inductive invariant: the counter counts the requests that have an
id, and ids differ (`Ids`); a request or its answer is in one place of its way
(`Once`); the semaphores in the map are those of waiting requests (`Keys`). `Once`
is what protects the unlocked delete after an untimed wait.

`AnswerKept`, the action property `AnswerHeldOnce`, needs `Held` besides: the
places an answer can be in exclude each other, and an answer not yet given is in
none of them. Its steps show that an answer in a place is in one after the
step, and `OnePlace` that such an answer has one holder.

**Publication** (`UnitPublicationProofs`)

`TypeCorrect`, `IdentifiersUnique`, `PublishedServes`, `DestroyedQuiet` and
`ThreadStartedOnce` follow from one inductive invariant, `IInv`:

- `StartedOnce`: once the thread is started, the timer is off and none of its
  handlers is left to start it again.
- `Pass`: a pass of the state machine thread meets only units of the unstable map,
  so a unit is not destroyed under it.
- `Placed`: the queue repeats no unit, and `OneUnitPerCuid`.
- `States`: where a unit is and whether its actions are registered follow from the
  state of its publication. A queued unit is unpublished; without that a unit
  could leave the queue already published.
- `Lives`: a unit is at rest before its publication and after its end. Its steps
  rest on what each life-cycle call leaves of a unit, failures included (`Sane`).

**Stage area** (`StageAreaProofs`)

- `TypeCorrect`: no file holds more than was written, no scanner is past its file.
- `BlocksBounded`: between two checks a block has grown by no more than the counter
  says, wherever the uninitialized counter began.
- `ProcessedIsStored`: `ScannedStored`, for any number of scanners on a block. A
  scanner at a position has indexed and written every pack before it (`Copied`);
  nobody takes an entry or a stored pack away, so another scanner, a late writer
  or a scan begun again cannot undo it.

Each invariant, action property and refinement that a passing run checks is
proved. Only model-checked are the liveness properties (`EndedRetired`,
`CompatibleServed`, `HistoryShrinks`, `QueuedEnds`, `DeregisterReturns`,
`TimedReturns`, `WaitingAnswered`, `StopReturns`, `UnloadEnds`, `SubmittedSettles`,
`AcquiredProcessed`), since fairness and ENABLED are outside the prover's reach.
The invariants the proofs add (`WakeUps`, `History`, `Held`, `Offers` and their like)
were checked by TLC on the instances of the runs before they were proved.

## What is not modelled

*Within the modelled parts.* Durations: a delay or a timeout may strike at any
moment, so the arithmetic of step times is left out. The sandbox's heart-beat
and run events, which nobody handles, and the feature bit set of a command.
Several sandboxes behind one executor, and several domains of a dispatcher: they
share a history, or a mutex, and nothing else. Several registrars at once.
Corruption of the `std::map`s the code changes without a lock. Spurious wake-ups.
Result codes the metadata server does not have. Packs without the fields an
index needs. Queries, and the reading of data files.

*Whole parts.* The event dispatcher, which has the command dispatcher's shape
over a priority queue and without answers. The job queue of the data workers; its
notifications without the mutex (`DataWorker.cpp:72`, `:96`) are a hazard no
property covers. The reference counts of the driver manager. The attribute
cache, and `QueryFuture`. Network adapters, direct io, configuration, plugins,
logging and the metadata server are I/O or SQL around a line or two of control.
BSON, the data pack and the command line tools are data without control.

*The share of the source.* The tree has some 250,000 lines under `src/`. Of these
151,000 are SQLite and 22,000 vendored BSON; the framework's own code is
about 80,000, with the metadata server (13,000), the data packs, direct io,
events, caches, examples and user interfaces among them. The parts modelled here
(batch commands, dispatcher and queues, messages, control manager, stage files and
indexer) are the smaller part of that, and their definitions cover the lines that
change state. A large share of the whole tree is out of reach of any faithful
model: it would have to translate SQLite.

What would come next, in this order: the safety half of the liveness properties
(that what they wait for is never undone), the data workers' job queue, the
driver reference counts, several registrars.
