# SALOME platform: verification project

This directory models parts of the SALOME 8.2.0 platform (sources under `src/`) in TLA+,
checks the models with TLC on small instances and proves their main safety properties with
TLAPS for every instance. It covers the parts of the platform whose behaviour depends on the
order in which threads, processes and clients act:

* the **YACS engine**, which runs schemas of calculations: states of nodes, executor, loops
  of every kind, optimizer loops and their algorithm, pools of containers;
* in **KERNEL**: the Calcium ports through which calculations that run together exchange
  data, the launcher of batch jobs, and the pool of trace messages;
* the local batch manager of **LIBBATCH**, and the list of jobs of **JOBMANAGER**.

## Contents

1. Inventory of the system
2. Modules and their correspondence with the code
3. Runs: questions, bounds, fairness, deadlock
4. What the code does against its own comments
5. Proofs
6. What is not modelled, and the assumptions made
7. What could come next

To check a run: `tlc -config ExecPilot.cfg ExecutorMC.tla`; to check the proofs of a module:
`tlapm SchedulerProofs.tla`.

## 1. Inventory of the system

The repository is a set of modules, each with a `_SRC_8.2.0` directory. Most are CORBA
servers around numerical or geometrical libraries. `PROJECT.json` lists all of them; those
with control logic of their own are these.

### YACS engine (`YACS_SRC_8.2.0/src/engine`)

A *schema* is a tree: composed nodes (`Bloc`, loops, switches, `ForEachLoop`, optimizer
loops) over elementary nodes. Each node has an in gate and an out gate; *control links* go
from an out gate to an in gate and say that one node waits for another; *data links* carry
values; *datastream links* join nodes that run at the same time and talk to each other.

* State: `Node::_state` (one of `StatesForNode`), one flag per control link in the in
  gates, and what the loops hold (counters, branches, samples).
* Operations. `Scheduler`: `init`, `exUpdateState`, `getNextTasks`, `notifyFrom`,
  `isFinished`. `Task`: `load`, `initService`, `connectService`, `execute`, and `begin`,
  `loaded`, `connected`, `finished`, `aborted`, `errorDetected`, which change the state of
  the node.
* Interaction: a task changes its own state and calls `notifyFrom`; the event climbs the
  tree, one `updateStateFrom` per composed node. A composed node answers START by becoming
  ACTIVATED, FINISH by opening the gates that follow the child, by starting a turn again, or
  by becoming DONE or FAILED, ABORT by failing whatever follows the child.
* Hard: success and failure travel at the same time through several levels; forwarding a
  success may throw half way; a node with a datastream link is loaded before its gate opens;
  a loop initialises nodes that may still have threads.
* Correct when: nodes run after those they wait for and never twice in a turn, a failure
  fails whatever depends on it, and the schema always comes to a verdict.

| Loop | State | Hard | Promise |
|---|---|---|---|
| `ForLoop`, `WhileLoop`, `Switch` | turns, the selected branch, a *fake* task for a loop without a turn | the body is entered before its ports are read; a turn starts again from the thread of its last task | a node runs in the turn and branch it belongs to; turns are whole |
| `ForEachLoop` | one clone of the body per branch, samples dispatched, results, counters | branches end in any order, failures with or without *keep going*, samples passed in an earlier run, a loop around | every sample is computed once, its result at its rank |
| `OptimizerLoop` | pool of samples, branches, an algorithm in a thread of its own | results come while the algorithm waits; failure and convergence race | the algorithm decides on the result that came; its thread is joined |
| `AlternateThreadPT` | one mutex handed over by one condition | a lost signal blocks both threads | master and slave alternate and both end |

### YACS executor (`engine/Executor.cxx`, `bases/MutexPT.cxx`, `bases/SemaphorePT.cxx`)

* State: `_tasks`, `_runningTasks`, `_numberOfEndedTasks`, `_isWaitingEventsFromRunningTasks`,
  `_executorState`, `_execMode`, `_isOKToEnd`, a mutex over the scheduler, three conditions,
  a semaphore over the number of task threads.
* Threads: `RunB`; one thread per task that loads it and one that runs it; any number of
  *pilots* (GUI, CORBA clients) that call `setExecMode`, `resumeCurrentBreakPoint`,
  `setStepsToExecute`, `setListOfBreakPoints`, `stopExecution`, `waitPause`.
* Pools of containers (`runtime/SalomeHPContainerTools.cxx`): places given to tasks when they
  are selected, given back by their threads.
* Hard: the conditions are waited for without a loop on a predicate; several members are
  read or written without the mutex; a pilot's call is several critical sections.
* Correct when: it only makes calls the schema allows, no end of task is lost, threads are
  bounded by the semaphore, places are neither lost nor shared, it ends, and pilots are
  answered.

### Calcium ports (`KERNEL_SRC_8.2.0/src/DSC/DSC_User/Datastream`)

* State: the table of dated data of a provides port, the flags of a reader that waits, the
  last date given, the directive of the disconnection, the count of connections.
* Threads: those of the ORB that `put` and `disconnect` for the writers, that of the
  component that reads by date (`get`), in sequence (`next`) or erases.
* Correct when: a reader never sleeps beside what it wants nor beside a closed port, data are
  given in order and without a gap, the port is closed by the end that accounts for its last
  connection, and storage levels only take away the oldest.

### Launcher, LIBBATCH, JOBMANAGER

* `Launcher_cpp`: the map of jobs, their states and batch references; requests served by the
  threads of the ORB; `saveJobs` and `loadJobs`, through which a job outlives the launcher.
* `BatchManager_Local`: each job is a process and a thread that watches it, executes the
  commands queued for it and may be cancelled, also in the middle of a message.
* `BL::JobsManager`: a map of jobs shown in a table, over a launcher that other clients use;
  threads that start, stop and refresh jobs, notifications of the launcher, events to the GUI.
* Hard: what was read before a slow call is used after it; cancellation reaches a thread in a
  critical section; an event names a job that has gone; a launcher ends while its jobs run.
* Correct when: a job is submitted once, its end is seen, states only move forward, a deleted
  job is over, the table shows the jobs there are.

### Local trace (`KERNEL_SRC_8.2.0/src/SALOMELocalTrace`, `Basics`)

* State: `_myBuffer` (512 buffers), two counting semaphores (free, full), two
  counters that wrap (`_insertPos`, `_retrievePos`), the singleton registry of
  `BasicsGenericDestructor` with its mutex, `_threadToClose`.
* Threads: any thread that traces calls `insert`; one collector calls `retrieve` and prints;
  whoever ends the program deletes the pool, which asks the collector to close and joins it;
  an abort message makes the collector call `exit`, which deletes the pool as well.
* Correct when: messages come out whole, once, in order; buffers are neither lost nor reused
  while they are read; closing prints everything that was traced and terminates.

Geometry, meshing, fields, visualisation, adapters to batch systems, code generators, sample
modules and build files have no control logic that a model checker would add to; they are
listed in `PROJECT.json` with the reason. They are most of the lines of the repository.

## 2. Modules and their correspondence with the code

| Module | Role |
|---|---|
| `Scheduler` | states of nodes, gates, events and `Task` calls: the specification any executor must implement |
| `Executor` | `RunB`, load and task threads, pilots; EXTENDS `Scheduler` and shares its variables, so that `ImplementsScheduler == Spec` is the refinement |
| `PooledExecutor` | EXTENDS `Executor` with the places of pools of containers |
| `ControlNodes` | `ForLoop`, `WhileLoop`, `Switch`, with Blocs around and inside, turn after turn |
| `ForEachLoop` | a `ForEachLoop` with its branches, under an executor in rounds and a loop around |
| `AlternateThread` | `AlternateThreadPT`, and the contract of its two threads |
| `OptimizerLoop` | EXTENDS `AlternateThread`: the loop is its master, the algorithm its slave |
| `CalciumPort` | a Calcium provides port, its writers and its reader |
| `JobTable` | abstract: the table of jobs the launcher promises to its clients |
| `Launcher` | `Launcher_cpp` over a batch system; shown to implement `JobTable` |
| `JobsManager` | the job manager, over the launcher taken as `JobTable` |
| `LocalBatch` | the local batch manager |
| `TraceQueue` | abstract: a bounded first-in first-out queue |
| `TraceBuffer` | pool, collector and shutdown; implements `TraceQueue` when one thread traces |
| `*MC` | instances for TLC: schemas, links, pools, faults, and the *scenes* described in section 3 |
| `*Proofs` | proofs; `ExecutorProofs` covers `PooledExecutor` too, `KernelProofs` the trace, the launcher and the job manager |

Definitions named `X_Something`, just before a definition `X`, are wrong versions of it, a
dropped guard or a missing reset, kept to show that the properties notice.

Recursive walks of the code (through gates, through the tree, through coupled nodes) are sets
closed under the links, or recursive functions. Conditions and semaphores are modelled by who
waits on them; a critical section is one step, except where the code waits, or touches the
shared state without the mutex, in the middle of it.

### Scheduler

`state`, `gate` and `tasks` are `Node::_state`, the flags of `InGate::_precursors` and
`Executor::_tasks`. While an event climbs, the caller holds the mutex; `event` is the call
of `updateStateFrom` that comes next, so each level of the climb is one step and
`event = NoEvent` means the mutex can be taken. One action per call:

| Action | Code |
|---|---|
| `StartSchema`, `StartSchemaThrows` | `Bloc::exUpdateState` on the root, down to the entry nodes |
| `OnStartEvent` | `ComposedNode::updateStateOnStartEventFrom` |
| `OnLastFinished`, `OnFinished`, `OnFinishedThrows` | `Bloc::updateStateOnFinishedEventFrom` with `exForwardFinished`, and its `catch` |
| `OnFailed` | `Bloc::updateStateOnFailedEventFrom` with `exForwardFailed` |
| `GetNextTasks`, `DropTasks` | `getNextTasks`, and what the executor drops of the result |
| `TaskStarted`, `TaskNotLoaded`, `Connected`, `CoupledAborted`, `Begin`, `Finished`, `Aborted` | the calls of the load and task threads |

Which nodes turn out to have an unset input is chosen at the start (`unset`, among
`Invalid`); exceptions leave the graph half updated: `VisitedBefore` lists the partial
visits, for any order of the links.

### Executor and PooledExecutor

`pc` is the line of `RunB` (the names say where: `sleep`, `waiting`, `select`, `paused`,
`load`, `connect`, `launch`, `check` ...). A critical section is one step guarded by
`Locked`; an access the code makes without the mutex is a step with no such guard:
`ReadMode`, `ReadToConnect`, `ReadToLaunch`, the first step of `LoadTask`, the middle of
`StopExecution`, `SetStepsUnlocked`. `Launch` does not look again at the state that
`ReadToLaunch` read, as in the code. `WakeUp` models both ways of telling `RunB` that a
task has ended: a notification if it sleeps, a count otherwise. `SpuriousWakeUp` is POSIX's
licence for `pthread_cond_wait` to return by itself.

`PooledExecutor` replaces the selection of `Executor` by `SelectPlaced`:
`FilterTasksConsideringContainers` keeps as many ready tasks of a pool as it has free places
(`Kept`, whatever the order of the vector) and gives them their places (`Allocation`). The
thread of a task runs its service and gives the place back (`Release`), then reports its end
(`EndOfTask`). A coupled task, writer or reader, ends only when its streams let it: once the
tasks at their other ends have run or failed (`Served`).

### ControlNodes

The same climb of events as in `Scheduler`, over nodes that run several times. `Entered` is
`exUpdateState` from a node down to the nodes it makes ready, `InitAndEnter` the `init` and
`exUpdateState` that start a turn, `KeptGates` the flags that survive them. `fake` is the
node that stands for a loop without a turn, or for a Switch without a branch: `getReadyTasks`
gives its task, and `FakeEnds` reports how it ended. What the ports hold (`input`) changes
when the nodes before, or the writer of a condition, end.

### ForEachLoop

`st` and `stage` say where each clone is for the engine and for the rounds of the executor;
`execIds`, `execCurrentId`, `unfinished`, `failedCounter`, `execVals` are the members of the
same names. `ExUpdateState` has the ways of `exUpdateState`: an empty collection, no branch, a
dispatch, an exception. `WorkFinished` stores the result of a branch and calls `WorkEnds`:
the branch takes the next sample, stops, or, if all others have stopped, closes the loop
(`AllBranchesEnd`), with the finalize nodes or without. `CloneFails` is a failure, which with
keep-going is a sample counted and a branch that goes on. `StoreThrows` and `NextSampleThrows`
are the exceptions of these handlers, which `ComposedNode::updateStateFrom` turns into ERROR and
an ABORT; the branch keeps its rank, so the loop never becomes DONE. `Restart` is the next turn
of the loop around, with another collection and another number of branches.

### AlternateThread and OptimizerLoop

`AlternateThread` cuts each method where it waits; a signal wakes the other thread only if it
waits. `MasterCalls` and `SlaveCalls` are what a user may call; `OptimizerLoop` makes these
calls and none other (theorem `OptContract`), so that what is proved about the two threads
holds for the loop.

In `OptimizerLoop` a handler that waits for the algorithm leaves in `call` what it still has
to do: `StartProxy` .. `FirstSamples` for `exUpdateState`, `TakeDecision` then
`DecidedError`, `DecidedConvergence` or `DecidedToGoOn` for the end of a branch. `DecidedToGoOn`
has the branch of the code in which nothing waits although the pool is not empty and all branches
are lazy (`Starved`, ended by `DecisionStops`): `NoStarvation` says that it is never taken.
`LaunchMaxOfSamples` gives waiting samples to branches that are free. The algorithm
(`SlavePushes`, `SlaveConverges`, `SlaveErrs`, `SlaveReturns`, `SlaveIgnores`) is arbitrary:
it puts any number of samples, empties the pool, fails, or ends.

### CalciumPort

A date stands for a time or an iteration; a datum is the set of dates it was computed from,
so that an interpolation says what it used. `PutLock` and `Put` are the two parts of `put`;
`AddConnection` is what `connectService` does to the port, for all services before any is
launched; `Finish`, `RemoveConnection` and `WakeupWaiting` are `cp_fin`, the removal of the
connection by YACS and the wake-up that follows, under the mutex of the table. When all writers
are gone a loop of YACS may begin another turn (`turn`) and connect them to the same port, which
keeps its table, its last date and its directive. The reader's `pc` follows `get` and
`next`: the call before the mutex, the look at the table, the directive read outside of the
mutex of `disconnect`, the sleep, the timeout. `Send` applies the storage level after a read,
`Erase` is `calcium_erase`, which takes no mutex.

### JobTable, Launcher, JobsManager, LocalBatch

`Launcher` splits `launchJob` where it leaves for the batch system: `LaunchJob` (state tested,
resource chosen), `SubmitJob`, `Launched` (state set). `Overlap` says whether other requests
are handled in between: the servant is on the RootPOA and has no mutex, so `LauSessions` and the
proofs let them. An `Overtaken` launch is one whose job another request has launched, polled or
stopped since the test; it puts the job back to QUEUED. `GetJobState`, `StopJob`, `RemoveJob`, `SaveJobs`, `LoadJobs` are
requests; `Restart` ends the launcher in whatever it was doing, and keeps the file and the
batch system. `Resumes` tells a batch manager that can follow a job it did not submit from one
that cannot, as the local one.

`JobsManager` uses `JobTable`'s actions for the launcher's side of its calls. `gui` is what the
thread of the GUI is doing (the wizard is a nested loop of events), `threads` the bag of
threads under way, `posted` the events not handled, `rows` the table. A notification and the
answer of the call that caused it may come in either order. The use of a null or missing entry
is `Crash`.

`LocalBatch` follows each job's thread from `Fork` to `Leave`; `CancelPoint` and `CancelInLog`
are the cancellation of a thread where it may be met, the write of a log message included;
`KillChild`, `SetFailed` and `Tell` are the cleanup handlers. The mutex of the log is lost with
a thread cancelled while it writes.

### TraceBuffer

A step is a semaphore operation, an increment under `_incrementMutex`, one half of filling a
buffer (text, then the rest) or the copy of a buffer. `listMutex` is the owner of
`PROTECTED_DELETE::_listMutex`. Positions are taken modulo `PosMod`, which stands for 2^64.

## 3. Runs

| Run | Question | Distinct states |
|---|---|---|
| `SchedSchema` | Does a schema with a nested Bloc, a coupled pair, a disabled node, a join, and inputs that may be missing run in order, propagate failures and end? | 644 |
| `ExecPilot` | With breakpoints, steps, a stop on error and a pilot that calls at any moment: are wake-ups and places of the semaphore kept, is a stop obeyed and `waitPause` answered? | 90 790 |
| `ExecStream` | With coupled tasks, failures to load and connect, and spurious wake-ups: does the executor obey `Scheduler`, and end? | 10 150 |
| `PoolStream` | With two coupled pairs on a pool of three places: does every thread find its place, does the executor sleep while a place is free, does it end but where the places or threads are too few? | 460 231 |
| `LoopTurns` | In a schema of nested loops and a Switch, do nodes run in their turn and their branch, are turns whole, is there a verdict? | 10 904 |
| `ForEachTurns` | Whatever fails and in whatever order branches end, does a loop that is DONE have all its results, and does each turn of the loop around get a verdict? | 77 770 |
| `OptFails` | When anything may fail: does the algorithm decide on the result that came, is its thread joined, is there a verdict? | 94 487 |
| `CalPort` | With a writer that puts, ends or fails and a reader that also erases, gives up and wakes up by itself, or two writers connected twice by a loop: is a wake-up lost, is the port closed by any but the last end, does every call end? | 497 439 |
| `BatCancel` | Do deletions, commands, the end of the time and the end of the manager leave threads and processes as they should? | 429 196 |
| `LauSessions` | With two clients whose requests overlap, over three sessions with saved jobs: is a job submitted again by overlapping requests only, is the launcher the table its clients know but for overtaken launches, are ends seen? | 109 522 |
| `JmShared` | With other clients, lost answers and failed launches: one entry per job, nobody left with a job that has gone, ends shown? | 220 275 |
| `TraceTwoThreads` | With two threads that trace and abort messages: are buffers accounted for, is everything drained, does the close end? | 308 888 |

Further configurations in this directory ask more of the same modules; all pass but those of
section 4.

| Configuration | Adds |
|---|---|
| `ExecContinue` (8 204) | mode CONTINUE over nested Blocs: `FinishedMeansFinished`, `NothingReadyWhileSleeping`, the refinement and the end |
| `PoolContinue` (17 870) | three tasks for two places: no place idle, shared, or lost but with a failure |
| `ForEachKeepGoing` (4 614) | samples accounted for one by one, no task run before its component is loaded, no deleted clone in use |
| `OptConverges` (71 177) | without failures: samples in use, no branch left free, no starvation, the DONE loop idle |
| `CalSequence` (3 638), `CalTime` (1 142 991) | reads in sequence miss nothing; storage levels and repeated reads by date |
| `BatJobs` (198 906) | final states stay, commands are obeyed in order, no thread is cancelled after it left, ends are seen |
| `LauLocal` (80 882) | two jobs, one request at a time, a batch manager that cannot resume: states are true, stopped jobs are over and stay so |
| `JmRows` (1 261 445) | rows and entries agree, jobs stay listed, the mutex handed to a thread is released |
| `TraceOneThread` (794) | one tracing thread: the pool is a first-in first-out queue that prints everything |

**Scenes.** `ForEachMC`, `CalciumMC`, `LocalBatchMC` and `JobsManagerMC` check several settings of the
constants in one run: `scene`, chosen at the start and never changed, says which instance of
the module takes the steps. Invariants hold in every scene; a property stated for one scene
says so in its definition. In `LocalBatchMC` the *late* scene lets one job only be submitted.

**Bounds.** They are the smallest that hold each situation at once.
* Schemas: a node before a Bloc, one after it, siblings inside, two precursors of one node, a
  datastream pair, a disabled node. More threads than two, or more tasks ready than three,
  bring no new kind of contention for a semaphore that only counts: with two places and three
  tasks `RunB` blocks in `Acquire`. `MaxProblems` (25 in the code) is 0, 1 or 2: the executor
  gives up sooner, which makes the properties stronger.
* `PoolStream`: two pairs, three places, two threads: the cutoff may separate a pair and the
  two halves that run wait for the two that have no place; a failed load loses a place; a
  failed connection aborts a coupled task that already runs; and with two threads `RunB` may
  block before the second half of a pair. A run with more places than tasks has none of these.
* `LoopTurns`: a ForLoop whose body holds a While loop and a Switch with a ForLoop in one of
  its branches; `nsteps` may be unset, negative, zero, one or two, the Switch has a key without
  a branch, and `MaxTurns` ends a While loop after two turns.
* `ForEachTurns`: four turns of the loop around with 4, 3, 0 and 2 samples on 3, 2, 2 and 0
  branches, so that there are more samples than branches, an empty collection, no branch, and
  something left over from the turn before each; and every fault, with keep-going. A second
  scene has passed results and no keep-going; in a third the loop around goes on after the turn
  without a sample, whose fake node holds the last turn. `OptFails`: three turns with 2, 2 and 0 branches, 4 samples.
* `CalPort`: in the scene *alone*, three dates, so that one lies between two others; in the scene
  *loop*, two writers and two turns, so that ends of two connections come in any order and a
  closed port is connected again. `CalTime` has six dates and a storage level of three.
* Jobs: in `LauSessions` two clients and one job, so that both submit it, with three batch jobs and
  three sessions, so that a saved record is loaded, saved and loaded again (two jobs with two
  clients are more than liveness can be checked on: the proofs have any number); in `LauLocal`,
  `JmShared` and `JmRows` two jobs, so that a number, a name or a reference may be taken by
  another; two commands (holds and releases) in `BatCancel`; a time
  of two minutes, whose tenth rounds down to nothing.
* Trace: two buffers and positions modulo four make the counters wrap with six messages; the
  modulus is a multiple of the pool's size, as 2^64 is of 512.

**Fairness.**
* `FairExec` (weak): `RunB`, the load threads, the task threads and the climb of an event are
  scheduled when they can go on; the mutex is released by every path. It includes that services
  return, in success or in error. Nothing is asked of pilots, except in `FairStop`, that one
  that has begun `stopExecution` finishes the call. `FairPool` asks the same, but the service
  of a coupled task, at either end of a stream, returns only once those at the other ends run
  or have ended.
* `FairSpec` of `ControlNodes`: the executor runs what it is given and tasks end. That of
  `ForEachLoop` and `OptimizerLoop` says that something that can happen does: threads are
  scheduled, services return, the algorithm gives its turn back. These systems have no cycle
  in which one part could starve another, since samples and turns are bounded.
* `FairPort` (weak): a call of the reader goes on, and the service of a writer ends, at the
  latest by failing, upon which YACS removes its connection. No writer has to put anything.
* `FairBatch` (strong): the threads and the master wait for a mutex its owners hold for a
  moment before they sleep a second. No process has to end, nor the master to call.
* `FairLauncher`: a request under way goes on (weak); the clients keep polling (strong: a poll
  waits its turn behind other requests). `FairJm` and `SceneSpec` (strong): threads run, the
  GUI handles its events, the list is refreshed again and again, as *Auto Refresh* does.
* `TraceBuffer`: threads advance and the program ends by deleting the pool; nothing obliges
  it to trace.

**Deadlock.** A run of the executor, of a schema, of a loop or of a batch manager stops when it
has ended: their configurations switch the check off, and liveness properties (`Ends`,
`StopEnds`, `Verdict`, `ComesToAVerdict`, `TurnGivesVerdict`) or `NoDeadEnd` say that they do not stop
before. `BatCancel` and `JmShared` stop when their bounds are used up, or the job manager has
crashed. `TraceTwoThreads` switches it off because of the abort described below. `CalPort`,
`CalTime`, `CalSequence`, `LauSessions`, `LauLocal` and `TraceOneThread` keep it.

**Properties.** Each is stated in a comment above its definition, with the code it is about.
The hazard each one answers is in `PROJECT.json`. The less obvious ones: `NoLostWakeUp` of
`Executor` (when `RunB` sleeps, some running task will wake it up) and of `CalciumPort` (a
reader sleeps only while what it wants is missing and somebody will tell it when that
changes); `NoDeadEnd` (no reachable schema is without work and unfinished);
`FailureReachesAll` (once events are handled, whatever follows a failed node is in error, at
every level); `ToCollectExact` (the unlocked difference of two wrapping counters is exact);
`SubmittedOnce` (two submissions of a job overlap); `ImplementsTable` (a poll never moves a job
back, over saved files and restarts too).

## 4. What the code does against its own comments

Four configurations let TLC show a behaviour that a comment or a document excludes:

| Configuration | What happens |
|---|---|
| `SchedAllDisabled` | A Bloc whose children are all disabled is entered, becomes ACTIVATED, and waits for an event that no child sends (`Bloc.cxx:151`, against `:102`). The schema does not finish; the executor gives up after its 25 rounds. |
| `ExecReactivated` | `loadTask` reads the state of its task without the mutex (`Executor.cxx:826`). If the failure of a coupled task fails this one, and with it the whole schema, before it notifies START, the event makes the schema ACTIVATED again; nothing moves any more and `RunB` gives up with FINISHED over an unfinished schema (against `:183`). When coupled tasks wait for the same nodes `FinishedMeansFinished` holds (`ExecContinue`, theorem `GivesUpOnNothing`). |
| `TraceTorn` | With two tracing threads, a thread that posts makes the collector read the buffer of another that has claimed an earlier position and not filled it (`LocalTraceBufferPool.cxx:230`, against `:211`). With one thread messages come out whole and in order (`TraceOneThread`, and `TraceIsQueue` for every pool). |
| `TraceAbort` | An abort message is printed while a thread deletes the pool: `exit(1)` in the collector (`LocalTraceCollector.cxx:111`, against `:75`) waits for the mutex of the thread that joins the collector. |

The models contain further behaviours of this kind, met while the code was read and modelled.
They are actions of the modules, not properties of the runs, and are listed so that nobody
takes the corresponding promise for granted.

**Executor and pools** (`YACS_SRC_8.2.0/src/engine/Executor.cxx`)
* 358: `RunB` sets STOPPED without notifying `_condForPilot`; a pilot that calls `waitPause`
  after the resume of `stopExecution` waits for ever. Hence `WaitReturnsUnlessStopped`.
* 908: `launchTasks` finds a coupled task TOLOAD without the mutex and connects it; if a
  failure upstream has made it FAILED, `connected()` makes it LOADED again. It takes a pair
  whose two nodes each wait for another one.
* 1352: the cutoff of a pool may keep one of two coupled tasks when other tasks compete for
  the same pool; it runs and waits for the other, which waits for a place. If all those that
  run are in this case nobody frees one and the schema hangs (`StarvedOfPlaces`, reached in
  `PoolStream`). The code promises no more than `NoPlaceIdleWhileSleeping`: what was separated
  is selected as soon as there is a place.
* 1037: with fewer threads than tasks that wait for one another, `RunB` blocks in
  `_semForMaxThreads.wait()` before it launches the one the others wait for
  (`StarvedOfThreads`, reached in `PoolStream`).
* 1203: a task whose load or connection failed never gives its place back. Hence the second
  half of `OnlyFailuresKeepPlaces` and `GivesUpOnLostPlaces` (theorem `GivesUpWithoutPlaces`).
* 1358: tasks left out by `setStepsToExecute` keep their places, and are allocated again in the
  next round, which throws out of `RunB`.

**Loops**
* `ForEachLoop.cxx:494`: `init` keeps the fake node of an empty collection; a later collection
  is not iterated on, and the loop stays ACTIVATED (`HeldByOldFake`, the exception
  `TurnGivesVerdict` makes; the scene *empty* reaches it).
* `ForEachLoop.cxx:530`: when all samples are passed their results are not published. The
  theorem `ForEachResults` assumes `NotAllPassed`.
* `Executor.cxx:830`, `ComposedNode.cxx:1430`: after a failure without keep-going, of an init or
  finalize clone (`ForEachLoop.cxx:881`), or an exception of `:765` or `:847`, a START event of
  another branch makes the loop ACTIVATED again. Its samples go on, and it stays ACTIVATED when
  they have ended, since the branch that failed keeps its rank. Hence `TurnGivesVerdict` says
  that a verdict is given, and not that it stays.
* `ForEachLoop.cxx:841`: a sample whose `putSplittedValueOnRankTo` throws is given again to the
  next branch that ends.
* `ForEachLoop.cxx:877`: with keep-going a body whose load failed goes back to TOLOAD and may
  be launched without being loaded; `LoadedBeforeRun` holds when loads succeed.
* `OptimizerLoop.cxx:319`, `:245`; `AlternateThreadPT.cxx:126`: a reactivated loop gives an
  unexpected result to the pool; an algorithm without a sample is not finished before DONE; a
  spurious wake-up breaks the alternation.

**Calcium** (`GenericPort.hxx`, `CalciumCouplingPolicy.hxx`, `CalciumGenericProvidesPort.hxx`)
* `CalciumGenericProvidesPort.hxx:79`: with two writers `cp_fin` and the removal both count
  down, so that the port may close while one still writes. `ClosedByTheLastEnd` says which end
  closes it, counted so, and that no other end writes the directive.
* `CalciumGenericProvidesPort.hxx:153`: a connection made again counts, but nothing sets the
  directive back: in the next turn of a loop the port still says STOP or CONTINUE while its
  writers write, and a read of what has not come throws, or repeats, instead of waiting.
* `GenericPort.hxx:487`: after CP_CONT, a `get` of an iteration that is missing below a later
  one turns in its loop with the mutex kept. Hence `ReadEndsOrTurns`; `ReadEnds` holds for
  reads in sequence.
* `CalciumCouplingPolicy.hxx:538`, `:457`, `:305`: after CP_CONT a date beyond the last one is
  refused; a storage level may take away the date an interpolated read points at; the tolerance
  is one-sided.
* `GenericPort.hxx:377`, `:347`, `:645`: `expectedDataId` is written, and `erase` changes the
  table, without the mutex; a spurious wake-up of `next` passes over the datum of date 0.

**Local batch manager** (`BatchManager_Local.cxx`)
* 531, 149: `submitJob` and `deleteJob` may miss the signal they wait for.
* 640: a thread cancelled in a message keeps the mutex of the log for ever, and, in its queue
  of commands, locks `_threads_mutex` a second time.
* 520: the entry of a new thread is inserted without the mutex.
* 801: a cancelled thread may signal a process already reaped; a process on hold keeps its
  SIGTERM pending for ever.
* 246: `isRunning` makes an entry for an unknown job. 605: ten per cent of less than ten
  minutes is nothing, and the KILL comes at once.

**Launcher and job manager**
* `Launcher.cxx:130`: two requests to launch one job both pass the test of its state before either
  changes it, and the batch system runs it twice. Line 48 announces a single-thread policy that
  nothing sets: the server uses the RootPOA. The reference of the first submission is lost, and
  nobody asks about that batch job or stops it. `SubmittedOnce` allows this and no more.
* `Launcher.cxx:147`, `:148`: a job removed, or stopped, while it is being submitted. A stopped one
  goes from FAILED back to QUEUED (`Overtaken`). A removed one has been deleted, and the request
  writes its state and reference all the same; the model goes on as if that were lost.
* `Launcher_Job.cxx:75`: a job whose deletion failed is FAILED and never asked about again.
* `Launcher.cxx:741`: a saved job for which no resource fits is dropped from the list.
* `BL_JobsManager.cxx:200`, `:100`, `:567`, `:520`: a second start sets ERROR on a job that
  runs; an iterator shared by two threads; an event that names a job whose name has passed to
  another; a name made unique by a counter that is not looked up.
* `BL_JobsManager_QT.cxx:255`, `:286`: the row selected when the wizard ends may be another
  job's; `createJob` answers NULL for a name that exists, and the answer is used (`Crash`).

## 5. Proofs

Everything below holds for all values of the constants that satisfy the assumptions of the
modules: any finite or infinite tree and links, any pool size and number of threads, writers,
branches, samples, jobs or sessions.

| Module | Theorems | Beyond the module's assumptions |
|---|---|---|
| `KernelProofs` (trace) | `TraceTypes`, `BuffersAccounted`, `CollectorCount`, `TraceDrained`, `TraceIsQueue`, `PrintsInOrder` | `TraceDrained`: `QuiescentClose`; the last two: `OneTracer` |
| `SchedulerProofs` | `SchedulerTypes`, `OrderOfExecution`, `DoneStays`, `RootDone`, `FailuresReachAll`, `NoDeadEnds` | the last two: `CoupledTogether`; `NoDeadEnds`: `BlocsHaveWork`, and finitely many nodes |
| `ExecutorProofs` | `ExecutorTypes`, `PlacesAlwaysAccounted`, `NoWakeUpIsLost` | the last one: no spurious wake-up |
| (refinement) | `ExecutorImplements`, `ThreadsOfRunningTasks`, `ExecutorOrder`, `ExecutorFailures`, `ExecutorDeadEnds` | `"steps" \notin Calls`, `NoChains`; the last two: those of the theorems they carry over |
| (end) | `GivesUpOnNothing` | `"steps" \notin Calls`, `NoChains`, `CoupledTogether`, `BlocsHaveWork`, finitely many nodes |
| (sleep) | `SleepsBesideNothing` | no spurious wake-up, `RunsOn`, `NoChains` |
| (pools) | `PoolTypes`, `PlacesUsedOnce`, `ThreadsHavePlaces`, `GivesUpWithoutPlaces` | the last two: `"steps" \notin Calls` |
| | `SleepsForPlaces` | no spurious wake-up, `RunsOn` |
| | `PoolImplements` | `"steps" \notin Calls`, `NoChains`, `PoolsFit` |
| `ControlNodesProofs` | `ControlTypes`, `NodesRunInTurn`, `TurnsMadeWhole` | |
| `ForEachProofs` | `ForEachTypes`, `ForEachDone`, `ForEachResults`, `ForEachOrder` | `ForEachResults`: `NotAllPassed` |
| `OptimizerProofs` | `AltExclusive`, `AltAlternates`, `OptContract`, `OptAlternates`, `OptFailedIsFinished`, `OptDecides`, `OptSamples` | no spurious wake-up, but for `AltExclusive` and `OptContract`; `OptSamples`: the algorithm does not fail |
| `CalciumProofs` | `CalTypes`, `NoWakeUpLost`, `PortClosedOnce`, `KeepsEverything`, `InSequence` | `InSequence`: `OneInSequence` |
| `KernelProofs` (launcher) | `LauTypes`, `JobSubmittedOnce`, `StatesAreTrue`, `LauncherIsTable` | |
| (job manager) | `OneEntry`, `GoneAreTold`, `LockIsHandedOver` | |
| `BatchProofs` | `BatchTypes`, `DeletedJobIsOver`, `DestroyedIsUnused`, `FinalStateStays`, `OnlyLivingAreCancelled`, `LastCommandIsDone` | `DeletedJobIsOver`, `DestroyedIsUnused`: no spurious wake-up; `OnlyLivingAreCancelled`: `"isRunning" \notin Calls` |

**`KernelProofs`, the trace**. The inductive
invariant is the conjunction of `TypeOK`, `TokensConserved` and `ToCollectExact`: the types
bound the semaphores by the pool, which follows from the conservation of places, and the
exactness of `toCollect` needs both, since the difference of the counters is read modulo
`PosMod` and only means something while it is at most the size of the pool. `MoveCount`
says what moving one thread from a label to another does to the number of threads at a set
of labels; the step lemma has one case per action. No order of calls is assumed: the pool
may be closed at any moment, with threads still tracing.

`TraceDrained` does assume an order, that of a program which joins its threads before it
deletes the pool (`QuiescentClose`). Every message with a number is printed, in the pool or in
the hands of one thread (`MessagesCounted`); from the request to close, one thread inserts, the
closer or the collector on its way out of `exit(1)` (`WhoCloses`); and once the collector has
left its loop one message at most is missing, "end of trace" (`LastOneLeft`).

`TraceIsQueue` is the refinement of `TraceQueue`. One thread traces and no message is an abort
(`OneTracer`): two threads can break the order, as section 4 shows, and on an abort the
collector itself inserts "end of trace". The invariant `FifoInv` relates the two positions of
the ring: the place where the thread inserts is as far from the place of the collector as there
are buffers to retrieve (`Ring`), an equality of remainders that survives the wrap of both
counters since `PosMod` is a multiple of the size (`NextSlot`). Hence the slots that wait are
distinct, and none is the one being filled (`Slots`): a write leaves the queue as it is, a post
adds at its end, the collector takes the oldest (`QueueStep`, one lemma per action).
`PrintsInOrder` adds that every message in the queue or printed is whole and bears the number of
its place (`InOrder`).

**`SchedulerProofs`**. Neither property is inductive. `IInv` adds that
* a set gate flag comes from a node that is done (`GatesTrue`), and a node that may run has
  its own gate open (`GatesOpen`);
* around a task, a running node or a done one, every Bloc has been entered through an open
  gate (`RunInside`);
* a Bloc is done only when its children are (`DoneBlocs`), and no node becomes disabled
  during the run (`DisabledOld`);
* a climbing event comes from inside such Blocs, from a node whose state is the one the
  event reports, to a father that is not done, and a FINISH event has not opened its gates
  yet (`EventTrue`).

Most actions change states in the same few permitted ways. `Sound` names them, each action
is shown to make a `Sound` step, and `SoundKeeps` shows once that such steps keep the first
five parts; `EventTrue` is shown action by action. The recursion of the code over gates and
levels is met through closed sets (`DownstreamLeast`, `EnclosingStep`, `EnteredInside`).

`RootDone` follows from `DoneBlocs` and `DisabledOld`. The Blocs that are not done, and neither
disabled nor inside a disabled one, are closed under `Father`: if a node is left to run, so
is every Bloc around it, and the root is not done. The closed set replaces an induction
over the height of the tree.

`FailuresReachAll` follows the failures that are on their way: `FailedInv` says that what
follows a node in error is in error too, unless the event of the node is still climbing. What
must not happen meanwhile is that one of those nodes starts. It waits behind a closed gate
(`BadClosed`), but a task joined to another by a datastream is loaded with the other:
`LoadOpen`, that nothing is loaded before its gate opens, is only true when coupled nodes wait
for the same ones (`CoupledTogether`). `ExecStream` has a schema where they do not, and
`FailureReachesAll` is false there.

`NoDeadEnds` says that nothing is left behind. Its invariant, `LiveInv`, gives the reason why
each node is where it is: a READY node with an open gate is in a Bloc that has not been entered
(`EntryInv`), an ACTIVATED Bloc all the children of which are over is about to hear from the
last one (`EndInv`), and a DONE node has opened the gates behind it or is about to (`DoneInv`).
The parts that follow exclude what an exception of `exUpdateState` leaves: a Bloc failed for
good with nothing alive in it (`Lost`). Now suppose that nothing runs, nothing is to run and no
event is left. An ACTIVATED Bloc inside ACTIVATED Blocs then has a child that is not over; the
least of them in the order of the links, which has no cycle, has its gate open, and can only be
another such Bloc (`LiveDown`). Going down for ever is not possible: of the sets of Blocs around
those Blocs one is maximal (`MaximalSet`, from the library's theorem that strict inclusion among the subsets of a finite
set is well founded), hence finitely many nodes. `BlocsHaveWork`, that no Bloc has all its
children disabled, is needed: such a Bloc waits for ever for the end of a child
(`SchedAllDisabled`, section 4). TLC checks that the schema of `SchedSchema` satisfies both
hypotheses (`HypothesesAssumption`).

**`ExecutorProofs`**. They hold for
every schema, every set of calls and, the first two, with spurious wake-ups.
* `TInv` is `ExecTypeOK` with `Places`. That the semaphore stays a natural number at most
  `MaxThreads` is the conservation of places, and to conserve them when a thread ends one has
  to know that it has not ended before. What `Places` adds for this is weak on purpose: a task
  with a thread is ACTIVATED or in error, and `RunB` does not launch a task that has a thread
  (it has read its state as TOACTIVATE, and only `Begin` makes it ACTIVATED). "In error" is
  there because a failed connection may abort a coupled task that runs, unless the
  hypotheses of the refinement exclude it. `EngineSteps` says once what the schema's part of a
  step can do to the state of an elementary node.
* `Awake` is two facts about the sleep: while `RunB` is blocked in `wait`, the flag
  `_isWaitingEventsFromRunningTasks` is set and some task has a thread; and the executor is
  PAUSED only while `RunB` is in a pause or stopping, so that a thread that ends meanwhile
  does notify. Without the hypothesis that `wait` returns only when it is notified, the second
  is false: `RunB` may leave a pause by itself, with the state still PAUSED, and sleep beside
  tasks that will not notify it.

**`ExecutorProofs`, the refinement**: `ExecutorImplements`, that every step of the executor is a step of
`Scheduler` or leaves its variables alone, then `ThreadsOfRunningTasks` and, by carrying
`OrderOfExecution` over, `ExecutorOrder`. The invariant `SInv` is `TInv`, `Scheduler`'s `IInv`
and
* `RunningAreActivated`: the tasks with a thread are the nodes ACTIVATED;
* `CoupledInv`: nodes coupled by a datastream link are loaded in the same round, so that none
  runs while the other is still to be loaded;
* `TasksInv`: in a round, everything is connected before anything is launched;
* `LoadInv`, `CurInv`: what may have become of a task since a thread, or `RunB`, read its
  state without the mutex. This is the heart of the matter: the step that acts on an old
  reading must still be one `Scheduler` allows.

It has two hypotheses. `"steps" \notin Calls`: `setStepsToExecute` lets tasks wait for a later
round, so that `TasksInv` would have to follow them across rounds; `ExecPilot` checks the
executor with it. `NoChains`, that nodes coupled through others are coupled directly: with a
DISABLED node between two others the code loads the two apart, and may then abort one that
runs. `ExecutorFailures` and `ExecutorDeadEnds` carry over the theorems of `Scheduler`.

**`ExecutorProofs`, the sleep of `RunB`**. `SleepsBesideNothing` is `NothingReadyWhileSleeping`
(mode CONTINUE: `RunB` does not sleep beside a task it could start) for every schema and number
of threads. What is ready changes long before `RunB` looks at it, so the invariant follows the
selection through its round: as long as no task has ended since (`Current`), what was left out
waits for a Bloc that is not around any task, and only the end of a task could enter it, since
the events that climb meanwhile are failures and starts from inside those Blocs (`OthersWait`);
the tasks themselves are launched or have failed when the round is over (`TasksLaunched`). The
end of a task wakes `RunB` up or is counted. Both hypotheses are needed: after a spurious
wake-up `_isWaitingEventsFromRunningTasks` stays set, and the next end is taken for a wake-up
and not counted; in a pause it is not counted at all (`Executor.cxx:1264`), so that after
`STEPBYSTEP`, `CONTINUE` and `resume` the thread may sleep beside a ready task until another one
ends (`RunsOn` excludes pauses). TLC finds both behaviours when `ExecContinue` and
`ExecReactivated` are given the wake-ups and the pilot.

**`ExecutorProofs`, the end of `RunB`**. `GivesUpOnNothing` is `FinishedMeansFinished`: the
counter of rounds without a task (`problemCount`, 25 rounds at most) never ends the run of a
schema that has work left. `NoDeadEnd` says so of one state; but `RunB` looks for tasks in one
step and gives up in another, after a mode, a pause, a pilot. `IdleInv` says that a round
that found no task and no thread stays as it was found until the test: no thread is left to
report anything, nothing of the round is to be connected or launched, and pilots do not touch
the schema. So the emptiness seen at the selection (`FoundNothing`) still holds at the end.
Both hypotheses of the schema are needed: `ExecReactivated` violates the property without
`CoupledTogether`, `SchedAllDisabled` shows a schema without `BlocsHaveWork`.

**`ExecutorProofs`, the pools**. `PlacesUsedOnce` holds whatever pilots do: a place is given
from those nobody has at that moment, and a thread only gives back its own. `ThreadsHavePlaces`
follows a task from its selection to the release: `PlaceInv` says that the tasks of a round
have a place and no thread until they are launched, and those with a thread have one until
the thread has given it back. `setStepsToExecute`, the second write of `_tasks` of which may
bring back the tasks of an earlier round, is left out. `GivesUpWithoutPlaces` is the argument
of `GivesUpOnNothing` again, with tasks that are ready and not selected: in the last round
the pool of each of them had no free place, and nothing runs that gives one back.

`SleepsForPlaces` is `SleepsBesideNothing` on pools of any size, and needs neither `NoChains`
nor the refinement. `Late(X)` says that when the round `RunB` is in or has ended is the last,
every task that is to run is in that round, in `X`, or behind a Bloc that is not entered; `X`
is here the tasks at pools that are full or about to be given a place back (`AtFullPools`).
The cutoff leaves out only those: it keeps as many ready tasks of a pool as it has free places,
and `allocateFor` then gives them all away (`CutoffFills`). A thread that gives a place back
has still to report the end of its task, which makes the round no longer the last
(`EndLate`). `RoundOnPools` says what the tasks of a round may be while `RunB` goes through
them.

`PoolImplements` is the one result for which the cutoff must not separate coupled tasks: a task
that runs beside one which is still waiting for a place, and fails, fails it in a way `Scheduler`
does not describe. Its hypothesis `PoolsFit` gives the pools of coupled tasks a place for each of
their tasks. The proof compares numbers: the places in use belong to other tasks of the pool
(`FreePlaces`, `LargePoolKeeps`), so none is left out. A task that was loaded and has not run
keeps its place, or loses it with its failure: if a task has a place, the task coupled to it is
no longer waiting behind its gate, and has a place of its own if it is to be loaded
(`PlaceTogether`); a connected task has its place (`ConnectedHold`). The exception of
`allocateFor` leaves a round half way: `PoolXInv` keeps of the refinement's invariant what holds
after it.

**`ControlNodesProofs`**. A node runs several times, so that "done" and "gate open" say something
of the present turn only; `TurnInv` says what:
* whatever has a thread, runs as a fake task or sends an event is asked for by all the nodes
  around it, which have been entered, in the branch that is selected and with a turn to make
  (`RunInv`, `EventInv`);
* a gate is opened by a node that is done now, and a node behind a closed gate has not been
  entered, or failed behind a node that failed (`OpenInv`);
* what has not been entered is as `init` leaves it, counters of loops included (`FreshInv`);
* a `ForLoop` that goes on without a fake task has a turn to make (`ForInv`);
* a node that is done has the children it had to run done (`DoneInv`).

The steps are of two kinds, and each kind keeps the invariant by one lemma. `exUpdateState`,
alone or after the `init` of a body, enters nodes that are fresh, in a node that goes on, behind
open gates, and no task is left where `init` goes (`Entrance`, `EnterKeeps`): for another turn
this is `TurnEntrance`, where it matters that a loop has one body and a Switch one branch
(`OneChild`). The other steps start a node, end one in which nothing runs, or fail what waits
behind a failure (`Moves`, `MovesKeep`). The climb through the tree is again by closed sets:
`Upwards` says that what goes from a node to its father reaches the nodes around it, and takes
`DoneInv`, which is about fathers and children, to the whole of a body (`DoneAll`).

**`ForEachProofs`**. That a DONE loop has all its results is not inductive: `FInv` follows each
sample from its dispatch to its result.
* `BranchSamples`, `Vals` (together `Dispatched`): the body of a branch
  works on the sample of its rank, unless an exception has stopped the branch (`Stopped`); one
  without a rank has ended; every rank below `execCurrentId` is stored, in the hands of a branch, or a
  sample has failed, and then the loop cannot become DONE. `ToAbsId` is a bijection from the
  ranks dispatched to those not passed, which the library's facts on finite sets give.
* `Placed`, `Staged`, `InitFirst`: which nodes exist, and what the round of the executor may hold.
* `Finalizing`: once a finalize node is ready, all bodies are done, and `_unfinishedCounter`
  counts the finalize nodes that are not.
* `FakeAlone`, `BeforeUpdate`: a loop with a fake node has no clones, and a loop that has not
  been updated has nothing.

`NotAllPassed` excludes the case of section 4 in which the code forgets the passed results.

**`OptimizerProofs`**. `AltExclusive` (master and slave never run together) holds with spurious
wake-ups; `AltInv` adds who is to be woken next, which alternation needs. `OptContract` shows
that `OptimizerLoop` implements the contract of `AlternateThread`. `DecideInv` relates a
handler under way to the pool: while the algorithm has its turn on the end of a branch, the
current case is that branch's sample, out of the pool's queue, and nothing else moves it.
`SampleInv` counts: the samples in use are those of the busy branches, one each, so that when
all are lazy and the pool is not empty, something waits in it (`NoStarvation`, and the lemma
`NeverStarved` for the step itself).

**`CalciumProofs`**. `CalInv` is the types with what the reader's place says about its flags
(`SleepsFlagged`) and about the table: from the look it took to the sleep, what it wants is
still missing, and the port is open or somebody is about to wake it up (`StillMissing`). That
closes the race of `get` with `put` and `disconnect`. `ConnInv` is about the connections:
nothing but connections is made before the services are launched, and the count of the port is
the number of connections less the ends, or zero (`CountsEnds`), which gives `PortClosedOnce`:
the count is one exactly before the last end. `SeqInv` shows
`InSequence`: the dates put increase, the table holds all of them, and the reader takes the
least one above the last. `OneInSequence` is one writer in one turn, unlimited storage, no
erasure, no spurious wake-up: each of them is needed (section 4).

**`KernelProofs`, the launcher**. Nothing is assumed of the order of requests. `JobSubmittedOnce`
rests on `Owners` (a job that was given to the batch system is CREATED only while each request
that gave it is under way) and on `Launches` (a request holds the reference of a batch job that
was submitted for its own job), without which the end of one launch could hide another.
`StatesAreTrue` and `LauncherIsTable` rest on `AllSeen`: each state, in the table, in the file or
about to be set by a request, is one its batch job has been in (`Seen`), which the batch system's
moving forward only (`GoesForward`) turns into `Polled` when the job is asked about again, be it
two sessions later; state and reference are set together, so that this survives overtaken
launches. Where a launch begins only when no other is under way, a job is submitted once.

**`KernelProofs`, the job manager**. `OneEntry` is about the race of the answer to `createJob`
with the notification of the same job, and about the other clients of the launcher. Its
invariant, `JmInv`, adds the types of the entries, whose numbers are below the counter of the
launcher, and that a number on an entry whose job has gone is in the bag of threads that are
about to take it away (`GoneIsTold`). A number is never given twice, so that whoever writes one
on an entry has just found no entry with it. The theorems hold for an open launcher: nothing is
assumed of the other clients but that they respect the table, `JobTable`, which
`LauncherIsTable` shows the launcher to implement but for overtaken launches; these change
the state of a job and leave its number, on which alone the theorems are.

**`BatchProofs`**. The wait of `submitJob` and of `deleteJob` is for a signal that comes from
the job they are about, and comes once (`SignalInv`); `StatesInv` says which states go with each
place of a thread; `CallInv` what the master may rely on when it wakes up. `DeletedJobIsOver`
and `DestroyedIsUnused` follow, and both fail with spurious wake-ups, since the code waits
without a loop on its predicate (lines 531 and 149 of section 4). `FinalStateStays` and
`OnlyLivingAreCancelled` need less (`EndsInv`) and hold with them; the second excludes
`isRunning`, the entry of which has no thread (line 246). `LastCommandIsDone` reads the queue:
either its last command of the master is the last call, or it has none left and the process is
as the last call wants it (`CommandInv`); what the watch on the wall clock adds makes no
difference.

**Only model-checked**: all liveness, since the prover does not reason about fairness here;
`FinishedWithItsChildren` of `Scheduler`; the executor with `setStepsToExecute`;
`EveryJobIsListed` and `RowsAreJobs` of `JobsManager`, which are about names and rows as the
instances have them;
`SamplesAccounted`, `DistinctSamples`, `LoadedBeforeRun`, `ActivatedHasWork` of `ForEachLoop`;
`LostOnlyTheOldest`, `RepeatedReadsAgree` and `ReadsWhatSurrounds` of `CalciumPort`.

## 6. What is not modelled, and the assumptions made

**Assumptions of the models**
* `Scheduler` and `Executor`: schemas run from scratch; saved states (`RunB` with `fromScratch`
  false), `RunA`, observers, traces, the display of errors and the edition of schemas are left
  out. Loops have modules of their own, with the executor's rounds reduced to what they need:
  a whole schema with every kind of loop under the whole of `Executor` is not composed.
* Datastream links join nodes of the same Bloc (`GraphAssumption`). The code allows others;
  a coupled node may then be loaded while the Bloc around it is not entered.
* `WAITINGTASKS` and the two waits on it are left out: `getNbOfThreads()` is the size of
  `_groupOfAllThreadsCreated`, to which nothing is added, so that the state is never set.
  `INITIALISED` lasts from `init()` to the loop and is merged with `NOTYETINITIALIZED`.
* Pilots call `setStepsToExecute` in a pause only; in another state the call rewrites
  `_tasks` while `RunB` may be reading the vector, which is undefined behaviour.
* In `Executor` services return by themselves. Coupled tasks that wait for each other's data
  are in `PooledExecutor` (`Served`).
* `ControlNodes`: a Switch selects a branch, has a default branch or none, but is not empty
  while a value leaves it (the fake node compares states with `!=` there). A key selects one
  branch and a loop has one body, as `_mapOfNode` and `Loop::_node` have it; the body of a While
  loop is not itself a loop or a Switch (`TreeAssumption`), since one without a turn would
  leave its condition unchanged for ever.
* `ForEachLoop`, `OptimizerLoop`: bodies, init and finalize nodes are elementary; weights of
  branches, nested parallel loops and the loading of algorithms are left out. The algorithm of
  `OptimizerLoop` is asynchronous; a synchronous one has no thread.
* `CalciumPort`: one provides port with one reader; sizes and types of the data, and uses ports
  with several provides ports, are left out. All connections of a turn are made: when one cannot
  be, YACS aborts the coupled tasks, which is in `Executor`.
* `Launcher`: results and files of jobs, scripts and parameters are left out; the choice of a
  resource may fail and nothing else. `JobsManager`: one selection at a time; the catalogue of
  resources, tabs and files are left out.
* `LocalBatch`: POSIX (the Windows branches are left out); a command line is a process that
  runs, ends, or vanishes.
* Trace: the file collector has the same loop as the standard one and is not told from it;
  interrupted semaphore waits are retried by the code and make no step.

**Not modelled**: CORBA bindings of nodes, loaders and the graphical editor of YACS; DSC's Palm
policy and connection manager (the Calcium policy without dates, and references);
notification, naming, registry, catalogues, logger, life cycle (each call one look-up or update
of the ORB's services); generic objects; studies; distributed Python data; communication and
HDF; adapters to batch systems (command lines and parsing); GUI, GEOM, SMESH and its plugins,
MED, MEDCOUPLING, PARAVIS, HEXABLOCK, HOMARD (geometry, meshes, real-valued fields, displays:
out of reach of a model checker, and without concurrent control); samples, generators,
configuration and documentation. `PROJECT.json` gives the reason of each.

## 7. What could come next

* Composition: `ControlNodes` under the threads of `Executor`, and `OptimizerLoop` with a
  `ForEachLoop` in its body.
* Proofs: the executor with `setStepsToExecute`.
* Components: undo and lock of a study (SALOMEDS), the state machine of `SMESH_subMesh`, the
  operations of SUIT that suspend one another, reference counts of generic objects.
