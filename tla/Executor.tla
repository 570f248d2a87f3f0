------------------------------- MODULE Executor -------------------------------
(***************************************************************************)
(* YACS: Executor::RunB, its load threads and task threads, and the pilots *)
(* that step it, on a schema of Scheduler.                                 *)
(*                                                                         *)
(* _mutexForSchedulerUpdate is held while an event climbs the tree: a step *)
(* that needs it waits for event = NoEvent (Locked), and the rest of each  *)
(* critical section is one step.  Steps that read or write without the     *)
(* mutex have no such guard.  pc is the line the RunB thread is at.        *)
(***************************************************************************)
EXTENDS Scheduler, Naturals

CONSTANTS MaxThreads,     \* YACS_MAX_THREADS
          MaxProblems,    \* 25: rounds without a task before RunB gives up
          BreakPoints,    \* _listOfBreakPoints
          FirstMode,      \* _execMode when RunB starts
          StopOnError,    \* _stopOnErrorRequested
          Pilots,         \* threads that call the executor
          Calls,          \* the calls they make
          SpuriousWakeUps \* whether pthread_cond_wait may return by itself

ASSUME ExecutorAssumption ==
  /\ Elem # {}
  /\ MaxThreads \in Nat \ {0} /\ MaxProblems \in Nat
  /\ BreakPoints \subseteq Elem
  /\ FirstMode \in {"CONTINUE", "STEPBYSTEP", "STOPBEFORENODES"}
  /\ StopOnError \in BOOLEAN /\ SpuriousWakeUps \in BOOLEAN
  /\ Calls \subseteq {"CONTINUE", "STEPBYSTEP", "STOPBEFORENODES",
                      "resume", "steps", "stop", "wait"}

VARIABLES
  pc, todo, cur, coupledTodo, noTask, problems,  \* locals of RunB
  loader,                                        \* threads of functionForTaskLoad
  running,                                       \* _runningTasks
  sem,                                           \* _semForMaxThreads
  ended,                                         \* _numberOfEndedTasks
  isWaiting,                                     \* _isWaitingEventsFromRunningTasks
  executorState, execMode, isOKToEnd, tasksSave, \* the members of these names
  pilot, restricted                              \* where each pilot is, its restrictedTasks

graph   == <<state, gate, event, unset>>
locals  == <<todo, cur, coupledTodo, noTask, problems>>
threads == <<loader, running, sem>>
wakeup  == <<ended, isWaiting>>
control == <<executorState, execMode, isOKToEnd, tasksSave>>
pilots  == <<pilot, restricted>>
execVars == <<graph, tasks, pc, locals, threads, wakeup, control, pilots>>

\* RunB once its first critical section is done.  INITIALISED, which lasts
\* from init() to the loop, is not told from NOTYETINITIALIZED.
ExecInit ==
  /\ Init
  /\ pc = "start" /\ todo = {} /\ coupledTodo = {}
  /\ cur = CHOOSE n \in Elem : TRUE
  /\ noTask = FALSE /\ problems = 0
  /\ loader = [n \in Elem |-> "none"] /\ running = {} /\ sem = MaxThreads
  /\ ended = 0 /\ isWaiting = FALSE
  /\ executorState = "NOTYETINITIALIZED" /\ execMode = FirstMode
  /\ isOKToEnd = FALSE /\ tasksSave = {}
  /\ pilot = [p \in Pilots |-> "idle"] /\ restricted = [p \in Pilots |-> {}]

Locked == event = NoEvent

\* _condForPilot.notify_all()
PilotsWoken == [p \in Pilots |-> IF pilot[p] = "wait" THEN "idle" ELSE pilot[p]]

-----------------------------------------------------------------------------
(* The RunB thread                                                         *)

Start ==
  /\ pc = "start" /\ StartSchema
  /\ pc' = "sleep" /\ executorState' = "RUNNING"
  /\ UNCHANGED <<locals, threads, wakeup, execMode, isOKToEnd, tasksSave, pilots>>

\* exUpdateState() throws, and so does RunB
StartThrows(x) ==
  /\ pc = "start" /\ StartSchemaThrows(x)
  /\ pc' = "end" /\ executorState' = "FINISHED"
  /\ UNCHANGED <<locals, threads, wakeup, execMode, isOKToEnd, tasksSave, pilots>>

\* sleepWhileNoEventsFromAnyRunningTask
Sleep ==
  /\ pc = "sleep" /\ Locked
  /\ IF running # {} /\ ended = 0
       THEN pc' = "waiting" /\ isWaiting' = TRUE /\ UNCHANGED ended
       ELSE pc' = "select" /\ ended' = 0 /\ UNCHANGED isWaiting
  /\ UNCHANGED <<graph, tasks, locals, threads, control, pilots>>

SpuriousWakeUp ==
  /\ SpuriousWakeUps
  /\ \/ pc = "waiting" /\ pc' = "woken"
     \/ pc = "paused" /\ pc' = "resumed"
  /\ UNCHANGED <<graph, tasks, locals, threads, wakeup, control, pilots>>

Woken ==
  /\ pc = "woken" /\ Locked
  /\ pc' = "select" /\ ended' = 0
  /\ UNCHANGED <<graph, tasks, locals, threads, isWaiting, control, pilots>>

\* getNextTasks, under the mutex
Select ==
  /\ pc = "select" /\ GetNextTasks(ReadyTasks)
  /\ noTask' = (running = {} /\ ReadyTasks = {})
  /\ pc' = "mode"
  /\ UNCHANGED <<todo, cur, coupledTodo, problems, threads, wakeup, control, pilots>>

\* _executorState and _execMode are read without the mutex
ReadMode ==
  /\ pc = "mode"
  /\ pc' = IF executorState # "RUNNING" THEN "check"
           ELSE IF execMode = "CONTINUE" THEN "load"
           ELSE IF execMode = "STEPBYSTEP" THEN "step" ELSE "nodes"
  /\ UNCHANGED <<graph, tasks, locals, threads, wakeup, control, pilots>>

CheckBreakPoints_AlwaysWaits ==
  /\ pc \in {"step", "nodes"} /\ Locked
  /\ tasksSave' = tasks
  /\ IF pc = "step" \/ tasks \cap BreakPoints # {}
       THEN executorState' = "PAUSED" /\ pilot' = PilotsWoken /\ pc' = "paused"
       ELSE /\ pc' = IF isOKToEnd THEN "stopping" ELSE "load"
            /\ UNCHANGED <<executorState, pilot>>
  /\ UNCHANGED <<graph, tasks, locals, threads, wakeup, execMode, isOKToEnd, restricted>>

CheckBreakPoints_Silent ==
  /\ pc \in {"step", "nodes"} /\ Locked
  /\ tasksSave' = tasks
  /\ IF pc = "step" \/ tasks \cap BreakPoints # {}
       THEN executorState' = "PAUSED" /\ pc' = IF isOKToEnd THEN "stopping" ELSE "paused"
       ELSE pc' = (IF isOKToEnd THEN "stopping" ELSE "load") /\ UNCHANGED executorState
  /\ UNCHANGED <<graph, tasks, locals, threads, wakeup, execMode, isOKToEnd, pilots>>

\* checkBreakPoints; getNbOfThreads() is always 0, hence never WAITINGTASKS
CheckBreakPoints ==
  /\ pc \in {"step", "nodes"} /\ Locked
  /\ tasksSave' = tasks
  /\ IF pc = "step" \/ tasks \cap BreakPoints # {}
       THEN /\ executorState' = "PAUSED" /\ pilot' = PilotsWoken
            /\ pc' = IF isOKToEnd THEN "stopping" ELSE "paused"
       ELSE /\ pc' = IF isOKToEnd THEN "stopping" ELSE "load"
            /\ UNCHANGED <<executorState, pilot>>
  /\ UNCHANGED <<graph, tasks, locals, threads, wakeup, execMode, isOKToEnd, restricted>>

Resumed ==
  /\ pc = "resumed" /\ Locked
  /\ pc' = IF isOKToEnd THEN "stopping" ELSE "load"
  /\ UNCHANGED <<graph, tasks, locals, threads, wakeup, control, pilots>>

\* loadParallelTasks: one thread per task, then join
Load ==
  /\ pc = "load"
  /\ loader' = [n \in Elem |-> IF n \in tasks THEN "read" ELSE "none"]
  /\ pc' = "join"
  /\ UNCHANGED <<graph, tasks, locals, running, sem, wakeup, control, pilots>>

Join ==
  /\ pc = "join" /\ \A n \in Elem : loader[n] = "none"
  /\ pc' = "connect" /\ todo' = tasks
  /\ UNCHANGED <<graph, tasks, cur, coupledTodo, noTask, problems, threads, wakeup,
                 control, pilots>>

\* launchTasks, first phase.  The state of a task is read without the mutex.
ReadToConnect ==
  /\ pc = "connect"
  /\ \/ \E n \in todo :
          IF state[n] = "TOLOAD"
            THEN cur' = n /\ pc' = "connecting" /\ UNCHANGED todo
            ELSE todo' = todo \ {n} /\ UNCHANGED <<cur, pc>>
     \/ todo = {} /\ todo' = tasks /\ pc' = "launch" /\ UNCHANGED cur
  /\ UNCHANGED <<graph, tasks, coupledTodo, noTask, problems, threads, wakeup, control,
                 pilots>>

ConnectService ==
  /\ pc = "connecting" /\ Locked
  /\ \/ /\ state' = [state EXCEPT ![cur] = ConnectedState(cur)] /\ UNCHANGED event
        /\ pc' = "connect" /\ todo' = todo \ {cur}
     \/ Notify(cur, "ERROR", "ABORT") /\ pc' = "failed" /\ UNCHANGED todo
  /\ UNCHANGED <<gate, unset, tasks, cur, coupledTodo, noTask, problems, threads, wakeup,
                 control, pilots>>

ReadFailed_AllTasks ==
  /\ pc = "failed" /\ Locked
  /\ coupledTodo' = tasks \ {cur}
  /\ pc' = "coupled"
  /\ UNCHANGED <<graph, tasks, todo, cur, noTask, problems, threads, wakeup, control, pilots>>

\* getState() == ERROR and getCoupledTasks
ReadFailed ==
  /\ pc = "failed" /\ Locked
  /\ coupledTodo' = IF state[cur] = "ERROR" THEN CoupledSet[cur] \ {cur} ELSE {}
  /\ pc' = "coupled"
  /\ UNCHANGED <<graph, tasks, todo, cur, noTask, problems, threads, wakeup, control, pilots>>

AbortCoupled ==
  /\ pc = "coupled" /\ Locked
  /\ \/ \E n \in coupledTodo :
          /\ coupledTodo' = coupledTodo \ {n}
          /\ IF state[n] = "ERROR" THEN UNCHANGED <<state, event>>
                                   ELSE Notify(n, "ERROR", "ABORT")
          /\ UNCHANGED <<todo, pc>>
     \/ /\ coupledTodo = {} /\ todo' = todo \ {cur} /\ pc' = "connect"
        /\ UNCHANGED <<coupledTodo, state, event>>
  /\ UNCHANGED <<gate, unset, tasks, cur, noTask, problems, threads, wakeup, control, pilots>>

\* launchTask: the state of the task is read without the mutex ...
ReadToLaunch ==
  /\ pc = "launch"
  /\ \/ \E n \in todo :
          IF state[n] = "TOACTIVATE"
            THEN cur' = n /\ pc' = "acquire" /\ UNCHANGED todo
            ELSE todo' = todo \ {n} /\ UNCHANGED <<cur, pc>>
     \/ todo = {} /\ pc' = "check" /\ UNCHANGED <<cur, todo>>
  /\ UNCHANGED <<graph, tasks, coupledTodo, noTask, problems, threads, wakeup, control,
                 pilots>>

\* ... then _semForMaxThreads.wait() ...
Acquire ==
  /\ pc = "acquire"
  /\ sem > 0 /\ sem' = sem - 1 /\ pc' = "begin"
  /\ UNCHANGED <<graph, tasks, locals, loader, running, wakeup, control, pilots>>

\* ... and begin(), with no second look at the state.
Launch ==
  /\ pc = "begin" /\ Locked
  /\ state' = [state EXCEPT ![cur] = "ACTIVATED"]
  /\ running' = running \cup {cur}
  /\ todo' = todo \ {cur} /\ pc' = "launch"
  /\ UNCHANGED <<gate, event, unset, tasks, cur, coupledTodo, noTask, problems, loader, sem,
                 wakeup, control, pilots>>

\* The end of a round
Check ==
  /\ pc = "check" /\ Locked
  /\ LET unfinished == running # {} \/ ~ IsFinished(Root)
         problem    == unfinished /\ noTask
         toContinue == unfinished /\ ~ (problem /\ problems = MaxProblems)
     IN  /\ problems' = IF problem /\ toContinue THEN problems + 1 ELSE problems
         /\ IF toContinue
              THEN pc' = "sleep" /\ UNCHANGED <<executorState, pilot>>
              ELSE pc' = "end" /\ executorState' = "FINISHED" /\ pilot' = PilotsWoken
  /\ UNCHANGED <<graph, tasks, todo, cur, coupledTodo, noTask, threads, wakeup, execMode,
                 isOKToEnd, tasksSave, restricted>>

\* break, when the end is requested
Stopped ==
  /\ pc = "stopping" /\ Locked
  /\ pc' = "end" /\ executorState' = "STOPPED"
  /\ UNCHANGED <<graph, tasks, locals, threads, wakeup, execMode, isOKToEnd, tasksSave, pilots>>

RunB == \/ Start \/ (\E x \in Invalid : StartThrows(x))
        \/ Sleep \/ Woken \/ Select \/ ReadMode \/ CheckBreakPoints \/ Resumed
        \/ Load \/ Join \/ ReadToConnect \/ ConnectService \/ ReadFailed \/ AbortCoupled
        \/ ReadToLaunch \/ Acquire \/ Launch \/ Check \/ Stopped

-----------------------------------------------------------------------------
(* Load threads and task threads                                           *)

\* loadTask.  The state is read without the mutex, and not again.
LoadTask(n) ==
  /\ \/ /\ loader[n] = "read"
        /\ loader' = [loader EXCEPT ![n] = IF state[n] = "TOLOAD" THEN "start" ELSE "none"]
        /\ UNCHANGED <<state, event>>
     \/ /\ loader[n] = "start" /\ Locked
        /\ Notify(n, state[n], "START") /\ loader' = [loader EXCEPT ![n] = "load"]
     \/ /\ loader[n] = "load"
        /\ loader' = [loader EXCEPT ![n] = "none"] /\ UNCHANGED <<state, event>>
     \/ /\ loader[n] = "load" /\ Locked
        /\ Notify(n, "ERROR", "ABORT") /\ loader' = [loader EXCEPT ![n] = "none"]
  /\ UNCHANGED <<gate, unset, tasks, pc, locals, running, sem, wakeup, control, pilots>>

\* wakeUp
WakeUp ==
  IF isWaiting
    THEN /\ isWaiting' = FALSE /\ UNCHANGED ended
         /\ pc' = IF pc = "waiting" THEN "woken" ELSE pc
    ELSE ended' = ended + 1 /\ UNCHANGED <<isWaiting, pc>>

TaskEnds_QuietAbort(n) ==
  /\ n \in running /\ Locked
  /\ \/ Notify(n, "DONE", "FINISH") /\ (IF executorState = "PAUSED" THEN UNCHANGED <<wakeup, pc>> ELSE WakeUp)
     \/ Notify(n, "ERROR", "ABORT") /\ UNCHANGED <<wakeup, pc>>
  /\ running' = running \ {n} /\ sem' = sem + 1
  /\ UNCHANGED <<gate, unset, tasks, locals, loader, execMode, isOKToEnd, executorState,
                 tasksSave, pilots>>

TaskEnds_NoPostOnAbort(n) ==
  /\ n \in running /\ Locked
  /\ \/ Notify(n, "DONE", "FINISH") /\ sem' = sem + 1
     \/ Notify(n, "ERROR", "ABORT") /\ UNCHANGED sem
  /\ running' = running \ {n}
  /\ IF executorState = "PAUSED" THEN UNCHANGED <<wakeup, pc>> ELSE WakeUp
  /\ UNCHANGED <<gate, unset, tasks, locals, loader, execMode, isOKToEnd, executorState,
                 tasksSave, pilots>>

TaskEnds_KeptOnAbort(n) ==
  /\ n \in running /\ Locked
  /\ \/ Notify(n, "DONE", "FINISH") /\ running' = running \ {n}
     \/ Notify(n, "ERROR", "ABORT") /\ UNCHANGED running
  /\ sem' = sem + 1
  /\ IF executorState = "PAUSED" THEN UNCHANGED <<wakeup, pc>> ELSE WakeUp
  /\ UNCHANGED <<gate, unset, tasks, locals, loader, execMode, isOKToEnd, executorState,
                 tasksSave, pilots>>

\* The end of functionForTaskExecution, once execute() has returned or thrown.
\* The mutex is held until the event has climbed.
TaskEnds(n) ==
  /\ n \in running /\ Locked
  /\ \/ Notify(n, "DONE", "FINISH") /\ UNCHANGED <<execMode, isOKToEnd>>
     \/ /\ Notify(n, "ERROR", "ABORT")
        /\ IF StopOnError THEN execMode' = "STEPBYSTEP" /\ isOKToEnd' = TRUE
                          ELSE UNCHANGED <<execMode, isOKToEnd>>
  /\ running' = running \ {n} /\ sem' = sem + 1
  /\ IF executorState = "PAUSED" THEN UNCHANGED <<wakeup, pc>> ELSE WakeUp
  /\ UNCHANGED <<gate, unset, tasks, locals, loader, executorState, tasksSave, pilots>>

Climb == UpdateStateFrom /\ UNCHANGED <<pc, locals, threads, wakeup, control, pilots>>

-----------------------------------------------------------------------------
(* The pilots                                                              *)

SetExecMode(p, mode) ==
  /\ mode \in Calls /\ pilot[p] = "idle" /\ Locked
  /\ execMode' = mode
  /\ UNCHANGED <<graph, tasks, pc, locals, threads, wakeup, executorState, isOKToEnd,
                 tasksSave, pilots>>

\* resumeCurrentBreakPoint
ResumeCurrentBreakPoint ==
  /\ Locked
  /\ IF executorState = "PAUSED"
       THEN executorState' = "RUNNING" /\ pc' = IF pc = "paused" THEN "resumed" ELSE pc
       ELSE UNCHANGED <<executorState, pc>>
  /\ UNCHANGED <<graph, tasks, locals, threads, wakeup, execMode, isOKToEnd, tasksSave>>

Resume(p) ==
  /\ "resume" \in Calls /\ pilot[p] = "idle"
  /\ ResumeCurrentBreakPoint
  /\ UNCHANGED pilots

\* stopExecution: setExecMode, then _isOKToEnd without the mutex, then resume
StopExecution(p) ==
  /\ \/ /\ "stop" \in Calls /\ pilot[p] = "idle" /\ Locked
        /\ execMode' = "STEPBYSTEP" /\ pilot' = [pilot EXCEPT ![p] = "stop1"]
        /\ UNCHANGED <<graph, tasks, pc, locals, threads, wakeup, executorState, isOKToEnd,
                       tasksSave>>
     \/ /\ pilot[p] = "stop1"
        /\ isOKToEnd' = TRUE /\ pilot' = [pilot EXCEPT ![p] = "stop2"]
        /\ UNCHANGED <<graph, tasks, pc, locals, threads, wakeup, executorState, execMode,
                       tasksSave>>
     \/ /\ pilot[p] = "stop2"
        /\ ResumeCurrentBreakPoint /\ pilot' = [pilot EXCEPT ![p] = "idle"]
  /\ UNCHANGED restricted

\* setStepsToExecute writes _tasks twice, the second time without the mutex
\* and whatever the state of the executor.  The pilots here call it only when
\* the executor is paused: what RunB makes of a vector that changes while it
\* reads it is not modelled.
SetStepsToExecute(p, listToExecute) ==
  /\ "steps" \in Calls /\ pilot[p] = "idle" /\ Locked
  /\ executorState = "PAUSED"
  /\ restricted' = [restricted EXCEPT ![p] = tasksSave \cap listToExecute]
  /\ tasks' = tasksSave \cap listToExecute
  /\ pilot' = [pilot EXCEPT ![p] = "steps"]
  /\ UNCHANGED <<graph, pc, locals, threads, wakeup, control>>

SetStepsUnlocked(p) ==
  /\ pilot[p] = "steps"
  /\ tasks' = restricted[p]
  /\ pilot' = [pilot EXCEPT ![p] = "idle"] /\ restricted' = [restricted EXCEPT ![p] = {}]
  /\ UNCHANGED <<graph, pc, locals, threads, wakeup, control>>

WaitPause(p) ==
  /\ "wait" \in Calls /\ pilot[p] = "idle" /\ Locked
  /\ executorState \in {"NOTYETINITIALIZED", "RUNNING"}
  /\ pilot' = [pilot EXCEPT ![p] = "wait"]
  /\ UNCHANGED <<graph, tasks, pc, locals, threads, wakeup, control, restricted>>

Pilot(p) == \/ \E mode \in {"CONTINUE", "STEPBYSTEP", "STOPBEFORENODES"} : SetExecMode(p, mode)
            \/ Resume(p) \/ StopExecution(p) \/ WaitPause(p)
            \/ (\E S \in SUBSET Elem : SetStepsToExecute(p, S)) \/ SetStepsUnlocked(p)

ExecNext == \/ RunB
            \/ SpuriousWakeUp
            \/ Climb
            \/ \E n \in Elem : LoadTask(n) \/ TaskEnds(n)
            \/ \E p \in Pilots : Pilot(p)

ExecSpec == ExecInit /\ [][ExecNext]_execVars

\* Threads run, and the services of the tasks return; pilots owe nothing.
FairExec == /\ ExecSpec
            /\ WF_execVars(RunB) /\ WF_execVars(Climb)
            /\ \A n \in Elem : WF_execVars(LoadTask(n)) /\ WF_execVars(TaskEnds(n))

-----------------------------------------------------------------------------
(* Properties                                                              *)

\* Every variable keeps to its type.
ExecTypeOK ==
  /\ TypeOK
  /\ pc \in {"start", "sleep", "waiting", "woken", "select", "mode", "step", "nodes", "paused",
             "resumed", "load", "join", "connect", "connecting", "failed", "coupled",
             "launch", "acquire", "begin", "check", "stopping", "end"}
  /\ todo \subseteq Elem /\ cur \in Elem /\ coupledTodo \subseteq Elem
  /\ noTask \in BOOLEAN /\ problems \in 0..MaxProblems
  /\ loader \in [Elem -> {"none", "read", "start", "load"}]
  /\ running \subseteq Elem /\ sem \in 0..MaxThreads
  /\ ended \in Nat /\ isWaiting \in BOOLEAN
  /\ executorState \in {"NOTYETINITIALIZED", "RUNNING", "PAUSED", "FINISHED", "STOPPED"}
  /\ execMode \in {"CONTINUE", "STEPBYSTEP", "STOPBEFORENODES"}
  /\ isOKToEnd \in BOOLEAN /\ tasksSave \subseteq Elem
  /\ pilot \in [Pilots -> {"idle", "wait", "stop1", "stop2", "steps"}]
  /\ restricted \in [Pilots -> SUBSET Elem]

\* The executor makes no calls but those Scheduler allows, in an order it
\* allows: a task is not run before it is connected, connected only if it was
\* to be loaded, and no call comes while an event climbs.
ImplementsScheduler == Spec

\* The RunB thread sleeps only while a task runs that will wake it up: the end
\* of a task between the selection of the tasks and the sleep is not lost.
NoLostWakeUp == (pc = "waiting" /\ Locked) => (running # {} /\ isWaiting)

\* In mode CONTINUE the thread does not sleep beside work it could start.
NothingReadyWhileSleeping == (pc = "waiting" /\ Locked) => ReadyTasks = {}

\* Every thread of a task holds one place of _semForMaxThreads and gives it
\* back once, on every way out of functionForTaskExecution.
PlacesAccounted ==
  Cardinality(running) + sem + (IF pc = "begin" THEN 1 ELSE 0) = MaxThreads

\* The nodes that run are those that have a thread: no failure of another task
\* takes its state from a task whose service runs (_runningTasks).
RunningAreActivated == running = {n \in Elem : state[n] = "ACTIVATED"}

\* FINISHED: no task runs, and the schema is finished or could not start.
FinishedMeansFinished ==
  executorState = "FINISHED" => running = {} /\ (IsFinished(Root) \/ StartThrew)

\* Left alone, RunB comes to its end.
Ends == <>(pc = "end")

\* As long as nobody asks for the end of the execution, waitPause returns.
WaitReturnsUnlessStopped ==
  \A p \in Pilots : pilot[p] = "wait" ~> (pilot[p] # "wait" \/ isOKToEnd)

\* A pilot that has begun to stop the execution goes on to the last call.
StopFairness == \A p \in Pilots :
  WF_execVars(pilot[p] \in {"stop1", "stop2"} /\ StopExecution(p))
FairStop == FairExec /\ StopFairness

\* stopExecution ends RunB, whatever the thread was waiting for.
StopEnds == \A p \in Pilots : pilot[p] = "stop1" ~> pc = "end"
=============================================================================
