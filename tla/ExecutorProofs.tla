---------------------------- MODULE ExecutorProofs ----------------------------
(***************************************************************************)
(* Proofs about Executor, for every schema, number of threads, pilots and  *)
(* calls: its variables keep to their types, the places of                 *)
(* _semForMaxThreads are all accounted for, and no end of task is lost; it *)
(* implements Scheduler when nobody steps through the schema; the pools of *)
(* containers it may run on keep what its tasks need; it gives up on no    *)
(* schema, and does not sleep, while there is something to do.             *)
(***************************************************************************)
EXTENDS PooledExecutor, SchedulerProofs, FiniteSetTheorems

\* What TaskEnds has left of a running task: a failure elsewhere may change
\* the state of a task that runs, never to one that is launched again.
RunningStates == {"ACTIVATED", "ERROR", "FAILED", "INTERNALERR"}

\* RunB is about to act on a task it has found not to run.
AboutToAct == pc \in {"connecting", "acquire", "begin"}

Places ==
  /\ IsFiniteSet(running)
  /\ PlacesAccounted
  /\ \A n \in running : state[n] \in RunningStates
  /\ AboutToAct => cur \notin running

TInv == ExecTypeOK /\ Places

-----------------------------------------------------------------------------
(* What the engine does to the elementary nodes                            *)

LEMMA UpdatedNothing ==
  ASSUME NEW st, NEW n \in Elem
  PROVE  Updated(st, {})[n] = st[n]
<1>1. LoadedWith(st, {}) = {}
  <2> SUFFICES ASSUME NEW m \in LoadedWith(st, {}) PROVE FALSE
    OBVIOUS
  <2>1. /\ {} \in SUBSET Elem /\ {} \subseteq {}
        /\ \A x \in {} : {y \in Coupled(x) : st[y] = "READY"} \subseteq {}
    OBVIOUS
  <2>2. m \in {}
    BY <2>1 DEF LoadedWith
  <2> QED BY <2>2
<1>2. {m \in {} \cap Elem : st[m] = "READY"} = {}
  OBVIOUS
<1> QED BY <1>1, <1>2, Graph DEF Updated

\* The calls of exUpdateState and updateStateFrom update some nodes, and fail
\* others.
LEMMA EngineForm ==
  ASSUME TypeOK,
         \/ StartSchema
         \/ \E x \in Invalid : StartSchemaThrows(x)
         \/ UpdateStateFrom
  PROVE  \E W \in SUBSET Nodes : \A n \in Elem :
           state'[n] = Updated(state, W)[n] \/ state'[n] \in {"FAILED", "INTERNALERR"}
<1> USE DEF TypeOK
<1> DEFINE Form == \E W \in SUBSET Nodes : \A n \in Elem :
                     state'[n] = Updated(state, W)[n] \/ state'[n] \in {"FAILED", "INTERNALERR"}
<1>0. \A n \in Elem : n \in Nodes /\ n \in Children /\ n \notin Blocs
  BY Graph, GraphAssumption
<1>1. ASSUME \A n \in Elem : state'[n] \in {state[n], "FAILED"} PROVE Form
  <2>1. \A n \in Elem : state'[n] = Updated(state, {})[n] \/ state'[n] = "FAILED"
    BY <1>1, UpdatedNothing
  <2> QED BY <2>1
<1>2. CASE StartSchema
  <2>1. Entered[Root] \in SUBSET Nodes
    BY EnteredNodes, Graph
  <2> QED BY <1>2, <2>1 DEF StartSchema
<1>3. ASSUME NEW x \in Invalid, StartSchemaThrows(x) PROVE Form
  <2>1. PICK P \in VisitedBefore(Entered[Root], x) :
          state' = [Updated(state, P) EXCEPT ![x] = "INTERNALERR"]
    BY <1>3 DEF StartSchemaThrows
  <2>2. P \in SUBSET Nodes
    BY <2>1, EnteredNodes, Graph DEF VisitedBefore
  <2>3. Updated(state, P) \in [Nodes -> State]
    BY <2>2, UpdatedType
  <2>4. \A n \in Elem : state'[n] = "INTERNALERR" \/ state'[n] = Updated(state, P)[n]
    BY <2>1, <2>3, <1>0
  <2> QED BY <2>2, <2>4
<1>4. CASE OnStartEvent
  <2>1. Father[event.from] \in Blocs
    BY <1>4, KindIsAnEvent DEF OnStartEvent
  <2> QED BY <1>0, <1>1, <1>4, <2>1 DEF OnStartEvent
<1>5. CASE OnLastFinished
  <2>1. Father[event.from] \in Blocs
    BY <1>5, KindIsAnEvent DEF OnLastFinished
  <2> QED BY <1>0, <1>1, <1>5, <2>1 DEF OnLastFinished, Finish
<1>6. CASE OnFinished
  <2>1. event.from \in Children
    BY <1>6, KindIsAnEvent DEF OnFinished
  <2> QED BY <1>6, <2>1, ReachedNodes DEF OnFinished
<1>7. ASSUME NEW x \in Invalid, OnFinishedThrows(x) PROVE Form
  <2> DEFINE m == event.from
  <2>1. m \in Children /\ Father[m] \in Blocs
    BY <1>7, KindIsAnEvent DEF OnFinishedThrows
  <2>2. PICK P \in VisitedBefore(Reached(m), x) :
          state' = [FailedAfter([Updated(state, P) EXCEPT ![x] = "INTERNALERR"], m)
                      EXCEPT ![Father[m]] = "FAILED"]
    BY <1>7 DEF OnFinishedThrows
  <2>3. P \in SUBSET Nodes
    BY <2>1, <2>2, ReachedNodes DEF VisitedBefore
  <2>4. Updated(state, P) \in [Nodes -> State]
    BY <2>3, UpdatedType
  <2>5. \A n \in Elem : state'[n] \in {"FAILED", "INTERNALERR", Updated(state, P)[n]}
    BY <1>0, <2>2, <2>4 DEF FailedAfter
  <2> QED BY <2>3, <2>5
<1>8. CASE OnFailed
  <2>1. Father[event.from] \in Blocs
    BY <1>8, KindIsAnEvent DEF OnFailed
  <2> QED BY <1>0, <1>1, <1>8, <2>1 DEF OnFailed, Finish, FailedAfter
<1> QED BY <1>2, <1>3, <1>4, <1>5, <1>6, <1>7, <1>8 DEF UpdateStateFrom

\* An elementary node fails, or goes one step towards its launch.
LEMMA EngineSteps ==
  ASSUME TypeOK, NEW n \in Elem,
         \/ StartSchema
         \/ \E x \in Invalid : StartSchemaThrows(x)
         \/ UpdateStateFrom
  PROVE  \/ state'[n] = state[n]
         \/ state'[n] \in {"FAILED", "INTERNALERR"}
         \/ state[n] = "READY" /\ state'[n] = "TOLOAD"
         \/ state[n] = "LOADED" /\ state'[n] = "TOACTIVATE"
<1>1. PICK W \in SUBSET Nodes :
        state'[n] = Updated(state, W)[n] \/ state'[n] \in {"FAILED", "INTERNALERR"}
  BY EngineForm
<1>2. n \in Nodes /\ n \notin Blocs
  BY Graph, GraphAssumption
<1> QED BY <1>1, <1>2, UpdatedNode DEF TypeOK

LEMMA NotifyType ==
  ASSUME TypeOK, NEW n \in Elem, NEW v \in State, NEW kind \in {"START", "FINISH", "ABORT"},
         Notify(n, v, kind), UNCHANGED <<gate, unset, tasks>>
  PROVE  TypeOK'
BY Graph DEF TypeOK, Notify, Event

\* Only the launch of a task takes a place, and only the end of one gives a
\* place back: other steps keep Places if they set no running task going again.
LEMMA PlacesKept ==
  ASSUME TInv, UNCHANGED <<running, sem>>, pc # "begin", pc' # "begin",
         AboutToAct' => cur' \notin running,
         \A n \in running : state'[n] \in RunningStates
  PROVE  Places'
BY DEF TInv, Places, PlacesAccounted

LEMMA EnginePlaces ==
  ASSUME TInv, \/ StartSchema
               \/ \E x \in Invalid : StartSchemaThrows(x)
               \/ UpdateStateFrom
  PROVE  /\ TypeOK'
         /\ \A n \in running : state'[n] \in RunningStates
<1>1. [Next]_vars
  BY DEF Next
<1>2. TypeOK'
  BY <1>1, StepType DEF TInv, ExecTypeOK
<1>3. \A n \in running : state'[n] \in RunningStates
  BY EngineSteps DEF TInv, Places, ExecTypeOK, RunningStates
<1> QED BY <1>2, <1>3

-----------------------------------------------------------------------------
(* Types and places                                                        *)

LEMMA ExecInitInv == ExecInit => TInv
<1> SUFFICES ASSUME ExecInit PROVE TInv
  OBVIOUS
<1>1. TypeOK
  BY InitType DEF ExecInit
<1>2. cur \in Elem
  BY ExecutorAssumption DEF ExecInit
<1>3. ExecTypeOK
  <2>1. problems \in 0..MaxProblems /\ sem \in 0..MaxThreads /\ ended \in Nat
    BY ExecutorAssumption DEF ExecInit
  <2>2. /\ execMode \in {"CONTINUE", "STEPBYSTEP", "STOPBEFORENODES"}
        /\ executorState \in {"NOTYETINITIALIZED", "RUNNING", "PAUSED", "FINISHED", "STOPPED"}
    BY ExecutorAssumption DEF ExecInit
  <2>3. /\ loader \in [Elem -> {"none", "read", "start", "load"}]
        /\ pilot \in [Pilots -> {"idle", "wait", "stop1", "stop2", "steps"}]
        /\ restricted \in [Pilots -> SUBSET Elem]
    BY DEF ExecInit
  <2> QED BY <1>1, <1>2, <2>1, <2>2, <2>3 DEF ExecInit, ExecTypeOK
<1>4. Places
  BY FS_EmptySet, ExecutorAssumption DEF ExecInit, Places, PlacesAccounted, AboutToAct
<1> QED BY <1>3, <1>4 DEF TInv

LEMMA StartType ==
  ASSUME TInv, Start \/ (\E x \in Invalid : StartThrows(x))
  PROVE  TInv'
<1>1. TypeOK' /\ \A n \in running : state'[n] \in RunningStates
  BY EnginePlaces DEF Start, StartThrows
<1>2. ExecTypeOK'
  BY <1>1 DEF Start, StartThrows, TInv, ExecTypeOK, locals, threads, wakeup, control, pilots
<1>3. Places'
  BY <1>1, PlacesKept DEF Start, StartThrows, AboutToAct, locals, threads
<1> QED BY <1>2, <1>3 DEF TInv

LEMMA ClimbType ==
  ASSUME TInv, Climb
  PROVE  TInv'
<1>1. TypeOK' /\ \A n \in running : state'[n] \in RunningStates
  BY EnginePlaces DEF Climb
<1>2. ExecTypeOK'
  BY <1>1 DEF Climb, TInv, ExecTypeOK, locals, threads, wakeup, control, pilots
<1>3. Places'
  BY <1>1 DEF Climb, TInv, Places, PlacesAccounted, AboutToAct, locals, threads
<1> QED BY <1>2, <1>3 DEF TInv

\* The steps of RunB that only read the graph.
LEMMA ReadType ==
  ASSUME TInv, \/ Sleep \/ SpuriousWakeUp \/ Woken \/ ReadMode \/ Resumed \/ Load \/ Join
               \/ CheckBreakPoints \/ Stopped \/ ReadFailed
  PROVE  TInv'
<1> USE DEF graph, locals, threads, wakeup, control, pilots
<1>1. state' = state /\ running' = running /\ sem' = sem /\ cur' = cur
  BY DEF Sleep, SpuriousWakeUp, Woken, ReadMode, Resumed, Load, Join, CheckBreakPoints,
         Stopped, ReadFailed
<1>2. pc # "begin" /\ ~ AboutToAct'
  BY DEF Sleep, SpuriousWakeUp, Woken, ReadMode, Resumed, Load, Join, CheckBreakPoints,
         Stopped, ReadFailed, AboutToAct
<1>3. Places'
  BY <1>1, <1>2, PlacesKept DEF TInv, Places, AboutToAct
<1> SUFFICES ExecTypeOK'
  BY <1>3 DEF TInv
<1>4. TypeOK'
  BY DEF TInv, ExecTypeOK, TypeOK, Sleep, SpuriousWakeUp, Woken, ReadMode, Resumed, Load,
         Join, CheckBreakPoints, Stopped, ReadFailed
<1>5. CASE Sleep
  <2>1. isWaiting' = TRUE \/ isWaiting' = isWaiting
    BY <1>5 DEF Sleep
  <2>2. isWaiting' \in BOOLEAN
    BY <2>1 DEF TInv, ExecTypeOK
  <2>3. ended' \in {0, ended} /\ pc' \in {"waiting", "select"}
    BY <1>5 DEF Sleep
  <2>4. ended' \in Nat
    BY <2>3 DEF TInv, ExecTypeOK
  <2> QED BY <1>4, <1>5, <2>2, <2>3, <2>4 DEF Sleep, TInv, ExecTypeOK
<1>6. CASE SpuriousWakeUp
  BY <1>4, <1>6 DEF SpuriousWakeUp, TInv, ExecTypeOK
<1>7. CASE Woken
  BY <1>4, <1>7 DEF Woken, TInv, ExecTypeOK
<1>8. CASE ReadMode
  BY <1>4, <1>8 DEF ReadMode, TInv, ExecTypeOK
<1>9. CASE Resumed
  BY <1>4, <1>9 DEF Resumed, TInv, ExecTypeOK
<1>10. CASE Load
  BY <1>4, <1>10 DEF Load, TInv, ExecTypeOK
<1>11. CASE Join
  BY <1>4, <1>11 DEF Join, TInv, ExecTypeOK, TypeOK
<1>12. CASE CheckBreakPoints
  <2>1. pilot' \in [Pilots -> {"idle", "wait", "stop1", "stop2", "steps"}]
    BY <1>12 DEF CheckBreakPoints, PilotsWoken, TInv, ExecTypeOK
  <2> QED BY <1>4, <1>12, <2>1 DEF CheckBreakPoints, TInv, ExecTypeOK, TypeOK
<1>13. CASE Stopped
  BY <1>4, <1>13 DEF Stopped, TInv, ExecTypeOK
<1>14. CASE ReadFailed
  <2>1. CoupledSet[cur] \subseteq Elem
    BY DEF CoupledSet, TInv, ExecTypeOK
  <2> QED BY <1>4, <1>14, <2>1 DEF ReadFailed, TInv, ExecTypeOK
<1> QED BY <1>5, <1>6, <1>7, <1>8, <1>9, <1>10, <1>11, <1>12, <1>13, <1>14

LEMMA SelectType ==
  ASSUME TInv, Select
  PROVE  TInv'
<1> USE DEF Select, GetNextTasks, locals, threads, wakeup, control, pilots
<1>1. Places'
  BY PlacesKept DEF AboutToAct, TInv, Places
<1>2. TypeOK'
  BY DEF TInv, ExecTypeOK, TypeOK, ReadyTasks
<1>3. ExecTypeOK'
  BY <1>2 DEF TInv, ExecTypeOK
<1> QED BY <1>1, <1>3 DEF TInv

LEMMA CheckType ==
  ASSUME TInv, Check
  PROVE  TInv'
<1> USE DEF Check, graph, locals, threads, wakeup, control, pilots
<1>1. Places'
  BY PlacesKept DEF AboutToAct, TInv, Places
<1>2. TypeOK'
  BY DEF TInv, ExecTypeOK, TypeOK
<1>3. problems' \in 0..MaxProblems
  BY ExecutorAssumption DEF TInv, ExecTypeOK
<1>4. pilot' \in [Pilots -> {"idle", "wait", "stop1", "stop2", "steps"}]
  BY DEF PilotsWoken, TInv, ExecTypeOK
<1>5. ExecTypeOK'
  BY <1>2, <1>3, <1>4 DEF TInv, ExecTypeOK
<1> QED BY <1>1, <1>5 DEF TInv

\* The first phase of launchTasks: a task found TOLOAD does not run.
LEMMA ConnectType ==
  ASSUME TInv, ReadToConnect \/ ConnectService \/ AbortCoupled
  PROVE  TInv'
<1> USE DEF graph, locals, threads, wakeup, control, pilots
<1>1. CASE ReadToConnect
  <2>1. Places'
    BY <1>1, PlacesKept DEF ReadToConnect, AboutToAct, TInv, Places, RunningStates
  <2>2. TypeOK' /\ todo' \subseteq Elem /\ cur' \in Elem
    BY <1>1 DEF ReadToConnect, TInv, ExecTypeOK, TypeOK
  <2> QED BY <1>1, <2>1, <2>2 DEF ReadToConnect, TInv, ExecTypeOK
<1>2. CASE ConnectService
  <2>1. cur \in Elem /\ cur \in Nodes /\ cur \notin running
    BY <1>2, Graph DEF ConnectService, AboutToAct, TInv, Places, ExecTypeOK
  <2>2. \A n \in running : state'[n] = state[n]
    <3>1. \E v : state' = [state EXCEPT ![cur] = v]
      BY <1>2 DEF ConnectService, Notify
    <3>2. running \subseteq Nodes
      BY Graph DEF TInv, ExecTypeOK
    <3> QED BY <2>1, <3>1, <3>2 DEF TInv, ExecTypeOK, TypeOK
  <2>3. Places'
    BY <1>2, <2>2, PlacesKept DEF ConnectService, AboutToAct, TInv, Places
  <2>4. TypeOK'
    <3>1. CASE Notify(cur, "ERROR", "ABORT")
      BY <1>2, <2>1, <3>1, NotifyType DEF ConnectService, TInv, ExecTypeOK, State
    <3>2. CASE state' = [state EXCEPT ![cur] = ConnectedState(cur)] /\ UNCHANGED event
      BY <1>2, <2>1, <3>2 DEF ConnectService, ConnectedState, TInv, ExecTypeOK, TypeOK, State
    <3> QED BY <1>2, <3>1, <3>2 DEF ConnectService
  <2> QED BY <1>2, <2>3, <2>4 DEF ConnectService, TInv, ExecTypeOK
<1>3. CASE AbortCoupled
  <2>1. \/ UNCHANGED <<state, event>>
        \/ \E n \in Elem : Notify(n, "ERROR", "ABORT")
    BY <1>3 DEF AbortCoupled, TInv, ExecTypeOK
  <2>2. TypeOK'
    <3>1. CASE UNCHANGED <<state, event>>
      BY <1>3, <3>1 DEF AbortCoupled, TInv, ExecTypeOK, TypeOK
    <3>2. ASSUME NEW n \in Elem, Notify(n, "ERROR", "ABORT") PROVE TypeOK'
      BY <1>3, <3>2, NotifyType DEF AbortCoupled, TInv, ExecTypeOK, State
    <3> QED BY <2>1, <3>1, <3>2
  <2>3. \A n \in running : state'[n] \in RunningStates
    BY <2>1, Graph DEF Notify, TInv, Places, ExecTypeOK, TypeOK, RunningStates
  <2>4. Places'
    BY <1>3, <2>3, PlacesKept DEF AbortCoupled, AboutToAct
  <2> QED BY <1>3, <2>2, <2>4 DEF AbortCoupled, TInv, ExecTypeOK
<1> QED BY <1>1, <1>2, <1>3

\* The second phase: RunB takes a place, then gives it to a thread.
LEMMA LaunchType ==
  ASSUME TInv, ReadToLaunch \/ Acquire \/ Launch
  PROVE  TInv'
<1> USE DEF graph, locals, threads, wakeup, control, pilots
<1>1. CASE ReadToLaunch
  <2>1. Places'
    BY <1>1, PlacesKept DEF ReadToLaunch, AboutToAct, TInv, Places, RunningStates
  <2>2. TypeOK' /\ todo' \subseteq Elem /\ cur' \in Elem
    BY <1>1 DEF ReadToLaunch, TInv, ExecTypeOK, TypeOK
  <2> QED BY <1>1, <2>1, <2>2 DEF ReadToLaunch, TInv, ExecTypeOK
<1>2. CASE Acquire
  <2>1. TypeOK' /\ sem' \in 0..MaxThreads
    BY <1>2, ExecutorAssumption DEF Acquire, TInv, ExecTypeOK, TypeOK
  <2>2. Cardinality(running) \in Nat
    BY FS_CardinalityType DEF TInv, Places
  <2>3. Places'
    BY <1>2, <2>2, ExecutorAssumption
       DEF Acquire, AboutToAct, TInv, ExecTypeOK, Places, PlacesAccounted
  <2> QED BY <1>2, <2>1, <2>3 DEF Acquire, TInv, ExecTypeOK
<1>3. CASE Launch
  <2>1. cur \in Elem /\ cur \in Nodes /\ cur \notin running
    BY <1>3, Graph DEF Launch, AboutToAct, TInv, Places, ExecTypeOK
  <2>2. TypeOK'
    BY <1>3, <2>1 DEF Launch, TInv, ExecTypeOK, TypeOK, State
  <2>3. \A n \in running' : state'[n] \in RunningStates
    BY <1>3, <2>1 DEF Launch, TInv, ExecTypeOK, TypeOK, Places, RunningStates
  <2>4. IsFiniteSet(running') /\ Cardinality(running') = Cardinality(running) + 1
    BY <1>3, <2>1, FS_AddElement DEF Launch, TInv, Places
  <2>5. Cardinality(running) \in Nat
    BY FS_CardinalityType DEF TInv, Places
  <2>6. PlacesAccounted'
    BY <1>3, <2>4, <2>5, ExecutorAssumption
       DEF Launch, TInv, ExecTypeOK, Places, PlacesAccounted
  <2>7. Places'
    BY <1>3, <2>3, <2>4, <2>6 DEF Launch, AboutToAct, Places
  <2> QED BY <1>3, <2>1, <2>2, <2>7 DEF Launch, TInv, ExecTypeOK
<1> QED BY <1>1, <1>2, <1>3

LEMMA LoadTaskType ==
  ASSUME TInv, NEW n \in Elem, LoadTask(n)
  PROVE  TInv'
<1> USE DEF locals, threads, wakeup, control, pilots
<1>1. \/ UNCHANGED <<state, event>>
      \/ Notify(n, state[n], "START")
      \/ Notify(n, "ERROR", "ABORT")
  BY DEF LoadTask
<1>2. TypeOK'
  <2>1. CASE UNCHANGED <<state, event>>
    BY <2>1 DEF LoadTask, TInv, ExecTypeOK, TypeOK
  <2>2. CASE Notify(n, state[n], "START")
    BY <2>2, Graph, NotifyType DEF LoadTask, TInv, ExecTypeOK, TypeOK
  <2>3. CASE Notify(n, "ERROR", "ABORT")
    BY <2>3, NotifyType DEF LoadTask, TInv, ExecTypeOK, State
  <2> QED BY <1>1, <2>1, <2>2, <2>3
<1>3. \A m \in running : state'[m] \in RunningStates
  BY <1>1, Graph DEF Notify, TInv, Places, ExecTypeOK, TypeOK, RunningStates
<1>4. Places'
  BY <1>3 DEF LoadTask, TInv, Places, PlacesAccounted, AboutToAct
<1>5. loader' \in [Elem -> {"none", "read", "start", "load"}]
  <2>1. PICK v \in {"none", "start", "load"} : loader' = [loader EXCEPT ![n] = v]
    BY DEF LoadTask
  <2> QED BY <2>1 DEF TInv, ExecTypeOK
<1>6. ExecTypeOK'
  BY <1>2, <1>5 DEF LoadTask, TInv, ExecTypeOK
<1> QED BY <1>4, <1>6 DEF TInv

\* A thread that ends gives back the one place it had.
LEMMA TaskEndsType ==
  ASSUME TInv, NEW n \in Elem, TaskEnds(n)
  PROVE  TInv'
<1> USE DEF locals, threads, wakeup, control, pilots
<1>1. /\ Notify(n, "DONE", "FINISH") \/ Notify(n, "ERROR", "ABORT")
      /\ n \in running /\ running' = running \ {n} /\ sem' = sem + 1
      /\ UNCHANGED <<gate, unset, tasks, cur>>
  BY DEF TaskEnds
<1>2. TypeOK'
  BY <1>1, NotifyType DEF TInv, ExecTypeOK, State
<1>3. \A m \in running' : state'[m] \in RunningStates
  BY <1>1, Graph DEF Notify, TInv, Places, ExecTypeOK, TypeOK
<1>4. pc' = pc \/ (pc = "waiting" /\ pc' = "woken")
  BY DEF TaskEnds, WakeUp
<1>5. /\ IsFiniteSet(running') /\ Cardinality(running) \in Nat /\ Cardinality(running') \in Nat
      /\ Cardinality(running') = Cardinality(running) - 1
  BY <1>1, FS_RemoveElement, FS_CardinalityType DEF TInv, Places
<1>6. PlacesAccounted' /\ sem' \in 0..MaxThreads
  BY <1>1, <1>4, <1>5, ExecutorAssumption DEF TInv, ExecTypeOK, Places, PlacesAccounted
<1>7. Places'
  BY <1>1, <1>3, <1>4, <1>5, <1>6 DEF TInv, Places, AboutToAct
<1>8. ended' \in Nat /\ isWaiting' \in BOOLEAN
  <2>1. isWaiting' = FALSE \/ isWaiting' = isWaiting
    BY DEF TaskEnds, WakeUp
  <2>2. ended' = ended \/ ended' = ended + 1
    BY DEF TaskEnds, WakeUp
  <2>3. ended' \in Nat
    BY <2>2 DEF TInv, ExecTypeOK
  <2>4. isWaiting' \in BOOLEAN
    BY <2>1 DEF TInv, ExecTypeOK
  <2> QED BY <2>3, <2>4
<1>9. /\ isOKToEnd' \in BOOLEAN
      /\ execMode' \in {"CONTINUE", "STEPBYSTEP", "STOPBEFORENODES"}
  BY DEF TaskEnds, TInv, ExecTypeOK
<1>10. ExecTypeOK'
  BY <1>1, <1>2, <1>4, <1>6, <1>8, <1>9 DEF TaskEnds, TInv, ExecTypeOK
<1> QED BY <1>7, <1>10 DEF TInv

LEMMA PilotType ==
  ASSUME TInv, NEW p \in Pilots, Pilot(p)
  PROVE  TInv'
<1> USE DEF graph, locals, threads, wakeup, control, pilots
<1>1. /\ UNCHANGED <<graph, locals, threads, wakeup, tasksSave>>
      /\ pc' = pc \/ (pc = "paused" /\ pc' = "resumed")
      /\ tasks' \subseteq Elem
      /\ executorState' \in {"RUNNING", executorState}
      /\ isOKToEnd' \in BOOLEAN
      /\ execMode' \in {"CONTINUE", "STEPBYSTEP", "STOPBEFORENODES"}
  BY DEF Pilot, SetExecMode, Resume, StopExecution, ResumeCurrentBreakPoint, WaitPause,
         SetStepsToExecute, SetStepsUnlocked, TInv, ExecTypeOK, TypeOK
<1>2. TypeOK'
  BY <1>1 DEF TInv, ExecTypeOK, TypeOK
<1>3. \/ pilot' = pilot
      \/ \E v \in {"idle", "wait", "stop1", "stop2", "steps"} : pilot' = [pilot EXCEPT ![p] = v]
  BY DEF Pilot, SetExecMode, Resume, StopExecution, WaitPause, SetStepsToExecute,
         SetStepsUnlocked
<1>4. restricted' = restricted \/ \E S \in SUBSET Elem : restricted' = [restricted EXCEPT ![p] = S]
  BY DEF Pilot, SetExecMode, Resume, StopExecution, WaitPause, SetStepsToExecute,
         SetStepsUnlocked
<1>5. ExecTypeOK'
  BY <1>1, <1>2, <1>3, <1>4 DEF TInv, ExecTypeOK
<1>6. Places'
  BY <1>1 DEF TInv, Places, PlacesAccounted, AboutToAct
<1> QED BY <1>5, <1>6 DEF TInv

LEMMA ExecStepInv == TInv /\ [ExecNext]_execVars => TInv'
<1> SUFFICES ASSUME TInv, [ExecNext]_execVars PROVE TInv'
  OBVIOUS
<1>1. CASE RunB
  BY <1>1, StartType, ReadType, SelectType, CheckType, ConnectType, LaunchType DEF RunB
<1>2. CASE SpuriousWakeUp
  BY <1>2, ReadType
<1>3. CASE Climb
  BY <1>3, ClimbType
<1>4. ASSUME NEW n \in Elem, LoadTask(n) \/ TaskEnds(n) PROVE TInv'
  BY <1>4, LoadTaskType, TaskEndsType
<1>5. ASSUME NEW p \in Pilots, Pilot(p) PROVE TInv'
  BY <1>5, PilotType
<1>6. CASE UNCHANGED execVars
  BY <1>6 DEF execVars, graph, locals, threads, wakeup, control, pilots, TInv, ExecTypeOK,
              TypeOK, Places, PlacesAccounted, AboutToAct
<1> QED BY <1>1, <1>2, <1>3, <1>4, <1>5, <1>6 DEF ExecNext

\* Type correctness of the executor, whatever the schema, its coupled tasks,
\* the calls of the pilots and the wake-ups of pthread_cond_wait.
THEOREM ExecutorTypes == ExecSpec => []ExecTypeOK
<1>1. TInv => ExecTypeOK
  BY DEF TInv
<1> QED BY <1>1, ExecInitInv, ExecStepInv, PTL DEF ExecSpec

\* At every moment each place of _semForMaxThreads is free, held by RunB or
\* held by the thread of one task: no more than MaxThreads tasks run.
THEOREM PlacesAlwaysAccounted == ExecSpec => []PlacesAccounted
<1>1. TInv => PlacesAccounted
  BY DEF TInv, Places
<1> QED BY <1>1, ExecInitInv, ExecStepInv, PTL DEF ExecSpec

-----------------------------------------------------------------------------
(* The sleep of RunB                                                       *)

\* A thread that ends wakes RunB up unless the executor is paused, and it is
\* paused only while RunB is in a pause, or on its way to stop.
Awake ==
  /\ pc = "waiting" => isWaiting /\ running # {}
  /\ executorState = "PAUSED" => pc \in {"paused", "stopping"}

LEMMA AwakeStep ==
  ASSUME ~ SpuriousWakeUps, Awake, [ExecNext]_execVars
  PROVE  Awake'
<1> USE DEF graph, locals, threads, wakeup, control, pilots, Awake
<1>1. CASE RunB
  <2>1. CASE Start \/ \E x \in Invalid : StartThrows(x)
    BY <2>1 DEF Start, StartThrows
  <2>2. CASE Sleep
    BY <2>2 DEF Sleep
  <2>3. CASE \/ Woken \/ Select \/ ReadMode \/ Resumed \/ Load \/ Join \/ ReadFailed \/ Acquire
             \/ ReadToConnect \/ ReadToLaunch
    BY <2>3 DEF Woken, Select, ReadMode, Resumed, Load, Join, ReadFailed, Acquire,
                ReadToConnect, ReadToLaunch
  <2>4. CASE CheckBreakPoints \/ Check \/ Stopped
    BY <2>4 DEF CheckBreakPoints, Check, Stopped
  <2>5. CASE ConnectService \/ AbortCoupled \/ Launch
    BY <2>5 DEF ConnectService, AbortCoupled, Launch
  <2> QED BY <1>1, <2>1, <2>2, <2>3, <2>4, <2>5 DEF RunB
<1>2. CASE SpuriousWakeUp
  BY <1>2 DEF SpuriousWakeUp
<1>3. CASE Climb
  BY <1>3 DEF Climb
<1>4. ASSUME NEW n \in Elem, LoadTask(n) PROVE Awake'
  BY <1>4 DEF LoadTask
<1>5. ASSUME NEW n \in Elem, TaskEnds(n) PROVE Awake'
  <2>1. executorState' = executorState
    BY <1>5 DEF TaskEnds
  <2>2. CASE executorState = "PAUSED"
    <3>1. pc' = pc /\ pc # "waiting"
      BY <1>5, <2>2 DEF TaskEnds
    <3> QED BY <2>1, <3>1
  <2>3. CASE executorState # "PAUSED"
    <3>1. WakeUp
      BY <1>5, <2>3 DEF TaskEnds
    <3>2. pc' # "waiting"
      BY <3>1 DEF WakeUp
    <3> QED BY <2>1, <2>3, <3>2
  <2> QED BY <2>2, <2>3
<1>6. ASSUME NEW p \in Pilots, Pilot(p) PROVE Awake'
  BY <1>6 DEF Pilot, SetExecMode, Resume, StopExecution, ResumeCurrentBreakPoint,
              WaitPause, SetStepsToExecute, SetStepsUnlocked
<1>7. CASE UNCHANGED execVars
  BY <1>7 DEF execVars
<1> QED BY <1>1, <1>2, <1>3, <1>4, <1>5, <1>6, <1>7 DEF ExecNext

\* When pthread_cond_wait returns only once it is signalled, RunB sleeps only
\* beside a task that will wake it up, whatever the pilots do meanwhile.
THEOREM NoWakeUpIsLost ==
  ASSUME ~ SpuriousWakeUps
  PROVE  ExecSpec => []NoLostWakeUp
<1>1. ExecInit => Awake
  BY DEF ExecInit, Awake
<1>2. Awake /\ [ExecNext]_execVars => Awake'
  BY AwakeStep
<1>3. Awake => NoLostWakeUp
  BY DEF Awake, NoLostWakeUp
<1> QED BY <1>1, <1>2, <1>3, PTL DEF ExecSpec

-----------------------------------------------------------------------------
(* Executor implements Scheduler: whatever the interleaving of RunB, the   *)
(* load threads, the task threads, the events that climb and the pilots,   *)
(* every call is one Scheduler allows, in an order it allows.              *)
(*                                                                         *)
(* It supposes that no pilot calls setStepsToExecute, whose second write   *)
(* of _tasks may come in another round, and that no two nodes are coupled  *)
(* by a chain of links only: when the node between is disabled, those at   *)
(* the ends are not loaded together, and one may be aborted as it runs.    *)

NoChains == \A n \in Elem : CoupledSet[n] \ {n} \subseteq Coupled(n)

Connecting == {"connect", "connecting", "failed", "coupled"}
Launching  == {"launch", "acquire", "begin"}
Broken     == {"ERROR", "FAILED", "INTERNALERR"}

\* Nodes coupled to one another are loaded together: what a task is coupled to
\* is a task as well, as long as it is to be loaded.
CoupledInv ==
  \A x \in Elem : \A y \in Coupled(x) :
    /\ state[x] = "READY"  => state[y] \in {"READY", "DISABLED"} \cup Broken
    /\ state[x] = "TOLOAD" => state[y] \notin {"ACTIVATED", "DONE"}
    /\ y \in tasks => /\ state[x] # "READY"
                      /\ state[x] = "TOLOAD" => x \in tasks

\* RunB connects all the tasks before it launches any.
TasksInv ==
  /\ \A n \in tasks : state[n] # "READY"
  /\ pc \in Connecting \cup Launching => todo \subseteq tasks
  /\ pc \in Connecting => \A n \in tasks : state[n] = "TOLOAD" => n \in todo
  /\ pc \in Launching  => \A n \in tasks : state[n] # "TOLOAD"

\* A thread that has seen its task TOLOAD may see it fail, and no more.
LoadInv ==
  \A n \in Elem :
    /\ loader[n] # "none" => pc = "join" /\ n \in tasks
    /\ loader[n] \in {"start", "load"} => state[n] \in {"TOLOAD", "FAILED", "INTERNALERR"}

\* What has become of the task RunB is busy with since it looked at its state.
CurInv ==
  /\ pc = "connecting" => cur \in todo /\ state[cur] \in {"TOLOAD", "FAILED", "INTERNALERR"}
  /\ pc \in {"failed", "coupled"} => cur \in tasks /\ state[cur] \in Broken
  /\ pc \in {"connecting", "failed", "coupled"} =>
       \A y \in Coupled(cur) : state[y] \notin {"ACTIVATED", "DONE"}
  /\ pc = "coupled" => coupledTodo \subseteq CoupledSet[cur] \ {cur}
  /\ pc \in {"acquire", "begin"} => cur \in todo /\ state[cur] = "TOACTIVATE"

NoSteps == \A p \in Pilots : pilot[p] # "steps"

XInv == RunningAreActivated /\ CoupledInv /\ TasksInv /\ LoadInv /\ CurInv /\ NoSteps
SInv == TInv /\ IInv /\ XInv

-----------------------------------------------------------------------------
(* More of what the engine does to the elementary nodes                    *)

LEMMA CoupledBoth ==
  ASSUME NEW x \in Elem, NEW y \in Coupled(x)
  PROVE  y \in Elem /\ x \in Coupled(y) /\ Enclosing[y] = Enclosing[x]
<1>1. y \in Elem /\ x \in Coupled(y) /\ Father[x] = Father[y]
  BY GraphAssumption DEF Coupled
<1> QED BY <1>1, EnclosingStep, Graph

\* ensureLoading takes the READY nodes coupled to a node along with it.
LEMMA LoadedTogether ==
  ASSUME NEW st, NEW W \in SUBSET Nodes, NEW x \in Elem, NEW y \in Coupled(x),
         st[x] = "READY", st[y] = "READY", Updated(st, W)[y] = "TOLOAD"
  PROVE  Updated(st, W)[x] = "TOLOAD"
<1> DEFINE R == {n \in W \cap Elem : st[n] = "READY"}
<1>1. /\ y \in Elem /\ x \in Coupled(y) /\ x \in Nodes /\ y \in Nodes
      /\ x \notin Blocs /\ y \notin Blocs
  BY CoupledBoth, Graph, GraphAssumption
<1>2. y \in LoadedWith(st, R)
  BY <1>1 DEF Updated
<1>3. x \in LoadedWith(st, R)
  BY <1>1, <1>2 DEF LoadedWith
<1> QED BY <1>1, <1>3 DEF Updated

LEMMA EngineTogether ==
  ASSUME TypeOK, NEW x \in Elem, NEW y \in Coupled(x),
         state[x] = "READY", state[y] = "READY", state'[y] = "TOLOAD",
         \/ StartSchema
         \/ \E z \in Invalid : StartSchemaThrows(z)
         \/ UpdateStateFrom
  PROVE  state'[x] # "READY"
<1>1. PICK W \in SUBSET Nodes : \A n \in Elem :
        state'[n] = Updated(state, W)[n] \/ state'[n] \in {"FAILED", "INTERNALERR"}
  BY EngineForm
<1>2. y \in Elem
  BY CoupledBoth
<1>3. Updated(state, W)[y] = "TOLOAD"
  BY <1>1, <1>2
<1>4. Updated(state, W)[x] = "TOLOAD"
  BY <1>3, LoadedTogether
<1> QED BY <1>1, <1>4

\* A running task is left alone.
LEMMA EngineRunning ==
  ASSUME IInv, NEW n \in Elem,
         \/ StartSchema
         \/ \E x \in Invalid : StartSchemaThrows(x)
         \/ UpdateStateFrom
  PROVE  state'[n] = "ACTIVATED" <=> state[n] = "ACTIVATED"
<1>1. Sound
  BY NextKeeps DEF Next
<1> QED BY <1>1, EngineSteps DEF Sound, IInv

\* So is a task that is going to run: nothing it waits for can fail any more.
LEMMA EngineLaunched ==
  ASSUME IInv, NEW n \in tasks, state[n] = "TOACTIVATE", UpdateStateFrom
  PROVE  state'[n] = "TOACTIVATE"
<1>0. n \in Elem /\ n \in Nodes /\ n \in Children /\ n \notin Blocs /\ Inside(n)
  BY Graph, GraphAssumption DEF IInv, TypeOK, Parts, RunInside
<1> DEFINE m == event.from
<1>1. ASSUME event.kind \in {"FINISH", "ABORT"}
      PROVE  /\ m \in Children /\ m \in Nodes /\ Father[m] \in Blocs
             /\ \A l \in gate : l[1] # m
             /\ n \notin Downstream[m]
  <2>1. m \in Children /\ m \in Nodes /\ Father[m] \in Blocs
    BY <1>1, EventFather
  <2>2. \A l \in gate : l[1] # m
    <3>1. event # NoEvent
      BY <1>1, KindIsAnEvent DEF IInv, TypeOK
    <3>2. CASE event.kind = "FINISH"
      BY <3>1, <3>2 DEF IInv, EventTrue
    <3>3. CASE event.kind = "ABORT"
      <4>1. state[m] # "DONE"
        BY <3>1, <3>3 DEF IInv, EventTrue
      <4> QED BY <2>1, <4>1, NotDoneClosed DEF IInv
    <3> QED BY <1>1, <3>2, <3>3
  <2> QED BY <2>1, <2>2, ClosedDownstream DEF IInv
<1>2. CASE OnStartEvent
  <2>1. Father[m] \in Blocs
    BY <1>2, KindIsAnEvent DEF OnStartEvent, IInv, TypeOK
  <2> QED BY <1>0, <1>2, <2>1 DEF OnStartEvent, IInv, TypeOK
<1>3. CASE OnLastFinished
  BY <1>0, <1>1, <1>3 DEF OnLastFinished, Finish, IInv, TypeOK
<1>4. CASE OnFinished
  <2>1. m \in Children
    BY <1>1, <1>4 DEF OnFinished
  <2> QED BY <1>0, <1>4, <2>1, ReachedNodes, UpdatedNode DEF OnFinished, IInv, TypeOK
<1>5. ASSUME NEW x \in Invalid, OnFinishedThrows(x) PROVE state'[n] = "TOACTIVATE"
  <2>1. /\ m \in Children /\ m \in Nodes /\ Father[m] \in Blocs /\ n \notin Downstream[m]
        /\ \A l \in gate : l[1] # m
    BY <1>1, <1>5 DEF OnFinishedThrows
  <2>2. PICK P \in VisitedBefore(Reached(m), x) :
          state' = [FailedAfter([Updated(state, P) EXCEPT ![x] = "INTERNALERR"], m)
                      EXCEPT ![Father[m]] = "FAILED"]
    BY <1>5 DEF OnFinishedThrows
  <2>3. P \in SUBSET Nodes
    BY <2>1, <2>2, ReachedNodes DEF VisitedBefore
  <2>4. Updated(state, P) \in [Nodes -> State]
    BY <2>3, UpdatedType DEF IInv, TypeOK
  <2>5. n # x
    <3>1. PICK o \in Opened(m) : x \in Entered[o]
      BY <1>5 DEF OnFinishedThrows, Reached
    <3>2. o \in Children \ InitiallyDisabled /\ o \in Nodes /\ o \in Successors(m)
      BY <3>1, Graph DEF Opened, Successors
    <3>3. ~ GateReady(gate, o)
      BY <2>1, <3>2 DEF GateReady, Precursors, Successors
    <3>4. state[o] # "TOACTIVATE"
      BY <3>2, <3>3 DEF IInv, Parts, GatesOpen
    <3>5. o \notin Enclosing[n]
      BY <1>0, <3>3 DEF Inside
    <3> QED BY <3>1, <3>2, <3>4, <3>5, EnteredInside
  <2>6. state'[n] = Updated(state, P)[n]
    BY <1>0, <2>1, <2>2, <2>4, <2>5 DEF FailedAfter
  <2> QED BY <1>0, <2>3, <2>6, UpdatedNode DEF IInv, TypeOK
<1>6. CASE OnFailed
  <2>1. Father[m] \in Blocs /\ n \notin Downstream[m]
    BY <1>1, <1>6 DEF OnFailed
  <2> QED BY <1>0, <1>6, <2>1 DEF OnFailed, Finish, FailedAfter, IInv, TypeOK
<1> QED BY <1>2, <1>3, <1>4, <1>5, <1>6 DEF UpdateStateFrom

-----------------------------------------------------------------------------
(* The invariant                                                           *)

LEMMA TInvTypes ==
  ASSUME TInv
  PROVE  /\ TypeOK /\ ExecTypeOK
         /\ tasks \subseteq Elem /\ todo \subseteq Elem /\ cur \in Elem /\ cur \in Nodes
         /\ state \in [Nodes -> State] /\ DOMAIN state = Nodes
         /\ loader \in [Elem -> {"none", "read", "start", "load"}]
         /\ \A n \in Elem : n \in Nodes /\ n \notin Blocs
BY Graph, GraphAssumption DEF TInv, ExecTypeOK, TypeOK

LEMMA SInvTypes ==
  ASSUME SInv
  PROVE  /\ TypeOK /\ ExecTypeOK
         /\ tasks \subseteq Elem /\ todo \subseteq Elem /\ cur \in Elem /\ cur \in Nodes
         /\ state \in [Nodes -> State] /\ DOMAIN state = Nodes
         /\ loader \in [Elem -> {"none", "read", "start", "load"}]
         /\ \A n \in Elem : n \in Nodes /\ n \notin Blocs
BY TInvTypes DEF SInv

LEMMA InitX == ExecInit => XInv
<1> SUFFICES ASSUME ExecInit PROVE XInv
  OBVIOUS
<1>1. \A n \in Elem : state[n] \in {"READY", "DISABLED"}
  BY Graph DEF ExecInit, Init
<1>2. /\ tasks = {} /\ running = {} /\ pc = "start" /\ \A n \in Elem : loader[n] = "none"
      /\ NoSteps
  BY DEF ExecInit, Init, NoSteps
<1>3. CoupledInv
  BY <1>1, <1>2, CoupledBoth DEF CoupledInv
<1>4. RunningAreActivated
  BY <1>1, <1>2 DEF RunningAreActivated
<1> QED BY <1>1, <1>2, <1>3, <1>4
        DEF XInv, TasksInv, LoadInv, CurInv, Connecting, Launching

\* The engine: exUpdateState when RunB starts, updateStateFrom.
LEMMA EngineX ==
  ASSUME SInv,
         \/ Start \/ (\E x \in Invalid : StartThrows(x))
         \/ Climb
  PROVE  XInv'
<1> USE DEF locals, threads, wakeup, control, pilots
<1>0. /\ UNCHANGED <<tasks, todo, cur, coupledTodo, loader, running, pilot>>
      /\ \/ StartSchema
         \/ \E x \in Invalid : StartSchemaThrows(x)
         \/ UpdateStateFrom
      /\ \/ pc' = pc
         \/ pc' \in {"sleep", "end"} /\ pc = "start"
      /\ pc' \in {"acquire", "begin"} => UpdateStateFrom
  BY DEF Start, StartThrows, Climb, StartSchema, StartSchemaThrows, UpdateStateFrom,
         OnStartEvent, OnLastFinished, OnFinished, OnFinishedThrows, OnFailed
<1>1. \A n \in Elem : state'[n] = "ACTIVATED" <=> state[n] = "ACTIVATED"
  BY <1>0, EngineRunning DEF SInv
<1>2. \A n \in Elem : \/ state'[n] = state[n]
                      \/ state'[n] \in {"FAILED", "INTERNALERR"}
                      \/ state[n] = "READY" /\ state'[n] = "TOLOAD"
                      \/ state[n] = "LOADED" /\ state'[n] = "TOACTIVATE"
  BY <1>0, EngineSteps, SInvTypes
<1>3. RunningAreActivated'
  BY <1>0, <1>1 DEF SInv, XInv, RunningAreActivated
<1>4. CoupledInv'
  <2> SUFFICES ASSUME NEW x \in Elem, NEW y \in Coupled(x)
               PROVE  /\ state'[x] = "READY"  => state'[y] \in {"READY", "DISABLED"} \cup Broken
                      /\ state'[x] = "TOLOAD" => state'[y] \notin {"ACTIVATED", "DONE"}
                      /\ y \in tasks' => /\ state'[x] # "READY"
                                         /\ state'[x] = "TOLOAD" => x \in tasks'
    BY DEF CoupledInv
  <2>1. y \in Elem
    BY CoupledBoth
  <2>2. /\ state[x] = "READY"  => state[y] \in {"READY", "DISABLED"} \cup Broken
        /\ state[x] = "TOLOAD" => state[y] \notin {"ACTIVATED", "DONE"}
        /\ y \in tasks => /\ state[x] # "READY"
                          /\ state[x] = "TOLOAD" => x \in tasks
    BY DEF SInv, XInv, CoupledInv
  <2>3. state'[x] = "READY" /\ state[y] = "READY" => state'[y] # "TOLOAD"
    BY <1>0, <1>2, EngineTogether, SInvTypes
  <2> QED BY <1>0, <1>2, <2>1, <2>2, <2>3 DEF Broken
<1>5. TasksInv'
  BY <1>0, <1>2, SInvTypes DEF SInv, XInv, TasksInv, Connecting, Launching
<1>6. LoadInv'
  BY <1>0, <1>2 DEF SInv, XInv, LoadInv
<1>7. CurInv'
  <2>1. pc' \in {"connecting", "failed", "coupled", "acquire", "begin"} => pc' = pc
    BY <1>0
  <2>2. \A y \in Coupled(cur) : y \in Elem
    BY CoupledBoth, SInvTypes
  <2>3. pc' \in {"acquire", "begin"} => state'[cur] = "TOACTIVATE"
    BY <1>0, <2>1, EngineLaunched DEF SInv, XInv, CurInv, TasksInv, Launching
  <2>4. \A n \in Elem : state[n] \in Broken => state'[n] \in Broken
    BY <1>2 DEF Broken
  <2> QED BY <1>0, <1>2, <2>1, <2>2, <2>3, <2>4, SInvTypes DEF SInv, XInv, CurInv
<1> QED BY <1>0, <1>3, <1>4, <1>5, <1>6, <1>7 DEF SInv, XInv, NoSteps

\* Steps that neither change the state of a node nor the tasks.
LEMMA SteadyX ==
  ASSUME SInv, UNCHANGED <<state, tasks, running>>
  PROVE  RunningAreActivated' /\ CoupledInv'
BY DEF SInv, XInv, RunningAreActivated, CoupledInv

LEMMA ReadX ==
  ASSUME SInv, \/ Sleep \/ SpuriousWakeUp \/ Woken \/ ReadMode \/ CheckBreakPoints \/ Resumed
               \/ Load \/ Join \/ Check \/ Stopped
  PROVE  XInv'
<1> USE DEF graph, locals, threads, wakeup, control, pilots
<1>1. UNCHANGED <<state, tasks, running, cur, coupledTodo>> /\ NoSteps'
  <2>1. UNCHANGED <<state, tasks, running, cur, coupledTodo>>
    BY DEF Sleep, SpuriousWakeUp, Woken, ReadMode, CheckBreakPoints, Resumed, Load, Join,
           Check, Stopped
  <2>2. pilot' = pilot \/ pilot' = PilotsWoken
    BY DEF Sleep, SpuriousWakeUp, Woken, ReadMode, CheckBreakPoints, Resumed, Load, Join,
           Check, Stopped
  <2> QED BY <2>1, <2>2 DEF SInv, XInv, NoSteps, PilotsWoken
<1>2. pc' \notin Launching /\ pc' \notin {"connecting", "failed", "coupled"} /\ pc # "connect"
  BY DEF Sleep, SpuriousWakeUp, Woken, ReadMode, CheckBreakPoints, Resumed, Load, Join,
         Check, Stopped, Launching
<1>3. pc' = "connect" => todo' = tasks
  BY DEF Sleep, SpuriousWakeUp, Woken, ReadMode, CheckBreakPoints, Resumed, Load, Join,
         Check, Stopped
<1>4. TasksInv' /\ CurInv'
  BY <1>1, <1>2, <1>3 DEF TasksInv, CurInv, Connecting, Launching, SInv, XInv
<1>5. LoadInv'
  <2>1. CASE Load
    BY <2>1, <1>1 DEF Load, LoadInv
  <2>2. CASE ~ Load
    <3>1. loader' = loader /\ (pc = "join" => \A n \in Elem : loader[n] = "none")
      BY <2>2 DEF Sleep, SpuriousWakeUp, Woken, ReadMode, CheckBreakPoints, Resumed, Join,
                  Check, Stopped
    <3> QED BY <1>1, <3>1 DEF SInv, XInv, LoadInv
  <2> QED BY <2>1, <2>2
<1> QED BY <1>1, <1>4, <1>5, SteadyX DEF XInv

LEMMA SelectX ==
  ASSUME SInv, Select
  PROVE  XInv'
<1> USE DEF locals, threads, wakeup, control, pilots
<1>1. /\ UNCHANGED <<state, running, loader, pilot>> /\ tasks' = ReadyTasks
      /\ pc = "select" /\ pc' = "mode"
  BY DEF Select, GetNextTasks
<1>2. \A n \in Elem : loader[n] = "none"
  BY <1>1, SInvTypes DEF SInv, XInv, LoadInv
<1>3. \A n \in ReadyTasks : n \in Elem /\ state[n] \in {"TOACTIVATE", "TOLOAD"}
  BY DEF ReadyTasks
<1>4. CoupledInv'
  <2> SUFFICES ASSUME NEW x \in Elem, NEW y \in Coupled(x), y \in ReadyTasks
               PROVE  /\ state[x] # "READY"
                      /\ state[x] = "TOLOAD" => x \in ReadyTasks
    BY <1>1 DEF SInv, XInv, CoupledInv
  <2>1. y \in Elem /\ x \in Coupled(y) /\ Enclosing[y] = Enclosing[x]
    BY CoupledBoth
  <2>2. state[x] # "READY"
    BY <1>3, <2>1 DEF SInv, XInv, CoupledInv, Broken
  <2>3. state[x] = "TOLOAD" => x \in ReadyTasks
    BY <2>1 DEF ReadyTasks
  <2> QED BY <2>2, <2>3
<1> QED BY <1>1, <1>2, <1>3, <1>4
        DEF SInv, XInv, RunningAreActivated, TasksInv, LoadInv, CurInv, NoSteps, Connecting,
            Launching

LEMMA ReadToConnectX ==
  ASSUME SInv, ReadToConnect
  PROVE  XInv'
<1> USE DEF graph, threads, wakeup, control, pilots
<1>1. /\ UNCHANGED <<state, tasks, running, loader, pilot, coupledTodo>> /\ pc = "connect"
  BY DEF ReadToConnect
<1>2. CASE todo = {} /\ todo' = tasks /\ pc' = "launch"
  BY <1>1, <1>2, SteadyX
     DEF SInv, XInv, TasksInv, LoadInv, CurInv, NoSteps, Connecting, Launching
<1>3. ASSUME NEW n \in todo, state[n] = "TOLOAD", cur' = n, pc' = "connecting", todo' = todo
      PROVE  XInv'
  <2>1. n \in Elem /\ \A y \in Coupled(n) : state[y] \notin {"ACTIVATED", "DONE"}
    BY <1>3, SInvTypes DEF SInv, XInv, CoupledInv
  <2>2. CurInv'
    BY <1>1, <1>3, <2>1 DEF CurInv
  <2> QED BY <1>1, <1>3, <2>2, SteadyX
          DEF SInv, XInv, TasksInv, LoadInv, NoSteps, Connecting, Launching
<1>4. ASSUME NEW n \in todo, state[n] # "TOLOAD", todo' = todo \ {n}, pc' = pc
      PROVE  XInv'
  BY <1>1, <1>4, SteadyX
     DEF SInv, XInv, TasksInv, LoadInv, CurInv, NoSteps, Connecting, Launching
<1> QED BY <1>2, <1>3, <1>4 DEF ReadToConnect

LEMMA ReadFailedX ==
  ASSUME SInv, ReadFailed
  PROVE  XInv'
BY SteadyX DEF ReadFailed, graph, threads, wakeup, control, pilots, SInv, XInv, TasksInv,
               LoadInv, CurInv, NoSteps, Connecting, Launching

LEMMA ReadToLaunchX ==
  ASSUME SInv, ReadToLaunch \/ Acquire
  PROVE  XInv'
BY SteadyX DEF ReadToLaunch, Acquire, graph, locals, threads, wakeup, control, pilots, SInv,
               XInv, TasksInv, LoadInv, CurInv, NoSteps, Connecting, Launching

\* A step that puts one node that does not run in a state in which it does not
\* run either, and leaves the tasks and the threads as they are.
LEMMA OneNodeX ==
  ASSUME SInv, NEW n \in Elem, NEW v, state' = [state EXCEPT ![n] = v],
         UNCHANGED <<tasks, running>>,
         state[n] \notin {"ACTIVATED", "DONE"},
         v \in Broken \/ (v \in {"LOADED", "TOACTIVATE"} /\ n \in tasks)
  PROVE  /\ \A m \in Elem : state'[m] = IF m = n THEN v ELSE state[m]
         /\ RunningAreActivated' /\ CoupledInv'
<1>1. \A m \in Elem : state'[m] = IF m = n THEN v ELSE state[m]
  BY SInvTypes
<1>2. RunningAreActivated'
  BY <1>1 DEF SInv, XInv, RunningAreActivated, Broken
<1>3. CoupledInv'
  <2> SUFFICES ASSUME NEW x \in Elem, NEW y \in Coupled(x)
               PROVE  /\ state'[x] = "READY"  => state'[y] \in {"READY", "DISABLED"} \cup Broken
                      /\ state'[x] = "TOLOAD" => state'[y] \notin {"ACTIVATED", "DONE"}
                      /\ y \in tasks => /\ state'[x] # "READY"
                                        /\ state'[x] = "TOLOAD" => x \in tasks
    BY DEF CoupledInv
  <2>1. y \in Elem
    BY CoupledBoth
  <2> QED BY <1>1, <2>1, SInvTypes DEF SInv, XInv, CoupledInv, Broken, State
<1> QED BY <1>1, <1>2, <1>3

LEMMA ConnectServiceX ==
  ASSUME SInv, ConnectService
  PROVE  XInv'
<1> USE DEF threads, wakeup, control, pilots
<1>1. /\ UNCHANGED <<tasks, running, loader, pilot, cur, coupledTodo>> /\ pc = "connecting"
      /\ cur \in todo /\ cur \in Elem /\ cur \in tasks
      /\ state[cur] \in {"TOLOAD", "FAILED", "INTERNALERR"}
      /\ \A y \in Coupled(cur) : state[y] \notin {"ACTIVATED", "DONE"}
  BY SInvTypes DEF ConnectService, SInv, XInv, CurInv, TasksInv, Connecting
<1>2. \A n \in Elem : loader[n] = "none"
  BY <1>1, SInvTypes DEF SInv, XInv, LoadInv
<1>3. PICK v \in {"LOADED", "TOACTIVATE", "ERROR"} :
        /\ state' = [state EXCEPT ![cur] = v]
        /\ v # "ERROR" => pc' = "connect" /\ todo' = todo \ {cur}
        /\ v = "ERROR" => pc' = "failed" /\ todo' = todo
  BY DEF ConnectService, ConnectedState, Notify
<1>4. /\ \A m \in Elem : state'[m] = IF m = cur THEN v ELSE state[m]
      /\ RunningAreActivated' /\ CoupledInv'
  BY <1>1, <1>3, OneNodeX DEF Broken
<1>5. TasksInv'
  BY <1>1, <1>3, <1>4, SInvTypes DEF SInv, XInv, TasksInv, Connecting, Launching
<1>6. CurInv'
  <2>1. \A y \in Coupled(cur) : y \in Elem
    BY <1>1, CoupledBoth
  <2> QED BY <1>1, <1>3, <1>4, <2>1 DEF CurInv, Broken
<1> QED BY <1>1, <1>2, <1>4, <1>5, <1>6 DEF SInv, XInv, LoadInv, NoSteps

LEMMA AbortCoupledX ==
  ASSUME NoChains, SInv, AbortCoupled
  PROVE  XInv'
<1> USE DEF threads, wakeup, control, pilots
<1>1. /\ UNCHANGED <<tasks, running, loader, pilot, cur>> /\ pc = "coupled"
      /\ cur \in tasks /\ cur \in Elem /\ state[cur] \in Broken
      /\ \A y \in Coupled(cur) : state[y] \notin {"ACTIVATED", "DONE"}
      /\ coupledTodo \subseteq Coupled(cur)
      /\ coupledTodo \subseteq CoupledSet[cur] \ {cur}
  BY SInvTypes DEF AbortCoupled, SInv, XInv, CurInv, NoChains
<1>2. \A n \in Elem : loader[n] = "none"
  BY <1>1, SInvTypes DEF SInv, XInv, LoadInv
<1>3. CASE /\ todo' = todo \ {cur} /\ pc' = "connect" /\ UNCHANGED <<coupledTodo, state>>
  <2>1. state[cur] # "TOLOAD"
    BY <1>1 DEF Broken
  <2> QED BY <1>1, <1>2, <1>3, <2>1, SteadyX
          DEF SInv, XInv, TasksInv, LoadInv, CurInv, NoSteps, Connecting, Launching
<1>4. ASSUME NEW n \in coupledTodo, coupledTodo' = coupledTodo \ {n}, UNCHANGED <<todo, pc>>,
             UNCHANGED state \/ state' = [state EXCEPT ![n] = "ERROR"]
      PROVE  XInv'
  <2>1. n \in Elem /\ n # cur /\ state[n] \notin {"ACTIVATED", "DONE"}
    BY <1>1, CoupledBoth
  <2>2. /\ \A m \in Elem : state'[m] = state[m] \/ (m = n /\ state'[m] = "ERROR")
        /\ RunningAreActivated' /\ CoupledInv'
    <3>1. CASE UNCHANGED state
      BY <1>1, <3>1, SteadyX
    <3>2. CASE state' = [state EXCEPT ![n] = "ERROR"]
      <4>1. "ERROR" \in Broken
        BY DEF Broken
      <4>2. /\ \A m \in Elem : state'[m] = IF m = n THEN "ERROR" ELSE state[m]
            /\ RunningAreActivated' /\ CoupledInv'
        BY <1>1, <2>1, <3>2, <4>1, OneNodeX
      <4> QED BY <4>2
    <3> QED BY <1>4, <3>1, <3>2
  <2>3. TasksInv'
    BY <1>1, <1>4, <2>2, SInvTypes DEF SInv, XInv, TasksInv, Connecting, Launching
  <2>4. CurInv'
    <3>1. \A y \in Coupled(cur) : y \in Elem
      BY <1>1, CoupledBoth
    <3> QED BY <1>1, <1>4, <2>1, <2>2, <3>1 DEF CurInv
  <2> QED BY <1>1, <1>2, <2>2, <2>3, <2>4 DEF SInv, XInv, LoadInv, NoSteps
<1> QED BY <1>3, <1>4 DEF AbortCoupled, Notify

\* When RunB launches a task, the tasks coupled to it are loaded.
LEMMA LaunchX ==
  ASSUME SInv, Launch
  PROVE  XInv'
<1> USE DEF threads, wakeup, control, pilots
<1>1. /\ UNCHANGED <<tasks, loader, pilot, cur, coupledTodo>> /\ pc = "begin" /\ pc' = "launch"
      /\ cur \in todo /\ cur \in Elem /\ cur \in tasks /\ state[cur] = "TOACTIVATE"
      /\ state' = [state EXCEPT ![cur] = "ACTIVATED"]
      /\ running' = running \cup {cur} /\ todo' = todo \ {cur}
  BY SInvTypes DEF Launch, SInv, XInv, CurInv, TasksInv, Launching
<1>2. \A m \in Elem : state'[m] = IF m = cur THEN "ACTIVATED" ELSE state[m]
  BY <1>1, SInvTypes
<1>3. \A n \in Elem : loader[n] = "none"
  BY <1>1, SInvTypes DEF SInv, XInv, LoadInv
<1>4. RunningAreActivated'
  BY <1>1, <1>2 DEF SInv, XInv, RunningAreActivated
<1>5. CoupledInv'
  <2> SUFFICES ASSUME NEW x \in Elem, NEW y \in Coupled(x)
               PROVE  /\ state'[x] = "READY"  => state'[y] \in {"READY", "DISABLED"} \cup Broken
                      /\ state'[x] = "TOLOAD" => state'[y] \notin {"ACTIVATED", "DONE"}
                      /\ y \in tasks => /\ state'[x] # "READY"
                                        /\ state'[x] = "TOLOAD" => x \in tasks
    BY <1>1 DEF CoupledInv
  <2>1. y \in Elem
    BY CoupledBoth
  <2>2. y = cur => state[x] \notin {"READY", "TOLOAD"}
    BY <1>1 DEF SInv, XInv, CoupledInv, TasksInv, Launching
  <2> QED BY <1>2, <2>1, <2>2 DEF SInv, XInv, CoupledInv
<1>6. TasksInv'
  BY <1>1, <1>2, SInvTypes DEF SInv, XInv, TasksInv, Connecting, Launching
<1> QED BY <1>1, <1>3, <1>4, <1>5, <1>6 DEF SInv, XInv, LoadInv, CurInv, NoSteps

LEMMA LoadTaskX ==
  ASSUME SInv, NEW n \in Elem, LoadTask(n)
  PROVE  XInv'
<1> USE DEF locals, wakeup, control, pilots
<1>1. /\ UNCHANGED <<tasks, running, pilot, cur, todo, coupledTodo, pc>>
      /\ loader[n] # "none" /\ pc = "join" /\ n \in tasks
      /\ \E v \in {"none", "start", "load"} :
           /\ loader' = [loader EXCEPT ![n] = v]
           /\ v # "none" => state' = state /\ state[n] \in {"TOLOAD", "FAILED", "INTERNALERR"}
      /\ \/ state' = state
         \/ state' = [state EXCEPT ![n] = "ERROR"] /\ state[n] \notin {"ACTIVATED", "DONE"}
  <2>1. CASE loader[n] = "start"
    <3>1. state' = state
      BY <2>1, SInvTypes DEF LoadTask, Notify
    <3> QED BY <2>1, <3>1 DEF LoadTask, SInv, XInv, LoadInv
  <2>2. CASE loader[n] # "start"
    BY <2>2 DEF LoadTask, Notify, SInv, XInv, LoadInv
  <2> QED BY <2>1, <2>2
<1>2. /\ \A m \in Elem : state'[m] = state[m] \/ (m = n /\ state'[m] = "ERROR")
      /\ RunningAreActivated' /\ CoupledInv'
  <2>1. CASE state' = state
    BY <1>1, <2>1, SteadyX
  <2>2. CASE state' = [state EXCEPT ![n] = "ERROR"] /\ state[n] \notin {"ACTIVATED", "DONE"}
    <3>1. "ERROR" \in Broken
      BY DEF Broken
    <3>2. /\ \A m \in Elem : state'[m] = IF m = n THEN "ERROR" ELSE state[m]
          /\ RunningAreActivated' /\ CoupledInv'
      BY <1>1, <2>2, <3>1, OneNodeX
    <3> QED BY <3>2
  <2> QED BY <1>1, <2>1, <2>2
<1>3. TasksInv'
  BY <1>1, <1>2, SInvTypes DEF SInv, XInv, TasksInv, Connecting, Launching
<1>4. LoadInv'
  <2> SUFFICES ASSUME NEW m \in Elem
               PROVE  /\ loader'[m] # "none" => pc' = "join" /\ m \in tasks'
                      /\ loader'[m] \in {"start", "load"} =>
                           state'[m] \in {"TOLOAD", "FAILED", "INTERNALERR"}
    BY DEF LoadInv
  <2>1. CASE m = n
    BY <1>1, <2>1, SInvTypes
  <2>2. CASE m # n
    <3>1. loader'[m] = loader[m] /\ state'[m] = state[m]
      BY <1>1, <1>2, <2>2, SInvTypes
    <3> QED BY <1>1, <3>1 DEF SInv, XInv, LoadInv
  <2> QED BY <2>1, <2>2
<1> QED BY <1>1, <1>2, <1>3, <1>4 DEF SInv, XInv, CurInv, NoSteps

LEMMA TaskEndsX ==
  ASSUME SInv, NEW n \in Elem, TaskEnds(n)
  PROVE  XInv'
<1> USE DEF locals, pilots
<1>1. /\ UNCHANGED <<tasks, loader, pilot, cur, todo, coupledTodo>>
      /\ n \in running /\ state[n] = "ACTIVATED" /\ running' = running \ {n}
      /\ pc' = pc \/ (pc = "waiting" /\ pc' = "woken")
  BY DEF TaskEnds, WakeUp, wakeup, SInv, XInv, RunningAreActivated
<1>2. PICK v \in {"DONE", "ERROR"} : state' = [state EXCEPT ![n] = v]
  BY DEF TaskEnds, Notify
<1>3. \A m \in Elem : state'[m] = IF m = n THEN v ELSE state[m]
  BY <1>2, SInvTypes
<1>4. RunningAreActivated'
  BY <1>1, <1>3 DEF SInv, XInv, RunningAreActivated
<1>5. CoupledInv'
  <2> SUFFICES ASSUME NEW x \in Elem, NEW y \in Coupled(x)
               PROVE  /\ state'[x] = "READY"  => state'[y] \in {"READY", "DISABLED"} \cup Broken
                      /\ state'[x] = "TOLOAD" => state'[y] \notin {"ACTIVATED", "DONE"}
                      /\ y \in tasks => /\ state'[x] # "READY"
                                        /\ state'[x] = "TOLOAD" => x \in tasks
    BY <1>1 DEF CoupledInv
  <2>1. y \in Elem
    BY CoupledBoth
  <2> QED BY <1>1, <1>3, <2>1 DEF SInv, XInv, CoupledInv, Broken
<1>6. TasksInv'
  BY <1>1, <1>3, SInvTypes DEF SInv, XInv, TasksInv, Connecting, Launching
<1>7. LoadInv'
  BY <1>1, <1>3 DEF SInv, XInv, LoadInv
<1>8. CurInv'
  <2>1. /\ pc \in {"connecting", "acquire", "begin", "failed", "coupled"} => state[cur] # "ACTIVATED"
        /\ \A y \in Coupled(cur) : y \in Elem
    BY SInvTypes, CoupledBoth DEF SInv, XInv, CurInv, Broken
  <2> QED BY <1>1, <1>3, <2>1, SInvTypes DEF SInv, XInv, CurInv
<1> QED BY <1>1, <1>4, <1>5, <1>6, <1>7, <1>8 DEF SInv, XInv, NoSteps

LEMMA PilotX ==
  ASSUME "steps" \notin Calls, SInv, NEW p \in Pilots, Pilot(p)
  PROVE  XInv' /\ UNCHANGED vars
<1> USE DEF graph, locals, threads, wakeup, control, pilots
<1>1. /\ ~ (\E S \in SUBSET Elem : SetStepsToExecute(p, S))
      /\ ~ SetStepsUnlocked(p)
  BY DEF SetStepsToExecute, SetStepsUnlocked, SInv, XInv, NoSteps
<1>2. /\ UNCHANGED <<graph, tasks, running, loader, cur, todo, coupledTodo>>
      /\ pc' = pc \/ (pc = "paused" /\ pc' = "resumed")
  BY <1>1 DEF Pilot, SetExecMode, Resume, StopExecution, ResumeCurrentBreakPoint, WaitPause
<1>3. \/ pilot' = pilot
      \/ \E v \in {"idle", "wait", "stop1", "stop2"} : pilot' = [pilot EXCEPT ![p] = v]
  BY <1>1 DEF Pilot, SetExecMode, Resume, StopExecution, ResumeCurrentBreakPoint, WaitPause
<1>4. NoSteps'
  BY <1>3 DEF SInv, TInv, ExecTypeOK, XInv, NoSteps
<1>5. XInv'
  BY <1>2, <1>4, SteadyX
     DEF SInv, XInv, TasksInv, LoadInv, CurInv, Connecting, Launching
<1> QED BY <1>2, <1>5 DEF vars

LEMMA StepX ==
  ASSUME "steps" \notin Calls, NoChains, SInv, [ExecNext]_execVars
  PROVE  XInv'
<1>1. CASE RunB
  BY <1>1, EngineX, ReadX, SelectX, ReadToConnectX, ConnectServiceX, ReadFailedX,
     AbortCoupledX, ReadToLaunchX, LaunchX DEF RunB
<1>2. CASE SpuriousWakeUp
  BY <1>2, ReadX
<1>3. CASE Climb
  BY <1>3, EngineX
<1>4. ASSUME NEW n \in Elem, LoadTask(n) \/ TaskEnds(n) PROVE XInv'
  BY <1>4, LoadTaskX, TaskEndsX
<1>5. ASSUME NEW p \in Pilots, Pilot(p) PROVE XInv'
  BY <1>5, PilotX
<1>6. CASE UNCHANGED execVars
  <2> USE DEF execVars, graph, locals, threads, wakeup, control, pilots
  <2>1. RunningAreActivated' /\ CoupledInv'
    BY <1>6, SteadyX
  <2> QED BY <1>6, <2>1 DEF SInv, XInv, TasksInv, LoadInv, CurInv, NoSteps, Connecting,
                            Launching
<1> QED BY <1>1, <1>2, <1>3, <1>4, <1>5, <1>6 DEF ExecNext

-----------------------------------------------------------------------------
(* The refinement                                                          *)

\* Each step of the executor is a call of Scheduler, or none.
LEMMA Simulation ==
  ASSUME "steps" \notin Calls, NoChains, SInv, [ExecNext]_execVars
  PROVE  [Next]_vars
<1> USE DEF Locked
<1>1. CASE \/ Start \/ (\E x \in Invalid : StartThrows(x)) \/ Climb
  BY <1>1 DEF Start, StartThrows, Climb, Next
<1>2. CASE \/ Sleep \/ SpuriousWakeUp \/ Woken \/ ReadMode \/ CheckBreakPoints \/ Resumed
           \/ Load \/ Join \/ ReadToConnect \/ ReadFailed \/ ReadToLaunch \/ Acquire
           \/ Check \/ Stopped
  BY <1>2 DEF Sleep, SpuriousWakeUp, Woken, ReadMode, CheckBreakPoints, Resumed, Load, Join,
              ReadToConnect, ReadFailed, ReadToLaunch, Acquire, Check, Stopped, graph, vars
<1>3. CASE Select
  BY <1>3 DEF Select, ReadyTasks, Next
<1>4. CASE ConnectService
  <2>1. cur \in Elem /\ Seen(cur)
    BY <1>4, SInvTypes
       DEF ConnectService, SInv, XInv, CurInv, TasksInv, Connecting, Seen
  <2>2. Connected(cur) \/ TaskNotLoaded(cur)
    BY <1>4, <2>1 DEF ConnectService, Connected, TaskNotLoaded
  <2> QED BY <2>1, <2>2 DEF TaskCall, Next
<1>5. CASE AbortCoupled
  <2>1. CASE UNCHANGED <<state, event>>
    BY <1>5, <2>1 DEF AbortCoupled, vars
  <2>2. ASSUME NEW n \in coupledTodo, state[n] # "ERROR", Notify(n, "ERROR", "ABORT")
        PROVE  Next
    <3>1. /\ cur \in tasks /\ state[cur] \in Broken /\ cur \in Elem
          /\ n \in CoupledSet[cur] \ {cur}
          /\ \A y \in Coupled(cur) : state[y] \notin {"ACTIVATED", "DONE"}
      BY <1>5, <2>2, SInvTypes DEF AbortCoupled, SInv, XInv, CurInv
    <3>2. n \in Coupled(cur) /\ n \in Elem
      BY <3>1, CoupledBoth DEF NoChains
    <3>3. CoupledAborted(n)
      BY <1>5, <2>2, <3>1, <3>2 DEF AbortCoupled, CoupledAborted, Broken
    <3> QED BY <3>2, <3>3 DEF TaskCall, Next
  <2> QED BY <1>5, <2>1, <2>2 DEF AbortCoupled
<1>6. CASE Launch
  <2>1. cur \in Elem /\ Begin(cur)
    BY <1>6, SInvTypes DEF Launch, Begin, SInv, XInv, CurInv, TasksInv, Launching
  <2> QED BY <2>1 DEF TaskCall, Next
<1>7. ASSUME NEW n \in Elem, LoadTask(n) PROVE [Next]_vars
  <2>1. CASE UNCHANGED <<state, event>>
    BY <1>7, <2>1 DEF LoadTask, vars
  <2>2. CASE ~ UNCHANGED <<state, event>>
    <3>1. Seen(n)
      BY <1>7, <2>2 DEF LoadTask, SInv, XInv, LoadInv, Seen
    <3>2. TaskStarted(n) \/ TaskNotLoaded(n)
      BY <1>7, <2>2, <3>1 DEF LoadTask, TaskStarted, TaskNotLoaded
    <3> QED BY <3>2 DEF TaskCall, Next
  <2> QED BY <2>1, <2>2
<1>8. ASSUME NEW n \in Elem, TaskEnds(n) PROVE [Next]_vars
  <2>1. state[n] = "ACTIVATED"
    BY <1>8 DEF TaskEnds, SInv, XInv, RunningAreActivated
  <2>2. Finished(n) \/ Aborted(n)
    BY <1>8, <2>1 DEF TaskEnds, Finished, Aborted
  <2> QED BY <2>2 DEF TaskCall, Next
<1>9. ASSUME NEW p \in Pilots, Pilot(p) PROVE [Next]_vars
  BY <1>9, PilotX
<1>10. CASE UNCHANGED execVars
  BY <1>10 DEF execVars, graph, vars
<1> QED BY <1>1, <1>2, <1>3, <1>4, <1>5, <1>6, <1>7, <1>8, <1>9, <1>10 DEF ExecNext, RunB

LEMMA SInvKept ==
  ASSUME "steps" \notin Calls, NoChains
  PROVE  ExecSpec => []SInv
<1>1. ExecInit => SInv
  BY ExecInitInv, InitInv, InitX DEF SInv, ExecInit
<1>2. SInv /\ [ExecNext]_execVars => SInv'
  BY ExecStepInv, Simulation, StepInv, StepX DEF SInv
<1> QED BY <1>1, <1>2, PTL DEF ExecSpec

\* The executor makes only calls that Scheduler allows: a task is connected
\* only when it was to be loaded, run only when it is connected and its gate
\* is open, and reports once; no call comes while an event climbs.
THEOREM ExecutorImplements ==
  ASSUME "steps" \notin Calls, NoChains
  PROVE  ExecSpec => ImplementsScheduler
<1>1. ExecInit => Init
  BY DEF ExecInit
<1>2. SInv /\ [ExecNext]_execVars => [Next]_vars
  BY Simulation
<1> QED BY <1>1, <1>2, SInvKept, PTL DEF ExecSpec, Spec, ImplementsScheduler

\* The tasks that run are those that have a thread: a task whose service runs
\* is not failed by what happens elsewhere.
THEOREM ThreadsOfRunningTasks ==
  ASSUME "steps" \notin Calls, NoChains
  PROVE  ExecSpec => []RunningAreActivated
<1>1. SInv => RunningAreActivated
  BY DEF SInv, XInv
<1> QED BY <1>1, SInvKept, PTL

\* Hence nodes run in the order of the control links in the real executor too.
THEOREM ExecutorOrder ==
  ASSUME "steps" \notin Calls, NoChains
  PROVE  ExecSpec => []RunsAfterPrecursors
BY ExecutorImplements, OrderOfExecution, PTL DEF ImplementsScheduler

\* A failure reaches what follows the failed node, whatever the threads of the
\* executor do meanwhile.
THEOREM ExecutorFailures ==
  ASSUME "steps" \notin Calls, NoChains, CoupledTogether
  PROVE  ExecSpec => []FailureReachesAll
BY ExecutorImplements, FailuresReachAll, PTL DEF ImplementsScheduler

\* An executor that finds no task to run while none runs is at the end of the
\* schema, unless it could not start it: it never gives up on one after its 25
\* rounds without a task.
THEOREM ExecutorDeadEnds ==
  ASSUME "steps" \notin Calls, NoChains,
         IsFiniteSet(Nodes), CoupledTogether, BlocsHaveWork
  PROVE  ExecSpec => []NoDeadEnd
BY ExecutorImplements, NoDeadEnds, PTL DEF ImplementsScheduler

-----------------------------------------------------------------------------
(* The pools of containers                                                 *)

LEMMA SelectPlacedType ==
  ASSUME TInv, SelectPlaced
  PROVE  TInv'
<1> USE DEF SelectPlaced, GetNextTasks, locals, threads, wakeup, control, pilots
<1>1. /\ pc = "select" /\ pc' \in {"mode", "end"} /\ tasks' \subseteq ReadyTasks
      /\ UNCHANGED <<state, gate, event, unset, todo, cur, coupledTodo, problems, loader, running,
                     sem, ended, isWaiting, executorState, execMode, isOKToEnd, tasksSave,
                     pilot, restricted>>
      /\ noTask' = noTask \/ noTask' \in BOOLEAN
  OBVIOUS
<1>2. Places'
  BY <1>1, PlacesKept DEF AboutToAct, TInv, Places
<1>3. TypeOK'
  BY <1>1 DEF TInv, ExecTypeOK, TypeOK, ReadyTasks
<1>4. noTask' \in BOOLEAN
  BY <1>1 DEF TInv, ExecTypeOK
<1> HIDE DEF SelectPlaced
<1>5. ExecTypeOK'
  BY <1>1, <1>3, <1>4 DEF TInv, ExecTypeOK
<1> QED BY <1>2, <1>5 DEF TInv

\* Of a step that changes the places: which tasks it serves, and with what.
Serves(served) ==
  /\ served \subseteq {n \in Pooled : place[n] = 0}
  /\ \A n \in served : place'[n] \in Free(PoolOf[n])
  /\ \A m, n \in served : (m # n /\ PoolOf[m] = PoolOf[n]) => place'[m] # place'[n]
  /\ \A n \in Pooled \ served : place'[n] = place[n]
  /\ DOMAIN place' = Pooled

LEMMA PlacesGiven ==
  ASSUME SelectPlaced
  PROVE  \E served \in SUBSET Pooled :
           /\ Serves(served) /\ served \subseteq tasks'
           /\ pc' = "mode" => tasks' \cap Pooled = served
<1> DEFINE Asking(S) == S \cap Pooled
           Fits(S) == /\ \A n \in Asking(S) : place[n] = 0
                      /\ \A p \in Pools : Cardinality(S \cap Of(p)) <= Cardinality(Free(p))
<1>1. PICK S \in Kept :
        /\ tasks' = S
        /\ \E served \in SUBSET {n \in Asking(S) : place[n] = 0} :
             /\ Fits(S) => served = Asking(S)
             /\ \E new \in Allocation(served) :
                  place' = [n \in Pooled |-> IF n \in served THEN new[n] ELSE place[n]]
        /\ pc' = "mode" => Fits(S)
  BY DEF SelectPlaced, GetNextTasks
<1>2. PICK served \in SUBSET {n \in Asking(S) : place[n] = 0} :
         /\ Fits(S) => served = Asking(S)
         /\ \E new \in Allocation(served) :
              place' = [n \in Pooled |-> IF n \in served THEN new[n] ELSE place[n]]
  BY <1>1
<1>3. PICK new \in Allocation(served) :
        place' = [n \in Pooled |-> IF n \in served THEN new[n] ELSE place[n]]
  BY <1>2
<1>4. /\ \A n \in served : new[n] \in Free(PoolOf[n])
      /\ \A m, n \in served : (m # n /\ PoolOf[m] = PoolOf[n]) => new[m] # new[n]
  BY <1>2 DEF Allocation, Of
<1>5. Serves(served)
  BY <1>3, <1>4 DEF Serves
<1>6. served \subseteq tasks' /\ (pc' = "mode" => tasks' \cap Pooled = served)
  BY <1>1, <1>2
<1> QED BY <1>5, <1>6

\* The steps of the executor that are steps of RunB, the pilots, the climb or
\* a load thread leave the places alone; those of a task thread give one back.
LEMMA PoolSteps ==
  ASSUME [PoolNext]_pooledVars
  PROVE  \/ SelectPlaced
         \/ \E n \in Elem : Release(n)
         \/ /\ [ExecNext]_execVars /\ place' = place /\ threw' = threw
            /\ \/ released' = released /\ running \subseteq running'
               \/ \E n \in released : released' = released \ {n} /\ running' = running \ {n}
<1> DEFINE Quiet == /\ [ExecNext]_execVars /\ place' = place /\ threw' = threw
                    /\ \/ released' = released /\ running \subseteq running'
                       \/ \E n \in released :
                            released' = released \ {n} /\ running' = running \ {n}
<1>1. CASE RunThread
  <2>1. running \subseteq running'
    <3>1. Launch => running \subseteq running'
      BY DEF Launch
    <3>2. (RunB /\ ~ Launch) => running' = running
      BY DEF RunB, Start, StartThrows, Sleep, Woken, Select, ReadMode, CheckBreakPoints, Resumed,
         Load, Join, ReadToConnect, ConnectService, ReadFailed, AbortCoupled, ReadToLaunch,
         Acquire, Check, Stopped, threads
    <3> QED BY <1>1, <3>1, <3>2 DEF RunThread
  <2> QED BY <1>1, <2>1 DEF RunThread, poolVars, ExecNext
<1>2. CASE (SpuriousWakeUp \/ Climb) /\ UNCHANGED poolVars
  BY <1>2 DEF poolVars, ExecNext, SpuriousWakeUp, Climb, threads
<1>3. ASSUME NEW n \in Elem, LoadTask(n) /\ UNCHANGED poolVars PROVE Quiet
  BY <1>3 DEF poolVars, ExecNext, LoadTask
<1>4. ASSUME NEW n \in Elem, EndOfTask(n) PROVE Quiet
  BY <1>4 DEF EndOfTask, ExecNext, TaskEnds
<1>5. ASSUME NEW p \in Pilots, Pilot(p) /\ UNCHANGED poolVars PROVE Quiet
  <2>1. running' = running
    BY <1>5 DEF Pilot, SetExecMode, Resume, ResumeCurrentBreakPoint, StopExecution, WaitPause,
       SetStepsToExecute, SetStepsUnlocked, threads
  <2> QED BY <1>5, <2>1 DEF poolVars, ExecNext
<1>6. CASE UNCHANGED pooledVars
  BY <1>6 DEF pooledVars, execVars, poolVars, threads
<1> QED BY <1>1, <1>2, <1>3, <1>4, <1>5, <1>6 DEF PoolNext

\* The types and the places of the semaphore, then the places of the pools.
PInv == TInv /\ PoolTypeOK

LEMMA PInvInit == PoolInit => PInv
<1> SUFFICES ASSUME PoolInit PROVE PInv
  OBVIOUS
<1>1. TInv
  BY ExecInitInv DEF PoolInit
<1>2. \A n \in Pooled : SizeOfPool[PoolOf[n]] \in Nat
  BY PoolAssumption
<1>3. place \in [Pooled -> Nat] /\ \A n \in Pooled : place[n] <= SizeOfPool[PoolOf[n]]
  BY <1>2 DEF PoolInit
<1>4. released \subseteq running /\ threw \in BOOLEAN
  BY DEF PoolInit
<1> QED BY <1>1, <1>3, <1>4 DEF PInv, TInv, PoolTypeOK

LEMMA PInvKept == PInv /\ [PoolNext]_pooledVars => PInv'
<1> SUFFICES ASSUME PInv, [PoolNext]_pooledVars PROVE PInv'
  OBVIOUS
<1> USE DEF PInv, PoolTypeOK
<1>1. CASE SelectPlaced
  <2>1. TInv'
    BY <1>1, SelectPlacedType
  <2>2. PICK served \in SUBSET Pooled : Serves(served)
    BY <1>1, PlacesGiven
  <2>3. ASSUME NEW n \in Pooled PROVE place'[n] \in Nat /\ place'[n] <= SizeOfPool[PoolOf[n]]
    BY <2>2, PoolAssumption DEF Serves, Free
  <2>4. place' \in [Pooled -> Nat]
    <3>1. place' = [n \in Pooled |-> place'[n]]
      BY <1>1 DEF SelectPlaced
    <3> QED BY <2>3, <3>1
  <2>5. released' = released /\ running' = running /\ threw' \in BOOLEAN
    BY <1>1 DEF SelectPlaced, threads
  <2> QED BY <2>1, <2>3, <2>4, <2>5 DEF TInv
<1>2. ASSUME NEW n \in Elem, Release(n) PROVE PInv'
  <2>1. TInv'
    BY <1>2, ExecStepInv DEF Release
  <2>2. place' \in [Pooled -> Nat] /\ \A m \in Pooled : place'[m] <= SizeOfPool[PoolOf[m]]
    BY <1>2, PoolAssumption DEF Release
  <2>3. released' \subseteq running' /\ threw' \in BOOLEAN
    BY <1>2 DEF Release, execVars, threads
  <2> QED BY <2>1, <2>2, <2>3 DEF TInv
<1>3. CASE /\ [ExecNext]_execVars /\ place' = place /\ threw' = threw
           /\ \/ released' = released /\ running \subseteq running'
              \/ \E n \in released : released' = released \ {n} /\ running' = running \ {n}
  BY <1>3, ExecStepInv DEF TInv
<1> QED BY <1>1, <1>2, <1>3, PoolSteps

\* Type correctness of the pools: a place is one of its pool, and a thread
\* gives its place back while its task still counts as running.
THEOREM PoolTypes == PoolSpec => []PoolTypeOK
<1>1. PInv => PoolTypeOK
  BY DEF PInv
<1> QED BY <1>1, PInvInit, PInvKept, PTL DEF PoolSpec

\* A container of a pool serves one task at a time: allocateFor gives places
\* that are free, different to the tasks of one round, and release() may come
\* from another thread at any moment.
THEOREM PlacesUsedOnce == PoolSpec => []UsedOnceAtATime
<1>1. PoolInit => UsedOnceAtATime
  BY DEF PoolInit, UsedOnceAtATime, Of
<1>2. PInv /\ UsedOnceAtATime /\ [PoolNext]_pooledVars => UsedOnceAtATime'
  <2> SUFFICES ASSUME PInv, UsedOnceAtATime, [PoolNext]_pooledVars, NEW p \in Pools,
                      NEW m \in Of(p), NEW n \in Of(p), place'[m] # 0, place'[m] = place'[n]
               PROVE  m = n
    BY DEF UsedOnceAtATime, Of
  <2>1. m \in Pooled /\ n \in Pooled /\ PoolOf[m] = p /\ PoolOf[n] = p
    BY DEF Of
  <2>2. CASE place' = place
    BY <2>2 DEF UsedOnceAtATime
  <2>3. CASE SelectPlaced
    <3>1. PICK served \in SUBSET Pooled : Serves(served)
      BY <2>3, PlacesGiven
    <3>2. CASE m \in served /\ n \in served
      BY <2>1, <3>1, <3>2 DEF Serves
    <3>3. CASE m \in served /\ n \notin served
      BY <2>1, <3>1, <3>3 DEF Serves, Free
    <3>4. CASE m \notin served /\ n \in served
      BY <2>1, <3>1, <3>4 DEF Serves, Free
    <3>5. CASE m \notin served /\ n \notin served
      BY <2>1, <3>1, <3>5 DEF Serves, UsedOnceAtATime
    <3> QED BY <3>2, <3>3, <3>4, <3>5
  <2>4. ASSUME NEW k \in Elem, Release(k) PROVE m = n
    BY <2>1, <2>4 DEF Release, PInv, PoolTypeOK, UsedOnceAtATime
  <2> QED BY <2>2, <2>3, <2>4, PoolSteps
<1> QED BY <1>1, <1>2, PInvInit, PInvKept, PTL DEF PoolSpec

\* From its selection to its launch a task has its place and no thread.
BeforeLaunch == {"mode", "step", "nodes", "paused", "resumed", "load", "join"} \cup Connecting
HasPlace(n)  == n \in Pooled => place[n] # 0

PlaceInv ==
  /\ \A n \in running \ released : HasPlace(n)
  /\ \A n \in Elem : loader[n] # "none" => pc = "join" /\ n \in tasks
  /\ pc \in BeforeLaunch => \A n \in tasks : n \notin running /\ HasPlace(n)
  /\ pc \in Launching    => \A n \in todo : n \notin running /\ HasPlace(n)
  /\ pc \in Connecting   => todo \subseteq tasks
  /\ pc \in Connecting \ {"connect"} => cur \in tasks
  /\ pc \in Launching \ {"launch"}   => cur \in todo
  /\ NoSteps

LEMMA PlaceInit == PoolInit /\ "steps" \notin Calls => PlaceInv
BY DEF PoolInit, ExecInit, PlaceInv, NoSteps, BeforeLaunch, Connecting, Launching

\* A step of RunB that starts no round and no task keeps what the tasks of the
\* round have; so does one that ends the round.
LEMMA RoundKept ==
  ASSUME PInv, PlaceInv, UNCHANGED <<place, released, running, tasks, loader, pilot>>,
         pc # "join",
         \/ /\ pc' \in BeforeLaunch /\ pc \in BeforeLaunch
            /\ pc' \in Connecting => todo' \subseteq tasks
            /\ pc' \in Connecting \ {"connect"} => cur' \in tasks
         \/ /\ pc' \in Launching /\ pc \in Launching /\ todo' \subseteq todo
            /\ pc' # "launch" => cur' \in todo'
         \/ pc' = "launch" /\ pc = "connect" /\ todo' = tasks
         \/ pc' \notin BeforeLaunch \cup Launching
  PROVE  PlaceInv'
BY DEF PlaceInv, HasPlace, NoSteps, BeforeLaunch, Connecting, Launching

LEMMA UpdateKeepsTasks == UpdateStateFrom => tasks' = tasks
BY DEF UpdateStateFrom, OnStartEvent, OnLastFinished, OnFinished, OnFinishedThrows, OnFailed

LEMMA PlaceKept ==
  ASSUME PInv, PlaceInv, "steps" \notin Calls, [PoolNext]_pooledVars
  PROVE  PlaceInv'
<1> USE DEF locals, threads, wakeup, control, pilots, graph
<1>1. CASE SelectPlaced
  <2>1. PICK served \in SUBSET Pooled :
          Serves(served) /\ (pc' = "mode" => tasks' \cap Pooled = served)
    BY <1>1, PlacesGiven
  <2>2. /\ UNCHANGED <<running, released, loader, pilot>> /\ pc = "select"
        /\ pc' \in {"mode", "end"} /\ tasks' \subseteq ReadyTasks
    BY <1>1 DEF SelectPlaced, GetNextTasks
  <2>3. \A n \in Pooled : place[n] # 0 => place'[n] # 0
    BY <2>1 DEF Serves
  <2>4. \A n \in served : place'[n] # 0
    BY <2>1 DEF Serves, Free
  <2>5. tasks' \cap running = {}
    BY <2>2 DEF ReadyTasks, PInv, TInv, Places, RunningStates
  <2>6. pc' = "mode" => \A n \in tasks' : n \notin running' /\ HasPlace(n)'
    BY <2>1, <2>2, <2>4, <2>5 DEF HasPlace
  <2> QED BY <2>2, <2>3, <2>6 DEF PlaceInv, HasPlace, NoSteps, BeforeLaunch, Connecting, Launching
<1>2. ASSUME NEW n \in Elem, Release(n) PROVE PlaceInv'
  <2>1. /\ n \in running \ released /\ released' = released \cup {n}
        /\ \A m \in Pooled \ {n} : place'[m] = place[m]
        /\ UNCHANGED <<running, tasks, loader, pilot, pc, todo, cur>>
    BY <1>2 DEF Release, execVars, PInv, PoolTypeOK
  <2> QED BY <2>1 DEF PlaceInv, HasPlace, NoSteps
<1>3. CASE RunThread
  <2>1. pc # "select" /\ RunB /\ UNCHANGED <<place, released, threw>>
    BY <1>3 DEF RunThread, poolVars
  <2>2. CASE Start \/ \E x \in Invalid : StartThrows(x)
    BY <2>1, <2>2, RoundKept DEF Start, StartThrows, StartSchema, StartSchemaThrows,
       BeforeLaunch, Connecting, Launching
  <2>3. CASE Sleep \/ Woken \/ Check \/ Stopped
    <3>1. pilot' = pilot \/ pilot' = PilotsWoken
      BY <2>3 DEF Sleep, Woken, Check, Stopped
    <3>2. NoSteps'
      BY <3>1 DEF PlaceInv, NoSteps, PilotsWoken
    <3>3. /\ UNCHANGED <<running, tasks, loader>> /\ pc # "join"
          /\ pc' \notin BeforeLaunch \cup Launching
      BY <2>3 DEF Sleep, Woken, Check, Stopped, BeforeLaunch, Connecting, Launching
    <3> QED BY <2>1, <3>2, <3>3 DEF PlaceInv, HasPlace, BeforeLaunch
  <2>4. CASE ReadMode \/ Resumed
    BY <2>1, <2>4, RoundKept DEF ReadMode, Resumed, BeforeLaunch, Connecting, Launching
  <2>5. CASE CheckBreakPoints
    <3>1. NoSteps'
      BY <2>5 DEF CheckBreakPoints, PlaceInv, NoSteps, PilotsWoken
    <3>2. /\ UNCHANGED <<running, tasks, loader>> /\ pc \in {"step", "nodes"}
          /\ pc' \in {"paused", "load", "stopping"}
      BY <2>5 DEF CheckBreakPoints
    <3> QED BY <2>1, <3>1, <3>2 DEF PlaceInv, HasPlace, BeforeLaunch, Connecting, Launching
  <2>6. CASE Load
    BY <2>1, <2>6 DEF Load, PlaceInv, HasPlace, NoSteps, BeforeLaunch, Connecting, Launching
  <2>7. CASE Join
    BY <2>1, <2>7 DEF Join, PlaceInv, HasPlace, NoSteps, BeforeLaunch, Connecting, Launching
  <2>8. CASE ReadToConnect \/ ConnectService \/ ReadFailed \/ AbortCoupled
    <3>1. UNCHANGED <<running, tasks, loader, pilot>> /\ pc # "join"
      BY <2>8 DEF ReadToConnect, ConnectService, ReadFailed, AbortCoupled
    <3>2. CASE ReadToConnect
      <4>1. pc = "connect" /\ todo \subseteq tasks
        BY <3>2 DEF ReadToConnect, PlaceInv, Connecting
      <4> QED BY <2>1, <3>1, <3>2, <4>1, RoundKept
              DEF ReadToConnect, BeforeLaunch, Connecting, Launching
    <3>3. CASE ConnectService \/ ReadFailed \/ AbortCoupled
      <4>1. todo' \subseteq tasks /\ cur' = cur /\ cur \in tasks
        BY <3>3 DEF ConnectService, ReadFailed, AbortCoupled, PlaceInv, Connecting
      <4>2. pc \in Connecting /\ pc' \in Connecting
        BY <3>3 DEF ConnectService, ReadFailed, AbortCoupled, Connecting
      <4> QED BY <2>1, <3>1, <4>1, <4>2, RoundKept DEF BeforeLaunch
    <3> QED BY <2>8, <3>2, <3>3
  <2>9. CASE ReadToLaunch \/ Acquire
    <3>1. UNCHANGED <<running, tasks, loader, pilot>> /\ pc # "join"
      BY <2>9 DEF ReadToLaunch, Acquire
    <3>2. CASE ReadToLaunch
      BY <2>1, <3>1, <3>2, RoundKept DEF ReadToLaunch, BeforeLaunch, Connecting, Launching
    <3>3. CASE Acquire
      <4>1. todo' = todo /\ cur' = cur /\ cur \in todo /\ pc = "acquire" /\ pc' = "begin"
        BY <3>3 DEF Acquire, PlaceInv, Launching
      <4> QED BY <2>1, <3>1, <4>1, RoundKept DEF Launching
    <3> QED BY <2>9, <3>2, <3>3
  <2>10. CASE Launch
    <3>1. /\ pc = "begin" /\ pc' = "launch" /\ todo' = todo \ {cur}
          /\ running' = running \cup {cur} /\ UNCHANGED <<tasks, loader, pilot>>
      BY <2>10 DEF Launch
    <3>2. cur \in todo /\ HasPlace(cur)
      BY <3>1 DEF PlaceInv, Launching
    <3> QED BY <2>1, <3>1, <3>2 DEF PlaceInv, HasPlace, NoSteps, BeforeLaunch, Connecting, Launching
  <2>11. ~ Select
    BY <2>1 DEF Select
  <2> QED BY <2>1, <2>2, <2>3, <2>4, <2>5, <2>6, <2>7, <2>8, <2>9, <2>10, <2>11 DEF RunB
<1>4. CASE (SpuriousWakeUp \/ Climb) /\ UNCHANGED poolVars
  <2>1. UNCHANGED <<place, released, running, tasks, loader, pilot, todo, cur>>
    BY <1>4, UpdateKeepsTasks DEF poolVars, SpuriousWakeUp, Climb
  <2>2. pc' = pc \/ (pc = "waiting" /\ pc' = "woken") \/ (pc = "paused" /\ pc' = "resumed")
    BY <1>4 DEF SpuriousWakeUp, Climb
  <2> QED BY <2>1, <2>2 DEF PlaceInv, HasPlace, NoSteps, BeforeLaunch, Connecting, Launching
<1>5. ASSUME NEW n \in Elem, LoadTask(n) /\ UNCHANGED poolVars PROVE PlaceInv'
  <2>1. UNCHANGED <<place, released, running, tasks, pilot, pc, todo, cur>>
    BY <1>5 DEF poolVars, LoadTask
  <2>2. \A m \in Elem : loader'[m] # "none" => loader[m] # "none"
    BY <1>5 DEF LoadTask, PInv, TInv, ExecTypeOK
  <2> QED BY <2>1, <2>2 DEF PlaceInv, HasPlace, NoSteps
<1>6. ASSUME NEW n \in Elem, EndOfTask(n) PROVE PlaceInv'
  <2>1. /\ UNCHANGED <<place, tasks, loader, pilot, todo, cur>>
        /\ running' = running \ {n} /\ released' = released \ {n}
    BY <1>6 DEF EndOfTask, TaskEnds
  <2>2. pc' = pc \/ (pc = "waiting" /\ pc' = "woken")
    BY <1>6 DEF EndOfTask, TaskEnds, WakeUp
  <2> QED BY <2>1, <2>2 DEF PlaceInv, HasPlace, NoSteps, BeforeLaunch, Connecting, Launching
<1>7. ASSUME NEW p \in Pilots, Pilot(p) /\ UNCHANGED poolVars PROVE PlaceInv'
  <2>1. ~ \E S \in SUBSET Elem : SetStepsToExecute(p, S)
    BY <1>7 DEF SetStepsToExecute
  <2>2. ~ SetStepsUnlocked(p)
    BY <1>7 DEF SetStepsUnlocked, PlaceInv, NoSteps
  <2>3. /\ UNCHANGED <<place, released, running, tasks, loader, todo, cur>>
        /\ pc' = pc \/ (pc = "paused" /\ pc' = "resumed")
    BY <1>7, <2>1, <2>2 DEF poolVars, Pilot, SetExecMode, Resume, ResumeCurrentBreakPoint,
       StopExecution, WaitPause
  <2>4. \/ pilot' = pilot
        \/ \E v \in {"stop1", "stop2", "idle", "wait"} : pilot' = [pilot EXCEPT ![p] = v]
    BY <1>7, <2>1, <2>2 DEF Pilot, SetExecMode, Resume, StopExecution, WaitPause
  <2>5. NoSteps'
    BY <2>4 DEF PlaceInv, NoSteps, PInv, TInv, ExecTypeOK
  <2> QED BY <2>3, <2>5 DEF PlaceInv, HasPlace, BeforeLaunch, Connecting, Launching
<1>8. CASE UNCHANGED pooledVars
  BY <1>8 DEF pooledVars, execVars, poolVars, PlaceInv, HasPlace, NoSteps
<1> QED BY <1>1, <1>2, <1>3, <1>4, <1>5, <1>6, <1>7, <1>8 DEF PoolNext

\* A thread that loads, connects, launches or runs a task finds the place of
\* the task, so that locateTask does not throw: a place is taken with the
\* selection of the task and given back by the thread that ran it, not by a
\* failure elsewhere.  setStepsToExecute, whose second write of _tasks may
\* bring back the tasks of an earlier round, is not among the calls.
THEOREM ThreadsHavePlaces ==
  ASSUME "steps" \notin Calls
  PROVE  PoolSpec => []EveryThreadHasItsPlace
<1>1. PlaceInv /\ PInv => EveryThreadHasItsPlace
  BY PoolAssumption DEF PlaceInv, EveryThreadHasItsPlace, HasPlace, BeforeLaunch, Connecting, Launching
<1>2. PoolInit => PlaceInv
  BY PlaceInit
<1>3. PlaceInv /\ PInv /\ [PoolNext]_pooledVars => PlaceInv'
  BY PlaceKept
<1> QED BY <1>1, <1>2, <1>3, PInvInit, PInvKept, PTL DEF PoolSpec

-----------------------------------------------------------------------------
(* Coupled tasks on pools.  A pool that has a place for each of its tasks  *)
(* drops no task that has none: those which have a place are as many as    *)
(* the places that are not free, or more.                                  *)

LEMMA FreePlaces ==
  ASSUME PoolTypeOK, NEW p \in Pools, IsFiniteSet(Of(p))
  PROVE  /\ IsFiniteSet(Free(p)) /\ Cardinality(Free(p)) \in Nat
         /\ SizeOfPool[p] - Cardinality({n \in Of(p) : place[n] # 0}) <= Cardinality(Free(p))
<1> DEFINE Holders == {n \in Of(p) : place[n] # 0}
           Held    == {place[n] : n \in Holders}
           All     == 1 .. SizeOfPool[p]
<1>1. SizeOfPool[p] \in Nat
  BY PoolAssumption
<1>2. IsFiniteSet(All) /\ Cardinality(All) = SizeOfPool[p]
  BY <1>1, FS_Interval
<1>3. IsFiniteSet(Holders) /\ Cardinality(Holders) \in Nat
  BY FS_Subset, FS_CardinalityType
<1>4. IsFiniteSet(Held) /\ Cardinality(Held) <= Cardinality(Holders)
  <2> DEFINE f == [n \in Holders |-> place[n]]
  <2>1. f \in Surjection(Holders, Held)
    BY DEF Surjection
  <2> QED BY <1>3, <2>1, FS_Surjection
<1>5. Free(p) = All \ Held
  BY DEF Free
<1>6. IsFiniteSet(All \cap Held) /\ Cardinality(All \cap Held) <= Cardinality(Held)
  BY <1>4, FS_Subset
<1>7. /\ IsFiniteSet(Free(p))
      /\ Cardinality(Free(p)) = Cardinality(All) - Cardinality(All \cap Held)
  BY <1>2, <1>5, FS_Difference
<1>8. /\ Cardinality(Free(p)) \in Nat /\ Cardinality(Held) \in Nat
      /\ Cardinality(All \cap Held) \in Nat
  BY <1>4, <1>6, <1>7, FS_CardinalityType
<1> QED BY <1>1, <1>2, <1>3, <1>4, <1>6, <1>7, <1>8

LEMMA LargePoolKeeps ==
  ASSUME PoolTypeOK, NEW S \in Kept, \A n \in S \cap Pooled : place[n] = 0,
         NEW x \in ReadyTasks, x \in Pooled, place[x] = 0,
         IsFiniteSet(Of(PoolOf[x])), Cardinality(Of(PoolOf[x])) <= SizeOfPool[PoolOf[x]]
  PROVE  x \in S
<1> DEFINE p       == PoolOf[x]
           Holders == {n \in Of(p) : place[n] # 0}
           Others  == Of(p) \ Holders
           ready   == ReadyTasks \cap Of(p)
<1>1. p \in Pools /\ x \in ready /\ SizeOfPool[p] \in Nat /\ x \in Others
  BY PoolAssumption DEF Of
<1>2. \/ ready \subseteq S
      \/ Cardinality(S \cap ready) = Cardinality(Free(p))
  BY <1>1 DEF Kept
<1>3. CASE Cardinality(S \cap ready) = Cardinality(Free(p))
  <2>1. S \cap ready \subseteq Others
    BY <1>1 DEF Of
  <2>2. IsFiniteSet(Others) /\ Cardinality(Others) = Cardinality(Of(p)) - Cardinality(Of(p) \cap Holders)
    BY FS_Difference
  <2>3. Of(p) \cap Holders = Holders
    OBVIOUS
  <2>4. IsFiniteSet(Holders) /\ Cardinality(Holders) \in Nat /\ Cardinality(Of(p)) \in Nat
    BY FS_Subset, FS_CardinalityType
  <2>5. SizeOfPool[p] - Cardinality(Holders) <= Cardinality(Free(p)) /\ Cardinality(Free(p)) \in Nat
    BY <1>1, FreePlaces
  <2>6. Cardinality(S \cap ready) <= Cardinality(Others) /\ Cardinality(Others) \in Nat
    BY <2>1, <2>2, FS_Subset, FS_CardinalityType
  <2>7. Cardinality(S \cap ready) = Cardinality(Others)
    BY <1>1, <1>3, <2>2, <2>3, <2>4, <2>5, <2>6
  <2>8. S \cap ready = Others
    BY <2>1, <2>2, <2>7, FS_Subset
  <2> QED BY <1>1, <2>8
<1> QED BY <1>1, <1>2, <1>3

\* A task coupled to one that has a place has been loaded, and has its place
\* too as long as it is to be connected.
PlaceTogether ==
  \A x \in Elem : \A y \in Coupled(x) \cap Pooled :
    place[y] # 0 => /\ state[x] # "READY"
                    /\ (pc # "end" /\ state[x] = "TOLOAD") => place[x] # 0

\* A task that is connected has its place.
ConnectedHold == \A n \in Pooled : state[n] \in {"LOADED", "TOACTIVATE"} => place[n] # 0

\* The invariant of the refinement, but for what an exception in RunB leaves.
PoolXInv ==
  /\ RunningAreActivated /\ LoadInv /\ NoSteps
  /\ pc # "end" => XInv

TogetherInv == PInv /\ IInv /\ PlaceInv /\ PoolXInv /\ PlaceTogether /\ ConnectedHold

LEMMA SelectTogether ==
  ASSUME TogetherInv, PoolsFit, SelectPlaced, pc' = "mode",
         NEW y \in tasks', NEW x \in Coupled(y), x \in ReadyTasks
  PROVE  x \in tasks'
<1>1. pc = "select" /\ tasks' \in Kept /\ y \in ReadyTasks
  BY DEF SelectPlaced, GetNextTasks
<1>2. /\ y \in Elem /\ x \in Elem /\ y \in Coupled(x)
      /\ state[y] \in {"TOACTIVATE", "TOLOAD"}
  BY <1>1, CoupledBoth DEF ReadyTasks
<1>3. \A n \in tasks' \cap Pooled : place[n] = 0
  BY PlacesGiven DEF Serves
<1>4. CASE x \notin Pooled
  BY <1>1, <1>4 DEF Kept
<1>5. CASE x \in Pooled
  <2>1. y \in Pooled /\ place[y] = 0
    BY <1>2, <1>3, <1>5 DEF PoolsFit
  <2>2. state[y] = "TOLOAD"
    BY <1>2, <2>1 DEF TogetherInv, ConnectedHold
  <2>3. place[x] = 0
    BY <1>1, <1>2, <1>5, <2>1, <2>2 DEF TogetherInv, PlaceTogether
  <2>4. IsFiniteSet(Of(PoolOf[x])) /\ Cardinality(Of(PoolOf[x])) <= SizeOfPool[PoolOf[x]]
    BY <1>2, <1>5 DEF PoolsFit
  <2> QED BY <1>1, <1>3, <1>5, <2>3, <2>4, LargePoolKeeps DEF TogetherInv, PInv
<1> QED BY <1>4, <1>5

\* The selection keeps the coupled tasks together, unless it throws.
LEMMA SelectPlacedX ==
  ASSUME TogetherInv, PoolsFit, SelectPlaced
  PROVE  PoolXInv' /\ Next
<1> USE DEF locals, threads, wakeup, control, pilots
<1>1. /\ UNCHANGED <<state, gate, event, unset, running, loader, pilot>> /\ pc = "select"
      /\ pc' \in {"mode", "end"} /\ tasks' \subseteq ReadyTasks /\ event = NoEvent
  BY DEF SelectPlaced, GetNextTasks
<1>2. SInv
  BY <1>1 DEF TogetherInv, PInv, PoolXInv, SInv
<1>3. \A n \in Elem : loader[n] = "none"
  BY <1>1, <1>2, SInvTypes DEF SInv, XInv, LoadInv
<1>4. \A n \in ReadyTasks : n \in Elem /\ state[n] \in {"TOACTIVATE", "TOLOAD"}
  BY DEF ReadyTasks
<1>5. RunningAreActivated' /\ LoadInv' /\ NoSteps'
  BY <1>1, <1>2, <1>3 DEF SInv, XInv, RunningAreActivated, LoadInv, NoSteps
<1>6. ASSUME pc' # "end" PROVE CoupledInv'
  <2> SUFFICES ASSUME NEW x \in Elem, NEW y \in Coupled(x), y \in tasks'
               PROVE  /\ state[x] # "READY"
                      /\ state[x] = "TOLOAD" => x \in tasks'
    BY <1>1, <1>2 DEF SInv, XInv, CoupledInv
  <2>1. y \in Elem /\ x \in Coupled(y) /\ Enclosing[y] = Enclosing[x] /\ y \in ReadyTasks
    BY <1>1, CoupledBoth
  <2>2. state[x] # "READY"
    BY <1>2, <1>4, <2>1 DEF SInv, XInv, CoupledInv, Broken
  <2>3. state[x] = "TOLOAD" => x \in ReadyTasks
    BY <2>1 DEF ReadyTasks
  <2> QED BY <1>1, <1>6, <2>1, <2>2, <2>3, SelectTogether
<1>7. PoolXInv'
  BY <1>1, <1>4, <1>5, <1>6
     DEF PoolXInv, XInv, TasksInv, CurInv, Connecting, Launching
<1>8. Next
  <2>1. \E S \in SUBSET Elem : GetNextTasks(S)
    BY <1>4 DEF SelectPlaced, GetNextTasks
  <2> QED BY <2>1 DEF Next
<1> QED BY <1>7, <1>8

LEMMA SelectPlacedTogether ==
  ASSUME TogetherInv, PoolsFit, SelectPlaced
  PROVE  PlaceTogether' /\ ConnectedHold'
<1>1. /\ state' = state /\ pc = "select" /\ pc' \in {"mode", "end"}
      /\ tasks' \subseteq ReadyTasks
  BY DEF SelectPlaced, GetNextTasks
<1>2. PICK served \in SUBSET Pooled :
        /\ Serves(served) /\ served \subseteq tasks'
        /\ pc' = "mode" => tasks' \cap Pooled = served
  BY PlacesGiven
<1>3. /\ \A n \in Pooled : place[n] # 0 => place'[n] # 0
      /\ \A n \in served : place'[n] # 0
      /\ \A n \in Pooled \ served : place'[n] = place[n]
  BY <1>2 DEF Serves, Free
<1>4. ConnectedHold'
  BY <1>1, <1>3 DEF TogetherInv, ConnectedHold
<1>5. PlaceTogether'
  <2> SUFFICES ASSUME NEW x \in Elem, NEW y \in Coupled(x) \cap Pooled, place'[y] # 0
               PROVE  /\ state[x] # "READY"
                      /\ (pc' # "end" /\ state[x] = "TOLOAD") => place'[x] # 0
    BY <1>1 DEF PlaceTogether
  <2>0. /\ y \in Elem /\ x \in Coupled(y) /\ Enclosing[y] = Enclosing[x]
        /\ x \in Pooled
    BY CoupledBoth DEF PoolsFit
  <2>1. CASE place[y] # 0
    BY <1>1, <1>3, <2>0, <2>1 DEF TogetherInv, PlaceTogether
  <2>2. CASE place[y] = 0
    <3>1. y \in served /\ y \in ReadyTasks /\ state[y] \in {"TOACTIVATE", "TOLOAD"}
      BY <1>1, <1>2, <1>3, <2>2 DEF ReadyTasks
    <3>2. state[x] # "READY"
      BY <1>1, <2>0, <3>1 DEF TogetherInv, PoolXInv, XInv, CoupledInv, Broken
    <3>3. ASSUME pc' = "mode", state[x] = "TOLOAD" PROVE place'[x] # 0
      <4>1. x \in ReadyTasks
        BY <2>0, <3>1, <3>3 DEF ReadyTasks
      <4>2. x \in tasks'
        BY <1>2, <2>0, <3>1, <3>3, <4>1, SelectTogether
      <4> QED BY <1>2, <1>3, <2>0, <3>3, <4>2
    <3> QED BY <1>1, <3>2, <3>3
  <2> QED BY <2>1, <2>2
<1> QED BY <1>4, <1>5

\* What a step of the executor does to the state of a task.
LEMMA ExecNode ==
  ASSUME TInv, NEW n \in Elem, [ExecNext]_execVars
  PROVE  \/ state'[n] = state[n]
         \/ state'[n] \in {"FAILED", "INTERNALERR", "ERROR", "ACTIVATED", "DONE"}
         \/ state[n] = "READY" /\ state'[n] = "TOLOAD"
         \/ state[n] = "LOADED" /\ state'[n] = "TOACTIVATE"
         \/ ConnectService /\ n = cur
<1>0. state \in [Nodes -> State] /\ n \in Nodes /\ TypeOK
  BY Graph DEF TInv, ExecTypeOK, TypeOK
<1>1. CASE \/ Start \/ (\E x \in Invalid : StartThrows(x)) \/ Climb
  <2>1. \/ StartSchema
        \/ \E x \in Invalid : StartSchemaThrows(x)
        \/ UpdateStateFrom
    BY <1>1 DEF Start, StartThrows, Climb
  <2> QED BY <1>0, <2>1, EngineSteps
<1>2. CASE \/ Sleep \/ SpuriousWakeUp \/ Woken \/ Select \/ ReadMode \/ CheckBreakPoints
           \/ Resumed \/ Load \/ Join \/ ReadToConnect \/ ReadFailed \/ ReadToLaunch \/ Acquire
           \/ Check \/ Stopped \/ UNCHANGED execVars
  BY <1>2 DEF Sleep, SpuriousWakeUp, Woken, Select, GetNextTasks, ReadMode, CheckBreakPoints,
     Resumed, Load, Join, ReadToConnect, ReadFailed, ReadToLaunch, Acquire, Check, Stopped,
     graph, execVars
<1>3. CASE ConnectService \/ AbortCoupled \/ Launch
  BY <1>0, <1>3 DEF ConnectService, AbortCoupled, Launch, Notify
<1>4. ASSUME NEW m \in Elem, LoadTask(m) \/ TaskEnds(m)
      PROVE  state'[n] = state[n] \/ state'[n] \in {"ERROR", "DONE"}
  BY <1>0, <1>4 DEF LoadTask, TaskEnds, Notify
<1>5. ASSUME NEW p \in Pilots, Pilot(p) PROVE state' = state
  BY <1>5 DEF Pilot, SetExecMode, Resume, ResumeCurrentBreakPoint, StopExecution, WaitPause,
     SetStepsToExecute, SetStepsUnlocked, graph
<1> QED BY <1>1, <1>2, <1>3, <1>4, <1>5 DEF ExecNext, RunB

\* Once RunB is over, what is left is the end of the tasks that run.
LEMMA AfterTheEnd ==
  ASSUME "steps" \notin Calls, TInv, IInv, PoolXInv, pc = "end", [ExecNext]_execVars
  PROVE  pc' = "end" /\ PoolXInv' /\ [Next]_vars
<1> USE DEF locals, threads, wakeup, control, pilots
<1>0. /\ TypeOK /\ RunningAreActivated /\ NoSteps /\ \A n \in Elem : loader[n] = "none"
      /\ state \in [Nodes -> State]
  BY DEF PoolXInv, LoadInv, TInv, ExecTypeOK, TypeOK
<1>1. CASE Climb
  <2>1. /\ UNCHANGED <<pc, loader, running, pilot, tasks>> /\ Next
    BY <1>1, UpdateKeepsTasks DEF Climb, Next
  <2>2. \A n \in Elem : state'[n] = "ACTIVATED" <=> state[n] = "ACTIVATED"
    BY <1>1, EngineRunning DEF Climb
  <2> QED BY <1>0, <2>1, <2>2 DEF PoolXInv, RunningAreActivated, LoadInv, NoSteps
<1>2. ASSUME NEW n \in Elem, TaskEnds(n) PROVE pc' = "end" /\ PoolXInv' /\ [Next]_vars
  <2>1. /\ UNCHANGED <<loader, pilot, tasks>> /\ pc' = "end"
        /\ n \in running /\ running' = running \ {n}
    BY <1>2 DEF TaskEnds, WakeUp
  <2>2. \A m \in Elem \ {n} : m \in Nodes /\ state'[m] = state[m]
    BY <1>0, <1>2, Graph DEF TaskEnds, Notify
  <2>3. n \in Nodes /\ state'[n] \in {"DONE", "ERROR"} /\ state[n] = "ACTIVATED"
    BY <1>0, <1>2, Graph DEF TaskEnds, Notify, RunningAreActivated
  <2>4. Finished(n) \/ Aborted(n)
    BY <1>2, <2>3 DEF TaskEnds, Finished, Aborted, Locked
  <2> QED BY <1>0, <2>1, <2>2, <2>3, <2>4
          DEF PoolXInv, RunningAreActivated, LoadInv, NoSteps, Next, TaskCall
<1>3. ASSUME NEW p \in Pilots, Pilot(p) PROVE pc' = "end" /\ PoolXInv' /\ [Next]_vars
  <2>1. ~ (\E S \in SUBSET Elem : SetStepsToExecute(p, S)) /\ ~ SetStepsUnlocked(p)
    BY <1>0 DEF SetStepsToExecute, SetStepsUnlocked, NoSteps
  <2>2. /\ UNCHANGED <<graph, tasks, running, loader>> /\ pc' = "end"
        /\ \/ pilot' = pilot
           \/ \E v \in {"idle", "wait", "stop1", "stop2"} : pilot' = [pilot EXCEPT ![p] = v]
    BY <1>3, <2>1 DEF Pilot, SetExecMode, Resume, StopExecution, ResumeCurrentBreakPoint,
       WaitPause
  <2>3. NoSteps'
    BY <1>0, <2>2 DEF TInv, ExecTypeOK, NoSteps
  <2> QED BY <1>0, <2>2, <2>3 DEF PoolXInv, RunningAreActivated, LoadInv, graph, vars
<1>4. CASE UNCHANGED execVars
  BY <1>0, <1>4 DEF execVars, graph, vars, PoolXInv, RunningAreActivated, LoadInv, NoSteps
<1>5. ~ RunB /\ ~ SpuriousWakeUp /\ \A n \in Elem : ~ LoadTask(n)
  BY <1>0 DEF RunB, Start, StartThrows, Sleep, Woken, Select, ReadMode, CheckBreakPoints, Resumed,
     Load, Join, ReadToConnect, ConnectService, ReadFailed, AbortCoupled, ReadToLaunch,
     Acquire, Launch, Check, Stopped, SpuriousWakeUp, LoadTask
<1> QED BY <1>1, <1>2, <1>3, <1>4, <1>5 DEF ExecNext

\* Every other step keeps the places of the coupled tasks.
LEMMA StepTogether ==
  ASSUME TogetherInv, PoolsFit, [ExecNext]_execVars, place' = place,
         pc = "end" => pc' = "end"
  PROVE  PlaceTogether' /\ ConnectedHold'
<1>1. ASSUME ConnectService
      PROVE  cur \in Elem /\ HasPlace(cur) /\ \A y \in Coupled(cur) : cur \in Elem
  <2>1. pc = "connecting" /\ SInv
    BY <1>1 DEF ConnectService, TogetherInv, PInv, PoolXInv, SInv
  <2> QED BY <2>1, SInvTypes DEF TogetherInv, PlaceInv, BeforeLaunch, Connecting
<1>2. ConnectedHold'
  <2> SUFFICES ASSUME NEW n \in Pooled, state'[n] \in {"LOADED", "TOACTIVATE"}
               PROVE  place[n] # 0
    BY DEF ConnectedHold
  <2>1. n \in Elem
    BY PoolAssumption
  <2>2. \/ state'[n] = state[n]
        \/ state[n] = "LOADED" /\ state'[n] = "TOACTIVATE"
        \/ ConnectService /\ n = cur
    BY <2>1, ExecNode DEF TogetherInv, PInv
  <2> QED BY <1>1, <2>2 DEF TogetherInv, ConnectedHold, HasPlace
<1>3. PlaceTogether'
  <2> SUFFICES ASSUME NEW x \in Elem, NEW y \in Coupled(x) \cap Pooled, place[y] # 0
               PROVE  /\ state'[x] # "READY"
                      /\ (pc' # "end" /\ state'[x] = "TOLOAD") => place[x] # 0
    BY DEF PlaceTogether
  <2>1. /\ state[x] # "READY"
        /\ (pc # "end" /\ state[x] = "TOLOAD") => place[x] # 0
    BY DEF TogetherInv, PlaceTogether
  <2>2. \/ state'[x] = state[x] \/ state'[x] \notin {"READY", "TOLOAD"}
        \/ state[x] = "READY"
    <3>1. CASE ConnectService /\ x = cur
      <4>1. state'[x] \in {"LOADED", "TOACTIVATE", "ERROR"}
        <5>1. state \in [Nodes -> State] /\ x \in Nodes
          BY Graph DEF TogetherInv, PInv, TInv, ExecTypeOK, TypeOK
        <5> QED BY <3>1, <5>1 DEF ConnectService, ConnectedState, Notify
      <4> QED BY <4>1
    <3>2. CASE ~ (ConnectService /\ x = cur)
      BY <3>2, ExecNode DEF TogetherInv, PInv
    <3> QED BY <3>1, <3>2
  <2> QED BY <2>1, <2>2
<1> QED BY <1>2, <1>3

LEMMA ReleaseTogether ==
  ASSUME TogetherInv, PoolsFit, NEW n \in Elem, Release(n)
  PROVE  PlaceTogether' /\ ConnectedHold'
<1>1. /\ UNCHANGED <<state, pc>> /\ n \in running
      /\ \A m \in Pooled : place'[m] = place[m] \/ (m = n /\ place'[m] = 0)
  BY DEF Release, execVars, graph, TogetherInv, PInv, PoolTypeOK
<1>2. state[n] = "ACTIVATED"
  BY <1>1 DEF TogetherInv, PoolXInv, RunningAreActivated
<1>3. ConnectedHold'
  BY <1>1, <1>2 DEF TogetherInv, ConnectedHold
<1>4. PlaceTogether'
  <2> SUFFICES ASSUME NEW x \in Elem, NEW y \in Coupled(x) \cap Pooled, place'[y] # 0
               PROVE  /\ state[x] # "READY"
                      /\ (pc # "end" /\ state[x] = "TOLOAD") => place'[x] # 0
    BY <1>1 DEF PlaceTogether
  <2>1. place[y] # 0
    BY <1>1
  <2>2. CASE x = n
    BY <1>2, <2>2
  <2>3. CASE x # n
    <3>1. x \in Pooled
      BY DEF PoolsFit
    <3>2. place'[x] = place[x]
      BY <1>1, <2>3, <3>1
    <3> QED BY <2>1, <3>2 DEF TogetherInv, PlaceTogether
  <2> QED BY <2>2, <2>3
<1> QED BY <1>3, <1>4

LEMMA TogetherInit ==
  ASSUME "steps" \notin Calls
  PROVE  PoolInit => TogetherInv
<1> SUFFICES ASSUME PoolInit PROVE TogetherInv
  OBVIOUS
<1>1. PInv /\ PlaceInv /\ XInv /\ IInv
  BY PInvInit, PlaceInit, InitX, InitInv DEF PoolInit, ExecInit
<1>2. \A n \in Pooled : place[n] = 0
  BY DEF PoolInit
<1>3. PlaceTogether
  BY <1>2 DEF PlaceTogether
<1>4. ConnectedHold
  BY PoolAssumption, Graph DEF ConnectedHold, PoolInit, ExecInit, Init
<1> QED BY <1>1, <1>3, <1>4 DEF TogetherInv, PoolXInv, XInv

LEMMA TogetherKept ==
  ASSUME "steps" \notin Calls, NoChains, PoolsFit, TogetherInv, [PoolNext]_pooledVars
  PROVE  TogetherInv' /\ [Next]_vars
<1>1. PInv' /\ PlaceInv'
  BY PInvKept, PlaceKept DEF TogetherInv
<1>2. CASE SelectPlaced
  <2>1. PoolXInv' /\ Next
    BY <1>2, SelectPlacedX
  <2>2. PlaceTogether' /\ ConnectedHold'
    BY <1>2, SelectPlacedTogether
  <2> QED BY <1>1, <2>1, <2>2, StepInv DEF TogetherInv
<1>3. ASSUME NEW n \in Elem, Release(n) PROVE TogetherInv' /\ [Next]_vars
  <2>1. UNCHANGED execVars
    BY <1>3 DEF Release
  <2>2. UNCHANGED vars
    BY <2>1 DEF execVars, graph, vars
  <2>3. PoolXInv'
    BY <2>1 DEF TogetherInv, PoolXInv, XInv, RunningAreActivated, CoupledInv, TasksInv, LoadInv,
       CurInv, NoSteps, Connecting, Launching, execVars, graph, locals, threads, pilots
  <2>4. PlaceTogether' /\ ConnectedHold'
    BY <1>3, ReleaseTogether DEF TogetherInv
  <2>5. IInv'
    BY <2>2, StepInv DEF TogetherInv
  <2> QED BY <1>1, <2>2, <2>3, <2>4, <2>5 DEF TogetherInv
<1>4. CASE [ExecNext]_execVars /\ place' = place
  <2>1. /\ pc = "end" => pc' = "end"
        /\ PoolXInv' /\ [Next]_vars
    <3>1. CASE pc = "end"
      BY <1>4, <3>1, AfterTheEnd DEF TogetherInv, PInv
    <3>2. CASE pc # "end"
      <4>1. SInv
        BY <3>2 DEF TogetherInv, PInv, PoolXInv, SInv
      <4>2. XInv' /\ [Next]_vars
        BY <1>4, <4>1, StepX, Simulation
      <4> QED BY <3>2, <4>2 DEF PoolXInv, XInv
    <3> QED BY <3>1, <3>2
  <2>2. PlaceTogether' /\ ConnectedHold'
    BY <1>4, <2>1, StepTogether
  <2>3. IInv'
    BY <2>1, StepInv DEF TogetherInv
  <2> QED BY <1>1, <2>1, <2>2, <2>3 DEF TogetherInv
<1> QED BY <1>2, <1>3, <1>4, PoolSteps

LEMMA TogetherAlways ==
  ASSUME "steps" \notin Calls, NoChains, PoolsFit
  PROVE  PoolSpec => []TogetherInv
<1>1. PoolInit => TogetherInv
  BY TogetherInit
<1>2. TogetherInv /\ [PoolNext]_pooledVars => TogetherInv'
  BY TogetherKept
<1> QED BY <1>1, <1>2, PTL DEF PoolSpec

\* On pools, too, the executor makes only calls that Scheduler allows, up to
\* the exception that allocateFor may throw and after it.
THEOREM PoolImplements ==
  ASSUME "steps" \notin Calls, NoChains, PoolsFit
  PROVE  PoolSpec => ImplementsScheduler
<1>1. PoolInit => Init
  BY DEF PoolInit, ExecInit
<1>2. TogetherInv /\ [PoolNext]_pooledVars => [Next]_vars
  BY TogetherKept
<1> QED BY <1>1, <1>2, TogetherAlways, PTL DEF PoolSpec, Spec, ImplementsScheduler
-----------------------------------------------------------------------------
(* The end of RunB.  A round that finds nothing to do while no task runs   *)
(* is still in that state when it decides whether to go on: nothing is     *)
(* left that could move.                                                   *)

\* No task runs or is being loaded, and no event climbs.
Still == event = NoEvent /\ running = {} /\ \A n \in Elem : loader[n] = "none"

OutOfRound == {"start", "sleep", "waiting", "woken", "select", "stopping", "end"}

\* A round that has found nothing to do, and the places RunB comes to in it.
FoundNothing == noTask /\ pc \notin OutOfRound
IdlePlaces   == {"mode", "step", "nodes", "paused", "resumed", "load", "join", "connect",
                 "launch", "check"}

IdleInv ==
  /\ NoSteps
  /\ pc = "start" => running = {}
  /\ pc # "join" => \A n \in Elem : loader[n] = "none"
  /\ FoundNothing => /\ pc \in IdlePlaces /\ Still /\ tasks = {}
                     /\ pc \in {"connect", "launch"} => todo = {}
  /\ executorState = "FINISHED" => pc = "end" /\ Still

LEMMA IdleInit == ExecInit => IdleInv
BY DEF ExecInit, Init, IdleInv, NoSteps, FoundNothing, OutOfRound

\* getNextTasks, whichever of the tasks are kept.
LEMMA SelectIdle ==
  ASSUME IdleInv, pc = "select", GetNextTasks(tasks'), pc' \in {"mode", "end"},
         pc' = "mode" => noTask' = (running = {} /\ tasks' = {}),
         UNCHANGED <<running, loader, pilot, executorState>>
  PROVE  IdleInv'
BY DEF IdleInv, GetNextTasks, NoSteps, FoundNothing, OutOfRound, IdlePlaces, Still

\* What a step does to the places of an idle round, and to those who are done.
IdleKept ==
  /\ IdleInv'
  /\ FoundNothing' => FoundNothing
  /\ FoundNothing \/ executorState = "FINISHED" => UNCHANGED <<graph, running>>
  /\ executorState' = "FINISHED" => \/ executorState = "FINISHED"
                                    \/ Check \/ (\E x \in Invalid : StartThrows(x))

LEMMA RunIdle ==
  ASSUME TInv, IdleInv, RunB, pc # "select"
  PROVE  IdleKept
<1> USE DEF IdleInv, IdleKept, FoundNothing, OutOfRound, IdlePlaces, Still, NoSteps, Locked,
            graph, locals, threads, wakeup, control, pilots
<1>1. CASE Start
  BY <1>1 DEF Start, StartSchema
<1>2. ASSUME NEW x \in Invalid, StartThrows(x) PROVE IdleKept
  BY <1>2 DEF StartThrows, StartSchemaThrows
<1>3. CASE Sleep \/ Woken \/ ReadMode \/ Resumed
  BY <1>3 DEF Sleep, Woken, ReadMode, Resumed
<1>4. CASE CheckBreakPoints \/ Check
  <2>1. (\A p \in Pilots : pilot[p] # "steps") => \A p \in Pilots : PilotsWoken[p] # "steps"
    BY DEF PilotsWoken
  <2> QED BY <1>4, <2>1 DEF CheckBreakPoints, Check
<1>5. CASE Stopped
  BY <1>5 DEF Stopped
<1>6. CASE Load
  <2>1. tasks = {} => \A n \in Elem : loader'[n] = "none"
    BY <1>6 DEF Load
  <2> QED BY <1>6, <2>1 DEF Load
<1>7. CASE Join
  BY <1>7 DEF Join
<1>8. CASE ReadToConnect \/ ReadToLaunch
  BY <1>8 DEF ReadToConnect, ReadToLaunch
<1>9. CASE ConnectService \/ ReadFailed \/ AbortCoupled \/ Acquire \/ Launch
  BY <1>9 DEF ConnectService, ReadFailed, AbortCoupled, Acquire, Launch
<1> QED BY <1>1, <1>2, <1>3, <1>4, <1>5, <1>6, <1>7, <1>8, <1>9 DEF RunB, Select

LEMMA StepIdle ==
  ASSUME "steps" \notin Calls, TInv, IdleInv,
         \/ RunB /\ pc # "select"
         \/ SpuriousWakeUp \/ Climb
         \/ \E n \in Elem : LoadTask(n) \/ TaskEnds(n)
         \/ \E p \in Pilots : Pilot(p)
         \/ UNCHANGED execVars
  PROVE  IdleKept
<1> USE DEF IdleInv, IdleKept, FoundNothing, OutOfRound, IdlePlaces, Still, NoSteps, Locked,
            graph, locals, threads, wakeup, control, pilots
<1>1. CASE SpuriousWakeUp
  BY <1>1 DEF SpuriousWakeUp
<1>2. CASE Climb
  <2>1. event # NoEvent /\ tasks' = tasks
    BY <1>2, UpdateKeepsTasks, KindIsAnEvent DEF Climb, TInv, ExecTypeOK, TypeOK, UpdateStateFrom,
       OnStartEvent, OnLastFinished, OnFinished, OnFinishedThrows, OnFailed, NoEvent
  <2> QED BY <1>2, <2>1 DEF Climb
<1>3. ASSUME NEW n \in Elem, LoadTask(n) PROVE IdleKept
  <2>1. loader[n] # "none" /\ pc = "join"
    BY <1>3 DEF LoadTask
  <2>2. UNCHANGED <<pc, executorState, pilot, noTask>>
    BY <1>3 DEF LoadTask
  <2> QED BY <2>1, <2>2
<1>4. ASSUME NEW n \in Elem, TaskEnds(n) PROVE IdleKept
  <2>1. /\ UNCHANGED <<executorState, pilot, loader, noTask, tasks, todo>> /\ n \in running
        /\ pc' = pc \/ (pc = "waiting" /\ pc' = "woken")
    BY <1>4 DEF TaskEnds, WakeUp
  <2> QED BY <2>1
<1>5. ASSUME NEW p \in Pilots, Pilot(p) PROVE IdleKept
  <2>1. ~ (\E S \in SUBSET Elem : SetStepsToExecute(p, S)) /\ ~ SetStepsUnlocked(p)
    BY <1>5 DEF SetStepsToExecute, SetStepsUnlocked
  <2>2. /\ UNCHANGED <<graph, tasks, running, loader, todo, noTask>>
        /\ pc' = pc \/ (pc = "paused" /\ pc' = "resumed")
        /\ executorState' = executorState \/ (executorState = "PAUSED" /\ executorState' = "RUNNING")
    BY <1>5, <2>1 DEF Pilot, SetExecMode, Resume, StopExecution, ResumeCurrentBreakPoint,
       WaitPause
  <2>3. \/ pilot' = pilot
        \/ \E v \in {"idle", "wait", "stop1", "stop2"} : pilot' = [pilot EXCEPT ![p] = v]
    BY <1>5, <2>1 DEF Pilot, SetExecMode, Resume, StopExecution, ResumeCurrentBreakPoint,
       WaitPause
  <2>4. NoSteps'
    BY <2>3 DEF TInv, ExecTypeOK
  <2> QED BY <2>2, <2>4
<1>6. CASE UNCHANGED execVars
  BY <1>6 DEF execVars
<1> QED BY <1>1, <1>2, <1>3, <1>4, <1>5, <1>6, RunIdle

\* A schema that could be started has been, once RunB is on its way.
RootEntered == pc # "start" /\ ~ StartThrew => state[Root] # "READY"

LEMMA RootStaysEntered ==
  ASSUME IInv, [Next]_vars, RootEntered, [ExecNext]_execVars
  PROVE  RootEntered'
<1>1. Root \in Nodes /\ state \in [Nodes -> State]
  BY Graph DEF IInv, TypeOK
<1>2. unset' = unset
  BY DEF Next, vars, StartSchema, StartSchemaThrows, UpdateStateFrom, OnStartEvent,
     OnLastFinished, OnFinished, OnFinishedThrows, OnFailed, GetNextTasks, DropTasks, TaskCall,
     TaskStarted, TaskNotLoaded, Connected, CoupledAborted, Begin, Finished, Aborted
<1>3. state'[Root] = "READY" => state[Root] = "READY"
  <2>1. CASE Next
    BY <1>1, <2>1, NextKeeps DEF Sound
  <2> QED BY <2>1 DEF vars
<1>4. ASSUME pc = "start", pc' # "start" PROVE RootEntered'
  <2>1. Start \/ \E x \in Invalid : StartThrows(x)
    BY <1>4 DEF ExecNext, RunB, Sleep, Woken, Select, ReadMode, CheckBreakPoints, Resumed, Load,
       Join, ReadToConnect, ConnectService, ReadFailed, AbortCoupled, ReadToLaunch, Acquire,
       Launch, Check, Stopped, SpuriousWakeUp, Climb, LoadTask, TaskEnds, WakeUp, Pilot,
       SetExecMode, Resume, StopExecution, ResumeCurrentBreakPoint, WaitPause,
       SetStepsToExecute, SetStepsUnlocked, execVars, wakeup
  <2>2. CASE Start
    <3>1. /\ state' = Updated(state, Entered[Root]) /\ state[Root] = "READY"
      BY <2>2 DEF Start, StartSchema
    <3>2. Root \in Entered[Root]
      BY RootEnabled DEF Entered
    <3>3. Entered[Root] \in SUBSET Nodes
      BY <1>1 DEF Entered
    <3> QED BY <1>1, <3>1, <3>2, <3>3, UpdatedVisited DEF RootEntered
  <2>3. ASSUME NEW x \in Invalid, StartThrows(x) PROVE RootEntered'
    BY <1>2, <2>3 DEF StartThrows, StartSchemaThrows, RootEntered, StartThrew
  <2> QED BY <2>1, <2>2, <2>3
<1> QED BY <1>2, <1>3, <1>4 DEF RootEntered, StartThrew

\* What the executor promises of the end of a run, and what it rests on.
EndsWell ==
  /\ IdleInv /\ RootEntered /\ FinishedMeansFinished
  /\ FoundNothing => ReadyTasks = {}

LEMMA EndsWellKept ==
  ASSUME "steps" \notin Calls, NoChains, SInv, NoDeadEnd, EndsWell, [ExecNext]_execVars
  PROVE  EndsWell'
<1>1. RootEntered'
  BY Simulation, RootStaysEntered DEF SInv, EndsWell
<1>2. CASE Select
  <2>1. /\ GetNextTasks(ReadyTasks) /\ tasks' = ReadyTasks /\ pc = "select" /\ pc' = "mode"
        /\ noTask' = (running = {} /\ ReadyTasks = {})
        /\ UNCHANGED <<state, running, loader, pilot, executorState>>
    BY <1>2 DEF Select, GetNextTasks, threads, control, pilots
  <2>2. IdleInv'
    BY <2>1, SelectIdle DEF EndsWell
  <2>3. FinishedMeansFinished'
    BY <2>1 DEF EndsWell, IdleInv, FinishedMeansFinished
  <2>4. ReadyTasks' = ReadyTasks
    BY <2>1 DEF ReadyTasks
  <2> QED BY <1>1, <2>1, <2>2, <2>3, <2>4 DEF EndsWell, FoundNothing
<1>3. CASE ~ Select
  <2>1. IdleKept
    <3>1. RunB => RunB /\ pc # "select"
      BY <1>3 DEF RunB, Start, StartThrows, Sleep, Woken, ReadMode, CheckBreakPoints, Resumed,
         Load, Join, ReadToConnect, ConnectService, ReadFailed, AbortCoupled, ReadToLaunch,
         Acquire, Launch, Check, Stopped
    <3> QED BY <3>1, StepIdle DEF SInv, EndsWell, ExecNext
  <2>2. (FoundNothing => ReadyTasks = {})'
    <3>1. UNCHANGED state => ReadyTasks' = ReadyTasks
      BY DEF ReadyTasks
    <3> QED BY <2>1, <3>1 DEF IdleKept, EndsWell, graph
  <2>3. FinishedMeansFinished'
    <3>1. CASE executorState = "FINISHED"
      BY <2>1, <3>1 DEF IdleKept, EndsWell, FinishedMeansFinished, IsFinished, StartThrew, graph
    <3>2. ASSUME NEW x \in Invalid, StartThrows(x) PROVE FinishedMeansFinished'
      <4>1. StartThrew' /\ running' = {}
        BY <3>2 DEF StartThrows, StartSchemaThrows, StartThrew, EndsWell, IdleInv, threads
      <4> QED BY <4>1 DEF FinishedMeansFinished
    <3>3. CASE Check
      <4>1. FoundNothing => running = {} /\ (IsFinished(Root) \/ StartThrew)
        <5> SUFFICES ASSUME FoundNothing PROVE running = {} /\ (IsFinished(Root) \/ StartThrew)
          OBVIOUS
        <5>1. event = NoEvent /\ running = {} /\ ReadyTasks = {} /\ pc # "start"
          BY DEF EndsWell, IdleInv, Still, FoundNothing, OutOfRound
        <5>2. \A n \in Elem : state[n] # "ACTIVATED"
          BY <5>1 DEF SInv, XInv, RunningAreActivated
        <5> QED BY <5>1, <5>2 DEF NoDeadEnd, EndsWell, RootEntered
      <4>2. /\ pc = "check" /\ UNCHANGED <<state, unset, running>>
            /\ executorState' = "FINISHED" /\ executorState # "FINISHED" =>
                 noTask \/ (running = {} /\ IsFinished(Root))
        BY <3>3 DEF Check, graph, threads
      <4>3. UNCHANGED <<IsFinished(Root), StartThrew>>
        BY <4>2 DEF IsFinished, StartThrew
      <4>4. executorState # "FINISHED"
        BY <4>2 DEF EndsWell, IdleInv
      <4> QED BY <4>1, <4>2, <4>3, <4>4 DEF FoundNothing, OutOfRound, FinishedMeansFinished
    <3> QED BY <2>1, <3>1, <3>2, <3>3 DEF IdleKept, FinishedMeansFinished
  <2> QED BY <1>1, <2>1, <2>2, <2>3 DEF EndsWell, IdleKept
<1> QED BY <1>2, <1>3

\* FINISHED means finished: RunB never gives up on a schema after its rounds
\* without a task, if coupled nodes wait for the same nodes.
THEOREM GivesUpOnNothing ==
  ASSUME "steps" \notin Calls, NoChains,
         IsFiniteSet(Nodes), CoupledTogether, BlocsHaveWork
  PROVE  ExecSpec => []FinishedMeansFinished
<1>1. ExecInit => EndsWell
  <2> SUFFICES ASSUME ExecInit PROVE EndsWell
    OBVIOUS
  <2>1. pc = "start" /\ executorState # "FINISHED"
    BY DEF ExecInit
  <2> QED BY <2>1, IdleInit DEF EndsWell, RootEntered, FinishedMeansFinished, FoundNothing,
             OutOfRound
<1>2. SInv /\ NoDeadEnd /\ EndsWell /\ [ExecNext]_execVars => EndsWell'
  BY EndsWellKept
<1>3. EndsWell => FinishedMeansFinished
  BY DEF EndsWell
<1> QED BY <1>1, <1>2, <1>3, SInvKept, ExecutorDeadEnds, PTL DEF ExecSpec

\* On pools RunB may give up on an unfinished schema: every task that is ready
\* then is one of a pool that has no place left.
Stuck == /\ ReadyTasks \subseteq Pooled
         /\ \A n \in ReadyTasks : Free(PoolOf[n]) = {}

PoolEndsWell ==
  /\ IdleInv /\ GivesUpOnLostPlaces
  /\ FoundNothing => Stuck

LEMMA NothingKept ==
  ASSUME PoolTypeOK, {} \in Kept
  PROVE  Stuck
<1>1. ReadyTasks \subseteq Pooled
  BY DEF Kept
<1>2. ASSUME NEW n \in ReadyTasks PROVE Free(PoolOf[n]) = {}
  <2> DEFINE p     == PoolOf[n]
             ready == ReadyTasks \cap Of(p)
             sz    == Cardinality(Free(p))
  <2>1. p \in Pools /\ n \in ready /\ SizeOfPool[p] \in Nat
    BY <1>1, PoolAssumption DEF Of
  <2>2. Cardinality({} \cap ready) = sz
    BY <2>1 DEF Kept
  <2>3. IsFiniteSet(1 .. SizeOfPool[p]) /\ Free(p) \subseteq 1 .. SizeOfPool[p]
    BY <2>1, FS_Interval DEF Free
  <2>4. IsFiniteSet(Free(p)) /\ {} \cap ready = {} /\ Cardinality({}) = 0
    BY <2>3, FS_Subset, FS_EmptySet
  <2> QED BY <2>2, <2>4, FS_EmptySet
<1> QED BY <1>1, <1>2 DEF Stuck

LEMMA PoolEndsWellKept ==
  ASSUME "steps" \notin Calls, PInv, PoolEndsWell, [PoolNext]_pooledVars
  PROVE  PoolEndsWell'
<1>1. UNCHANGED <<state, place>> => UNCHANGED Stuck
  BY DEF Stuck, ReadyTasks, Free
<1>2. CASE SelectPlaced
  <2>1. /\ GetNextTasks(tasks') /\ tasks' \in Kept /\ pc = "select" /\ pc' \in {"mode", "end"}
        /\ pc' = "mode" => noTask' = (running = {} /\ tasks' = {})
        /\ UNCHANGED <<state, running, loader, pilot, executorState>>
    BY <1>2 DEF SelectPlaced, GetNextTasks, threads, control, pilots
  <2>2. IdleInv' /\ executorState # "FINISHED"
    BY <2>1, SelectIdle DEF PoolEndsWell, IdleInv
  <2>3. ASSUME FoundNothing' PROVE Stuck'
    <3>1. tasks' = {}
      BY <2>1, <2>3 DEF FoundNothing, OutOfRound
    <3>2. Stuck
      BY <2>1, <3>1, NothingKept DEF PInv
    <3>3. place' = place
      <4>1. PICK served \in SUBSET Pooled : Serves(served) /\ served \subseteq tasks'
        BY <1>2, PlacesGiven
      <4>2. served = {}
        BY <3>1, <4>1
      <4>3. place' = [n \in Pooled |-> place[n]]
        BY <1>2, <3>1 DEF SelectPlaced, GetNextTasks
      <4> QED BY <4>3 DEF PInv, PoolTypeOK
    <3> QED BY <1>1, <2>1, <3>2, <3>3
  <2> QED BY <2>1, <2>2, <2>3 DEF PoolEndsWell, GivesUpOnLostPlaces
<1>3. ASSUME NEW n \in Elem, Release(n) PROVE PoolEndsWell'
  <2>1. UNCHANGED execVars /\ running # {}
    BY <1>3 DEF Release
  <2>2. IdleKept
    BY <2>1, StepIdle DEF PInv, PoolEndsWell
  <2>3. ~ FoundNothing /\ executorState # "FINISHED"
    BY <2>1 DEF PoolEndsWell, IdleInv, Still
  <2> QED BY <2>1, <2>2, <2>3 DEF PoolEndsWell, IdleKept, FoundNothing, GivesUpOnLostPlaces,
             execVars, locals, control
<1>4. ASSUME IdleKept, place' = place PROVE PoolEndsWell'
  <2>1. FoundNothing \/ executorState = "FINISHED" => UNCHANGED <<state, unset, Stuck>>
    BY <1>1, <1>4 DEF IdleKept, graph
  <2>2. (FoundNothing => Stuck)'
    BY <1>4, <2>1 DEF IdleKept, PoolEndsWell
  <2>3. GivesUpOnLostPlaces'
    <3>1. CASE executorState = "FINISHED"
      BY <2>1, <3>1 DEF PoolEndsWell, GivesUpOnLostPlaces, IsFinished, StartThrew, Stuck
    <3>2. ASSUME NEW x \in Invalid, StartThrows(x) PROVE GivesUpOnLostPlaces'
      BY <3>2 DEF StartThrows, StartSchemaThrows, StartThrew, GivesUpOnLostPlaces
    <3>3. CASE Check
      <4>1. /\ pc = "check" /\ UNCHANGED <<state, unset, noTask>>
            /\ executorState' = "FINISHED" /\ executorState # "FINISHED" =>
                 noTask \/ (running = {} /\ IsFinished(Root))
        BY <3>3 DEF Check, graph
      <4>2. UNCHANGED <<IsFinished(Root), StartThrew, Stuck>>
        BY <1>1, <1>4, <4>1 DEF IsFinished, StartThrew
      <4>3. executorState # "FINISHED"
        BY <4>1 DEF PoolEndsWell, IdleInv
      <4>4. noTask => Stuck
        BY <4>1 DEF PoolEndsWell, FoundNothing, OutOfRound
      <4> QED BY <4>1, <4>2, <4>3, <4>4 DEF GivesUpOnLostPlaces, Stuck
    <3> QED BY <1>4, <3>1, <3>2, <3>3 DEF IdleKept, GivesUpOnLostPlaces
  <2> QED BY <1>4, <2>2, <2>3 DEF IdleKept, PoolEndsWell
<1>5. \/ SelectPlaced
      \/ \E n \in Elem : Release(n)
      \/ place' = place /\ \/ RunB /\ pc # "select"
                           \/ SpuriousWakeUp \/ Climb
                           \/ \E n \in Elem : LoadTask(n) \/ TaskEnds(n)
                           \/ \E p \in Pilots : Pilot(p)
                           \/ UNCHANGED execVars
  BY DEF PoolNext, RunThread, EndOfTask, poolVars, pooledVars
<1> QED BY <1>2, <1>3, <1>4, <1>5, StepIdle DEF PInv, PoolEndsWell

\* RunB gives up on an unfinished schema only if each task that is ready waits
\* for a pool all the places of which are taken; no task runs that could give
\* one back.
THEOREM GivesUpWithoutPlaces ==
  ASSUME "steps" \notin Calls
  PROVE  PoolSpec => []GivesUpOnLostPlaces
<1>1. PoolInit => PoolEndsWell
  <2> SUFFICES ASSUME PoolInit PROVE PoolEndsWell
    OBVIOUS
  <2>1. ExecInit /\ pc = "start" /\ executorState # "FINISHED"
    BY DEF PoolInit, ExecInit
  <2> QED BY <2>1, IdleInit DEF PoolEndsWell, GivesUpOnLostPlaces, FoundNothing, OutOfRound
<1>2. PInv /\ PoolEndsWell /\ [PoolNext]_pooledVars => PoolEndsWell'
  BY PoolEndsWellKept
<1>3. PoolEndsWell => GivesUpOnLostPlaces
  BY DEF PoolEndsWell
<1> QED BY <1>1, <1>2, <1>3, PInvInit, PInvKept, PTL DEF PoolSpec

-----------------------------------------------------------------------------
(* The sleep of RunB in mode CONTINUE.  What the selection of a round      *)
(* leaves out cannot run before a task has ended: if none has by the time  *)
(* RunB goes to sleep, there is nothing to do.                             *)

\* Nobody asks for a pause or for the end of the execution.
RunsOn ==
  FirstMode = "CONTINUE" /\ ~ StopOnError /\ Calls \subseteq {"CONTINUE", "resume", "wait"}

OnInv ==
  /\ execMode = "CONTINUE" /\ executorState # "PAUSED"
  /\ pc \notin {"step", "nodes", "paused", "resumed", "stopping"}
  /\ pc \notin {"start", "end"} => executorState = "RUNNING"
  /\ pc = "start" => running = {}
  /\ isWaiting => pc = "waiting"
  /\ \A p \in Pilots : pilot[p] \in {"idle", "wait"}

\* The nodes to be run, and the Blocs around the tasks.
ToRun  == {n \in Elem : state[n] \in {"TOLOAD", "TOACTIVATE"}}
Around == UNION {Enclosing[m] : m \in tasks}

\* No task has ended since the selection of the tasks.
Current ==
  \/ pc = "waiting"
  \/ ended = 0 /\ (pc \notin OutOfRound \/ (pc = "sleep" /\ running # {}))

\* Then the others, but those of X, wait for Blocs that only the end of a task
\* could enter: the events that climb are failures, and starts around the tasks.
OthersWait(X) ==
  /\ event.kind # "FINISH"
  /\ event.kind = "START" => Father[event.from] \in Around
  /\ \A n \in ToRun \ (tasks \cup X) :
       \E b \in Enclosing[n] \ Around : state[b] # "ACTIVATED"

\* And the tasks, once RunB is through with them, have been launched.
TasksLaunched ==
  /\ pc \in Launching => \A n \in tasks \ todo : state[n] # "TOACTIVATE"
  /\ pc \in {"check", "sleep", "waiting"} => ToRun \cap tasks = {}

Late(X) == Current => OthersWait(X) /\ TasksLaunched
LateInv == Late({})

\* What a round keeps on its way from the selection of its tasks to their launch.
RoundInv ==
  /\ \A n \in Elem : loader[n] # "none" => pc = "join" /\ n \in tasks
  /\ pc \in Connecting \cup Launching => todo \subseteq tasks
  /\ pc \in Connecting \ {"connect"} => cur \in tasks
  /\ pc \in Launching \ {"launch"} => cur \in todo
  /\ pc \in Launching => \A n \in tasks : state[n] # "TOLOAD"
  /\ event.kind = "ABORT" => state[event.from] \in {"ERROR", "FAILED"}

LEMMA RoundOfS == SInv => RoundInv
BY KindIsAnEvent DEF SInv, IInv, EventTrue, XInv, TasksInv, LoadInv, CurInv, RoundInv, TypeOK,
   Connecting, Launching

LInv == SInv /\ Awake /\ OnInv /\ LateInv

LEMMA LInvInit == RunsOn /\ ExecInit => OnInv /\ LateInv
BY DEF RunsOn, ExecInit, OnInv, LateInv, Late, Current, OutOfRound

LEMMA OnKept ==
  ASSUME ~ SpuriousWakeUps, RunsOn, TInv, Awake, OnInv, [ExecNext]_execVars
  PROVE  OnInv'
<1> USE DEF OnInv, graph, locals, threads, wakeup, control, pilots
<1>1. CASE Start \/ \E x \in Invalid : StartThrows(x)
  BY <1>1 DEF Start, StartThrows
<1>2. CASE \/ Sleep \/ Woken \/ Select \/ ReadMode \/ Resumed \/ Load \/ Join \/ ReadFailed
           \/ Acquire \/ ReadToConnect \/ ReadToLaunch
  BY <1>2 DEF Sleep, Woken, Select, ReadMode, Resumed, Load, Join, ReadFailed, Acquire,
              ReadToConnect, ReadToLaunch
<1>3. CASE CheckBreakPoints \/ Stopped
  BY <1>3 DEF CheckBreakPoints, Stopped
<1>4. CASE Check
  <2>1. (\A p \in Pilots : pilot[p] \in {"idle", "wait"})
          => \A p \in Pilots : PilotsWoken[p] \in {"idle", "wait"}
    BY DEF PilotsWoken
  <2> QED BY <1>4, <2>1 DEF Check
<1>5. CASE ConnectService \/ AbortCoupled \/ Launch
  BY <1>5 DEF ConnectService, AbortCoupled, Launch
<1>6. CASE SpuriousWakeUp
  BY <1>6 DEF SpuriousWakeUp
<1>7. CASE Climb
  BY <1>7 DEF Climb
<1>8. ASSUME NEW n \in Elem, LoadTask(n) PROVE OnInv'
  BY <1>8 DEF LoadTask
<1>9. ASSUME NEW n \in Elem, TaskEnds(n) PROVE OnInv'
  <2>1. /\ UNCHANGED <<executorState, execMode, pilot>>
        /\ running' = running \ {n} /\ n \in running
    BY <1>9 DEF TaskEnds, RunsOn
  <2>2. WakeUp
    BY <1>9 DEF TaskEnds
  <2>3. /\ pc' = pc \/ (pc = "waiting" /\ pc' = "woken")
        /\ isWaiting' => isWaiting /\ pc' = pc
    BY <2>2 DEF WakeUp
  <2> QED BY <2>1, <2>3
<1>10. ASSUME NEW p \in Pilots, Pilot(p) PROVE OnInv'
  <2>1. \/ SetExecMode(p, "CONTINUE") \/ Resume(p) \/ WaitPause(p)
    BY <1>10 DEF Pilot, SetExecMode, StopExecution, SetStepsToExecute, SetStepsUnlocked, RunsOn
  <2>2. /\ UNCHANGED <<executorState, pc, running, isWaiting>> /\ execMode' = "CONTINUE"
        /\ pilot' = pilot \/ pilot' = [pilot EXCEPT ![p] = "wait"]
    BY <2>1 DEF SetExecMode, Resume, ResumeCurrentBreakPoint, WaitPause
  <2>3. \A q \in Pilots : pilot'[q] \in {"idle", "wait"}
    BY <2>2 DEF TInv, ExecTypeOK
  <2> QED BY <2>2, <2>3
<1>11. CASE UNCHANGED execVars
  BY <1>11 DEF execVars
<1> QED BY <1>1, <1>2, <1>3, <1>4, <1>5, <1>6, <1>7, <1>8, <1>9, <1>10, <1>11
        DEF ExecNext, RunB

\* Steps that keep the tasks, make no other node one to be run, and enter no
\* Bloc but those around the tasks.
LEMMA OthersStillWait ==
  ASSUME NEW X, OthersWait(X), tasks' = tasks, event'.kind # "FINISH",
         event'.kind = "START" => Father[event'.from] \in Around,
         \A n \in Elem \ tasks : n \in ToRun' => n \in ToRun,
         \A b \in Blocs \ Around : state'[b] = "ACTIVATED" => state[b] = "ACTIVATED"
  PROVE  OthersWait(X)'
<1>1. Around' = Around
  BY DEF Around
<1>2. ASSUME NEW n \in ToRun', n \notin tasks \cup X
      PROVE  \E b \in Enclosing[n] \ Around : state'[b] # "ACTIVATED"
  <2>1. n \in Elem /\ n \in ToRun /\ n \in Nodes
    BY <1>2, Graph DEF ToRun
  <2>2. PICK b \in Enclosing[n] \ Around : state[b] # "ACTIVATED"
    BY <1>2, <2>1 DEF OthersWait
  <2>3. b \in Blocs
    BY <2>1, <2>2 DEF Enclosing
  <2> QED BY <2>2, <2>3
<1> QED BY <1>1, <1>2 DEF OthersWait

\* Those that touch one of the tasks, or make a node fail.
LEMMA OneNodeWaits ==
  ASSUME TInv, NEW X, OthersWait(X), NEW n \in Elem, NEW v \in State,
         state' = [state EXCEPT ![n] = v], n \in tasks \/ v = "ERROR", tasks' = tasks,
         event'.kind # "FINISH",
         event'.kind = "START" => Father[event'.from] \in Around
  PROVE  OthersWait(X)'
<1>1. \A m \in Nodes : state'[m] = IF m = n THEN v ELSE state[m]
  BY TInvTypes
<1>2. \A m \in Elem \ tasks : m \in ToRun' => m \in ToRun
  BY <1>1, Graph DEF ToRun
<1>3. \A b \in Blocs \ Around : state'[b] = state[b]
  BY <1>1, Graph, GraphAssumption
<1> QED BY <1>2, <1>3, OthersStillWait

\* A task is inside its father, and so is what is inside the Blocs around it.
LEMMA FatherAround ==
  ASSUME NEW n \in Children, n \in tasks \/ n \in Around, tasks \subseteq Elem
  PROVE  Father[n] \in Around
<1>1. Father[n] \in Enclosing[n]
  BY EnclosingStep
<1>2. CASE n \in tasks
  BY <1>1, <1>2 DEF Around
<1>3. ASSUME NEW m \in tasks, n \in Enclosing[m] PROVE Father[n] \in Around
  <2>1. m \in Nodes /\ n \in Nodes
    BY Graph
  <2>2. Enclosing[n] \subseteq Enclosing[m]
    BY <1>3, <2>1, EnclosingTransitive
  <2> QED BY <1>1, <2>2 DEF Around
<1> QED BY <1>2, <1>3 DEF Around

\* What climbs after the selection enters nothing but Blocs around the tasks.
LEMMA ClimbWaits ==
  ASSUME TInv, RoundInv, NEW X, OthersWait(X), UpdateStateFrom
  PROVE  /\ OthersWait(X)'
         /\ \A n \in Elem : n \in ToRun' => n \in ToRun /\ state'[n] = state[n]
<1> DEFINE m == event.from
<1> DEFINE b == Father[m]
<1>0. /\ event \in Event /\ state \in [Nodes -> State] /\ tasks \subseteq Elem
      /\ \A n \in Elem : n \in Nodes /\ n \notin Blocs
  BY TInvTypes DEF TypeOK
<1>1. tasks' = tasks
  BY UpdateKeepsTasks
<1>2. CASE OnStartEvent
  <2>1. b \in Blocs /\ b \in Around
    BY <1>0, <1>2, KindIsAnEvent DEF OnStartEvent, OthersWait
  <2>2. \A n \in Nodes : n # b => state'[n] = state[n]
    BY <1>0, <1>2 DEF OnStartEvent
  <2>3. \A n \in Elem : state'[n] = state[n]
    BY <1>0, <2>1, <2>2
  <2>4. /\ event'.kind # "FINISH"
        /\ event'.kind = "START" => Father[event'.from] \in Around
    <3>1. CASE b = Root
      BY <1>2, <3>1 DEF OnStartEvent, ToFather, NoEvent
    <3>2. CASE b # Root
      <4>1. b \in Children
        BY <2>1, <3>2, Graph DEF Children, Nodes
      <4>2. event' = [from |-> b, kind |-> "START"]
        BY <1>2, <3>2 DEF OnStartEvent, ToFather
      <4>3. Father[b] \in Around
        BY <1>0, <2>1, <4>1, FatherAround
      <4> QED BY <4>2, <4>3
    <3> QED BY <3>1, <3>2
  <2>5. \A c \in Blocs \ Around : state'[c] = state[c]
    BY <2>1, <2>2, Graph
  <2>6. \A n \in Elem : n \in ToRun' => n \in ToRun
    BY <2>3 DEF ToRun
  <2> QED BY <1>1, <2>3, <2>4, <2>5, <2>6, OthersStillWait
<1>3. CASE OnFailed
  <2>1. /\ m \in Children /\ b \in Blocs /\ m \in ChildrenOf(b) /\ m \in Nodes
        /\ state[m] \in {"ERROR", "FAILED"}
    <3>1. event # NoEvent /\ m \in Children /\ b \in Blocs
      BY <1>0, <1>3, KindIsAnEvent DEF OnFailed
    <3> QED BY <1>3, <3>1, Graph DEF RoundInv, OnFailed, ChildrenOf
  <2>2. ~ AllDone(FailedAfter(state, m), b)
    BY <2>1 DEF AllDone, FailedAfter
  <2>3. /\ \A n \in Nodes : state'[n] = state[n] \/ state'[n] = "FAILED"
        /\ event'.kind \in {"ABORT", "NOEVENT"}
    <3>1. CASE AllFinished(FailedAfter(state, m), b)
      <4>1. Finish(FailedAfter(state, m), b)
        BY <1>3, <3>1 DEF OnFailed
      <4>2. /\ state' = [FailedAfter(state, m) EXCEPT ![b] = "FAILED"]
            /\ event' = ToFather(b, "ABORT")
        BY <2>2, <4>1 DEF Finish
      <4> QED BY <4>2 DEF FailedAfter, ToFather, NoEvent
    <3>2. CASE ~ AllFinished(FailedAfter(state, m), b)
      BY <1>3, <3>2 DEF OnFailed, FailedAfter, NoEvent
    <3> QED BY <3>1, <3>2
  <2>4. \A n \in Elem : n \in ToRun' => n \in ToRun /\ state'[n] = state[n]
    BY <1>0, <2>3 DEF ToRun
  <2>5. \A c \in Blocs : state'[c] = "ACTIVATED" => state[c] = "ACTIVATED"
    BY <2>3, Graph
  <2> QED BY <1>1, <2>3, <2>4, <2>5, OthersStillWait
<1>4. ~ (OnLastFinished \/ OnFinished \/ \E x \in Invalid : OnFinishedThrows(x))
  BY DEF OthersWait, OnLastFinished, OnFinished, OnFinishedThrows
<1> QED BY <1>2, <1>3, <1>4 DEF UpdateStateFrom

\* Steps that only go on through the places of a round.
LEMMA QuietWaits ==
  ASSUME NEW X, OthersWait(X), UNCHANGED <<state, event, tasks>>
  PROVE  OthersWait(X)' /\ ToRun' = ToRun
BY DEF OthersWait, ToRun, Around

LEMMA RoundLate ==
  ASSUME TInv, RoundInv, OnInv, NEW X, Late(X),
         \/ Sleep \/ Woken \/ ReadMode \/ Load \/ Join \/ ReadToConnect \/ ReadFailed
         \/ ReadToLaunch \/ Acquire \/ Check
  PROVE  Late(X)'
<1> USE DEF graph, threads, control, pilots, wakeup
<1>1. UNCHANGED <<state, event, tasks, running>>
  BY DEF Sleep, Woken, ReadMode, Load, Join, ReadToConnect, ReadFailed, ReadToLaunch, Acquire,
         Check
<1> SUFFICES ASSUME Current' PROVE OthersWait(X)' /\ TasksLaunched'
  BY DEF Late
<1>2. Current
  <2>1. CASE Sleep \/ Woken
    BY <2>1 DEF Sleep, Woken, Current, OutOfRound
  <2>2. CASE ~ (Sleep \/ Woken)
    <3>1. ended' = ended /\ pc \notin OutOfRound
      BY <2>2 DEF ReadMode, Load, Join, ReadToConnect, ReadFailed, ReadToLaunch, Acquire, Check,
                  OutOfRound
    <3>2. pc' # "waiting"
      BY <2>2 DEF ReadMode, Load, Join, ReadToConnect, ReadFailed, ReadToLaunch, Acquire, Check
    <3> QED BY <3>1, <3>2 DEF Current
  <2> QED BY <2>1, <2>2
<1>3. OthersWait(X) /\ TasksLaunched /\ OthersWait(X)' /\ ToRun' = ToRun
  BY <1>1, <1>2, QuietWaits DEF Late
<1>4. TasksLaunched'
  <2>1. CASE Sleep \/ Woken
    BY <1>1, <1>3, <2>1 DEF Sleep, Woken, TasksLaunched, Launching
  <2>2. CASE ReadMode
    BY <2>2 DEF ReadMode, TasksLaunched, Launching, OnInv
  <2>3. CASE Load \/ Join \/ ReadFailed
    BY <2>3 DEF Load, Join, ReadFailed, TasksLaunched, Launching
  <2>4. CASE ReadToConnect
    BY <1>1, <2>4 DEF ReadToConnect, TasksLaunched, Launching
  <2>5. CASE ReadToLaunch
    <3>1. CASE todo = {} /\ pc' = "check"
      <4>1. \A n \in tasks : state[n] \notin {"TOLOAD", "TOACTIVATE"}
        BY <1>3, <2>5, <3>1 DEF ReadToLaunch, TasksLaunched, RoundInv, Launching
      <4> QED BY <1>1, <1>3, <3>1, <4>1 DEF TasksLaunched, Launching, ToRun
    <3>2. CASE \E n \in todo : IF state[n] = "TOACTIVATE"
                                 THEN cur' = n /\ pc' = "acquire" /\ UNCHANGED todo
                                 ELSE todo' = todo \ {n} /\ UNCHANGED <<cur, pc>>
      BY <1>1, <1>3, <2>5, <3>2 DEF ReadToLaunch, TasksLaunched, Launching
    <3> QED BY <2>5, <3>1, <3>2 DEF ReadToLaunch
  <2>6. CASE Acquire
    BY <1>1, <1>3, <2>6 DEF Acquire, TasksLaunched, Launching, locals
  <2>7. CASE Check
    BY <1>1, <1>3, <2>7 DEF Check, TasksLaunched, Launching
  <2> QED BY <2>1, <2>2, <2>3, <2>4, <2>5, <2>6, <2>7
<1> QED BY <1>3, <1>4

\* getNextTasks returns all that may be run: what is left out has a Bloc to
\* wait for, and none of those is around a task.
LEMMA SelectLate ==
  ASSUME Select
  PROVE  LateInv'
<1>1. /\ event' = NoEvent /\ tasks' = ReadyTasks /\ state' = state /\ pc' = "mode"
  BY DEF Select, GetNextTasks
<1>2. \A b \in Around' : state[b] = "ACTIVATED"
  BY <1>1 DEF Around, ReadyTasks
<1>3. ASSUME NEW n \in ToRun', n \notin ReadyTasks
      PROVE  \E b \in Enclosing[n] \ Around' : state[b] # "ACTIVATED"
  <2>1. \E b \in Enclosing[n] : state[b] # "ACTIVATED"
    BY <1>1, <1>3 DEF ToRun, ReadyTasks
  <2> QED BY <1>2, <2>1
<1>4. OthersWait({})'
  BY <1>1, <1>3 DEF OthersWait, NoEvent
<1>5. TasksLaunched'
  BY <1>1 DEF TasksLaunched, Launching
<1> QED BY <1>4, <1>5 DEF LateInv, Late

\* The steps of RunB that act on a task.
LEMMA ActLate ==
  ASSUME TInv, RoundInv, NEW X, Late(X), ConnectService \/ AbortCoupled \/ Launch
  PROVE  Late(X)'
<1> USE DEF threads, control, pilots, wakeup
<1>0. /\ tasks' = tasks /\ ended' = ended
      /\ pc \in {"connecting", "coupled", "begin"}
      /\ pc' \in {"connect", "failed", "coupled", "launch"}
  BY DEF ConnectService, AbortCoupled, Launch
<1> SUFFICES ASSUME Current' PROVE OthersWait(X)' /\ TasksLaunched'
  BY DEF Late
<1>1. Current
  BY <1>0 DEF Current, OutOfRound
<1>2. OthersWait(X) /\ TasksLaunched
  BY <1>1 DEF Late
<1>3. event'.kind # "FINISH" /\ (event'.kind = "START" => Father[event'.from] \in Around)
  BY <1>2 DEF ConnectService, AbortCoupled, Launch, Notify, OthersWait
<1>4. CASE ConnectService
  <2>1. PICK v \in {"LOADED", "TOACTIVATE", "ERROR"} : state' = [state EXCEPT ![cur] = v]
    BY <1>4 DEF ConnectService, ConnectedState, Notify
  <2>2. cur \in tasks /\ cur \in Elem /\ v \in State
    BY <1>4, TInvTypes DEF ConnectService, RoundInv, Connecting, State
  <2>3. OthersWait(X)'
    BY <1>0, <1>2, <1>3, <2>1, <2>2, OneNodeWaits
  <2>4. pc' \in {"connect", "failed"}
    BY <1>4 DEF ConnectService
  <2> QED BY <2>3, <2>4 DEF TasksLaunched, Launching
<1>5. CASE AbortCoupled
  <2>1. pc' \in {"connect", "coupled"}
    BY <1>5 DEF AbortCoupled
  <2>2. TasksLaunched'
    BY <2>1 DEF TasksLaunched, Launching
  <2>3. CASE UNCHANGED <<state, event>>
    BY <1>0, <1>2, <2>2, <2>3, QuietWaits
  <2>4. ASSUME NEW n \in coupledTodo, state' = [state EXCEPT ![n] = "ERROR"]
        PROVE  OthersWait(X)'
    <3>1. n \in Elem /\ "ERROR" \in State
      BY TInvTypes DEF ExecTypeOK, State
    <3> QED BY <1>0, <1>2, <1>3, <2>4, <3>1, OneNodeWaits
  <2> QED BY <1>5, <2>2, <2>3, <2>4 DEF AbortCoupled, Notify
<1>6. CASE Launch
  <2>1. /\ state' = [state EXCEPT ![cur] = "ACTIVATED"] /\ todo' = todo \ {cur}
        /\ pc = "begin" /\ pc' = "launch"
    BY <1>6 DEF Launch
  <2>2. cur \in tasks /\ cur \in Elem /\ "ACTIVATED" \in State
    BY <2>1, TInvTypes DEF RoundInv, Launching, State
  <2>3. OthersWait(X)'
    BY <1>0, <1>2, <1>3, <2>1, <2>2, OneNodeWaits
  <2>4. \A n \in Elem : state'[n] = IF n = cur THEN "ACTIVATED" ELSE state[n]
    BY <2>1, TInvTypes
  <2>5. \A n \in tasks \ todo : state[n] # "TOACTIVATE"
    BY <1>2, <2>1 DEF TasksLaunched, Launching
  <2>6. TasksLaunched'
    BY <1>0, <2>1, <2>2, <2>4, <2>5, TInvTypes DEF TasksLaunched, Launching
  <2> QED BY <2>3, <2>6
<1> QED BY <1>4, <1>5, <1>6

\* The threads that load the tasks.
LEMMA LoadLate ==
  ASSUME TInv, RoundInv, NEW X, Late(X), NEW n \in Elem, LoadTask(n)
  PROVE  Late(X)'
<1>1. /\ UNCHANGED <<tasks, pc, ended, running>> /\ n \in tasks /\ pc = "join" /\ n \in Children
  BY Graph DEF LoadTask, wakeup, RoundInv
<1> SUFFICES ASSUME Current' PROVE OthersWait(X)' /\ TasksLaunched'
  BY DEF Late
<1>2. OthersWait(X)
  BY <1>1 DEF Current, Late
<1>3. Father[n] \in Around
  BY <1>1, FatherAround, TInvTypes
<1>4. \/ UNCHANGED <<state, event>>
      \/ \E v \in {state[n], "ERROR"}, kind \in {"START", "ABORT"} : Notify(n, v, kind)
  BY DEF LoadTask
<1>5. OthersWait(X)'
  <2>1. CASE UNCHANGED <<state, event>>
    BY <1>1, <1>2, <2>1, QuietWaits
  <2>2. ASSUME NEW v \in {state[n], "ERROR"}, NEW kind \in {"START", "ABORT"},
               Notify(n, v, kind)
        PROVE  OthersWait(X)'
    <3>1. v \in State
      BY TInvTypes DEF State
    <3>2. /\ state' = [state EXCEPT ![n] = v] /\ event'.kind # "FINISH"
          /\ event'.kind = "START" => Father[event'.from] \in Around
      BY <1>3, <2>2 DEF Notify
    <3> QED BY <1>1, <1>2, <3>1, <3>2, OneNodeWaits
  <2> QED BY <1>4, <2>1, <2>2
<1>6. TasksLaunched'
  BY <1>1 DEF TasksLaunched, Launching
<1> QED BY <1>5, <1>6

LEMMA ClimbLate ==
  ASSUME TInv, RoundInv, NEW X, Late(X), Climb
  PROVE  Late(X)'
<1>1. /\ UNCHANGED <<tasks, pc, ended, running, todo>> /\ UpdateStateFrom
  BY UpdateKeepsTasks DEF Climb, locals, threads, wakeup
<1> SUFFICES ASSUME Current' PROVE OthersWait(X)' /\ TasksLaunched'
  BY DEF Late
<1>2. OthersWait(X) /\ TasksLaunched
  BY <1>1 DEF Current, Late
<1>3. OthersWait(X)' /\ \A n \in Elem : n \in ToRun' => n \in ToRun /\ state'[n] = state[n]
  BY <1>1, <1>2, ClimbWaits
<1>4. tasks \subseteq Elem
  BY TInvTypes
<1>5. \A n \in tasks : state'[n] = "TOACTIVATE" => state[n] = "TOACTIVATE"
  BY <1>3, <1>4 DEF ToRun
<1>6. ToRun' \cap tasks \subseteq ToRun \cap tasks
  BY <1>3 DEF ToRun
<1>7. TasksLaunched'
  BY <1>1, <1>2, <1>5, <1>6 DEF TasksLaunched
<1> QED BY <1>3, <1>7

\* The end of a task: RunB is woken up, or will not go to sleep.
LEMMA EndLate ==
  ASSUME TInv, Awake, OnInv, NEW n \in Elem, TaskEnds(n)
  PROVE  ~ Current'
<1>1. WakeUp
  BY DEF TaskEnds, OnInv
<1>2. CASE isWaiting
  BY <1>1, <1>2 DEF WakeUp, OnInv, Current, OutOfRound
<1>3. CASE ~ isWaiting
  <2>1. pc' # "waiting" /\ ended' = ended + 1 /\ ended \in Nat
    BY <1>1, <1>3, TInvTypes DEF WakeUp, Awake, ExecTypeOK
  <2>2. ended' # 0
    BY <2>1
  <2> QED BY <2>1, <2>2 DEF Current
<1> QED BY <1>2, <1>3

\* Every step but the selection.
LEMMA StepLate ==
  ASSUME ~ SpuriousWakeUps, RunsOn, TInv, RoundInv, Awake, OnInv, NEW X, Late(X),
         [ExecNext]_execVars, ~ Select
  PROVE  Late(X)'
<1>1. CASE Start \/ \E x \in Invalid : StartThrows(x)
  BY <1>1 DEF Start, StartThrows, OnInv, Late, Current, OutOfRound, threads
<1>2. CASE CheckBreakPoints \/ Resumed \/ Stopped
  BY <1>2 DEF CheckBreakPoints, Resumed, Stopped, OnInv
<1>3. CASE RunB
  BY <1>1, <1>2, <1>3, RoundLate, ActLate DEF RunB
<1>4. CASE SpuriousWakeUp
  BY <1>4 DEF SpuriousWakeUp
<1>5. CASE Climb
  BY <1>5, ClimbLate
<1>6. ASSUME NEW n \in Elem, LoadTask(n) \/ TaskEnds(n) PROVE Late(X)'
  BY <1>6, LoadLate, EndLate DEF Late
<1>7. CASE UNCHANGED execVars \/ \E p \in Pilots : Pilot(p)
  <2>1. UNCHANGED <<state, event, tasks, pc, ended, running, todo>>
    <3> USE DEF graph, locals, threads, wakeup, control, pilots
    <3>1. CASE UNCHANGED execVars
      BY <3>1 DEF execVars
    <3>2. ASSUME NEW p \in Pilots, Pilot(p)
          PROVE  UNCHANGED <<state, event, tasks, pc, ended, running, todo>>
      <4>1. SetExecMode(p, "CONTINUE") \/ Resume(p) \/ WaitPause(p)
        BY <3>2 DEF Pilot, SetExecMode, StopExecution, SetStepsToExecute, SetStepsUnlocked,
                    RunsOn, OnInv
      <4> QED BY <4>1 DEF SetExecMode, Resume, ResumeCurrentBreakPoint, WaitPause, OnInv
    <3> QED BY <1>7, <3>1, <3>2
  <2>2. Current' <=> Current
    BY <2>1 DEF Current
  <2>3. Current => OthersWait(X)' /\ ToRun' = ToRun /\ TasksLaunched
    BY <2>1, QuietWaits DEF Late
  <2> QED BY <2>1, <2>2, <2>3 DEF Late, TasksLaunched
<1> QED BY <1>3, <1>4, <1>5, <1>6, <1>7 DEF ExecNext

LEMMA LateKept ==
  ASSUME ~ SpuriousWakeUps, RunsOn, LInv, [ExecNext]_execVars
  PROVE  LateInv'
BY StepLate, SelectLate, RoundOfS DEF LInv, SInv, LateInv

\* In mode CONTINUE, as long as nobody pauses or stops the execution, RunB does
\* not sleep beside a task that it could start: the end of a task that comes
\* between the selection and the sleep makes it select again.
THEOREM SleepsBesideNothing ==
  ASSUME ~ SpuriousWakeUps, RunsOn, NoChains
  PROVE  ExecSpec => []NothingReadyWhileSleeping
<1>0. "steps" \notin Calls
  BY DEF RunsOn
<1>1. ExecInit => Awake /\ OnInv /\ LateInv
  BY LInvInit DEF ExecInit, Awake
<1>2. SInv /\ Awake /\ OnInv /\ LateInv /\ [ExecNext]_execVars => Awake' /\ OnInv' /\ LateInv'
  BY AwakeStep, OnKept, LateKept DEF LInv, SInv
<1>3. SInv /\ LateInv => NothingReadyWhileSleeping
  <2> SUFFICES ASSUME SInv, LateInv, pc = "waiting", NEW n \in ReadyTasks PROVE FALSE
    BY DEF NothingReadyWhileSleeping
  <2>1. OthersWait({}) /\ ToRun \cap tasks = {}
    BY DEF LateInv, Late, Current, TasksLaunched
  <2>2. n \in ToRun /\ \A b \in Enclosing[n] : state[b] = "ACTIVATED"
    BY DEF ReadyTasks, ToRun
  <2> QED BY <2>1, <2>2 DEF OthersWait
<1> QED BY <1>0, <1>1, <1>2, <1>3, SInvKept, PTL DEF ExecSpec

-----------------------------------------------------------------------------
(* ... and on pools, whatever their sizes.  Coupled tasks may be separated *)
(* there, and then the executor does not implement Scheduler: what a round *)
(* keeps is proved again without that.                                     *)

RoundOnPools ==
  /\ \A n \in tasks : state[n] # "READY"
  /\ pc \in Launching => todo \subseteq tasks
  /\ pc \in Connecting => \A n \in tasks : state[n] = "TOLOAD" => n \in todo
  /\ pc \in {"failed", "coupled"} => state[cur] # "TOLOAD"
  /\ pc \in Launching => \A n \in tasks : state[n] # "TOLOAD"
  /\ event.kind = "ABORT" => state[event.from] \in {"ERROR", "FAILED"}

LEMMA RoundOfPools == PlaceInv /\ RoundOnPools => RoundInv
BY DEF PlaceInv, RoundOnPools, RoundInv, Connecting, Launching

\* An event that says that a node has failed comes from one that has.
LEMMA AbortKept ==
  ASSUME TInv, event.kind = "ABORT" => state[event.from] \in {"ERROR", "FAILED"},
         [ExecNext]_execVars
  PROVE  event'.kind = "ABORT" => state'[event'.from] \in {"ERROR", "FAILED"}
<1>0. /\ state \in [Nodes -> State] /\ event \in Event /\ cur \in Nodes /\ coupledTodo \subseteq Nodes
      /\ Elem \subseteq Nodes
  BY TInvTypes, Graph DEF TypeOK, ExecTypeOK
<1>1. CASE Start \/ (\E x \in Invalid : StartThrows(x))
  BY <1>1 DEF Start, StartThrows, StartSchema, StartSchemaThrows, NoEvent
<1>2. CASE Climb
  <2> DEFINE b == Father[event.from]
  <2>1. event # NoEvent /\ b \in Blocs /\ b \in Nodes
    BY <1>0, <1>2, KindIsAnEvent DEF Climb, UpdateStateFrom, OnStartEvent, OnLastFinished,
       OnFinished, OnFinishedThrows, OnFailed
  <2>2. ASSUME NEW st \in [Nodes -> State], Finish(st, b)
        PROVE  event'.kind = "ABORT" => state'[event'.from] \in {"ERROR", "FAILED"}
    BY <2>1, <2>2 DEF Finish, ToFather, NoEvent
  <2>3. CASE OnStartEvent
    BY <2>1, <2>3 DEF OnStartEvent, ToFather, NoEvent
  <2>4. CASE OnLastFinished
    BY <1>0, <2>2, <2>4 DEF OnLastFinished
  <2>5. CASE OnFinished
    BY <2>5 DEF OnFinished, NoEvent
  <2>6. ASSUME NEW x \in Invalid, OnFinishedThrows(x)
        PROVE  event'.kind = "ABORT" => state'[event'.from] \in {"ERROR", "FAILED"}
    <3>1. /\ event' = ToFather(b, "ABORT")
          /\ \E st : state' = [FailedAfter(st, event.from) EXCEPT ![b] = "FAILED"]
      BY <2>6 DEF OnFinishedThrows
    <3>2. state'[b] = "FAILED"
      BY <2>1, <3>1 DEF FailedAfter
    <3> QED BY <3>1, <3>2 DEF ToFather, NoEvent
  <2>7. CASE OnFailed
    <3>1. FailedAfter(state, event.from) \in [Nodes -> State]
      BY <1>0 DEF FailedAfter, State
    <3> QED BY <2>2, <2>7, <3>1 DEF OnFailed, NoEvent
  <2> QED BY <1>2, <2>3, <2>4, <2>5, <2>6, <2>7 DEF Climb, UpdateStateFrom
<1>3. CASE ConnectService \/ AbortCoupled \/ Launch
  BY <1>0, <1>3 DEF ConnectService, AbortCoupled, Launch, Notify, Locked, NoEvent
<1>4. ASSUME NEW m \in Elem, LoadTask(m) \/ TaskEnds(m)
      PROVE  event'.kind = "ABORT" => state'[event'.from] \in {"ERROR", "FAILED"}
  BY <1>0, <1>4 DEF LoadTask, TaskEnds, Notify
<1>5. CASE \/ Sleep \/ SpuriousWakeUp \/ Woken \/ Select \/ ReadMode \/ CheckBreakPoints
           \/ Resumed \/ Load \/ Join \/ ReadToConnect \/ ReadFailed \/ ReadToLaunch \/ Acquire
           \/ Check \/ Stopped \/ (\E p \in Pilots : Pilot(p)) \/ UNCHANGED execVars
  <2>1. UNCHANGED <<state, event>>
    BY <1>5 DEF Sleep, SpuriousWakeUp, Woken, Select, GetNextTasks, ReadMode, CheckBreakPoints,
       Resumed, Load, Join, ReadToConnect, ReadFailed, ReadToLaunch, Acquire, Check, Stopped,
       Pilot, SetExecMode, Resume, ResumeCurrentBreakPoint, StopExecution, WaitPause,
       SetStepsToExecute, SetStepsUnlocked, graph, execVars
  <2> QED BY <2>1
<1> QED BY <1>1, <1>2, <1>3, <1>4, <1>5 DEF ExecNext, RunB

\* What RunB makes of the tasks of a round, step by step.
LEMMA RoundStepKept ==
  ASSUME PInv, PlaceInv, RoundOnPools, "steps" \notin Calls, [ExecNext]_execVars, ~ Select
  PROVE  RoundOnPools'
<1> USE DEF graph, locals, threads, wakeup, control, pilots
<1>0. TInv /\ tasks \subseteq Elem /\ cur \in Elem /\ state \in [Nodes -> State] /\ Elem \subseteq Nodes
  BY TInvTypes, Graph DEF PInv
<1>1. tasks' = tasks
  <2>1. Start \/ (\E x \in Invalid : StartThrows(x)) \/ Climb => tasks' = tasks
    BY UpdateKeepsTasks DEF Start, StartThrows, StartSchema, StartSchemaThrows, Climb
  <2>2. ASSUME NEW p \in Pilots, Pilot(p) PROVE tasks' = tasks
    BY <2>2 DEF Pilot, SetExecMode, Resume, ResumeCurrentBreakPoint, StopExecution, WaitPause,
       SetStepsToExecute, SetStepsUnlocked, PlaceInv, NoSteps
  <2>3. ASSUME NEW n \in Elem, LoadTask(n) \/ TaskEnds(n) PROVE tasks' = tasks
    BY <2>3 DEF LoadTask, TaskEnds
  <2>4. RunB \/ SpuriousWakeUp \/ UNCHANGED execVars => tasks' = tasks
    BY <2>1 DEF RunB, Sleep, SpuriousWakeUp, Woken, ReadMode, CheckBreakPoints, Resumed, Load,
       Join, ReadToConnect, ConnectService, ReadFailed, AbortCoupled, ReadToLaunch, Acquire,
       Launch, Check, Stopped, execVars
  <2> QED BY <2>1, <2>2, <2>3, <2>4 DEF ExecNext
<1>2. \A n \in tasks : /\ state'[n] # "READY"
                       /\ state'[n] = "TOLOAD" => state[n] = "TOLOAD"
  <2>1. ~ ConnectService \/ state'[cur] \notin {"READY", "TOLOAD"}
    BY <1>0 DEF ConnectService, ConnectedState, Notify
  <2> QED BY <1>0, <2>1, ExecNode DEF RoundOnPools
<1>3. event'.kind = "ABORT" => state'[event'.from] \in {"ERROR", "FAILED"}
  BY <1>0, AbortKept DEF RoundOnPools
<1> DEFINE Rest == /\ pc \in Launching => todo \subseteq tasks
                   /\ pc \in Connecting => \A n \in tasks : state[n] = "TOLOAD" => n \in todo
                   /\ pc \in {"failed", "coupled"} => state[cur] # "TOLOAD"
                   /\ pc \in Launching => \A n \in tasks : state[n] # "TOLOAD"
<1>4. Rest'
  <2>1. CASE /\ UNCHANGED <<todo, cur>>
             /\ pc' = pc \/ pc' \notin Connecting \cup Launching
    <3>1. pc \in {"failed", "coupled"} => state'[cur] # "TOLOAD"
      <4>1. pc \in {"failed", "coupled"} => cur \in tasks
        BY DEF PlaceInv, Connecting
      <4> QED BY <1>2, <4>1 DEF RoundOnPools
    <3> QED BY <1>1, <1>2, <2>1, <3>1 DEF RoundOnPools, Connecting, Launching
  <2>2. CASE Join
    BY <1>1, <1>2, <2>2 DEF Join, Connecting, Launching
  <2>3. CASE ReadToConnect
    BY <1>1, <1>2, <2>3 DEF ReadToConnect, Connecting, Launching, RoundOnPools
  <2>4. CASE ConnectService
    <3>1. state'[cur] # "TOLOAD"
      BY <1>0, <2>4 DEF ConnectService, ConnectedState, Notify
    <3> QED BY <1>1, <1>2, <2>4, <3>1 DEF ConnectService, Connecting, Launching, RoundOnPools
  <2>5. CASE ReadFailed
    BY <1>1, <1>2, <2>5 DEF ReadFailed, Connecting, Launching, RoundOnPools
  <2>6. CASE AbortCoupled
    <3>1. cur \in tasks /\ cur' = cur
      BY <2>6 DEF AbortCoupled, PlaceInv, Connecting
    <3> QED BY <1>1, <1>2, <2>6, <3>1 DEF AbortCoupled, Connecting, Launching, RoundOnPools
  <2>7. CASE ReadToLaunch \/ Acquire \/ Launch
    BY <1>1, <1>2, <2>7 DEF ReadToLaunch, Acquire, Launch, Connecting, Launching, RoundOnPools
  <2>8. CASE \/ Start \/ (\E x \in Invalid : StartThrows(x)) \/ Sleep \/ SpuriousWakeUp \/ Woken
             \/ ReadMode \/ CheckBreakPoints \/ Resumed \/ Load \/ Check \/ Stopped \/ Climb
             \/ (\E n \in Elem : LoadTask(n) \/ TaskEnds(n)) \/ (\E p \in Pilots : Pilot(p))
             \/ UNCHANGED execVars
    <3>1. /\ UNCHANGED <<todo, cur>>
          /\ pc' = pc \/ pc' \notin Connecting \cup Launching
      BY <2>8 DEF Start, StartThrows, Sleep, SpuriousWakeUp, Woken, ReadMode, CheckBreakPoints,
         Resumed, Load, Check, Stopped, Climb, LoadTask, TaskEnds, WakeUp, Pilot, SetExecMode,
         Resume, ResumeCurrentBreakPoint, StopExecution, WaitPause, SetStepsToExecute,
         SetStepsUnlocked, execVars, Connecting, Launching
    <3> QED BY <2>1, <3>1
  <2> HIDE DEF Rest, graph, locals, threads, wakeup, control, pilots
  <2>9. RunB => Rest'
    BY <2>2, <2>3, <2>4, <2>5, <2>6, <2>7, <2>8, Zenon DEF RunB
  <2>10. CASE \/ SpuriousWakeUp \/ Climb \/ (\E n \in Elem : LoadTask(n) \/ TaskEnds(n))
              \/ (\E p \in Pilots : Pilot(p)) \/ UNCHANGED execVars
    BY <2>8, <2>10, Zenon
  <2> QED BY <2>9, <2>10 DEF ExecNext
<1> QED BY <1>1, <1>2, <1>3, <1>4 DEF RoundOnPools

\* The tasks on a pool with no place for them.
AtFullPools == {n \in Pooled : Crowded(PoolOf[n])}

PoolLate == Late(AtFullPools)

\* What the cutoff leaves of the tasks of a pool takes all the free places.
LEMMA CutoffFills ==
  ASSUME SelectPlaced, pc' = "mode", NEW n \in ReadyTasks, n \notin tasks'
  PROVE  n \in Pooled /\ Free(PoolOf[n])' = {}
<1> DEFINE p      == PoolOf[n]
           chosen == tasks' \cap (ReadyTasks \cap Of(p))
           f      == [m \in chosen |-> place'[m]]
<1>1. /\ tasks' \in Kept /\ tasks' \subseteq ReadyTasks
  BY DEF SelectPlaced, GetNextTasks
<1>2. n \in Pooled /\ p \in Pools /\ n \in Of(p) /\ SizeOfPool[p] \in Nat
  <2>1. n \in Pooled
    BY <1>1 DEF Kept
  <2> QED BY <2>1, PoolAssumption DEF Of
<1>3. Cardinality(chosen) = Cardinality(Free(p))
  BY <1>1, <1>2 DEF Kept
<1>4. PICK served \in SUBSET Pooled : Serves(served) /\ tasks' \cap Pooled = served
  BY PlacesGiven
<1>5. chosen \subseteq served /\ \A m \in chosen : m \in Pooled /\ PoolOf[m] = p
  BY <1>4 DEF Of
<1>6. f \in Injection(chosen, Free(p))
  BY <1>4, <1>5 DEF Serves, Injection, IsInjective
<1>7. IsFiniteSet(Free(p))
  <2>1. IsFiniteSet(1 .. SizeOfPool[p])
    BY <1>2, FS_Interval
  <2> QED BY <2>1, FS_Subset DEF Free
<1>8. f \in Surjection(chosen, Free(p))
  BY <1>3, <1>6, <1>7, FS_Injection
<1>9. ASSUME NEW i \in Free(p)' PROVE FALSE
  <2>1. i \in 1 .. SizeOfPool[p] /\ \A m \in Of(p) : place'[m] # i
    BY <1>9 DEF Free, Of
  <2>2. ASSUME NEW m \in Of(p), place[m] = i PROVE FALSE
    <3>1. m \in Pooled /\ place[m] # 0
      BY <1>2, <2>1, <2>2 DEF Of
    <3>2. place'[m] = place[m]
      BY <1>4, <3>1 DEF Serves
    <3> QED BY <2>1, <2>2, <3>2
  <2>3. i \in Free(p)
    BY <2>1, <2>2 DEF Free
  <2>4. PICK m \in chosen : f[m] = i
    BY <1>8, <2>3 DEF Surjection
  <2> QED BY <2>1, <2>4
<1> QED BY <1>2, <1>9

LEMMA SelectPlacedLate ==
  ASSUME SelectPlaced
  PROVE  PoolLate'
<1>1. /\ event' = NoEvent /\ tasks' \subseteq ReadyTasks /\ state' = state
      /\ pc' \in {"mode", "end"}
  BY DEF SelectPlaced, GetNextTasks
<1> SUFFICES ASSUME pc' = "mode" PROVE OthersWait(AtFullPools)' /\ TasksLaunched'
  BY <1>1 DEF PoolLate, Late, Current, OutOfRound
<1>2. \A b \in Around' : state[b] = "ACTIVATED"
  BY <1>1 DEF Around, ReadyTasks
<1>3. ASSUME NEW n \in ToRun', n \notin tasks', n \notin AtFullPools'
      PROVE  \E b \in Enclosing[n] \ Around' : state[b] # "ACTIVATED"
  <2>1. n \notin ReadyTasks
    BY <1>3, CutoffFills DEF AtFullPools, Crowded
  <2>2. \E b \in Enclosing[n] : state[b] # "ACTIVATED"
    BY <1>1, <1>3, <2>1 DEF ToRun, ReadyTasks
  <2> QED BY <1>2, <2>2
<1>4. OthersWait(AtFullPools)'
  BY <1>1, <1>3 DEF OthersWait, NoEvent
<1>5. TasksLaunched'
  BY <1>1 DEF TasksLaunched, Launching
<1> QED BY <1>4, <1>5

\* The invariant of the sleep of RunB on pools.
PoolSleepInv == PInv /\ PlaceInv /\ RoundOnPools /\ Awake /\ OnInv /\ PoolLate

LEMMA PoolSleepKept ==
  ASSUME ~ SpuriousWakeUps, RunsOn, PoolSleepInv, [PoolNext]_pooledVars
  PROVE  PoolSleepInv'
<1> USE DEF PoolSleepInv
<1>0. "steps" \notin Calls /\ TInv /\ RoundInv
  BY RoundOfPools DEF RunsOn, PInv
<1>1. PInv' /\ PlaceInv'
  BY <1>0, PInvKept, PlaceKept
<1>2. CASE SelectPlaced
  <2>1. /\ UNCHANGED <<state, event, running, isWaiting, executorState, execMode, pilot>>
        /\ pc = "select" /\ pc' \in {"mode", "end"} /\ tasks' \subseteq ReadyTasks
    BY <1>2 DEF SelectPlaced, GetNextTasks, threads, wakeup, control, pilots
  <2>2. RoundOnPools'
    BY <2>1 DEF RoundOnPools, ReadyTasks, Connecting, Launching
  <2>3. Awake' /\ OnInv'
    BY <2>1 DEF Awake, OnInv
  <2> QED BY <1>1, <1>2, <2>2, <2>3, SelectPlacedLate
<1>3. ASSUME NEW n \in Elem, Release(n) PROVE PoolSleepInv'
  <2>1. /\ UNCHANGED <<state, event, running, isWaiting, executorState, execMode, pilot, pc,
                       tasks, todo, cur, ended>>
        /\ released' = released \cup {n}
        /\ \A m \in Pooled \ {n} : place'[m] = place[m]
    BY <1>3 DEF Release, execVars, graph, locals, threads, wakeup, control, pilots, PInv, PoolTypeOK
  <2>2. RoundOnPools' /\ Awake' /\ OnInv'
    BY <2>1 DEF RoundOnPools, Awake, OnInv
  <2>3. ASSUME NEW m \in AtFullPools PROVE m \in AtFullPools'
    <3> DEFINE p == PoolOf[m]
    <3>1. m \in Pooled /\ Crowded(p)
      BY DEF AtFullPools
    <3>2. CASE n \in Of(p)
      BY <2>1, <3>1, <3>2 DEF AtFullPools, Crowded, Of
    <3>3. CASE n \notin Of(p)
      <4>1. \A k \in Of(p) : place'[k] = place[k]
        BY <2>1, <3>3 DEF Of
      <4>2. Free(p)' = Free(p)
        BY <4>1 DEF Free, Of
      <4> QED BY <2>1, <3>1, <4>2 DEF AtFullPools, Crowded, Of
    <3> QED BY <3>2, <3>3
  <2>4. PoolLate'
    <3>1. Current' <=> Current
      BY <2>1 DEF Current
    <3>2. ToRun' = ToRun /\ Around' = Around /\ (TasksLaunched => TasksLaunched')
      BY <2>1 DEF ToRun, Around, TasksLaunched
    <3>3. OthersWait(AtFullPools) => OthersWait(AtFullPools)'
      BY <2>1, <2>3, <3>2 DEF OthersWait
    <3> QED BY <3>1, <3>2, <3>3 DEF PoolLate, Late
  <2> QED BY <1>1, <2>2, <2>4
<1>4. ASSUME [ExecNext]_execVars, ~ Select PROVE RoundOnPools' /\ Awake' /\ OnInv'
  BY <1>0, <1>4, RoundStepKept, AwakeStep, OnKept
<1>5. ASSUME NEW n \in Elem, EndOfTask(n) PROVE PoolSleepInv'
  <2>1. TaskEnds(n)
    BY <1>5 DEF EndOfTask
  <2>2. ~ Select
    BY <2>1 DEF TaskEnds, WakeUp, Select
  <2>3. ~ Current'
    BY <1>0, <2>1, EndLate
  <2> QED BY <1>1, <1>4, <2>1, <2>2, <2>3 DEF ExecNext, PoolLate, Late
<1>6. ASSUME [ExecNext]_execVars, ~ Select, UNCHANGED <<place, released>> PROVE PoolSleepInv'
  <2>1. PICK X : X = AtFullPools
    OBVIOUS
  <2>2. X = AtFullPools'
    BY <1>6, <2>1 DEF AtFullPools, Crowded, Free, Of
  <2>3. Late(X)'
    BY <1>0, <1>6, <2>1, StepLate DEF PoolLate
  <2>4. PoolLate'
    BY <2>2, <2>3 DEF PoolLate, Late, OthersWait
  <2> QED BY <1>1, <1>4, <1>6, <2>4
<1>7. CASE RunThread
  BY <1>6, <1>7 DEF RunThread, poolVars, ExecNext, Select
<1>8. CASE (SpuriousWakeUp \/ Climb) /\ UNCHANGED poolVars
  BY <1>6, <1>8 DEF poolVars, ExecNext, Select, SpuriousWakeUp, Climb
<1>9. ASSUME NEW n \in Elem, LoadTask(n) /\ UNCHANGED poolVars PROVE PoolSleepInv'
  BY <1>6, <1>9 DEF poolVars, ExecNext, Select, LoadTask
<1>10. ASSUME NEW p \in Pilots, Pilot(p) /\ UNCHANGED poolVars PROVE PoolSleepInv'
  <2>1. ~ Select
    BY <1>10 DEF Select, Pilot, SetExecMode, Resume, ResumeCurrentBreakPoint, StopExecution,
       WaitPause, SetStepsToExecute, SetStepsUnlocked
  <2> QED BY <1>6, <1>10, <2>1 DEF poolVars, ExecNext
<1>11. CASE UNCHANGED pooledVars
  BY <1>6, <1>11 DEF pooledVars, poolVars, execVars, Select
<1> QED BY <1>2, <1>3, <1>5, <1>7, <1>8, <1>9, <1>10, <1>11 DEF PoolNext

\* In mode CONTINUE, on pools of any size, RunB does not sleep while it could
\* start a task: what the cutoff drops, be it coupled to a task that runs, waits
\* only as long as its pool is full, and the thread that gives a place back will
\* wake RunB up.
THEOREM SleepsForPlaces ==
  ASSUME ~ SpuriousWakeUps, RunsOn
  PROVE  PoolSpec => []NoPlaceIdleWhileSleeping
<1>1. PoolInit => PoolSleepInv
  <2> SUFFICES ASSUME PoolInit PROVE PoolSleepInv
    OBVIOUS
  <2>1. ExecInit
    BY DEF PoolInit
  <2>2. PInv /\ PlaceInv
    BY PInvInit, PlaceInit DEF RunsOn
  <2>3. Awake /\ OnInv
    BY <2>1, LInvInit DEF ExecInit, Awake
  <2>4. RoundOnPools /\ PoolLate
    BY <2>1 DEF ExecInit, Init, NoEvent, RoundOnPools, PoolLate, Late, Current, OutOfRound,
       Connecting, Launching
  <2> QED BY <2>2, <2>3, <2>4 DEF PoolSleepInv
<1>2. PoolSleepInv /\ [PoolNext]_pooledVars => PoolSleepInv'
  BY PoolSleepKept
<1>3. PoolSleepInv => NoPlaceIdleWhileSleeping
  <2> SUFFICES ASSUME PoolSleepInv, pc = "waiting", NEW n \in ReadyTasks PROVE n \in NeedsPlace
    BY DEF NoPlaceIdleWhileSleeping
  <2>1. OthersWait(AtFullPools) /\ ToRun \cap tasks = {}
    BY DEF PoolSleepInv, PoolLate, Late, Current, TasksLaunched
  <2>2. n \in ToRun /\ \A b \in Enclosing[n] : state[b] = "ACTIVATED"
    BY DEF ReadyTasks, ToRun
  <2>3. n \in AtFullPools
    BY <2>1, <2>2 DEF OthersWait
  <2> QED BY <2>3 DEF AtFullPools, NeedsPlace
<1> QED BY <1>1, <1>2, <1>3, PTL DEF PoolSpec
===============================================================================
