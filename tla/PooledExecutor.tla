---------------------------- MODULE PooledExecutor ----------------------------
(***************************************************************************)
(* YACS: Executor::RunB on a schema whose tasks are placed on HP           *)
(* containers, pools of SALOME containers that serve one task each at a    *)
(* time.  RunB gives places to the tasks it selects and leaves the others  *)
(* for a later round; the thread of a task gives its place back.           *)
(***************************************************************************)
EXTENDS Executor

CONSTANTS Pools,      \* the HP containers
          PoolOf,     \* getContainer() of the tasks that have one
          SizeOfPool

Pooled == DOMAIN PoolOf
Of(p)  == {n \in Pooled : PoolOf[n] = p}

ASSUME PoolAssumption ==
  /\ Pooled \subseteq Elem /\ PoolOf \in [Pooled -> Pools]
  /\ SizeOfPool \in [Pools -> Nat]

VARIABLES place,    \* _currentlyWorking: 0, or the place of the task in its pool
          released, \* the threads of tasks past release()
          threw     \* an exception has left RunB

poolVars   == <<place, released, threw>>
pooledVars == <<execVars, poolVars>>

PoolInit ==
  /\ ExecInit
  /\ place = [n \in Pooled |-> 0]
  /\ released = {} /\ threw = FALSE

\* The places _whichOccupied has at false
Free(p) == {i \in 1..SizeOfPool[p] : \A n \in Of(p) : place[n] # i}

Kept_OneLess ==
  {S \in SUBSET ReadyTasks :
     /\ ReadyTasks \ Pooled \subseteq S
     /\ \A p \in Pools :
          LET ready == ReadyTasks \cap Of(p)
              sz    == IF Free(p) = {} THEN 0 ELSE Cardinality(Free(p)) - 1
          IN  IF Cardinality(ready) <= sz THEN ready \subseteq S
                                          ELSE Cardinality(S \cap ready) = sz}

\* What may be left of the ready tasks: all those of no pool, and of each pool
\* as many as it has free places.  Which ones depends on the order of the vector.
Kept ==
  {S \in SUBSET ReadyTasks :
     /\ ReadyTasks \ Pooled \subseteq S
     /\ \A p \in Pools :
          LET ready == ReadyTasks \cap Of(p)
              sz    == Cardinality(Free(p))
          IN  IF Cardinality(ready) <= sz THEN ready \subseteq S
                                          ELSE Cardinality(S \cap ready) = sz}

\* allocateFor: each task takes the first free place, in the order of the vector
Allocation(S) ==
  {new \in [S -> UNION {Free(p) : p \in Pools}] :
     \A n \in S : /\ new[n] \in Free(PoolOf[n])
                  /\ \A m \in S \cap Of(PoolOf[n]) : m # n => new[m] # new[n]
                  /\ \A i \in Free(PoolOf[n]) :
                       i < new[n] => \E m \in S \cap Of(PoolOf[n]) : new[m] = i}

SelectPlaced_NotAllocated ==
  /\ pc = "select"
  /\ \E S \in Kept : GetNextTasks(S) /\ noTask' = (running = {} /\ S = {})
  /\ pc' = "mode"
  /\ UNCHANGED <<todo, cur, coupledTodo, problems, threads, wakeup, control, pilots, poolVars>>

\* getNextTasks and FilterTasksConsideringContainers, under the mutex.  A task
\* that has a place already, or a pool that has none left, makes allocateFor
\* throw, after it has served some of the others; nothing catches it in RunB.
SelectPlaced ==
  /\ pc = "select"
  /\ \E S \in Kept :
       LET asking == S \cap Pooled
           serves == /\ \A n \in asking : place[n] = 0
                     /\ \A p \in Pools : Cardinality(S \cap Of(p)) <= Cardinality(Free(p))
       IN  /\ GetNextTasks(S)
           /\ \E served \in SUBSET {n \in asking : place[n] = 0} :
                /\ serves => served = asking
                /\ \E new \in Allocation(served) :
                     place' = [n \in Pooled |-> IF n \in served THEN new[n] ELSE place[n]]
           /\ IF serves
                THEN noTask' = (running = {} /\ S = {}) /\ pc' = "mode" /\ UNCHANGED threw
                ELSE threw' = TRUE /\ pc' = "end" /\ UNCHANGED noTask
  /\ UNCHANGED <<todo, cur, coupledTodo, problems, threads, wakeup, control, pilots,
                 released>>

\* functionForTaskExecution once execute() and disconnectService() are over:
\* release(), under the mutex of the container alone
Release(n) ==
  /\ n \in running \ released
  /\ released' = released \cup {n}
  /\ place' = IF n \in Pooled THEN [place EXCEPT ![n] = 0] ELSE place
  /\ UNCHANGED <<execVars, threw>>

\* ... and the rest of it
EndOfTask(n) ==
  /\ n \in released /\ TaskEnds(n)
  /\ released' = released \ {n}
  /\ UNCHANGED <<place, threw>>

\* What RunB does but the selection
RunThread == pc # "select" /\ RunB /\ UNCHANGED poolVars

PoolNext == \/ SelectPlaced \/ RunThread
            \/ (SpuriousWakeUp \/ Climb) /\ UNCHANGED poolVars
            \/ \E n \in Elem : \/ LoadTask(n) /\ UNCHANGED poolVars
                               \/ Release(n) \/ EndOfTask(n)
            \/ \E p \in Pilots : Pilot(p) /\ UNCHANGED poolVars

PoolSpec == PoolInit /\ [][PoolNext]_pooledVars

\* A service that exchanges data returns once the services at the other ends of
\* its streams run too, or never will.
Served(n) == \A m \in Coupled(n) :
               state[m] \in {"ACTIVATED", "DONE", "ERROR", "FAILED", "INTERNALERR"}

\* Threads run, and the services of the tasks return if their streams let them.
FairPool == /\ PoolSpec
            /\ WF_pooledVars(SelectPlaced \/ RunThread)
            /\ WF_pooledVars(Climb /\ UNCHANGED poolVars)
            /\ \A n \in Elem : /\ WF_pooledVars(LoadTask(n) /\ UNCHANGED poolVars)
                               /\ WF_pooledVars(Served(n) /\ Release(n))
                               /\ WF_pooledVars(EndOfTask(n))

-----------------------------------------------------------------------------
(* Properties                                                              *)

\* Every variable keeps to its type.
PoolTypeOK ==
  /\ ExecTypeOK
  /\ place \in [Pooled -> Nat] /\ \A n \in Pooled : place[n] <= SizeOfPool[PoolOf[n]]
  /\ released \subseteq running /\ threw \in BOOLEAN

\* A container of a pool serves one task at a time, whatever the rounds that
\* gave it and the threads that gave it back meanwhile.
UsedOnceAtATime ==
  \A p \in Pools : \A m, n \in Of(p) : place[m] # 0 /\ place[m] = place[n] => m = n

\* Every thread that is loading, connecting, launching or running a task finds
\* the place of the task: locateTask, which each of their traces calls, throws
\* for a task without one.
EveryThreadHasItsPlace ==
  \A n \in Pooled :
    (\/ loader[n] \in {"start", "load"}
     \/ cur = n /\ pc \in {"connecting", "failed", "coupled", "acquire", "begin"}
     \/ n \in running \ released)
      => place[n] # 0

\* Between two rounds in mode CONTINUE a place is held by a task that runs, or
\* was lost with a task whose load or connection failed.
OnlyFailuresKeepPlaces ==
  pc \in {"sleep", "waiting", "woken"} =>
    \A n \in Pooled : place[n] # 0 => n \in running \/ state[n] \in {"ERROR", "FAILED"}

\* No place of the pool is free, or the thread that freed one has yet to wake
\* RunB up.
Crowded(p) == Free(p) = {} \/ released \cap Of(p) # {}

\* What the cutoff has dropped, and nothing but its pool keeps RunB from starting.
NeedsPlace == {n \in ReadyTasks \cap Pooled : Crowded(PoolOf[n])}

\* RunB does not sleep while it could start a task: the one the cutoff has
\* separated from a task it runs beside, like any other, waits only as long as
\* its pool is full.
NoPlaceIdleWhileSleeping == (pc = "waiting" /\ Locked) => ReadyTasks \subseteq NeedsPlace

\* RunB gives up on an unfinished schema only if each task that is ready waits
\* for a pool whose places were all lost.
GivesUpOnLostPlaces ==
  (executorState = "FINISHED" /\ ~ IsFinished(Root) /\ ~ StartThrew) =>
    /\ ReadyTasks \subseteq Pooled
    /\ \A n \in ReadyTasks : Free(PoolOf[n]) = {}

\* What a schema needs for its coupled tasks to be selected together: they are
\* on pools, or none is, and such a pool has a place for each of its tasks.
PoolsFit ==
  \A n \in Elem : \A m \in Coupled(n) :
    /\ n \in Pooled <=> m \in Pooled
    /\ n \in Pooled => /\ IsFiniteSet(Of(PoolOf[n]))
                       /\ Cardinality(Of(PoolOf[n])) <= SizeOfPool[PoolOf[n]]

\* The limits of the code with tasks that exchange data: each of those that run
\* waits for one that has no place in its pool ...
StarvedOfPlaces ==
  /\ pc = "waiting" /\ running # {} /\ released = {}
  /\ \A n \in running : \E m \in Coupled(n) \cap NeedsPlace : state[m] = "TOLOAD"

\* ... or that RunB has not launched, or not selected, while it waits for the
\* end of a thread.
StarvedOfThreads ==
  /\ pc = "acquire" /\ sem = 0 /\ released = {}
  /\ \A n \in running : \E m \in Coupled(n) : m \in todo \/ m \in NeedsPlace \ tasks

\* Unless the places of a pool or the threads are too few for tasks that wait
\* for one another, RunB ends, by no exception, with no task running and the
\* schema finished, or each task that is ready on a pool whose places are lost.
EndsUnlessStarved ==
  <>[](\/ /\ pc = "end" /\ ~ threw /\ running = {}
          /\ \/ IsFinished(Root)
             \/ ReadyTasks # {} /\ ReadyTasks \subseteq NeedsPlace
       \/ StarvedOfPlaces
       \/ StarvedOfThreads)
=============================================================================
