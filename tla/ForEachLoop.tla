----------------------------- MODULE ForEachLoop -----------------------------
(***************************************************************************)
(* YACS: a ForEachLoop.  Its body is cloned on some branches; each branch  *)
(* runs the clone of the init node, then the body once for every sample it *)
(* is given, then the clone of the finalize node, and the results of the   *)
(* body are gathered into one sequence.                                    *)
(*                                                                         *)
(* The body, the init and the finalize nodes are elementary.  The executor *)
(* (mode CONTINUE) works in rounds: it loads the ready tasks, each in a    *)
(* thread, connects them, then launches them, while the tasks of the       *)
(* rounds before may end at any time.  A handler runs under the mutex of   *)
(* the scheduler; `event' is what it has returned to the nodes around the  *)
(* loop, or the call of exUpdateState that is to come.  A loop around may  *)
(* start this one again, with another collection.                          *)
(***************************************************************************)
EXTENDS Integers, Sequences, FiniteSets

CONSTANTS Sizes,        \* sizes of the collection, one for each turn of the loop around
          NbBranches,   \* the port nbBranches, for each of these turns
          MaxBranches,  \* a bound for it
          HasInit,      \* _initNode # NULL
          HasFinalize,  \* _finalizeNode # NULL
          HasOutput,    \* a port of the body is linked to a node out of the loop
          Passed,       \* the ranks given to assignPassedResults
          KeepGoing,    \* Executor::_keepGoingOnFail
          Again,        \* events after which the loop around goes on with its next turn
          MayFail       \* what may go wrong: <<kind of node, step>>

Kind   == {"init", "work", "finalize"}
Branch == 0 .. (MaxBranches - 1)
Clone  == Kind \X Branch
Fake   == <<"fake", 0>>          \* _nodeForSpecialCases
Task   == Clone \cup {Fake}
Unset  == -1                     \* an unset item of a SequenceAny; NOT_RUNNING_BRANCH_ID

\* checkCompatibilyWithNb refuses other passed ranks.
ASSUME SizesAssumption   == Sizes \in Seq(Nat) /\ Sizes # <<>>
ASSUME BranchAssumption  == /\ MaxBranches \in Nat
                            /\ NbBranches \in [DOMAIN Sizes -> Int]
                            /\ \A t \in DOMAIN Sizes : NbBranches[t] <= MaxBranches
ASSUME FlagsAssumption   == {HasInit, HasFinalize, HasOutput, KeepGoing} \subseteq BOOLEAN
ASSUME PassedAssumption  == /\ IsFiniteSet(Passed)
                            /\ \A t \in DOMAIN Sizes : Passed \subseteq 0 .. (Sizes[t] - 1)
ASSUME AroundAssumption  == Again \subseteq {"FINISH", "ABORT"}
ASSUME MayFailAssumption == MayFail \subseteq (Kind \X {"load", "connect", "run"})
                                         \cup ({"loop"} \X {"clone", "store", "take", "push"})

VARIABLES state,          \* _state of the loop
          turn,           \* turn of the loop around, from 1
          st,             \* _state of the clones and of the fake node, NONE for no such node
          stage,          \* how far the round of the executor has come with each task
          loaded,         \* clones whose component is loaded
          execIds,        \* _execIds: local rank of the sample of each branch
          sample,         \* value on the input port of the body of each branch
          execCurrentId,  \* _execCurrentId: local rank of the next sample
          unfinished,     \* _unfinishedCounter: finalize nodes that are not finished
          failedCounter,  \* _failedCounter
          execVals,       \* _execVals: the results, for each rank of the collection
                          \* (kept even if no output port asks for them)
          out,            \* what the output port of the loop holds
          event           \* UPDATE, NOEVENT, FINISH or ABORT

vars == <<state, turn, st, stage, loaded, execIds, sample, execCurrentId, unfinished,
          failedCounter, execVals, out, event>>

branchVars == <<execIds, sample, execCurrentId>>
resultVars == <<failedCounter, execVals, out>>

Size == Sizes[turn]

\* The samples that are not passed, in order: toAbsId and its inverse.
LocalId(i)  == Cardinality({j \in 0 .. (i - 1) : j \notin Passed})

ToAbsId(k)  == CHOOSE i \in (0 .. (Size - 1)) \ Passed : LocalId(i) = k
ToDo        == Size - Cardinality(Passed)        \* getFinishedId
Used        == {b \in Branch : b < NbBranches[turn] /\ b < ToDo}   \* the branches that are cloned

Values(n) == [0 .. (n - 1) -> {Unset} \cup 0 .. (n - 1)]

NoClone   == [t \in Task |-> "NONE"]
IdleStage == [t \in Task |-> "none"]

\* What getReadyTasks adds: the fake node stands for the whole loop.
ReadyTasks ==
  IF state # "ACTIVATED" THEN {}
  ELSE IF st[Fake] # "NONE" THEN {t \in {Fake} : st[t] = "TOACTIVATE"}
  ELSE {t \in Clone : st[t] \in {"TOLOAD", "TOACTIVATE"}}

Init ==
  /\ state = "READY" /\ turn = 1 /\ event = "UPDATE"
  /\ st = NoClone /\ stage = IdleStage /\ loaded = {}
  /\ execIds = [b \in Branch |-> Unset] /\ sample = [b \in Branch |-> Unset]
  /\ execCurrentId = 0 /\ unfinished = 0 /\ failedCounter = 0
  /\ execVals = <<>> /\ out = <<>>

-----------------------------------------------------------------------------
(* exUpdateState, after init()                                             *)

\* No sample to do: a fake node is to publish the sequence, an empty one.
UpdateEmpty ==
  /\ event = "UPDATE" /\ ToDo = 0
  /\ execVals' = <<>>
  /\ st' = [st EXCEPT ![Fake] = "TOACTIVATE"]
  /\ state' = "ACTIVATED" /\ event' = "NOEVENT"
  /\ UNCHANGED <<turn, stage, loaded, branchVars, unfinished, failedCounter, out>>

\* No branch: the fake node ends the loop, with an error if results are expected.
UpdateNoBranch ==
  /\ event = "UPDATE" /\ ToDo # 0 /\ NbBranches[turn] <= 0
  /\ st' = [st EXCEPT ![Fake] = "TOACTIVATE"]
  /\ state' = "ACTIVATED" /\ event' = "NOEVENT"
  /\ UNCHANGED <<turn, stage, loaded, branchVars, unfinished, resultVars>>

\* The passed results, in a sequence as long as the collection.
PreparedVals == [i \in 0 .. (Size - 1) |-> IF i \in Passed THEN i ELSE Unset]

\* A branch begins with the init node, if there is one.
FirstKind == IF HasInit THEN "init" ELSE "work"

Cloned == [t \in Task |->
  IF t = Fake THEN st[Fake]
  ELSE IF \/ t[2] \notin Used
          \/ t[1] = "init" /\ ~ HasInit
          \/ t[1] = "finalize" /\ ~ HasFinalize THEN "NONE"
  ELSE "READY"]

UpdateDispatch ==
  /\ event = "UPDATE" /\ ToDo # 0 /\ NbBranches[turn] > 0
  /\ st' = [t \in Task |-> IF t[1] = FirstKind /\ Cloned[t] = "READY" THEN "TOLOAD" ELSE Cloned[t]]
  /\ execIds' = [b \in Branch |-> IF b \in Used THEN execCurrentId + b ELSE Unset]
  /\ sample'  = [b \in Branch |-> IF b \in Used THEN ToAbsId(execCurrentId + b) ELSE Unset]
  /\ execCurrentId' = execCurrentId + Cardinality(Used)
  /\ execVals' = PreparedVals
  /\ state' = "ACTIVATED" /\ event' = "NOEVENT"
  /\ UNCHANGED <<turn, stage, loaded, unfinished, failedCounter, out>>

\* Giving a sample to a branch, or the checks of the passed results, may throw.
UpdateThrows(n) ==
  /\ event = "UPDATE" /\ ToDo # 0 /\ NbBranches[turn] > 0
  /\ <<"loop", "clone">> \in MayFail
  /\ n \in 0 .. Cardinality(Used)
  /\ st' = Cloned
  /\ execIds' = [b \in Branch |-> IF b \in Used /\ b <= n THEN execCurrentId + b ELSE Unset]
  /\ sample'  = [b \in Branch |-> IF b \in Used /\ b < n THEN ToAbsId(execCurrentId + b) ELSE Unset]
  /\ execCurrentId' = execCurrentId + n
  /\ execVals' = [i \in 0 .. (Size - 1) |-> Unset]
  /\ state' = "ERROR" /\ event' = "ABORT"
  /\ UNCHANGED <<turn, stage, loaded, unfinished, failedCounter, out>>

-----------------------------------------------------------------------------
(* What follows the end of a clone: s and vals are the states of the nodes *)
(* and the results, nfailed the number of samples that failed.             *)

\* The loop ends without its results.
LoopFails(s, verdict) ==
  /\ st' = s
  /\ state' = verdict /\ event' = "ABORT"
  /\ UNCHANGED <<unfinished, out>>

\* The branch takes the next sample.
NextSample(b, s) ==
  /\ execCurrentId # ToDo /\ state = "ACTIVATED"
  /\ execIds' = [execIds EXCEPT ![b] = execCurrentId]
  /\ sample'  = [sample EXCEPT ![b] = ToAbsId(execCurrentId)]
  /\ execCurrentId' = execCurrentId + 1
  /\ st' = [s EXCEPT ![<<"work", b>>] = "TOLOAD"]
  /\ UNCHANGED <<state, event, unfinished, out>>

\* putSplittedValueOnRankTo throws: the clone has been initialized, the branch
\* has the rank of the sample, which stays the next one (ComposedNode::updateStateFrom).
NextSampleThrows(b, s) ==
  /\ execCurrentId # ToDo /\ state = "ACTIVATED"
  /\ <<"loop", "take">> \in MayFail
  /\ execIds' = [execIds EXCEPT ![b] = execCurrentId]
  /\ LoopFails([s EXCEPT ![<<"work", b>>] = "READY"], "ERROR")
  /\ UNCHANGED <<sample, execCurrentId>>

\* There are samples left, but the loop is no more activated.
NoMoreSample(b, s) ==
  /\ execCurrentId # ToDo /\ state # "ACTIVATED"
  /\ st' = s
  /\ UNCHANGED <<state, event, unfinished, out, branchVars>>

OthersRunning(b) == \E c \in Used \ {b} : execIds[c] # Unset

\* No sample is left, and other branches still run.
BranchEnds_KeepsId(b, s) ==
  /\ execCurrentId = ToDo /\ OthersRunning(b)
  /\ st' = s
  /\ UNCHANGED <<state, event, unfinished, out, branchVars>>

BranchEnds(b, s) ==
  /\ execCurrentId = ToDo /\ OthersRunning(b)
  /\ execIds' = [execIds EXCEPT ![b] = Unset]
  /\ st' = s
  /\ UNCHANGED <<state, event, unfinished, out, sample, execCurrentId>>

\* It was the last one: the finalize nodes, or the end of the loop.
LoopSucceeds(s, vals) ==
  /\ out' = vals
  /\ IF HasFinalize
       THEN /\ st' = [t \in Task |-> IF t[1] = "finalize" /\ t[2] \in Used THEN "TOLOAD" ELSE s[t]]
            /\ unfinished' = Cardinality(Used)
            /\ UNCHANGED <<state, event>>
       ELSE /\ st' = s
            /\ state' = "DONE" /\ event' = "FINISH"
            /\ UNCHANGED unfinished

AllBranchesEnd(b, s, vals, nfailed) ==
  /\ execCurrentId = ToDo /\ ~ OthersRunning(b)
  /\ execIds' = [execIds EXCEPT ![b] = Unset]
  /\ \/ nfailed # 0 /\ LoopFails(s, "FAILED")
     \/ nfailed = 0 /\ LoopSucceeds(s, vals)
     \/ nfailed = 0 /\ <<"loop", "push">> \in MayFail /\ LoopFails(s, "ERROR")
  /\ UNCHANGED <<sample, execCurrentId>>

\* updateStateForWorkNodeOnFinishedEventFrom
WorkEnds_Eager(b, s, vals, nfailed) ==
  /\ execVals' = vals /\ failedCounter' = nfailed
  /\ \/ NextSample(b, s)
     \/ NoMoreSample(b, s)
     \/ /\ execCurrentId = ToDo
        /\ execIds' = [execIds EXCEPT ![b] = Unset]
        /\ IF nfailed = 0 THEN LoopSucceeds(s, vals) ELSE LoopFails(s, "FAILED")
        /\ UNCHANGED <<sample, execCurrentId>>

WorkEnds(b, s, vals, nfailed) ==
  /\ execVals' = vals /\ failedCounter' = nfailed
  /\ \/ NextSample(b, s)
     \/ NextSampleThrows(b, s)
     \/ NoMoreSample(b, s)
     \/ BranchEnds(b, s)
     \/ AllBranchesEnd(b, s, vals, nfailed)

\* updateStateOnFailedEventFrom, and DynParaLoop's; the fake node's aborted().
CloneFails(t) ==
  LET s == [st EXCEPT ![t] = "ERROR"]
  IN  IF t[1] = "work" /\ KeepGoing
        THEN WorkEnds(t[2], s, execVals, failedCounter + 1)
        ELSE /\ LoopFails(s, "FAILED")
             /\ UNCHANGED <<branchVars, failedCounter, execVals>>

-----------------------------------------------------------------------------
(* A round of the executor                                                 *)

\* getNextTasks, when the tasks of the round before are launched.
GetNextTasks ==
  /\ event = "NOEVENT" /\ stage = IdleStage /\ ReadyTasks # {}
  /\ stage' = [t \in Task |-> IF t \notin ReadyTasks THEN "none"
                              ELSE IF st[t] = "TOLOAD" THEN "chosen" ELSE "loaded"]
  /\ UNCHANGED <<state, turn, st, loaded, branchVars, unfinished, resultVars, event>>

\* loadTask: notifyFrom(START) makes the loop ACTIVATED, whatever it was.
TaskStarted(t) ==
  /\ event = "NOEVENT" /\ stage[t] = "chosen"
  /\ stage' = [stage EXCEPT ![t] = "loading"]
  /\ state' = "ACTIVATED"
  /\ UNCHANGED <<turn, st, loaded, branchVars, unfinished, resultVars, event>>

TaskLoaded(t) ==
  /\ event = "NOEVENT" /\ stage[t] = "loading"
  /\ stage' = [stage EXCEPT ![t] = "loaded"]
  /\ loaded' = loaded \cup {t}
  /\ UNCHANGED <<state, turn, st, branchVars, unfinished, resultVars, event>>

\* load() throws: aborted() and notifyFrom(ABORT).
TaskNotLoaded(t) ==
  /\ event = "NOEVENT" /\ stage[t] = "loading"
  /\ <<t[1], "load">> \in MayFail /\ t \notin loaded
  /\ stage' = [stage EXCEPT ![t] = "loaded"]
  /\ CloneFails(t)
  /\ UNCHANGED <<turn, loaded>>

\* The threads that load are joined before the first connection.
AllLoaded == \A t \in Task : stage[t] \notin {"chosen", "loading"}

\* launchTasks, first phase: connected(), or nothing if it is not to load.
TaskConnected(t) ==
  /\ event = "NOEVENT" /\ stage[t] = "loaded" /\ AllLoaded
  /\ stage' = [stage EXCEPT ![t] = "connected"]
  /\ st' = [st EXCEPT ![t] = IF @ = "TOLOAD" THEN "TOACTIVATE" ELSE @]
  /\ UNCHANGED <<state, turn, loaded, branchVars, unfinished, resultVars, event>>

TaskNotConnected(t) ==
  /\ event = "NOEVENT" /\ stage[t] = "loaded" /\ AllLoaded
  /\ <<t[1], "connect">> \in MayFail /\ st[t] = "TOLOAD"
  /\ stage' = [stage EXCEPT ![t] = "connected"]
  /\ CloneFails(t)
  /\ UNCHANGED <<turn, loaded>>

AllConnected == \A t \in Task : stage[t] \in {"connected", "none"}

\* Second phase, launchTask: begin(), or nothing if it is not to activate.
TaskLaunched(t) ==
  /\ event = "NOEVENT" /\ stage[t] = "connected" /\ AllConnected
  /\ stage' = [stage EXCEPT ![t] = "none"]
  /\ st' = [st EXCEPT ![t] = IF @ = "TOACTIVATE" THEN "ACTIVATED" ELSE @]
  /\ UNCHANGED <<state, turn, loaded, branchVars, unfinished, resultVars, event>>

-----------------------------------------------------------------------------
(* The thread of a task: it ends, and notifies                             *)

\* updateStateForInitNodeOnFinishedEventFrom
InitFinished(b) ==
  /\ event = "NOEVENT" /\ st[<<"init", b>>] = "ACTIVATED"
  /\ st' = [st EXCEPT ![<<"init", b>>] = "DONE", ![<<"work", b>>] = "TOLOAD"]
  /\ UNCHANGED <<state, turn, stage, loaded, branchVars, unfinished, resultVars, event>>

\* storeOutValsInSeqForOutOfScopeUse
StoredVals_LocalRank(b) == [execVals EXCEPT ![execIds[b]] = sample[b]]

StoredVals(b) == [execVals EXCEPT ![ToAbsId(execIds[b])] = sample[b]]

\* It throws: the branch keeps its sample (ComposedNode::updateStateFrom).
StoreThrows(s) ==
  /\ <<"loop", "store">> \in MayFail /\ HasOutput
  /\ LoopFails(s, "ERROR")
  /\ UNCHANGED <<branchVars, failedCounter, execVals>>

WorkFinished(b) ==
  LET s == [st EXCEPT ![<<"work", b>>] = "DONE"]
  IN  /\ event = "NOEVENT" /\ st[<<"work", b>>] = "ACTIVATED"
      /\ WorkEnds(b, s, StoredVals(b), failedCounter) \/ StoreThrows(s)
      /\ UNCHANGED <<turn, stage, loaded>>

\* updateStateForFinalizeNodeOnFinishedEventFrom
FinalizeFinished_First(b) ==
  /\ event = "NOEVENT" /\ st[<<"finalize", b>>] = "ACTIVATED"
  /\ st' = [st EXCEPT ![<<"finalize", b>>] = "DONE"]
  /\ unfinished' = unfinished - 1
  /\ state' = "DONE" /\ event' = "FINISH"
  /\ UNCHANGED <<turn, stage, loaded, branchVars, resultVars>>

FinalizeFinished(b) ==
  /\ event = "NOEVENT" /\ st[<<"finalize", b>>] = "ACTIVATED"
  /\ st' = [st EXCEPT ![<<"finalize", b>>] = "DONE"]
  /\ unfinished' = unfinished - 1
  /\ IF unfinished = 1 THEN state' = "DONE" /\ event' = "FINISH"
                       ELSE UNCHANGED <<state, event>>
  /\ UNCHANGED <<turn, stage, loaded, branchVars, resultVars>>

TaskAborted(t) ==
  /\ event = "NOEVENT" /\ st[t] = "ACTIVATED"
  /\ <<t[1], "run">> \in MayFail
  /\ CloneFails(t)
  /\ UNCHANGED <<turn, stage, loaded>>

\* The fake node: pushAllSequenceValues, or an exception.  DONE stands for the
\* ACTIVATED it keeps once its thread has ended: it is never ready again.
FakeEnds ==
  /\ event = "NOEVENT" /\ st[Fake] = "ACTIVATED"
  /\ st' = [st EXCEPT ![Fake] = "DONE"]
  /\ IF ToDo = 0 \/ ~ HasOutput
       THEN out' = execVals /\ state' = "DONE" /\ event' = "FINISH"
       ELSE UNCHANGED out /\ state' = "ERROR" /\ event' = "ABORT"
  /\ UNCHANGED <<turn, stage, loaded, branchVars, unfinished, failedCounter, execVals>>

-----------------------------------------------------------------------------
(* The loop around                                                         *)

\* init(false) on this loop: the clones are deleted, the fake node is not.  What
\* becomes of a task the executor would still hold is undefined and not modelled
\* (see RestartDeletesOnlyIdle): the restart ends its round.
Restart ==
  /\ event \in Again /\ turn < Len(Sizes)
  /\ turn' = turn + 1
  /\ st' = [NoClone EXCEPT ![Fake] = st[Fake]]
  /\ stage' = IdleStage /\ loaded' = {}
  /\ execIds' = [b \in Branch |-> Unset] /\ sample' = [b \in Branch |-> Unset]
  /\ execCurrentId' = 0 /\ failedCounter' = 0 /\ execVals' = <<>>
  /\ state' = "READY" /\ event' = "UPDATE"
  /\ UNCHANGED <<unfinished, out>>

\* It does not, and what is around ends or goes on without this loop.
NoRestart ==
  /\ event \in {"FINISH", "ABORT"} /\ ~ (event \in Again /\ turn < Len(Sizes))
  /\ event' = "NOEVENT"
  /\ UNCHANGED <<state, turn, st, stage, loaded, branchVars, unfinished, resultVars>>

ExUpdateState == \/ UpdateEmpty \/ UpdateNoBranch \/ UpdateDispatch
                 \/ \E n \in 0 .. MaxBranches : UpdateThrows(n)

Round == \/ GetNextTasks
         \/ \E t \in Task : \/ TaskStarted(t) \/ TaskLoaded(t) \/ TaskNotLoaded(t)
                            \/ TaskConnected(t) \/ TaskNotConnected(t) \/ TaskLaunched(t)

TaskEnds == \/ \E b \in Branch : InitFinished(b) \/ WorkFinished(b) \/ FinalizeFinished(b)
            \/ \E t \in Clone : TaskAborted(t)
            \/ FakeEnds

Next == ExUpdateState \/ Round \/ TaskEnds \/ Restart \/ NoRestart

Spec == Init /\ [][Next]_vars

\* The executor goes on as long as there is something to do, and the services
\* of the nodes return.
FairSpec == Spec /\ WF_vars(Next)

-----------------------------------------------------------------------------
(* Properties                                                              *)

\* The types of the loop, of its clones and of the counters of samples.
TypeOK ==
  /\ state \in {"READY", "ACTIVATED", "DONE", "ERROR", "FAILED"}
  /\ turn \in DOMAIN Sizes
  /\ st \in [Task -> {"NONE", "READY", "TOLOAD", "TOACTIVATE", "ACTIVATED", "DONE", "ERROR"}]
  /\ stage \in [Task -> {"none", "chosen", "loading", "loaded", "connected"}]
  /\ loaded \subseteq Clone
  /\ execIds \in [Branch -> {Unset} \cup 0 .. (ToDo - 1)]
  /\ sample \in [Branch -> {Unset} \cup 0 .. (Size - 1)]
  /\ execCurrentId \in 0 .. ToDo
  /\ unfinished \in 0 .. MaxBranches
  /\ failedCounter \in Nat
  /\ execVals \in Values(Size) \cup {<<>>}
  /\ out \in {<<>>} \cup UNION {Values(Sizes[t]) : t \in DOMAIN Sizes}
  /\ event \in {"UPDATE", "NOEVENT", "FINISH", "ABORT"}

\* A loop that is DONE has published the result of every sample, each at its
\* rank in the collection: those of all branches and those of the run before
\* (storeOutValsInSeqForOutOfScopeUse, assignAlreadyDone, pushAllSequenceValues).
ResultsComplete ==
  state = "DONE" /\ HasOutput => out = [i \in 0 .. (Size - 1) |-> i]

\* A loop that is DONE leaves no clone behind that failed, runs or waits: a
\* branch that is late, or a failure that a later START event hides, never
\* counts as success (updateStateOnFinishedEventFrom, updateStateOnFailedEventFrom).
DoneMeansAllDone ==
  state = "DONE" => \A t \in Clone : st[t] \in {"NONE", "DONE"}

\* As long as no sample is refused to a branch (NextSampleThrows), every sample
\* that was dispatched is stored, in the hands of one branch, or counted in
\* _failedCounter: none is lost and none counted twice.
InHand(k) == \E b \in Branch : /\ execIds[b] = k
                               /\ ~ (KeepGoing /\ st[<<"work", b>>] = "ERROR")
SamplesAccounted ==
  event # "UPDATE" /\ state # "ERROR" /\ st[Fake] = "NONE" =>
    failedCounter = Cardinality({k \in 0 .. (execCurrentId - 1) :
                                   execVals[ToAbsId(k)] = Unset /\ ~ InHand(k)})

\* As long as no sample is refused to a branch, no two branches are given the same
\* one, and a branch works on the sample its result will be stored for.
DistinctSamples ==
  \A b \in Branch : execIds[b] # Unset /\ state # "ERROR" =>
    /\ sample[b] = ToAbsId(execIds[b])
    /\ \A c \in Branch \ {b} : execIds[b] # execIds[c]

\* A body starts after the init node of its branch has ended, and a finalize
\* node after the bodies of all branches have ended without an error.
BodyBetweenInitAndFinalize ==
  \A b \in Branch :
    /\ st[<<"work", b>>] \in {"TOLOAD", "TOACTIVATE", "ACTIVATED", "DONE"}
         => st[<<"init", b>>] \in {"NONE", "DONE"}
    /\ st[<<"finalize", b>>] \in {"TOLOAD", "TOACTIVATE", "ACTIVATED", "DONE"}
         => \A c \in Branch : st[<<"work", c>>] \in {"NONE", "DONE"}

\* A node runs once its component is loaded (Executor::loadTask).
LoadedBeforeRun == \A t \in Clone : st[t] = "ACTIVATED" => t \in loaded

\* With keep-going, as long as only bodies fail, a loop that is ACTIVATED has a task
\* that runs, that the executor holds, or that it will be given (getReadyTasks).
ActivatedHasWork ==
  state = "ACTIVATED" /\ event = "NOEVENT" =>
    \/ ReadyTasks # {}
    \/ \E t \in Task : stage[t] # "none" \/ st[t] = "ACTIVATED"

\* The clones that a restart deletes are no more in the hands of the executor:
\* none runs, and none is in a round (init, cleanDynGraph).
RestartDeletesOnlyIdle ==
  [][turn' # turn => \A t \in Clone : stage[t] = "none" /\ st[t] # "ACTIVATED"]_vars

\* The fake node of an earlier turn, which init() does not delete, stands for the
\* clones of this one (getReadyTasks): none of them is ever given to the executor.
HeldByOldFake == state = "ACTIVATED" /\ st[Fake] = "DONE"

\* Each turn of the loop gives a verdict, FINISH or ABORT, to the nodes around it,
\* whatever fails and in whatever order the branches end (the one that ends last
\* closes the loop, an exception in a handler is an ABORT), unless the loop is held
\* by the fake node of an earlier turn.  The verdict may be taken back: after an
\* ABORT the START of another branch makes the loop ACTIVATED again.
TurnGivesVerdict ==
  (event = "UPDATE") ~> (event \in {"FINISH", "ABORT"} \/ HeldByOldFake)
=============================================================================
