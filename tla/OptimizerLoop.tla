---------------------------- MODULE OptimizerLoop ----------------------------
(***************************************************************************)
(* YACS: an OptimizerLoop driven by an asynchronous algorithm.  The        *)
(* algorithm runs in the slave thread of an AlternateThread: at each of    *)
(* its turns it puts samples in the pool.  The loop launches the samples   *)
(* on its branches; the end of the body of a branch gives the slave its    *)
(* next turn, and an empty pool tells that the algorithm has converged.    *)
(*                                                                         *)
(* A handler of the loop runs under the mutex of the scheduler and is cut  *)
(* where it waits for the slave: `call' is the rest of it.  The body, the  *)
(* init and the finalize nodes are elementary; the executor takes the      *)
(* ready tasks in rounds.  A loop around may start this one again.         *)
(***************************************************************************)
EXTENDS AlternateThread, Integers, Sequences, Functions

CONSTANTS Branches,     \* the port nbBranches, for each turn of the loop around
          MaxBranches,  \* a bound for it
          MaxSamples,   \* a bound for the samples the algorithm makes in one turn
          HasInit,      \* _initNode # NULL
          HasFinalize,  \* _finalizeNode # NULL
          ResultUsed,   \* the port algoResult is linked: no other port may leave the loop
          MayFail       \* what may go wrong

Kind   == {"init", "work", "finalize"}
Branch == 0 .. (MaxBranches - 1)
Clone  == Kind \X Branch
Fake   == <<"fake", 0>>          \* _nodeForSpecialCases
Task   == Clone \cup {Fake}
Sample == 0 .. (MaxSamples - 1)

NotRunning     == -1             \* NOT_RUNNING_BRANCH_ID
NotInitialized == -2             \* NOT_INITIALIZED_BRANCH_ID

ASSUME OptBranches == /\ MaxBranches \in Nat /\ MaxSamples \in Nat
                      /\ Branches \in Seq(0 .. MaxBranches) /\ Branches # <<>>
ASSUME OptFlags    == {HasInit, HasFinalize, ResultUsed} \subseteq BOOLEAN
ASSUME OptMayFail  == MayFail \subseteq Kind \cup {"initialize", "algorithm", "ignores"}

VARIABLES state,        \* _state of the loop
          turn,         \* turn of the loop around, from 1
          st,           \* states of the clones and of the fake node
          normal,       \* _normal of the fake node
          held,         \* tasks the executor has taken and not launched yet
          execIds,      \* _execIds
          converged,    \* _convergenceReachedWithOtherCalc
          unfinished,   \* _unfinishedCounter
          pool,         \* _myPool: what becomes of each sample
          currentCase,  \* _currentCase
          made,         \* samples the algorithm has made
          error,        \* the algorithm hasError()
          call,         \* the handler under way: <<what it waits for, branch>>
          event         \* UPDATE, NOEVENT, FINISH or ABORT

loopVars == <<state, turn, st, normal, held, execIds, converged, unfinished, event>>
poolVars == <<pool, currentCase, made>>
vars == <<loopVars, poolVars, error, call, altVars>>

NoCall    == <<"none", 0>>
EmptyPool == [i \in Sample |-> "none"]
NoClone   == [t \in Task |-> "NONE"]

Nb   == Branches[turn]
Used == {b \in Branch : b < Nb}

Waiting(p)  == {i \in Sample : p[i] = "waiting"}     \* isLaunchable
IsEmpty(p)  == \A i \in Sample : p[i] = "none"
Lazy(ids)   == {b \in Used : ids[b] < 0}
FullyLazy(ids) == Lazy(ids) = Used                   \* isFullyLazy

Init ==
  /\ AltInit
  /\ state = "READY" /\ turn = 1 /\ event = "UPDATE"
  /\ st = NoClone /\ normal = TRUE /\ held = {}
  /\ execIds = [b \in Branch |-> NotInitialized]
  /\ converged = FALSE /\ unfinished = 0
  /\ pool = EmptyPool /\ currentCase = 0 /\ made = 0
  /\ error = FALSE /\ call = NoCall

-----------------------------------------------------------------------------
(* finishProxy and takeDecisionProxy                                       *)

Finishing == {"restart", "startError", "result", "decideError", "starved", "failed"}

\* terminateSlaveThread, which returns at once when there is no slave.
Terminate ==
  /\ call[1] \in Finishing
  /\ TerminateEnded \/ TerminateRequests
  /\ UNCHANGED <<loopVars, poolVars, error, call>>

FinishProxyDone(what) == call[1] = what /\ status = "UNEXISTING" /\ master = "free"

\* The clone a sample is given to: the init node at the first sample of a branch.
Launchable(ids, b) == IF HasInit /\ ids[b] = NotInitialized THEN <<"init", b>> ELSE <<"work", b>>

\* launchMaxOfSamples: the first free branches, as many as there are samples that
\* wait; the priorities say which of these are taken.
Rank(b, S) == Cardinality({c \in S : c < b})

LaunchMaxOfSamples(s, p, ids) ==
  LET Served == {b \in Lazy(ids) : Rank(b, Lazy(ids)) < Cardinality(Waiting(p))}
  IN  \E taken \in Injection(Served, Waiting(p)) :
        /\ execIds' = [b \in Branch |-> IF b \in Served THEN taken[b] ELSE ids[b]]
        /\ pool' = [i \in Sample |-> IF \E b \in Served : i = taken[b] THEN "used" ELSE p[i]]
        /\ st' = [t \in Task |-> IF \E b \in Served : t = Launchable(ids, b) THEN "TOLOAD" ELSE s[t]]

-----------------------------------------------------------------------------
(* exUpdateState                                                           *)

\* The fake node is deleted, and the algorithm of the turn before finished.
UpdateStarts ==
  /\ event = "UPDATE" /\ call = NoCall
  /\ st' = [st EXCEPT ![Fake] = "NONE"]
  /\ state' = "TOACTIVATE" /\ event' = "NOEVENT"
  /\ call' = <<"restart", 0>>
  /\ UNCHANGED <<turn, normal, held, execIds, converged, unfinished, poolVars, error, altVars>>

\* The exception is told when the fake node is executed.
TellError ==
  /\ st' = [st EXCEPT ![Fake] = "TOACTIVATE"]
  /\ normal' = FALSE

\* initializeProxy: its error is cleared by finishProxy and told by a fake node.
InitializeFails ==
  /\ FinishProxyDone("restart") /\ "initialize" \in MayFail
  /\ pool' = EmptyPool /\ error' = FALSE
  /\ TellError
  /\ call' = NoCall
  /\ UNCHANGED <<state, turn, held, execIds, converged, unfinished, event, currentCase, made, altVars>>

\* startProxy
StartProxy ==
  /\ FinishProxyDone("restart")
  /\ pool' = EmptyPool /\ error' = FALSE
  /\ call' = <<"start", 0>>
  /\ StartLocks
  /\ UNCHANGED <<loopVars, currentCase, made>>

StartProxyFailed ==
  /\ call = <<"start", 0>> /\ master = "runs" /\ error
  /\ call' = <<"startError", 0>>
  /\ UNCHANGED <<loopVars, poolVars, error, altVars>>

StartErrorTold ==
  /\ FinishProxyDone("startError")
  /\ error' = FALSE
  /\ TellError
  /\ call' = NoCall
  /\ UNCHANGED <<state, turn, held, execIds, converged, unfinished, event, poolVars, altVars>>

Cloned == [t \in Task |->
  IF t = Fake THEN st[t]
  ELSE IF t[2] \in Used /\ (t[1] = "init" => HasInit) /\ (t[1] = "finalize" => HasFinalize) THEN "READY"
  ELSE "NONE"]

\* No branch, or no sample: acceptable if no output port leaves the loop.
NothingToRun ==
  /\ call = <<"start", 0>> /\ master = "runs" /\ ~ error
  /\ Nb = 0 \/ Waiting(pool) = {}
  /\ st' = [Cloned EXCEPT ![Fake] = "TOACTIVATE"]
  /\ normal' = (Nb # 0 \/ ~ ResultUsed)
  /\ call' = NoCall
  /\ UNCHANGED <<state, turn, held, execIds, converged, unfinished, event, poolVars, error, altVars>>

FirstSamples ==
  /\ call = <<"start", 0>> /\ master = "runs" /\ ~ error
  /\ Nb # 0 /\ Waiting(pool) # {}
  /\ LaunchMaxOfSamples(Cloned, pool, [b \in Branch |-> NotInitialized])
  /\ call' = NoCall
  /\ UNCHANGED <<state, turn, normal, held, converged, unfinished, event, currentCase, made, error, altVars>>

-----------------------------------------------------------------------------
(* The turns of the slave: startToTakeDecision                             *)

\* It adds samples, none if it waits for other results, and gives the turn back.
SlavePushes(k) ==
  /\ status = "NORMAL_CYCLE" /\ made + k <= MaxSamples
  /\ pool' = [i \in Sample |-> IF i \in made .. (made + k - 1) THEN "waiting" ELSE pool[i]]
  /\ made' = made + k
  /\ SignalMaster
  /\ UNCHANGED <<loopVars, currentCase, error, call>>

\* It has converged and destroys all samples.
SlaveConverges ==
  /\ status = "NORMAL_CYCLE"
  /\ pool' = EmptyPool
  /\ SignalMaster
  /\ UNCHANGED <<loopVars, currentCase, made, error, call>>

SlaveErrs ==
  /\ status = "NORMAL_CYCLE" /\ "algorithm" \in MayFail
  /\ error' = TRUE
  /\ SignalMaster
  /\ UNCHANGED <<loopVars, poolVars, call>>

\* run(): the thread ends, and with it all samples.
SlaveReturns ==
  /\ pool' = EmptyPool
  /\ SlaveEnds
  /\ UNCHANGED <<loopVars, currentCase, made, error, call>>

\* It does not look at isTerminationRequested.
SlaveIgnores ==
  /\ status = "TERMINATION_REQUESTED" /\ "ignores" \in MayFail
  /\ SignalMaster
  /\ UNCHANGED <<loopVars, poolVars, error, call>>

-----------------------------------------------------------------------------
(* The ends of the clones                                                  *)

Quiet == call = NoCall /\ event = "NOEVENT"

\* A valid result after an error on another branch is ignored.
EndIgnored(t) ==
  /\ Quiet /\ st[t] = "ACTIVATED" /\ state = "FAILED"
  /\ st' = [st EXCEPT ![t] = "DONE"]
  /\ UNCHANGED <<state, turn, normal, held, execIds, converged, unfinished, event, poolVars, error, call, altVars>>

InitEnds(b) ==
  /\ Quiet /\ st[<<"init", b>>] = "ACTIVATED" /\ state # "FAILED"
  /\ st' = [st EXCEPT ![<<"init", b>>] = "DONE", ![<<"work", b>>] = "TOLOAD"]
  /\ UNCHANGED <<state, turn, normal, held, execIds, converged, unfinished, event, poolVars, error, call, altVars>>

WorkDone(b) == [st EXCEPT ![<<"work", b>>] = "DONE"]

\* Convergence was reached with other calculations: the result is for nothing.
EndAfterConvergence(b) ==
  /\ Quiet /\ st[<<"work", b>>] = "ACTIVATED" /\ state # "FAILED" /\ converged
  /\ st' = WorkDone(b)
  /\ execIds' = [execIds EXCEPT ![b] = NotRunning]
  /\ call' = IF FullyLazy(execIds') THEN <<"result", b>> ELSE NoCall
  /\ UNCHANGED <<state, turn, normal, held, converged, unfinished, event, poolVars, error, altVars>>

\* putOutSampleAt throws when the algorithm was terminated: updateStateFrom catches.
EndNotExpected(b) ==
  /\ Quiet /\ st[<<"work", b>>] = "ACTIVATED" /\ state # "FAILED" /\ ~ converged
  /\ pool[execIds[b]] = "none"
  /\ st' = WorkDone(b)
  /\ state' = "ERROR" /\ event' = "ABORT"
  /\ UNCHANGED <<turn, normal, held, execIds, converged, unfinished, poolVars, error, call, altVars>>

\* signalSlaveAndWait asserts that there is a slave.
DecisionRefused(b) ==
  /\ Quiet /\ st[<<"work", b>>] = "ACTIVATED" /\ state # "FAILED" /\ ~ converged
  /\ pool[execIds[b]] # "none" /\ status # "NORMAL_CYCLE"
  /\ st' = WorkDone(b)
  /\ pool' = [pool EXCEPT ![execIds[b]] = "out"]
  /\ currentCase' = execIds[b]
  /\ state' = "ERROR" /\ event' = "ABORT"
  /\ UNCHANGED <<turn, normal, held, execIds, converged, unfinished, made, error, call, altVars>>

\* putOutSampleAt, then takeDecisionProxy.
TakeDecision_NotCurrent(b) ==
  /\ Quiet /\ st[<<"work", b>>] = "ACTIVATED" /\ state # "FAILED" /\ ~ converged
  /\ pool[execIds[b]] # "none"
  /\ st' = WorkDone(b)
  /\ pool' = [pool EXCEPT ![execIds[b]] = "out"]
  /\ call' = <<"decide", b>>
  /\ SignalSlave
  /\ UNCHANGED <<state, turn, normal, held, execIds, converged, unfinished, event, currentCase, made, error>>

TakeDecision(b) ==
  /\ Quiet /\ st[<<"work", b>>] = "ACTIVATED" /\ state # "FAILED" /\ ~ converged
  /\ pool[execIds[b]] # "none"
  /\ st' = WorkDone(b)
  /\ pool' = [pool EXCEPT ![execIds[b]] = "out"]
  /\ currentCase' = execIds[b]
  /\ call' = <<"decide", b>>
  /\ SignalSlave
  /\ UNCHANGED <<state, turn, normal, held, execIds, converged, unfinished, event, made, error>>

Decided(b) == call = <<"decide", b>> /\ master = "runs"

DecidedError_NotFinished(b) ==
  /\ Decided(b) /\ error
  /\ error' = FALSE
  /\ state' = "FAILED" /\ event' = "ABORT" /\ call' = NoCall
  /\ UNCHANGED <<turn, st, normal, held, execIds, converged, unfinished, poolVars, altVars>>

DecidedError(b) ==
  /\ Decided(b) /\ error
  /\ call' = <<"decideError", b>>
  /\ UNCHANGED <<loopVars, poolVars, error, altVars>>

\* destroyCurrentCase
PoolAfter == IF IsEmpty(pool) THEN pool ELSE [pool EXCEPT ![currentCase] = "none"]

\* The pool is empty: the results of this branch are published.
DecidedConvergence(b) ==
  /\ Decided(b) /\ ~ error /\ IsEmpty(PoolAfter)
  /\ pool' = PoolAfter
  /\ execIds' = [execIds EXCEPT ![b] = NotRunning]
  /\ IF FullyLazy(execIds') THEN /\ call' = <<"result", b>>
                                 /\ UNCHANGED converged
                            ELSE /\ call' = NoCall
                                 /\ converged' = TRUE
  /\ UNCHANGED <<state, turn, st, normal, held, unfinished, event, currentCase, made, error, altVars>>

\* Samples are left: those that wait are launched.  If there are none and no
\* branch runs, the algorithm has not inserted more cases: the loop is in error.
IdsAfter(b) == [execIds EXCEPT ![b] = NotRunning]

Starved(b) == Waiting(PoolAfter) = {} /\ FullyLazy(IdsAfter(b))

DecidedToGoOn(b) ==
  /\ Decided(b) /\ ~ error /\ ~ IsEmpty(PoolAfter)
  /\ LaunchMaxOfSamples(st, PoolAfter, IdsAfter(b))
  /\ IF Starved(b) THEN state' = "ERROR" /\ call' = <<"starved", b>>
                   ELSE UNCHANGED state /\ call' = NoCall
  /\ UNCHANGED <<turn, normal, held, converged, unfinished, event, currentCase, made, error, altVars>>

\* finalize: the loop is DONE, or the branches that ran are finalized.
Finalize ==
  LET Ran == {b \in Used : execIds[b] = NotRunning}
  IN  /\ FinishProxyDone("result")
      /\ error' = FALSE /\ call' = NoCall
      /\ IF HasFinalize
           THEN /\ st' = [t \in Task |-> IF t[1] = "finalize" /\ t[2] \in Ran THEN "TOLOAD" ELSE st[t]]
                /\ unfinished' = Cardinality(Ran)
                /\ UNCHANGED <<state, event>>
           ELSE /\ state' = "DONE" /\ event' = "FINISH"
                /\ UNCHANGED <<st, unfinished>>
      /\ UNCHANGED <<turn, normal, held, execIds, converged, poolVars, altVars>>

\* The algorithm is finished after its error, or after it has left the loop starved.
DecisionStops ==
  /\ call[1] \in {"decideError", "starved"} /\ FinishProxyDone(call[1])
  /\ error' = FALSE /\ call' = NoCall
  /\ IF call[1] = "starved" THEN event' = "FINISH" /\ UNCHANGED state
                            ELSE event' = "ABORT" /\ state' = "FAILED"
  /\ UNCHANGED <<turn, st, normal, held, execIds, converged, unfinished, poolVars, altVars>>

FinalizeEnds(b) ==
  /\ Quiet /\ st[<<"finalize", b>>] = "ACTIVATED" /\ state # "FAILED"
  /\ st' = [st EXCEPT ![<<"finalize", b>>] = "DONE"]
  /\ unfinished' = unfinished - 1
  /\ IF unfinished = 1 THEN state' = "DONE" /\ event' = "FINISH"
                       ELSE UNCHANGED <<state, event>>
  /\ UNCHANGED <<turn, normal, held, execIds, converged, poolVars, error, call, altVars>>

\* updateStateOnFailedEventFrom: the algorithm is told, and terminated.
CloneFails(t) ==
  /\ st' = [st EXCEPT ![t] = "ERROR"]
  /\ error' = TRUE
  /\ call' = <<"failed", t[2]>>
  /\ UNCHANGED <<state, turn, normal, execIds, converged, unfinished, event, poolVars, altVars>>

TaskAborted(t) ==
  /\ Quiet /\ st[t] = "ACTIVATED" /\ t[1] \in MayFail
  /\ CloneFails(t)
  /\ UNCHANGED held

FailureTold ==
  /\ FinishProxyDone("failed")
  /\ error' = FALSE /\ call' = NoCall
  /\ pool' = EmptyPool
  /\ state' = "FAILED" /\ event' = "ABORT"
  /\ UNCHANGED <<turn, st, normal, held, execIds, converged, unfinished, currentCase, made, altVars>>

\* The fake node: the result of the algorithm, or an exception.  DONE stands for
\* the ACTIVATED it keeps once its thread has ended.
FakeEnds ==
  /\ Quiet /\ st[Fake] = "ACTIVATED"
  /\ st' = [st EXCEPT ![Fake] = "DONE"]
  /\ IF normal THEN state' = "DONE" /\ event' = "FINISH"
               ELSE state' = "ERROR" /\ event' = "ABORT"
  /\ UNCHANGED <<turn, normal, held, execIds, converged, unfinished, poolVars, error, call, altVars>>

-----------------------------------------------------------------------------
(* The rounds of the executor, and the loop around                         *)

ReadyTasks ==
  IF state \notin {"TOACTIVATE", "ACTIVATED"} THEN {}
  ELSE IF st[Fake] # "NONE" THEN {t \in {Fake} : st[t] = "TOACTIVATE"}
  ELSE {t \in Clone : st[t] \in {"TOLOAD", "TOACTIVATE"}}

GetNextTasks ==
  /\ Quiet /\ held = {} /\ ReadyTasks # {}
  /\ held' = ReadyTasks
  /\ UNCHANGED <<state, turn, st, normal, execIds, converged, unfinished, event, poolVars, error, call, altVars>>

\* loadTask: notifyFrom(START) makes the loop ACTIVATED, whatever it was.
TaskLoaded(t) ==
  /\ Quiet /\ t \in held /\ st[t] = "TOLOAD"
  /\ st' = [st EXCEPT ![t] = "TOACTIVATE"]
  /\ state' = "ACTIVATED"
  /\ UNCHANGED <<turn, normal, held, execIds, converged, unfinished, event, poolVars, error, call, altVars>>

TaskLaunched(t) ==
  /\ Quiet /\ t \in held /\ \A u \in held : st[u] # "TOLOAD"
  /\ held' = held \ {t}
  /\ st' = [st EXCEPT ![t] = IF @ = "TOACTIVATE" THEN "ACTIVATED" ELSE @]
  /\ UNCHANGED <<state, turn, normal, execIds, converged, unfinished, event, poolVars, error, call, altVars>>

\* init() of the turn that follows: the clones are deleted, not the fake node.
Restart ==
  /\ event = "FINISH" /\ call = NoCall /\ turn < Len(Branches)
  /\ turn' = turn + 1
  /\ st' = [NoClone EXCEPT ![Fake] = st[Fake]] /\ held' = {}
  /\ execIds' = [b \in Branch |-> NotInitialized]
  /\ converged' = FALSE /\ made' = 0
  /\ state' = "READY" /\ event' = "UPDATE"
  /\ UNCHANGED <<normal, unfinished, pool, currentCase, error, call, altVars>>

NoRestart ==
  /\ event = "ABORT" \/ (event = "FINISH" /\ turn = Len(Branches))
  /\ event' = "NOEVENT"
  /\ UNCHANGED <<state, turn, st, normal, held, execIds, converged, unfinished, poolVars, error, call, altVars>>

-----------------------------------------------------------------------------
ExUpdateState ==
  \/ UpdateStarts \/ InitializeFails \/ StartProxy \/ StartProxyFailed \/ StartErrorTold
  \/ NothingToRun \/ FirstSamples

SlaveTurn ==
  \/ \E k \in 0 .. MaxSamples : SlavePushes(k)
  \/ SlaveConverges \/ SlaveErrs \/ SlaveReturns \/ SlaveIgnores

WorkEnds(b) ==
  \/ EndAfterConvergence(b) \/ EndNotExpected(b) \/ DecisionRefused(b) \/ TakeDecision(b)
  \/ DecidedError(b) \/ DecidedConvergence(b) \/ DecidedToGoOn(b)

Ends ==
  \/ \E t \in Clone : EndIgnored(t) \/ TaskAborted(t)
  \/ \E b \in Branch : InitEnds(b) \/ WorkEnds(b) \/ FinalizeEnds(b)
  \/ Finalize \/ DecisionStops \/ FailureTold \/ FakeEnds

Round == GetNextTasks \/ \E t \in Task : TaskLoaded(t) \/ TaskLaunched(t)

Threads == AltSteps /\ UNCHANGED <<loopVars, poolVars, error, call>>

Next == \/ ExUpdateState \/ SlaveTurn \/ Ends \/ Round \/ Restart \/ NoRestart
        \/ Terminate \/ Threads

Spec == Init /\ [][Next]_vars

\* The threads are scheduled, the services of the nodes return, and the algorithm
\* gives its turn back.
FairSpec == Spec /\ WF_vars(Next)

-----------------------------------------------------------------------------
(* Properties                                                              *)

\* The types of the loop, of its branches and of its pool.
OptTypeOK ==
  /\ AltTypeOK
  /\ state \in {"READY", "TOACTIVATE", "ACTIVATED", "DONE", "FAILED", "ERROR"}
  /\ turn \in 1 .. Len(Branches)
  /\ st \in [Task -> {"NONE", "READY", "TOLOAD", "TOACTIVATE", "ACTIVATED", "DONE", "ERROR"}]
  /\ held \subseteq Task
  /\ execIds \in [Branch -> Sample \cup {NotRunning, NotInitialized}]
  /\ {normal, converged, error} \subseteq BOOLEAN
  /\ unfinished \in 0 .. MaxBranches
  /\ pool \in [Sample -> {"none", "waiting", "used", "out"}]
  /\ currentCase \in Sample /\ made \in 0 .. MaxSamples
  /\ call \in ({"none", "start", "decide"} \cup Finishing) \X Branch
  /\ event \in {"UPDATE", "NOEVENT", "FINISH", "ABORT"}

\* What the loop waits for an answer about: between two handlers, before the
\* algorithm has converged and as long as nothing failed.
Searching == Quiet /\ state \in {"TOACTIVATE", "ACTIVATED"} /\ ~ converged /\ ~ IsEmpty(pool)

\* No sample is lost or launched twice: those in use are the ones of the busy
\* branches, one each.
SamplesInUse == Searching =>
  /\ {i \in Sample : pool[i] = "used"} = {execIds[b] : b \in Used \ Lazy(execIds)}
  /\ \A b, c \in Used \ Lazy(execIds) : execIds[b] = execIds[c] => b = c

\* A sample waits only when every branch is busy.
NoBranchLeftFree == (Searching /\ Waiting(pool) # {}) => Lazy(execIds) = {}

\* A decision is made on the result of the branch that has just ended: when the
\* algorithm gets its turn the current case is that sample, computed.
DecidesOnResult ==
  \A b \in Branch : (call = <<"decide", b>> /\ slave = "runs") =>
    currentCase = execIds[b] /\ pool[currentCase] = "out"

\* The error of updateStateOnFinishedEventFrom cannot come: the last result has come,
\* the pool holds samples, and none is left to launch.
NoStarvation ==
  \A b \in Branch : (Decided(b) /\ ~ error /\ ~ IsEmpty(PoolAfter)) => ~ Starved(b)

\* The loop is DONE only when nothing of it is left to run or has failed, and when
\* the branches that ran, and no other, have been finalized.
DoneIsIdle == state = "DONE" =>
  /\ \A t \in Clone : st[t] \notin {"TOLOAD", "TOACTIVATE", "ACTIVATED", "ERROR"}
  /\ (HasFinalize /\ st[Fake] = "NONE") =>
       \A b \in Used : (st[<<"finalize", b>>] = "DONE") = (st[<<"work", b>>] = "DONE")

\* A loop that failed has no algorithm left behind: its thread was joined.
FailedIsFinished == (state = "FAILED" /\ call = NoCall) => status = "UNEXISTING" /\ slave = "none"

\* Every turn of the loop comes to a verdict: the two threads, the branches and the
\* finalization never wait for one another for ever.
Verdict == event = "UPDATE" ~> event \in {"FINISH", "ABORT"}
=============================================================================
