---------------------------- MODULE OptimizerProofs ----------------------------
(***************************************************************************)
(* For every number of branches, samples and turns, and whatever fails:    *)
(* the two threads of an OptimizerLoop run in turn, the loop keeps to the  *)
(* contract of AlternateThread, the algorithm decides on the result that   *)
(* has just come, and no sample is lost or computed twice.                 *)
(***************************************************************************)
EXTENDS OptimizerLoop, TLAPS

(* The two threads                                                         *)

\* Whoever runs holds the mutex.
Exclusion ==
  /\ mutex \in Thread \cup {"none"}
  /\ mutex = "master" <=> master \in {"locked", "runs"}
  /\ mutex = "slave" <=> slave = "runs"

\* The slave exists while the master is between start() and the join.
Lives ==
  /\ master = "free" => slave = "none"
  /\ slave = "none" => master \in {"free", "locked"} /\ status = "UNEXISTING"
  /\ slave = "born" => master \in {"locked", "started"} /\ status = "UNEXISTING"
  /\ slave \in {"runs", "waits"} => status \in {"NORMAL_CYCLE", "TERMINATION_REQUESTED"}
  /\ slave = "ended" <=> status = "READY_TO_JOIN"
  /\ status = "TERMINATION_REQUESTED" => master \in {"requested", "cancels"}
  /\ master \in {"requested", "cancels"} => status \in {"TERMINATION_REQUESTED", "READY_TO_JOIN"}
  /\ master = "joins" => slave = "ended"

\* At most one of them can be woken, and a cancelled slave cannot.
Turns ==
  /\ slave = "born" /\ master = "started" => "master" \in waiting
  /\ slave = "ended" => master \in {"runs", "joins"} \cup Waits /\ waiting = {}
  /\ slave = "runs" => master \in Waits /\ "master" \in waiting /\ ~ cancelled
  /\ slave = "waits" /\ "slave" \notin waiting =>
       master \in Waits /\ "master" \in waiting /\ ~ cancelled
  /\ slave = "waits" /\ "slave" \in waiting =>
       \/ master = "runs"
       \/ master \in Waits \ {"cancels"} /\ "master" \notin waiting
       \/ master = "cancels" /\ "master" \in waiting
  /\ cancelled <=> master = "cancels" \/ (master = "joins" /\ cancelled)

AltInv == AltTypeOK /\ Exclusion /\ Lives /\ Turns

\* Every step of the two threads keeps the invariant, when no wake-up is spurious.
LEMMA AltStep ==
  ASSUME ~ SpuriousWakeUps, AltInv, [AltNext]_altVars
  PROVE  AltInv'
<1> USE DEF AltInv, AltTypeOK, Exclusion, Lives, Turns, Thread, Waits
<1>1. CASE StartLocks
  BY <1>1 DEF StartLocks
<1>2. CASE StartCreates
  BY <1>2 DEF StartCreates
<1>3. CASE StartWaits
  BY <1>3 DEF StartWaits, SignalAndWait
<1>4. CASE SignalSlave
  BY <1>4 DEF SignalSlave, SignalAndWait
<1>5. CASE TerminateEnded
  BY <1>5 DEF TerminateEnded
<1>6. CASE TerminateRequests
  BY <1>6 DEF TerminateRequests, SignalAndWait
<1>7. CASE MasterWakes
  BY <1>7 DEF MasterWakes, Woken
<1>8. CASE MasterUnlocks
  BY <1>8 DEF MasterUnlocks, Woken
<1>9. CASE MasterCancels
  BY <1>9 DEF MasterCancels, Woken
<1>10. CASE Join
  BY <1>10 DEF Join
<1>11. CASE SlaveStarts
  BY <1>11 DEF SlaveStarts
<1>12. CASE SignalMaster
  BY <1>12 DEF SignalMaster, SignalAndWait
<1>13. CASE SlaveWakes
  BY <1>13 DEF SlaveWakes, Woken
<1>14. CASE SlaveEnds
  BY <1>14 DEF SlaveEnds, Cleanup
<1>15. CASE SlaveCancelled
  BY <1>15 DEF SlaveCancelled, Cleanup
<1>16. CASE \E t \in Thread : SpuriousWakeUp(t)
  BY <1>16 DEF SpuriousWakeUp
<1>17. CASE UNCHANGED altVars
  BY <1>17 DEF altVars
<1> QED
  BY <1>1, <1>2, <1>3, <1>4, <1>5, <1>6, <1>7, <1>8, <1>9, <1>10, <1>11, <1>12, <1>13, <1>14, <1>15, <1>16, <1>17 DEF AltNext, AltSteps, MasterCalls, SlaveCalls

LEMMA AltStarts == AltInit => AltInv
BY DEF AltInit, AltInv, AltTypeOK, Exclusion, Lives, Turns, Thread, Waits

LEMMA AltInvariant ==
  ASSUME ~ SpuriousWakeUps
  PROVE  AltSpec => []AltInv
<1>1. AltInv /\ [AltNext]_altVars => AltInv'
  BY AltStep
<1> QED
  BY <1>1, AltStarts, PTL DEF AltSpec

\* The contract of AlternateThread: "the two threads NEVER run concurrently", even
\* when a wake-up is spurious.
THEOREM AltExclusive == AltSpec => [](AltTypeOK /\ NeverConcurrent)
<1> DEFINE I == AltTypeOK /\ Exclusion
<1>1. AltInit => I
  BY DEF AltInit, AltTypeOK, Exclusion, Thread, Waits
<1>2. I /\ [AltNext]_altVars => I'
  <2> SUFFICES ASSUME I, [AltNext]_altVars PROVE I'
    OBVIOUS
  <2> USE DEF AltTypeOK, Exclusion, Thread, Waits
  <2>1. CASE StartLocks
    BY <2>1 DEF StartLocks
  <2>2. CASE StartCreates
    BY <2>2 DEF StartCreates
  <2>3. CASE StartWaits
    BY <2>3 DEF StartWaits, SignalAndWait
  <2>4. CASE SignalSlave
    BY <2>4 DEF SignalSlave, SignalAndWait
  <2>5. CASE TerminateEnded
    BY <2>5 DEF TerminateEnded
  <2>6. CASE TerminateRequests
    BY <2>6 DEF TerminateRequests, SignalAndWait
  <2>7. CASE MasterWakes
    BY <2>7 DEF MasterWakes, Woken
  <2>8. CASE MasterUnlocks
    BY <2>8 DEF MasterUnlocks, Woken
  <2>9. CASE MasterCancels
    BY <2>9 DEF MasterCancels, Woken
  <2>10. CASE Join
    BY <2>10 DEF Join
  <2>11. CASE SlaveStarts
    BY <2>11 DEF SlaveStarts
  <2>12. CASE SignalMaster
    BY <2>12 DEF SignalMaster, SignalAndWait
  <2>13. CASE SlaveWakes
    BY <2>13 DEF SlaveWakes, Woken
  <2>14. CASE SlaveEnds
    BY <2>14 DEF SlaveEnds, Cleanup
  <2>15. CASE SlaveCancelled
    BY <2>15 DEF SlaveCancelled, Cleanup
  <2>16. CASE \E t \in Thread : SpuriousWakeUp(t)
    BY <2>16 DEF SpuriousWakeUp
  <2>17. CASE UNCHANGED altVars
    BY <2>17 DEF altVars
  <2> QED
    BY <2>1, <2>2, <2>3, <2>4, <2>5, <2>6, <2>7, <2>8, <2>9, <2>10, <2>11, <2>12, <2>13, <2>14, <2>15, <2>16, <2>17 DEF AltNext, AltSteps, MasterCalls, SlaveCalls
<1>3. I => AltTypeOK /\ NeverConcurrent
  BY DEF Exclusion, NeverConcurrent
<1> QED
  BY <1>1, <1>2, <1>3, PTL DEF AltSpec

\* Without spurious wake-ups the threads run in turn, and a cancelled slave ends.
THEOREM AltAlternates ==
  ASSUME ~ SpuriousWakeUps
  PROVE  AltSpec => [](Alternation /\ CancelWorks)
<1>1. AltInv => Alternation /\ CancelWorks
  BY DEF AltInv, AltTypeOK, Exclusion, Lives, Turns, Alternation, CancelWorks, CancelFailed, Waits
<1> QED
  BY <1>1, AltInvariant, PTL

-----------------------------------------------------------------------------
(* The loop                                                                *)

\* Every handler of the loop calls the methods of AlternateThread as they are meant
\* to be called, or none.
LEMMA ContractStep ==
  ASSUME [Next]_vars
  PROVE  [AltNext]_altVars
<1>1. CASE ExUpdateState
  BY <1>1 DEF ExUpdateState, UpdateStarts, InitializeFails, StartProxy, StartProxyFailed,
              StartErrorTold, NothingToRun, FirstSamples, AltNext, MasterCalls
<1>2. CASE SlaveTurn
  BY <1>2 DEF SlaveTurn, SlavePushes, SlaveConverges, SlaveErrs, SlaveReturns, SlaveIgnores,
              AltNext, SlaveCalls
<1>3. CASE Ends
  <2>1. ASSUME NEW t \in Clone, EndIgnored(t) \/ TaskAborted(t) PROVE UNCHANGED altVars
    BY <2>1 DEF EndIgnored, TaskAborted, CloneFails
  <2>2. ASSUME NEW b \in Branch, WorkEnds(b) PROVE [AltNext]_altVars
    BY <2>2 DEF WorkEnds, EndAfterConvergence, EndNotExpected, DecisionRefused, TakeDecision,
                DecidedError, DecidedConvergence, DecidedToGoOn, AltNext, MasterCalls
  <2>3. ASSUME NEW b \in Branch, InitEnds(b) \/ FinalizeEnds(b) PROVE UNCHANGED altVars
    BY <2>3 DEF InitEnds, FinalizeEnds
  <2>4. CASE Finalize \/ DecisionStops \/ FailureTold \/ FakeEnds
    BY <2>4 DEF Finalize, DecisionStops, FailureTold, FakeEnds
  <2> QED
    BY <1>3, <2>1, <2>2, <2>3, <2>4 DEF Ends
<1>4. CASE Round
  BY <1>4 DEF Round, GetNextTasks, TaskLoaded, TaskLaunched
<1>5. CASE Restart \/ NoRestart
  BY <1>5 DEF Restart, NoRestart
<1>6. CASE Terminate
  BY <1>6 DEF Terminate, AltNext, MasterCalls
<1>7. CASE Threads
  BY <1>7 DEF Threads, AltNext
<1>8. CASE UNCHANGED vars
  BY <1>8 DEF vars, altVars
<1> QED
  BY <1>1, <1>2, <1>3, <1>4, <1>5, <1>6, <1>7, <1>8 DEF Next

\* An OptimizerLoop keeps to the contract of AlternateThread.
THEOREM OptContract == Spec => AltSpec
<1>1. Init => AltInit
  BY DEF Init
<1>2. [Next]_vars => [AltNext]_altVars
  BY ContractStep
<1> QED
  BY <1>1, <1>2, PTL DEF Spec, AltSpec

\* So its algorithm and its handlers run in turn.
THEOREM OptAlternates ==
  ASSUME ~ SpuriousWakeUps
  PROVE  Spec => [](Alternation /\ NeverConcurrent /\ CancelWorks)
BY OptContract, AltAlternates, AltExclusive, PTL

\* A loop that failed has nothing of its algorithm left.
FailedLeavesNothing ==
  state = "FAILED" =>
    /\ status = "UNEXISTING" /\ master = "free" /\ slave = "none"
    /\ call = NoCall \/ call[1] = "failed"

\* The threads that are not there do nothing.
LEMMA NoThreadNoStep ==
  ASSUME status = "UNEXISTING", master = "free", slave = "none",
         AltSteps \/ TerminateEnded \/ TerminateRequests \/ SlaveCalls \/ SignalSlave
  PROVE  \E t \in Thread : SpuriousWakeUp(t)
BY DEF AltSteps, TerminateEnded, TerminateRequests, SlaveCalls, SignalSlave, StartCreates,
       StartWaits, MasterWakes, MasterUnlocks, MasterCancels, Join, SlaveStarts, SlaveWakes,
       SlaveCancelled, SignalMaster, SlaveEnds, Waits

LEMMA FailedStep ==
  ASSUME ~ SpuriousWakeUps, AltInv, FailedLeavesNothing, [Next]_vars
  PROVE  FailedLeavesNothing'
<1> USE DEF FailedLeavesNothing, NoCall
<1>1. CASE ExUpdateState
  <2>1. CASE UpdateStarts
    BY <2>1 DEF UpdateStarts
  <2>2. CASE InitializeFails \/ StartProxy \/ StartErrorTold
    BY <2>2 DEF InitializeFails, StartProxy, StartErrorTold, FinishProxyDone, loopVars
  <2>3. CASE StartProxyFailed \/ NothingToRun \/ FirstSamples
    <3>1. call = <<"start", 0>> /\ state' = state
      BY <2>3 DEF StartProxyFailed, NothingToRun, FirstSamples, loopVars
    <3> QED
      BY <3>1
  <2> QED
    BY <1>1, <2>1, <2>2, <2>3 DEF ExUpdateState
<1>2. CASE SlaveTurn
  <2>1. state' = state /\ slave = "runs"
    BY <1>2 DEF SlaveTurn, SlavePushes, SlaveConverges, SlaveErrs, SlaveReturns, SlaveIgnores,
                SignalMaster, SlaveEnds, loopVars
  <2> QED
    BY <2>1
<1>3. CASE Ends
  <2>1. ASSUME NEW t \in Clone, EndIgnored(t) \/ TaskAborted(t) PROVE FailedLeavesNothing'
    BY <2>1 DEF EndIgnored, TaskAborted, CloneFails, Quiet, altVars
  <2>2. ASSUME NEW b \in Branch, WorkEnds(b) PROVE FailedLeavesNothing'
    BY <2>2 DEF WorkEnds, EndAfterConvergence, EndNotExpected, DecisionRefused, TakeDecision,
                DecidedError, DecidedConvergence, DecidedToGoOn, Decided, altVars, loopVars
  <2>3. ASSUME NEW b \in Branch, InitEnds(b) \/ FinalizeEnds(b) PROVE FailedLeavesNothing'
    BY <2>3 DEF InitEnds, FinalizeEnds, altVars
  <2>4. CASE Finalize \/ FakeEnds
    BY <2>4 DEF Finalize, FakeEnds, FinishProxyDone, altVars
  <2>5. CASE DecisionStops \/ FailureTold
    BY <2>5 DEF DecisionStops, FailureTold, FinishProxyDone, altVars, AltInv, Lives
  <2> QED
    BY <1>3, <2>1, <2>2, <2>3, <2>4, <2>5 DEF Ends
<1>4. CASE Round
  BY <1>4 DEF Round, GetNextTasks, TaskLoaded, TaskLaunched, altVars
<1>5. CASE Restart \/ NoRestart
  BY <1>5 DEF Restart, NoRestart, altVars
<1>6. CASE Terminate
  BY <1>6, NoThreadNoStep, ~ SpuriousWakeUps DEF Terminate, SpuriousWakeUp, loopVars
<1>7. CASE Threads
  BY <1>7, NoThreadNoStep, ~ SpuriousWakeUps DEF Threads, SpuriousWakeUp, loopVars
<1>8. CASE UNCHANGED vars
  BY <1>8 DEF vars, altVars, loopVars
<1> QED
  BY <1>1, <1>2, <1>3, <1>4, <1>5, <1>6, <1>7, <1>8 DEF Next

\* The loop is FAILED only once the thread of its algorithm was joined, whatever the
\* algorithm does when it is asked to end, and nothing starts it again until the
\* loop itself is started again.
THEOREM OptFailedIsFinished ==
  ASSUME ~ SpuriousWakeUps
  PROVE  Spec => []FailedIsFinished
<1>1. Init => FailedLeavesNothing
  BY DEF Init, FailedLeavesNothing
<1>2. AltInv /\ FailedLeavesNothing /\ [Next]_vars => FailedLeavesNothing'
  BY FailedStep
<1>3. FailedLeavesNothing => FailedIsFinished
  BY DEF FailedLeavesNothing, FailedIsFinished
<1> QED
  BY <1>1, <1>2, <1>3, AltInvariant, OptContract, PTL DEF Spec

-----------------------------------------------------------------------------
(* The branches and the samples                                            *)

States == {"NONE", "READY", "TOLOAD", "TOACTIVATE", "ACTIVATED", "DONE", "ERROR"}
Active == {"TOLOAD", "TOACTIVATE", "ACTIVATED"}
Ids    == Sample \cup {NotRunning, NotInitialized}
Pools  == [Sample -> {"none", "waiting", "used", "out"}]

Types ==
  /\ turn \in 1 .. Len(Branches)
  /\ st \in [Task -> States]
  /\ execIds \in [Branch -> Ids]
  /\ pool \in Pools
  /\ made \in Nat
  /\ held \subseteq Task

\* What the master does in each handler.
Masters ==
  /\ call[1] = "none" => master \in {"free", "runs"}
  /\ call[1] = "start" => master \in {"locked", "started", "runs"}
  /\ call[1] = "decide" => master \in {"resumed", "runs"}
  /\ call[1] \in Finishing => master \in {"free", "runs", "requested", "cancels", "joins"}
  /\ call[1] \in {"none", "start", "decide"} \cup Finishing

\* A branch with something to run has a sample, and runs its init node or its body.
HasSample ==
  \A b \in Branch :
    /\ st[<<"init", b>>] \in Active \/ st[<<"work", b>>] \in Active => b \in Used /\ execIds[b] \in Sample
    /\ st[<<"init", b>>] \in Active => st[<<"work", b>>] \notin Active

\* While the algorithm decides, its slave having its turn ahead or at work.
Deciding ==
  \A b \in Branch : call = <<"decide", b>> =>
    /\ b \in Used /\ execIds[b] \in Sample /\ currentCase = execIds[b]
    /\ st[<<"init", b>>] \notin Active /\ st[<<"work", b>>] \notin Active
    /\ slave = "runs" \/ (slave = "waits" /\ "slave" \notin waiting) => pool[currentCase] = "out"

DecideInv == AltInv /\ Types /\ Masters /\ HasSample /\ Deciding

\* The samples dealt to the branches served.
Deal(Served, taken, s, p, ids) ==
  /\ \A b \in Served : taken[b] \in Waiting(p)
  /\ \A b, c \in Served : taken[b] = taken[c] => b = c
  /\ execIds' = [b \in Branch |-> IF b \in Served THEN taken[b] ELSE ids[b]]
  /\ pool' = [i \in Sample |-> IF \E b \in Served : i = taken[b] THEN "used" ELSE p[i]]
  /\ st' = [t \in Task |-> IF \E b \in Served : t = Launchable(ids, b) THEN "TOLOAD" ELSE s[t]]

LEMMA Launched ==
  ASSUME NEW s \in [Task -> States], NEW p \in Pools, NEW ids \in [Branch -> Ids],
         LaunchMaxOfSamples(s, p, ids)
  PROVE  \E Served \in SUBSET Lazy(ids), taken \in [Branch -> Ids] :
           Deal(Served, taken, s, p, ids)
<1> DEFINE S == {b \in Lazy(ids) : Rank(b, Lazy(ids)) < Cardinality(Waiting(p))}
<1>1. PICK f \in Injection(S, Waiting(p)) :
        /\ execIds' = [b \in Branch |-> IF b \in S THEN f[b] ELSE ids[b]]
        /\ pool' = [i \in Sample |-> IF \E b \in S : i = f[b] THEN "used" ELSE p[i]]
        /\ st' = [t \in Task |-> IF \E b \in S : t = Launchable(ids, b) THEN "TOLOAD" ELSE s[t]]
  BY DEF LaunchMaxOfSamples
<1>2. S \in SUBSET Lazy(ids) /\ Lazy(ids) \subseteq Branch
  BY DEF Lazy, Used
<1> HIDE DEF S
<1>3. /\ f \in [S -> Waiting(p)]
      /\ \A b, c \in S : f[b] = f[c] => b = c
  BY <1>1 DEF Injection, IsInjective
<1> DEFINE g == [b \in Branch |-> IF b \in S THEN f[b] ELSE ids[b]]
<1>4. g \in [Branch -> Ids] /\ \A b \in S : g[b] = f[b]
  BY <1>2, <1>3 DEF Waiting, Ids
<1> HIDE DEF g
<1>5. /\ \A b \in S : g[b] \in Waiting(p)
      /\ \A b, c \in S : g[b] = g[c] => b = c
  BY <1>3, <1>4
<1>6. execIds' = [b \in Branch |-> IF b \in S THEN g[b] ELSE ids[b]]
  BY <1>1, <1>4
<1>7. pool' = [i \in Sample |-> IF \E b \in S : i = g[b] THEN "used" ELSE p[i]]
  BY <1>1, <1>4
<1>8. st' = [t \in Task |-> IF \E b \in S : t = Launchable(ids, b) THEN "TOLOAD" ELSE s[t]]
  BY <1>1
<1>9. Deal(S, g, s, p, ids)
  BY <1>5, <1>6, <1>7, <1>8 DEF Deal
<1> QED
  BY <1>2, <1>4, <1>9

\* Samples are given to branches that have nothing to run.
LEMMA LaunchKeeps ==
  ASSUME NEW s \in [Task -> States], NEW p \in Pools, NEW ids \in [Branch -> Ids],
         LaunchMaxOfSamples(s, p, ids),
         \A b \in Branch :
           /\ s[<<"init", b>>] \in Active \/ s[<<"work", b>>] \in Active => b \in Used /\ ids[b] \in Sample
           /\ s[<<"init", b>>] \in Active => s[<<"work", b>>] \notin Active,
         UNCHANGED turn
  PROVE  /\ st' \in [Task -> States] /\ pool' \in Pools /\ execIds' \in [Branch -> Ids]
         /\ HasSample'
<1>1. PICK Served \in SUBSET Lazy(ids), taken \in [Branch -> Ids] : Deal(Served, taken, s, p, ids)
  BY Launched
<1> USE DEF Deal
<1>2. st' \in [Task -> States] /\ pool' \in Pools /\ execIds' \in [Branch -> Ids]
  BY <1>1 DEF States, Pools
<1>3. ASSUME NEW b \in Branch
      PROVE  /\ st'[<<"init", b>>] \in Active \/ st'[<<"work", b>>] \in Active => b \in Used /\ execIds'[b] \in Sample
             /\ st'[<<"init", b>>] \in Active => st'[<<"work", b>>] \notin Active
  <2>1. \A c \in Branch : Launchable(ids, c) = <<"init", c>> \/ Launchable(ids, c) = <<"work", c>>
    BY DEF Launchable
  <2>2. <<"init", b>> \in Task /\ <<"work", b>> \in Task
    BY DEF Task, Clone, Kind
  <2>3. CASE b \in Served
    <3>1. b \in Used /\ ~ (ids[b] \in Sample) /\ execIds'[b] \in Sample
      BY <1>1, <2>3 DEF Lazy, Waiting, Sample
    <3>2. st'[<<"init", b>>] \in Active => st'[<<"work", b>>] \notin Active
      <4>1. CASE Launchable(ids, b) = <<"init", b>>
        <5>1. ~ \E c \in Served : <<"work", b>> = Launchable(ids, c)
          BY <1>1, <2>1, <4>1 DEF Lazy, Used
        <5> QED
          BY <1>1, <2>2, <3>1, <5>1
      <4>2. CASE Launchable(ids, b) = <<"work", b>>
        <5>1. ~ \E c \in Served : <<"init", b>> = Launchable(ids, c)
          BY <1>1, <2>1, <4>2 DEF Lazy, Used
        <5> QED
          BY <1>1, <2>2, <3>1, <5>1
      <4> QED
        BY <2>1, <4>1, <4>2
    <3> QED
      BY <3>1, <3>2
  <2>4. CASE b \notin Served
    <3>1. ~ \E c \in Served : <<"init", b>> = Launchable(ids, c) \/ <<"work", b>> = Launchable(ids, c)
      BY <1>1, <2>1, <2>4 DEF Lazy, Used
    <3> QED
      BY <1>1, <2>2, <2>4, <3>1
  <2> QED
    BY <2>3, <2>4
<1>4. Used' = Used
  BY DEF Used, Nb
<1> QED
  BY <1>2, <1>3, <1>4 DEF HasSample

\* A step that starts no clone and changes no sample number.
LEMMA SameClones ==
  ASSUME HasSample, UNCHANGED <<turn, execIds>>,
         \A b \in Branch : /\ st'[<<"init", b>>] \in Active => st[<<"init", b>>] \in Active
                           /\ st'[<<"work", b>>] \in Active => st[<<"work", b>>] \in Active
  PROVE  HasSample'
BY DEF HasSample, Used, Nb

LEMMA Clones ==
  ASSUME NEW b \in Branch
  PROVE  /\ <<"init", b>> \in Task /\ <<"work", b>> \in Task /\ <<"finalize", b>> \in Task
         /\ <<"init", b>> # Fake /\ <<"work", b>> # Fake
         /\ <<"init", b>> \in Clone /\ <<"work", b>> \in Clone
BY DEF Task, Clone, Kind, Fake

LEMMA UpdateKeeps ==
  ASSUME DecideInv, ExUpdateState
  PROVE  Types' /\ Masters' /\ HasSample' /\ Deciding'
<1> USE DEF DecideInv
<1>1. CASE UpdateStarts
  <2>1. Types' /\ Masters' /\ Deciding'
    BY <1>1 DEF UpdateStarts, Types, Masters, Deciding, poolVars, altVars, NoCall, States, Task, Finishing
  <2>2. \A b \in Branch : st'[<<"init", b>>] = st[<<"init", b>>] /\ st'[<<"work", b>>] = st[<<"work", b>>]
    BY <1>1, Clones DEF UpdateStarts, Types
  <2> QED
    BY <1>1, <2>1, <2>2, SameClones DEF UpdateStarts
<1>2. CASE InitializeFails \/ StartErrorTold
  <2>1. Types' /\ Masters' /\ Deciding'
    BY <1>2 DEF InitializeFails, StartErrorTold, TellError, FinishProxyDone, Types, Masters, Deciding,
                poolVars, altVars, NoCall, States, Task, Pools, EmptyPool
  <2>2. \A b \in Branch : st'[<<"init", b>>] = st[<<"init", b>>] /\ st'[<<"work", b>>] = st[<<"work", b>>]
    BY <1>2, Clones DEF InitializeFails, StartErrorTold, TellError, Types
  <2> QED
    BY <1>2, <2>1, <2>2, SameClones DEF InitializeFails, StartErrorTold
<1>3. CASE StartProxy
  BY <1>3 DEF StartProxy, StartLocks, FinishProxyDone, Types, Masters, HasSample, Deciding, Used, Nb,
              loopVars, Pools, EmptyPool, Finishing
<1>4. CASE StartProxyFailed
  BY <1>4 DEF StartProxyFailed, Types, Masters, HasSample, Deciding, Used, Nb, loopVars, poolVars, altVars,
              Finishing
<1>5. Cloned \in [Task -> States] /\ \A b \in Branch : /\ Cloned[<<"init", b>>] \notin Active
                                                    /\ Cloned[<<"work", b>>] \notin Active
  <2>1. Cloned \in [Task -> States]
    BY DEF Cloned, Types, States
  <2>2. ASSUME NEW b \in Branch PROVE Cloned[<<"init", b>>] \notin Active /\ Cloned[<<"work", b>>] \notin Active
    BY Clones DEF Cloned, Active
  <2> QED
    BY <2>1, <2>2
<1>6. CASE NothingToRun
  <2>1. Types' /\ Masters' /\ Deciding'
    BY <1>5, <1>6 DEF NothingToRun, Types, Masters, Deciding, poolVars, altVars, NoCall, States
  <2>2. \A b \in Branch : st'[<<"init", b>>] \notin Active /\ st'[<<"work", b>>] \notin Active
    BY <1>5, <1>6, Clones DEF NothingToRun
  <2> QED
    BY <2>1, <2>2 DEF HasSample
<1>7. CASE FirstSamples
  <2> DEFINE ids == [b \in Branch |-> NotInitialized]
  <2>1. ids \in [Branch -> Ids]
    BY DEF Ids
  <2>2. LaunchMaxOfSamples(Cloned, pool, ids)
    BY <1>7 DEF FirstSamples
  <2>3. /\ st' \in [Task -> States] /\ pool' \in Pools /\ execIds' \in [Branch -> Ids]
        /\ HasSample'
    <3> HIDE DEF ids
    <3> QED
      BY <1>5, <1>7, <2>1, <2>2, LaunchKeeps DEF Types, FirstSamples
  <2>4. Types' /\ Masters' /\ Deciding'
    BY <1>7, <2>3 DEF FirstSamples, Types, Masters, Deciding, altVars, NoCall
  <2> QED
    BY <2>3, <2>4
<1> QED
  BY <1>1, <1>2, <1>3, <1>4, <1>6, <1>7 DEF ExUpdateState

LEMMA SlaveKeeps ==
  ASSUME DecideInv, SlaveTurn
  PROVE  Types' /\ Masters' /\ HasSample' /\ Deciding'
<1> USE DEF DecideInv
<1>1. UNCHANGED <<loopVars, currentCase, call, master>>
  BY DEF SlaveTurn, SlavePushes, SlaveConverges, SlaveErrs, SlaveReturns, SlaveIgnores, SignalMaster,
         SlaveEnds, Cleanup, poolVars
<1>2. slave' = "ended" \/ (slave' = "waits" /\ "slave" \in waiting')
  BY DEF SlaveTurn, SlavePushes, SlaveConverges, SlaveErrs, SlaveReturns, SlaveIgnores, SignalMaster,
         SlaveEnds, Cleanup, SignalAndWait
<1>3. pool' \in Pools /\ made' \in Nat
  <2>1. CASE \E k \in 0 .. MaxSamples : SlavePushes(k)
    BY <2>1, OptBranches DEF SlavePushes, Types, Pools
  <2>2. CASE ~ \E k \in 0 .. MaxSamples : SlavePushes(k)
    BY <2>2 DEF SlaveTurn, SlaveConverges, SlaveErrs, SlaveReturns, SlaveIgnores, Types, Pools,
                EmptyPool, poolVars
  <2> QED
    BY <2>1, <2>2
<1>4. Types' /\ Masters' /\ HasSample'
  BY <1>1, <1>3 DEF Types, Masters, HasSample, Used, Nb, loopVars
<1>5. Deciding'
  BY <1>1, <1>2 DEF Deciding, Used, Nb, loopVars
<1> QED
  BY <1>4, <1>5

\* The end of an init node gives the sample to the body; the others start nothing.
LEMMA CloneEndKeeps ==
  ASSUME DecideInv,
         \/ \E t \in Clone : EndIgnored(t) \/ TaskAborted(t)
         \/ \E b \in Branch : InitEnds(b) \/ FinalizeEnds(b)
         \/ FakeEnds
  PROVE  Types' /\ Masters' /\ HasSample' /\ Deciding'
<1> USE DEF DecideInv
<1>1. ASSUME NEW t \in Clone, EndIgnored(t) \/ TaskAborted(t)
      PROVE  Types' /\ Masters' /\ HasSample' /\ Deciding'
  <2>1. Types' /\ Masters' /\ Deciding'
    BY <1>1 DEF EndIgnored, TaskAborted, CloneFails, Quiet, NoCall, Types, Masters, Deciding, poolVars,
                altVars, States, Finishing
  <2>2. \A b \in Branch : /\ st'[<<"init", b>>] \in Active => st[<<"init", b>>] \in Active
                          /\ st'[<<"work", b>>] \in Active => st[<<"work", b>>] \in Active
    BY <1>1, Clones DEF EndIgnored, TaskAborted, CloneFails, Types, Active
  <2> QED
    BY <1>1, <2>1, <2>2, SameClones DEF EndIgnored, TaskAborted, CloneFails
<1>2. ASSUME NEW b \in Branch, InitEnds(b)
      PROVE  Types' /\ Masters' /\ HasSample' /\ Deciding'
  <2>1. Types' /\ Masters' /\ Deciding'
    BY <1>2 DEF InitEnds, Quiet, NoCall, Types, Masters, Deciding, poolVars, altVars, States
  <2>2. ASSUME NEW c \in Branch
        PROVE  /\ st'[<<"init", c>>] \in Active => st[<<"init", c>>] \in Active /\ c # b
               /\ st'[<<"work", c>>] \in Active => st[<<"work", c>>] \in Active \/ c = b
               /\ c # b => st'[<<"init", c>>] = st[<<"init", c>>] /\ st'[<<"work", c>>] = st[<<"work", c>>]
    BY <1>2, Clones DEF InitEnds, Types, Active
  <2>3. st[<<"init", b>>] \in Active
    BY <1>2 DEF InitEnds, Active
  <2>4. UNCHANGED <<turn, execIds>>
    BY <1>2 DEF InitEnds
  <2> QED
    BY <2>1, <2>2, <2>3, <2>4 DEF HasSample, Used, Nb
<1>3. ASSUME NEW b \in Branch, FinalizeEnds(b)
      PROVE  Types' /\ Masters' /\ HasSample' /\ Deciding'
  <2>1. Types' /\ Masters' /\ Deciding'
    BY <1>3 DEF FinalizeEnds, Quiet, NoCall, Types, Masters, Deciding, poolVars, altVars, States
  <2>2. \A c \in Branch : st'[<<"init", c>>] = st[<<"init", c>>] /\ st'[<<"work", c>>] = st[<<"work", c>>]
    BY <1>3, Clones DEF FinalizeEnds, Types
  <2> QED
    BY <1>3, <2>1, <2>2, SameClones DEF FinalizeEnds
<1>4. CASE FakeEnds
  <2>1. Types' /\ Masters' /\ Deciding'
    BY <1>4 DEF FakeEnds, Quiet, NoCall, Types, Masters, Deciding, poolVars, altVars, States
  <2>2. \A c \in Branch : st'[<<"init", c>>] = st[<<"init", c>>] /\ st'[<<"work", c>>] = st[<<"work", c>>]
    BY <1>4, Clones DEF FakeEnds, Types
  <2> QED
    BY <1>4, <2>1, <2>2, SameClones DEF FakeEnds
<1> QED
  BY <1>1, <1>2, <1>3, <1>4

\* The branch whose body ends has nothing more to run.
LEMMA WorkDoneStates ==
  ASSUME DecideInv, NEW b \in Branch, st[<<"work", b>>] = "ACTIVATED", st' = WorkDone(b)
  PROVE  /\ st' \in [Task -> States]
         /\ b \in Used /\ execIds[b] \in Sample
         /\ st'[<<"init", b>>] \notin Active /\ st'[<<"work", b>>] \notin Active
         /\ \A c \in Branch \ {b} : st'[<<"init", c>>] = st[<<"init", c>>] /\ st'[<<"work", c>>] = st[<<"work", c>>]
<1>1. st \in [Task -> States] /\ st' = [st EXCEPT ![<<"work", b>>] = "DONE"]
  BY DEF DecideInv, Types, WorkDone
<1>2. st'[<<"work", b>>] = "DONE" /\ st'[<<"init", b>>] = st[<<"init", b>>]
  BY <1>1, Clones
<1>3. \A c \in Branch \ {b} : st'[<<"init", c>>] = st[<<"init", c>>] /\ st'[<<"work", c>>] = st[<<"work", c>>]
  BY <1>1, Clones
<1>4. b \in Used /\ execIds[b] \in Sample /\ st[<<"init", b>>] \notin Active
  BY DEF DecideInv, HasSample, Active
<1> QED
  BY <1>1, <1>2, <1>3, <1>4 DEF States, Active

LEMMA WorkEndKeeps ==
  ASSUME DecideInv, NEW b \in Branch, WorkEnds(b)
  PROVE  Types' /\ Masters' /\ HasSample' /\ Deciding'
<1> USE DEF DecideInv
<1>1. CASE EndAfterConvergence(b) \/ EndNotExpected(b) \/ DecisionRefused(b) \/ TakeDecision(b)
  <2>1. /\ st' \in [Task -> States]
        /\ b \in Used /\ execIds[b] \in Sample
        /\ st'[<<"init", b>>] \notin Active /\ st'[<<"work", b>>] \notin Active
        /\ \A c \in Branch \ {b} : st'[<<"init", c>>] = st[<<"init", c>>] /\ st'[<<"work", c>>] = st[<<"work", c>>]
    BY <1>1, WorkDoneStates DEF EndAfterConvergence, EndNotExpected, DecisionRefused, TakeDecision
  <2>2. call = NoCall /\ turn' = turn /\ made' = made /\ held' = held
    BY <1>1 DEF EndAfterConvergence, EndNotExpected, DecisionRefused, TakeDecision, Quiet, poolVars
  <2>3. execIds' \in [Branch -> Ids] /\ \A c \in Branch \ {b} : execIds'[c] = execIds[c]
    BY <1>1 DEF EndAfterConvergence, EndNotExpected, DecisionRefused, TakeDecision, Types, Ids
  <2>4. pool' \in Pools
    BY <1>1 DEF EndAfterConvergence, EndNotExpected, DecisionRefused, TakeDecision, Types, Pools, poolVars
  <2>5. HasSample'
    BY <2>1, <2>2, <2>3 DEF HasSample, Used, Nb
  <2>6. Types'
    BY <2>1, <2>2, <2>3, <2>4 DEF Types
  <2>7. Masters' /\ Deciding'
    <3>1. CASE TakeDecision(b)
      <4>1. pool'[currentCase'] = "out" /\ currentCase' = execIds[b] /\ execIds' = execIds
        BY <2>1, <3>1 DEF TakeDecision, Types, Pools
      <4>2. call' = <<"decide", b>> /\ master' = "resumed"
        BY <3>1 DEF TakeDecision, SignalSlave
      <4> QED
        BY <2>1, <2>2, <4>1, <4>2 DEF Masters, Deciding, Used, Nb, Finishing
    <3>2. CASE ~ TakeDecision(b)
      BY <1>1, <2>2, <3>2 DEF EndAfterConvergence, EndNotExpected, DecisionRefused, altVars, NoCall,
                              Masters, Deciding, Finishing
    <3> QED
      BY <3>1, <3>2
  <2> QED
    BY <2>5, <2>6, <2>7
<1>2. CASE DecidedError(b) \/ DecidedConvergence(b) \/ DecidedToGoOn(b)
  <2>1. /\ call = <<"decide", b>> /\ master = "runs" /\ UNCHANGED <<turn, held, made, master>>
        /\ call'[1] \in {"none", "decideError", "starved", "result"}
    BY <1>2 DEF DecidedError, DecidedConvergence, DecidedToGoOn, Decided, NoCall, loopVars, poolVars, altVars
  <2>2. Masters' /\ Deciding'
    BY <2>1 DEF Masters, Deciding, Finishing
  <2>3. st[<<"init", b>>] \notin Active /\ st[<<"work", b>>] \notin Active
    BY <2>1 DEF Deciding
  <2>4. PoolAfter \in Pools
    BY DEF PoolAfter, Types, Pools
  <2>5. /\ st' \in [Task -> States] /\ pool' \in Pools /\ execIds' \in [Branch -> Ids]
        /\ HasSample'
    <3>1. CASE DecidedError(b)
      BY <3>1 DEF DecidedError, Types, HasSample, Used, Nb, loopVars, poolVars
    <3>2. CASE DecidedConvergence(b)
      <4>1. /\ st' = st /\ turn' = turn /\ pool' \in Pools /\ execIds' \in [Branch -> Ids]
            /\ \A c \in Branch \ {b} : execIds'[c] = execIds[c]
        BY <2>4, <3>2 DEF DecidedConvergence, Types, Ids
      <4> QED
        BY <2>3, <4>1 DEF HasSample, Used, Nb, Types
    <3>3. CASE DecidedToGoOn(b)
      <4> DEFINE ids == [execIds EXCEPT ![b] = NotRunning]
      <4>1. LaunchMaxOfSamples(st, PoolAfter, ids)
        BY <3>3 DEF DecidedToGoOn, IdsAfter
      <4>2. ids \in [Branch -> Ids] /\ \A c \in Branch \ {b} : ids[c] = execIds[c]
        BY DEF Types, Ids
      <4> HIDE DEF ids
      <4>3. \A c \in Branch :
              /\ st[<<"init", c>>] \in Active \/ st[<<"work", c>>] \in Active => c \in Used /\ ids[c] \in Sample
              /\ st[<<"init", c>>] \in Active => st[<<"work", c>>] \notin Active
        BY <2>3, <4>2 DEF HasSample
      <4> QED
        BY <2>1, <2>4, <4>1, <4>2, <4>3, LaunchKeeps DEF Types
    <3> QED
      BY <1>2, <3>1, <3>2, <3>3
  <2> QED
    BY <2>1, <2>2, <2>5 DEF Types
<1> QED
  BY <1>1, <1>2 DEF WorkEnds

LEMMA AnswerKeeps ==
  ASSUME DecideInv, Finalize \/ DecisionStops \/ FailureTold
  PROVE  Types' /\ Masters' /\ HasSample' /\ Deciding'
<1> USE DEF DecideInv
<1>1. /\ call' = NoCall /\ master' = "free" /\ UNCHANGED <<turn, held, made, execIds>>
      /\ pool' = pool \/ pool' = EmptyPool
  BY DEF Finalize, DecisionStops, FailureTold, FinishProxyDone, poolVars, altVars
<1>2. /\ st' \in [Task -> States]
      /\ \A b \in Branch : st'[<<"init", b>>] = st[<<"init", b>>] /\ st'[<<"work", b>>] = st[<<"work", b>>]
  <2>1. CASE st' = st
    BY <2>1 DEF Types
  <2>2. ASSUME NEW R \in SUBSET Branch,
               st' = [t \in Task |-> IF t[1] = "finalize" /\ t[2] \in R THEN "TOLOAD" ELSE st[t]]
        PROVE  <1>2!1 /\ <1>2!2
    BY <2>2, Clones DEF Types, States
  <2> QED
    BY <2>1, <2>2 DEF Finalize, DecisionStops, FailureTold, Used
<1>3. HasSample'
  BY <1>1, <1>2, SameClones
<1> QED
  BY <1>1, <1>2, <1>3 DEF Types, Masters, Deciding, NoCall, Pools, EmptyPool

LEMMA RoundKeeps ==
  ASSUME DecideInv, Round \/ Restart \/ NoRestart
  PROVE  Types' /\ Masters' /\ HasSample' /\ Deciding'
<1> USE DEF DecideInv
<1>1. CASE GetNextTasks
  BY <1>1 DEF GetNextTasks, ReadyTasks, Types, Masters, HasSample, Deciding, Used, Nb, poolVars, altVars, Task
<1>2. ASSUME NEW t \in Task, TaskLoaded(t) \/ TaskLaunched(t)
      PROVE  Types' /\ Masters' /\ HasSample' /\ Deciding'
  <2>1. Types' /\ Masters' /\ Deciding'
    BY <1>2 DEF TaskLoaded, TaskLaunched, Quiet, NoCall, Types, Masters, Deciding, poolVars, altVars, States
  <2>2. \A b \in Branch : /\ st'[<<"init", b>>] \in Active => st[<<"init", b>>] \in Active
                          /\ st'[<<"work", b>>] \in Active => st[<<"work", b>>] \in Active
    BY <1>2, Clones DEF TaskLoaded, TaskLaunched, Types, Active
  <2> QED
    BY <1>2, <2>1, <2>2, SameClones DEF TaskLoaded, TaskLaunched
<1>3. CASE Restart
  <2>1. turn' \in 1 .. Len(Branches)
    BY <1>3, OptBranches DEF Restart, Types
  <2>2. \A b \in Branch : st'[<<"init", b>>] = "NONE" /\ st'[<<"work", b>>] = "NONE"
    BY <1>3, Clones DEF Restart, NoClone
  <2>3. st' \in [Task -> States]
    BY <1>3 DEF Restart, NoClone, Types, States, Task
  <2>4. Types' /\ Masters' /\ Deciding'
    BY <1>3, <2>1, <2>3 DEF Restart, Types, Masters, Deciding, NoCall, altVars, Ids
  <2> QED
    BY <2>2, <2>4 DEF HasSample, Active
<1>4. CASE NoRestart
  BY <1>4 DEF NoRestart, Types, Masters, HasSample, Deciding, Used, Nb, poolVars, altVars
<1> QED
  BY <1>1, <1>2, <1>3, <1>4 DEF Round

LEMMA ThreadKeeps ==
  ASSUME ~ SpuriousWakeUps, DecideInv, Terminate \/ Threads \/ UNCHANGED vars
  PROVE  Types' /\ Masters' /\ HasSample' /\ Deciding'
<1> USE DEF DecideInv
<1>1. UNCHANGED <<loopVars, poolVars, error, call>>
  BY DEF Terminate, Threads, vars
<1>2. Types' /\ HasSample'
  BY <1>1 DEF Types, HasSample, Used, Nb, loopVars, poolVars
<1>3. Masters'
  <2>1. CASE Terminate
    BY <1>1, <2>1 DEF Terminate, TerminateEnded, TerminateRequests, Masters, Finishing
  <2>2. CASE Threads
    BY <1>1, <2>2 DEF Threads, AltSteps, StartCreates, StartWaits, MasterWakes, MasterUnlocks,
                      MasterCancels, Join, SlaveStarts, SlaveWakes, SlaveCancelled, Cleanup,
                      SpuriousWakeUp, Masters, Finishing
  <2>3. CASE UNCHANGED vars
    BY <2>3 DEF vars, altVars, Masters
  <2> QED
    BY <2>1, <2>2, <2>3
<1>4. Deciding'
  <2> SUFFICES ASSUME NEW b \in Branch, call = <<"decide", b>>
               PROVE  slave' = "runs" \/ (slave' = "waits" /\ "slave" \notin waiting') =>
                        slave = "runs" \/ (slave = "waits" /\ "slave" \notin waiting)
    BY <1>1 DEF Deciding, Used, Nb, loopVars, poolVars
  <2>1. master \in {"resumed", "runs"} /\ slave # "born" /\ ~ Terminate
    BY DEF Masters, AltInv, Lives, Terminate, Finishing
  <2>2. CASE Threads
    BY <2>1, <2>2 DEF Threads, AltSteps, StartCreates, StartWaits, MasterWakes, MasterUnlocks,
                      MasterCancels, Join, SlaveStarts, SlaveWakes, SlaveCancelled, Cleanup,
                      Woken, SpuriousWakeUp
  <2>3. CASE UNCHANGED vars
    BY <2>3 DEF vars, altVars
  <2> QED
    BY <2>1, <2>2, <2>3
<1> QED
  BY <1>2, <1>3, <1>4

LEMMA DecideStep ==
  ASSUME ~ SpuriousWakeUps, DecideInv, [Next]_vars
  PROVE  DecideInv'
<1>1. AltInv'
  BY AltStep, ContractStep DEF DecideInv
<1>2. Types' /\ Masters' /\ HasSample' /\ Deciding'
  <2>1. CASE ExUpdateState
    BY <2>1, UpdateKeeps
  <2>2. CASE SlaveTurn
    BY <2>2, SlaveKeeps
  <2>3. CASE Ends
    BY <2>3, CloneEndKeeps, WorkEndKeeps, AnswerKeeps DEF Ends
  <2>4. CASE Round \/ Restart \/ NoRestart
    BY <2>4, RoundKeeps
  <2>5. CASE Terminate \/ Threads \/ UNCHANGED vars
    BY <2>5, ThreadKeeps
  <2> QED
    BY <2>1, <2>2, <2>3, <2>4, <2>5 DEF Next
<1> QED
  BY <1>1, <1>2 DEF DecideInv

LEMMA DecideStarts == Init => DecideInv
<1> SUFFICES ASSUME Init PROVE DecideInv
  OBVIOUS
<1>1. AltInv
  BY AltStarts DEF Init
<1>2. Types /\ Masters /\ Deciding
  BY OptBranches DEF Init, AltInit, Types, Masters, Deciding, NoClone, EmptyPool, NoCall, Pools, States, Ids,
                     Task, Finishing
<1>3. HasSample
  BY Clones DEF Init, HasSample, NoClone, Active
<1> QED
  BY <1>1, <1>2, <1>3 DEF DecideInv

\* Whatever the other branches do meanwhile, the algorithm decides on the result of
\* the branch that has just ended.
THEOREM OptDecides ==
  ASSUME ~ SpuriousWakeUps
  PROVE  Spec => []DecidesOnResult
<1>1. DecideInv /\ [Next]_vars => DecideInv'
  BY DecideStep
<1>2. DecideInv => DecidesOnResult
  BY DEF DecideInv, Deciding, DecidesOnResult
<1> QED
  BY <1>1, <1>2, DecideStarts, PTL DEF Spec

-----------------------------------------------------------------------------
(* The samples, when the algorithm makes no error                          *)

Busy == {b \in Used : execIds[b] \in Sample}

\* The samples in use are those of the branches of B, one each.
OneEach(B) ==
  /\ \A i \in Sample : pool[i] = "used" <=> \E b \in B : execIds[b] = i
  /\ \A b, c \in Busy : execIds[b] = execIds[c] => b = c

Calm ==
  /\ error => call[1] = "failed"
  /\ call[1] \notin {"startError", "decideError", "starved"}
  /\ call[1] # "none" => event = "NOEVENT"

\* The samples are numbered in the order they are made, from an empty pool.
Fresh ==
  /\ event # "UPDATE" /\ call[1] # "restart" => \A i \in Sample : pool[i] # "none" => i < made
  /\ event = "UPDATE" \/ call[1] \in {"restart", "start"} =>
       ~ converged /\ \A b \in Branch : execIds[b] \notin Sample
  /\ call[1] = "start" => \A i \in Sample : pool[i] \in {"none", "waiting"}

\* As long as there are samples the algorithm is there and has not converged.
Open ==
  /\ call[1] \in {"none", "start", "decide"} /\ event # "UPDATE" /\ ~ IsEmpty(pool) =>
       status = "NORMAL_CYCLE"
  /\ converged \/ call[1] = "result" => event # "UPDATE" /\ IsEmpty(pool)
  /\ call[1] = "decide" => ~ converged

Accounted ==
  /\ call[1] = "none" /\ event # "UPDATE" /\ ~ IsEmpty(pool) =>
       OneEach(Busy) /\ \A i \in Sample : pool[i] # "out"
  /\ \A b \in Branch : call = <<"decide", b>> /\ ~ IsEmpty(pool) =>
       OneEach(Busy \ {b}) /\ \A i \in Sample : pool[i] = "out" => i = currentCase

SampleInv == Calm /\ Fresh /\ Open /\ Accounted

\* What no step below is about: the samples, the branches and the phase unchanged.
LEMMA SameSamples ==
  ASSUME SampleInv, UNCHANGED <<turn, execIds, converged, pool, made, currentCase, error, call, status>>,
         event' = event \/ (event = "NOEVENT" /\ call[1] = "none" /\ event' # "UPDATE")
                       \/ (call[1] = "none" /\ event # "UPDATE" /\ event' = "NOEVENT")
  PROVE  SampleInv'
<1>1. event' = "UPDATE" <=> event = "UPDATE"
  OBVIOUS
<1>2. Calm' /\ Fresh' /\ Open'
  BY <1>1 DEF SampleInv, Calm, Fresh, Open, IsEmpty
<1>3. Busy' = Busy
  BY DEF Busy, Used, Nb
<1>4. Accounted'
  BY <1>1, <1>3 DEF SampleInv, Accounted, OneEach, IsEmpty
<1> QED
  BY <1>2, <1>4 DEF SampleInv

LEMMA BranchesInUse ==
  ASSUME Types
  PROVE  Used \ Lazy(execIds) = Busy
BY DEF Types, Ids, Busy, Lazy, Sample, NotRunning, NotInitialized, Used, Branch

\* launchMaxOfSamples keeps the accounts of the branches.
LEMMA LaunchAccounts ==
  ASSUME NEW s \in [Task -> States], NEW p \in Pools, NEW ids \in [Branch -> Ids],
         LaunchMaxOfSamples(s, p, ids), UNCHANGED turn,
         \A i \in Sample : p[i] = "used" <=> \E b \in Used : ids[b] = i,
         \A b, c \in Used : ids[b] \in Sample /\ ids[b] = ids[c] => b = c,
         \A i \in Sample : p[i] # "out"
  PROVE  /\ OneEach(Busy)'
         /\ \A i \in Sample : pool'[i] # "out"
         /\ \A i \in Sample : pool'[i] # "none" => p[i] # "none"
<1>1. PICK Served \in SUBSET Lazy(ids), taken \in [Branch -> Ids] : Deal(Served, taken, s, p, ids)
  BY Launched
<1>2. /\ \A b \in Served : b \in Used /\ b \in Branch /\ ids[b] \notin Sample
      /\ \A b \in Served : taken[b] \in Sample /\ p[taken[b]] = "waiting"
  BY <1>1 DEF Deal, Lazy, Waiting, Sample, Used
<1>3. /\ \A b \in Branch : execIds'[b] = IF b \in Served THEN taken[b] ELSE ids[b]
      /\ \A i \in Sample : pool'[i] = IF \E b \in Served : i = taken[b] THEN "used" ELSE p[i]
      /\ \A b, c \in Served : taken[b] = taken[c] => b = c
  BY <1>1 DEF Deal
<1>4. Used' = Used /\ Used \subseteq Branch
  BY DEF Used, Nb
<1>5. \A i \in Sample : pool'[i] = "used" <=> \E b \in Busy' : execIds'[b] = i
  <2> TAKE i \in Sample
  <2>1. ASSUME pool'[i] = "used" PROVE \E b \in Busy' : execIds'[b] = i
    <3>1. CASE \E b \in Served : i = taken[b]
      BY <1>2, <1>3, <1>4, <3>1 DEF Busy
    <3>2. CASE ~ \E b \in Served : i = taken[b]
      <4>1. PICK b \in Used : ids[b] = i
        BY <1>3, <2>1, <3>2
      <4> QED
        BY <1>2, <1>3, <1>4, <4>1 DEF Busy
    <3> QED
      BY <3>1, <3>2
  <2>2. ASSUME NEW b \in Busy', execIds'[b] = i PROVE pool'[i] = "used"
    BY <1>2, <1>3, <1>4, <2>2 DEF Busy
  <2> QED
    BY <2>1, <2>2
<1>6. ASSUME NEW b \in Busy', NEW c \in Busy', execIds'[b] = execIds'[c] PROVE b = c
  <2>1. b \in Used /\ c \in Used /\ b \in Branch /\ c \in Branch /\ execIds'[b] \in Sample
    BY <1>4 DEF Busy
  <2>2. ASSUME NEW x \in Served, NEW y \in Used \ Served PROVE taken[x] # ids[y]
    BY <1>2
  <2> QED
    BY <1>3, <1>6, <2>1, <2>2
<1> QED
  BY <1>2, <1>3, <1>5, <1>6 DEF OneEach

LEMMA UpdateAccounts ==
  ASSUME DecideInv, SampleInv, ExUpdateState
  PROVE  SampleInv'
<1> USE DEF SampleInv
<1>1. CASE UpdateStarts
  BY <1>1 DEF UpdateStarts, poolVars, altVars, NoCall, Calm, Fresh, Open, Accounted
<1>2. CASE InitializeFails
  BY <1>2 DEF InitializeFails, FinishProxyDone, altVars, NoCall, Calm, Fresh, Open, Accounted,
              IsEmpty, EmptyPool
<1>3. CASE StartProxy
  BY <1>3 DEF StartProxy, FinishProxyDone, loopVars, Calm, Fresh, Open, Accounted, IsEmpty, EmptyPool
<1>4. CASE StartProxyFailed \/ StartErrorTold
  BY <1>4 DEF StartProxyFailed, StartErrorTold, FinishProxyDone, Calm
<1>5. CASE NothingToRun
  <2>1. Calm' /\ Fresh' /\ Open'
    BY <1>5 DEF NothingToRun, poolVars, altVars, NoCall, Calm, Fresh, Open, IsEmpty
  <2>2. Busy' = {}
    BY <1>5 DEF NothingToRun, Busy, Fresh, Used, Nb
  <2>3. Accounted'
    BY <1>5, <2>2 DEF NothingToRun, poolVars, NoCall, Accounted, Fresh, OneEach
  <2> QED
    BY <2>1, <2>3
<1>6. CASE FirstSamples
  <2> DEFINE ids == [b \in Branch |-> NotInitialized]
  <2>1. Cloned \in [Task -> States]
    BY DEF Cloned, DecideInv, Types, States
  <2>2. ids \in [Branch -> Ids] /\ \A b \in Used : ids[b] \notin Sample
    BY DEF Ids, NotInitialized, Sample, Used
  <2>3. LaunchMaxOfSamples(Cloned, pool, ids) /\ turn' = turn /\ pool \in Pools
    BY <1>6 DEF FirstSamples, DecideInv, Types
  <2> HIDE DEF ids
  <2>4. \A i \in Sample : pool[i] \in {"none", "waiting"}
    BY <1>6 DEF FirstSamples, Fresh
  <2>5. /\ OneEach(Busy)'
        /\ \A i \in Sample : pool'[i] # "out"
        /\ \A i \in Sample : pool'[i] # "none" => pool[i] # "none"
    BY <2>1, <2>2, <2>3, <2>4, LaunchAccounts
  <2>6. ~ IsEmpty(pool)
    BY <1>6 DEF FirstSamples, Waiting, IsEmpty
  <2> QED
    BY <1>6, <2>5, <2>6 DEF FirstSamples, altVars, NoCall, Calm, Fresh, Open, Accounted
<1> QED
  BY <1>1, <1>2, <1>3, <1>4, <1>5, <1>6 DEF ExUpdateState

LEMMA SlaveAccounts ==
  ASSUME "algorithm" \notin MayFail, DecideInv, SampleInv, SlaveTurn
  PROVE  SampleInv'
<1> USE DEF SampleInv
<1>1. ASSUME NEW k \in 0 .. MaxSamples, SlavePushes(k) PROVE SampleInv'
  <2>1. /\ status = "NORMAL_CYCLE" /\ slave = "runs" /\ status' = status /\ made' = made + k
        /\ pool' = [i \in Sample |-> IF i \in made .. (made + k - 1) THEN "waiting" ELSE pool[i]]
        /\ UNCHANGED <<loopVars, currentCase, error, call>>
    BY <1>1 DEF SlavePushes, SignalMaster
  <2>2. call[1] \in {"start", "decide"} /\ event = "NOEVENT"
    BY <2>1 DEF DecideInv, AltInv, Turns, Lives, Masters, Calm, Waits
  <2>3. made \in Nat /\ made' >= made
    BY <2>1 DEF DecideInv, Types
  <2>4. \A i \in Sample :
          /\ pool'[i] # "none" => i < made'
          /\ pool'[i] = pool[i] \/ (pool'[i] = "waiting" /\ pool[i] = "none")
    BY <2>1, <2>2, <2>3 DEF Fresh, Sample
  <2>5. Calm' /\ Fresh'
    BY <2>1, <2>2, <2>4 DEF Calm, Fresh, loopVars
  <2>6. Open'
    BY <2>1, <2>2 DEF Open, Fresh, loopVars
  <2>7. Accounted'
    <3> SUFFICES ASSUME NEW b \in Branch, call = <<"decide", b>>
                 PROVE  OneEach(Busy \ {b})' /\ \A i \in Sample : pool'[i] = "out" => i = currentCase'
      BY <2>1, <2>2 DEF Accounted
    <3>1. ~ IsEmpty(pool)
      <4>1. pool[currentCase] = "out" /\ currentCase \in Sample
        BY <2>1 DEF DecideInv, Deciding
      <4> QED
        BY <4>1 DEF IsEmpty
    <3>2. Busy' = Busy /\ execIds' = execIds /\ currentCase' = currentCase
      BY <2>1 DEF Busy, Used, Nb, loopVars
    <3> QED
      BY <2>4, <3>1, <3>2 DEF Accounted, OneEach
  <2> QED
    BY <2>5, <2>6, <2>7
<1>2. CASE SlaveConverges \/ SlaveReturns
  <2>1. IsEmpty(pool)' /\ (\A i \in Sample : pool'[i] = "none") /\ UNCHANGED <<loopVars, currentCase, made, error, call>>
    BY <1>2 DEF SlaveConverges, SlaveReturns, IsEmpty, EmptyPool
  <2> QED
    BY <2>1 DEF Calm, Fresh, Open, Accounted, loopVars
<1>3. ~ SlaveErrs
  BY DEF SlaveErrs
<1>4. CASE SlaveIgnores
  BY <1>4, SameSamples DEF SlaveIgnores, SignalMaster, loopVars, poolVars
<1> QED
  BY <1>1, <1>2, <1>3, <1>4 DEF SlaveTurn

LEMMA CloneEndAccounts ==
  ASSUME DecideInv, SampleInv,
         \/ \E t \in Clone : EndIgnored(t) \/ TaskAborted(t)
         \/ \E b \in Branch : InitEnds(b) \/ FinalizeEnds(b)
         \/ FakeEnds
  PROVE  SampleInv'
<1>1. ASSUME NEW t \in Clone, TaskAborted(t) PROVE SampleInv'
  <2>1. /\ call[1] = "none" /\ event = "NOEVENT" /\ call'[1] = "failed"
        /\ UNCHANGED <<turn, execIds, converged, pool, made, currentCase, status, event>>
    BY <1>1 DEF TaskAborted, CloneFails, Quiet, NoCall, poolVars, altVars
  <2> QED
    BY <2>1 DEF SampleInv, Calm, Fresh, Open, Accounted, IsEmpty
<1>2. ASSUME NEW t \in Clone, EndIgnored(t) PROVE SampleInv'
  BY <1>2, SameSamples DEF EndIgnored, poolVars, altVars
<1>3. ASSUME NEW b \in Branch, InitEnds(b) \/ FinalizeEnds(b) PROVE SampleInv'
  BY <1>3, SameSamples DEF InitEnds, FinalizeEnds, Quiet, NoCall, poolVars, altVars
<1>4. CASE FakeEnds
  BY <1>4, SameSamples DEF FakeEnds, Quiet, NoCall, poolVars, altVars
<1> QED
  BY <1>1, <1>2, <1>3, <1>4

\* The samples in use, those of the busy branches, are not all of the branch that ends.
LEMMA NeverStarved ==
  ASSUME DecideInv, SampleInv, NEW b \in Branch, Decided(b), ~ IsEmpty(PoolAfter)
  PROVE  ~ Starved(b)
<1> SUFFICES ASSUME Waiting(PoolAfter) = {}
             PROVE  ~ FullyLazy([execIds EXCEPT ![b] = NotRunning])
  BY DEF Starved, IdsAfter
<1>1. \A i \in Sample :
        PoolAfter[i] = IF IsEmpty(pool) THEN "none" ELSE IF i = currentCase THEN "none" ELSE pool[i]
  BY DEF PoolAfter, IsEmpty, DecideInv, Types, Pools
<1>2. ~ IsEmpty(pool)
  BY <1>1 DEF IsEmpty
<1>3. OneEach(Busy \ {b}) /\ \A i \in Sample : pool[i] = "out" => i = currentCase
  BY <1>2 DEF SampleInv, Accounted, Decided
<1>4. PICK i \in Sample : i # currentCase /\ pool[i] = "used"
  <2>1. PICK i \in Sample : PoolAfter[i] # "none" /\ PoolAfter[i] # "waiting"
    BY DEF IsEmpty, Waiting
  <2>2. pool[i] \in {"none", "waiting", "used", "out"}
    BY DEF DecideInv, Types, Pools
  <2> QED
    BY <1>1, <1>2, <1>3, <2>1, <2>2
<1>5. PICK c \in Busy \ {b} : execIds[c] = i
  BY <1>3, <1>4 DEF OneEach
<1>6. c \in Used /\ c \in Branch /\ [execIds EXCEPT ![b] = NotRunning][c] = i
  BY <1>5 DEF Busy, Used, DecideInv, Types
<1> QED
  BY <1>6 DEF FullyLazy, Lazy, Sample

LEMMA WorkEndAccounts ==
  ASSUME DecideInv, SampleInv, NEW b \in Branch, WorkEnds(b)
  PROVE  SampleInv'
<1> USE DEF SampleInv
<1>1. CASE EndAfterConvergence(b)
  <2>1. /\ call[1] = "none" /\ event = "NOEVENT" /\ IsEmpty(pool) /\ ~ error
        /\ call'[1] \in {"none", "result"}
        /\ UNCHANGED <<turn, converged, pool, made, event, error>>
    BY <1>1 DEF EndAfterConvergence, Quiet, NoCall, poolVars, Open, Calm
  <2> QED
    BY <2>1 DEF Calm, Fresh, Open, Accounted, IsEmpty
<1>2. CASE EndNotExpected(b)
  BY <1>2, SameSamples DEF EndNotExpected, Quiet, NoCall, poolVars, altVars
<1>3. CASE DecisionRefused(b)
  <2>1. execIds[b] \in Sample /\ call[1] = "none" /\ event = "NOEVENT"
    BY <1>3 DEF DecisionRefused, DecideInv, HasSample, Active, Quiet, NoCall
  <2>2. ~ IsEmpty(pool)
    BY <1>3, <2>1 DEF DecisionRefused, IsEmpty
  <2> QED
    BY <1>3, <2>1, <2>2 DEF DecisionRefused, Open
<1>4. CASE TakeDecision(b)
  <2>1. /\ b \in Busy /\ call[1] = "none" /\ event = "NOEVENT" /\ pool[execIds[b]] # "none"
        /\ execIds[b] \in Sample /\ ~ converged
    BY <1>4 DEF TakeDecision, DecideInv, HasSample, Active, Quiet, NoCall, Busy
  <2>2. ~ IsEmpty(pool)
    BY <2>1 DEF IsEmpty
  <2>3. /\ OneEach(Busy) /\ status = "NORMAL_CYCLE"
        /\ \A i \in Sample : pool[i] # "out"
    BY <2>1, <2>2 DEF Accounted, Open
  <2>4. /\ call' = <<"decide", b>> /\ currentCase' = execIds[b] /\ execIds' = execIds /\ Busy' = Busy
        /\ UNCHANGED <<event, error, made, converged, status>>
        /\ \A i \in Sample : pool'[i] = IF i = execIds[b] THEN "out" ELSE pool[i]
    BY <1>4 DEF TakeDecision, SignalSlave, DecideInv, Types, Pools, Busy, Used, Nb
  <2>5. OneEach(Busy \ {b})'
    BY <2>1, <2>3, <2>4 DEF OneEach
  <2>6. \A i \in Sample : pool'[i] = "out" => i = currentCase'
    BY <2>3, <2>4
  <2>7. Calm' /\ Fresh' /\ Open'
    BY <2>1, <2>3, <2>4 DEF Calm, Fresh, Open
  <2> QED
    BY <2>4, <2>5, <2>6, <2>7 DEF Accounted
<1>5. ~ DecidedError(b)
  BY DEF DecidedError, Decided, Calm
<1>6. CASE DecidedConvergence(b) \/ DecidedToGoOn(b)
  <2>1. /\ call = <<"decide", b>> /\ ~ converged /\ ~ error /\ event = "NOEVENT"
        /\ UNCHANGED <<turn, event, made, currentCase, error, status>>
    BY <1>6 DEF DecidedConvergence, DecidedToGoOn, Decided, Calm, Open, altVars
  <2>2. \A i \in Sample :
          PoolAfter[i] = IF IsEmpty(pool) THEN "none" ELSE IF i = currentCase THEN "none" ELSE pool[i]
    BY DEF PoolAfter, IsEmpty, DecideInv, Types, Pools
  <2>3. CASE DecidedConvergence(b)
    <3>1. IsEmpty(pool') /\ pool' = PoolAfter /\ call'[1] \in {"none", "result"}
      BY <2>3 DEF DecidedConvergence, NoCall, IsEmpty
    <3> QED
      BY <2>1, <3>1 DEF Calm, Fresh, Open, Accounted, IsEmpty
  <2>4. CASE DecidedToGoOn(b)
    <3> DEFINE ids == [execIds EXCEPT ![b] = NotRunning]
    <3>1. LaunchMaxOfSamples(st, PoolAfter, ids) /\ call' = NoCall /\ turn' = turn /\ converged' = converged
      <4>1. ~ Starved(b)
        BY <2>4, NeverStarved DEF DecidedToGoOn
      <4> QED
        BY <2>4, <4>1 DEF DecidedToGoOn, IdsAfter
    <3>2. ids \in [Branch -> Ids] /\ ids[b] \notin Sample /\ \A c \in Branch \ {b} : ids[c] = execIds[c]
      BY DEF DecideInv, Types, Ids, NotRunning, Sample
    <3> HIDE DEF ids
    <3>3. ~ IsEmpty(PoolAfter) /\ ~ IsEmpty(pool)
      BY <2>2, <2>4 DEF DecidedToGoOn, IsEmpty
    <3>4. /\ OneEach(Busy \ {b}) /\ currentCase = execIds[b] /\ b \in Busy
          /\ \A i \in Sample : pool[i] = "out" => i = currentCase
      BY <2>1, <3>3 DEF Accounted, DecideInv, Deciding, Busy
    <3>5. PoolAfter \in Pools /\ st \in [Task -> States]
      BY DEF PoolAfter, DecideInv, Types, Pools
    <3>6. Used \subseteq Branch
      BY DEF Used
    <3>7. \A i \in Sample : PoolAfter[i] = "used" <=> \E c \in Used : ids[c] = i
      BY <2>2, <3>2, <3>3, <3>4, <3>6 DEF OneEach, Busy
    <3>8. \A c, d \in Used : ids[c] \in Sample /\ ids[c] = ids[d] => c = d
      BY <3>2, <3>4, <3>6 DEF OneEach, Busy
    <3>9. \A i \in Sample : PoolAfter[i] # "out"
      BY <2>2, <3>3, <3>4
    <3>10. /\ OneEach(Busy)'
           /\ \A i \in Sample : pool'[i] # "out"
           /\ \A i \in Sample : pool'[i] # "none" => PoolAfter[i] # "none"
      BY <3>1, <3>2, <3>5, <3>7, <3>8, <3>9, LaunchAccounts
    <3>11. Calm' /\ Fresh' /\ Open'
      BY <2>1, <2>2, <3>1, <3>3, <3>10 DEF Calm, Fresh, Open, NoCall
    <3> QED
      BY <3>1, <3>10, <3>11 DEF Accounted, NoCall
  <2> QED
    BY <1>6, <2>3, <2>4
<1> QED
  BY <1>1, <1>2, <1>3, <1>4, <1>5, <1>6 DEF WorkEnds

LEMMA AnswerAccounts ==
  ASSUME SampleInv, Finalize \/ DecisionStops \/ FailureTold
  PROVE  SampleInv'
<1> USE DEF SampleInv
<1>1. ~ DecisionStops
  BY DEF DecisionStops, Calm
<1>2. /\ call' = NoCall /\ ~ error' /\ IsEmpty(pool') /\ event' # "UPDATE" /\ event = "NOEVENT"
      /\ UNCHANGED <<turn, converged, made, execIds>>
      /\ \A i \in Sample : pool'[i] = "none"
  BY <1>1 DEF Finalize, FailureTold, FinishProxyDone, poolVars, Open, Calm, IsEmpty, EmptyPool
<1> QED
  BY <1>2 DEF Calm, Fresh, Open, Accounted, IsEmpty, NoCall

LEMMA RoundAccounts ==
  ASSUME SampleInv, Round \/ Restart \/ NoRestart
  PROVE  SampleInv'
<1> USE DEF SampleInv
<1>1. CASE GetNextTasks
  BY <1>1, SameSamples DEF GetNextTasks, poolVars, altVars
<1>2. ASSUME NEW t \in Task, TaskLoaded(t) \/ TaskLaunched(t) PROVE SampleInv'
  BY <1>2, SameSamples DEF TaskLoaded, TaskLaunched, poolVars, altVars
<1>3. CASE Restart
  BY <1>3 DEF Restart, NoCall, Calm, Fresh, Open, Accounted, NotInitialized, Sample
<1>4. CASE NoRestart
  <2>1. call[1] = "none"
    BY <1>4 DEF NoRestart, Calm
  <2> QED
    BY <1>4, <2>1, SameSamples DEF NoRestart, poolVars, altVars
<1> QED
  BY <1>1, <1>2, <1>3, <1>4 DEF Round

LEMMA ThreadAccounts ==
  ASSUME ~ SpuriousWakeUps, DecideInv, SampleInv, Terminate \/ Threads \/ UNCHANGED vars
  PROVE  SampleInv'
<1>1. UNCHANGED <<loopVars, poolVars, error, call>>
  BY DEF Terminate, Threads, vars
<1>2. status' = status \/ status' = "NORMAL_CYCLE" \/ call[1] \in Finishing
  <2>1. CASE Terminate
    BY <2>1 DEF Terminate
  <2>2. CASE Threads
    BY <2>2 DEF Threads, AltSteps, StartCreates, StartWaits, MasterWakes, MasterUnlocks, MasterCancels,
                Join, SlaveStarts, SlaveWakes, SlaveCancelled, SpuriousWakeUp,
                DecideInv, AltInv, Turns, Masters
  <2>3. CASE UNCHANGED vars
    BY <2>3 DEF vars, altVars
  <2> QED
    BY <2>1, <2>2, <2>3
<1>3. Busy' = Busy
  BY <1>1 DEF Busy, Used, Nb, loopVars
<1>4. Calm' /\ Fresh' /\ Open'
  BY <1>1, <1>2 DEF SampleInv, Calm, Fresh, Open, Finishing, IsEmpty, loopVars, poolVars
<1>5. Accounted'
  BY <1>1, <1>3 DEF SampleInv, Accounted, OneEach, IsEmpty, loopVars, poolVars
<1> QED
  BY <1>4, <1>5 DEF SampleInv

LEMMA SampleStep ==
  ASSUME ~ SpuriousWakeUps, "algorithm" \notin MayFail, DecideInv, SampleInv, [Next]_vars
  PROVE  SampleInv'
<1>1. CASE ExUpdateState
  BY <1>1, UpdateAccounts
<1>2. CASE SlaveTurn
  BY <1>2, SlaveAccounts
<1>3. CASE Ends
  BY <1>3, CloneEndAccounts, WorkEndAccounts, AnswerAccounts DEF Ends
<1>4. CASE Round \/ Restart \/ NoRestart
  BY <1>4, RoundAccounts
<1>5. CASE Terminate \/ Threads \/ UNCHANGED vars
  BY <1>5, ThreadAccounts
<1> QED
  BY <1>1, <1>2, <1>3, <1>4, <1>5 DEF Next

LEMMA SampleStarts == Init => SampleInv
BY DEF Init, SampleInv, Calm, Fresh, Open, Accounted, NoCall, EmptyPool, IsEmpty, NotInitialized, Sample

\* Whatever fails but the algorithm, and whenever it converges: no sample is lost or
\* computed by two branches, and the algorithm never waits for a result that nothing
\* computes.
THEOREM OptSamples ==
  ASSUME ~ SpuriousWakeUps, "algorithm" \notin MayFail
  PROVE  Spec => [](SamplesInUse /\ NoStarvation)
<1>1. DecideInv /\ [Next]_vars => DecideInv'
  BY DecideStep
<1>2. DecideInv /\ SampleInv /\ [Next]_vars => SampleInv'
  BY SampleStep
<1>3. DecideInv /\ SampleInv => SamplesInUse
  <2> SUFFICES ASSUME DecideInv, SampleInv, Searching PROVE SamplesInUse
    BY DEF SamplesInUse
  <2>1. OneEach(Busy)
    BY DEF SampleInv, Accounted, Searching, Quiet, NoCall
  <2>2. Used \ Lazy(execIds) = Busy
    BY BranchesInUse DEF DecideInv
  <2> QED
    BY <2>1, <2>2 DEF OneEach, SamplesInUse, Busy
<1>4. DecideInv /\ SampleInv => NoStarvation
  BY NeverStarved DEF NoStarvation
<1> QED
  BY <1>1, <1>2, <1>3, <1>4, DecideStarts, SampleStarts, PTL DEF Spec
==============================================================================
