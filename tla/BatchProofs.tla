----------------------------- MODULE BatchProofs -----------------------------
(***************************************************************************)
(* Proofs about the local batch manager, for any number of jobs, any       *)
(* limits and any calls of the master.                                     *)
(***************************************************************************)
EXTENDS LocalBatch, TLAPS

USE DEF Final, Alive

-----------------------------------------------------------------------------
(* Types                                                                   *)

LEMMA Times == KillTime \in Nat /\ MaxMinutes \in Nat
  BY BatchAssumption DEF KillTime, MaxMinutes

LEMMA SentTypes ==
  ASSUME BatTypeOK, NEW j \in Jobs, NEW sig, Sent(j, sig)
  PROVE  /\ child' \in [Jobs -> Alive \cup {"none", "over", "vanished", "reaped"}]
         /\ pending' \in [Jobs -> BOOLEAN]
         /\ signalled' \in [Jobs -> SUBSET {"TERM", "KILL"}]
<1> USE DEF BatTypeOK, Sent
<1>1. child' \in [Jobs -> Alive \cup {"none", "over", "vanished", "reaped"}]
  OBVIOUS
<1>2. pending' \in [Jobs -> BOOLEAN]
  OBVIOUS
<1>3. signalled' \in [Jobs -> SUBSET {"TERM", "KILL"}]
  OBVIOUS
<1> QED
  BY <1>1, <1>2, <1>3

LEMMA InitTypes == Init => BatTypeOK
  BY BatchAssumption, Times DEF Init, BatTypeOK

LEMMA MasterTypes ==
  ASSUME BatTypeOK, NEW j \in Jobs,
         \/ Submit(j) \/ WaitForThread \/ SpuriousWakeUp \/ Return \/ Delete(j)
         \/ IsRunning(j) \/ Close \/ CloseJob(j) \/ CloseCancels \/ Closed
  PROVE  BatTypeOK'
<1> USE BatchAssumption DEF BatTypeOK, vars, masterVars, tableVars, childVars, history
<1>1. CASE Submit(j)
  BY <1>1 DEF Submit, Goes
<1>2. CASE WaitForThread
  BY <1>2 DEF WaitForThread
<1>3. CASE SpuriousWakeUp
  BY <1>3 DEF SpuriousWakeUp
<1>4. CASE Return
  BY <1>4 DEF Return
<1>5. CASE Delete(j)
  BY <1>5 DEF Delete, CancelAndWait
<1>6. CASE IsRunning(j)
  BY <1>6 DEF IsRunning
<1>7. CASE Close
  BY <1>7 DEF Close
<1>8. CASE CloseJob(j)
  BY <1>8 DEF CloseJob
<1>9. CASE CloseCancels
  BY <1>9 DEF CloseCancels, CancelAndWait
<1>10. CASE Closed
  BY <1>10 DEF Closed
<1> QED
  BY <1>1, <1>2, <1>3, <1>4, <1>5, <1>6, <1>7, <1>8, <1>9, <1>10

LEMMA TableTypes ==
  ASSUME BatTypeOK, NEW j \in Jobs,
         Register(j) \/ Command(j) \/ CheckTime(j) \/ Execute(j)
  PROVE  BatTypeOK'
<1> USE BatchAssumption DEF BatTypeOK, vars, masterVars, tableVars, childVars, history
<1>1. CASE Register(j)
  <2>1. Append(queue[j], "NOP") \in Seq({"NOP", "HOLD", "RELEASE", "TERM", "KILL"})
    OBVIOUS
  <2> QED
    BY <1>1, <2>1 DEF Register, Goes
<1>2. CASE Command(j)
  <2>1. PICK c \in {"HOLD", "RELEASE"} :
          /\ queue' = [queue EXCEPT ![j] = Append(@, c)]
          /\ lastCommand' = [lastCommand EXCEPT ![j] = c]
    BY <1>2 DEF Command
  <2>2. Append(queue[j], c) \in Seq({"NOP", "HOLD", "RELEASE", "TERM", "KILL"})
    OBVIOUS
  <2> QED
    BY <1>2, <2>1, <2>2 DEF Command
<1>3. CASE CheckTime(j)
  <2>1. \A c \in {"KILL", "TERM"} :
          Append(queue[j], c) \in Seq({"NOP", "HOLD", "RELEASE", "TERM", "KILL"})
    OBVIOUS
  <2>2. queue' \in [Jobs -> Seq({"NOP", "HOLD", "RELEASE", "TERM", "KILL"})]
    BY <1>3, <2>1 DEF CheckTime
  <2> QED
    BY <1>3, <2>2 DEF CheckTime, Goes
<1>4. CASE Execute(j)
  <2>1. Tail(queue[j]) \in Seq({"NOP", "HOLD", "RELEASE", "TERM", "KILL"})
    BY <1>4 DEF Execute
  <2>2. /\ child' \in [Jobs -> Alive \cup {"none", "over", "vanished", "reaped"}]
        /\ pending' \in [Jobs -> BOOLEAN]
        /\ signalled' \in [Jobs -> SUBSET {"TERM", "KILL"}]
    BY <1>4, SentTypes DEF Execute
  <2> QED
    BY <1>4, <2>1, <2>2 DEF Execute
<1> QED
  BY <1>1, <1>2, <1>3, <1>4

LEMMA ThreadTypes ==
  ASSUME BatTypeOK, NEW j \in Jobs,
         \/ Fork(j) \/ UnlockMaster(j) \/ Watch(j) \/ Seen(j) \/ LockQueue(j)
         \/ UnlockQueue(j) \/ Sleep(j) \/ End(j) \/ Leave(j)
  PROVE  BatTypeOK'
<1> USE BatchAssumption DEF BatTypeOK, vars, masterVars, tableVars, childVars, history, Goes
<1>1. CASE Fork(j)
  <2>1. /\ child' \in [Jobs -> Alive \cup {"none", "over", "vanished", "reaped"}]
        /\ \E pc \in {"registering", "ending"} : thread' = [thread EXCEPT ![j] = pc]
    BY <1>1 DEF Fork
  <2> QED
    BY <1>1, <2>1 DEF Fork
<1>2. CASE UnlockMaster(j)
  BY <1>2 DEF UnlockMaster, Signal
<1>3. CASE Watch(j)
  <2>1. /\ child' \in [Jobs -> Alive \cup {"none", "over", "vanished", "reaped"}]
        /\ \E pc \in {"timing", "seen"} : thread' = [thread EXCEPT ![j] = pc]
    BY <1>3 DEF Watch
  <2> QED
    BY <1>3, <2>1 DEF Watch
<1>4. CASE Seen(j)
  BY <1>4 DEF Seen
<1>5. CASE LockQueue(j)
  BY <1>5 DEF LockQueue
<1>6. CASE UnlockQueue(j)
  BY <1>6 DEF UnlockQueue
<1>7. CASE Sleep(j)
  BY <1>7 DEF Sleep
<1>8. CASE End(j)
  BY <1>8 DEF End
<1>9. CASE Leave(j)
  BY <1>9 DEF Leave
<1> QED
  BY <1>1, <1>2, <1>3, <1>4, <1>5, <1>6, <1>7, <1>8, <1>9

LEMMA CancelTypes ==
  ASSUME BatTypeOK, NEW j \in Jobs,
         \/ CancelPoint(j) \/ CancelInLog(j) \/ KillChild(j) \/ SetFailed(j) \/ Tell(j)
         \/ ChildEnds(j) \/ Minute(j)
  PROVE  BatTypeOK'
<1> USE BatchAssumption DEF BatTypeOK, vars, masterVars, tableVars, childVars, history, Goes
<1>1. CASE CancelPoint(j)
  BY <1>1 DEF CancelPoint
<1>2. CASE CancelInLog(j)
  BY <1>2 DEF CancelInLog
<1>3. CASE KillChild(j)
  BY <1>3, SentTypes DEF KillChild
<1>4. CASE SetFailed(j)
  BY <1>4 DEF SetFailed
<1>5. CASE Tell(j)
  BY <1>5 DEF Tell, Signal
<1>6. CASE ChildEnds(j)
  BY <1>6 DEF ChildEnds
<1>7. CASE Minute(j)
  <2>1. elapsed[j] + 1 \in 0 .. MaxMinutes
    BY <1>7, Times DEF Minute
  <2> QED
    BY <1>7, <2>1 DEF Minute
<1> QED
  BY <1>1, <1>2, <1>3, <1>4, <1>5, <1>6, <1>7

LEMMA NextTypes == BatTypeOK /\ [Next]_vars => BatTypeOK'
<1> SUFFICES ASSUME BatTypeOK, [Next]_vars PROVE BatTypeOK'
  OBVIOUS
<1>1. CASE Next
  <2>1. CASE Master \/ SpuriousWakeUp \/ Close
    BY <2>1, MasterTypes DEF Master, BatTypeOK
  <2>2. ASSUME NEW j \in Jobs, Submit(j) \/ Delete(j) \/ IsRunning(j) PROVE BatTypeOK'
    BY <2>2, MasterTypes
  <2>3. ASSUME NEW j \in Jobs, Command(j) \/ Thread(j) \/ ChildEnds(j) \/ Minute(j)
        PROVE  BatTypeOK'
    BY <2>3, TableTypes, ThreadTypes, CancelTypes DEF Thread
  <2> QED
    BY <1>1, <2>1, <2>2, <2>3 DEF Next
<1>2. CASE UNCHANGED vars
  BY <1>2 DEF vars, masterVars, tableVars, childVars, history, BatTypeOK
<1> QED
  BY <1>1, <1>2

\* The table, the commands and the processes keep to their types, and a thread
\* that drains its queue owns the mutex of the table.
THEOREM BatchTypes == Spec => []BatTypeOK
  BY InitTypes, NextTypes, PTL DEF Spec

-----------------------------------------------------------------------------
(* What the state of a job, its thread and the master's call have in common *)

Submitting == {"born", "registering", "unlocking"}
Cancelling == {"killing", "failing", "telling"}
Leaving    == {"ending", "leaving", "gone"}
NotNamed   == {"absent", "blank"}

\* The thread has still a signal to send.
MaySignal(j) ==
  \/ thread[j] \in Submitting
  \/ cancelled[j] /\ thread[j] \notin {"none"} \cup Leaving

\* The master is in a call about j that waits for a signal.
WaitsFor(j) == master \in {"creating", "asleep"} /\ job = j

\* The thread sets a final state last; it registers its job while the master
\* waits in submitJob; only a thread that was cancelled runs the handlers.
StatesInv ==
  \A j \in Jobs :
    /\ state[j] \in Final <=> thread[j] \in {"leaving", "gone", "telling"}
    /\ thread[j] \in Cancelling => cancelled[j]
    /\ thread[j] \in Submitting => ~ cancelled[j] /\ call = "submit"
    /\ thread[j] \in {"none", "born", "registering"} => state[j] \in NotNamed
    /\ thread[j] = "unlocking" => state[j] = "RUNNING"
    /\ (thread[j] # "none" /\ state[j] \in NotNamed) => WaitsFor(j) /\ call = "submit"

\* A signal comes from the job the master waits for, and comes once.
SignalInv == \A j \in Jobs : MaySignal(j) => WaitsFor(j)

Over(j) == thread[j] \in {"none", "leaving", "gone"}

\* What the master may rely on when it wakes up, and when it has looked at all
\* the jobs.
CallInv ==
  /\ \A j \in Jobs : cancelled[j] => \/ state[j] \in Final
                                     \/ master = "asleep" /\ job = j /\ call # "submit"
  /\ (master = "woken" /\ call # "submit") => thread[job] = "gone"
  /\ (master \in {"closing", "cancelling", "closed"} \/ call = "close")
       => \A j \in Jobs \ toClose : Over(j)
  /\ master = "closed" => toClose = {}

BatInv == BatTypeOK /\ StatesInv /\ SignalInv /\ CallInv

LEMMA BatInvStarts == Init => BatInv
<1> SUFFICES ASSUME Init PROVE BatInv
  OBVIOUS
<1>1. StatesInv /\ SignalInv /\ CallInv
  BY DEF Init, StatesInv, SignalInv, CallInv, MaySignal, Submitting, Cancelling, NotNamed
<1> QED
  BY <1>1, InitTypes DEF BatInv

\* The calls of the master: one case per action.
LEMMA MasterKeeps ==
  ASSUME BatInv, BatTypeOK', NEW j \in Jobs,
         \/ Submit(j) \/ WaitForThread \/ Return \/ Delete(j) \/ Command(j)
         \/ IsRunning(j) \/ Close \/ CloseJob(j) \/ CloseCancels \/ Closed
  PROVE  StatesInv' /\ SignalInv' /\ CallInv'
<1> USE DEF BatInv, BatTypeOK, vars, masterVars, tableVars, childVars, history,
            Submitting, Cancelling, Leaving, NotNamed, WaitsFor, MaySignal, Over,
            StatesInv, SignalInv, CallInv
<1>1. CASE Submit(j)
  BY <1>1 DEF Submit, Goes
<1>2. CASE WaitForThread
  BY <1>2 DEF WaitForThread
<1>3. CASE Return
  BY <1>3 DEF Return
<1>4. CASE Delete(j)
  BY <1>4 DEF Delete, CancelAndWait
<1>5. CASE Command(j)
  BY <1>5 DEF Command
<1>6. CASE IsRunning(j)
  BY <1>6 DEF IsRunning
<1>7. CASE Close
  BY <1>7 DEF Close
<1>8. CASE CloseJob(j)
  BY <1>8 DEF CloseJob
<1>9. CASE CloseCancels
  BY <1>9 DEF CloseCancels, CancelAndWait
<1>10. CASE Closed
  BY <1>10 DEF Closed
<1> QED
  BY <1>1, <1>2, <1>3, <1>4, <1>5, <1>6, <1>7, <1>8, <1>9, <1>10

\* The threads and the processes: one case per action.
LEMMA ThreadKeeps ==
  ASSUME BatInv, BatTypeOK', NEW j \in Jobs, Thread(j) \/ ChildEnds(j) \/ Minute(j)
  PROVE  StatesInv' /\ SignalInv' /\ CallInv'
<1> USE DEF BatInv, BatTypeOK, vars, masterVars, tableVars, childVars, history,
            Submitting, Cancelling, Leaving, NotNamed, WaitsFor, MaySignal, Over,
            StatesInv, SignalInv, CallInv, Goes
<1>1. ASSUME UNCHANGED <<master, call, job, toClose, state, cancelled>>,
             NEW a, NEW b, thread[j] = a, Goes(j, b),
             \/ a = "born" /\ b \in {"registering", "ending"}
             \/ /\ a \in {"watching", "seen", "timing", "queueing", "draining", "sleeping"}
                /\ \/ b \in {"watching", "seen", "timing", "queueing", "draining", "sleeping",
                             "ending"}
                   \/ cancelled[j] /\ b = "killing"
             \/ a = "killing" /\ b = "failing"
             \/ a = "leaving" /\ b = "gone"
      PROVE  StatesInv' /\ SignalInv' /\ CallInv'
  <2>1. thread'[j] = b /\ \A k \in Jobs \ {j} : thread'[k] = thread[k]
    BY <1>1
  <2>2. StatesInv'
    <3>1. /\ state[j] \in Final <=> b \in {"leaving", "gone", "telling"}
          /\ b \in Cancelling => cancelled[j]
          /\ b \in Submitting => ~ cancelled[j] /\ call = "submit"
          /\ b \in {"none", "born", "registering"} => state[j] \in NotNamed
          /\ b = "unlocking" => state[j] = "RUNNING"
          /\ (b # "none" /\ state[j] \in NotNamed) => WaitsFor(j) /\ call = "submit"
      BY <1>1
    <3> QED
      BY <1>1, <2>1, <3>1
  <2>3. SignalInv'
    <3>1. (b \in Submitting \/ (cancelled[j] /\ b \notin {"none"} \cup Leaving)) => MaySignal(j)
      BY <1>1
    <3> QED
      BY <1>1, <2>1, <3>1
  <2>4. CallInv'
    <3>1. /\ thread[j] = "gone" => b = "gone"
          /\ Over(j) => b \in {"none", "leaving", "gone"}
      BY <1>1
    <3> QED
      BY <1>1, <2>1, <3>1
  <2> QED
    BY <2>2, <2>3, <2>4
<1>2. CASE Fork(j)
  <2>1. PICK b \in {"registering", "ending"} : Goes(j, b)
    BY <1>2 DEF Fork
  <2> QED
    BY <1>1, <1>2, <2>1 DEF Fork
<1>3. CASE Register(j)
  BY <1>3 DEF Register
<1>4. CASE UnlockMaster(j)
  <2>0. /\ thread[j] = "unlocking" /\ Goes(j, "watching")
        /\ UNCHANGED <<call, job, toClose, state, cancelled>>
    BY <1>4 DEF UnlockMaster
  <2>1. /\ thread'[j] = "watching" /\ \A k \in Jobs \ {j} : thread'[k] = thread[k]
        /\ ~ cancelled[j] /\ WaitsFor(j) /\ state[j] \notin Final
        /\ UNCHANGED <<call, job, toClose, state, cancelled>>
    <3>1. thread'[j] = "watching" /\ \A k \in Jobs \ {j} : thread'[k] = thread[k]
      BY <2>0
    <3>2. ~ cancelled[j] /\ WaitsFor(j) /\ state[j] \notin Final
      BY <2>0
    <3> QED
      BY <2>0, <3>1, <3>2
  <2>2. call = "submit" /\ master' \in {"creating", "woken"}
    BY <1>4, <2>1 DEF UnlockMaster, Signal
  <2>3. \A k \in Jobs \ {j} : ~ MaySignal(k) /\ (cancelled[k] => state[k] \in Final)
    BY <2>1
  <2>4. StatesInv'
    <3>1. state[j] = "RUNNING"
      BY <2>0
    <3>2. \A k \in Jobs \ {j} : ~ (thread[k] # "none" /\ state[k] \in NotNamed)
      BY <2>1
    <3> QED
      BY <2>1, <2>2, <3>1, <3>2
  <2>5. SignalInv'
    BY <1>4, <2>1, <2>2, <2>3
  <2>6. CallInv'
    BY <1>4, <2>1, <2>2, <2>3
  <2> QED
    BY <2>4, <2>5, <2>6
<1>5. CASE Watch(j)
  <2>1. PICK b \in {"timing", "seen"} : Goes(j, b)
    BY <1>5 DEF Watch
  <2> QED
    BY <1>1, <1>5, <2>1 DEF Watch
<1>6. CASE Seen(j)
  BY <1>1, <1>6 DEF Seen
<1>7. CASE CheckTime(j)
  BY <1>1, <1>7 DEF CheckTime
<1>8. CASE LockQueue(j) \/ UnlockQueue(j) \/ Sleep(j)
  <2>1. PICK a \in {"queueing", "draining", "sleeping"},
             b \in {"draining", "sleeping", "watching"} : thread[j] = a /\ Goes(j, b)
    BY <1>8 DEF LockQueue, UnlockQueue, Sleep
  <2>2. UNCHANGED <<master, call, job, toClose, state, cancelled>>
    BY <1>8 DEF LockQueue, UnlockQueue, Sleep
  <2> QED
    BY <1>1, <2>1, <2>2
<1>9. CASE Execute(j)
  BY <1>9 DEF Execute
<1>10. CASE End(j)
  BY <1>10 DEF End
<1>11. CASE Leave(j)
  BY <1>1, <1>11 DEF Leave
<1>12. CASE CancelPoint(j)
  BY <1>1, <1>12 DEF CancelPoint
<1>13. CASE CancelInLog(j)
  BY <1>1, <1>13 DEF CancelInLog
<1>14. CASE KillChild(j)
  BY <1>1, <1>14 DEF KillChild
<1>15. CASE SetFailed(j)
  BY <1>15 DEF SetFailed
<1>16. CASE Tell(j)
  <2>0. /\ thread[j] = "telling" /\ Goes(j, "gone")
        /\ UNCHANGED <<call, job, toClose, state, cancelled>>
    BY <1>16 DEF Tell
  <2>1. /\ thread'[j] = "gone" /\ \A k \in Jobs \ {j} : thread'[k] = thread[k]
        /\ cancelled[j] /\ WaitsFor(j) /\ state[j] \in Final
        /\ UNCHANGED <<call, job, toClose, state, cancelled>>
    <3>1. thread'[j] = "gone" /\ \A k \in Jobs \ {j} : thread'[k] = thread[k]
      BY <2>0
    <3>2. cancelled[j] /\ WaitsFor(j) /\ state[j] \in Final
      BY <2>0
    <3> QED
      BY <2>0, <3>1, <3>2
  <2>2. master' \in {"creating", "woken"}
    BY <1>16, <2>1 DEF Tell, Signal
  <2>3. \A k \in Jobs \ {j} : ~ MaySignal(k) /\ (cancelled[k] => state[k] \in Final)
    BY <2>1
  <2>4. StatesInv'
    BY <1>16, <2>1, <2>2, <2>3
  <2>5. SignalInv'
    BY <1>16, <2>1, <2>2, <2>3
  <2>6. CallInv'
    BY <1>16, <2>1, <2>2, <2>3
  <2> QED
    BY <2>4, <2>5, <2>6
<1>17. CASE ChildEnds(j) \/ Minute(j)
  BY <1>17 DEF ChildEnds, Minute
<1> QED
  BY <1>2, <1>3, <1>4, <1>5, <1>6, <1>7, <1>8, <1>9, <1>10, <1>11, <1>12, <1>13,
     <1>14, <1>15, <1>16, <1>17 DEF Thread

LEMMA BatInvStays ==
  ASSUME ~ SpuriousWakeUps, BatInv, [Next]_vars PROVE BatInv'
<1>1. BatTypeOK'
  BY NextTypes DEF BatInv
<1>2. CASE Next
  <2>1. ~ SpuriousWakeUp
    BY DEF SpuriousWakeUp
  <2>2. CASE Master \/ Close
    BY <1>1, <2>2, MasterKeeps DEF Master, BatInv, BatTypeOK
  <2>3. ASSUME NEW j \in Jobs,
               \/ Submit(j) \/ Delete(j) \/ Command(j) \/ IsRunning(j)
               \/ Thread(j) \/ ChildEnds(j) \/ Minute(j)
        PROVE  BatInv'
    BY <1>1, <2>3, MasterKeeps, ThreadKeeps DEF BatInv
  <2> QED
    BY <1>1, <1>2, <2>1, <2>2, <2>3 DEF Next, BatInv
<1>3. CASE UNCHANGED vars
  BY <1>1, <1>3 DEF vars, masterVars, tableVars, childVars, history, BatInv, StatesInv,
     SignalInv, CallInv, MaySignal, WaitsFor, Over
<1> QED
  BY <1>2, <1>3

\* When deleteJob has returned the job has an end: the thread sets it before
\* it wakes the master, and no other thread has a signal to send then.  This
\* needs pthread_cond_wait not to return by itself: the wait has no loop.
THEOREM DeletedJobIsOver == ~ SpuriousWakeUps => (Spec => []DeletedIsOver)
<1> SUFFICES ASSUME ~ SpuriousWakeUps PROVE Spec => []DeletedIsOver
  OBVIOUS
<1>1. BatInv /\ [Next]_vars => BatInv'
  BY BatInvStays
<1>2. BatInv => DeletedIsOver
  BY DEF BatInv, CallInv, DeletedIsOver
<1> QED
  BY <1>1, <1>2, BatInvStarts, PTL DEF Spec

\* The destructor waits for every thread that could still touch the manager,
\* under the same condition.
THEOREM DestroyedIsUnused == ~ SpuriousWakeUps => (Spec => []NothingUsesDestroyed)
<1> SUFFICES ASSUME ~ SpuriousWakeUps PROVE Spec => []NothingUsesDestroyed
  OBVIOUS
<1>1. BatInv /\ [Next]_vars => BatInv'
  BY BatInvStays
<1>2. BatInv => NothingUsesDestroyed
  BY DEF BatInv, CallInv, NothingUsesDestroyed, Over
<1> QED
  BY <1>1, <1>2, BatInvStarts, PTL DEF Spec

-----------------------------------------------------------------------------
(* The end of a job, and the threads that are cancelled                    *)

\* A thread registers its job before anything else and sets its final state
\* last.  The destructor holds the mutex from its look at the state to the
\* call of pthread_cancel, so that the thread cannot end in between.
EndsInv ==
  /\ \A j \in Jobs :
       /\ state[j] \in Final <=> thread[j] \in {"leaving", "gone", "telling"}
       /\ thread[j] \in {"none", "born", "registering"} => state[j] \in NotNamed
       /\ (thread[j] = "none" /\ "isRunning" \notin Calls) => state[j] = "absent"
  /\ \A j \in toClose : state[j] # "absent"
  /\ master = "cancelling" => state[job] \notin Final \cup {"absent"}

LEMMA EndsKeeps == BatTypeOK /\ BatTypeOK' /\ EndsInv /\ [Next]_vars => EndsInv'
<1> SUFFICES ASSUME BatTypeOK, BatTypeOK', EndsInv, [Next]_vars PROVE EndsInv'
  OBVIOUS
<1> USE DEF BatTypeOK, EndsInv, NotNamed, vars, masterVars, tableVars, childVars, history
<1>1. CASE Master \/ SpuriousWakeUp \/ Close
  <2>1. CASE \E j \in Jobs : CloseJob(j)
    BY <2>1 DEF CloseJob
  <2> QED
    BY <1>1, <2>1 DEF Master, SpuriousWakeUp, Close, WaitForThread, Return, CloseCancels,
       CancelAndWait, Closed
<1>2. ASSUME NEW j \in Jobs, Submit(j) \/ Delete(j) \/ Command(j) \/ IsRunning(j) PROVE EndsInv'
  <2>1. CASE Submit(j)
    BY <2>1 DEF Submit, Goes
  <2>2. CASE Delete(j)
    BY <2>2 DEF Delete, CancelAndWait
  <2>3. CASE Command(j)
    BY <2>3 DEF Command
  <2>4. CASE IsRunning(j)
    <3>1. state' = [state EXCEPT ![j] = "blank"] /\ state[j] = "absent" /\ "isRunning" \in Calls
      BY <2>4 DEF IsRunning
    <3>2. master = "idle" /\ UNCHANGED <<master, job, toClose, thread>>
      BY <2>4 DEF IsRunning
    <3>3. state'[j] = "blank" /\ \A k \in Jobs \ {j} : state'[k] = state[k]
      BY <3>1
    <3>4. \A k \in Jobs : (state'[k] \in Final <=> state[k] \in Final)
                           /\ (state[k] \in NotNamed => state'[k] \in NotNamed)
                           /\ (state'[k] = "absent" => state[k] = "absent")
      BY <3>1, <3>3
    <3>5. \A k \in Jobs : ~ (thread[k] = "none" /\ "isRunning" \notin Calls)
      BY <3>1
    <3>6. \A k \in toClose : state'[k] # "absent"
      BY <3>4
    <3> QED
      BY <3>2, <3>4, <3>5, <3>6
  <2> QED
    BY <1>2, <2>1, <2>2, <2>3, <2>4
<1>3. ASSUME NEW j \in Jobs, Thread(j) \/ ChildEnds(j) \/ Minute(j) PROVE EndsInv'
  <2> USE DEF Goes
  <2>1. ASSUME UNCHANGED <<master, job, toClose>>, NEW a, NEW b, thread[j] = a, Goes(j, b),
               state' = state,
               a \in {"leaving", "gone", "telling"} <=> b \in {"leaving", "gone", "telling"},
               a # "none", b # "none", b \in {"born", "registering"} => a = "born"
        PROVE  EndsInv'
    <3>1. thread'[j] = b /\ \A k \in Jobs \ {j} : thread'[k] = thread[k]
      BY <2>1
    <3>2. \A k \in Jobs :
            /\ thread'[k] \in {"leaving", "gone", "telling"}
                 <=> thread[k] \in {"leaving", "gone", "telling"}
            /\ thread'[k] \in {"none", "born", "registering"}
                 => thread[k] \in {"none", "born", "registering"}
            /\ thread'[k] = "none" => thread[k] = "none"
      BY <2>1, <3>1
    <3> QED
      BY <2>1, <3>2
  <2>2. CASE Fork(j)
    <3>1. PICK b \in {"registering", "ending"} : Goes(j, b)
      BY <2>2 DEF Fork
    <3> QED
      BY <2>1, <2>2, <3>1 DEF Fork
  <2>3. CASE Register(j)
    BY <2>3 DEF Register
  <2>4. CASE UnlockMaster(j) \/ Tell(j)
    BY <2>4 DEF UnlockMaster, Tell, Signal
  <2>5. CASE Watch(j)
    <3>1. PICK b \in {"timing", "seen"} : Goes(j, b)
      BY <2>5 DEF Watch
    <3> QED
      BY <2>1, <2>5, <3>1 DEF Watch
  <2>6. CASE Seen(j) \/ CheckTime(j)
    BY <2>1, <2>6 DEF Seen, CheckTime
  <2>7. CASE LockQueue(j) \/ UnlockQueue(j) \/ Sleep(j)
    <3>1. PICK a \in {"queueing", "draining", "sleeping"},
               b \in {"draining", "sleeping", "watching"} : thread[j] = a /\ Goes(j, b)
      BY <2>7 DEF LockQueue, UnlockQueue, Sleep
    <3> QED
      BY <2>1, <2>7, <3>1 DEF LockQueue, UnlockQueue, Sleep
  <2>8. CASE Execute(j) \/ ChildEnds(j) \/ Minute(j)
    BY <2>8 DEF Execute, ChildEnds, Minute
  <2>9. CASE End(j)
    BY <2>9 DEF End
  <2>10. CASE Leave(j)
    BY <2>1, <2>10 DEF Leave
  <2>11. CASE CancelPoint(j) \/ CancelInLog(j)
    <3>1. PICK a \in {"watching", "sleeping", "seen", "timing", "draining"} :
             thread[j] = a /\ Goes(j, "killing")
      BY <2>11 DEF CancelPoint, CancelInLog
    <3>2. UNCHANGED <<state, job, master, toClose>>
      BY <2>11 DEF CancelPoint, CancelInLog
    <3> QED
      BY <2>1, <3>1, <3>2
  <2>14. CASE KillChild(j)
    BY <2>1, <2>14 DEF KillChild
  <2>12. CASE SetFailed(j)
    BY <2>12 DEF SetFailed
  <2> QED
    BY <1>3, <2>2, <2>3, <2>4, <2>5, <2>6, <2>7, <2>8, <2>9, <2>10, <2>11, <2>12, <2>14 DEF Thread
<1>4. CASE UNCHANGED vars
  BY <1>4
<1> QED
  BY <1>1, <1>2, <1>3, <1>4 DEF Next

LEMMA EndsInvHolds == Spec => [](BatTypeOK /\ EndsInv)
<1>1. Init => BatTypeOK /\ EndsInv
  BY InitTypes DEF Init, EndsInv, NotNamed
<1>2. BatTypeOK /\ EndsInv /\ [Next]_vars => (BatTypeOK /\ EndsInv)'
  BY NextTypes, EndsKeeps
<1> QED
  BY <1>1, <1>2, PTL DEF Spec

\* The state a job ends in is the one it keeps, whatever happens to its
\* thread afterwards: the registration comes before, and a thread sets its
\* final state once, at its own end or in the handler of its cancellation.
THEOREM FinalStateStays == Spec => FinalStays
<1>1. BatTypeOK /\ EndsInv /\ [Next]_vars
        => [\A j \in Jobs : state[j] \in Final => state'[j] = state[j]]_vars
  <2> SUFFICES ASSUME BatTypeOK, EndsInv, Next, NEW j \in Jobs, state[j] \in Final
               PROVE  state'[j] = state[j]
    OBVIOUS
  <2> USE DEF BatTypeOK, EndsInv, NotNamed, masterVars, tableVars, childVars, history
  <2>1. CASE Master \/ SpuriousWakeUp \/ Close
    BY <2>1 DEF Master, SpuriousWakeUp, Close, WaitForThread, Return, CloseCancels,
       CancelAndWait, Closed, CloseJob
  <2>2. ASSUME NEW k \in Jobs, Submit(k) \/ Delete(k) \/ Command(k) \/ IsRunning(k)
        PROVE  state'[j] = state[j]
    BY <2>2 DEF Submit, Delete, CancelAndWait, Command, IsRunning
  <2>3. ASSUME NEW k \in Jobs, Register(k) \/ End(k) \/ SetFailed(k)
        PROVE  state'[j] = state[j]
    BY <2>3 DEF Register, End, SetFailed
  <2>4. ASSUME NEW k \in Jobs, Thread(k) \/ ChildEnds(k) \/ Minute(k)
        PROVE  state'[j] = state[j]
    BY <2>3, <2>4 DEF Thread, Fork, UnlockMaster, Watch, Seen, CheckTime, LockQueue, Execute,
       UnlockQueue, Sleep, Leave, CancelPoint, CancelInLog, KillChild, Tell, ChildEnds, Minute
  <2> QED
    BY <2>1, <2>2, <2>4 DEF Next
<1> QED
  BY <1>1, EndsInvHolds, PTL DEF Spec, FinalStays

\* pthread_cancel is called on a thread that has not left: deleteJob and the
\* destructor look at the state with the mutex held until the call.  A job
\* that isRunning put in the table has no thread to cancel.
THEOREM OnlyLivingAreCancelled == "isRunning" \notin Calls => (Spec => CancelsLiving)
<1> SUFFICES ASSUME "isRunning" \notin Calls PROVE Spec => CancelsLiving
  OBVIOUS
<1>1. BatTypeOK /\ EndsInv /\ [Next]_vars
        => [\A j \in Jobs : (cancelled'[j] /\ ~cancelled[j])
                               => (thread[j] \notin {"none", "gone"})]_vars
  <2> SUFFICES ASSUME BatTypeOK, EndsInv, Next, NEW j \in Jobs, cancelled'[j], ~cancelled[j]
               PROVE  thread[j] \notin {"none", "gone"}
    OBVIOUS
  <2> USE DEF BatTypeOK, EndsInv, NotNamed, masterVars, tableVars, childVars, history
  <2>1. CASE CloseCancels \/ Delete(j)
    BY <2>1 DEF CloseCancels, Delete, CancelAndWait
  <2>2. CASE Master \/ SpuriousWakeUp \/ Close
    BY <2>1, <2>2 DEF Master, SpuriousWakeUp, Close, WaitForThread, Return, Closed, CloseJob
  <2>3. ASSUME NEW k \in Jobs, Submit(k) \/ Delete(k) \/ Command(k) \/ IsRunning(k)
        PROVE  thread[j] \notin {"none", "gone"}
    BY <2>1, <2>3 DEF Submit, Delete, CancelAndWait, Command, IsRunning
  <2>4. ASSUME NEW k \in Jobs, Thread(k) \/ ChildEnds(k) \/ Minute(k)
        PROVE  cancelled' = cancelled
    BY <2>4 DEF Thread, Fork, Register, UnlockMaster, Watch, Seen, CheckTime, LockQueue, Execute,
       UnlockQueue, Sleep, End, Leave, CancelPoint, CancelInLog, KillChild, SetFailed, Tell,
       ChildEnds, Minute
  <2> QED
    BY <2>2, <2>3, <2>4 DEF Next
<1> QED
  BY <1>1, EndsInvHolds, PTL DEF Spec, CancelsLiving
-----------------------------------------------------------------------------
(* The commands                                                            *)

Control == {"HOLD", "RELEASE"}
Queued  == {"NOP", "HOLD", "RELEASE", "TERM", "KILL"}

\* q has a command of the master; the last one it has is c.
HasControl(q) == \E i \in 1 .. Len(q) : q[i] \in Control
LastIs(q, c) ==
  \A i \in 1 .. Len(q) :
    (q[i] \in Control /\ \A k \in 1 .. Len(q) : k > i => q[k] \notin Control) => q[i] = c

LEMMA AppendControl ==
  ASSUME NEW q \in Seq(Queued), NEW c \in Control
  PROVE  HasControl(Append(q, c)) /\ LastIs(Append(q, c), c)
<1> DEFINE r == Append(q, c)
<1>1. r \in Seq(Queued) /\ Len(r) = Len(q) + 1 /\ r[Len(r)] = c /\ Len(q) \in Nat
  BY DEF Queued, Control
<1> HIDE DEF r
<1>2. HasControl(r)
  BY <1>1 DEF HasControl
<1>3. LastIs(r, c)
  BY <1>1 DEF LastIs
<1> QED
  BY <1>2, <1>3 DEF r

LEMMA AppendOther ==
  ASSUME NEW q \in Seq(Queued), NEW o \in Queued \ Control, NEW c, LastIs(q, c)
  PROVE  (HasControl(Append(q, o)) <=> HasControl(q)) /\ LastIs(Append(q, o), c)
<1> DEFINE r == Append(q, o)
<1>1. /\ r \in Seq(Queued) /\ Len(r) = Len(q) + 1 /\ r[Len(r)] = o /\ Len(q) \in Nat
      /\ \A i \in 1 .. Len(q) : r[i] = q[i]
  OBVIOUS
<1> HIDE DEF r
<1>2. HasControl(r) <=> HasControl(q)
  BY <1>1 DEF HasControl
<1>3. LastIs(r, c)
  <2> SUFFICES ASSUME NEW i \in 1 .. Len(r), r[i] \in Control,
                      \A k \in 1 .. Len(r) : k > i => r[k] \notin Control
               PROVE  r[i] = c
    BY DEF LastIs
  <2>1. i \in 1 .. Len(q)
    BY <1>1
  <2>2. q[i] \in Control /\ \A k \in 1 .. Len(q) : k > i => q[k] \notin Control
    BY <1>1, <2>1
  <2> QED
    BY <1>1, <2>1, <2>2 DEF LastIs
<1> QED
  BY <1>2, <1>3 DEF r

\* The command at the head is the last one when no other follows it.
LEMMA TailControl ==
  ASSUME NEW q \in Seq(Queued), q # <<>>, NEW c, LastIs(q, c)
  PROVE  /\ LastIs(Tail(q), c)
         /\ Head(q) \notin Control => (HasControl(Tail(q)) <=> HasControl(q))
         /\ (Head(q) \in Control /\ ~ HasControl(Tail(q))) => Head(q) = c
<1> DEFINE r == Tail(q)
<1>1. /\ r \in Seq(Queued) /\ Len(q) = Len(r) + 1 /\ Head(q) = q[1] /\ Len(r) \in Nat
      /\ \A i \in 1 .. Len(r) : r[i] = q[i + 1]
  OBVIOUS
<1>2. \A k \in 2 .. Len(q) : k - 1 \in 1 .. Len(r) /\ q[k] = r[k - 1]
  BY <1>1
<1> HIDE DEF r
<1>3. LastIs(r, c)
  <2> SUFFICES ASSUME NEW i \in 1 .. Len(r), r[i] \in Control,
                      \A k \in 1 .. Len(r) : k > i => r[k] \notin Control
               PROVE  r[i] = c
    BY DEF LastIs
  <2>1. i + 1 \in 1 .. Len(q) /\ q[i + 1] \in Control
    BY <1>1
  <2>2. \A k \in 1 .. Len(q) : k > i + 1 => q[k] \notin Control
    <3> SUFFICES ASSUME NEW k \in 1 .. Len(q), k > i + 1 PROVE q[k] \notin Control
      OBVIOUS
    <3>1. k - 1 \in 1 .. Len(r) /\ k - 1 > i
      BY <1>1
    <3>2. q[k] = r[k - 1]
      BY <1>1, <1>2
    <3> QED
      BY <3>1, <3>2
  <2> QED
    BY <1>1, <2>1, <2>2 DEF LastIs
<1>4. Head(q) \notin Control => (HasControl(r) <=> HasControl(q))
  <2>1. HasControl(r) => HasControl(q)
    BY <1>1 DEF HasControl
  <2>2. ASSUME Head(q) \notin Control, HasControl(q) PROVE HasControl(r)
    <3>1. PICK k \in 1 .. Len(q) : q[k] \in Control
      BY <2>2 DEF HasControl
    <3>2. k \in 2 .. Len(q)
      BY <1>1, <2>2, <3>1
    <3> QED
      BY <1>2, <3>1, <3>2 DEF HasControl
  <2> QED
    BY <2>1, <2>2
<1>5. ASSUME Head(q) \in Control, ~ HasControl(r) PROVE Head(q) = c
  <2>1. 1 \in 1 .. Len(q) /\ q[1] \in Control
    BY <1>1, <1>5
  <2>2. \A k \in 1 .. Len(q) : k > 1 => q[k] \notin Control
    BY <1>1, <1>2, <1>5 DEF HasControl
  <2> QED
    BY <1>1, <2>1, <2>2 DEF LastIs
<1> QED
  BY <1>3, <1>4, <1>5 DEF r

\* What the process of a job is told in the end: the last command in the
\* queue, or, when the queue has none, what was done with the process.
CommandInv ==
  \A j \in Jobs :
    /\ LastIs(queue[j], lastCommand[j])
    /\ (~ HasControl(queue[j]) /\ child[j] \in Alive)
         => (child[j] = "stopped" <=> lastCommand[j] = "HOLD")
    /\ (~ HasControl(queue[j]) /\ thread[j] \in {"none", "born"}) => lastCommand[j] # "HOLD"

LEMMA CommandKeeps == BatTypeOK /\ CommandInv /\ [Next]_vars => CommandInv'
<1> SUFFICES ASSUME BatTypeOK, CommandInv, [Next]_vars PROVE CommandInv'
  OBVIOUS
<1> USE DEF BatTypeOK, CommandInv, vars, masterVars, tableVars, childVars, history
<1>1. CASE Master \/ SpuriousWakeUp \/ Close
  BY <1>1 DEF Master, SpuriousWakeUp, Close, WaitForThread, Return, CloseCancels,
     CancelAndWait, Closed, CloseJob
<1>2. ASSUME NEW j \in Jobs, Delete(j) \/ IsRunning(j) \/ Minute(j) PROVE CommandInv'
  BY <1>2 DEF Delete, CancelAndWait, IsRunning, Minute
<1>3. ASSUME NEW j \in Jobs, NEW b, Goes(j, b), thread[j] \in {"none", "born"} \/ b # "born",
             b # "none", UNCHANGED <<queue, lastCommand, child>>
      PROVE  CommandInv'
  BY <1>3 DEF Goes
<1>4. ASSUME NEW j \in Jobs, Command(j) PROVE CommandInv'
  <2>1. PICK c \in Control : /\ queue' = [queue EXCEPT ![j] = Append(@, c)]
                             /\ lastCommand' = [lastCommand EXCEPT ![j] = c]
    BY <1>4 DEF Command, Control
  <2>2. HasControl(Append(queue[j], c)) /\ LastIs(Append(queue[j], c), c)
    BY AppendControl DEF Queued
  <2>3. UNCHANGED <<child, thread>>
    BY <1>4 DEF Command
  <2> QED
    BY <2>1, <2>2, <2>3
<1>5. ASSUME NEW j \in Jobs, NEW o \in Queued \ Control, NEW b,
             queue' = [queue EXCEPT ![j] = Append(@, o)], Goes(j, b),
             b \notin {"none", "born"}, UNCHANGED <<lastCommand, child>>
      PROVE  CommandInv'
  <2>1. /\ HasControl(Append(queue[j], o)) <=> HasControl(queue[j])
        /\ LastIs(Append(queue[j], o), lastCommand[j])
    BY AppendOther DEF Queued
  <2>2. ASSUME NEW k \in Jobs
        PROVE  /\ ~ HasControl(queue'[k]) => ~ HasControl(queue[k])
               /\ LastIs(queue'[k], lastCommand'[k])
    <3>1. CASE k = j
      BY <1>5, <2>1, <3>1
    <3>2. CASE k # j
      BY <1>5, <3>2
    <3> QED
      BY <3>1, <3>2
  <2>3. \A k \in Jobs : thread'[k] \in {"none", "born"} => thread[k] \in {"none", "born"}
    BY <1>5 DEF Goes
  <2>4. child' = child /\ lastCommand' = lastCommand
    BY <1>5
  <2>5. ASSUME NEW k \in Jobs
        PROVE  /\ LastIs(queue'[k], lastCommand'[k])
               /\ (~ HasControl(queue'[k]) /\ child'[k] \in Alive)
                    => (child'[k] = "stopped" <=> lastCommand'[k] = "HOLD")
               /\ (~ HasControl(queue'[k]) /\ thread'[k] \in {"none", "born"})
                    => lastCommand'[k] # "HOLD"
    BY <2>2, <2>3, <2>4
  <2> QED
    BY <2>5
\* A process that is sent a signal other than HOLD and RELEASE, or ends.
<1>6. ASSUME NEW j \in Jobs, UNCHANGED <<queue, lastCommand>>,
             \A k \in Jobs : child'[k] \in Alive => child'[k] = child[k],
             \A k \in Jobs : thread'[k] \in {"none", "born"} => thread[k] \in {"none", "born"}
      PROVE  CommandInv'
  BY <1>6
<1>7. ASSUME NEW j \in Jobs, Execute(j) PROVE CommandInv'
  <2> DEFINE q == queue[j] c == Head(q)
  <2>1. q \in Seq(Queued) /\ q # <<>> /\ c \in Queued /\ Sent(j, c)
    BY <1>7 DEF Execute, Queued
  <2>2. /\ queue' = [queue EXCEPT ![j] = Tail(q)] /\ UNCHANGED <<lastCommand, thread>>
        /\ thread[j] = "draining"
    BY <1>7 DEF Execute
  <2>3. /\ LastIs(Tail(q), lastCommand[j])
        /\ c \notin Control => (HasControl(Tail(q)) <=> HasControl(q))
        /\ (c \in Control /\ ~ HasControl(Tail(q))) => c = lastCommand[j]
    BY <2>1, TailControl
  <2>4. /\ \A k \in Jobs \ {j} : child'[k] = child[k]
        /\ c \notin Control => (child'[j] \in Alive => child'[j] = child[j])
        /\ c = "HOLD" => (child'[j] \in Alive => child'[j] = "stopped")
        /\ c = "RELEASE" => (child'[j] \in Alive => child'[j] = "running")
    <3>1. child' = [child EXCEPT ![j] =
            CASE @ \in Alive /\ c = "KILL" -> "over"
              [] @ = "running" /\ c = "TERM" -> "over"
              [] @ = "running" /\ c = "HOLD" -> "stopped"
              [] @ = "stopped" /\ c = "RELEASE" -> IF pending[j] THEN "over" ELSE "running"
              [] OTHER -> @]
      BY <2>1 DEF Sent
    <3> HIDE DEF c
    <3>2. \A k \in Jobs \ {j} : child'[k] = child[k]
      BY <3>1
    <3> QED
      BY <2>1, <3>1, <3>2 DEF Control, Queued
  <2> HIDE DEF c
  <2>5. \A k \in Jobs \ {j} : queue'[k] = queue[k] /\ child'[k] = child[k]
    BY <2>2, <2>4
  <2>6. (~ HasControl(Tail(q)) /\ child'[j] \in Alive)
          => (child'[j] = "stopped" <=> lastCommand[j] = "HOLD")
    BY <2>1, <2>3, <2>4 DEF Control, Queued
  <2>7. queue'[j] = Tail(q)
    BY <2>2
  <2> HIDE DEF q
  <2> QED
    BY <2>2, <2>3, <2>5, <2>6, <2>7
<1>8. ASSUME NEW j \in Jobs, KillChild(j) \/ Watch(j) \/ ChildEnds(j) PROVE CommandInv'
  <2>1. UNCHANGED <<queue, lastCommand>>
    BY <1>8 DEF KillChild, Watch, ChildEnds
  <2>2. \A k \in Jobs : thread'[k] \in {"none", "born"} => thread[k] \in {"none", "born"}
    BY <1>8 DEF KillChild, Watch, ChildEnds, Goes
  <2>3. \A k \in Jobs : child'[k] \in Alive => child'[k] = child[k]
    BY <1>8 DEF KillChild, Watch, ChildEnds, Sent
  <2> QED
    BY <1>6, <2>1, <2>2, <2>3
<1>9. ASSUME NEW j \in Jobs, Fork(j) PROVE CommandInv'
  <2>1. CASE child' = [child EXCEPT ![j] = "running"] /\ Goes(j, "registering")
    BY <1>9, <2>1 DEF Fork, Goes
  <2>2. CASE Goes(j, "ending") /\ UNCHANGED child
    BY <1>9, <2>2 DEF Fork, Goes
  <2> QED
    BY <1>9, <2>1, <2>2 DEF Fork
<1>10. ASSUME NEW j \in Jobs, Submit(j) PROVE CommandInv'
  BY <1>10 DEF Submit, Goes
<1>11. ASSUME NEW j \in Jobs, Register(j) \/ CheckTime(j) PROVE CommandInv'
  <2>1. CASE Register(j)
    BY <1>5, <2>1 DEF Register, Control, Queued
  <2>2. CASE CheckTime(j) /\ Late(j)
    BY <1>5, <2>2 DEF CheckTime, Control, Queued
  <2>3. CASE CheckTime(j) /\ ~ Late(j)
    BY <1>3, <2>3 DEF CheckTime
  <2> QED
    BY <1>11, <2>1, <2>2, <2>3
<1>12. ASSUME NEW j \in Jobs,
              \/ UnlockMaster(j) \/ Seen(j) \/ LockQueue(j) \/ UnlockQueue(j) \/ Sleep(j)
              \/ End(j) \/ Leave(j) \/ CancelPoint(j) \/ CancelInLog(j) \/ SetFailed(j) \/ Tell(j)
       PROVE  CommandInv'
  <2>1. UNCHANGED <<queue, lastCommand, child>>
    BY <1>12 DEF UnlockMaster, Seen, LockQueue, UnlockQueue, Sleep, End, Leave, CancelPoint,
       CancelInLog, SetFailed, Tell
  <2>2. PICK b \in {"watching", "ending", "draining", "sleeping", "leaving", "gone", "killing",
                    "telling"} : Goes(j, b)
    BY <1>12 DEF UnlockMaster, Seen, LockQueue, UnlockQueue, Sleep, End, Leave, CancelPoint,
       CancelInLog, SetFailed, Tell
  <2> QED
    BY <1>3, <2>1, <2>2
<1>13. CASE UNCHANGED vars
  BY <1>13
<1> QED
  BY <1>1, <1>2, <1>4, <1>7, <1>8, <1>9, <1>10, <1>11, <1>12, <1>13 DEF Next, Thread

\* Commands are executed in the order of the calls: once the queue of a job
\* is empty its process is stopped exactly when the last call was holdJob,
\* whatever the watch on the wall clock and the cancellations add.
THEOREM LastCommandIsDone == Spec => []LastCommandWins
<1>1. Init => CommandInv
  <2> SUFFICES ASSUME Init PROVE CommandInv
    OBVIOUS
  <2>1. \A c : LastIs(<<>>, c)
    BY DEF LastIs
  <2>2. ASSUME NEW j \in Jobs
        PROVE  queue[j] = <<>> /\ child[j] = "none" /\ lastCommand[j] = "none"
    BY DEF Init
  <2>3. "none" \notin Alive
    BY DEF Alive
  <2> QED
    BY <2>1, <2>2, <2>3 DEF CommandInv
<1>2. CommandInv => LastCommandWins
  BY DEF CommandInv, LastCommandWins, HasControl
<1> QED
  BY <1>1, <1>2, CommandKeeps, BatchTypes, PTL DEF Spec
=============================================================================
