----------------------------- MODULE LocalBatch -----------------------------
(***************************************************************************)
(* The local batch manager of LIBBATCH (BatchManager_Local).  One caller,  *)
(* the master, submits jobs, holds, releases and deletes them, and         *)
(* destroys the manager; each job has a thread that forks a process and    *)
(* watches it.  They share the table of jobs, one mutex, one condition     *)
(* the master waits on, and the mutex of the log.                          *)
(*                                                                         *)
(* A thread is cancelled at the first cancellation point it reaches:       *)
(* waitpid, pthread_testcancel and sleep, but also the write of the log    *)
(* (UNDER_LOCK(LOG(..)) flushes a file).                                   *)
(***************************************************************************)
EXTENDS Integers, Sequences

CONSTANTS
  Jobs,             \* the jobs that may be submitted
  Calls,            \* what the master does besides submitJob
  MaxCommands,      \* bound on the calls of holdJob and releaseJob
  MaxWallTime,      \* MAXWALLTIME in minutes, 0 when it is not given
  ForkFails, Vanishes, SpuriousWakeUps

ASSUME BatchAssumption ==
  /\ Calls \subseteq {"delete", "hold", "isRunning", "close"}
  /\ MaxCommands \in Nat /\ MaxWallTime \in Nat
  /\ ForkFails \in BOOLEAN /\ Vanishes \in BOOLEAN /\ SpuriousWakeUps \in BOOLEAN
  /\ "free" \notin Jobs /\ "master" \notin Jobs

VARIABLES
  mutex,      \* owner of _threads_mutex
  io,         \* IOMutex: "free", or "lost" when its owner was cancelled
  master,     \* where the master is
  call, job,  \* the call in which it sleeps, and for which job
  toClose,    \* jobs the destructor has still to look at
  state,      \* param[STATE] in _threads, "absent" when there is no entry
  queue,      \* command_queue
  hasFailed,
  thread,     \* where the thread of a job is
  cancelled,  \* pthread_cancel has been called on it
  child,      \* its process
  pending,    \* a SIGTERM waits for the stopped process
  elapsed,    \* minutes since the process has started
  commands,   \* number of calls of holdJob and releaseJob
  lastCommand, signalled  \* history: last command queued, signals that end sent

masterVars == <<master, call, job, toClose>>
tableVars  == <<state, queue, hasFailed>>
childVars  == <<child, pending, elapsed, signalled>>
history    == <<commands, lastCommand>>
vars == <<mutex, io, masterVars, tableVars, thread, cancelled, childVars, history>>

Final == {"FINISHED", "FAILED"}
Alive == {"running", "stopped"}

(* Ten per cent more than the time asked for; the longest time watched.    *)
KillTime == (11 * MaxWallTime) \div 10
MaxMinutes == KillTime + 1

Init ==
  /\ mutex = "free" /\ io = "free"
  /\ master = "idle" /\ call = "none" /\ job \in Jobs /\ toClose = {}
  /\ state = [j \in Jobs |-> "absent"] /\ queue = [j \in Jobs |-> <<>>]
  /\ hasFailed = [j \in Jobs |-> FALSE]
  /\ thread = [j \in Jobs |-> "none"] /\ cancelled = [j \in Jobs |-> FALSE]
  /\ child = [j \in Jobs |-> "none"] /\ pending = [j \in Jobs |-> FALSE]
  /\ elapsed = [j \in Jobs |-> 0] /\ signalled = [j \in Jobs |-> {}]
  /\ commands = 0 /\ lastCommand = [j \in Jobs |-> "none"]

Goes(j, pc) == thread' = [thread EXCEPT ![j] = pc]

(* pthread_cond_signal on _threadSyncCondition.                            *)
Signal == master' = IF master = "asleep" THEN "woken" ELSE master

(* A signal reaches the process of j.                                      *)
Sent(j, sig) ==
  /\ child' = [child EXCEPT ![j] =
       CASE @ \in Alive /\ sig = "KILL" -> "over"
         [] @ = "running" /\ sig = "TERM" -> "over"
         [] @ = "running" /\ sig = "HOLD" -> "stopped"
         [] @ = "stopped" /\ sig = "RELEASE" -> IF pending[j] THEN "over" ELSE "running"
         [] OTHER -> @]
  /\ pending' = [pending EXCEPT ![j] = @ \/ (sig = "TERM" /\ child[j] = "stopped")]
  /\ signalled' = [signalled EXCEPT ![j] = @ \cup ({sig} \cap {"TERM", "KILL"})]

----------------------------------------------------------------------------
(* The master                                                              *)

(* submitJob takes the mutex and creates the thread, then waits for it.    *)
Submit(j) ==
  /\ master = "idle" /\ thread[j] = "none" /\ mutex = "free"
  /\ mutex' = "master" /\ master' = "creating" /\ call' = "submit" /\ job' = j
  /\ Goes(j, "born")
  /\ UNCHANGED <<io, toClose, tableVars, cancelled, childVars, history>>

WaitForThread ==
  /\ master = "creating"
  /\ master' = "asleep" /\ mutex' = "free"
  /\ UNCHANGED <<io, call, job, toClose, tableVars, thread, cancelled, childVars, history>>

SpuriousWakeUp ==
  /\ SpuriousWakeUps /\ master = "asleep" /\ master' = "woken"
  /\ UNCHANGED <<mutex, io, call, job, toClose, tableVars, thread, cancelled, childVars, history>>

(* pthread_cond_wait takes the mutex again, which the call then leaves.    *)
Return ==
  /\ master = "woken" /\ mutex = "free"
  /\ master' = IF call = "close" THEN "closing" ELSE "idle"
  /\ toClose' = toClose \ {job}
  /\ UNCHANGED <<mutex, io, call, job, tableVars, thread, cancelled, childVars, history>>

(* pthread_cancel then the wait, the mutex left at once.                   *)
CancelAndWait(j, c) ==
  /\ cancelled' = [cancelled EXCEPT ![j] = TRUE]
  /\ master' = "asleep" /\ call' = c /\ job' = j

(* deleteJob does nothing but a message for a job that is over, and throws *)
(* for one the table does not have.                                        *)
Delete(j) ==
  /\ "delete" \in Calls /\ master = "idle" /\ mutex = "free"
  /\ state[j] \notin Final \cup {"absent"}
  /\ CancelAndWait(j, "delete")
  /\ UNCHANGED <<mutex, io, toClose, tableVars, thread, childVars, history>>

(* holdJob and releaseJob queue a command for the thread.                  *)
Command(j) ==
  /\ "hold" \in Calls /\ master = "idle" /\ io = "free" /\ mutex = "free"
  /\ state[j] # "absent" /\ commands < MaxCommands
  /\ \E c \in {"HOLD", "RELEASE"} :
       /\ queue' = [queue EXCEPT ![j] = Append(@, c)]
       /\ lastCommand' = [lastCommand EXCEPT ![j] = c]
  /\ commands' = commands + 1
  /\ UNCHANGED <<mutex, io, masterVars, state, hasFailed, thread, cancelled, childVars>>

(* isRunning makes an entry for a job the table does not have.             *)
IsRunning(j) ==
  /\ "isRunning" \in Calls /\ master = "idle" /\ mutex = "free"
  /\ state[j] = "absent"
  /\ state' = [state EXCEPT ![j] = "blank"]
  /\ UNCHANGED <<mutex, io, masterVars, queue, hasFailed, thread, cancelled, childVars, history>>

(* The destructor cancels the jobs that are not over, one after the other. *)
Close ==
  /\ "close" \in Calls /\ master = "idle"
  /\ master' = "closing" /\ toClose' = {j \in Jobs : state[j] # "absent"}
  /\ UNCHANGED <<mutex, io, call, job, tableVars, thread, cancelled, childVars, history>>

CloseJob(j) ==
  /\ master = "closing" /\ j \in toClose /\ mutex = "free"
  /\ IF state[j] \in Final
       THEN toClose' = toClose \ {j} /\ UNCHANGED <<mutex, master, job>>
       ELSE mutex' = "master" /\ master' = "cancelling" /\ job' = j /\ UNCHANGED toClose
  /\ UNCHANGED <<io, call, tableVars, thread, cancelled, childVars, history>>

CloseCancels_NoWait ==
  /\ master = "cancelling" /\ io = "free"
  /\ cancelled' = [cancelled EXCEPT ![job] = TRUE]
  /\ master' = "woken" /\ call' = "close"
  /\ mutex' = "free"
  /\ UNCHANGED <<io, job, toClose, tableVars, thread, childVars, history>>

CloseCancels ==
  /\ master = "cancelling" /\ io = "free"
  /\ CancelAndWait(job, "close")
  /\ mutex' = "free"
  /\ UNCHANGED <<io, toClose, tableVars, thread, childVars, history>>

Closed ==
  /\ master = "closing" /\ toClose = {}
  /\ master' = "closed"
  /\ UNCHANGED <<mutex, io, call, job, toClose, tableVars, thread, cancelled, childVars, history>>

----------------------------------------------------------------------------
(* The thread of a job                                                     *)

(* When fork fails a message is logged and the thread goes to its end.     *)
Fork(j) ==
  /\ thread[j] = "born"
  /\ \/ /\ child' = [child EXCEPT ![j] = "running"]
        /\ Goes(j, "registering")
     \/ /\ ForkFails /\ io = "free" /\ Goes(j, "ending")
        /\ UNCHANGED child
  /\ UNCHANGED <<mutex, io, masterVars, tableVars, cancelled, pending, elapsed, signalled, history>>

(* The entry of the job, written without the mutex, then the signal.       *)
Register(j) ==
  /\ thread[j] = "registering"
  /\ state' = [state EXCEPT ![j] = "RUNNING"]
  /\ queue' = [queue EXCEPT ![j] = Append(@, "NOP")]
  /\ hasFailed' = [hasFailed EXCEPT ![j] = FALSE]
  /\ Goes(j, "unlocking")
  /\ UNCHANGED <<mutex, io, masterVars, cancelled, childVars, history>>

UnlockMaster(j) ==
  /\ thread[j] = "unlocking"
  /\ Signal /\ Goes(j, "watching")
  /\ UNCHANGED <<mutex, io, call, job, toClose, tableVars, cancelled, childVars, history>>

(* waitpid, and pthread_testcancel if the process is still there.          *)
Watch(j) ==
  /\ thread[j] = "watching" /\ ~cancelled[j]
  /\ IF child[j] \in Alive
       THEN Goes(j, "timing") /\ UNCHANGED child
       ELSE /\ Goes(j, "seen")
            /\ child' = [child EXCEPT ![j] = IF @ = "over" THEN "reaped" ELSE @]
  /\ UNCHANGED <<mutex, io, masterVars, tableVars, cancelled, pending, elapsed, signalled, history>>

(* The end of the process is logged, and the loop left.                    *)
Seen(j) ==
  /\ thread[j] = "seen" /\ ~cancelled[j] /\ io = "free"
  /\ child[j] = "vanished" => mutex = "free"
  /\ hasFailed' = [hasFailed EXCEPT ![j] = @ \/ child[j] = "vanished"]
  /\ Goes(j, "ending")
  /\ UNCHANGED <<mutex, io, masterVars, state, queue, cancelled, childVars, history>>

(* The wall clock: beyond the time asked for a TERM is queued, ten per     *)
(* cent later a KILL.                                                      *)
Late(j) == MaxWallTime > 0 /\ elapsed[j] > MaxWallTime

CheckTime_TermOnly(j) ==
  /\ thread[j] = "timing"
  /\ Goes(j, "queueing")
  /\ IF Late(j)
       THEN /\ ~cancelled[j] /\ io = "free" /\ mutex = "free"
            /\ queue' = [queue EXCEPT ![j] = Append(@, "TERM")]
       ELSE UNCHANGED queue
  /\ UNCHANGED <<mutex, io, masterVars, state, hasFailed, cancelled, childVars, history>>

CheckTime(j) ==
  /\ thread[j] = "timing"
  /\ Goes(j, "queueing")
  /\ IF Late(j)
       THEN /\ ~cancelled[j] /\ io = "free" /\ mutex = "free"
            /\ queue' = [queue EXCEPT ![j] = Append(@, IF elapsed[j] > KillTime THEN "KILL" ELSE "TERM")]
       ELSE UNCHANGED queue
  /\ UNCHANGED <<mutex, io, masterVars, state, hasFailed, cancelled, childVars, history>>

(* The commands, one after the other, each logged before it is done, with  *)
(* the mutex held all along.                                               *)
LockQueue(j) ==
  /\ thread[j] = "queueing" /\ mutex = "free"
  /\ mutex' = j /\ Goes(j, "draining")
  /\ UNCHANGED <<io, masterVars, tableVars, cancelled, childVars, history>>

Execute(j) ==
  /\ thread[j] = "draining" /\ queue[j] # <<>> /\ ~cancelled[j] /\ io = "free"
  /\ queue' = [queue EXCEPT ![j] = Tail(@)]
  /\ Sent(j, Head(queue[j]))
  /\ UNCHANGED <<mutex, io, masterVars, state, hasFailed, thread, cancelled, elapsed, history>>

UnlockQueue(j) ==
  /\ thread[j] = "draining" /\ queue[j] = <<>>
  /\ mutex' = "free" /\ Goes(j, "sleeping")
  /\ UNCHANGED <<io, masterVars, tableVars, cancelled, childVars, history>>

Sleep(j) ==
  /\ thread[j] = "sleeping" /\ ~cancelled[j]
  /\ Goes(j, "watching")
  /\ UNCHANGED <<mutex, io, masterVars, tableVars, cancelled, childVars, history>>

(* The end: the state is set and the handlers removed under the mutex, the *)
(* message is logged without them.                                         *)
End(j) ==
  /\ thread[j] = "ending" /\ mutex = "free"
  /\ state' = [state EXCEPT ![j] = IF hasFailed[j] THEN "FAILED" ELSE "FINISHED"]
  /\ Goes(j, "leaving")
  /\ UNCHANGED <<mutex, io, masterVars, queue, hasFailed, cancelled, childVars, history>>

Leave(j) ==
  /\ thread[j] = "leaving" /\ io = "free"
  /\ io' = IF cancelled[j] THEN "lost" ELSE io
  /\ Goes(j, "gone")
  /\ UNCHANGED <<mutex, masterVars, tableVars, cancelled, childVars, history>>

----------------------------------------------------------------------------
(* Cancellation                                                            *)

(* In waitpid, pthread_testcancel or sleep.                                *)
CancelPoint(j) ==
  /\ cancelled[j] /\ thread[j] \in {"watching", "sleeping"}
  /\ Goes(j, "killing")
  /\ UNCHANGED <<mutex, io, masterVars, tableVars, cancelled, childVars, history>>

(* In a message: IOMutex is never released.                                *)
CancelInLog(j) ==
  /\ cancelled[j] /\ io = "free"
  /\ \/ thread[j] = "seen"
     \/ thread[j] = "timing" /\ Late(j)
     \/ thread[j] = "draining" /\ queue[j] # <<>>
  /\ io' = "lost" /\ Goes(j, "killing")
  /\ UNCHANGED <<mutex, masterVars, tableVars, cancelled, childVars, history>>

(* The handlers: kill_child_on_exit, then setFailedOnCancel.               *)
KillChild_TellsFirst(j) ==
  /\ thread[j] = "killing"
  /\ Sent(j, "TERM") /\ Signal /\ Goes(j, "failing")
  /\ UNCHANGED <<mutex, io, call, job, toClose, tableVars, cancelled, elapsed, history>>

KillChild(j) ==
  /\ thread[j] = "killing"
  /\ Sent(j, "TERM") /\ Goes(j, "failing")
  /\ UNCHANGED <<mutex, io, masterVars, tableVars, cancelled, elapsed, history>>

SetFailed(j) ==
  /\ thread[j] = "failing" /\ mutex = "free"
  /\ state' = [state EXCEPT ![j] = "FAILED"]
  /\ Goes(j, "telling")
  /\ UNCHANGED <<mutex, io, masterVars, queue, hasFailed, cancelled, childVars, history>>

Tell(j) ==
  /\ thread[j] = "telling"
  /\ Signal /\ Goes(j, "gone")
  /\ UNCHANGED <<mutex, io, call, job, toClose, tableVars, cancelled, childVars, history>>

----------------------------------------------------------------------------
(* The process                                                             *)

ChildEnds(j) ==
  /\ child[j] = "running"
  /\ \E how \in {"over"} \cup (IF Vanishes THEN {"vanished"} ELSE {}) :
       child' = [child EXCEPT ![j] = how]
  /\ UNCHANGED <<mutex, io, masterVars, tableVars, thread, cancelled, pending, elapsed, signalled, history>>

Minute(j) ==
  /\ MaxWallTime > 0 /\ child[j] \in Alive /\ elapsed[j] < MaxMinutes
  /\ elapsed' = [elapsed EXCEPT ![j] = @ + 1]
  /\ UNCHANGED <<mutex, io, masterVars, tableVars, thread, cancelled, child, pending, signalled, history>>

Thread(j) ==
  \/ Fork(j) \/ Register(j) \/ UnlockMaster(j) \/ Watch(j) \/ Seen(j)
  \/ CheckTime(j) \/ LockQueue(j) \/ Execute(j) \/ UnlockQueue(j) \/ Sleep(j)
  \/ End(j) \/ Leave(j)
  \/ CancelPoint(j) \/ CancelInLog(j) \/ KillChild(j) \/ SetFailed(j) \/ Tell(j)

Master ==
  \/ WaitForThread \/ Return \/ CloseCancels \/ Closed
  \/ \E j \in Jobs : CloseJob(j)

Next ==
  \/ Master \/ SpuriousWakeUp \/ Close
  \/ \E j \in Jobs :
       \/ Submit(j) \/ Delete(j) \/ Command(j) \/ IsRunning(j)
       \/ Thread(j) \/ ChildEnds(j) \/ Minute(j)

Spec == Init /\ [][Next]_vars

(* Threads and calls under way go on.  One that waits for a mutex gets it: *)
(* its owners hold it for a moment, then sleep for a second.  Nothing      *)
(* obliges a process to end, nor the master to call.                       *)
FairBatch == Spec /\ SF_vars(Master) /\ \A j \in Jobs : SF_vars(Thread(j))

----------------------------------------------------------------------------
(* Properties                                                              *)

(* The types; the mutex is with the master or a thread in its section.     *)
BatTypeOK ==
  /\ mutex \in Jobs \cup {"free", "master"} /\ io \in {"free", "lost"}
  /\ master \in {"idle", "creating", "asleep", "woken", "closing", "cancelling", "closed"}
  /\ call \in {"none", "submit", "delete", "close"} /\ job \in Jobs /\ toClose \subseteq Jobs
  /\ thread \in [Jobs -> {"none", "born", "registering", "unlocking", "watching", "seen", "timing",
                         "queueing", "draining", "sleeping", "ending", "leaving", "gone",
                         "killing", "failing", "telling"}]
  /\ commands \in Nat /\ lastCommand \in [Jobs -> {"none", "HOLD", "RELEASE"}]
  /\ state \in [Jobs -> {"absent", "blank", "RUNNING"} \cup Final]
  /\ queue \in [Jobs -> Seq({"NOP", "HOLD", "RELEASE", "TERM", "KILL"})]
  /\ hasFailed \in [Jobs -> BOOLEAN] /\ cancelled \in [Jobs -> BOOLEAN] /\ pending \in [Jobs -> BOOLEAN]
  /\ child \in [Jobs -> Alive \cup {"none", "over", "vanished", "reaped"}]
  /\ elapsed \in [Jobs -> 0 .. MaxMinutes] /\ signalled \in [Jobs -> SUBSET {"TERM", "KILL"}]
  /\ (mutex = "master") <=> (master \in {"creating", "cancelling"})
  /\ \A j \in Jobs : thread[j] = "draining" => mutex = j

(* The state a job ends in is the one it keeps: a thread that ends by      *)
(* itself while it is being cancelled does not fail afterwards.            *)
FinalStays == [][\A j \in Jobs : state[j] \in Final => state'[j] = state[j]]_vars

(* Commands are executed in the order of the calls: once the queue is      *)
(* empty the process is stopped if and only if the last call was holdJob.  *)
LastCommandWins ==
  \A j \in Jobs :
    (state[j] = "RUNNING" /\ queue[j] = <<>> /\ child[j] \in Alive) =>
      (child[j] = "stopped" <=> lastCommand[j] = "HOLD")

(* A job whose process is over is seen as over by those who poll its       *)
(* state, as waitForJobEnd does.                                           *)
JobEnds == \A j \in Jobs : (child[j] \in {"over", "vanished"}) ~> (state[j] \in Final)

(* No thread is cancelled after it has left.                               *)
CancelsLiving ==
  [][\A j \in Jobs : (cancelled'[j] /\ ~cancelled[j]) => (thread[j] \notin {"none", "gone"})]_vars

(* When deleteJob has returned the job has an end.                         *)
DeletedIsOver == \A j \in Jobs : (master = "idle" /\ cancelled[j]) => state[j] \in Final

(* No thread uses the manager once it is destroyed.                        *)
NothingUsesDestroyed == master = "closed" => \A j \in Jobs : thread[j] \in {"none", "leaving", "gone"}

(* A process that goes beyond its time ends, even if it is on hold.        *)
LateEnds == \A j \in Jobs : (elapsed[j] > KillTime) ~> (child[j] \notin Alive)

=============================================================================
