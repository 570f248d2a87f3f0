--------------------------- MODULE AlternateThread ---------------------------
(***************************************************************************)
(* YACS: AlternateThreadPT, a master and a slave thread that never run     *)
(* together.  One mutex is handed over with one condition variable: each   *)
(* thread signals the other and waits, and nothing tells a signal from a   *)
(* spurious wake-up.                                                       *)
(***************************************************************************)
EXTENDS FiniteSets

CONSTANT SpuriousWakeUps     \* pthread_cond_wait may return without a signal

ASSUME SpuriousAssumption == SpuriousWakeUps \in BOOLEAN

VARIABLES mutex,        \* _pingPongMutex: the thread that runs under it, or "none"
          waiting,      \* threads in pthread_cond_wait that are not signalled yet
          status,       \* _threadStatus
          master,       \* where the master is in the methods of the class
          slave,        \* where the slave is
          cancelled     \* pthread_cancel was called

altVars == <<mutex, waiting, status, master, slave, cancelled>>

Thread == {"master", "slave"}

\* The calls of pthread_cond_wait of the master: in start, in signalSlaveAndWait,
\* and the two of terminateSlaveThread.
Waits == {"started", "resumed", "requested", "cancels"}

AltInit ==
  /\ mutex = "none" /\ waiting = {} /\ status = "UNEXISTING"
  /\ master = "free" /\ slave = "none" /\ cancelled = FALSE

\* pthread_cond_wait: the mutex is released; a signal sent just before it
\* wakes the other thread, if that one waits.
SignalAndWait(t) ==
  /\ mutex' = "none"
  /\ waiting' = {t}

-----------------------------------------------------------------------------
(* The master                                                              *)

\* start: the mutex is taken first, so that the slave cannot signal too early.
StartLocks ==
  /\ master = "free" /\ status = "UNEXISTING" /\ mutex = "none"
  /\ mutex' = "master" /\ master' = "locked"
  /\ UNCHANGED <<waiting, status, slave, cancelled>>

StartCreates ==
  /\ master = "locked" /\ slave = "none"
  /\ slave' = "born"
  /\ UNCHANGED <<mutex, waiting, status, master, cancelled>>

StartWaits ==
  /\ master = "locked" /\ slave # "none"
  /\ SignalAndWait("master")
  /\ master' = "started"
  /\ UNCHANGED <<status, slave, cancelled>>

\* signalSlaveAndWait, which asserts that the slave is there.
SignalSlave ==
  /\ master = "runs" /\ status = "NORMAL_CYCLE"
  /\ SignalAndWait("master")
  /\ master' = "resumed"
  /\ UNCHANGED <<status, slave, cancelled>>

\* terminateSlaveThread, when the slave has ended, and when it has not.
TerminateEnded ==
  /\ master = "runs" /\ status = "READY_TO_JOIN"
  /\ mutex' = "none" /\ master' = "joins"
  /\ UNCHANGED <<waiting, status, slave, cancelled>>

TerminateRequests ==
  /\ master = "runs" /\ status = "NORMAL_CYCLE"
  /\ status' = "TERMINATION_REQUESTED"
  /\ SignalAndWait("master")
  /\ master' = "requested"
  /\ UNCHANGED <<slave, cancelled>>

\* pthread_cond_wait returns: the signal was received and the mutex taken again.
Woken(t) == t \notin waiting /\ mutex = "none"

MasterWakes ==
  /\ master \in {"started", "resumed"} /\ Woken("master")
  /\ mutex' = "master" /\ master' = "runs"
  /\ UNCHANGED <<waiting, status, slave, cancelled>>

\* The slave has ended as it was asked to, or because it was cancelled.
MasterUnlocks ==
  /\ master \in {"requested", "cancels"} /\ Woken("master")
  /\ status = "READY_TO_JOIN"
  /\ master' = "joins"
  /\ UNCHANGED <<mutex, waiting, status, slave, cancelled>>

\* It has not: pthread_cancel, and wait once more.
MasterCancels ==
  /\ master = "requested" /\ Woken("master")
  /\ status # "READY_TO_JOIN"
  /\ cancelled' = TRUE
  /\ waiting' = waiting \cup {"master"} /\ master' = "cancels"
  /\ UNCHANGED <<mutex, status, slave>>

\* "If cancel failed, we can do nothing more, throw an exception".
CancelFailed ==
  master = "cancels" /\ "master" \notin waiting /\ status # "READY_TO_JOIN"

Join ==
  /\ master = "joins" /\ slave = "ended"
  /\ status' = "UNEXISTING" /\ slave' = "none"
  /\ master' = "free" /\ cancelled' = FALSE
  /\ UNCHANGED <<mutex, waiting>>

-----------------------------------------------------------------------------
(* The slave                                                               *)

\* runThread, up to the call of run().
SlaveStarts ==
  /\ slave = "born" /\ mutex = "none"
  /\ mutex' = "slave" /\ status' = "NORMAL_CYCLE" /\ slave' = "runs"
  /\ UNCHANGED <<waiting, master, cancelled>>

\* signalMasterAndWait
SignalMaster ==
  /\ slave = "runs"
  /\ SignalAndWait("slave")
  /\ slave' = "waits"
  /\ UNCHANGED <<status, master, cancelled>>

SlaveWakes ==
  /\ slave = "waits" /\ Woken("slave")
  /\ mutex' = "slave" /\ slave' = "runs"
  /\ UNCHANGED <<waiting, status, master, cancelled>>

\* threadCleanupFct
Cleanup_NoSignal ==
  /\ status' = "READY_TO_JOIN"
  /\ waiting' = waiting \ {"slave"}
  /\ mutex' = "none" /\ slave' = "ended"
  /\ UNCHANGED <<master, cancelled>>

Cleanup ==
  /\ status' = "READY_TO_JOIN"
  /\ waiting' = {}
  /\ mutex' = "none" /\ slave' = "ended"
  /\ UNCHANGED <<master, cancelled>>

\* run() returns, or throws.
SlaveEnds == slave = "runs" /\ Cleanup

\* pthread_cond_wait is a cancellation point: it takes the mutex again first.
SlaveCancelled ==
  /\ slave = "waits" /\ cancelled /\ mutex = "none"
  /\ Cleanup

SpuriousWakeUp(t) ==
  /\ SpuriousWakeUps /\ t \in waiting
  /\ waiting' = waiting \ {t}
  /\ UNCHANGED <<mutex, status, master, slave, cancelled>>

-----------------------------------------------------------------------------
\* What goes on by itself, and what the code that uses the class decides.
AltSteps ==
  \/ StartCreates \/ StartWaits
  \/ MasterWakes \/ MasterUnlocks \/ MasterCancels \/ Join
  \/ SlaveStarts \/ SlaveWakes \/ SlaveCancelled
  \/ \E t \in Thread : SpuriousWakeUp(t)

MasterCalls == StartLocks \/ SignalSlave \/ TerminateEnded \/ TerminateRequests

SlaveCalls == SignalMaster \/ SlaveEnds

AltNext == AltSteps \/ MasterCalls \/ SlaveCalls

AltSpec == AltInit /\ [][AltNext]_altVars

-----------------------------------------------------------------------------
(* Properties                                                              *)

\* The types of the mutex, of the condition and of the two threads.
AltTypeOK ==
  /\ mutex \in Thread \cup {"none"}
  /\ waiting \subseteq Thread
  /\ status \in {"UNEXISTING", "NORMAL_CYCLE", "TERMINATION_REQUESTED", "READY_TO_JOIN"}
  /\ master \in {"free", "locked", "runs", "joins"} \cup Waits
  /\ slave \in {"none", "born", "runs", "waits", "ended"}
  /\ cancelled \in BOOLEAN

\* The two threads never run together, spurious wake-ups or not: while the code
\* of one runs, the other is out of the code they share.
NeverConcurrent == ~ (master \in {"locked", "runs"} /\ slave = "runs")

\* They run in turn: the master runs only once the slave has given the control
\* back and waits for it, or has ended; so a decision the master asks for is made
\* when signalSlaveAndWait returns, and start() returns after a first turn.
Alternation ==
  /\ master = "runs" => slave = "ended" \/ (slave = "waits" /\ "slave" \in waiting)
  /\ slave = "runs" => master \in Waits /\ "master" \in waiting

\* A slave that does not end when it is asked to is cancelled for good.
CancelWorks == ~ CancelFailed
=============================================================================
