----------------------------- MODULE LocalBatchMC -----------------------------
(***************************************************************************)
(* The uses of the local batch manager the run of LocalBatch checks,       *)
(* chosen at the start:                                                    *)
(*   "cancel"   the constants of the .cfg: two jobs, submitted, held,      *)
(*              deleted, and the manager destroyed;                        *)
(*   "late"     one job with a MAXWALLTIME, held and released, polled; its *)
(*              process may vanish, and the master wake up by itself.      *)
(***************************************************************************)
EXTENDS LocalBatch

CONSTANTS j1, j2
VARIABLE scene

Timed == INSTANCE LocalBatch WITH
  Calls <- {"hold", "isRunning"}, MaxWallTime <- 2,
  ForkFails <- FALSE, Vanishes <- TRUE, SpuriousWakeUps <- TRUE

all == <<vars, scene>>

SceneInit  == Init /\ scene \in {"cancel", "late"}
CancelStep == scene = "cancel" /\ Next /\ UNCHANGED scene
LateStep   == scene = "late" /\ Timed!Next /\ thread'[j2] = "none" /\ UNCHANGED scene
SceneNext  == CancelStep \/ LateStep

\* The fairness of FairBatch, for the thread of the late job and the master.
LateMaster == scene = "late" /\ Timed!Master /\ UNCHANGED scene
LateThread == scene = "late" /\ Timed!Thread(j1) /\ UNCHANGED scene
SceneSpec  == SceneInit /\ [][SceneNext]_all /\ SF_all(LateMaster) /\ SF_all(LateThread)

\* The manager of the .cfg alone, with the fairness of FairBatch.
CancelSpec ==
  /\ Init /\ scene = "cancel" /\ [][CancelStep]_all
  /\ SF_all(CancelStep /\ Master) /\ \A j \in Jobs : SF_all(CancelStep /\ Thread(j))

\* A process that goes beyond its time ends, even if it is on hold (checkTime), and
\* whatever becomes of a process, those who poll the job see its end.
LateJobEnds == scene = "late" => Timed!LateEnds /\ JobEnds
=============================================================================
