------------------------------ MODULE JobTable ------------------------------
(***************************************************************************)
(* What SalomeLauncher promises to its clients: a table of jobs, each with *)
(* a number and a state.  The launcher (module Launcher) is shown to       *)
(* implement it, and the job manager (module JobsManager) is built on it.  *)
(***************************************************************************)
EXTENDS Integers

CONSTANT MaxJobs   \* bound on _job_cpt
ASSUME JobTableAssumption == MaxJobs \in Nat

VARIABLES
  table,     \* state of each job of _launcher_job_map, "none" for the others
  counter    \* _job_cpt

tableVars == <<table, counter>>

Numbers == 0 .. MaxJobs - 1
Alive == {"QUEUED", "RUNNING"}
Final == {"FINISHED", "FAILED", "ERROR"}
States == {"CREATED"} \cup Alive \cup Final

TableInit == table = [n \in Numbers |-> "none"] /\ counter = 0

(* createJob gives the next number, also for a job that is loaded with the *)
(* state it had, or as one that cannot be followed.                        *)
TableAdd(s) ==
  /\ counter < MaxJobs /\ counter' = counter + 1
  /\ table' = [table EXCEPT ![counter] = s]

(* launchJob takes a job that is created and no other; without a resource  *)
(* the job is in error.                                                    *)
TableLaunch(n, s) ==
  /\ table[n] = "CREATED" /\ s \in {"QUEUED", "ERROR"}
  /\ table' = [table EXCEPT ![n] = s] /\ UNCHANGED counter

(* What getJobState may answer for a job in state s: the batch system does *)
(* not put a job that runs back into its queue.                            *)
Polled(s) == IF s \in Alive THEN {s, "RUNNING", "FINISHED", "FAILED"} ELSE {s}

TablePoll(n) ==
  /\ \E s \in Polled(table[n]) : table' = [table EXCEPT ![n] = s]
  /\ UNCHANGED counter

TableStop(n) ==
  /\ table[n] # "none" /\ table' = [table EXCEPT ![n] = "FAILED"]
  /\ UNCHANGED counter

TableRemove(n) ==
  /\ table[n] # "none" /\ table' = [table EXCEPT ![n] = "none"]
  /\ UNCHANGED counter

(* Jobs are loaded together; some of them may be left out.                 *)
TableLoad ==
  /\ counter' \in counter .. MaxJobs
  /\ table' \in [Numbers -> States \cup {"none"}]
  /\ \A n \in Numbers \ (counter .. counter' - 1) : table'[n] = table[n]

(* A launcher that starts again has no jobs.                               *)
TableRestart == table' = [n \in Numbers |-> "none"] /\ counter' = 0

TableNext ==
  \/ TableAdd("CREATED") \/ TableLoad \/ TableRestart
  \/ \E n \in Numbers :
       \/ \E s \in {"QUEUED", "ERROR"} : TableLaunch(n, s)
       \/ TablePoll(n) \/ TableStop(n) \/ TableRemove(n)

TableSpec == TableInit /\ [][TableNext]_tableVars

=============================================================================
