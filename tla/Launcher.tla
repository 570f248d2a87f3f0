------------------------------ MODULE Launcher ------------------------------
(***************************************************************************)
(* SalomeLauncher (Launcher_cpp) over a batch system: jobs are created,    *)
(* launched, polled, stopped, removed, saved to a file and loaded again by *)
(* a later session.  Requests are handled by the threads of the ORB, one   *)
(* per client: launchJob is split where it leaves for the batch system.    *)
(***************************************************************************)
EXTENDS JobTable, Sequences, FiniteSets

CONSTANTS
  Clients,       \* requests of launchJob that may be under way together
  Overlap,       \* are other requests handled while one is under way?
  MaxBatch,      \* bound on the jobs given to the batch system
  MaxSessions,   \* bound on the sessions of the launcher
  Resumes,       \* can the batch manager follow a job it did not submit?
  Faults         \* what may go wrong

ASSUME LauncherAssumption ==
  /\ MaxBatch \in Nat /\ MaxSessions \in Nat /\ Resumes \in BOOLEAN /\ Overlap \in BOOLEAN
  /\ Faults \subseteq {"resource", "submit", "delete"}

VARIABLES
  reference,  \* of _batch_job_id, 0 when it is "undefined"
  managers,   \* numbers that have an entry in _batchmap
  request,    \* launchJob under way for each client
  batch,      \* the jobs of the batch system
  submitted,  \* how many it has been given
  file,       \* what saveJobs wrote
  session,
  followed,   \* history: batch jobs this session has to follow
  stopped,    \* history: jobs stopped in this session
  owner       \* history: the job of this session a batch job was submitted for

launcherVars == <<tableVars, reference, managers, request, batch, submitted, file, session, followed, stopped, owner>>
history == <<followed, stopped, owner>>

Refs == 1 .. MaxBatch
Idle == [at |-> "idle", job |-> 0, ref |-> 0]

LauncherInit ==
  /\ TableInit
  /\ reference = [n \in Numbers |-> 0] /\ managers = {} /\ request = [c \in Clients |-> Idle]
  /\ batch = [r \in Refs |-> "none"] /\ submitted = 0 /\ file = <<>> /\ session = 1
  /\ followed = {} /\ stopped = {} /\ owner = [r \in Refs |-> -1]

(* Whether the ORB hands over another request.                             *)
Free == Overlap \/ \A c \in Clients : request[c] = Idle

CreateJob ==
  /\ Free /\ TableAdd("CREATED")
  /\ UNCHANGED <<reference, managers, request, batch, submitted, file, session, history>>

(* The check of launchJob, and the choice of a resource.                   *)
LaunchJob_AnyState(c, n) ==
  /\ Free /\ request[c] = Idle /\ table[n] # "none"
  /\ managers' = managers \cup {n}
  /\ request' = [request EXCEPT ![c] = [at |-> "submitting", job |-> n, ref |-> 0]]
  /\ UNCHANGED <<tableVars, reference, batch, submitted, file, session, history>>

LaunchJob(c, n) ==
  /\ Free /\ request[c] = Idle /\ table[n] = "CREATED"
  /\ \/ /\ managers' = managers \cup {n}
        /\ request' = [request EXCEPT ![c] = [at |-> "submitting", job |-> n, ref |-> 0]]
        /\ UNCHANGED tableVars
     \/ /\ "resource" \in Faults /\ n \notin managers
        /\ TableLaunch(n, "ERROR") /\ UNCHANGED <<managers, request>>
  /\ UNCHANGED <<reference, batch, submitted, file, session, history>>

(* submitJob of the batch manager; when it throws nothing changes.         *)
SubmitJob(c) ==
  /\ request[c].at = "submitting"
  /\ \/ /\ submitted < MaxBatch /\ submitted' = submitted + 1
        /\ batch' = [batch EXCEPT ![submitted + 1] = "QUEUED"]
        /\ request' = [request EXCEPT ![c] = [at |-> "submitted", job |-> @.job, ref |-> submitted + 1]]
        /\ owner' = [owner EXCEPT ![submitted + 1] = request[c].job]
     \/ /\ "submit" \in Faults
        /\ request' = [request EXCEPT ![c] = Idle]
        /\ UNCHANGED <<batch, submitted, owner>>
  /\ UNCHANGED <<tableVars, reference, managers, file, session, followed, stopped>>

(* The job, if it is still there, takes the reference and its state.       *)
Launched(c) ==
  LET n == request[c].job
      r == request[c].ref
      there == table[n] # "none"
  IN /\ request[c].at = "submitted"
     /\ request' = [request EXCEPT ![c] = Idle]
     /\ table' = [table EXCEPT ![n] = IF there THEN "QUEUED" ELSE @]
     /\ reference' = [reference EXCEPT ![n] = IF there THEN r ELSE @]
     /\ followed' = IF there THEN followed \cup {r} ELSE followed
     /\ UNCHANGED <<counter, managers, batch, submitted, file, session, stopped, owner>>

(* A job that is over is asked about again.                                *)
GetJobState_Again(n) ==
  /\ Free /\ table[n] # "none" /\ reference[n] # 0
  /\ table' = [table EXCEPT ![n] = batch[reference[n]]]
  /\ UNCHANGED <<counter, reference, managers, request, batch, submitted, file, session, history>>

(* Only a queued job is asked about.                                       *)
GetJobState_Once(n) ==
  /\ Free /\ table[n] = "QUEUED" /\ reference[n] # 0
  /\ table' = [table EXCEPT ![n] = batch[reference[n]]]
  /\ UNCHANGED <<counter, reference, managers, request, batch, submitted, file, session, history>>

(* getJobState asks the batch system about a job that is not over.         *)
GetJobState(n) ==
  /\ Free /\ table[n] \notin Final \cup {"none"} /\ reference[n] # 0
  /\ table' = [table EXCEPT ![n] = batch[reference[n]]]
  /\ UNCHANGED <<counter, reference, managers, request, batch, submitted, file, session, history>>

(* deleteJob of the batch manager; what it throws is only logged.          *)
DeleteBatchJob(n) ==
  LET r == reference[n] IN
    \/ /\ r # 0 /\ batch[r] \in Alive
       /\ batch' = [batch EXCEPT ![r] = "FAILED"]
    \/ /\ r = 0 \/ (r # 0 /\ (batch[r] \notin Alive \/ "delete" \in Faults))
       /\ UNCHANGED batch

StopJob(n) ==
  /\ Free /\ TableStop(n) /\ DeleteBatchJob(n)
  /\ stopped' = stopped \cup {n}
  /\ UNCHANGED <<reference, managers, request, submitted, file, session, followed, owner>>

RemoveJob(n) ==
  /\ Free /\ TableRemove(n) /\ DeleteBatchJob(n)
  /\ reference' = [reference EXCEPT ![n] = 0]
  /\ followed' = followed \ {reference[n]}
  /\ stopped' = stopped \ {n}
  /\ UNCHANGED <<managers, request, submitted, file, session, owner>>

(* saveJobs writes the state last seen and the reference of every job, in  *)
(* the order of the map.                                                   *)
SaveJobs ==
  LET saved == {n \in Numbers : table[n] # "none"} IN
    /\ Free
    /\ \E order \in [1 .. Cardinality(saved) -> saved] :
         /\ \A i, j \in DOMAIN order : i < j => order[i] < order[j]
         /\ file' = [i \in DOMAIN order |-> [state |-> table[order[i]], ref |-> reference[order[i]]]]
    /\ UNCHANGED <<tableVars, reference, managers, request, batch, submitted, session, history>>

(* The launcher ends, in whatever it was doing, and another one starts.    *)
Restart ==
  /\ session < MaxSessions /\ session' = session + 1
  /\ TableRestart
  /\ reference' = [n \in Numbers |-> 0] /\ managers' = {} /\ request' = [c \in Clients |-> Idle]
  /\ followed' = {} /\ stopped' = {} /\ owner' = [r \in Refs |-> -1]
  /\ UNCHANGED <<batch, submitted, file>>

(* The state of a job that is loaded: a batch manager that cannot resume   *)
(* gives no reference, and the job is in error unless it was over.         *)
LoadedState(job) == IF job.state \in Alive /\ ~Resumes THEN "ERROR" ELSE job.state

(* loadJobs; a job that was launched is left out when no resource fits.    *)
LoadJobs ==
  LET Job(n) == file[n - counter + 1]
      loaded == counter .. counter + Len(file) - 1
      launched == {n \in loaded : Job(n).state # "CREATED"}
  IN /\ Free /\ file # <<>> /\ counter + Len(file) <= MaxJobs
     /\ counter' = counter + Len(file)
     /\ \E lost \in SUBSET (IF "resource" \in Faults THEN launched ELSE {}) :
          /\ table' = [n \in Numbers |->
               IF n \in lost THEN "none" ELSE IF n \in loaded THEN LoadedState(Job(n)) ELSE table[n]]
          /\ reference' = [n \in Numbers |->
               IF n \in launched \ lost /\ Resumes THEN Job(n).ref ELSE reference[n]]
          /\ managers' = managers \cup (launched \ lost)
     /\ followed' = followed \cup (IF Resumes THEN {Job(n).ref : n \in launched} \ {0} ELSE {})
     /\ UNCHANGED <<request, batch, submitted, file, session, stopped, owner>>

(* The batch system runs its jobs.                                         *)
BatchStep(r) ==
  /\ \/ batch[r] = "QUEUED" /\ \E s \in {"RUNNING", "FINISHED", "FAILED"} : batch' = [batch EXCEPT ![r] = s]
     \/ batch[r] = "RUNNING" /\ \E s \in {"FINISHED", "FAILED"} : batch' = [batch EXCEPT ![r] = s]
  /\ UNCHANGED <<tableVars, reference, managers, request, submitted, file, session, history>>

LauncherNext ==
  \/ CreateJob \/ SaveJobs \/ Restart \/ LoadJobs
  \/ \E c \in Clients : SubmitJob(c) \/ Launched(c) \/ \E n \in Numbers : LaunchJob(c, n)
  \/ \E n \in Numbers : GetJobState(n) \/ StopJob(n) \/ RemoveJob(n)
  \/ \E r \in Refs : BatchStep(r)

LauncherSpec == LauncherInit /\ [][LauncherNext]_launcherVars

(* A request that is under way goes on, and the clients keep polling: a     *)
(* poll waits for the request under way, in a queue where each has its turn. *)
FairLauncher ==
  /\ LauncherSpec
  /\ \A c \in Clients : WF_launcherVars(SubmitJob(c)) /\ WF_launcherVars(Launched(c))
  /\ \A n \in Numbers : SF_launcherVars(GetJobState(n))

----------------------------------------------------------------------------
(* Properties                                                              *)

SavedJob   == [state : States, ref : 0 .. MaxBatch]
LaunchCall == [at : {"submitting"}, job : Numbers, ref : {0}] \cup
              [at : {"submitted"}, job : Numbers, ref : Refs]

(* The types of the table, of the requests and of the batch system.        *)
LauTypeOK ==
  /\ table \in [Numbers -> States \cup {"none"}] /\ counter \in 0 .. MaxJobs
  /\ reference \in [Numbers -> 0 .. MaxBatch] /\ managers \subseteq Numbers
  /\ request \in [Clients -> {Idle} \cup LaunchCall]
  /\ batch \in [Refs -> Alive \cup {"none", "FINISHED", "FAILED"}] /\ submitted \in 0 .. MaxBatch
  /\ file \in Seq(SavedJob)
  /\ followed \subseteq Refs /\ stopped \subseteq Numbers /\ owner \in [Refs -> Numbers \cup {-1}]
  /\ \A n \in Numbers : n >= counter => (table[n] = "none" /\ reference[n] = 0)

StillLaunching(r) == \E c \in Clients : request[c].at = "submitted" /\ request[c].ref = r

(* launchJob takes again a job that was given to the batch system only      *)
(* while the request that gave it has still to change its state: two        *)
(* requests must overlap for a session to run a job twice.                  *)
SubmittedOnce ==
  [][\A c \in Clients, r \in Refs :
       request[c] = Idle /\ request'[c].at = "submitting" /\ request'[c].job = owner[r]
         => StillLaunching(r)]_launcherVars

(* A job shown as queued or running has a batch job that will tell when it *)
(* is over, after a restart too.                                           *)
AliveIsFollowed ==
  \A n \in Numbers : table[n] \in Alive => (reference[n] # 0 /\ batch[reference[n]] # "none")

(* A job shown as finished is over in the batch system.                    *)
FinishedIsOver ==
  \A n \in Numbers : (table[n] = "FINISHED" /\ reference[n] # 0) => batch[reference[n]] \notin Alive

(* The jobs this session has launched or loaded, and not removed, are in   *)
(* the table with their references.                                        *)
StillFollowed == \A r \in followed : \E n \in Numbers : table[n] # "none" /\ reference[n] = r

(* IDL: stopJob kills the job.                                             *)
StoppedIsOver ==
  \A n \in stopped : reference[n] # 0 => batch[reference[n]] \notin Alive

(* IDL: stopJob sets the state to FAILED: the job is not launched again.   *)
StopIsFinal == \A n \in stopped : table[n] = "FAILED"

(* The end of a job is seen by those who poll it, unless another launch of  *)
(* the job has put its own batch job in the place of the one that is over.  *)
EndIsSeen ==
  \A n \in Numbers, r \in Refs :
    (table[n] # "none" /\ reference[n] = r /\ batch[r] \in {"FINISHED", "FAILED"})
      ~> (table[n] \in Final \cup {"none"} \/ reference[n] # r)

(* The end of a launch whose job another request has launched, polled or    *)
(* stopped since its state was tested: it is queued whatever it has become. *)
Overtaken ==
  \E c \in Clients :
    /\ request[c].at = "submitted" /\ table[request[c].job] # "CREATED"
    /\ table' = [table EXCEPT ![request[c].job] = "QUEUED"] /\ UNCHANGED counter

(* The launcher is the table its clients know, but for overtaken launches.  *)
ImplementsTable == TableInit /\ [][TableNext \/ Overtaken]_tableVars

=============================================================================
