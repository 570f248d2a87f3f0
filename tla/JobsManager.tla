---------------------------- MODULE JobsManager -----------------------------
(***************************************************************************)
(* The job manager: BL::JobsManager with its widgets.  It shows the jobs   *)
(* of a launcher that other clients use too.  Buttons and events are       *)
(* handled by the thread of the GUI; starts, stops, refreshes and what the *)
(* launcher notifies are handled by threads of their own, which post       *)
(* events to the GUI.  A mutex protects the map of the jobs, and the GUI   *)
(* reads that map without it.                                              *)
(***************************************************************************)
EXTENDS JobTable, Sequences, SequencesExt, FiniteSets

CONSTANTS
  OwnNames,      \* names the user gives to jobs
  OtherNames,    \* names other clients give, <<>> when they give none
  Others,        \* what other clients do
  Failures,        \* how the creation or the launch of a job may fail
  Impatient,     \* does the user click Start again before it is answered?
  MaxThreads,    \* bound on the threads that run when another one is started
  MaxPosted      \* and on the events that wait

ASSUME JobsManagerAssumption ==
  /\ Others \subseteq {"add", "remove", "stop", "launch", "poll"} /\ Impatient \in BOOLEAN
  /\ Failures \subseteq {"create", "lost", "submit"} /\ MaxThreads \in Nat /\ MaxPosted \in Nat

VARIABLES
  called,    \* names of the jobs of the launcher
  jobs,      \* _jobs: from names to entries
  locked,    \* is _thread_mutex_jobs_map handed over to a thread?
  threads,   \* the threads that run
  posted,    \* events for the GUI
  rows,      \* rows of the model, with the states they show
  pick,      \* _job_name_selected, and the state its buttons are for
  gui,       \* what the thread of the GUI does
  named      \* _name_counter

launcher == <<tableVars, called>>
shown == <<rows, pick>>
jmVars == <<launcher, jobs, locked, threads, posted, shown, gui, named>>

NoName == <<>>
NoPick == [name |-> NoName, state |-> "none"]
GuiIdle == [does |-> "idle", name |-> NoName, how |-> "new", it |-> NoName]
Thread(what, number, name) == [does |-> what, number |-> number, name |-> name]
Event(what, name) == [kind |-> what, name |-> name]

JmInit ==
  /\ TableInit /\ called = [n \in Numbers |-> NoName]
  /\ jobs = [n \in {} |-> NoPick] /\ locked = FALSE /\ threads = EmptyBag /\ posted = <<>>
  /\ rows = <<>> /\ pick = NoPick /\ gui = GuiIdle /\ named = 0

Runs == gui.does # "crashed"
Names == DOMAIN jobs
Known(n) == n \in Names /\ jobs[n].id # -1 /\ table[jobs[n].id] # "none"
RowsOf(n) == {i \in DOMAIN rows : rows[i].name = n}
FirstRow(n) == CHOOSE i \in RowsOf(n) : \A k \in RowsOf(n) : i <= k
Put(n, entry) == jobs' = [x \in Names \cup {n} |-> IF x = n THEN entry ELSE jobs[x]]

(* The threads the launcher's notifications and the manager start.         *)
Spawn(new) == threads' = threads (+) SetToBag(new)
Room == BagCardinality(threads) < MaxThreads /\ Len(posted) < MaxPosted

(* A null or dangling entry is used: the program does not survive.         *)
Crash ==
  /\ gui' = [gui EXCEPT !.does = "crashed"]
  /\ UNCHANGED <<launcher, jobs, locked, threads, posted, shown, named>>

----------------------------------------------------------------------------
(* The thread of the GUI                                                   *)

(* delete_job: the entry, its job in the launcher, and the first row of    *)
(* that name; the current row, if one is left, is selected again.          *)
DeleteJob(n) ==
  /\ ~locked
  /\ jobs' = [x \in Names \ {n} |-> jobs[x]]
  /\ rows' = IF RowsOf(n) = {} THEN rows ELSE RemoveAt(rows, FirstRow(n))
  /\ IF Known(n)
     THEN TableRemove(jobs[n].id) /\ Spawn({Thread("removed", jobs[n].id, NoName)})
     ELSE UNCHANGED <<tableVars, threads>>
  /\ pick' \in
       LET left == {i \in DOMAIN rows' : rows'[i].name \in DOMAIN jobs' /\ pick.name \in {n, rows'[i].name}}
       IN IF left = {} THEN {NoPick}
          ELSE {[name |-> rows'[i].name, state |-> jobs'[rows'[i].name].state] : i \in left}
  /\ UNCHANGED <<called, locked, named>>

Select(i) ==
  /\ gui.does = "idle" /\ rows[i].name \in Names
  /\ pick' = [name |-> rows[i].name, state |-> jobs[rows[i].name].state]
  /\ UNCHANGED <<launcher, jobs, locked, threads, posted, rows, gui, named>>

StartJob ==
  /\ gui.does = "idle" /\ pick.state = "CREATED" /\ Room
  /\ Impatient \/ ~ (\/ BagIn(Thread("start", -1, pick.name), threads)
                     \/ \E i \in DOMAIN posted : posted[i] = Event("state", pick.name))
  /\ Spawn({Thread("start", -1, pick.name)})
  /\ pick' = IF pick.name \in Names THEN [pick EXCEPT !.state = jobs[pick.name].state] ELSE pick
  /\ UNCHANGED <<launcher, jobs, locked, posted, rows, gui, named>>

(* The mutex is taken here and released by the thread.                     *)
StopJobAsked ==
  /\ gui.does = "idle" /\ pick.state \in Alive /\ ~locked /\ Room
  /\ pick.name \in Names
  /\ Spawn({Thread("stop", -1, pick.name)}) /\ locked' = TRUE
  /\ UNCHANGED <<launcher, jobs, posted, shown, gui, named>>

GetResults ==
  /\ gui.does = "idle" /\ pick.state \in Final /\ ~locked /\ Room
  /\ pick.name \in Names /\ jobs[pick.name].state \in Final
  /\ Spawn({Thread("results", -1, pick.name)}) /\ locked' = TRUE
  /\ UNCHANGED <<launcher, jobs, posted, shown, gui, named>>

RefreshJobs ==
  /\ Runs /\ Room /\ ~BagIn(Thread("refresh", -1, NoName), threads)
  /\ Spawn({Thread("refresh", -1, NoName)})
  /\ UNCHANGED <<launcher, jobs, locked, posted, shown, gui, named>>

Delete ==
  /\ gui.does = "idle" /\ pick # NoPick
  /\ DeleteJob(pick.name) /\ UNCHANGED <<posted, gui>>

RestartJob ==
  /\ gui.does = "idle" /\ pick.state \in Final \cup {"NOT_CREATED"} /\ counter < MaxJobs /\ Room
  /\ DeleteJob(pick.name)
  /\ gui' = [GuiIdle EXCEPT !.does = "adding", !.name = pick.name, !.how = "restart"]
  /\ UNCHANGED posted

(* The wizard checks the name once and stays open: events are handled.     *)
OpenWizard(n) ==
  /\ gui.does = "idle" /\ ~locked /\ counter < MaxJobs /\ Room
  /\ \/ n \in OwnNames \ Names /\ gui' = [GuiIdle EXCEPT !.does = "wizard", !.name = n]
     \/ /\ n = pick.name /\ n \in Names /\ jobs[n].state \notin Alive \cup {"FINISHED"}
        /\ gui' = [GuiIdle EXCEPT !.does = "wizard", !.name = n, !.how = "edit"]
  /\ UNCHANGED <<launcher, jobs, locked, threads, posted, shown, named>>

CancelWizard ==
  /\ gui.does = "wizard" /\ gui' = GuiIdle
  /\ UNCHANGED <<launcher, jobs, locked, threads, posted, shown, named>>

FinishWizard ==
  /\ gui.does = "wizard"
  /\ \/ /\ gui.how = "new" /\ gui' = [gui EXCEPT !.does = "adding"]
        /\ UNCHANGED <<launcher, jobs, locked, threads, shown, named>>
     \/ /\ gui.how = "edit" /\ pick # NoPick
        /\ DeleteJob(pick.name) /\ gui' = [gui EXCEPT !.does = "adding"]
  /\ UNCHANGED posted

(* The row of a new job is added and selected, and the job may be started. *)
ShowNew(n, state, new) ==
  /\ rows' = Append(rows, [name |-> n, state |-> state])
  /\ pick' = [name |-> n, state |-> state]
  /\ gui' = GuiIdle
  /\ \E start \in IF gui.how = "restart" THEN {TRUE} ELSE BOOLEAN :
       Spawn(new \cup IF start THEN {Thread("start", -1, n)} ELSE {})

(* createJob and addJobToLauncher; the answer of the launcher may be lost. *)
AddJob ==
  LET n == gui.name
      Created == TableAdd("CREATED") /\ called' = [called EXCEPT ![counter] = n]
      Told == {Thread("new", counter, NoName)}
  IN /\ gui.does = "adding" /\ ~locked /\ n \notin Names
     /\ \/ /\ Created /\ Put(n, [state |-> "CREATED", id |-> counter])
           /\ ShowNew(n, "CREATED", Told)
        \/ /\ \/ "create" \in Failures /\ UNCHANGED <<launcher, threads>>
              \/ "lost" \in Failures /\ Created /\ Spawn(Told)
           /\ Put(n, [state |-> "CREATED", id |-> -1])
           /\ gui' = [gui EXCEPT !.does = "failed", !.it = n]
           /\ UNCHANGED shown
     /\ UNCHANGED <<locked, posted, named>>

(* The state is set without the mutex, through the iterator threads share. *)
SetNotCreated ==
  /\ gui.does = "failed" /\ gui.it \in Names
  /\ jobs' = [jobs EXCEPT ![gui.it].state = "NOT_CREATED"]
  /\ ShowNew(gui.name, jobs'[gui.name].state, {})
  /\ UNCHANGED <<launcher, locked, posted, named>>

(* Events are handled one at a time, in the order they were posted.        *)
HandleEvent ==
  LET n == posted[1].name
      kind == posted[1].kind
  IN /\ gui.does \in {"idle", "wizard"} /\ posted # <<>> /\ posted' = Tail(posted)
     /\ UNCHANGED gui
     /\ \/ kind = "remove" /\ DeleteJob(n)
        \/ /\ kind = "add" /\ n \in Names
           /\ rows' = Append(rows, [name |-> n, state |-> jobs[n].state])
           /\ UNCHANGED <<launcher, jobs, locked, threads, pick, named>>
        \/ /\ kind = "state" /\ n \in Names /\ RowsOf(n) # {}
           /\ rows' = [rows EXCEPT ![FirstRow(n)].state = jobs[n].state]
           /\ pick' = IF pick.name = n THEN [pick EXCEPT !.state = jobs[n].state] ELSE pick
           /\ UNCHANGED <<launcher, jobs, locked, threads, named>>

(* Where the thread of the GUI uses an entry, a row or a selection that is *)
(* not there.                                                              *)
UsesMissing ==
  \/ gui.does = "adding" /\ ~locked /\ gui.name \in Names
  \/ gui.does = "failed" /\ gui.it \notin Names
  \/ gui.does = "wizard" /\ gui.how = "edit" /\ pick = NoPick
  \/ /\ gui.does \in {"idle", "wizard"} /\ posted # <<>>
     /\ posted[1].kind \in {"add", "state"} /\ posted[1].name \notin Names
  \/ gui.does = "idle" /\ \E i \in DOMAIN rows : rows[i].name \notin Names

Fall == UsesMissing /\ Crash

----------------------------------------------------------------------------
(* The threads                                                             *)

Ends(t, new) == threads' = (threads (-) SetToBag({t})) (+) SetToBag(new)

(* launcher_event_new_job: a job that has no entry gets one, under a name  *)
(* that is made different from the names there are.                        *)
NewJob_Again(i) ==
  LET t == Thread("new", i, NoName)
      name == IF called[i] \in Names THEN Append(called[i], named) ELSE called[i]
  IN /\ Runs /\ ~locked /\ BagIn(t, threads) /\ Ends(t, {})
     /\ table[i] # "none" /\ TablePoll(i) /\ Put(name, [state |-> table'[i], id |-> i])
     /\ named' = named + 1 /\ posted' = Append(posted, Event("add", name))
     /\ UNCHANGED <<called, locked, shown, gui>>

NewJob(i) ==
  LET t == Thread("new", i, NoName)
      c == IF called[i] = NoName THEN named + 1 ELSE named
      wanted == IF called[i] = NoName THEN <<"no_name", named>> ELSE called[i]
      name == IF wanted \in Names THEN Append(wanted, c) ELSE wanted
  IN /\ Runs /\ ~locked /\ BagIn(t, threads) /\ Ends(t, {})
     /\ \/ /\ table[i] = "none" \/ \E n \in Names : jobs[n].id = i
           /\ UNCHANGED <<tableVars, jobs, posted, named>>
        \/ /\ table[i] # "none" /\ \A n \in Names : jobs[n].id # i
           /\ TablePoll(i)
           /\ Put(name, [state |-> table'[i], id |-> i])
           /\ named' = IF wanted \in Names THEN c + 1 ELSE c
           /\ posted' = Append(posted, Event("add", name))
     /\ UNCHANGED <<called, locked, shown, gui>>

(* launcher_event_remove_job: the entry loses its number, and the GUI is   *)
(* told the name of what it has to remove.                                 *)
RemovedJob_Forgotten(i) ==
  LET t == Thread("removed", i, NoName) IN
    /\ Runs /\ ~locked /\ BagIn(t, threads) /\ Ends(t, {})
    /\ UNCHANGED <<launcher, jobs, posted, locked, shown, gui, named>>

RemovedJob(i) ==
  LET t == Thread("removed", i, NoName)
      gone == {n \in Names : jobs[n].id = i}
      told == SetToSeq(gone)
  IN /\ Runs /\ ~locked /\ BagIn(t, threads) /\ Ends(t, {})
     /\ jobs' = [n \in Names |-> IF n \in gone THEN [jobs[n] EXCEPT !.id = -1] ELSE jobs[n]]
     /\ posted' = posted \o [k \in DOMAIN told |-> Event("remove", told[k])]
     /\ UNCHANGED <<launcher, locked, shown, gui, named>>

(* starting_job_thread, which moves the shared iterator.                   *)
StartThread(n) ==
  LET t == Thread("start", -1, n)
      ready == Known(n) /\ table[jobs[n].id] = "CREATED"
  IN /\ Runs /\ ~locked /\ BagIn(t, threads) /\ Ends(t, {})
     /\ gui' = IF gui.does = "failed" THEN [gui EXCEPT !.it = IF n \in Names THEN n ELSE NoName] ELSE gui
     /\ \/ n \notin Names /\ UNCHANGED <<tableVars, jobs, posted>>
        \/ /\ ready /\ TableLaunch(jobs[n].id, "QUEUED")
           /\ jobs' = [jobs EXCEPT ![n].state = "QUEUED"]
           /\ posted' = Append(posted, Event("state", n))
        \/ /\ n \in Names /\ (ready => "submit" \in Failures) /\ UNCHANGED tableVars
           /\ jobs' = [jobs EXCEPT ![n].state = "ERROR"]
           /\ posted' = Append(posted, Event("state", n))
     /\ UNCHANGED <<called, locked, shown, named>>

(* stop_job_thread: the launcher tells that the state has changed.         *)
StopThread(n) ==
  LET t == Thread("stop", -1, n) IN
    /\ Runs /\ BagIn(t, threads) /\ locked' = FALSE
    /\ IF Known(n)
       THEN TableStop(jobs[n].id) /\ Ends(t, {Thread("refresh", -1, NoName)})
       ELSE UNCHANGED tableVars /\ Ends(t, {})
    /\ UNCHANGED <<called, jobs, posted, shown, gui, named>>

ResultsThread(n) ==
  LET t == Thread("results", -1, n) IN
    /\ Runs /\ BagIn(t, threads) /\ locked' = FALSE /\ Ends(t, {})
    /\ UNCHANGED <<launcher, jobs, posted, shown, gui, named>>

(* refresh_jobs_thread asks about the jobs that are not over.              *)
RefreshThread_Running ==
  LET t == Thread("refresh", -1, NoName)
      asked == {n \in Names : Known(n) /\ jobs[n].state \in Alive}
      changed == {n \in asked : jobs[n].state # table[jobs[n].id]}
      told == SetToSeq(changed)
  IN /\ Runs /\ ~locked /\ BagIn(t, threads) /\ Ends(t, {})
     /\ jobs' = [n \in Names |-> IF n \in asked THEN [jobs[n] EXCEPT !.state = table[jobs[n].id]] ELSE jobs[n]]
     /\ posted' = posted \o [k \in DOMAIN told |-> Event("state", told[k])]
     /\ UNCHANGED <<launcher, locked, shown, gui, named>>

RefreshThread ==
  LET t == Thread("refresh", -1, NoName)
      asked == {n \in Names : Known(n) /\ jobs[n].state \notin Final \cup {"NOT_CREATED"}}
      numbers == {jobs[n].id : n \in asked}
  IN /\ Runs /\ ~locked /\ BagIn(t, threads) /\ Ends(t, {})
     /\ table' \in {new \in [Numbers -> States \cup {"none"}] :
          \A i \in Numbers : IF i \in numbers THEN new[i] \in Polled(table[i]) ELSE new[i] = table[i]}
     /\ jobs' = [n \in Names |-> IF n \in asked THEN [jobs[n] EXCEPT !.state = table'[jobs[n].id]] ELSE jobs[n]]
     /\ LET told == SetToSeq({n \in asked : jobs'[n].state # jobs[n].state})
        IN posted' = posted \o [k \in DOMAIN told |-> Event("state", told[k])]
     /\ UNCHANGED <<counter, called, locked, shown, gui, named>>

----------------------------------------------------------------------------
(* Other clients of the launcher; load_jobs of the manager adds jobs too.  *)

OtherAdd(n) ==
  /\ "add" \in Others /\ Room
  /\ TableAdd("CREATED") \/ TableAdd("RUNNING")
  /\ called' = [called EXCEPT ![counter] = n]
  /\ Spawn({Thread("new", counter, NoName)})
  /\ UNCHANGED <<jobs, locked, posted, shown, gui, named>>

OtherRemove(i) ==
  /\ "remove" \in Others /\ Room /\ TableRemove(i)
  /\ Spawn({Thread("removed", i, NoName)})
  /\ UNCHANGED <<called, jobs, locked, posted, shown, gui, named>>

OtherStop(i) ==
  /\ "stop" \in Others /\ Room /\ TableStop(i)
  /\ Spawn({Thread("refresh", -1, NoName)})
  /\ UNCHANGED <<called, jobs, locked, posted, shown, gui, named>>

OtherLaunch(i) ==
  /\ "launch" \in Others /\ TableLaunch(i, "QUEUED")
  /\ UNCHANGED <<called, jobs, locked, threads, posted, shown, gui, named>>

OtherPoll(i) ==
  /\ "poll" \in Others /\ TablePoll(i)
  /\ UNCHANGED <<called, jobs, locked, threads, posted, shown, gui, named>>

Numbered == \E i \in Numbers : NewJob(i) \/ RemovedJob(i)
Named == \E t \in BagToSet(threads) : StartThread(t.name) \/ StopThread(t.name) \/ ResultsThread(t.name)

JmNext ==
  \/ \E i \in DOMAIN rows : Select(i)
  \/ StartJob \/ StopJobAsked \/ GetResults \/ RefreshJobs \/ Delete \/ RestartJob
  \/ \E n \in OwnNames \cup {pick.name} : OpenWizard(n)
  \/ CancelWizard \/ FinishWizard \/ AddJob \/ SetNotCreated \/ HandleEvent \/ Fall
  \/ Numbered \/ Named \/ RefreshThread
  \/ \E n \in OtherNames : OtherAdd(n)
  \/ \E i \in Numbers : OtherRemove(i) \/ OtherStop(i) \/ OtherLaunch(i) \/ OtherPoll(i)

JmSpec == JmInit /\ [][JmNext]_jmVars

(* Threads run, the GUI ends what it is doing and handles its events, the  *)
(* list is refreshed again and again (Auto Refresh).                       *)
FairJm ==
  /\ JmSpec /\ SF_jmVars(RefreshJobs) /\ SF_jmVars(RefreshThread) /\ SF_jmVars(Named)
  /\ SF_jmVars(AddJob) /\ SF_jmVars(SetNotCreated) /\ SF_jmVars(HandleEvent) /\ SF_jmVars(Fall)
  /\ \A i \in Numbers : SF_jmVars(NewJob(i)) /\ SF_jmVars(RemovedJob(i))

----------------------------------------------------------------------------
(* Properties                                                              *)

(* The types of the map, of the threads, of the events and of the table.   *)
JmTypeOK ==
  /\ table \in [Numbers -> States \cup {"none"}] /\ counter \in 0 .. MaxJobs
  /\ \A n \in Names : jobs[n] \in [state : States \cup {"NOT_CREATED"}, id : -1 .. counter - 1]
  /\ locked \in BOOLEAN /\ named \in Nat /\ IsABag(threads)
  /\ gui.does \in {"idle", "wizard", "adding", "failed", "crashed"}
  /\ \A i \in DOMAIN posted : posted[i].kind \in {"add", "remove", "state"}
  /\ \A i \in DOMAIN rows : rows[i].state \in States \cup {"NOT_CREATED"}

(* A job of the launcher has at most one entry, whichever of the answer    *)
(* and the notification comes first.                                       *)
OneEntryPerJob ==
  \A m, n \in Names : (jobs[m].id = jobs[n].id /\ jobs[m].id # -1) => m = n

(* Every job of the launcher is in the map, or a thread is about to add it. *)
EveryJobIsListed ==
  Runs => \A i \in Numbers : table[i] # "none" =>
    \/ \E n \in Names : jobs[n].id = i
    \/ BagIn(Thread("new", i, NoName), threads)

(* An entry whose job was removed is about to be told so.                  *)
GoneIsTold ==
  \A n \in Names : jobs[n].id = -1 \/ Known(n)
    \/ BagIn(Thread("removed", jobs[n].id, NoName), threads)

(* The table shows the entries of the map, but for those being added.      *)
RowsAreJobs ==
  Runs =>
    LET seen == {rows[i].name : i \in DOMAIN rows}
        coming == {posted[i].name : i \in {k \in DOMAIN posted : posted[k].kind = "add"}}
    IN /\ seen \subseteq Names
       /\ Names \subseteq seen \cup coming \cup (IF gui.does = "failed" THEN {gui.name} ELSE {})

(* The mutex taken by the GUI is released by the thread it starts.         *)
LockHandedOver == locked => \E t \in BagToSet(threads) : t.does \in {"stop", "results"}

(* The end of a job is shown.                                              *)
EndIsShown ==
  \A i \in Numbers :
    (\E n \in Names : jobs[n].id = i /\ table[i] \in Final)
      ~> (~Runs \/ ~ \E n \in Names : jobs[n].id = i /\ \A k \in RowsOf(n) : rows[k].state \notin Final)

=============================================================================
