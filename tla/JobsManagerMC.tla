--------------------------- MODULE JobsManagerMC ----------------------------
(***************************************************************************)
(* The uses of the job manager the run of JobsManager checks, chosen at    *)
(* the start:                                                              *)
(*   "shared"   the constants of the .cfg: other clients add, launch and   *)
(*              remove jobs of the same launcher, and calls are lost;      *)
(*   "own"      the jobs are the user's; other clients poll and stop them, *)
(*              and the creation or the launch of a job may fail.          *)
(***************************************************************************)
EXTENDS JobsManager

A == <<"a">>
JustA == {A}
NoneOrA == {NoName, A}

VARIABLE scene

Own == INSTANCE JobsManager WITH
  Others <- {"poll", "stop", "launch"}, Failures <- {"submit", "create"}, MaxThreads <- 1, MaxPosted <- 2

all == <<jmVars, scene>>

InOwn == scene = "own" /\ UNCHANGED scene

SceneInit  == JmInit /\ scene \in {"shared", "own"}
SharedStep == scene = "shared" /\ JmNext /\ UNCHANGED scene
OwnStep    == InOwn /\ Own!JmNext
SceneNext  == SharedStep \/ OwnStep

\* The fairness of FairJm, for the user's own jobs.
SceneSpec ==
  /\ SceneInit /\ [][SceneNext]_all
  /\ SF_all(InOwn /\ Own!RefreshJobs) /\ SF_all(InOwn /\ Own!RefreshThread)
  /\ SF_all(InOwn /\ Own!Named) /\ SF_all(InOwn /\ Own!AddJob)
  /\ SF_all(InOwn /\ Own!SetNotCreated) /\ SF_all(InOwn /\ Own!HandleEvent)
  /\ SF_all(InOwn /\ Own!Fall)
  /\ \A i \in Numbers : SF_all(InOwn /\ Own!NewJob(i)) /\ SF_all(InOwn /\ Own!RemovedJob(i))

\* The manager of the .cfg alone.
SharedSpec == JmInit /\ scene = "shared" /\ [][SharedStep]_all

\* The end of a job of the user is shown (the automatic refresh goes on).
OwnEndIsShown == scene = "own" => EndIsShown
=============================================================================
