------------------------------ MODULE ForEachMC ------------------------------
(***************************************************************************)
(* The loops the run of ForEachLoop checks, chosen at the start:           *)
(*   "kept"     the constants of the .cfg: keep-going, no passed result,   *)
(*              a loop around that gives other collections, every fault;   *)
(*   "passed"   the first of these collections with one result already     *)
(*              known, and a run that stops at a failure;                  *)
(*   "empty"    the loop around goes on after the turn without a sample.   *)
(***************************************************************************)
EXTENDS ForEachLoop

\* Turns of the loop around: the third has no sample, the last no branch.
WhileSizes    == <<4, 3, 0, 2>>
WhileBranches == <<3, 2, 2, 0>>

AllFaults == (Kind \X {"load", "connect", "run"}) \cup ({"loop"} \X {"clone", "store", "take", "push"})
BodyRun   == {<<"work", "run">>}

VARIABLE scene

PassedResults == INSTANCE ForEachLoop WITH
  Passed <- {1}, KeepGoing <- FALSE, Again <- {}

AfterEmpty == INSTANCE ForEachLoop WITH NbBranches <- <<1, 1, 2, 2>>, MayFail <- BodyRun

SceneInit  == Init /\ scene \in {"kept", "passed", "empty"}
KeptStep   == scene = "kept" /\ Next /\ UNCHANGED scene
PassedStep == scene = "passed" /\ PassedResults!Next /\ UNCHANGED scene
EmptyStep  == scene = "empty" /\ AfterEmpty!Next /\ UNCHANGED scene
SceneNext  == KeptStep \/ PassedStep \/ EmptyStep
SceneSpec == SceneInit /\ [][SceneNext]_<<vars, scene>> /\ WF_<<vars, scene>>(SceneNext)

\* The loop of the .cfg alone.
KeptSpec == Init /\ scene = "kept" /\ [][KeptStep]_<<vars, scene>>
=============================================================================
