------------------------------ MODULE CalciumMC ------------------------------
(***************************************************************************)
(* The uses of a port the run of CalciumPort checks, chosen at the start:  *)
(*   "alone"   the constants of the .cfg, but for one writer and one turn: *)
(*             a date between two others, and a reader that also erases,   *)
(*             gives up, or wakes up by itself;                            *)
(*   "loop"    the two writers, in a loop of YACS that connects them to    *)
(*             the port again, and dates 0 and 1.                          *)
(***************************************************************************)
EXTENDS CalciumPort

CONSTANTS w1, w2
VARIABLE scene

Alone == INSTANCE CalciumPort WITH Writers <- {w1}, Turns <- 1
Loop  == INSTANCE CalciumPort WITH
  LastDate <- 1, Reads <- {"get", "next"}, TimeOut <- FALSE, SpuriousWakeUps <- FALSE

all == <<vars, scene>>

SceneInit == Init /\ scene \in {"alone", "loop"}
AloneStep == scene = "alone" /\ Alone!Next /\ UNCHANGED scene
LoopStep  == scene = "loop" /\ Loop!Next /\ UNCHANGED scene
SceneNext == AloneStep \/ LoopStep

\* The fairness of FairPort, in each scene.
SceneSpec ==
  /\ SceneInit /\ [][SceneNext]_all
  /\ WF_all(scene = "alone" /\ Alone!Answering /\ UNCHANGED scene)
  /\ WF_all(scene = "loop" /\ Loop!Answering /\ UNCHANGED scene)
  /\ \A w \in Writers :
       /\ WF_all(Put(w) /\ UNCHANGED scene)
       /\ WF_all(WakeupWaiting(w) /\ UNCHANGED scene)
       /\ WF_all(scene = "alone" /\ Alone!RemoveConnection(w) /\ UNCHANGED scene)
       /\ WF_all(scene = "loop" /\ Loop!RemoveConnection(w) /\ UNCHANGED scene)
=============================================================================
