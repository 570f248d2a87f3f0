------------------------------ MODULE OptimizerMC ------------------------------
(***************************************************************************)
(* Instances of OptimizerLoop for TLC: how many branches the loop has at   *)
(* each turn of the loop around it, and what may go wrong.                 *)
(***************************************************************************)
EXTENDS OptimizerLoop

TwoNoneThree == <<2, 0, 3>>
TwoTwoNone   == <<2, 2, 0>>

Nothing      == {}
Everything   == {"init", "work", "finalize", "initialize", "algorithm", "ignores"}
=============================================================================
