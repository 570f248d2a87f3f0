---------------------------- MODULE TraceBufferMC ----------------------------
(* Instances of TraceBuffer for TLC: a pool of two buffers whose positions *)
(* wrap after four.                                                        *)
EXTENDS TraceBuffer

CONSTANTS main, worker, collector

OneThread  == {main}
TwoThreads == {main, worker}
NormalOnly == {"normal"}
BothKinds  == {"normal", "abort"}
=============================================================================
