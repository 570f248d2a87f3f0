----------------------------- MODULE TraceQueue -----------------------------
(***************************************************************************)
(* What LocalTraceBufferPool promises to the program that traces: a        *)
(* bounded first-in first-out queue between the thread that calls insert() *)
(* and the collector that prints.  Nothing is lost, nothing is printed     *)
(* twice, nothing overtakes.  TraceBuffer implements it when one thread    *)
(* traces.                                                                 *)
(***************************************************************************)
EXTENDS Naturals, Sequences

CONSTANTS Message,      \* what may be traced
          Capacity      \* TRACE_BUFFER_SIZE

VARIABLES queue,        \* inserted, not yet taken by the collector
          taken         \* taken by the collector, in the order of printing

vars == <<queue, taken>>

Init == queue = <<>> /\ taken = <<>>

\* insert() waits for a free buffer, then hands the message over.
Put(m) == /\ Len(queue) < Capacity
          /\ queue' = Append(queue, m)
          /\ UNCHANGED taken

\* retrieve() waits for a full buffer, then takes the oldest message.
Get == /\ queue # <<>>
       /\ taken' = Append(taken, Head(queue))
       /\ queue' = Tail(queue)

Next == Get \/ \E m \in Message : Put(m)

Spec == Init /\ [][Next]_vars
=============================================================================
