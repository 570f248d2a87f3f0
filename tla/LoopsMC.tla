------------------------------- MODULE LoopsMC -------------------------------
(***************************************************************************)
(* ControlNodes on the schema pre -> forLoop -> post.  The ForLoop repeats *)
(* the Bloc body, where work -> choice runs beside the While loop          *)
(* whileLoop.  The Switch choice selects between the node one and the      *)
(* ForLoop inner of step, and has no default branch.                       *)
(***************************************************************************)
EXTENDS ControlNodes, TLC

CONSTANTS pre, post, work, one, step, guard,
          proc, body, forLoop, inner, whileLoop, choice

SchemaFather ==
  [n \in {pre, post, work, one, step, guard, body, forLoop, inner, whileLoop, choice} |->
     CASE n \in {pre, forLoop, post}         -> proc
       [] n = body                           -> forLoop
       [] n \in {work, choice, whileLoop}    -> body
       [] n \in {one, inner}                 -> choice
       [] n = step                           -> inner
       [] n = guard                          -> whileLoop]
SchemaLinks  == {<<pre, forLoop>>, <<forLoop, post>>, <<work, choice>>}
SchemaCase   == (one :> 1) @@ (inner :> 2)
SchemaWriter == (whileLoop :> guard)

SchemaSteps  == {Empty, -1, 0, 1, 2}
=============================================================================
