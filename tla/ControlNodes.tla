---------------------------- MODULE ControlNodes ----------------------------
(***************************************************************************)
(* YACS: ForLoop, WhileLoop and Switch nodes in a schema, and the Blocs    *)
(* around and inside them.  Scheduler.tla models Blocs, whose nodes run    *)
(* once; here the same nodes are initialised and run again, turn after     *)
(* turn, a Switch enters one of its branches only, and a node that has     *)
(* nothing to run gives the executor a fake task in place of its children. *)
(*                                                                         *)
(* An event climbs the tree as in Scheduler.tla, one updateStateFrom a     *)
(* step, while the caller holds _mutexForSchedulerUpdate.                  *)
(***************************************************************************)
EXTENDS Integers

CONSTANTS Elem, Blocs, Fors, Whiles, Switches,  \* the nodes, by class
          Root,        \* the schema, a Bloc
          Father,      \* Node::_father
          CtrlLinks,   \* control links between children of one Bloc
          Case,        \* the key of a branch in Switch::_mapOfNode
          Default,     \* ID_FOR_DEFAULT_NODE
          Outer,       \* While loops with isLinkedOutOfScope()
          Writer,      \* the node of the body linked to the condition of a While
          Leaving,     \* nodes with getAllOutPortsLeavingCurrentScope()
          Empty,       \* what a port holds before data come
          Steps,       \* what nsteps may hold
          Selections,  \* what select may hold
          MaxTurns     \* bound on the turns of a While loop

Loops     == Fors \cup Whiles
Control   == Loops \cup Switches
Nodes     == Elem \cup Blocs \cup Control
Children  == Nodes \ {Root}
Composed  == Blocs \cup Control

ChildrenOf(b) == {n \in Children : Father[n] = b}
Precursors(n) == {m \in Children : <<m, n>> \in CtrlLinks}
Successors(n) == {m \in Children : <<n, m>> \in CtrlLinks}

\* The nodes around a node, and those inside it.
Enclosing == [n \in Nodes |->
  {b \in Composed : \A S \in SUBSET Composed :
     ((n \in Children => Father[n] \in S)
        /\ \A x \in S \ {Root} : Father[x] \in S) => b \in S}]
Inside(n) == {m \in Children : n \in Enclosing[m]}

\* What exNotifyFailed reaches, gate after gate.
Downstream == [n \in Nodes |->
  {m \in Children : \A S \in SUBSET Children :
     (Successors(n) \subseteq S /\ \A x \in S : Successors(x) \subseteq S) => m \in S}]

\* A node has one class, a loop one body, and a key of a Switch one branch.
\* The body of a While loop is not a loop nor a Switch: when that has nothing
\* to run, nothing can change the condition and the While loop never ends.
ASSUME TreeAssumption ==
  /\ Elem \cap Composed = {} /\ Blocs \cap Control = {}
  /\ Loops \cap Switches = {} /\ Fors \cap Whiles = {}
  /\ Root \in Blocs
  /\ Father \in [Children -> Composed]
  /\ \A n \in Children : Root \in Enclosing[n]
  /\ \A n \in Children : n \notin Downstream[n]
  /\ CtrlLinks \subseteq {l \in Children \X Children :
                            Father[l[1]] = Father[l[2]] /\ Father[l[1]] \in Blocs}
  /\ \A l \in Loops : \E n \in Children : ChildrenOf(l) = {n}
  /\ \A s \in Switches : \A m, n \in ChildrenOf(s) : Case[m] = Case[n] => m = n
  /\ \A w \in Whiles : Writer[w] \in Elem \cap Inside(w)
  /\ \A n \in Control : Father[n] \notin Whiles
  /\ Steps \ {Empty} \subseteq Int

\* The values of the ports of decision; a condition that holds is 1.
Conditions == {Empty, 0, 1}
InputsOf(c) == IF c \in Fors THEN Steps ELSE IF c \in Whiles THEN Conditions ELSE Selections
Inputs == {v \in [Control -> Steps \cup Conditions \cup Selections] :
             \A c \in Control : v[c] \in InputsOf(c)}

VARIABLES state,    \* Node::_state
          gate,     \* control links whose flag is set in the in gate
          event,    \* the call of updateStateFrom that comes next
          input,    \* the ports of decision: nsteps, condition, select
          turns,    \* Loop::_nbOfTurns
          fake,     \* _nodeForNullTurnOfLoops, _undispatchableNotificationNode
          threads,  \* tasks the executor has started and not yet ended
          fakes     \* nodes whose fake task the executor runs

vars == <<state, gate, event, input, turns, fake, threads, fakes>>

NoEvent == [from |-> Root, kind |-> "NOEVENT"]
NoFake  == [ends |-> "none", state |-> "none"]

\* The branch of a Switch that a value selects, if there is one.
Chosen(s, v) ==
  LET exact == {n \in ChildrenOf(s) : Case[n] = v}
  IN  IF exact # {} THEN exact ELSE {n \in ChildrenOf(s) : Case[n] = Default}

\* The children whose exUpdateState is called by the one of b: those of a
\* Bloc whose gate is ready, the selected branch, or the body.
Enters(b, v, g) ==
       IF b \in Blocs    THEN {n \in ChildrenOf(b) : Precursors(n) \X {n} \subseteq g}
  ELSE IF b \in Switches THEN Chosen(b, v[b])
  ELSE ChildrenOf(b)

\* All that exUpdateState reaches from the nodes of S.
Entered(S, v, g) == S \cup
  {n \in Children : \E s \in S \cap Enclosing[n] :
     \A m \in {n} \cup Enclosing[n] : s \in Enclosing[m] => m \in Enters(Father[m], v, g)}

\* How the task that stands for a node without anything to run will end.
NothingToRun(c) == IF c \in Leaving THEN "error" ELSE "ok"

ForEnd(c, x) == IF x = Empty THEN "internal"
           ELSE IF x = 0 THEN NothingToRun(c)
           ELSE IF x < 0 THEN "error" ELSE "none"

WhileEnd(c, x) == IF c \notin Outer \/ x = 1 THEN "none"
             ELSE IF x = Empty THEN "internal" ELSE NothingToRun(c)

SwitchEnd_NoCase(c, x) == "none"

SwitchEnd(c, x) == IF Chosen(c, x) = {} THEN NothingToRun(c) ELSE "none"

FakeEnd(c, x) == IF c \in Fors THEN ForEnd(c, x)
            ELSE IF c \in Whiles THEN WhileEnd(c, x) ELSE SwitchEnd(c, x)

\* A Switch that finds its branch does not delete the fake task it has.
FakeAfter(c, x) ==
  IF FakeEnd(c, x) # "none" THEN [ends |-> FakeEnd(c, x), state |-> "TOACTIVATE"]
  ELSE IF c \in Switches THEN fake[c] ELSE NoFake

-----------------------------------------------------------------------------
(* init(false) and exUpdateState                                           *)

\* Node::init of the nodes of I: the flags of their in gates are cleared.
KeptGates_All(g, I) == g
KeptGates(g, I) == {l \in g : l[2] \notin I}

\* init of the nodes of I, then exUpdateState on those of S and what it
\* reaches.  The data the ports of decision will hold are there by then.
InitAndEnter(st, I, S, v, g) ==
  LET E == Entered(S, v, g)
      inited == [n \in Nodes |-> IF n \in I THEN "READY" ELSE st[n]]
  IN  /\ state' = [n \in Nodes |->
                     CASE n \in E \cap Composed                       -> "ACTIVATED"
                       [] n \in E \cap Elem /\ inited[n] = "READY"    -> "TOLOAD"
                       [] OTHER                                       -> inited[n]]
      /\ gate' = g
      /\ input' = [c \in Control |-> IF c \in E THEN v[c] ELSE input[c]]
      /\ fake' = [c \in Control |->
                    IF c \in E THEN FakeAfter(c, v[c])
                    ELSE IF c \in I \cap Loops THEN NoFake ELSE fake[c]]

\* Only the ports of the nodes that are entered are chosen anew.
FreshInputs(S) ==
  {[c \in Control |-> IF ({c} \cup Enclosing[c]) \cap S # {} THEN v[c] ELSE input[c]] :
     v \in Inputs}

Init ==
  /\ state = [n \in Nodes |-> "READY"]
  /\ gate = {}
  /\ event = NoEvent
  /\ input = [c \in Control |-> Empty]
  /\ turns = [l \in Loops |-> 0]
  /\ fake = [c \in Control |-> NoFake]
  /\ threads = {}
  /\ fakes = {}

\* exUpdateState on the root
StartSchema ==
  /\ state[Root] = "READY"
  /\ \E v \in FreshInputs({Root}) : InitAndEnter(state, {}, {Root}, v, gate)
  /\ UNCHANGED <<event, turns, threads, fakes>>

-----------------------------------------------------------------------------
(* updateStateFrom on the father of the node the event comes from          *)

ToFather(b, kind) ==
  IF b = Root THEN NoEvent ELSE [from |-> b, kind |-> kind]

Ends(b, st, kind) == /\ state' = [state EXCEPT ![b] = st]
                     /\ event' = ToFather(b, kind)

\* ComposedNode::updateStateOnStartEventFrom
OnStart ==
  /\ event.kind = "START"
  /\ Ends(Father[event.from], "ACTIVATED", "START")
  /\ UNCHANGED <<gate, input, turns, fake, threads, fakes>>

AllFinished(st, b) ==
  \A n \in ChildrenOf(b) : st[n] \in {"DONE", "FAILED", "ERROR", "INTERNALERR"}

\* The last child of a Bloc has finished or failed.
BlocFinish(b, st) ==
  LET verdict == IF \A n \in ChildrenOf(b) : st[n] = "DONE" THEN "DONE" ELSE "FAILED"
  IN  /\ state' = [st EXCEPT ![b] = verdict]
      /\ event' = ToFather(b, IF verdict = "DONE" THEN "FINISH" ELSE "ABORT")

\* Bloc::updateStateOnFinishedEventFrom
BlocLastFinished ==
  /\ event.kind = "FINISH" /\ Father[event.from] \in Blocs
  /\ AllFinished(state, Father[event.from])
  /\ BlocFinish(Father[event.from], state)
  /\ UNCHANGED <<gate, input, turns, fake, threads, fakes>>

BlocFinished ==
  /\ event.kind = "FINISH" /\ Father[event.from] \in Blocs
  /\ ~ AllFinished(state, Father[event.from])
  /\ LET n == event.from
         g == gate \cup ({n} \X Successors(n))
         O == {m \in Successors(n) : Precursors(m) \X {m} \subseteq g}
     IN  \E v \in FreshInputs(O) : InitAndEnter(state, {}, O, v, g)
  /\ event' = NoEvent
  /\ UNCHANGED <<turns, threads, fakes>>

\* Bloc::updateStateOnFailedEventFrom
BlocFailed ==
  /\ event.kind = "ABORT" /\ Father[event.from] \in Blocs
  /\ LET n  == event.from
         st == [m \in Nodes |-> IF m \in Downstream[n] THEN "FAILED" ELSE state[m]]
     IN  IF AllFinished(st, Father[n]) THEN BlocFinish(Father[n], st)
                                       ELSE state' = st /\ event' = NoEvent
  /\ UNCHANGED <<gate, input, turns, fake, threads, fakes>>

\* ComposedNode::updateStateOnFailedEventFrom, for loops and Switches
ControlFailed ==
  /\ event.kind = "ABORT" /\ Father[event.from] \in Control
  /\ Ends(Father[event.from], "FAILED", "ABORT")
  /\ UNCHANGED <<gate, input, turns, fake, threads, fakes>>

\* Switch::updateStateOnFinishedEventFrom
SwitchFinished ==
  /\ event.kind = "FINISH" /\ Father[event.from] \in Switches
  /\ Ends(Father[event.from], "DONE", "FINISH")
  /\ UNCHANGED <<gate, input, turns, fake, threads, fakes>>

\* Another turn of the loop l: init(false) and exUpdateState of its body.
\* Loop::init puts the counter of a loop inside back to 0.
TurnAgain(l, counted) ==
  LET B == ChildrenOf(l)
      I == B \cup UNION {Inside(n) : n \in B}
  IN  /\ \E v \in FreshInputs(B) :
           InitAndEnter([state EXCEPT ![l] = "ACTIVATED"], I, B, v, KeptGates(gate, I))
      /\ turns' = [k \in Loops |-> IF k \in I THEN 0 ELSE counted[k]]
      /\ event' = NoEvent

LastTurn_OneMore(l) == turns[l] + 1 > input[l]
LastTurn(l) == turns[l] + 1 >= input[l]

\* ForLoop::updateStateOnFinishedEventFrom
ForTurn ==
  /\ event.kind = "FINISH" /\ Father[event.from] \in Fors
  /\ LET l == Father[event.from]
         counted == [turns EXCEPT ![l] = @ + 1]
     IN  IF LastTurn(l)
         THEN /\ Ends(l, "DONE", "FINISH")
              /\ turns' = counted
              /\ UNCHANGED <<gate, input, fake>>
         ELSE TurnAgain(l, counted)
  /\ UNCHANGED <<threads, fakes>>

\* WhileLoop::updateStateOnFinishedEventFrom
WhileTurn ==
  /\ event.kind = "FINISH" /\ Father[event.from] \in Whiles
  /\ LET l == Father[event.from]
         counted == [turns EXCEPT ![l] = @ + 1]
     IN  IF input[l] = 0
         THEN /\ Ends(l, "DONE", "FINISH")
              /\ turns' = counted
              /\ UNCHANGED <<gate, input, fake>>
         ELSE TurnAgain(l, counted)
  /\ UNCHANGED <<threads, fakes>>

UpdateStateFrom == \/ OnStart \/ BlocLastFinished \/ BlocFinished \/ BlocFailed
                   \/ ControlFailed \/ SwitchFinished \/ ForTurn \/ WhileTurn

-----------------------------------------------------------------------------
(* The calls of the executor                                               *)

\* getReadyTasks of the nodes from the root down reaches n: all are ACTIVATED,
\* none has a fake task in place of its children, and a Switch asks the branch
\* its port selects.
Asked(n) ==
  \A m \in ({n} \cup Enclosing[n]) \ {Root} :
    LET b == Father[m]
    IN  /\ state[b] = "ACTIVATED"
        /\ b \in Loops    => fake[b] = NoFake
        /\ b \in Switches => m \in Chosen(b, input[b])

\* notifyFrom(START), load() and connected()
Load(n) ==
  /\ event = NoEvent /\ state[n] = "TOLOAD" /\ Asked(n)
  /\ state' = [state EXCEPT ![n] = "TOACTIVATE"]
  /\ threads' = threads \cup {n}
  /\ event' = [from |-> n, kind |-> "START"]
  /\ UNCHANGED <<gate, input, turns, fake, fakes>>

\* begin()
Begin(n) ==
  /\ event = NoEvent /\ n \in threads /\ state[n] = "TOACTIVATE"
  /\ state' = [state EXCEPT ![n] = "ACTIVATED"]
  /\ UNCHANGED <<gate, event, input, turns, fake, threads, fakes>>

\* finished() and notifyFrom(FINISH), the outputs being written: a condition
\* that never becomes false makes a loop without end.
Finished(n) ==
  /\ event = NoEvent /\ n \in threads /\ state[n] = "ACTIVATED"
  /\ state' = [state EXCEPT ![n] = "DONE"]
  /\ threads' = threads \ {n}
  /\ event' = [from |-> n, kind |-> "FINISH"]
  /\ \E again \in [Whiles -> {0, 1}] :
       /\ \A w \in Whiles : turns[w] >= MaxTurns - 1 => again[w] = 0
       /\ input' = [c \in Control |->
            IF c \in Whiles /\ Writer[c] = n THEN again[c] ELSE input[c]]
  /\ UNCHANGED <<gate, turns, fake, fakes>>

\* aborted() and notifyFrom(ABORT)
Aborted(n) ==
  /\ event = NoEvent /\ n \in threads
  /\ state' = [state EXCEPT ![n] = "ERROR"]
  /\ threads' = threads \ {n}
  /\ event' = [from |-> n, kind |-> "ABORT"]
  /\ UNCHANGED <<gate, input, turns, fake, fakes>>

\* begin() of a fake task, which goes without loading
FakeBegin(c) ==
  /\ event = NoEvent /\ c \notin fakes
  /\ fake[c].state = "TOACTIVATE" /\ state[c] = "ACTIVATED" /\ Asked(c)
  /\ c \in Switches => Chosen(c, input[c]) = {}
  /\ fake' = [fake EXCEPT ![c].state = "ACTIVATED"]
  /\ fakes' = fakes \cup {c}
  /\ UNCHANGED <<state, gate, event, input, turns, threads>>

\* finished() or aborted() of a fake task, which change the state of the node
\* it stands for; the event goes to the father of that node.
FakeEnds(c) ==
  /\ event = NoEvent /\ c \in fakes
  /\ state' = [state EXCEPT ![c] =
       CASE fake[c].ends = "ok" -> "DONE" [] fake[c].ends = "error" -> "ERROR"
         [] OTHER -> "INTERNALERR"]
  /\ event' = [from |-> c,
               kind |-> IF fake[c].ends = "ok" THEN "FINISH" ELSE "ABORT"]
  /\ fakes' = fakes \ {c}
  /\ UNCHANGED <<gate, input, turns, fake, threads>>

TaskCall(n) == Load(n) \/ Begin(n) \/ Finished(n) \/ Aborted(n)
FakeCall(c) == FakeBegin(c) \/ FakeEnds(c)

Next == \/ StartSchema \/ UpdateStateFrom
        \/ \E n \in Elem : TaskCall(n)
        \/ \E c \in Control : FakeCall(c)

Spec == Init /\ [][Next]_vars

\* The executor runs what it is given, a task ends, and an event is handled by
\* the thread that sent it.
FairSpec == /\ Spec
            /\ WF_vars(StartSchema) /\ WF_vars(UpdateStateFrom)
            /\ \A n \in Elem : WF_vars(TaskCall(n))
            /\ \A c \in Control : WF_vars(FakeCall(c))
-----------------------------------------------------------------------------
(* Properties                                                              *)

State == {"READY", "TOLOAD", "TOACTIVATE", "ACTIVATED", "DONE", "ERROR", "FAILED",
          "INTERNALERR"}

\* Every variable keeps to its type.
TypeOK ==
  /\ state \in [Nodes -> State]
  /\ gate \subseteq CtrlLinks
  /\ event.from \in Nodes /\ event.kind \in {"NOEVENT", "START", "FINISH", "ABORT"}
  /\ \A c \in Control : input[c] \in Steps \cup Conditions \cup Selections
  /\ turns \in [Loops -> Nat]
  /\ fake \in [Control -> {NoFake} \cup
                 [ends : {"ok", "error", "internal"},
                  state : {"TOLOAD", "TOACTIVATE", "ACTIVATED"}]]
  /\ threads \subseteq Elem /\ fakes \subseteq Control

\* Whatever turn it is, a node runs only after the nodes before it, and before
\* the nodes around it, are done in this turn, in the branch its Switch has
\* selected, and never in a loop that has no turn to make.
RunsInItsTurn ==
  \A n \in threads : \A m \in ({n} \cup Enclosing[n]) \ {Root} :
    /\ \A p \in Precursors(m) : state[p] = "DONE"
    /\ Father[m] \in Switches => m \in Chosen(Father[m], input[Father[m]])
    /\ Father[m] \in Fors => turns[Father[m]] < input[Father[m]]

\* What a node had to run is done: its body, the selected branch, or nothing.
AllDone(b) ==
  /\ \A n \in {b} \cup Inside(b) :
       (\A m \in ({n} \cup Enclosing[n]) \cap Inside(b) :
          /\ Father[m] \in Loops    => fake[Father[m]] = NoFake
          /\ Father[m] \in Switches => m \in Chosen(Father[m], input[Father[m]]))
       => state[n] = "DONE"
  /\ \A n \in {b} \cup Inside(b) : n \notin threads \cup fakes

\* A loop ends a turn only when everything its body had to run in this turn is
\* done and no task of it has a thread, so that init never meets a running
\* node; a ForLoop that ends has made nsteps turns.
TurnsAreWhole ==
  [][\A l \in Loops :
       /\ turns'[l] > turns[l] => \A n \in ChildrenOf(l) : AllDone(n)
       /\ (l \in Fors /\ state[l] = "ACTIVATED" /\ state'[l] = "DONE" /\ fake[l] = NoFake)
            => turns'[l] = input[l]]_vars

\* The schema always comes to a verdict, whatever fails and whatever has
\* nothing to run.
ComesToAVerdict == <>(state[Root] \in {"DONE", "FAILED"})
=============================================================================
