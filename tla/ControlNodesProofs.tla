-------------------------- MODULE ControlNodesProofs --------------------------
(***************************************************************************)
(* For every schema of loops, Switches and Blocs, any number of turns and  *)
(* any values of the ports of decision: a node runs in the turn and the    *)
(* branch it belongs to, and a loop ends a turn only when all of it is     *)
(* over.                                                                   *)
(***************************************************************************)
EXTENDS ControlNodes, TLAPS

Bad     == {"ERROR", "FAILED", "INTERNALERR"}
Open(n) == \A p \in Precursors(n) : <<p, n>> \in gate

\* Around what runs, everything is entered, in the branch that is selected.
RunInv ==
  /\ \A n \in threads : Asked(n) /\ state[n] \in {"TOACTIVATE", "ACTIVATED"}
  /\ \A c \in fakes : /\ Asked(c) /\ state[c] = "ACTIVATED" /\ fake[c] # NoFake
                      /\ c \in Switches => Chosen(c, input[c]) = {}

\* So it is around a node that sends an event, which has not opened its gates.
EventInv ==
  event.kind # "NOEVENT" =>
    /\ event.from \in Children /\ Asked(event.from)
    /\ event.kind = "FINISH" => /\ state[event.from] = "DONE"
                                /\ \A l \in gate : l[1] # event.from
    /\ event.kind = "ABORT"  => state[event.from] \in Bad

\* The gates of this turn are opened by what is done in it; a node behind a
\* closed gate has not been entered.
OpenInv ==
  /\ \A l \in gate : state[l[1]] = "DONE"
  /\ \A n \in Children :
       /\ state[n] \notin {"READY", "FAILED"} => Open(n)
       /\ state[n] = "FAILED" => Open(n) \/ \E p \in Precursors(n) : state[p] \in Bad

\* What has not been entered is as init leaves it.
FreshInv ==
  \A b \in Composed : state[b] = "READY" =>
    /\ \A n \in ChildrenOf(b) : state[n] = "READY"
    /\ b \in Loops => turns[b] = 0

\* A ForLoop that goes on has a turn to make.
ForInv ==
  \A l \in Fors : state[l] = "ACTIVATED" /\ fake[l] = NoFake =>
    input[l] \in Int /\ turns[l] < input[l]

\* A node is done when what it had to run is.
Relevant(n) == /\ Father[n] \in Loops    => fake[Father[n]] = NoFake
               /\ Father[n] \in Switches => n \in Chosen(Father[n], input[Father[n]])
DoneInv ==
  \A n \in Children : state[Father[n]] = "DONE" /\ Relevant(n) => state[n] = "DONE"

TurnInv == TypeOK /\ RunInv /\ EventInv /\ OpenInv /\ FreshInv /\ ForInv /\ DoneInv

-----------------------------------------------------------------------------
(* The tree                                                                *)

LEMMA Tree ==
  /\ Elem \subseteq Children /\ Control \subseteq Children /\ Control \subseteq Composed
  /\ Children \subseteq Nodes /\ Composed \subseteq Nodes /\ Loops \subseteq Control
  /\ Root \in Blocs /\ Root \in Composed /\ Root \in Nodes /\ Root \notin Children
  /\ Elem \cap Composed = {} /\ Blocs \cap Control = {} /\ Loops \cap Switches = {}
  /\ Fors \cap Whiles = {} /\ Fors \cup Whiles = Loops /\ Loops \cup Switches = Control
  /\ Blocs \subseteq Composed /\ Nodes = Elem \cup Composed /\ Composed = Blocs \cup Control
  /\ Nodes = Children \cup {Root}
  /\ \A n \in Children : Father[n] \in Composed /\ Father[n] \in Nodes
  /\ \A n \in Composed : n # Root => n \in Children
BY TreeAssumption DEF Nodes, Children, Composed, Control, Loops

\* Node::_father, and so on up to the root.
LEMMA EnclosingRoot == Enclosing[Root] = {}
<1>1. Root \in Nodes /\ Root \notin Children
  BY Tree
<1>2. {} \in SUBSET Composed /\ \A x \in {} \ {Root} : Father[x] \in {}
  OBVIOUS
<1>3. \A b \in Enclosing[Root] : b \in {}
  BY <1>1, <1>2 DEF Enclosing
<1> QED BY <1>3

LEMMA EnclosingLeast ==
  ASSUME NEW n \in Children, NEW S \in SUBSET Composed, Father[n] \in S,
         \A x \in S \ {Root} : Father[x] \in S
  PROVE  Enclosing[n] \subseteq S
BY Tree DEF Enclosing

LEMMA EnclosingIn ==
  ASSUME NEW n \in Nodes
  PROVE  Enclosing[n] \subseteq Composed
BY DEF Enclosing

\* Whatever is around the father is around the node, and the father too.
LEMMA EnclosingUp ==
  ASSUME NEW n \in Nodes, NEW y \in ({n} \cup Enclosing[n]) \ {Root}
  PROVE  y \in Children /\ Father[y] \in Enclosing[n]
<1>1. y \in Children
  BY Tree, EnclosingIn
<1>2. CASE y = n
  BY <1>1, <1>2, Tree DEF Enclosing
<1>3. CASE y \in Enclosing[n]
  <2>1. Father[y] \in Composed
    BY <1>1, Tree
  <2>2. ASSUME NEW S \in SUBSET Composed, n \in Children => Father[n] \in S,
               \A x \in S \ {Root} : Father[x] \in S
        PROVE  Father[y] \in S
    <3>1. y \in S
      BY <1>3, <2>2 DEF Enclosing
    <3> QED BY <3>1, <2>2
  <2> QED BY <1>1, <2>1, <2>2 DEF Enclosing
<1> QED BY <1>1, <1>2, <1>3

LEMMA EnclosingTransitive ==
  ASSUME NEW n \in Nodes, NEW b \in Enclosing[n]
  PROVE  b \in Composed /\ b \in Nodes /\ Enclosing[b] \subseteq Enclosing[n]
<1>1. b \in Composed /\ b \in Nodes
  BY EnclosingIn, Tree
<1>2. CASE b = Root
  BY <1>1, <1>2, EnclosingRoot
<1>3. CASE b # Root
  <2>1. b \in Children /\ Father[b] \in Enclosing[n]
    BY <1>3, EnclosingUp
  <2>2. \A x \in Enclosing[n] \ {Root} : Father[x] \in Enclosing[n]
    BY EnclosingUp
  <2> QED BY <1>1, <2>1, <2>2, EnclosingIn, EnclosingLeast
<1> QED BY <1>1, <1>2, <1>3

LEMMA EnclosingStep ==
  ASSUME NEW n \in Children
  PROVE  Enclosing[n] = {Father[n]} \cup Enclosing[Father[n]]
<1>1. n \in Nodes /\ n # Root /\ Father[n] \in Nodes /\ Father[n] \in Composed
  BY Tree
<1>2. Father[n] \in Enclosing[n] /\ Enclosing[Father[n]] \subseteq Enclosing[n]
  BY <1>1, EnclosingUp, EnclosingTransitive
<1>3. \A x \in ({Father[n]} \cup Enclosing[Father[n]]) \ {Root} : Father[x] \in Enclosing[Father[n]]
  BY <1>1, EnclosingUp
<1>4. Enclosing[n] \subseteq {Father[n]} \cup Enclosing[Father[n]]
  <2> DEFINE S == {Father[n]} \cup Enclosing[Father[n]]
  <2>1. S \in SUBSET Composed /\ Father[n] \in S
    BY <1>1, EnclosingIn
  <2> HIDE DEF S
  <2>2. \A x \in S \ {Root} : Father[x] \in S
    BY <1>3 DEF S
  <2>3. Enclosing[n] \subseteq S
    BY <2>1, <2>2, EnclosingLeast
  <2> QED BY <2>3 DEF S
<1> QED BY <1>2, <1>4

\* What holds of a node and goes from a node to its father, up to b, holds of b.
LEMMA Upwards ==
  ASSUME NEW n \in Nodes, NEW b \in Enclosing[n], NEW X, n \in X,
         \A y \in ({n} \cup Enclosing[n]) \ {Root} : b \in Enclosing[y] /\ y \in X => Father[y] \in X
  PROVE  b \in X
<1> DEFINE S == {y \in Enclosing[n] : b \in {y} \cup Enclosing[y] => y \in X}
<1>1. n \in Children
  BY EnclosingRoot, Tree
<1>2. S \in SUBSET Composed
  BY EnclosingIn
<1>3. ASSUME NEW y \in {n} \cup S, y # Root PROVE Father[y] \in S
  <2>1. y \in Children /\ Father[y] \in Enclosing[n]
    BY <1>3, EnclosingUp
  <2>2. Enclosing[y] = {Father[y]} \cup Enclosing[Father[y]]
    BY <2>1, EnclosingStep
  <2> QED BY <1>3, <2>1, <2>2
<1>4. Father[n] \in S /\ \A y \in S \ {Root} : Father[y] \in S
  BY <1>1, <1>3, Tree
<1>5. Enclosing[n] \subseteq S
  <2> HIDE DEF S
  <2> QED BY <1>1, <1>2, <1>4, EnclosingLeast
<1> QED BY <1>5

\* No node is around itself.
LEMMA EnclosingSelf == \A n \in Nodes : n \notin Enclosing[n]
<1> SUFFICES ASSUME NEW b \in Nodes, b \in Enclosing[b] PROVE FALSE
  OBVIOUS
<1> DEFINE C == {x \in Enclosing[b] : b \in Enclosing[x]}
<1>1. b \in Children /\ C \in SUBSET Composed /\ b \in C
  BY EnclosingRoot, EnclosingIn, Tree
<1>2. ASSUME NEW x \in C PROVE x \in Children /\ Father[x] \in C
  <2>1. x \in Children
    BY <1>1, EnclosingRoot, Tree
  <2>2. Father[x] \in Enclosing[b] /\ (b = Father[x] \/ b \in Enclosing[Father[x]])
    BY <1>1, <2>1, EnclosingStep, EnclosingUp, Tree
  <2> QED BY <2>1, <2>2
<1>3. Enclosing[b] \subseteq C
  <2> HIDE DEF C
  <2> QED BY <1>1, <1>2, EnclosingLeast
<1> QED BY <1>1, <1>3, EnclosingRoot, TreeAssumption

\* A node inside b is a child of b or in one.
LEMMA ChildAround ==
  ASSUME NEW n \in Nodes, NEW b \in Enclosing[n]
  PROVE  \E c \in ChildrenOf(b) : c \in {n} \cup Enclosing[n]
<1> DEFINE X == {Father[y] : y \in ({n} \cup Enclosing[n]) \ {Root}} \cup {n}
<1>1. b \in X
  <2> HIDE DEF X
  <2>1. n \in X
    BY DEF X
  <2>2. \A y \in ({n} \cup Enclosing[n]) \ {Root} : Father[y] \in X
    BY DEF X
  <2> QED BY <2>1, <2>2, Upwards
<1>2. b # n
  BY EnclosingSelf
<1>3. PICK y \in ({n} \cup Enclosing[n]) \ {Root} : b = Father[y]
  BY <1>1, <1>2
<1>4. y \in Children
  BY EnclosingUp
<1> QED BY <1>3, <1>4 DEF ChildrenOf

\* The children of b and what is inside them are what is inside b.
LEMMA InsideChildren ==
  ASSUME NEW n \in Children, NEW b \in Composed
  PROVE  (b = Father[n] \/ Father[n] \in Inside(b)) <=> n \in Inside(b)
<1>1. Enclosing[n] = {Father[n]} \cup Enclosing[Father[n]] /\ Father[n] \in Nodes
  BY EnclosingStep, Tree
<1>2. Father[n] \in Inside(b) <=> b \in Enclosing[Father[n]]
  BY <1>1, EnclosingRoot, Tree DEF Inside
<1> QED BY <1>1, <1>2 DEF Inside

\* What OutGate::exNotifyFailed reaches.
LEMMA DownstreamLeast ==
  ASSUME NEW n \in Children, NEW S \in SUBSET Children,
         Successors(n) \subseteq S, \A x \in S : Successors(x) \subseteq S
  PROVE  Downstream[n] \subseteq S
BY Tree DEF Downstream

LEMMA Links ==
  ASSUME NEW p, NEW n, p \in Precursors(n) \/ n \in Successors(p), n \in Children, p \in Children
  PROVE  /\ p \in Precursors(n) /\ n \in Successors(p) /\ <<p, n>> \in CtrlLinks
         /\ Father[p] = Father[n] /\ Father[n] \in Blocs
BY TreeAssumption DEF Precursors, Successors

-----------------------------------------------------------------------------
(* Types                                                                   *)

LEMMA FakeEndTypes ==
  ASSUME NEW c \in Control, NEW x
  PROVE  FakeEnd(c, x) \in {"none", "ok", "error", "internal"}
BY DEF FakeEnd, ForEnd, WhileEnd, SwitchEnd, NothingToRun

LEMMA FreshTypes ==
  ASSUME TypeOK, NEW S, NEW v \in FreshInputs(S), NEW c \in Control
  PROVE  /\ v[c] \in Steps \cup Conditions \cup Selections
         /\ ({c} \cup Enclosing[c]) \cap S # {} => v[c] \in InputsOf(c)
<1>1. PICK u \in Inputs :
        v = [k \in Control |-> IF ({k} \cup Enclosing[k]) \cap S # {} THEN u[k] ELSE input[k]]
  BY DEF FreshInputs
<1>2. u[c] \in InputsOf(c) /\ u[c] \in Steps \cup Conditions \cup Selections
  BY DEF Inputs
<1> QED BY <1>1, <1>2 DEF TypeOK

LEMMA EnterTypes ==
  ASSUME TypeOK, NEW st \in [Nodes -> State], NEW I, NEW S, NEW T, NEW v \in FreshInputs(T),
         NEW g \in SUBSET CtrlLinks, InitAndEnter(st, I, S, v, g)
  PROVE  /\ state' \in [Nodes -> State] /\ gate' \subseteq CtrlLinks
         /\ \A c \in Control : input'[c] \in Steps \cup Conditions \cup Selections
         /\ fake' \in [Control -> {NoFake} \cup
                 [ends : {"ok", "error", "internal"},
                  state : {"TOLOAD", "TOACTIVATE", "ACTIVATED"}]]
<1> DEFINE E == Entered(S, v, g)
           inited == [n \in Nodes |-> IF n \in I THEN "READY" ELSE st[n]]
<1>1. state' = [n \in Nodes |->
                  CASE n \in E \cap Composed                       -> "ACTIVATED"
                    [] n \in E \cap Elem /\ inited[n] = "READY"    -> "TOLOAD"
                    [] OTHER                                       -> inited[n]]
  BY DEF InitAndEnter
<1>2. \A n \in Nodes : inited[n] \in State
  BY DEF State
<1>3. state' \in [Nodes -> State]
  <2> HIDE DEF E, inited
  <2>1. \A n \in Nodes : state'[n] \in {"ACTIVATED", "TOLOAD", inited[n]}
    BY <1>1, Tree
  <2>2. \A n \in Nodes : state'[n] \in State
    BY <1>2, <2>1 DEF State
  <2>3. DOMAIN state' = Nodes /\ state' = [n \in Nodes |-> state'[n]]
    BY <1>1
  <2> QED BY <2>2, <2>3
<1>4. \A c \in Control : input'[c] \in Steps \cup Conditions \cup Selections
  BY FreshTypes DEF InitAndEnter, TypeOK
<1>5. \A c \in Control : FakeAfter(c, v[c]) \in {NoFake} \cup
                 [ends : {"ok", "error", "internal"},
                  state : {"TOLOAD", "TOACTIVATE", "ACTIVATED"}]
  BY FakeEndTypes DEF FakeAfter, TypeOK
<1>6. \A c \in Control : NoFake \in {NoFake} /\ fake[c] \in {NoFake} \cup
                 [ends : {"ok", "error", "internal"},
                  state : {"TOLOAD", "TOACTIVATE", "ACTIVATED"}]
  BY DEF TypeOK
<1>7. fake' = [c \in Control |->
                    IF c \in E THEN FakeAfter(c, v[c])
                    ELSE IF c \in I \cap Loops THEN NoFake ELSE fake[c]]
  BY DEF InitAndEnter
<1>8. gate' = g
  BY DEF InitAndEnter
<1> QED BY <1>3, <1>4, <1>5, <1>6, <1>7, <1>8

LEMMA EventFather ==
  ASSUME TypeOK, EventInv, event.kind # "NOEVENT"
  PROVE  /\ event.from \in Children /\ event.from \in Nodes
         /\ Father[event.from] \in Composed /\ Father[event.from] \in Nodes
BY Tree DEF EventInv

LEMMA ToFatherTypes ==
  ASSUME NEW b \in Nodes, NEW k \in {"START", "FINISH", "ABORT"}
  PROVE  /\ ToFather(b, k).from \in Nodes
         /\ ToFather(b, k).kind \in {"NOEVENT", "START", "FINISH", "ABORT"}
BY Tree DEF ToFather, NoEvent

LEMMA EndsTypes ==
  ASSUME TypeOK, NEW b \in Nodes, NEW s \in State, NEW k \in {"START", "FINISH", "ABORT"},
         Ends(b, s, k)
  PROVE  /\ state' \in [Nodes -> State]
         /\ event'.from \in Nodes /\ event'.kind \in {"NOEVENT", "START", "FINISH", "ABORT"}
BY ToFatherTypes DEF Ends, TypeOK

LEMMA BlocFinishTypes ==
  ASSUME TypeOK, NEW b \in Nodes, NEW st \in [Nodes -> State], BlocFinish(b, st)
  PROVE  /\ state' \in [Nodes -> State]
         /\ event'.from \in Nodes /\ event'.kind \in {"NOEVENT", "START", "FINISH", "ABORT"}
BY ToFatherTypes DEF BlocFinish, State

LEMMA TurnTypes ==
  ASSUME TypeOK, NEW l \in Loops, NEW counted \in [Loops -> Nat], TurnAgain(l, counted),
         UNCHANGED <<threads, fakes>>
  PROVE  TypeOK'
<1> DEFINE B == ChildrenOf(l)
           I == B \cup UNION {Inside(n) : n \in B}
<1>1. PICK v \in FreshInputs(B) :
        InitAndEnter([state EXCEPT ![l] = "ACTIVATED"], I, B, v, KeptGates(gate, I))
  BY DEF TurnAgain
<1>2. [state EXCEPT ![l] = "ACTIVATED"] \in [Nodes -> State]
  BY DEF TypeOK, State
<1>3. KeptGates(gate, I) \in SUBSET CtrlLinks
  BY DEF KeptGates, TypeOK
<1>4. turns' \in [Loops -> Nat] /\ event' = NoEvent
  BY DEF TurnAgain
<1> HIDE DEF I
<1>5. NoEvent.from \in Nodes /\ NoEvent.kind = "NOEVENT"
  BY Tree DEF NoEvent
<1>6. /\ state' \in [Nodes -> State] /\ gate' \subseteq CtrlLinks
      /\ \A c \in Control : input'[c] \in Steps \cup Conditions \cup Selections
      /\ fake' \in [Control -> {NoFake} \cup
                 [ends : {"ok", "error", "internal"},
                  state : {"TOLOAD", "TOACTIVATE", "ACTIVATED"}]]
  BY <1>1, <1>2, <1>3, EnterTypes
<1> QED BY <1>4, <1>5, <1>6 DEF TypeOK

LEMMA InitTypes == Init => TypeOK
<1>1. NoEvent.from \in Nodes /\ NoEvent.kind = "NOEVENT"
  BY Tree DEF NoEvent
<1> QED BY <1>1 DEF Init, TypeOK, State, Conditions

LEMMA NextTypes == TypeOK /\ EventInv /\ [Next]_vars => TypeOK'
<1> SUFFICES ASSUME TypeOK, EventInv, [Next]_vars PROVE TypeOK'
  OBVIOUS
<1>0. NoEvent.from \in Nodes /\ NoEvent.kind = "NOEVENT"
  BY Tree DEF NoEvent
<1>1. CASE StartSchema
  <2>1. PICK v \in FreshInputs({Root}) : InitAndEnter(state, {}, {Root}, v, gate)
    BY <1>1 DEF StartSchema
  <2>2. state \in [Nodes -> State] /\ gate \in SUBSET CtrlLinks
    BY DEF TypeOK
  <2>3. /\ state' \in [Nodes -> State] /\ gate' \subseteq CtrlLinks
        /\ \A c \in Control : input'[c] \in Steps \cup Conditions \cup Selections
        /\ fake' \in [Control -> {NoFake} \cup
                 [ends : {"ok", "error", "internal"},
                  state : {"TOLOAD", "TOACTIVATE", "ACTIVATED"}]]
    BY <2>1, <2>2, EnterTypes
  <2> QED BY <1>1, <2>3 DEF StartSchema, TypeOK
<1>2. CASE OnStart \/ ControlFailed \/ SwitchFinished
  <2>1. /\ state' \in [Nodes -> State]
        /\ event'.from \in Nodes /\ event'.kind \in {"NOEVENT", "START", "FINISH", "ABORT"}
    BY <1>2, EventFather, EndsTypes DEF OnStart, ControlFailed, SwitchFinished, State
  <2> QED BY <1>2, <2>1 DEF OnStart, ControlFailed, SwitchFinished, TypeOK
<1>3. CASE BlocLastFinished
  <2>1. /\ state' \in [Nodes -> State]
        /\ event'.from \in Nodes /\ event'.kind \in {"NOEVENT", "START", "FINISH", "ABORT"}
    BY <1>3, EventFather, BlocFinishTypes DEF BlocLastFinished, TypeOK
  <2> QED BY <1>3, <2>1 DEF BlocLastFinished, TypeOK
<1>4. CASE BlocFinished
  <2> DEFINE n == event.from
             g == gate \cup ({n} \X Successors(n))
             O == {m \in Successors(n) : Precursors(m) \X {m} \subseteq g}
  <2>1. PICK v \in FreshInputs(O) : InitAndEnter(state, {}, O, v, g)
    BY <1>4 DEF BlocFinished
  <2>2. state \in [Nodes -> State] /\ g \in SUBSET CtrlLinks
    BY DEF TypeOK, Successors
  <2> HIDE DEF O, g
  <2>3. /\ state' \in [Nodes -> State] /\ gate' \subseteq CtrlLinks
        /\ \A c \in Control : input'[c] \in Steps \cup Conditions \cup Selections
        /\ fake' \in [Control -> {NoFake} \cup
                 [ends : {"ok", "error", "internal"},
                  state : {"TOLOAD", "TOACTIVATE", "ACTIVATED"}]]
    BY <2>1, <2>2, EnterTypes
  <2> QED BY <1>0, <1>4, <2>3 DEF BlocFinished, TypeOK
<1>5. CASE BlocFailed
  <2> DEFINE st == [m \in Nodes |-> IF m \in Downstream[event.from] THEN "FAILED" ELSE state[m]]
  <2>1. st \in [Nodes -> State]
    BY DEF TypeOK, State
  <2>2. BlocFinish(Father[event.from], st) \/ (state' = st /\ event' = NoEvent)
    BY <1>5 DEF BlocFailed
  <2>3. Father[event.from] \in Nodes
    BY <1>5, EventFather DEF BlocFailed
  <2> HIDE DEF st
  <2>4. /\ state' \in [Nodes -> State]
        /\ event'.from \in Nodes /\ event'.kind \in {"NOEVENT", "START", "FINISH", "ABORT"}
    BY <1>0, <2>1, <2>2, <2>3, BlocFinishTypes
  <2> QED BY <1>5, <2>4 DEF BlocFailed, TypeOK
<1>6. CASE ForTurn \/ WhileTurn
  <2> DEFINE l == Father[event.from]
             counted == [turns EXCEPT ![l] = @ + 1]
  <2>1. l \in Loops /\ l \in Nodes /\ counted \in [Loops -> Nat] /\ UNCHANGED <<threads, fakes>>
    BY <1>6, EventFather DEF ForTurn, WhileTurn, Loops, TypeOK
  <2>2. \/ Ends(l, "DONE", "FINISH") /\ turns' = counted /\ UNCHANGED <<gate, input, fake>>
        \/ TurnAgain(l, counted)
    BY <1>6 DEF ForTurn, WhileTurn
  <2> HIDE DEF l, counted
  <2>3. CASE TurnAgain(l, counted)
    BY <2>1, <2>3, TurnTypes
  <2>4. CASE Ends(l, "DONE", "FINISH") /\ turns' = counted /\ UNCHANGED <<gate, input, fake>>
    BY <2>1, <2>4, EndsTypes DEF TypeOK, State
  <2> QED BY <2>2, <2>3, <2>4
<1>7. ASSUME NEW n \in Elem, TaskCall(n) PROVE TypeOK'
  <2>0. n \in Nodes
    BY Tree
  <2>1. CASE Load(n)
    BY <1>7, <2>0, <2>1 DEF Load, TypeOK, State
  <2>2. CASE Begin(n)
    BY <1>7, <2>0, <2>2 DEF Begin, TypeOK, State
  <2>3. CASE Aborted(n)
    BY <1>7, <2>0, <2>3 DEF Aborted, TypeOK, State
  <2>4. CASE Finished(n)
    <3>1. PICK again \in [Whiles -> {0, 1}] :
            input' = [c \in Control |-> IF c \in Whiles /\ Writer[c] = n THEN again[c] ELSE input[c]]
      BY <2>4 DEF Finished
    <3>2. \A c \in Control : input'[c] \in Steps \cup Conditions \cup Selections
      BY <3>1 DEF TypeOK, Conditions
    <3> QED BY <2>0, <2>4, <3>2 DEF Finished, TypeOK, State
  <2> QED BY <1>7, <2>1, <2>2, <2>3, <2>4 DEF TaskCall
<1>8. ASSUME NEW c \in Control, FakeCall(c) PROVE TypeOK'
  <2>0. c \in Nodes
    BY Tree
  <2>1. CASE FakeBegin(c)
    <3>1. fake[c] # NoFake
      BY <2>1 DEF FakeBegin, NoFake
    <3>2. [fake EXCEPT ![c].state = "ACTIVATED"] \in [Control -> {NoFake} \cup
                 [ends : {"ok", "error", "internal"},
                  state : {"TOLOAD", "TOACTIVATE", "ACTIVATED"}]]
      BY <3>1 DEF TypeOK
    <3> QED BY <2>1, <3>2 DEF FakeBegin, TypeOK
  <2>2. CASE FakeEnds(c)
    <3>1. state' \in [Nodes -> State]
      BY <2>0, <2>2 DEF FakeEnds, TypeOK, State
    <3> QED BY <2>0, <2>2, <3>1 DEF FakeEnds, TypeOK
  <2> QED BY <1>8, <2>1, <2>2 DEF FakeCall
<1>9. CASE UNCHANGED vars
  BY <1>9 DEF vars, TypeOK
<1> QED BY <1>1, <1>2, <1>3, <1>4, <1>5, <1>6, <1>7, <1>8, <1>9 DEF Next, UpdateStateFrom

-----------------------------------------------------------------------------
(* exUpdateState                                                           *)

\* What is inside a node that has not been entered has not been entered.
LEMMA FreshInside ==
  ASSUME FreshInv, NEW b \in Composed, state[b] = "READY", NEW n \in Inside(b)
  PROVE  state[n] = "READY"
<1> SUFFICES ASSUME state[n] # "READY" PROVE FALSE
  OBVIOUS
<1> DEFINE X == {y \in Nodes : state[y] # "READY"}
<1>1. n \in Nodes /\ n \in X /\ b \in Enclosing[n]
  BY Tree DEF Inside
<1>2. ASSUME NEW y \in ({n} \cup Enclosing[n]) \ {Root}, y \in X PROVE Father[y] \in X
  <2>1. y \in Children /\ y \in ChildrenOf(Father[y]) /\ Father[y] \in Composed /\ Father[y] \in Nodes
    BY <1>1, EnclosingUp, Tree DEF ChildrenOf
  <2> QED BY <1>2, <2>1 DEF FreshInv
<1>3. b \in X
  <2> HIDE DEF X
  <2> QED BY <1>1, <1>2, Upwards
<1> QED BY <1>3

\* What a call of exUpdateState finds, after init of the nodes of I: nodes that
\* are fresh, in a node that goes on, behind gates that are open.
Entrance(I, S, g) ==
  /\ I \subseteq Children /\ S \subseteq Nodes
  /\ \A n \in Children : Father[n] \in I => n \in I
  /\ \A n \in I : Father[n] \in I \/ state[Father[n]] = "ACTIVATED"
  /\ \A l \in CtrlLinks : l[1] \in I <=> l[2] \in I
  /\ \A s \in S : s \in I \/ state[s] = "READY"
  /\ \A s \in S \cap Children : /\ state[Father[s]] = "ACTIVATED" /\ Father[s] \notin I
                                /\ Precursors(s) \X {s} \subseteq g
  /\ \A n \in threads \cup fakes : n \notin I /\ Enclosing[n] \cap I = {}
  /\ g \in SUBSET CtrlLinks
  /\ \A l \in g : l[2] \notin I /\ state[l[1]] = "DONE"
  /\ \A l \in gate : l[2] \notin I => l \in g

\* Loop::init puts the counter back to 0; a loop that goes on may count a turn.
Counted(I) ==
  /\ turns' \in [Loops -> Nat]
  /\ \A k \in Loops \cap I : turns'[k] = 0
  /\ \A k \in Loops \ I : \/ turns'[k] = turns[k]
                          \/ state[k] = "ACTIVATED" /\ (k \in Fors => turns'[k] < input[k])

\* What is inside a node of I is in I.
LEMMA InitInside ==
  ASSUME NEW I, \A n \in Children : Father[n] \in I => n \in I,
         NEW n \in Nodes, NEW s \in Enclosing[n], s \in I
  PROVE  n \in I
<1> SUFFICES ASSUME n \notin I PROVE FALSE
  OBVIOUS
<1> DEFINE X == {y \in Nodes : y \notin I}
<1>1. n \in X
  OBVIOUS
<1>2. ASSUME NEW y \in ({n} \cup Enclosing[n]) \ {Root}, y \in X PROVE Father[y] \in X
  BY <1>2, EnclosingUp, Tree
<1>3. s \in X
  <2> HIDE DEF X
  <2> QED BY <1>1, <1>2, Upwards
<1> QED BY <1>3

LEMMA EnteredIn ==
  ASSUME FreshInv, NEW I, NEW S, NEW g, NEW v, Entrance(I, S, g), NEW x \in Entered(S, v, g)
  PROVE  /\ x \in Nodes /\ (x \in I \/ state[x] = "READY")
         /\ ({x} \cup Enclosing[x]) \cap S # {}
         /\ x \in S \/ ( /\ x \in Children /\ Father[x] \in Entered(S, v, g)
                         /\ x \in Enters(Father[x], v, g) )
<1>1. CASE x \in S
  BY <1>1 DEF Entrance
<1>2. CASE x \notin S
  <2>1. x \in Children /\ x \in Nodes
    BY <1>2, Tree DEF Entered
  <2>2. PICK s \in S \cap Enclosing[x] : \A m \in {x} \cup Enclosing[x] :
            s \in Enclosing[m] => m \in Enters(Father[m], v, g)
    BY <1>2 DEF Entered
  <2>3. s \in Nodes /\ s \in Composed /\ x \in Inside(s)
    BY <2>1, <2>2, EnclosingIn, Tree DEF Inside
  <2>4. x \in I \/ state[x] = "READY"
    BY <2>1, <2>2, <2>3, FreshInside, InitInside DEF Entrance
  <2>5. x \in Enters(Father[x], v, g)
    BY <2>2
  <2>6. Enclosing[x] = {Father[x]} \cup Enclosing[Father[x]] /\ Father[x] \in Nodes
    BY <2>1, EnclosingStep, Tree
  <2>7. Father[x] \in Entered(S, v, g)
    <3>1. CASE s = Father[x]
      BY <2>2, <3>1 DEF Entered
    <3>2. CASE s \in Enclosing[Father[x]]
      <4>1. Father[x] \in Children
        BY <2>6, <3>2, EnclosingRoot, Tree
      <4>2. \A m \in {Father[x]} \cup Enclosing[Father[x]] : s \in Enclosing[m] => m \in Enters(Father[m], v, g)
        BY <2>2, <2>6
      <4> QED BY <2>2, <3>2, <4>1, <4>2 DEF Entered
    <3> QED BY <2>2, <2>6, <3>1, <3>2
  <2> QED BY <2>1, <2>2, <2>4, <2>5, <2>7
<1> QED BY <1>1, <1>2

\* What exUpdateState makes of each node.
EntersFrom(I, E) ==
  /\ \A n \in Nodes : state'[n] = IF n \in E THEN (IF n \in Composed THEN "ACTIVATED" ELSE "TOLOAD")
                                  ELSE IF n \in I THEN "READY" ELSE state[n]
  /\ \A c \in Control : c \notin E => input'[c] = input[c]
  /\ \A c \in Control : c \notin E /\ c \notin I => fake'[c] = fake[c]

LEMMA EnterStates ==
  ASSUME TypeOK, FreshInv, NEW I, NEW S, NEW g, NEW v, Entrance(I, S, g),
         InitAndEnter(state, I, S, v, g)
  PROVE  EntersFrom(I, Entered(S, v, g))
<1> DEFINE E == Entered(S, v, g)
           inited == [n \in Nodes |-> IF n \in I THEN "READY" ELSE state[n]]
<1>1. \A x \in E : x \in Nodes /\ inited[x] = "READY"
  BY EnteredIn
<1>2. state' = [n \in Nodes |->
                  CASE n \in E \cap Composed                       -> "ACTIVATED"
                    [] n \in E \cap Elem /\ inited[n] = "READY"    -> "TOLOAD"
                    [] OTHER                                       -> inited[n]]
  BY DEF InitAndEnter
<1>3. \A c \in Control : /\ input'[c] = IF c \in E THEN v[c] ELSE input[c]
                         /\ fake'[c] = IF c \in E THEN FakeAfter(c, v[c])
                                       ELSE IF c \in I \cap Loops THEN NoFake ELSE fake[c]
  BY DEF InitAndEnter
<1>4. \A n \in Nodes : state'[n] = IF n \in E THEN (IF n \in Composed THEN "ACTIVATED" ELSE "TOLOAD")
                                   ELSE IF n \in I THEN "READY" ELSE state[n]
  <2> HIDE DEF E
  <2> QED BY <1>1, <1>2, Tree
<1> HIDE DEF E
<1>5. EntersFrom(I, E)
  BY <1>3, <1>4 DEF EntersFrom
<1> QED BY <1>5 DEF E

-----------------------------------------------------------------------------
(* What is asked for tasks                                                 *)

LEMMA AskedAround ==
  ASSUME NEW n \in Nodes, Asked(n), NEW b \in Enclosing[n]
  PROVE  /\ b \in Composed /\ state[b] = "ACTIVATED" /\ (b \in Loops => fake[b] = NoFake)
         /\ \E c \in ChildrenOf(b) : /\ c \in {n} \cup Enclosing[n]
                                     /\ b \in Switches => c \in Chosen(b, input[b])
<1>1. PICK c \in ChildrenOf(b) : c \in {n} \cup Enclosing[n]
  BY ChildAround
<1>2. c \in Children /\ c # Root /\ Father[c] = b
  BY Tree DEF ChildrenOf
<1>3. b \in Composed
  BY EnclosingIn
<1> QED BY <1>1, <1>2, <1>3 DEF Asked

LEMMA AskedStays ==
  ASSUME NEW n \in Nodes, Asked(n),
         \A b \in Enclosing[n] : /\ state'[b] = state[b]
                                 /\ b \in Loops /\ fake[b] = NoFake => fake'[b] = NoFake
                                 /\ b \in Switches => input'[b] = input[b]
  PROVE  Asked(n)'
<1> SUFFICES ASSUME NEW m \in ({n} \cup Enclosing[n]) \ {Root}
             PROVE  /\ state'[Father[m]] = "ACTIVATED"
                    /\ Father[m] \in Loops    => fake'[Father[m]] = NoFake
                    /\ Father[m] \in Switches => m \in Chosen(Father[m], input'[Father[m]])
  BY DEF Asked
<1>1. Father[m] \in Enclosing[n]
  BY EnclosingUp
<1>2. /\ state[Father[m]] = "ACTIVATED"
      /\ Father[m] \in Loops    => fake[Father[m]] = NoFake
      /\ Father[m] \in Switches => m \in Chosen(Father[m], input[Father[m]])
  BY DEF Asked
<1> QED BY <1>1, <1>2

\* The father is asked before its children.
LEMMA AskedFather ==
  ASSUME NEW n \in Children, Asked(n)
  PROVE  /\ Father[n] \in Children => Asked(Father[n])
         /\ Father[n] \in Composed /\ state[Father[n]] = "ACTIVATED"
         /\ Father[n] \in Loops    => fake[Father[n]] = NoFake
         /\ Father[n] \in Switches => n \in Chosen(Father[n], input[Father[n]])
<1>1. Enclosing[n] = {Father[n]} \cup Enclosing[Father[n]] /\ n # Root /\ Father[n] \in Composed
  BY EnclosingStep, Tree
<1> QED BY <1>1 DEF Asked

\* A loop has one child, and a Switch selects one branch at most.
LEMMA OneChild ==
  ASSUME NEW b \in Control, NEW m \in ChildrenOf(b), NEW n \in ChildrenOf(b),
         b \in Switches => m \in Chosen(b, input[b]) /\ n \in Chosen(b, input[b])
  PROVE  m = n
<1>1. CASE b \in Loops
  BY <1>1, TreeAssumption
<1>2. CASE b \in Switches
  <2>1. Case[m] = Case[n]
    BY <1>2 DEF Chosen
  <2> QED BY <1>2, <2>1, TreeAssumption
<1> QED BY <1>1, <1>2, Tree

-----------------------------------------------------------------------------
(* What exUpdateState keeps                                                *)

\* The nodes it enters or init clears are not around what runs, nor done.
LEMMA EnterRun ==
  ASSUME RunInv, FreshInv, NEW I, NEW S, NEW g, NEW v, Entrance(I, S, g),
         EntersFrom(I, Entered(S, v, g)), threads' = threads, fakes' = fakes, TypeOK
  PROVE  RunInv'
<1> DEFINE E == Entered(S, v, g)
<1>1. \A x \in E : x \in I \/ state[x] = "READY"
  BY EnteredIn
<1> HIDE DEF E
<1>2. ASSUME NEW n \in threads \cup fakes
      PROVE  /\ n \in Nodes /\ Asked(n)' /\ state'[n] = state[n]
             /\ n \in Control => input'[n] = input[n] /\ fake'[n] = fake[n]
  <2>1. n \in Nodes /\ Asked(n) /\ state[n] # "READY" /\ n \notin I /\ Enclosing[n] \cap I = {}
    BY <1>2, Tree DEF RunInv, TypeOK, Entrance
  <2>2. ASSUME NEW b \in Enclosing[n]
        PROVE  b \in Nodes /\ b \in Composed /\ state[b] = "ACTIVATED" /\ b \notin E /\ b \notin I
    BY <1>1, <2>1, AskedAround, EnclosingIn, Tree
  <2>3. \A b \in Enclosing[n] : /\ state'[b] = state[b]
                                /\ b \in Loops => fake'[b] = fake[b]
                                /\ b \in Switches => input'[b] = input[b]
    BY <2>2, Tree DEF EntersFrom, E
  <2>4. n \notin E
    BY <1>1, <2>1
  <2>5. Asked(n)'
    BY <2>1, <2>3, AskedStays
  <2> QED BY <2>1, <2>4, <2>5 DEF EntersFrom, E
<1> QED BY <1>2 DEF RunInv, TypeOK

LEMMA EnterFresh ==
  ASSUME FreshInv, NEW I, NEW S, NEW g, NEW v, Entrance(I, S, g),
         EntersFrom(I, Entered(S, v, g)), Counted(I), TypeOK
  PROVE  FreshInv'
<1> DEFINE E == Entered(S, v, g)
<1>1. \A x \in E : /\ x \in I \/ state[x] = "READY"
                   /\ x \in S \/ Father[x] \in E
  BY EnteredIn
<1> HIDE DEF E
<1>2. SUFFICES ASSUME NEW b \in Composed, state'[b] = "READY"
               PROVE  /\ \A n \in ChildrenOf(b) : state'[n] = "READY"
                      /\ b \in Loops => turns'[b] = 0
  BY DEF FreshInv
<1>3. b \in Nodes /\ b \notin E /\ (b \in I \/ state[b] = "READY")
  BY <1>2, Tree DEF EntersFrom, E
<1>4. ASSUME NEW n \in ChildrenOf(b) PROVE state'[n] = "READY"
  <2>1. n \in Children /\ n \in Nodes /\ Father[n] = b
    BY Tree DEF ChildrenOf
  <2>2. n \notin E
    BY <1>1, <1>3, <2>1 DEF Entrance
  <2>3. n \in I \/ state[n] = "READY"
    BY <1>3, <2>1 DEF Entrance, FreshInv, ChildrenOf
  <2> QED BY <2>1, <2>2, <2>3 DEF EntersFrom, E
<1>5. b \in Loops => turns'[b] = 0
  BY <1>3 DEF Counted, FreshInv
<1> QED BY <1>4, <1>5

LEMMA EnterFor ==
  ASSUME ForInv, FreshInv, NEW I, NEW S, NEW g, NEW v \in FreshInputs(S), Entrance(I, S, g),
         EntersFrom(I, Entered(S, v, g)), InitAndEnter(state, I, S, v, g), Counted(I), TypeOK
  PROVE  ForInv'
<1> DEFINE E == Entered(S, v, g)
<1>1. \A x \in E : /\ x \in I \/ state[x] = "READY"
                   /\ ({x} \cup Enclosing[x]) \cap S # {}
  BY EnteredIn
<1>2. \A c \in Control : c \in E => input'[c] = v[c] /\ fake'[c] = FakeAfter(c, v[c])
  BY DEF InitAndEnter
<1> HIDE DEF E
<1>3. SUFFICES ASSUME NEW l \in Fors, state'[l] = "ACTIVATED", fake'[l] = NoFake
               PROVE  input'[l] \in Int /\ turns'[l] < input'[l]
  BY DEF ForInv
<1>4. l \in Control /\ l \in Loops /\ l \in Composed /\ l \in Nodes /\ l \notin Switches
  BY Tree
<1>5. CASE l \in E
  <2>1. v[l] \in Steps
    BY <1>1, <1>4, <1>5, FreshTypes DEF InputsOf
  <2>2. ForEnd(l, v[l]) = "none"
    <3>1. FakeAfter(l, v[l]) = NoFake
      BY <1>2, <1>3, <1>4, <1>5
    <3>2. FakeEnd(l, v[l]) = ForEnd(l, v[l])
      BY DEF FakeEnd
    <3>3. FakeEnd(l, v[l]) \in {"none", "ok", "error", "internal"}
      BY <1>4, FakeEndTypes
    <3> QED BY <3>1, <3>2, <3>3 DEF FakeAfter, NoFake
  <2>3. v[l] \in Int /\ v[l] > 0
    BY <2>1, <2>2, TreeAssumption DEF ForEnd, NothingToRun
  <2>4. turns'[l] = 0
    BY <1>1, <1>4, <1>5 DEF Counted, FreshInv
  <2> QED BY <1>2, <1>4, <1>5, <2>3, <2>4
<1>6. CASE l \notin E
  <2>1. l \notin I /\ state[l] = "ACTIVATED" /\ fake[l] = NoFake /\ input'[l] = input[l]
    BY <1>3, <1>4, <1>6 DEF EntersFrom, E
  <2> QED BY <1>4, <2>1 DEF Counted, ForInv
<1> QED BY <1>5, <1>6

LEMMA EnterDone ==
  ASSUME DoneInv, FreshInv, NEW I, NEW S, NEW g, NEW v, Entrance(I, S, g),
         EntersFrom(I, Entered(S, v, g)), TypeOK
  PROVE  DoneInv'
<1> DEFINE E == Entered(S, v, g)
<1>1. \A x \in E : /\ x \in I \/ state[x] = "READY"
                   /\ x \in S \/ Father[x] \in E
  BY EnteredIn
<1> HIDE DEF E
<1>2. SUFFICES ASSUME NEW n \in Children, state'[Father[n]] = "DONE", Relevant(n)'
               PROVE  state'[n] = "DONE"
  BY DEF DoneInv
<1> DEFINE b == Father[n]
<1>3. b \in Nodes /\ b \in Composed /\ n \in Nodes
  BY Tree
<1>4. b \notin E /\ b \notin I /\ state[b] = "DONE"
  BY <1>2, <1>3 DEF EntersFrom, E
<1>5. n \notin E /\ n \notin I
  BY <1>1, <1>4 DEF Entrance
<1>6. Relevant(n)
  BY <1>2, <1>4, Tree DEF Relevant, EntersFrom, E
<1> QED BY <1>3, <1>4, <1>5, <1>6 DEF DoneInv, EntersFrom, E

LEMMA EnterOpen ==
  ASSUME OpenInv, FreshInv, NEW I, NEW S, NEW g, NEW v, Entrance(I, S, g),
         EntersFrom(I, Entered(S, v, g)), InitAndEnter(state, I, S, v, g), TypeOK
  PROVE  OpenInv'
<1> DEFINE E == Entered(S, v, g)
<1>1. \A x \in E : x \in I \/ state[x] = "READY"
  BY EnteredIn
<1>2. gate' = g
  BY DEF InitAndEnter
<1>3. ASSUME NEW x \in E PROVE x \in S \/ x \in Enters(Father[x], v, g)
  <2>1. x \in Entered(S, v, g)
    OBVIOUS
  <2> QED BY <2>1, EnteredIn
<1> HIDE DEF E
<1>4. ASSUME NEW l \in gate' PROVE state'[l[1]] = "DONE"
  <2>1. l \in CtrlLinks /\ l[1] \in Children /\ l[1] \in Nodes
    BY <1>2, TreeAssumption, Tree DEF Entrance
  <2>2. l[1] \notin I /\ state[l[1]] = "DONE"
    BY <1>2, <2>1 DEF Entrance
  <2> QED BY <1>1, <2>1, <2>2 DEF EntersFrom, E
<1>5. ASSUME NEW n \in Children, n \in E PROVE Open(n)'
  <2>1. CASE n \in S
    BY <1>2, <2>1 DEF Entrance, Open
  <2>2. CASE n \in Enters(Father[n], v, g) /\ Father[n] \in Blocs
    BY <1>2, <2>2 DEF Enters, Open
  <2>3. CASE Father[n] \notin Blocs
    <3>1. Precursors(n) = {}
      BY <2>3, TreeAssumption DEF Precursors
    <3> QED BY <3>1 DEF Open
  <2> QED BY <1>3, <1>5, <2>1, <2>2, <2>3
<1>6. ASSUME NEW n \in Children, n \notin E, n \notin I, Open(n) PROVE Open(n)'
  BY <1>2, <1>6 DEF Open, Entrance
<1>7. ASSUME NEW n \in Children, n \notin E, n \notin I, NEW p \in Precursors(n), state[p] \in Bad
      PROVE  state'[p] \in Bad
  <2>1. p \in Children /\ p \in Nodes /\ <<p, n>> \in CtrlLinks
    BY Tree DEF Precursors
  <2>2. p \notin I
    BY <1>7, <2>1 DEF Entrance
  <2>3. p \notin E
    BY <1>1, <1>7, <2>2 DEF Bad
  <2> QED BY <1>7, <2>1, <2>2, <2>3 DEF EntersFrom, E
<1>8. ASSUME NEW n \in Children
      PROVE  /\ state'[n] \notin {"READY", "FAILED"} => Open(n)'
             /\ state'[n] = "FAILED" => Open(n)' \/ \E p \in Precursors(n) : state'[p] \in Bad
  <2>1. CASE n \in E
    BY <1>5, <2>1
  <2>2. CASE n \notin E /\ n \in I
    <3>1. state'[n] = "READY"
      BY <2>2, Tree DEF EntersFrom, E
    <3> QED BY <3>1
  <2>3. CASE n \notin E /\ n \notin I
    <3>1. state'[n] = state[n]
      BY <2>3, Tree DEF EntersFrom, E
    <3> QED BY <1>6, <1>7, <2>3, <3>1 DEF OpenInv
  <2> QED BY <2>1, <2>2, <2>3
<1> QED BY <1>4, <1>8 DEF OpenInv

LEMMA EnterKeeps ==
  ASSUME TurnInv, NEW I, NEW S, NEW g, NEW v \in FreshInputs(S), Entrance(I, S, g),
         InitAndEnter(state, I, S, v, g), Counted(I), threads' = threads, fakes' = fakes,
         event'.kind = "NOEVENT"
  PROVE  RunInv' /\ EventInv' /\ OpenInv' /\ FreshInv' /\ ForInv' /\ DoneInv'
<1> USE DEF TurnInv
<1>1. EntersFrom(I, Entered(S, v, g))
  BY EnterStates
<1>2. RunInv' /\ OpenInv'
  BY <1>1, EnterRun, EnterOpen
<1>3. FreshInv' /\ ForInv' /\ DoneInv'
  BY <1>1, EnterFresh, EnterFor, EnterDone
<1> QED BY <1>2, <1>3 DEF EventInv

-----------------------------------------------------------------------------
(* The other steps                                                         *)

\* A step that starts the nodes of G, ends those of F, and fails those of D
\* behind a node that has failed.
Moves(G, F, D) ==
  /\ G \subseteq Elem /\ F \subseteq Nodes /\ D \subseteq Children /\ D \cap F = {}
  /\ \A n \in Nodes : n \notin G /\ n \notin F /\ n \notin D => state'[n] = state[n]
  /\ \A n \in G : /\ state[n] \in {"TOLOAD", "TOACTIVATE"} /\ n \notin F
                  /\ state'[n] \in {"TOACTIVATE", "ACTIVATED"}
  /\ \A b \in F : /\ state[b] \in {"TOACTIVATE", "ACTIVATED"} /\ state'[b] \in {"DONE"} \cup Bad
                  /\ \A n \in ChildrenOf(b) : state'[b] = "DONE" /\ Relevant(n) => state'[n] = "DONE"
                  /\ \A n \in threads' \cup fakes' : b \notin Enclosing[n]
  /\ \A m \in D : /\ state[m] \in {"READY", "FAILED"} /\ state'[m] = "FAILED"
                  /\ state[Father[m]] # "READY" /\ \E p \in Precursors(m) : state'[p] \in Bad
  /\ gate' = gate
  /\ \A c \in Control : c \notin Whiles => input'[c] = input[c]
  /\ \A c \in Control : fake'[c] = NoFake <=> fake[c] = NoFake
  /\ turns' \in [Loops -> Nat] /\ \A k \in Loops : k \notin F => turns'[k] = turns[k]
  /\ \A n \in threads' : n \in Nodes /\ Asked(n) /\ state'[n] \in {"TOACTIVATE", "ACTIVATED"}
  /\ \A c \in fakes' : /\ c \in Control /\ Asked(c) /\ state'[c] = "ACTIVATED" /\ fake[c] # NoFake
                       /\ c \in Switches => Chosen(c, input[c]) = {}

LEMMA MovesRun ==
  ASSUME NEW G, NEW F, NEW D, Moves(G, F, D)
  PROVE  RunInv'
<1>1. ASSUME NEW n \in threads' \cup fakes' PROVE Asked(n)'
  <2>1. n \in Nodes /\ Asked(n)
    BY <1>1, Tree DEF Moves
  <2>2. ASSUME NEW b \in Enclosing[n]
        PROVE  /\ state'[b] = state[b]
               /\ b \in Loops /\ fake[b] = NoFake => fake'[b] = NoFake
               /\ b \in Switches => input'[b] = input[b]
    <3>1. b \in Composed /\ b \in Nodes /\ state[b] = "ACTIVATED"
      BY <2>1, AskedAround, Tree
    <3>2. b \notin F
      BY <1>1 DEF Moves
    <3>3. b \notin G /\ b \notin D
      BY <3>1, Tree DEF Moves
    <3> QED BY <3>1, <3>2, <3>3, Tree DEF Moves
  <2> QED BY <2>1, <2>2, AskedStays
<1>2. \A c \in fakes' : c \in Switches => input'[c] = input[c]
  BY Tree DEF Moves
<1> QED BY <1>1, <1>2 DEF Moves, RunInv

LEMMA MovesOpen ==
  ASSUME OpenInv, TypeOK, NEW G, NEW F, NEW D, Moves(G, F, D)
  PROVE  OpenInv'
<1>1. ASSUME NEW l \in gate PROVE state'[l[1]] = "DONE"
  <2>1. l[1] \in Nodes /\ state[l[1]] = "DONE"
    BY TreeAssumption, Tree DEF TypeOK, OpenInv
  <2> QED BY <2>1 DEF Moves
<1>2. ASSUME NEW n \in Children
      PROVE  /\ state'[n] \notin {"READY", "FAILED"} => Open(n)'
             /\ state'[n] = "FAILED" => Open(n)' \/ \E p \in Precursors(n) : state'[p] \in Bad
  <2>1. Open(n)' <=> Open(n)
    BY DEF Open, Moves
  <2>2. CASE n \in G \/ n \in F
    BY <1>2, <2>1, <2>2 DEF Moves, OpenInv
  <2>3. CASE n \in D
    BY <2>3 DEF Moves
  <2>4. CASE n \notin G /\ n \notin F /\ n \notin D
    <3>1. state'[n] = state[n]
      BY <2>4, Tree DEF Moves
    <3>2. ASSUME NEW p \in Precursors(n), state[p] \in Bad PROVE state'[p] \in Bad
      <4>1. p \in Nodes
        BY Tree DEF Precursors
      <4> QED BY <3>2, <4>1 DEF Moves, Bad
    <3> QED BY <2>1, <3>1, <3>2 DEF OpenInv
  <2> QED BY <2>2, <2>3, <2>4
<1>3. gate' = gate
  BY DEF Moves
<1> QED BY <1>1, <1>2, <1>3 DEF OpenInv

LEMMA MovesFresh ==
  ASSUME FreshInv, NEW G, NEW F, NEW D, Moves(G, F, D)
  PROVE  FreshInv'
<1> SUFFICES ASSUME NEW b \in Composed, state'[b] = "READY"
             PROVE  /\ \A n \in ChildrenOf(b) : state'[n] = "READY"
                    /\ b \in Loops => turns'[b] = 0
  BY DEF FreshInv
<1>1. b \notin G /\ b \notin F /\ b \notin D /\ state[b] = "READY"
  BY Tree DEF Moves, Bad
<1>2. ASSUME NEW n \in ChildrenOf(b) PROVE state'[n] = "READY"
  <2>1. n \in Nodes /\ n \in Children /\ Father[n] = b /\ state[n] = "READY"
    BY <1>1, Tree DEF FreshInv, ChildrenOf
  <2> QED BY <1>1, <2>1 DEF Moves
<1> QED BY <1>1, <1>2 DEF Moves, FreshInv

LEMMA MovesFor ==
  ASSUME ForInv, NEW G, NEW F, NEW D, Moves(G, F, D)
  PROVE  ForInv'
<1> SUFFICES ASSUME NEW l \in Fors, state'[l] = "ACTIVATED", fake'[l] = NoFake
             PROVE  input'[l] \in Int /\ turns'[l] < input'[l]
  BY DEF ForInv
<1>1. l \in Loops /\ l \in Control /\ l \notin Whiles /\ l \notin Elem /\ l \in Nodes
  BY Tree
<1>2. l \notin G /\ l \notin F /\ l \notin D
  BY <1>1 DEF Moves, Bad
<1> QED BY <1>1, <1>2 DEF Moves, ForInv

LEMMA MovesDone ==
  ASSUME DoneInv, NEW G, NEW F, NEW D, Moves(G, F, D)
  PROVE  DoneInv'
<1> SUFFICES ASSUME NEW n \in Children, state'[Father[n]] = "DONE", Relevant(n)'
             PROVE  state'[n] = "DONE"
  BY DEF DoneInv
<1>1. n \in Nodes /\ Father[n] \in Nodes /\ Father[n] \in Composed
  BY Tree
<1>2. Relevant(n)
  BY Tree DEF Moves, Relevant
<1>3. CASE Father[n] \in F
  BY <1>2, <1>3 DEF Moves, ChildrenOf
<1>4. CASE Father[n] \notin F
  <2>1. state[Father[n]] = "DONE"
    BY <1>1, <1>4, Tree DEF Moves
  <2>2. state[n] = "DONE"
    BY <1>2, <2>1 DEF DoneInv
  <2> QED BY <1>1, <2>2 DEF Moves
<1> QED BY <1>3, <1>4

LEMMA MovesKeep ==
  ASSUME TurnInv, NEW G, NEW F, NEW D, Moves(G, F, D)
  PROVE  RunInv' /\ OpenInv' /\ FreshInv' /\ ForInv' /\ DoneInv'
BY MovesRun, MovesOpen, MovesFresh, MovesFor, MovesDone DEF TurnInv

\* The event of a node that has ended.
LEMMA EndedEvent ==
  ASSUME TurnInv, NEW G, NEW D, NEW b, Moves(G, {b}, D), b \in Children => Asked(b),
         \/ event'.kind = "NOEVENT"
         \/ /\ event'.from = b /\ b \in Children
            /\ event'.kind = IF state'[b] = "DONE" THEN "FINISH" ELSE "ABORT"
  PROVE  EventInv'
<1> USE DEF TurnInv
<1>1. SUFFICES ASSUME event'.kind # "NOEVENT" PROVE EventInv'
  BY DEF EventInv
<1>2. /\ b \in Nodes /\ b \in Children /\ Asked(b) /\ event'.from = b
      /\ event'.kind = IF state'[b] = "DONE" THEN "FINISH" ELSE "ABORT"
  BY <1>1, Tree
<1>3. Asked(b)'
  <2>1. ASSUME NEW e \in Enclosing[b]
        PROVE  /\ state'[e] = state[e]
               /\ e \in Loops /\ fake[e] = NoFake => fake'[e] = NoFake
               /\ e \in Switches => input'[e] = input[e]
    <3>1. e \in Composed /\ e \in Nodes /\ state[e] = "ACTIVATED" /\ e # b
      BY <1>2, AskedAround, EnclosingSelf, Tree
    <3>2. e \notin G /\ e \notin D
      BY <3>1, Tree DEF Moves
    <3> QED BY <3>1, <3>2, Tree DEF Moves
  <2> QED BY <1>2, <2>1, AskedStays
<1>4. \A l \in gate' : l[1] # b
  BY DEF Moves, OpenInv, Bad
<1>5. state'[b] \in {"DONE"} \cup Bad
  BY DEF Moves
<1> QED BY <1>2, <1>3, <1>4, <1>5 DEF EventInv, Bad

\* No task runs in a node when no child that is asked runs.
LEMMA QuietInside ==
  ASSUME TurnInv, NEW b \in Composed,
         \A c \in ChildrenOf(b) : (b \in Switches => c \in Chosen(b, input[b]))
                                    => state[c] \notin {"TOACTIVATE", "ACTIVATED"}
  PROVE  \A n \in threads \cup fakes : b \notin Enclosing[n]
<1> SUFFICES ASSUME NEW n \in threads \cup fakes, b \in Enclosing[n] PROVE FALSE
  OBVIOUS
<1>1. n \in Nodes /\ Asked(n) /\ state[n] \in {"TOACTIVATE", "ACTIVATED"}
  BY Tree DEF TurnInv, TypeOK, RunInv
<1>2. PICK c \in ChildrenOf(b) : /\ c \in {n} \cup Enclosing[n]
                                 /\ b \in Switches => c \in Chosen(b, input[b])
  BY <1>1, AskedAround
<1>3. c \in Enclosing[n] => state[c] = "ACTIVATED"
  BY <1>1, AskedAround
<1> QED BY <1>1, <1>2, <1>3

\* The father of a node that sends an event: it goes on, and asks that node
\* only if it is not a Bloc.
LEMMA Sender ==
  ASSUME TurnInv, event.kind # "NOEVENT"
  PROVE  LET n == event.from  b == Father[event.from] IN
         /\ n \in Children /\ n \in Nodes /\ b \in Nodes /\ b \in Composed /\ n # b
         /\ n \in ChildrenOf(b) /\ state[b] = "ACTIVATED" /\ (b \in Children => Asked(b))
         /\ b \in Loops => fake[b] = NoFake
         /\ b \in Switches => n \in Chosen(b, input[b])
         /\ b \notin fakes
         /\ b \in Control => \A c \in ChildrenOf(b) :
              (b \in Switches => c \in Chosen(b, input[b])) => c = n
<1> DEFINE n == event.from
           b == Father[event.from]
<1>1. n \in Children /\ Asked(n) /\ n \in Nodes /\ b \in Nodes /\ b \in Composed
  BY Tree DEF TurnInv, EventInv
<1>2. n \in ChildrenOf(b) /\ n # b
  BY <1>1, EnclosingStep, EnclosingSelf DEF ChildrenOf
<1>3. /\ b \in Children => Asked(b)
      /\ state[b] = "ACTIVATED"
      /\ b \in Loops    => fake[b] = NoFake
      /\ b \in Switches => n \in Chosen(b, input[b])
  BY <1>1, AskedFather
<1>4. b \notin fakes
  BY <1>3, Tree DEF TurnInv, RunInv, TypeOK
<1>5. ASSUME b \in Control, NEW c \in ChildrenOf(b), b \in Switches => c \in Chosen(b, input[b])
      PROVE  c = n
  BY <1>2, <1>3, <1>5, OneChild
<1> QED BY <1>1, <1>2, <1>3, <1>4, <1>5

\* A composed node ends, and sends the event on.
LEMMA EndsKeeps ==
  ASSUME TurnInv, NEW b \in Composed, state[b] = "ACTIVATED", b \notin fakes,
         b \in Children => Asked(b), NEW s \in {"DONE"} \cup Bad,
         Ends(b, s, IF s = "DONE" THEN "FINISH" ELSE "ABORT"),
         \A n \in threads \cup fakes : b \notin Enclosing[n],
         s = "DONE" => \A n \in ChildrenOf(b) : Relevant(n) => state[n] = "DONE",
         turns' \in [Loops -> Nat], \A k \in Loops : k # b => turns'[k] = turns[k],
         UNCHANGED <<gate, input, fake, threads, fakes>>
  PROVE  RunInv' /\ EventInv' /\ OpenInv' /\ FreshInv' /\ ForInv' /\ DoneInv'
<1>1. b \in Nodes /\ b \notin Elem /\ (b # Root => b \in Children)
  BY Tree
<1>2. state'[b] = s /\ \A n \in Nodes : n # b => state'[n] = state[n]
  BY <1>1 DEF Ends, TurnInv, TypeOK
<1>3. ASSUME NEW n \in ChildrenOf(b) PROVE n \in Nodes /\ n # b
  <2>1. n \in Children /\ Father[n] = b
    BY DEF ChildrenOf
  <2> QED BY <2>1, EnclosingStep, EnclosingSelf, Tree
<1>4. \A n \in threads : /\ n \in Nodes /\ Asked(n) /\ n # b
                         /\ state[n] \in {"TOACTIVATE", "ACTIVATED"}
  BY <1>1, Tree DEF TurnInv, RunInv, TypeOK
<1>5. \A c \in fakes : /\ c \in Nodes /\ c \in Control /\ Asked(c) /\ c # b
                       /\ state[c] = "ACTIVATED" /\ fake[c] # NoFake
                       /\ c \in Switches => Chosen(c, input[c]) = {}
  <2>1. \A c \in fakes : c \in Control /\ c # b
    BY DEF TurnInv, TypeOK
  <2> QED BY <2>1, Tree DEF TurnInv, RunInv
<1>6. Moves({}, {b}, {})
  BY <1>1, <1>2, <1>3, <1>4, <1>5 DEF Moves
<1>7. \/ event'.kind = "NOEVENT"
      \/ /\ event'.from = b /\ b \in Children
         /\ event'.kind = IF state'[b] = "DONE" THEN "FINISH" ELSE "ABORT"
  BY <1>1, <1>2 DEF Ends, ToFather, NoEvent
<1>8. EventInv'
  BY <1>6, <1>7, EndedEvent
<1> QED BY <1>6, <1>8, MovesKeep

-----------------------------------------------------------------------------
(* The steps                                                               *)

LEMMA StartKeeps == TurnInv /\ StartSchema => TurnInv'
<1> SUFFICES ASSUME TurnInv, StartSchema PROVE TurnInv'
  OBVIOUS
<1>1. PICK v \in FreshInputs({Root}) : InitAndEnter(state, {}, {Root}, v, gate)
  BY DEF StartSchema
<1>2. event.kind = "NOEVENT"
  <2> SUFFICES ASSUME event.kind # "NOEVENT" PROVE FALSE
    OBVIOUS
  <2>1. event.from \in Children /\ event.from \in Nodes /\ Asked(event.from)
    BY Tree DEF TurnInv, EventInv
  <2>2. state[Root] = "ACTIVATED"
    BY <2>1, TreeAssumption, AskedAround
  <2> QED BY <2>2 DEF StartSchema
<1>3. Entrance({}, {Root}, gate)
  <2>1. \A l \in gate : state[l[1]] = "DONE"
    BY DEF TurnInv, OpenInv
  <2>2. gate \in SUBSET CtrlLinks /\ state[Root] = "READY"
    BY DEF TurnInv, TypeOK, StartSchema
  <2> QED BY <2>1, <2>2, Tree DEF Entrance
<1>4. Counted({}) /\ UNCHANGED <<event, threads, fakes>>
  BY DEF Counted, StartSchema, TurnInv, TypeOK
<1>5. RunInv' /\ EventInv' /\ OpenInv' /\ FreshInv' /\ ForInv' /\ DoneInv'
  BY <1>1, <1>2, <1>3, <1>4, EnterKeeps
<1>6. TypeOK'
  BY NextTypes DEF TurnInv, Next
<1> QED BY <1>5, <1>6 DEF TurnInv

LEMMA BlocFinishedKeeps == TurnInv /\ BlocFinished => TurnInv'
<1> SUFFICES ASSUME TurnInv, BlocFinished PROVE TurnInv'
  OBVIOUS
<1> DEFINE n == event.from
           g == gate \cup ({n} \X Successors(n))
           O == {m \in Successors(n) : Precursors(m) \X {m} \subseteq g}
<1>1. PICK v \in FreshInputs(O) : InitAndEnter(state, {}, O, v, g)
  BY DEF BlocFinished
<1>2. /\ n \in Children /\ state[n] = "DONE" /\ state[Father[n]] = "ACTIVATED"
      /\ \A l \in gate : l[1] # n
  BY Sender DEF BlocFinished, TurnInv, EventInv
<1>3. \A l \in gate : state[l[1]] = "DONE"
  BY DEF TurnInv, OpenInv
<1>4. g \in SUBSET CtrlLinks /\ \A l \in g : state[l[1]] = "DONE"
  BY <1>2, <1>3 DEF TurnInv, TypeOK, Successors
<1>5. ASSUME NEW m \in O
      PROVE  /\ m \in Nodes /\ state[m] = "READY" /\ state[Father[m]] = "ACTIVATED"
             /\ Precursors(m) \X {m} \subseteq g
  <2>1. m \in Children /\ m \in Nodes /\ n \in Precursors(m) /\ Father[m] = Father[n]
    BY <1>2, <1>5, Links, Tree DEF Successors
  <2>2. ~ Open(m)
    BY <1>2, <2>1 DEF Open
  <2>3. \A p \in Precursors(m) : <<p, m>> \in g
    BY <1>5
  <2>4. \A p \in Precursors(m) : state[p] \notin Bad
    <3> HIDE DEF g
    <3>1. \A p \in Precursors(m) : state[p] = "DONE"
      BY <1>4, <2>3
    <3> QED BY <3>1 DEF Bad
  <2>5. state[m] = "READY"
    BY <2>1, <2>2, <2>4 DEF TurnInv, OpenInv
  <2> QED BY <1>2, <1>5, <2>1, <2>5
<1>6. Entrance({}, O, g)
  <2> HIDE DEF O, g
  <2>1. \A l \in gate : l \in g
    BY DEF g
  <2> QED BY <1>4, <1>5, <2>1 DEF Entrance
<1>7. Counted({}) /\ UNCHANGED <<threads, fakes>> /\ event'.kind = "NOEVENT"
  BY DEF Counted, BlocFinished, TurnInv, TypeOK, NoEvent
<1>8. RunInv' /\ EventInv' /\ OpenInv' /\ FreshInv' /\ ForInv' /\ DoneInv'
  <2> HIDE DEF O, g
  <2> QED BY <1>1, <1>6, <1>7, EnterKeeps
<1>9. TypeOK'
  BY NextTypes DEF TurnInv, Next, UpdateStateFrom
<1> QED BY <1>8, <1>9 DEF TurnInv

\* The end of a turn: the body is over, and nothing of it runs.
LEMMA BodyIsOver ==
  ASSUME TurnInv, event.kind = "FINISH", Father[event.from] \in Control
  PROVE  \A n \in threads \cup fakes : Father[event.from] \notin Enclosing[n]
<1> DEFINE b == Father[event.from]
<1>1. \A c \in ChildrenOf(b) : (b \in Switches => c \in Chosen(b, input[b])) => c = event.from
  BY Sender
<1>2. state[event.from] = "DONE"
  BY DEF TurnInv, EventInv
<1>3. b \in Composed
  BY Tree
<1> HIDE DEF b
<1>4. \A n \in threads \cup fakes : b \notin Enclosing[n]
  BY <1>1, <1>2, <1>3, QuietInside
<1> QED BY <1>4 DEF b

\* init of the body of a loop that starts another turn.
LEMMA TurnEntrance ==
  ASSUME TurnInv, event.kind = "FINISH", NEW l \in Loops, l = Father[event.from]
  PROVE  /\ Entrance(Inside(l), ChildrenOf(l), KeptGates(gate, Inside(l)))
         /\ ChildrenOf(l) \cup UNION {Inside(n) : n \in ChildrenOf(l)} = Inside(l)
         /\ l \notin Inside(l) /\ [state EXCEPT ![l] = "ACTIVATED"] = state
<1> DEFINE I == Inside(l)
<1>1. /\ l \in Control /\ l \in Composed /\ l \in Nodes /\ l \notin Blocs
      /\ state[l] = "ACTIVATED"
  BY Sender, Tree
<1>2. \A n \in Children : n \in I <=> Father[n] = l \/ Father[n] \in I
  BY <1>1, InsideChildren
<1>3. I \subseteq Children /\ l \notin I
  BY <1>1, EnclosingSelf DEF Inside
<1>4. ChildrenOf(l) \cup UNION {Inside(n) : n \in ChildrenOf(l)} = I
  <2>1. ChildrenOf(l) \subseteq I
    BY <1>2 DEF ChildrenOf
  <2>2. ASSUME NEW m \in ChildrenOf(l), NEW n \in Inside(m) PROVE n \in I
    <3>1. m \in Children /\ l \in Enclosing[m] /\ m \in Enclosing[n] /\ n \in Children /\ n \in Nodes
      BY <2>1, Tree DEF Inside
    <3>2. l \in Enclosing[n]
      BY <3>1, EnclosingTransitive
    <3> QED BY <3>1, <3>2 DEF Inside
  <2>3. ASSUME NEW n \in I PROVE n \in ChildrenOf(l) \/ \E m \in ChildrenOf(l) : n \in Inside(m)
    <3>1. n \in Children /\ n \in Nodes /\ l \in Enclosing[n]
      BY Tree DEF Inside
    <3>2. PICK c \in ChildrenOf(l) : c \in {n} \cup Enclosing[n]
      BY <3>1, ChildAround
    <3> QED BY <3>1, <3>2 DEF Inside
  <2> QED BY <2>1, <2>2, <2>3
<1>5. ASSUME NEW k \in CtrlLinks PROVE k[1] \in I <=> k[2] \in I
  <2>1. /\ k[1] \in Children /\ k[2] \in Children /\ Father[k[1]] = Father[k[2]]
        /\ Father[k[1]] # l
    BY <1>1, TreeAssumption
  <2> QED BY <1>2, <2>1
<1>6. ASSUME NEW s \in ChildrenOf(l)
      PROVE  /\ s \in Nodes /\ s \in I /\ Father[s] = l /\ Precursors(s) = {}
  <2>1. s \in Children /\ Father[s] = l
    BY DEF ChildrenOf
  <2>2. Precursors(s) = {}
    BY <1>1, <2>1, TreeAssumption DEF Precursors
  <2> QED BY <1>2, <2>1, <2>2, Tree
<1>7. ASSUME NEW n \in threads \cup fakes PROVE n \notin I /\ Enclosing[n] \cap I = {}
  <2>1. l \notin Enclosing[n] /\ n \in Nodes
    BY <1>1, BodyIsOver, Tree DEF TurnInv, TypeOK
  <2>2. n \notin I
    BY <2>1 DEF Inside
  <2>3. ASSUME NEW b \in Enclosing[n], b \in I PROVE FALSE
    <3>1. l \in Enclosing[b]
      BY <2>3 DEF Inside
    <3> QED BY <2>1, <3>1, EnclosingTransitive
  <2> QED BY <2>2, <2>3
<1>8. /\ KeptGates(gate, I) \in SUBSET CtrlLinks
      /\ \A k \in KeptGates(gate, I) : k[2] \notin I /\ state[k[1]] = "DONE"
      /\ \A k \in gate : k[2] \notin I => k \in KeptGates(gate, I)
  BY DEF KeptGates, TurnInv, TypeOK, OpenInv
<1>9. [state EXCEPT ![l] = "ACTIVATED"] = state
  BY <1>1 DEF TurnInv, TypeOK
<1> HIDE DEF I
<1>10. Entrance(I, ChildrenOf(l), KeptGates(gate, I))
  BY <1>1, <1>2, <1>3, <1>5, <1>6, <1>7, <1>8 DEF Entrance
<1> QED BY <1>3, <1>4, <1>9, <1>10 DEF I

LEMMA TurnKeeps ==
  ASSUME TurnInv, event.kind = "FINISH", NEW l \in Loops, l = Father[event.from],
         TurnAgain(l, [turns EXCEPT ![l] = @ + 1]),
         l \in Fors => ~ LastTurn(l), UNCHANGED <<threads, fakes>>
  PROVE  RunInv' /\ EventInv' /\ OpenInv' /\ FreshInv' /\ ForInv' /\ DoneInv'
<1> DEFINE I == Inside(l)
           counted == [turns EXCEPT ![l] = @ + 1]
<1>1. /\ Entrance(I, ChildrenOf(l), KeptGates(gate, I))
      /\ ChildrenOf(l) \cup UNION {Inside(n) : n \in ChildrenOf(l)} = I
      /\ l \notin I /\ [state EXCEPT ![l] = "ACTIVATED"] = state
  BY TurnEntrance
<1>2. state[l] = "ACTIVATED" /\ fake[l] = NoFake
  BY Sender
<1> HIDE DEF I
<1>3. PICK v \in FreshInputs(ChildrenOf(l)) :
        InitAndEnter(state, I, ChildrenOf(l), v, KeptGates(gate, I))
  BY <1>1 DEF TurnAgain
<1>4. turns' = [k \in Loops |-> IF k \in I THEN 0 ELSE counted[k]] /\ event'.kind = "NOEVENT"
  BY <1>1 DEF TurnAgain, NoEvent
<1>5. turns \in [Loops -> Nat]
  BY DEF TurnInv, TypeOK
<1>6. l \in Fors => input[l] \in Int /\ turns[l] + 1 < input[l]
  <2> SUFFICES ASSUME l \in Fors PROVE input[l] \in Int /\ turns[l] + 1 < input[l]
    OBVIOUS
  <2>1. input[l] \in Int /\ turns[l] \in Nat
    BY <1>2, <1>5 DEF TurnInv, ForInv
  <2> QED BY <2>1 DEF LastTurn
<1>7. Counted(I)
  <2>1. counted \in [Loops -> Nat] /\ counted[l] = turns[l] + 1 /\ \A k \in Loops : k # l => counted[k] = turns[k]
    BY <1>5
  <2> HIDE DEF counted
  <2> QED BY <1>1, <1>2, <1>4, <1>6, <2>1 DEF Counted
<1> QED BY <1>1, <1>3, <1>4, <1>7, EnterKeeps

LEMMA BlocLastKeeps == TurnInv /\ BlocLastFinished => TurnInv'
<1> SUFFICES ASSUME TurnInv, BlocLastFinished PROVE TurnInv'
  OBVIOUS
<1> DEFINE b == Father[event.from]
           s == IF \A n \in ChildrenOf(b) : state[n] = "DONE" THEN "DONE" ELSE "FAILED"
<1>1. /\ b \in Blocs /\ b \in Composed /\ state[b] = "ACTIVATED" /\ b \notin fakes
      /\ (b \in Children => Asked(b)) /\ b \notin Switches
  BY Sender, Tree DEF BlocLastFinished
<1>2. Ends(b, s, IF s = "DONE" THEN "FINISH" ELSE "ABORT")
  BY DEF BlocLastFinished, BlocFinish, Ends
<1>3. \A n \in threads \cup fakes : b \notin Enclosing[n]
  <2>1. \A n \in ChildrenOf(b) : state[n] \in {"DONE", "FAILED", "ERROR", "INTERNALERR"}
    BY DEF BlocLastFinished, AllFinished
  <2> HIDE DEF b
  <2> QED BY <1>1, <2>1, QuietInside
<1>4. s \in {"DONE"} \cup Bad /\ (s = "DONE" => \A n \in ChildrenOf(b) : state[n] = "DONE")
  BY DEF Bad
<1>5. turns' \in [Loops -> Nat] /\ UNCHANGED <<gate, input, turns, fake, threads, fakes>>
  BY DEF BlocLastFinished, TurnInv, TypeOK
<1> HIDE DEF b, s
<1>6. RunInv' /\ EventInv' /\ OpenInv' /\ FreshInv' /\ ForInv' /\ DoneInv'
  BY <1>1, <1>2, <1>3, <1>4, <1>5, EndsKeeps
<1>7. TypeOK'
  BY NextTypes DEF TurnInv, Next, UpdateStateFrom
<1> QED BY <1>6, <1>7 DEF TurnInv

LEMMA ControlFailedKeeps == TurnInv /\ ControlFailed => TurnInv'
<1> SUFFICES ASSUME TurnInv, ControlFailed PROVE TurnInv'
  OBVIOUS
<1> DEFINE b == Father[event.from]
<1>1. /\ b \in Composed /\ state[b] = "ACTIVATED" /\ b \notin fakes
      /\ (b \in Children => Asked(b))
      /\ \A c \in ChildrenOf(b) : (b \in Switches => c \in Chosen(b, input[b])) => c = event.from
  BY Sender DEF ControlFailed
<1>2. state[event.from] \in Bad
  BY DEF ControlFailed, TurnInv, EventInv
<1>3. Ends(b, "FAILED", "ABORT") /\ UNCHANGED <<gate, input, turns, fake, threads, fakes>>
  BY DEF ControlFailed
<1> HIDE DEF b
<1>4. \A n \in threads \cup fakes : b \notin Enclosing[n]
  BY <1>1, <1>2, QuietInside DEF Bad
<1>5. turns' \in [Loops -> Nat] /\ \A k \in Loops : k # b => turns'[k] = turns[k]
  BY <1>3 DEF TurnInv, TypeOK
<1>6. RunInv' /\ EventInv' /\ OpenInv' /\ FreshInv' /\ ForInv' /\ DoneInv'
  <2>1. "FAILED" \in {"DONE"} \cup Bad
    BY DEF Bad
  <2>2. Ends(b, "FAILED", IF "FAILED" = "DONE" THEN "FINISH" ELSE "ABORT")
    BY <1>3
  <2>3. "FAILED" = "DONE" => \A n \in ChildrenOf(b) : Relevant(n) => state[n] = "DONE"
    OBVIOUS
  <2> QED BY <1>1, <1>3, <1>4, <1>5, <2>1, <2>2, <2>3, EndsKeeps
<1>7. TypeOK'
  BY NextTypes DEF TurnInv, Next, UpdateStateFrom
<1> QED BY <1>6, <1>7 DEF TurnInv

\* A loop or a Switch that has no more to run.
LEMMA ControlDoneKeeps ==
  ASSUME TurnInv, event.kind = "FINISH", NEW b \in Control, b = Father[event.from],
         Ends(b, "DONE", "FINISH"), turns' \in [Loops -> Nat],
         \A k \in Loops : k # b => turns'[k] = turns[k],
         UNCHANGED <<gate, input, fake, threads, fakes>>
  PROVE  RunInv' /\ EventInv' /\ OpenInv' /\ FreshInv' /\ ForInv' /\ DoneInv'
<1>1. /\ b \in Composed /\ state[b] = "ACTIVATED" /\ b \notin fakes
      /\ (b \in Children => Asked(b))
      /\ \A c \in ChildrenOf(b) : (b \in Switches => c \in Chosen(b, input[b])) => c = event.from
  BY Sender
<1>2. state[event.from] = "DONE"
  BY DEF TurnInv, EventInv
<1>3. \A n \in threads \cup fakes : b \notin Enclosing[n]
  BY BodyIsOver
<1>4. \A n \in ChildrenOf(b) : Relevant(n) => state[n] = "DONE"
  BY <1>1, <1>2 DEF Relevant, ChildrenOf
<1>5. Ends(b, "DONE", IF "DONE" = "DONE" THEN "FINISH" ELSE "ABORT")
  OBVIOUS
<1> QED BY <1>1, <1>3, <1>4, <1>5, EndsKeeps

LEMMA SwitchFinishedKeeps == TurnInv /\ SwitchFinished => TurnInv'
<1> SUFFICES ASSUME TurnInv, SwitchFinished PROVE TurnInv'
  OBVIOUS
<1>1. /\ event.kind = "FINISH" /\ Father[event.from] \in Control
      /\ Ends(Father[event.from], "DONE", "FINISH") /\ turns' = turns
      /\ UNCHANGED <<gate, input, fake, threads, fakes>>
  BY Tree DEF SwitchFinished
<1>2. RunInv' /\ EventInv' /\ OpenInv' /\ FreshInv' /\ ForInv' /\ DoneInv'
  BY <1>1, ControlDoneKeeps DEF TurnInv, TypeOK
<1>3. TypeOK'
  BY NextTypes DEF TurnInv, Next, UpdateStateFrom
<1> QED BY <1>2, <1>3 DEF TurnInv

LEMMA LoopTurnKeeps == TurnInv /\ (ForTurn \/ WhileTurn) => TurnInv'
<1> SUFFICES ASSUME TurnInv, ForTurn \/ WhileTurn PROVE TurnInv'
  OBVIOUS
<1> DEFINE l == Father[event.from]
           counted == [turns EXCEPT ![l] = @ + 1]
<1>1. /\ event.kind = "FINISH" /\ l \in Loops /\ l \in Control
      /\ UNCHANGED <<threads, fakes>>
  BY Tree DEF ForTurn, WhileTurn
<1>2. \/ Ends(l, "DONE", "FINISH") /\ turns' = counted /\ UNCHANGED <<gate, input, fake>>
      \/ TurnAgain(l, counted) /\ (l \in Fors => ~ LastTurn(l))
  BY Tree DEF ForTurn, WhileTurn
<1>3. CASE TurnAgain(l, counted) /\ (l \in Fors => ~ LastTurn(l))
  <2>1. RunInv' /\ EventInv' /\ OpenInv' /\ FreshInv' /\ ForInv' /\ DoneInv'
    BY <1>1, <1>3, TurnKeeps
  <2>2. TypeOK'
    BY NextTypes DEF TurnInv, Next, UpdateStateFrom
  <2> QED BY <2>1, <2>2 DEF TurnInv
<1>4. CASE Ends(l, "DONE", "FINISH") /\ turns' = counted /\ UNCHANGED <<gate, input, fake>>
  <2>1. turns' \in [Loops -> Nat] /\ \A k \in Loops : k # l => turns'[k] = turns[k]
    BY <1>1, <1>4 DEF TurnInv, TypeOK
  <2>2. RunInv' /\ EventInv' /\ OpenInv' /\ FreshInv' /\ ForInv' /\ DoneInv'
    BY <1>1, <1>4, <2>1, ControlDoneKeeps
  <2>3. TypeOK'
    BY NextTypes DEF TurnInv, Next, UpdateStateFrom
  <2> QED BY <2>2, <2>3 DEF TurnInv
<1> QED BY <1>2, <1>3, <1>4

LEMMA OnStartKeeps == TurnInv /\ OnStart => TurnInv' /\ state' = state
<1> SUFFICES ASSUME TurnInv, OnStart PROVE TurnInv' /\ state' = state
  OBVIOUS
<1>0. PICK b : b = Father[event.from]
  OBVIOUS
<1>1. /\ b \in Nodes /\ state[b] = "ACTIVATED" /\ (b \in Children => Asked(b))
      /\ b # Root => b \in Children
  BY <1>0, Sender, Tree DEF OnStart
<1>2. state' = state /\ UNCHANGED <<gate, input, turns, fake, threads, fakes>>
  BY <1>0, <1>1 DEF OnStart, Ends, TurnInv, TypeOK
<1>3. \/ event'.kind = "NOEVENT"
      \/ event'.kind = "START" /\ event'.from = b /\ b \in Children
  BY <1>0, <1>1 DEF OnStart, Ends, ToFather, NoEvent
<1>4. EventInv'
  <2>1. b \in Children => Asked(b)'
    BY <1>1, <1>2, AskedStays
  <2> QED BY <1>3, <2>1 DEF EventInv
<1>5. RunInv' /\ OpenInv' /\ FreshInv' /\ ForInv' /\ DoneInv'
  BY <1>2 DEF TurnInv, RunInv, OpenInv, FreshInv, ForInv, DoneInv, Asked, Open, Relevant
<1>6. TypeOK'
  BY NextTypes DEF TurnInv, Next, UpdateStateFrom
<1> QED BY <1>2, <1>4, <1>5, <1>6 DEF TurnInv

\* What a failure reaches: later children of the same Bloc, that have not been
\* entered and are behind a node that has failed.
LEMMA FailedDownstream ==
  ASSUME TurnInv, NEW n \in Children, state[n] \in Bad, NEW m \in Downstream[n]
  PROVE  /\ m \in Children /\ m \in Nodes /\ Father[m] = Father[n]
         /\ state[m] \in {"READY", "FAILED"}
         /\ \E p \in Precursors(m) : p \in {n} \cup Downstream[n]
<1> DEFINE D == Downstream[n]
<1>1. D \subseteq Children
  BY Tree DEF Downstream
<1>2. Successors(n) \subseteq D /\ \A x \in D : Successors(x) \subseteq D
  <2>1. n \in Nodes
    BY Tree
  <2>2. ASSUME NEW x \in {n} \cup D, NEW y \in Successors(x) PROVE y \in D
    <3>1. y \in Children
      BY DEF Successors
    <3>2. ASSUME NEW S \in SUBSET Children, Successors(n) \subseteq S,
                 \A z \in S : Successors(z) \subseteq S
          PROVE  y \in S
      <4>1. D \subseteq S
        BY <3>2, DownstreamLeast
      <4> QED BY <2>2, <3>2, <4>1
    <3> QED BY <2>1, <3>1, <3>2 DEF Downstream
  <2> HIDE DEF D
  <2> QED BY <2>2
<1>3. D \subseteq {x \in Children : Father[x] = Father[n]}
  <2> DEFINE S == {x \in Children : Father[x] = Father[n]}
  <2>1. Successors(n) \subseteq S /\ \A x \in S : Successors(x) \subseteq S
    BY Links DEF Successors
  <2>2. S \in SUBSET Children
    OBVIOUS
  <2> HIDE DEF S, D
  <2>3. Downstream[n] \subseteq S
    BY <2>1, <2>2, DownstreamLeast
  <2> QED BY <2>3 DEF D, S
<1>4. D \subseteq {x \in Children : state[x] \in {"READY", "FAILED"}}
  <2> DEFINE S == {x \in Children : state[x] \in {"READY", "FAILED"}}
  <2>1. ASSUME NEW x \in Children, state[x] \in {"READY"} \cup Bad, NEW y \in Successors(x)
        PROVE  y \in S
    <3>1. y \in Children /\ x \in Precursors(y)
      BY <2>1, Links DEF Successors
    <3>2. <<x, y>> \notin gate
      BY <2>1 DEF TurnInv, OpenInv, Bad
    <3> QED BY <3>1, <3>2 DEF TurnInv, OpenInv, Open
  <2>2. Successors(n) \subseteq S /\ \A x \in S : Successors(x) \subseteq S
    BY <2>1 DEF Bad
  <2>3. S \in SUBSET Children
    OBVIOUS
  <2> HIDE DEF S, D
  <2>4. Downstream[n] \subseteq S
    BY <2>2, <2>3, DownstreamLeast
  <2> QED BY <2>4 DEF D, S
<1>5. D \subseteq {x \in Children : \E p \in Precursors(x) : p \in {n} \cup D}
  <2> DEFINE S == {x \in D : \E p \in Precursors(x) : p \in {n} \cup D}
  <2>1. ASSUME NEW x \in {n} \cup D, NEW y \in Successors(x) PROVE y \in S
    <3>1. y \in D /\ y \in Children /\ x \in Precursors(y)
      BY <1>1, <1>2, <2>1, Links DEF Successors
    <3> QED BY <2>1, <3>1
  <2>2. Successors(n) \subseteq S /\ \A x \in S : Successors(x) \subseteq S
    BY <2>1
  <2>3. S \in SUBSET Children
    BY <1>1
  <2> HIDE DEF S, D
  <2>4. Downstream[n] \subseteq S
    BY <2>2, <2>3, DownstreamLeast
  <2> QED BY <1>1, <2>4 DEF D, S
<1> QED BY <1>1, <1>3, <1>4, <1>5, Tree

LEMMA BlocFailedKeeps == TurnInv /\ BlocFailed => TurnInv'
<1> SUFFICES ASSUME TurnInv, BlocFailed PROVE TurnInv'
  OBVIOUS
<1>0. PICK n, b : n = event.from /\ b = Father[n]
  OBVIOUS
<1> DEFINE D == Downstream[n]
           st == [m \in Nodes |-> IF m \in D THEN "FAILED" ELSE state[m]]
           verdict == IF \A c \in ChildrenOf(b) : st[c] = "DONE" THEN "DONE" ELSE "FAILED"
<1>1. /\ n \in Children /\ n \in Nodes /\ b \in Nodes /\ b \in Blocs /\ b \in Composed /\ n # b
      /\ state[b] = "ACTIVATED" /\ (b \in Children => Asked(b)) /\ b \notin fakes
      /\ n \in ChildrenOf(b) /\ (b # Root => b \in Children) /\ b \notin Control /\ b \notin Elem
  BY <1>0, Sender, Tree DEF BlocFailed
<1>2. state[n] \in Bad
  BY <1>0 DEF BlocFailed, TurnInv, EventInv
<1>3. \A m \in D : /\ m \in Children /\ m \in Nodes /\ Father[m] = b /\ m # b
                   /\ state[m] \in {"READY", "FAILED"}
                   /\ \E p \in Precursors(m) : p \in {n} \cup D
  BY <1>0, <1>1, <1>2, FailedDownstream, EnclosingStep, EnclosingSelf
<1>4. \/ AllFinished(st, b) /\ BlocFinish(b, st)
      \/ state' = st /\ event' = NoEvent
  BY <1>0 DEF BlocFailed
<1>5. UNCHANGED <<gate, input, turns, fake, threads, fakes>> /\ turns \in [Loops -> Nat]
  BY DEF BlocFailed, TurnInv, TypeOK
<1>6. \A x \in threads : /\ x \in Nodes /\ Asked(x) /\ x # b /\ x \notin D
                         /\ state[x] \in {"TOACTIVATE", "ACTIVATED"}
  BY <1>1, <1>3, Tree DEF TurnInv, RunInv, TypeOK
<1>7. \A c \in fakes : /\ c \in Nodes /\ c \in Control /\ Asked(c) /\ c # b /\ c \notin D
                       /\ state[c] = "ACTIVATED" /\ fake[c] # NoFake
                       /\ c \in Switches => Chosen(c, input[c]) = {}
  <2>1. \A c \in fakes : c \in Control /\ c \in Nodes
    BY Tree DEF TurnInv, TypeOK
  <2> HIDE DEF D
  <2> QED BY <1>1, <1>3, <2>1 DEF TurnInv, RunInv
<1>8. \A c \in ChildrenOf(b) : c \in Nodes /\ c # b
  BY <1>1, EnclosingStep, EnclosingSelf, Tree DEF ChildrenOf
<1>9. \A x \in Nodes : st[x] = IF x \in D THEN "FAILED" ELSE state[x]
  OBVIOUS
<1> HIDE DEF D
<1>10. \A p \in {n} \cup D : p \in Nodes /\ p # b /\ st[p] \in Bad
  BY <1>1, <1>2, <1>3, <1>9 DEF Bad
<1>11. CASE state' = st /\ event' = NoEvent
  <2>1. Moves({}, {}, D)
    BY <1>1, <1>3, <1>5, <1>6, <1>7, <1>9, <1>10, <1>11 DEF Moves
  <2>2. EventInv'
    BY <1>11 DEF EventInv, NoEvent
  <2>3. RunInv' /\ OpenInv' /\ FreshInv' /\ ForInv' /\ DoneInv'
    BY <2>1, MovesKeep
  <2>4. TypeOK'
    BY NextTypes DEF TurnInv, Next, UpdateStateFrom
  <2> QED BY <2>2, <2>3, <2>4 DEF TurnInv
<1>12. CASE AllFinished(st, b) /\ BlocFinish(b, st)
  <2>1. DOMAIN st = Nodes /\ state' = [st EXCEPT ![b] = verdict]
    BY <1>12 DEF BlocFinish
  <2>2. state'[b] = verdict /\ \A x \in Nodes : x # b => state'[x] = st[x]
    <3> HIDE DEF verdict, st
    <3> QED BY <1>1, <2>1
  <2>3. verdict \in {"DONE"} \cup Bad /\ (verdict = "DONE" => \A c \in ChildrenOf(b) : st[c] = "DONE")
    BY DEF Bad
  <2>4. \A x \in threads \cup fakes : b \notin Enclosing[x]
    <3>1. \A c \in ChildrenOf(b) : st[c] \in {"DONE", "FAILED", "ERROR", "INTERNALERR"}
      BY <1>12 DEF AllFinished
    <3> HIDE DEF st
    <3>2. \A c \in ChildrenOf(b) : state[c] \notin {"TOACTIVATE", "ACTIVATED"}
      BY <1>3, <1>8, <1>9, <3>1
    <3> QED BY <1>1, <3>2, QuietInside
  <2> HIDE DEF verdict, st
  <2>5. Moves({}, {b}, D)
    <3>1. \A m \in D : state'[m] = "FAILED" /\ \E p \in Precursors(m) : state'[p] \in Bad
      BY <1>3, <1>9, <1>10, <2>2
    <3>2. D \cap {b} = {} /\ D \subseteq Children /\ \A m \in D : state[Father[m]] # "READY"
      BY <1>1, <1>3
    <3>3. \A c \in ChildrenOf(b) : state'[b] = "DONE" => state'[c] = "DONE"
      BY <1>8, <2>2, <2>3
    <3>4. \A x \in Nodes : x # b /\ x \notin D => state'[x] = state[x]
      BY <1>9, <2>2
    <3> QED BY <1>1, <1>3, <1>5, <1>6, <1>7, <2>2, <2>3, <2>4, <3>1, <3>2, <3>3, <3>4 DEF Moves
  <2>6. \/ event'.kind = "NOEVENT"
        \/ /\ event'.from = b /\ b \in Children
           /\ event'.kind = IF state'[b] = "DONE" THEN "FINISH" ELSE "ABORT"
    <3>1. event' = ToFather(b, IF verdict = "DONE" THEN "FINISH" ELSE "ABORT")
      BY <1>12 DEF BlocFinish, verdict
    <3> QED BY <1>1, <2>2, <3>1 DEF ToFather, NoEvent
  <2>7. EventInv'
    BY <1>1, <2>5, <2>6, EndedEvent
  <2>8. RunInv' /\ OpenInv' /\ FreshInv' /\ ForInv' /\ DoneInv'
    BY <2>5, MovesKeep
  <2>9. TypeOK'
    BY NextTypes DEF TurnInv, Next, UpdateStateFrom
  <2> QED BY <2>7, <2>8, <2>9 DEF TurnInv
<1> QED BY <1>4, <1>11, <1>12

LEMMA TaskKeeps == ASSUME TurnInv, NEW n \in Elem, TaskCall(n) PROVE TurnInv'
<1>1. /\ n \in Children /\ n \in Nodes /\ n \notin Composed /\ n \notin Control /\ n \notin Loops
      /\ ChildrenOf(n) = {} /\ \A x \in Nodes : n \notin Enclosing[x]
  BY EnclosingIn, Tree DEF ChildrenOf
<1>2. turns \in [Loops -> Nat] /\ state \in [Nodes -> State] /\ turns' = turns
  BY DEF TurnInv, TypeOK, TaskCall, Load, Begin, Finished, Aborted
<1>3. \A x \in threads : /\ x \in Nodes /\ Asked(x) /\ state[x] \in {"TOACTIVATE", "ACTIVATED"}
  BY Tree DEF TurnInv, RunInv, TypeOK
<1>4. \A c \in fakes : /\ c \in Nodes /\ c \in Control /\ Asked(c) /\ c # n
                       /\ state[c] = "ACTIVATED" /\ fake[c] # NoFake
                       /\ c \in Switches => Chosen(c, input[c]) = {}
  <2>1. \A c \in fakes : c \in Control
    BY DEF TurnInv, TypeOK
  <2> QED BY <1>1, <2>1, Tree DEF TurnInv, RunInv
<1>5. TypeOK'
  BY NextTypes DEF TurnInv, Next
<1>6. CASE Load(n) \/ Begin(n)
  <2>1. /\ state[n] \in {"TOLOAD", "TOACTIVATE"} /\ state'[n] \in {"TOACTIVATE", "ACTIVATED"}
        /\ \A x \in Nodes : x # n => state'[x] = state[x]
        /\ threads' \subseteq threads \cup {n} /\ fakes' = fakes /\ Asked(n)
        /\ UNCHANGED <<gate, input, fake>>
    BY <1>1, <1>2, <1>3, <1>6 DEF Load, Begin
  <2>2. Moves({n}, {}, {})
    BY <1>1, <1>2, <1>3, <1>4, <2>1 DEF Moves
  <2>3. Asked(n)'
    <3>1. \A b \in Enclosing[n] : state'[b] = state[b]
      BY <1>1, <2>1, EnclosingIn, Tree
    <3> QED BY <1>1, <2>1, <3>1, AskedStays
  <2>4. event' = [from |-> n, kind |-> "START"] \/ event' = NoEvent
    BY <1>6 DEF Load, Begin
  <2>5. EventInv'
    BY <1>1, <2>3, <2>4 DEF EventInv, NoEvent
  <2> QED BY <1>5, <2>2, <2>5, MovesKeep DEF TurnInv
<1>7. CASE Finished(n) \/ Aborted(n)
  <2>1. n \in threads /\ Asked(n) /\ state[n] \in {"TOACTIVATE", "ACTIVATED"}
    BY <1>3, <1>7 DEF Finished, Aborted
  <2>2. /\ state'[n] \in {"DONE"} \cup Bad /\ \A x \in Nodes : x # n => state'[x] = state[x]
        /\ threads' = threads \ {n} /\ fakes' = fakes /\ UNCHANGED <<gate, fake>>
        /\ event' = [from |-> n, kind |-> IF state'[n] = "DONE" THEN "FINISH" ELSE "ABORT"]
    BY <1>1, <1>2, <1>7 DEF Finished, Aborted, Bad
  <2>3. \A c \in Control : c \notin Whiles => input'[c] = input[c]
    BY <1>7 DEF Finished, Aborted
  <2>4. Moves({}, {n}, {})
    BY <1>1, <1>2, <1>3, <1>4, <2>1, <2>2, <2>3 DEF Moves
  <2>5. EventInv'
    BY <1>1, <2>1, <2>2, <2>4, EndedEvent
  <2> QED BY <1>5, <2>4, <2>5, MovesKeep DEF TurnInv
<1> QED BY <1>6, <1>7 DEF TaskCall

LEMMA FakeKeeps == ASSUME TurnInv, NEW c \in Control, FakeCall(c) PROVE TurnInv'
<1>1. c \in Nodes /\ c \in Children /\ c \in Composed /\ (c \in Loops \/ c \in Switches)
  BY Tree
<1>2. turns \in [Loops -> Nat] /\ state \in [Nodes -> State] /\ turns' = turns
  BY DEF TurnInv, TypeOK, FakeCall, FakeBegin, FakeEnds
<1>3. \A x \in threads : /\ x \in Nodes /\ Asked(x) /\ x # c
                         /\ state[x] \in {"TOACTIVATE", "ACTIVATED"}
  BY Tree DEF TurnInv, RunInv, TypeOK
<1>4. \A k \in fakes : /\ k \in Nodes /\ k \in Control /\ Asked(k)
                       /\ state[k] = "ACTIVATED" /\ fake[k] # NoFake
                       /\ k \in Switches => Chosen(k, input[k]) = {}
  <2>1. \A k \in fakes : k \in Control
    BY DEF TurnInv, TypeOK
  <2> QED BY <2>1, Tree DEF TurnInv, RunInv
<1>5. TypeOK'
  BY NextTypes DEF TurnInv, Next
<1>6. CASE FakeBegin(c)
  <2>1. /\ state[c] = "ACTIVATED" /\ Asked(c) /\ fake[c].state = "TOACTIVATE"
        /\ c \in Switches => Chosen(c, input[c]) = {}
        /\ fakes' = fakes \cup {c} /\ threads' = threads /\ event' = NoEvent
        /\ UNCHANGED <<state, gate, input>> /\ fake' = [fake EXCEPT ![c].state = "ACTIVATED"]
    BY <1>6 DEF FakeBegin
  <2>2. fake[c] # NoFake
    BY <2>1 DEF NoFake
  <2>3. fake'[c].state = "ACTIVATED" /\ \A k \in Control : k # c => fake'[k] = fake[k]
    BY <2>1, <2>2 DEF TurnInv, TypeOK
  <2>4. fake'[c] # NoFake
    BY <2>3 DEF NoFake
  <2>5. \A k \in Control : fake'[k] = NoFake <=> fake[k] = NoFake
    BY <2>2, <2>3, <2>4
  <2>6. Moves({}, {}, {})
    BY <1>1, <1>2, <1>3, <1>4, <2>1, <2>2, <2>5 DEF Moves
  <2>7. EventInv'
    BY <2>1 DEF EventInv, NoEvent
  <2> QED BY <1>5, <2>6, <2>7, MovesKeep DEF TurnInv
<1>7. CASE FakeEnds(c)
  <2>1. c \in fakes /\ Asked(c) /\ state[c] = "ACTIVATED" /\ fake[c] # NoFake
        /\ (c \in Switches => Chosen(c, input[c]) = {})
    BY <1>4, <1>7 DEF FakeEnds
  <2>2. /\ state'[c] \in {"DONE"} \cup Bad /\ \A x \in Nodes : x # c => state'[x] = state[x]
        /\ threads' = threads /\ fakes' = fakes \ {c} /\ UNCHANGED <<gate, input, fake>>
        /\ event' = [from |-> c, kind |-> IF state'[c] = "DONE" THEN "FINISH" ELSE "ABORT"]
    BY <1>1, <1>2, <1>7 DEF FakeEnds, Bad
  <2>3. \A n \in ChildrenOf(c) : ~ Relevant(n)
    BY <1>1, <2>1 DEF Relevant, ChildrenOf
  <2>4. ASSUME NEW n \in threads \cup fakes, c \in Enclosing[n] PROVE FALSE
    <3>1. n \in Nodes /\ Asked(n)
      BY <1>3, <1>4
    <3>2. c \in Loops => fake[c] = NoFake
      BY <2>4, <3>1, AskedAround
    <3>3. c \in Switches => \E m \in ChildrenOf(c) : m \in Chosen(c, input[c])
      BY <2>4, <3>1, AskedAround
    <3> QED BY <1>1, <2>1, <3>2, <3>3
  <2>5. Moves({}, {c}, {})
    BY <1>1, <1>2, <1>3, <1>4, <2>1, <2>2, <2>3, <2>4 DEF Moves
  <2>6. EventInv'
    BY <1>1, <2>1, <2>2, <2>5, EndedEvent
  <2> QED BY <1>5, <2>5, <2>6, MovesKeep DEF TurnInv
<1> QED BY <1>6, <1>7 DEF FakeCall

LEMMA InitTurn == Init => TurnInv
<1> SUFFICES ASSUME Init PROVE TurnInv
  OBVIOUS
<1>1. TypeOK
  BY InitTypes
<1>2. \A n \in Nodes : state[n] = "READY"
  BY DEF Init
<1>3. \A b \in Composed : \A n \in ChildrenOf(b) : n \in Nodes
  BY Tree DEF ChildrenOf
<1>4. FreshInv
  <2>1. \A l \in Loops : turns[l] = 0
    BY DEF Init
  <2> QED BY <1>2, <1>3, <2>1 DEF FreshInv
<1>5. RunInv /\ EventInv
  BY DEF Init, RunInv, EventInv, NoEvent
<1>6. OpenInv /\ DoneInv /\ ForInv
  BY <1>2, Tree DEF OpenInv, DoneInv, ForInv, Init
<1> QED BY <1>1, <1>4, <1>5, <1>6 DEF TurnInv

LEMMA NextTurn == TurnInv /\ [Next]_vars => TurnInv'
<1>1. TurnInv /\ UNCHANGED vars => TurnInv'
  <2> SUFFICES ASSUME TurnInv, UNCHANGED vars PROVE TurnInv'
    OBVIOUS
  <2> USE DEF vars, TurnInv
  <2>1. TypeOK'
    BY DEF TypeOK
  <2>2. RunInv' /\ EventInv'
    BY DEF RunInv, EventInv, Asked
  <2>3. OpenInv' /\ FreshInv'
    BY DEF OpenInv, FreshInv, Open
  <2>4. ForInv' /\ DoneInv'
    BY DEF ForInv, DoneInv, Relevant
  <2> QED BY <2>1, <2>2, <2>3, <2>4
<1> QED BY <1>1, StartKeeps, BlocFinishedKeeps, BlocLastKeeps, ControlFailedKeeps,
           SwitchFinishedKeeps, LoopTurnKeeps, OnStartKeeps, BlocFailedKeeps, TaskKeeps,
           FakeKeeps DEF Next, UpdateStateFrom

LEMMA TurnInvHolds == Spec => []TurnInv
  BY InitTurn, NextTurn, PTL DEF Spec

\* Every variable keeps to its type, for every schema.
THEOREM ControlTypes == Spec => []TypeOK
<1>1. TurnInv => TypeOK
  BY DEF TurnInv
<1> QED BY <1>1, TurnInvHolds, PTL

\* A node runs in its turn: after the nodes before it, in the selected branch,
\* and in a ForLoop that has a turn to make.
THEOREM NodesRunInTurn == Spec => []RunsInItsTurn
<1>1. TurnInv => RunsInItsTurn
  <2> SUFFICES ASSUME TurnInv, NEW n \in threads, NEW m \in ({n} \cup Enclosing[n]) \ {Root}
               PROVE  /\ \A p \in Precursors(m) : state[p] = "DONE"
                      /\ Father[m] \in Switches => m \in Chosen(Father[m], input[Father[m]])
                      /\ Father[m] \in Fors => turns[Father[m]] < input[Father[m]]
    BY DEF RunsInItsTurn
  <2>1. n \in Nodes /\ Asked(n) /\ state[n] \in {"TOACTIVATE", "ACTIVATED"}
    BY Tree DEF TurnInv, TypeOK, RunInv
  <2>2. m \in Children /\ state[m] \in {"TOACTIVATE", "ACTIVATED"}
    BY <2>1, EnclosingUp, AskedAround
  <2>3. Open(m)
    BY <2>2 DEF TurnInv, OpenInv
  <2>4. \A p \in Precursors(m) : state[p] = "DONE"
    <3>1. \A p \in Precursors(m) : <<p, m>> \in gate
      BY <2>3 DEF Open
    <3> QED BY <3>1 DEF TurnInv, OpenInv
  <2>5. /\ state[Father[m]] = "ACTIVATED"
        /\ Father[m] \in Loops => fake[Father[m]] = NoFake
        /\ Father[m] \in Switches => m \in Chosen(Father[m], input[Father[m]])
    BY <2>1 DEF Asked
  <2> QED BY <2>4, <2>5, Tree DEF TurnInv, ForInv
<1> QED BY <1>1, TurnInvHolds, PTL

-----------------------------------------------------------------------------
(* The end of a turn                                                       *)

\* A node that is done has nothing left inside.
LEMMA DoneAll ==
  ASSUME TurnInv, NEW b \in Nodes, state[b] = "DONE", NEW n \in {b} \cup Inside(b),
         \A m \in ({n} \cup Enclosing[n]) \cap Inside(b) : Relevant(m)
  PROVE  state[n] = "DONE"
<1> SUFFICES ASSUME state[n] # "DONE" PROVE FALSE
  OBVIOUS
<1> DEFINE X == {y \in Nodes : state[y] # "DONE"}
<1>1. n \in Nodes /\ n \in X /\ b \in Enclosing[n]
  BY Tree DEF Inside
<1>2. ASSUME NEW y \in ({n} \cup Enclosing[n]) \ {Root}, b \in Enclosing[y], y \in X
      PROVE  Father[y] \in X
  <2>1. y \in Children /\ y \in Inside(b)
    BY <1>1, <1>2, EnclosingUp DEF Inside
  <2>2. Relevant(y)
    BY <2>1
  <2> QED BY <1>2, <2>1, <2>2, Tree DEF TurnInv, DoneInv
<1>3. b \in X
  <2> HIDE DEF X
  <2> QED BY <1>1, <1>2, Upwards
<1> QED BY <1>3

LEMMA BodyAllDone ==
  ASSUME TurnInv, event.kind = "FINISH", NEW l \in Loops, l = Father[event.from]
  PROVE  \A n \in ChildrenOf(l) : AllDone(n)
<1> SUFFICES ASSUME NEW b \in ChildrenOf(l) PROVE AllDone(b)
  OBVIOUS
<1>1. l \in Control /\ l \notin Switches /\ b \in Children /\ b \in Nodes /\ l \in Enclosing[b]
  BY EnclosingStep, Tree DEF ChildrenOf
<1>2. b = event.from
  BY <1>1, Sender
<1>3. state[b] = "DONE"
  BY <1>2 DEF TurnInv, EventInv
<1>4. \A n \in threads \cup fakes : l \notin Enclosing[n]
  BY <1>1, BodyIsOver
<1>5. \A n \in {b} \cup Inside(b) : l \in Enclosing[n]
  <2>1. \A n \in Inside(b) : n \in Nodes /\ b \in Enclosing[n]
    BY Tree DEF Inside
  <2> QED BY <1>1, <2>1, EnclosingTransitive
<1>6. \A n \in {b} \cup Inside(b) : n \notin threads \cup fakes
  BY <1>4, <1>5
<1>7. ASSUME NEW n \in {b} \cup Inside(b),
             \A m \in ({n} \cup Enclosing[n]) \cap Inside(b) :
               /\ Father[m] \in Loops    => fake[Father[m]] = NoFake
               /\ Father[m] \in Switches => m \in Chosen(Father[m], input[Father[m]])
      PROVE  state[n] = "DONE"
  BY <1>1, <1>3, <1>7, DoneAll DEF Relevant
<1> QED BY <1>6, <1>7 DEF AllDone

\* exUpdateState makes no node done.
LEMMA EnterNotDone ==
  ASSUME NEW I, NEW S, NEW v, NEW g, InitAndEnter(state, I, S, v, g),
         NEW n \in Nodes, state'[n] = "DONE"
  PROVE  state[n] = "DONE"
<1> DEFINE E == Entered(S, v, g)
           inited == [k \in Nodes |-> IF k \in I THEN "READY" ELSE state[k]]
<1>1. state' = [k \in Nodes |->
                  CASE k \in E \cap Composed                       -> "ACTIVATED"
                    [] k \in E \cap Elem /\ inited[k] = "READY"    -> "TOLOAD"
                    [] OTHER                                       -> inited[k]]
  BY DEF InitAndEnter
<1>2. inited[n] = "DONE" => state[n] = "DONE"
  OBVIOUS
<1> HIDE DEF E, inited
<1>3. state'[n] \in {"ACTIVATED", "TOLOAD", inited[n]}
  BY <1>1
<1> QED BY <1>2, <1>3

\* What a step does to the turns of a loop.
WholeTurn(l) ==
  /\ turns'[l] > turns[l] => \A n \in ChildrenOf(l) : AllDone(n)
  /\ (l \in Fors /\ state[l] = "ACTIVATED" /\ state'[l] = "DONE" /\ fake[l] = NoFake)
       => turns'[l] = input[l]

LEMMA LoopTurnWhole ==
  ASSUME TurnInv, ForTurn \/ WhileTurn, NEW l \in Loops
  PROVE  WholeTurn(l)
<1> DEFINE b == Father[event.from]
           counted == [turns EXCEPT ![b] = @ + 1]
           I == ChildrenOf(b) \cup UNION {Inside(n) : n \in ChildrenOf(b)}
<1>1. event.kind = "FINISH" /\ b \in Loops /\ b \in Nodes /\ l \in Nodes
  BY Tree DEF ForTurn, WhileTurn
<1>2. \/ /\ Ends(b, "DONE", "FINISH") /\ turns' = counted
         /\ b \in Fors => LastTurn(b)
      \/ TurnAgain(b, counted)
  BY Tree DEF ForTurn, WhileTurn
<1>3. turns \in [Loops -> Nat] /\ state \in [Nodes -> State]
  BY DEF TurnInv, TypeOK
<1>4. counted \in [Loops -> Nat] /\ counted[b] = turns[b] + 1
      /\ \A k \in Loops : k # b => counted[k] = turns[k]
  BY <1>1, <1>3
<1>5. turns'[l] > turns[l] => l = b
  <2>1. turns'[l] = counted[l] \/ turns'[l] = 0
    <3>1. TurnAgain(b, counted) => turns' = [k \in Loops |-> IF k \in I THEN 0 ELSE counted[k]]
      BY DEF TurnAgain
    <3> HIDE DEF counted, I, b
    <3> QED BY <1>2, <3>1
  <2> HIDE DEF counted, b
  <2> QED BY <1>3, <1>4, <2>1
<1>6. turns'[l] > turns[l] => \A n \in ChildrenOf(l) : AllDone(n)
  BY <1>1, <1>5, BodyAllDone
<1>7. ASSUME l \in Fors, state[l] = "ACTIVATED", state'[l] = "DONE", fake[l] = NoFake
      PROVE  turns'[l] = input[l]
  <2>1. CASE TurnAgain(b, counted)
    <3>1. PICK v \in FreshInputs(ChildrenOf(b)) :
            InitAndEnter([state EXCEPT ![b] = "ACTIVATED"], I, ChildrenOf(b), v, KeptGates(gate, I))
      BY <2>1 DEF TurnAgain
    <3>2. [state EXCEPT ![b] = "ACTIVATED"] = state
      BY <1>1, TurnEntrance
    <3> HIDE DEF I, b
    <3>3. InitAndEnter(state, I, ChildrenOf(b), v, KeptGates(gate, I))
      BY <3>1, <3>2
    <3> QED BY <1>1, <1>7, <3>3, EnterNotDone
  <2>2. CASE Ends(b, "DONE", "FINISH") /\ turns' = counted /\ (b \in Fors => LastTurn(b))
    <3>1. l = b
      BY <1>1, <1>3, <1>7, <2>2 DEF Ends
    <3>2. turns'[l] = turns[l] + 1 /\ LastTurn(l)
      BY <1>4, <1>7, <2>2, <3>1
    <3>3. input[l] \in Int /\ turns[l] < input[l] /\ turns[l] \in Nat
      BY <1>3, <1>7 DEF TurnInv, ForInv
    <3> QED BY <3>2, <3>3 DEF LastTurn
  <2> QED BY <1>2, <2>1, <2>2
<1> QED BY <1>6, <1>7 DEF WholeTurn

LEMMA StepWhole ==
  ASSUME TurnInv, [Next]_vars, NEW l \in Loops
  PROVE  WholeTurn(l)
<1>0. l \in Nodes /\ l \notin Blocs /\ l \notin Elem /\ (l \in Fors => l \notin Switches)
  BY Tree
<1>1. CASE ForTurn \/ WhileTurn
  BY <1>1, LoopTurnWhole
<1>2. SUFFICES ASSUME UNCHANGED turns, state[l] = "ACTIVATED" /\ state'[l] = "DONE",
                      fake[l] = NoFake, l \in Fors, ~ (ForTurn \/ WhileTurn)
               PROVE  FALSE
  <2>1. ~ (ForTurn \/ WhileTurn) => UNCHANGED turns
    BY DEF Next, UpdateStateFrom, vars, StartSchema, OnStart, BlocLastFinished, BlocFinished,
       BlocFailed, ControlFailed, SwitchFinished, TaskCall, Load, Begin, Finished, Aborted,
       FakeCall, FakeBegin, FakeEnds
  <2>2. turns'[l] = turns[l] => ~ (turns'[l] > turns[l])
    BY DEF TurnInv, TypeOK
  <2> QED BY <1>1, <2>1, <2>2 DEF WholeTurn
<1>3. state \in [Nodes -> State]
  BY DEF TurnInv, TypeOK
<1>4. CASE StartSchema \/ BlocFinished
  BY <1>0, <1>2, <1>4, EnterNotDone DEF StartSchema, BlocFinished
<1>5. CASE OnStart
  BY <1>2, <1>5, OnStartKeeps
<1>6. CASE BlocLastFinished
  BY <1>0, <1>2, <1>3, <1>6 DEF BlocLastFinished, BlocFinish
<1>7. CASE BlocFailed
  <2> DEFINE st == [m \in Nodes |-> IF m \in Downstream[event.from] THEN "FAILED" ELSE state[m]]
             b == Father[event.from]
  <2>1. b \in Blocs /\ (BlocFinish(b, st) \/ state' = st)
    BY <1>7 DEF BlocFailed
  <2>2. st[l] # "DONE" /\ l # b
    BY <1>0, <1>2, <2>1
  <2>3. DOMAIN st = Nodes
    OBVIOUS
  <2> HIDE DEF st, b
  <2>4. state'[l] = st[l]
    BY <1>0, <2>1, <2>2, <2>3 DEF BlocFinish
  <2> QED BY <1>2, <2>2, <2>4
<1>8. CASE ControlFailed
  BY <1>0, <1>2, <1>3, <1>8 DEF ControlFailed, Ends
<1>9. CASE SwitchFinished
  BY <1>0, <1>2, <1>3, <1>9 DEF SwitchFinished, Ends
<1>10. ASSUME NEW n \in Elem, TaskCall(n) PROVE FALSE
  BY <1>0, <1>2, <1>3, <1>10 DEF TaskCall, Load, Begin, Finished, Aborted
<1>11. ASSUME NEW c \in Control, FakeCall(c) PROVE FALSE
  <2>1. CASE FakeBegin(c)
    BY <1>2, <2>1 DEF FakeBegin
  <2>2. CASE FakeEnds(c)
    <3>1. fake[c] # NoFake
      BY <2>2 DEF FakeEnds, TurnInv, RunInv
    <3> QED BY <1>0, <1>2, <1>3, <2>2, <3>1 DEF FakeEnds
  <2> QED BY <1>11, <2>1, <2>2 DEF FakeCall
<1>12. CASE UNCHANGED vars
  BY <1>2, <1>12 DEF vars
<1> QED BY <1>2, <1>4, <1>5, <1>6, <1>7, <1>8, <1>9, <1>10, <1>11, <1>12 DEF Next, UpdateStateFrom

\* A turn is counted only when all that the body had to run in it is done and
\* nothing of it runs, and a ForLoop ends after nsteps turns.
THEOREM TurnsMadeWhole == Spec => TurnsAreWhole
<1>1. TurnInv /\ [Next]_vars =>
        [\A l \in Loops :
           /\ turns'[l] > turns[l] => \A n \in ChildrenOf(l) : AllDone(n)
           /\ (l \in Fors /\ state[l] = "ACTIVATED" /\ state'[l] = "DONE" /\ fake[l] = NoFake)
                => turns'[l] = input[l]]_vars
  BY StepWhole DEF WholeTurn
<1> QED BY <1>1, TurnInvHolds, PTL DEF Spec, TurnsAreWhole
=============================================================================
