--------------------------- MODULE SchedulerProofs ---------------------------
(***************************************************************************)
(* Proofs about Scheduler, for every schema: its variables keep to their   *)
(* types, nodes run in the order of the control links, a node that is done *)
(* stays done, failures reach what follows, and no schema is left with     *)
(* nothing to run before its root is finished.                             *)
(*                                                                         *)
(* The invariant is IInv.  Every action but those that only move an event  *)
(* makes a step that is Sound; the lemma SoundKeeps says that such steps   *)
(* keep the parts of IInv that do not speak of the event.  Failures need   *)
(* LinksOpen, LoadOpen and FailedInv besides, and the absence of dead ends *)
(* LiveInv, each part of which an action can disturb has its own lemma     *)
(* (EntryKept, EndKept, DoneKept...).                                      *)
(***************************************************************************)
EXTENDS Scheduler, FiniteSetTheorems, TLAPS

\* The Blocs around n have been entered, and their gates were open.
Inside(n) == \A b \in Enclosing[n] :
               state[b] \notin {"READY", "DISABLED"} /\ GateReady(gate, b)

GatesTrue   == \A l \in gate : state[l[1]] = "DONE"
GatesOpen   == \A n \in Children :
                 state[n] \in {"TOACTIVATE", "ACTIVATED", "DONE"} => GateReady(gate, n)
RunInside   == \A n \in Elem :
                 (n \in tasks \/ state[n] \in {"ACTIVATED", "DONE"}) => Inside(n)
DoneBlocs   == \A b \in Blocs : state[b] = "DONE" => AllDone(state, b)
DisabledOld == \A n \in Nodes : state[n] = "DISABLED" => n \in InitiallyDisabled

\* An event comes from a node whose father may still change.
EventTrue ==
  event # NoEvent =>
    /\ event.from \in Children
    /\ Inside(event.from)
    /\ state[Father[event.from]] # "DONE"
    /\ event.kind = "FINISH" => /\ state[event.from] = "DONE"
                                /\ \A l \in gate : l[1] # event.from
    /\ event.kind = "ABORT"  => state[event.from] \in {"ERROR", "FAILED"}

Parts == GatesTrue /\ GatesOpen /\ RunInside /\ DoneBlocs /\ DisabledOld
IInv  == TypeOK /\ Parts /\ EventTrue

\* What a step may do to the states, the gates and the tasks.
Sound ==
  /\ gate \subseteq gate'
  /\ \A l \in gate' \ gate : state'[l[1]] = "DONE"
  /\ \A n \in Nodes : state[n] = "DONE" => state'[n] = "DONE"
  /\ \A n \in Nodes : state'[n] \in {"READY", "DISABLED"} => state'[n] = state[n]
  /\ \A n \in Children :
       state'[n] \in {"TOACTIVATE", "ACTIVATED", "DONE"} /\ state'[n] # state[n]
         => (\A p \in Precursors(n) : <<p, n>> \in gate')
  /\ \A n \in Elem : /\ state'[n] \in {"ACTIVATED", "DONE"} /\ state'[n] # state[n]
                          => n \in tasks \/ state[n] = "ACTIVATED"
                     /\ state[n] = "ACTIVATED" => state'[n] \in {"ACTIVATED", "DONE", "ERROR"}
                     /\ n \in tasks' => n \in tasks \/ Inside(n)
  /\ \A b \in Blocs : state'[b] = "DONE" /\ state[b] # "DONE"
                        => \A n \in ChildrenOf(b) : state'[n] \in {"DONE", "DISABLED"}
  /\ \A n \in Children : state[n] = "DISABLED" /\ state'[n] # "DISABLED"
                           => state[Father[n]] # "DONE"

-----------------------------------------------------------------------------
(* The graph                                                               *)

\* Elementary nodes are children, and fathers are Blocs.
LEMMA Graph ==
  /\ Elem \subseteq Children /\ Children \subseteq Nodes /\ Blocs \subseteq Nodes
  /\ Root \in Blocs /\ Root \notin Elem
  /\ \A n \in Children : Father[n] \in Blocs
  /\ Precursors(Root) = {}
BY GraphAssumption DEF Nodes, Children, Precursors

\* A set that holds the successors of n and of its members holds all that
\* follows n (OutGate::exNotifyFailed reaches nothing else).
LEMMA DownstreamLeast ==
  ASSUME NEW n \in Children, NEW S \in SUBSET Children,
         Successors(n) \subseteq S, \A x \in S : Successors(x) \subseteq S
  PROVE  Downstream[n] \subseteq S
BY Graph DEF Downstream

\* What follows a node is in the same Bloc.
LEMMA DownstreamSiblings ==
  ASSUME NEW n \in Children
  PROVE  Downstream[n] \subseteq ChildrenOf(Father[n])
<1> DEFINE S == ChildrenOf(Father[n])
<1>1. S \in SUBSET Children
  BY DEF ChildrenOf
<1>2. Successors(n) \subseteq S
  BY GraphAssumption DEF Successors, ChildrenOf
<1>3. \A x \in S : Successors(x) \subseteq S
  BY GraphAssumption DEF Successors, ChildrenOf
<1> QED BY <1>1, <1>2, <1>3, DownstreamLeast

\* The Blocs around a node are its father and the Blocs around its father.
LEMMA EnclosingStep ==
  ASSUME NEW n \in Children
  PROVE  Enclosing[n] = {Father[n]} \cup Enclosing[Father[n]]
<1> DEFINE f == Father[n]
<1> DEFINE Closed(x, S) == /\ x \in Children => Father[x] \in S
                           /\ \A y \in S \ {Root} : Father[y] \in S
<1>0. f \in Blocs /\ f \in Nodes /\ n \in Nodes
  BY Graph
<1>1. \A x \in Nodes : Enclosing[x] = {b \in Blocs : \A S \in SUBSET Blocs : Closed(x, S) => b \in S}
  BY DEF Enclosing
<1>2. Enclosing[f] \in SUBSET Blocs
  BY <1>0, <1>1
<1>3. Closed(f, Enclosing[f])
  <2>1. ASSUME f \in Children PROVE Father[f] \in Enclosing[f]
    BY <2>1, <1>0, <1>1, Graph
  <2>2. ASSUME NEW y \in Enclosing[f] \ {Root} PROVE Father[y] \in Enclosing[f]
    <3>1. y \in Blocs /\ y \in Children /\ Father[y] \in Blocs
      BY <1>2, Graph DEF Children, Nodes
    <3>2. ASSUME NEW S \in SUBSET Blocs, Closed(f, S) PROVE Father[y] \in S
      BY <3>2, <1>0, <1>1
    <3> QED BY <3>1, <3>2, <1>0, <1>1
  <2> QED BY <2>1, <2>2
<1>4. {f} \cup Enclosing[f] \in SUBSET Blocs /\ Closed(n, {f} \cup Enclosing[f])
  <2>1. f # Root => f \in Children
    BY <1>0 DEF Children, Nodes
  <2> QED BY <2>1, <1>0, <1>2, <1>3
<1>5. Enclosing[n] \subseteq {f} \cup Enclosing[f]
  <2> HIDE DEF Closed
  <2>1. \A b \in Enclosing[n] : \A S \in SUBSET Blocs : Closed(n, S) => b \in S
    BY <1>0, <1>1
  <2> QED BY <2>1, <1>4
<1>6. ASSUME NEW S \in SUBSET Blocs, Closed(n, S) PROVE f \in S /\ Closed(f, S)
  <2>1. f \in S
    BY <1>6
  <2>2. f \in Children => f # Root
    BY DEF Children
  <2> QED BY <2>1, <2>2, <1>6
<1>7. {f} \cup Enclosing[f] \subseteq Enclosing[n]
  <2> HIDE DEF Closed
  <2>1. \A b \in Enclosing[f] : \A S \in SUBSET Blocs : Closed(f, S) => b \in S
    BY <1>0, <1>1
  <2>2. ASSUME NEW b \in {f} \cup Enclosing[f] PROVE b \in Enclosing[n]
    <3>1. b \in Blocs
      BY <1>0, <1>2
    <3>2. ASSUME NEW S \in SUBSET Blocs, Closed(n, S) PROVE b \in S
      BY <3>2, <1>6, <2>1
    <3> QED BY <3>1, <3>2, <1>0, <1>1
  <2> QED BY <2>2
<1> QED BY <1>5, <1>7

\* What is entered from m, besides m, is inside m and has no precursor
\* (Bloc::exUpdateState starts the children whose gate is empty).
LEMMA EnteredInside ==
  ASSUME NEW m \in Nodes \ InitiallyDisabled, NEW x \in Entered[m], x # m
  PROVE  /\ x \in Children \ InitiallyDisabled
         /\ Precursors(x) = {}
         /\ m \in Enclosing[x]
<1> DEFINE S == {y \in Nodes \ InitiallyDisabled :
                   y = m \/ (y \in Children /\ Precursors(y) = {} /\ m \in Enclosing[y])}
<1>1. S \in SUBSET (Nodes \ InitiallyDisabled) /\ m \in S
  OBVIOUS
<1>2. ASSUME NEW b \in S \cap Blocs, NEW y \in Entry(b) \ InitiallyDisabled PROVE y \in S
  <2>1. y \in Children /\ Father[y] = b /\ Precursors(y) = {} /\ y \in Nodes
    BY Graph DEF Entry, ChildrenOf
  <2>2. Enclosing[y] = {b} \cup Enclosing[b]
    BY <2>1, EnclosingStep
  <2>3. m = b \/ m \in Enclosing[b]
    BY <1>2
  <2> QED BY <2>1, <2>2, <2>3
<1>3. x \in S
  BY <1>1, <1>2 DEF Entered
<1> QED BY <1>3

\* Root is not disabled.
LEMMA RootEnabled == Root \in Nodes \ InitiallyDisabled
<1>1. Disabled \subseteq Children /\ \A n \in Children : Downstream[n] \subseteq Children
  BY GraphAssumption, Graph DEF Downstream
<1> QED BY <1>1, Graph DEF InitiallyDisabled, Children

\* Nodes that are not READY are not loaded with others (ensureLoading).
LEMMA LoadedReady ==
  ASSUME NEW st, NEW S \in SUBSET Elem, \A n \in S : st[n] = "READY",
         NEW x \in LoadedWith(st, S)
  PROVE  x \in Elem /\ st[x] = "READY"
<1> DEFINE T == {y \in Elem : st[y] = "READY"}
<1>1. T \in SUBSET Elem /\ S \subseteq T
  OBVIOUS
<1>2. \A y \in T : {z \in Coupled(y) : st[z] = "READY"} \subseteq T
  BY DEF Coupled
<1> QED BY <1>1, <1>2 DEF LoadedWith

\* What exUpdateState does to one node.
LEMMA UpdatedNode ==
  ASSUME NEW st \in [Nodes -> State], NEW W \in SUBSET Nodes, NEW n \in Nodes
  PROVE  \/ Updated(st, W)[n] = st[n]
         \/ n \in Elem /\ st[n] = "READY" /\ Updated(st, W)[n] = "TOLOAD"
         \/ n \in W \cap Elem /\ st[n] = "LOADED" /\ Updated(st, W)[n] = "TOACTIVATE"
         \/ n \in W \cap Blocs /\ st[n] # "DONE" /\ Updated(st, W)[n] = "ACTIVATED"
<1> DEFINE R == {m \in W \cap Elem : st[m] = "READY"}
<1>1. \A x \in LoadedWith(st, R) : x \in Elem /\ st[x] = "READY"
  BY LoadedReady
<1> QED BY <1>1 DEF Updated

LEMMA UpdatedType ==
  ASSUME NEW st \in [Nodes -> State], NEW W \in SUBSET Nodes
  PROVE  Updated(st, W) \in [Nodes -> State]
<1>1. DOMAIN Updated(st, W) = Nodes /\ Updated(st, W) = [n \in Nodes |-> Updated(st, W)[n]]
  BY DEF Updated
<1>2. \A n \in Nodes : Updated(st, W)[n] \in State
  BY UpdatedNode DEF State
<1> QED BY <1>1, <1>2

\* Coupled nodes have the same father.
LEMMA CoupledSiblings ==
  ASSUME NEW m \in Elem, NEW n \in CoupledSet[m]
  PROVE  n \in Elem /\ Father[n] = Father[m]
<1> DEFINE S == {x \in Elem : Father[x] = Father[m]}
<1>1. S \in SUBSET Elem /\ m \in S
  OBVIOUS
<1>2. \A x \in S : {y \in Elem : <<x, y>> \in StreamLinks} \subseteq S
  BY GraphAssumption
<1> QED BY <1>1, <1>2 DEF CoupledSet

-----------------------------------------------------------------------------
(* Type correctness                                                        *)

LEMMA EventFrom ==
  ASSUME event \in Event, event # NoEvent
  PROVE  event.from \in Children /\ event.kind \in {"START", "FINISH", "ABORT"}
BY DEF Event

LEMMA KindIsAnEvent ==
  ASSUME event \in Event, event.kind # "NOEVENT"
  PROVE  event # NoEvent /\ event.from \in Children /\ Father[event.from] \in Blocs
                         /\ Father[event.from] \in Nodes
BY Graph DEF Event, NoEvent

LEMMA ToFatherEvent ==
  ASSUME NEW b \in Blocs, NEW kind \in {"START", "FINISH", "ABORT"}
  PROVE  ToFather(b, kind) \in Event
BY DEF ToFather, Event, Children, Nodes

LEMMA FailedType ==
  ASSUME NEW st \in [Nodes -> State], NEW n \in Nodes
  PROVE  FailedAfter(st, n) \in [Nodes -> State]
BY DEF FailedAfter, State

LEMMA FinishType ==
  ASSUME NEW st \in [Nodes -> State], NEW b \in Blocs, Finish(st, b)
  PROVE  state' \in [Nodes -> State] /\ event' \in Event
BY ToFatherEvent, Graph DEF Finish, State

LEMMA EnteredNodes ==
  \A m \in Nodes : Entered[m] \subseteq Nodes
BY DEF Entered

LEMMA ReachedNodes ==
  ASSUME NEW n \in Children
  PROVE  Reached(n) \in SUBSET Nodes
<1>1. Opened(n) \subseteq Nodes
  BY Graph DEF Opened, Successors
<1> QED BY <1>1, EnteredNodes DEF Reached

LEMMA InitType == Init => TypeOK
BY DEF Init, TypeOK, State, Event

LEMMA StepType == TypeOK /\ [Next]_vars => TypeOK'
<1> SUFFICES ASSUME TypeOK, [Next]_vars PROVE TypeOK'
  OBVIOUS
<1> USE DEF TypeOK
<1>1. CASE StartSchema
  <2>1. Entered[Root] \in SUBSET Nodes
    BY EnteredNodes, Graph
  <2> QED BY <1>1, <2>1, UpdatedType DEF StartSchema
<1>2. ASSUME NEW x \in Invalid, StartSchemaThrows(x) PROVE TypeOK'
  <2>1. PICK P \in VisitedBefore(Entered[Root], x) :
          state' = [Updated(state, P) EXCEPT ![x] = "INTERNALERR"]
    BY <1>2 DEF StartSchemaThrows
  <2>2. P \in SUBSET Nodes
    BY <2>1, EnteredNodes, Graph DEF VisitedBefore
  <2>3. Updated(state, P) \in [Nodes -> State]
    BY <2>2, UpdatedType
  <2>4. state' \in [Nodes -> State]
    BY <2>1, <2>3 DEF State
  <2> QED BY <1>2, <2>4 DEF StartSchemaThrows
<1>3. CASE OnStartEvent
  <2>1. Father[event.from] \in Blocs /\ Father[event.from] \in Nodes
    BY <1>3, KindIsAnEvent DEF OnStartEvent
  <2>2. state' \in [Nodes -> State]
    BY <1>3, <2>1 DEF OnStartEvent, State
  <2>3. event' \in Event
    BY <1>3, <2>1, ToFatherEvent DEF OnStartEvent
  <2> QED BY <1>3, <2>2, <2>3 DEF OnStartEvent
<1>4. CASE OnLastFinished
  <2>1. Father[event.from] \in Blocs
    BY <1>4, KindIsAnEvent DEF OnLastFinished
  <2> QED BY <1>4, <2>1, FinishType DEF OnLastFinished
<1>5. CASE OnFinished
  <2>1. event.from \in Children
    BY <1>5, KindIsAnEvent DEF OnFinished
  <2>2. state' \in [Nodes -> State]
    BY <1>5, <2>1, ReachedNodes, UpdatedType DEF OnFinished
  <2>3. gate' \subseteq CtrlLinks
    BY <1>5, <2>1 DEF OnFinished, Successors
  <2> QED BY <1>5, <2>2, <2>3 DEF OnFinished, Event
<1>6. ASSUME NEW x \in Invalid, OnFinishedThrows(x) PROVE TypeOK'
  <2> DEFINE n == event.from
  <2>1. n \in Children /\ n \in Nodes /\ Father[n] \in Blocs /\ Father[n] \in Nodes
    BY <1>6, KindIsAnEvent, Graph DEF OnFinishedThrows
  <2>2. PICK P \in VisitedBefore(Reached(n), x), Q \in SUBSET Successors(n) :
          /\ gate' = gate \cup ({n} \X Q)
          /\ state' = [FailedAfter([Updated(state, P) EXCEPT ![x] = "INTERNALERR"], n)
                         EXCEPT ![Father[n]] = "FAILED"]
    BY <1>6 DEF OnFinishedThrows
  <2>3. Reached(n) \in SUBSET Nodes
    BY <2>1, ReachedNodes
  <2>4. P \in SUBSET Nodes
    BY <2>2, <2>3 DEF VisitedBefore
  <2>5. [Updated(state, P) EXCEPT ![x] = "INTERNALERR"] \in [Nodes -> State]
    BY <2>4, UpdatedType DEF State
  <2>6. FailedAfter([Updated(state, P) EXCEPT ![x] = "INTERNALERR"], n) \in [Nodes -> State]
    BY <2>1, <2>5, FailedType
  <2>7. state' \in [Nodes -> State]
    BY <2>2, <2>6 DEF State
  <2>8. gate' \subseteq CtrlLinks
    BY <2>1, <2>2 DEF Successors
  <2>9. event' \in Event
    BY <1>6, <2>1, ToFatherEvent DEF OnFinishedThrows
  <2> QED BY <1>6, <2>7, <2>8, <2>9 DEF OnFinishedThrows
<1>7. CASE OnFailed
  <2> DEFINE n == event.from
  <2> DEFINE st == FailedAfter(state, n)
  <2>1. n \in Nodes /\ Father[n] \in Blocs
    BY <1>7, KindIsAnEvent, Graph DEF OnFailed
  <2>2. st \in [Nodes -> State]
    BY <2>1, FailedType
  <2>3. CASE AllFinished(st, Father[n])
    BY <1>7, <2>1, <2>2, <2>3, FinishType DEF OnFailed
  <2>4. CASE ~ AllFinished(st, Father[n])
    BY <1>7, <2>2, <2>4 DEF OnFailed, Event
  <2> QED BY <2>3, <2>4
<1>8. ASSUME NEW S \in SUBSET Elem, GetNextTasks(S) \/ DropTasks(S) PROVE TypeOK'
  BY <1>8 DEF GetNextTasks, DropTasks
<1>9. ASSUME NEW n \in Elem, TaskCall(n) PROVE TypeOK'
  <2>1. n \in Nodes /\ n \in Children
    BY Graph
  <2>2. state' \in [Nodes -> State]
    BY <1>9, <2>1 DEF TaskCall, TaskStarted, TaskNotLoaded, Connected, ConnectedState,
                      CoupledAborted, Begin, Finished, Aborted, Notify, State
  <2>3. event' \in Event
    BY <1>9, <2>1 DEF TaskCall, TaskStarted, TaskNotLoaded, Connected, ConnectedState,
                      CoupledAborted, Begin, Finished, Aborted, Notify, Event
  <2> QED BY <1>9, <2>2, <2>3 DEF TaskCall, TaskStarted, TaskNotLoaded, Connected,
             CoupledAborted, Begin, Finished, Aborted
<1>10. CASE UNCHANGED vars
  BY <1>10 DEF vars
<1> QED BY <1>1, <1>2, <1>3, <1>4, <1>5, <1>6, <1>7, <1>8, <1>9, <1>10
        DEF Next, UpdateStateFrom

\* Type correctness of the engine's node states, gates and events.
THEOREM SchedulerTypes == Spec => []TypeOK
BY InitType, StepType, PTL DEF Spec

-----------------------------------------------------------------------------
(* Sound steps                                                             *)

\* A Bloc once entered stays entered, and a gate that is open stays open.
LEMMA InsideStays ==
  ASSUME TypeOK, Sound, NEW n \in Nodes, Inside(n)
  PROVE  Inside(n)'
BY DEF Inside, GateReady, Sound, Enclosing, Nodes

LEMMA SoundKeeps ==
  ASSUME TypeOK, TypeOK', Parts, Sound
  PROVE  Parts'
<1>1. GatesTrue'
  <2>1. \A l \in gate : l[1] \in Nodes
    BY GraphAssumption, Graph DEF TypeOK
  <2> QED BY <2>1 DEF GatesTrue, Sound, Parts
<1>2. GatesOpen'
  <2> SUFFICES ASSUME NEW n \in Children, state'[n] \in {"TOACTIVATE", "ACTIVATED", "DONE"}
               PROVE  \A p \in Precursors(n) : <<p, n>> \in gate'
    BY DEF GatesOpen, GateReady
  <2>1. CASE state'[n] = state[n]
    BY <2>1 DEF Parts, GatesOpen, GateReady, Sound
  <2>2. CASE state'[n] # state[n]
    BY <2>2 DEF Sound
  <2> QED BY <2>1, <2>2
<1>3. RunInside'
  <2> SUFFICES ASSUME NEW n \in Elem, n \in tasks' \/ state'[n] \in {"ACTIVATED", "DONE"}
               PROVE  Inside(n)'
    BY DEF RunInside
  <2>1. Inside(n)
    BY DEF Parts, RunInside, Sound
  <2> QED BY <2>1, InsideStays, Graph
<1>4. DoneBlocs'
  <2> SUFFICES ASSUME NEW b \in Blocs, state'[b] = "DONE",
                      NEW n \in ChildrenOf(b)
               PROVE  state'[n] \in {"DONE", "DISABLED"}
    BY DEF DoneBlocs, AllDone
  <2>1. n \in Children /\ n \in Nodes /\ Father[n] = b
    BY Graph DEF ChildrenOf
  <2>2. CASE state[b] = "DONE"
    <3>1. state[n] \in {"DONE", "DISABLED"}
      BY <2>2 DEF Parts, DoneBlocs, AllDone
    <3> QED BY <2>1, <2>2, <3>1 DEF Sound
  <2>3. CASE state[b] # "DONE"
    BY <2>3 DEF Sound
  <2> QED BY <2>2, <2>3
<1>5. DisabledOld'
  BY DEF Parts, DisabledOld, Sound
<1> QED BY <1>1, <1>2, <1>3, <1>4, <1>5 DEF Parts

\* Nothing that follows a node whose links are all closed has run.
LEMMA ClosedDownstream ==
  ASSUME TypeOK, Parts, NEW n \in Children, \A l \in gate : l[1] # n
  PROVE  \A m \in Downstream[n] : state[m] \notin {"TOACTIVATE", "ACTIVATED", "DONE"}
<1> DEFINE S == {m \in Children : state[m] \notin {"TOACTIVATE", "ACTIVATED", "DONE"}}
<1>1. ASSUME NEW m \in Children, NEW p \in Children, m \in Successors(p),
             \/ p = n
             \/ state[p] # "DONE"
      PROVE  m \in S
  <2>1. <<p, m>> \notin gate
    BY <1>1 DEF Parts, GatesTrue
  <2>2. p \in Precursors(m)
    BY <1>1 DEF Precursors, Successors
  <2> QED BY <2>1, <2>2, <1>1 DEF Parts, GatesOpen, GateReady
<1>2. Successors(n) \subseteq S
  BY <1>1 DEF Successors
<1>3. \A x \in S : Successors(x) \subseteq S
  BY <1>1 DEF Successors
<1> QED BY <1>2, <1>3, DownstreamLeast

\* A node that is not done has opened no gate.
LEMMA NotDoneClosed ==
  ASSUME Parts, NEW n \in Children, state[n] # "DONE"
  PROVE  \A l \in gate : l[1] # n
BY DEF Parts, GatesTrue

\* The Blocs around a node are around the nodes below it.
LEMMA InsideFather ==
  ASSUME NEW n \in Children, Inside(n), Father[n] # Root
  PROVE  Inside(Father[n]) /\ Father[n] \in Children
BY EnclosingStep, Graph DEF Inside, Children, Nodes

\* The father of a node that is neither done nor disabled is not done.
LEMMA FatherNotDone ==
  ASSUME TypeOK, Parts, NEW n \in Children, state[n] \notin {"DONE", "DISABLED"}
  PROVE  state[Father[n]] # "DONE"
BY Graph DEF Parts, DoneBlocs, AllDone, ChildrenOf

LEMMA NotOwnFather ==
  ASSUME NEW b \in Children
  PROVE  Father[b] # b
<1> SUFFICES ASSUME Father[b] = b PROVE FALSE
  OBVIOUS
<1>1. b \in Blocs /\ b \in Nodes
  BY Graph
<1>2. {b} \in SUBSET Blocs /\ (b \in Children => Father[b] \in {b})
       /\ \A x \in {b} \ {Root} : Father[x] \in {b}
  BY <1>1
<1>3. Enclosing[b] \subseteq {b}
  BY <1>1, <1>2 DEF Enclosing
<1> QED BY <1>3, TreeAssumption DEF Children

\* The event that updateStateFrom sends on to the father of a Bloc.
LEMMA NextEvent ==
  ASSUME TypeOK, Parts, Sound, NEW n \in Children, Inside(n),
         state[Father[n]] # "DONE",
         NEW kind \in {"START", "FINISH", "ABORT"},
         event' = ToFather(Father[n], kind),
         \A m \in Blocs : m # Father[n] /\ state'[m] = "DONE" => state[m] = "DONE",
         kind = "FINISH" => state'[Father[n]] = "DONE" /\ gate' = gate,
         kind = "ABORT" => state'[Father[n]] \in {"ERROR", "FAILED"}
  PROVE  EventTrue'
<1> DEFINE b == Father[n]
<1>1. CASE b = Root
  BY <1>1 DEF ToFather, EventTrue
<1>2. CASE b # Root
  <2>1. b \in Children /\ b \in Nodes /\ Father[b] \in Blocs /\ Inside(b)
    BY <1>2, InsideFather, Graph
  <2>2. Inside(b)'
    BY <2>1, InsideStays
  <2>3. state[b] # "DISABLED"
    BY EnclosingStep DEF Inside
  <2>4. state[Father[b]] # "DONE"
    BY <2>1, <2>3, FatherNotDone
  <2>5. state'[Father[b]] # "DONE"
    BY <2>1, <2>4, NotOwnFather
  <2>6. \A l \in gate : l[1] # b
    BY <2>1, NotDoneClosed
  <2>7. event' = [from |-> b, kind |-> kind]
    BY <1>2 DEF ToFather
  <2> QED BY <2>1, <2>2, <2>5, <2>6, <2>7 DEF EventTrue
<1> QED BY <1>1, <1>2

\* exUpdateState on nodes the gates of which are open.
LEMMA UpdatedSound ==
  ASSUME TypeOK, Parts, NEW W \in SUBSET Nodes,
         state' = Updated(state, W), tasks' = tasks, gate \subseteq gate',
         \A l \in gate' \ gate : l[1] \in Nodes /\ state[l[1]] = "DONE",
         \A x \in W \cap Children : x \notin InitiallyDisabled
                                      /\ \A p \in Precursors(x) : <<p, x>> \in gate'
  PROVE  /\ Sound
         /\ \A m \in Nodes : state'[m] = "DONE" => state[m] = "DONE"
<1>1. state \in [Nodes -> State]
  BY DEF TypeOK
<1>2. ASSUME NEW n \in Nodes
      PROVE  \/ state'[n] = state[n]
             \/ n \in Elem /\ state[n] = "READY" /\ state'[n] = "TOLOAD"
             \/ n \in W \cap Elem /\ state[n] = "LOADED" /\ state'[n] = "TOACTIVATE"
             \/ n \in W \cap Blocs /\ state[n] # "DONE" /\ state'[n] = "ACTIVATED"
  BY <1>1, UpdatedNode
<1>3. \A n \in Nodes : state'[n] = "DONE" <=> state[n] = "DONE"
  BY <1>2
<1>4. \A l \in gate' \ gate : state'[l[1]] = "DONE"
  BY <1>3
<1>5. \A n \in Nodes : state'[n] \in {"READY", "DISABLED"} => state'[n] = state[n]
  BY <1>2
<1>6. \A n \in Children :
       state'[n] \in {"TOACTIVATE", "ACTIVATED", "DONE"} /\ state'[n] # state[n]
         => (\A p \in Precursors(n) : <<p, n>> \in gate')
  BY <1>2, Graph
<1>7. \A n \in Elem : /\ state'[n] \in {"ACTIVATED", "DONE"} => state'[n] = state[n]
                      /\ state[n] = "ACTIVATED" => state'[n] = "ACTIVATED"
  BY <1>2, GraphAssumption DEF Nodes
<1>8. \A n \in Children : state[n] = "DISABLED" => state'[n] = "DISABLED"
  BY <1>2, Graph DEF Parts, DisabledOld
<1> QED BY <1>3, <1>4, <1>5, <1>6, <1>7, <1>8, Graph DEF Sound, Nodes

-----------------------------------------------------------------------------
(* The events                                                              *)

\* A node in what the success of n enters has its gate open, then; before,
\* it was not running, nor was it done.
LEMMA ReachedOpen ==
  ASSUME TypeOK, Parts, NEW n \in Children, \A l \in gate : l[1] # n,
         NEW x \in Reached(n)
  PROVE  /\ x \in Children \ InitiallyDisabled
         /\ x \in Successors(n) \/ Precursors(x) = {}
         /\ \A p \in Precursors(x) : <<p, x>> \in gate \cup ({n} \X Successors(n))
         /\ x \in Elem => state[x] \notin {"ACTIVATED", "DONE"}
<1>1. PICK m \in Opened(n) : x \in Entered[m]
  BY DEF Reached
<1>2. /\ m \in Children \ InitiallyDisabled /\ m \in Nodes /\ m \in Successors(n)
      /\ \A p \in Precursors(m) : <<p, m>> \in gate \cup ({n} \X Successors(n))
  BY <1>1, Graph DEF Opened, Successors, GateReady
<1>3. ~ GateReady(gate, m)
  BY <1>2 DEF GateReady, Precursors, Successors
<1>4. CASE x = m
  BY <1>2, <1>3, <1>4 DEF Parts, GatesOpen
<1>5. CASE x # m
  <2>1. x \in Children \ InitiallyDisabled /\ Precursors(x) = {} /\ m \in Enclosing[x]
    BY <1>1, <1>2, <1>5, EnteredInside
  <2>2. ASSUME x \in Elem, state[x] \in {"ACTIVATED", "DONE"} PROVE FALSE
    <3>1. Inside(x)
      BY <2>2 DEF Parts, RunInside
    <3> QED BY <3>1, <2>1, <1>3 DEF Inside
  <2> QED BY <2>1, <2>2
<1> QED BY <1>4, <1>5

LEMMA StartSchemaKeeps ==
  ASSUME IInv, StartSchema
  PROVE  Sound /\ EventTrue'
<1>1. Entered[Root] \in SUBSET Nodes
  BY EnteredNodes, Graph
<1>2. \A x \in Entered[Root] \cap Children : x \notin InitiallyDisabled /\ Precursors(x) = {}
  BY RootEnabled, EnteredInside DEF Children
<1> QED BY <1>1, <1>2, UpdatedSound DEF StartSchema, IInv, EventTrue

LEMMA StartSchemaThrowsKeeps ==
  ASSUME IInv, NEW x \in Invalid, StartSchemaThrows(x)
  PROVE  Sound /\ EventTrue'
<1>1. PICK P \in VisitedBefore(Entered[Root], x) :
        state' = [Updated(state, P) EXCEPT ![x] = "INTERNALERR"]
  BY DEF StartSchemaThrows
<1> DEFINE st == Updated(state, P)
<1>2. P \in SUBSET Nodes /\ P \subseteq Entered[Root]
  BY <1>1, EnteredNodes, Graph DEF VisitedBefore
<1>3. st \in [Nodes -> State]
  BY <1>2, UpdatedType DEF IInv, TypeOK
<1>4. x \in Elem /\ x \in Children /\ x \in Nodes /\ x \in Entered[Root]
  BY GraphAssumption, Graph DEF StartSchemaThrows
<1>5. state[x] \notin {"ACTIVATED", "DONE", "DISABLED"}
  <2>1. x \notin InitiallyDisabled
    BY <1>4, RootEnabled, EnteredInside DEF Children
  <2>2. state[x] # "DISABLED"
    BY <2>1, <1>4 DEF IInv, Parts, DisabledOld
  <2>3. Root \in Enclosing[x] /\ state[Root] = "READY"
    BY <1>4, TreeAssumption DEF StartSchemaThrows
  <2>4. ~ Inside(x)
    BY <2>3 DEF Inside
  <2> QED BY <2>2, <2>4, <1>4 DEF IInv, Parts, RunInside
<1>6. \A y \in P \cap Children : y \notin InitiallyDisabled /\ Precursors(y) = {}
  BY <1>2, RootEnabled, EnteredInside DEF Children
<1>7. ASSUME NEW n \in Nodes
      PROVE  \/ state'[n] = state[n]
             \/ n = x /\ state'[n] = "INTERNALERR"
             \/ n \in Elem /\ state[n] = "READY" /\ state'[n] = "TOLOAD"
             \/ n \in P \cap Elem /\ state[n] = "LOADED" /\ state'[n] = "TOACTIVATE"
             \/ n \in P \cap Blocs /\ state[n] # "DONE" /\ state'[n] = "ACTIVATED"
  <2>1. CASE n = x
    BY <2>1, <1>1, <1>3, <1>4
  <2>2. CASE n # x
    <3>1. state'[n] = st[n]
      BY <2>2, <1>1, <1>3
    <3> QED BY <3>1, <1>2, UpdatedNode DEF IInv, TypeOK
  <2> QED BY <2>1, <2>2
<1>8. \A n \in Nodes : state'[n] = "DONE" <=> state[n] = "DONE"
  BY <1>5, <1>7
<1>9. \A n \in Nodes : state'[n] \in {"READY", "DISABLED"} => state'[n] = state[n]
  BY <1>7
<1>10. \A n \in Children :
         state'[n] \in {"TOACTIVATE", "ACTIVATED", "DONE"} /\ state'[n] # state[n]
           => Precursors(n) = {}
  BY <1>6, <1>7, Graph
<1>11. \A n \in Elem : /\ state'[n] \in {"ACTIVATED", "DONE"} => state'[n] = state[n]
                       /\ state[n] = "ACTIVATED" => state'[n] = "ACTIVATED"
  BY <1>5, <1>7, GraphAssumption DEF Nodes
<1>12. \A n \in Children : state[n] = "DISABLED" => state'[n] = "DISABLED"
  BY <1>2, <1>5, <1>6, <1>7, Graph DEF IInv, Parts, DisabledOld
<1>13. gate' = gate /\ tasks' = tasks /\ event' = NoEvent
  BY DEF StartSchemaThrows
<1> QED BY <1>8, <1>9, <1>10, <1>11, <1>12, <1>13, Graph DEF Sound, EventTrue, Nodes

\* What is known of the father when an event is handled.
LEMMA EventFather ==
  ASSUME IInv, event.kind # "NOEVENT"
  PROVE  /\ event.from \in Children /\ event.from \in Nodes /\ Inside(event.from)
         /\ Father[event.from] \in Blocs /\ Father[event.from] \in Nodes
         /\ Father[event.from] \in Enclosing[event.from]
         /\ GateReady(gate, Father[event.from])
         /\ state[Father[event.from]] \notin {"READY", "DISABLED", "DONE"}
<1>1. /\ event # NoEvent /\ event.from \in Children /\ event.from \in Nodes
      /\ Father[event.from] \in Blocs /\ Father[event.from] \in Nodes
  BY KindIsAnEvent, Graph DEF IInv, TypeOK
<1>2. Father[event.from] \in Enclosing[event.from]
  BY <1>1, EnclosingStep
<1> QED BY <1>1, <1>2 DEF IInv, EventTrue, Inside

LEMMA OnStartEventKeeps ==
  ASSUME IInv, OnStartEvent
  PROVE  Sound /\ EventTrue'
<1> DEFINE n == event.from
<1> DEFINE b == Father[n]
<1>1. /\ n \in Children /\ Inside(n) /\ b \in Blocs /\ b \in Nodes /\ GateReady(gate, b)
      /\ state[b] \notin {"READY", "DISABLED", "DONE"}
  BY EventFather DEF OnStartEvent
<1>2. /\ state' = [state EXCEPT ![b] = "ACTIVATED"]
      /\ event' = ToFather(b, "START") /\ gate' = gate /\ tasks' = tasks
  BY DEF OnStartEvent
<1>3. \A m \in Nodes : state'[m] = IF m = b THEN "ACTIVATED" ELSE state[m]
  BY <1>1, <1>2 DEF IInv, TypeOK
<1>4. b \notin Elem
  BY <1>1, GraphAssumption
<1>5. Sound
  BY <1>1, <1>2, <1>3, <1>4, Graph DEF Sound, GateReady, Nodes
<1> QED BY <1>1, <1>2, <1>3, <1>5, NextEvent, Graph DEF IInv

\* The end of a Bloc, whatever state its children were put in.
LEMMA FinishKeeps ==
  ASSUME IInv, event.kind \in {"FINISH", "ABORT"},
         NEW st \in [Nodes -> State],
         \A m \in Nodes : \/ st[m] = state[m]
                          \/ /\ st[m] = "FAILED" /\ m \in ChildrenOf(Father[event.from])
                             /\ state[m] \notin {"TOACTIVATE", "ACTIVATED", "DONE"},
         Finish(st, Father[event.from]),
         gate' = gate, tasks' = tasks
  PROVE  Sound /\ EventTrue'
<1> DEFINE n == event.from
<1> DEFINE b == Father[n]
<1>1. /\ n \in Children /\ Inside(n) /\ b \in Blocs /\ b \in Nodes /\ GateReady(gate, b)
      /\ state[b] \notin {"READY", "DISABLED", "DONE"}
  BY EventFather
<1>2. PICK v \in {"DONE", "FAILED"} :
        /\ v = "DONE" <=> AllDone(st, b)
        /\ state' = [st EXCEPT ![b] = v]
        /\ event' = ToFather(b, IF v = "DONE" THEN "FINISH" ELSE "ABORT")
  BY <1>1 DEF Finish
<1>3. \A m \in Nodes : state'[m] = IF m = b THEN v ELSE st[m]
  BY <1>1, <1>2
<1>4. b \notin Elem
  BY <1>1, GraphAssumption
<1>5. ASSUME v = "DONE", NEW m \in ChildrenOf(b) PROVE state'[m] \in {"DONE", "DISABLED"}
  BY <1>2, <1>3, <1>5, Graph DEF AllDone, ChildrenOf
<1>6. \A m \in Nodes : m # b /\ state'[m] = "DONE" => state[m] = "DONE"
  BY <1>3
<1>7. \A m \in Nodes : state[m] = "DONE" => state'[m] = "DONE"
  BY <1>1, <1>3
<1>8. \A m \in Children : m # b /\ state'[m] # state[m] => state'[m] = "FAILED"
  BY <1>3, Graph
<1>9. \A m \in Children : state[m] = "DISABLED" /\ state'[m] # "DISABLED"
                           => state[Father[m]] # "DONE"
  BY <1>1, <1>3, Graph DEF ChildrenOf
<1>10. \A m \in Children :
         state'[m] \in {"TOACTIVATE", "ACTIVATED", "DONE"} /\ state'[m] # state[m]
           => (\A p \in Precursors(m) : <<p, m>> \in gate')
  BY <1>1, <1>8 DEF GateReady
<1>11. \A m \in Elem : /\ state'[m] \in {"ACTIVATED", "DONE"} => state'[m] = state[m]
                       /\ state[m] = "ACTIVATED" => state'[m] = "ACTIVATED"
  BY <1>3, <1>4, Graph
<1>12. \A m \in Blocs : state'[m] = "DONE" /\ state[m] # "DONE"
                          => \A c \in ChildrenOf(m) : state'[c] \in {"DONE", "DISABLED"}
  BY <1>3, <1>5, <1>6, Graph
<1>13. \A m \in Nodes : state'[m] \in {"READY", "DISABLED"} => state'[m] = state[m]
  BY <1>1, <1>3
<1>14. Sound
  BY <1>7, <1>9, <1>10, <1>11, <1>12, <1>13 DEF Sound
<1>15. \A m \in Blocs : m # b /\ state'[m] = "DONE" => state[m] = "DONE"
  BY <1>6, Graph
<1>16. state'[b] = v
  BY <1>1, <1>3
<1>17. CASE v = "DONE"
  BY <1>1, <1>2, <1>14, <1>15, <1>16, <1>17, NextEvent DEF IInv
<1>18. CASE v = "FAILED"
  BY <1>1, <1>2, <1>14, <1>15, <1>16, <1>18, NextEvent DEF IInv
<1> QED BY <1>17, <1>18

LEMMA OnLastFinishedKeeps ==
  ASSUME IInv, OnLastFinished
  PROVE  Sound /\ EventTrue'
BY FinishKeeps DEF OnLastFinished, IInv, TypeOK

LEMMA OnFinishedKeeps ==
  ASSUME IInv, OnFinished
  PROVE  Sound /\ EventTrue'
<1> DEFINE n == event.from
<1>1. n \in Children /\ n \in Nodes
  BY EventFather DEF OnFinished
<1>2. state[n] = "DONE" /\ \A l \in gate : l[1] # n
  BY EventFather, KindIsAnEvent DEF OnFinished, IInv, EventTrue, TypeOK
<1>3. Reached(n) \in SUBSET Nodes
  BY <1>1, ReachedNodes
<1>4. gate' = gate \cup ({n} \X Successors(n)) /\ event' = NoEvent /\ tasks' = tasks
       /\ state' = Updated(state, Reached(n))
  BY DEF OnFinished
<1>5. \A x \in Reached(n) : /\ x \notin InitiallyDisabled
                            /\ \A p \in Precursors(x) : <<p, x>> \in gate'
  BY <1>1, <1>2, <1>4, ReachedOpen DEF IInv
<1>6. \A l \in gate' \ gate : l[1] \in Nodes /\ state[l[1]] = "DONE"
  BY <1>1, <1>2, <1>4
<1>7. gate \subseteq gate'
  BY <1>4
<1> QED BY <1>3, <1>4, <1>5, <1>6, <1>7, UpdatedSound DEF IInv, EventTrue

LEMMA OnFinishedThrowsKeeps ==
  ASSUME IInv, NEW x \in Invalid, OnFinishedThrows(x)
  PROVE  Sound /\ EventTrue'
<1> DEFINE n == event.from
<1> DEFINE b == Father[n]
<1>1. /\ n \in Children /\ n \in Nodes /\ Inside(n) /\ b \in Blocs /\ b \in Nodes
      /\ state[b] \notin {"READY", "DISABLED", "DONE"}
  BY EventFather DEF OnFinishedThrows
<1>2. state[n] = "DONE" /\ \A l \in gate : l[1] # n
  BY EventFather, KindIsAnEvent DEF OnFinishedThrows, IInv, EventTrue, TypeOK
<1>3. PICK P \in VisitedBefore(Reached(n), x), Q \in SUBSET Successors(n) :
        /\ (P \cup {x} \cup Enclosing[x]) \cap Successors(n) \subseteq Q
        /\ gate' = gate \cup ({n} \X Q)
        /\ state' = [FailedAfter([Updated(state, P) EXCEPT ![x] = "INTERNALERR"], n)
                       EXCEPT ![b] = "FAILED"]
  BY DEF OnFinishedThrows
<1> DEFINE st == Updated(state, P)
<1> DEFINE st2 == [st EXCEPT ![x] = "INTERNALERR"]
<1>4. P \in SUBSET Nodes /\ P \subseteq Reached(n)
  BY <1>1, <1>3, ReachedNodes DEF VisitedBefore
<1>5. st \in [Nodes -> State] /\ st2 \in [Nodes -> State]
  <2>1. st \in [Nodes -> State]
    BY <1>4, UpdatedType DEF IInv, TypeOK
  <2> QED BY <2>1 DEF State
<1>6. x \in Elem /\ x \in Nodes /\ x \in Reached(n)
  BY GraphAssumption, Graph DEF OnFinishedThrows
<1>7. /\ x \in Children \ InitiallyDisabled
      /\ state[x] \notin {"ACTIVATED", "DONE", "DISABLED"}
  BY <1>1, <1>2, <1>6, ReachedOpen DEF IInv, Parts, DisabledOld
<1>8. ASSUME NEW m \in Downstream[n]
      PROVE  /\ m \in ChildrenOf(b) /\ m \in Children
             /\ state[m] \notin {"TOACTIVATE", "ACTIVATED", "DONE"}
  BY <1>1, <1>2, DownstreamSiblings, ClosedDownstream DEF IInv, ChildrenOf
<1>9. ASSUME NEW m \in P \cap Children
      PROVE  /\ m \notin InitiallyDisabled
             /\ m \in Successors(n) \/ Precursors(m) = {}
  BY <1>1, <1>2, <1>4, ReachedOpen DEF IInv
<1>10. ASSUME NEW m \in Nodes
       PROVE  \/ m = b /\ state'[m] = "FAILED"
              \/ m \in Downstream[n] /\ state'[m] = "FAILED"
              \/ m = x /\ state'[m] = "INTERNALERR"
              \/ m \notin Downstream[n] /\ state'[m] = st[m]
  <2>1. FailedAfter(st2, n) = [y \in Nodes |-> IF y \in Downstream[n] THEN "FAILED" ELSE st2[y]]
    BY DEF FailedAfter
  <2> QED BY <2>1, <1>1, <1>3, <1>5, <1>6
<1>11. ASSUME NEW m \in Nodes
       PROVE  \/ m = b /\ state'[m] = "FAILED"
              \/ m \in Downstream[n] /\ state'[m] = "FAILED"
              \/ m = x /\ state'[m] = "INTERNALERR"
              \/ m \notin Downstream[n] /\ state'[m] = state[m]
              \/ m \in Elem /\ state[m] = "READY" /\ state'[m] = "TOLOAD"
              \/ /\ m \notin Downstream[n] /\ m \in P \cap Elem
                 /\ state[m] = "LOADED" /\ state'[m] = "TOACTIVATE"
              \/ /\ m \notin Downstream[n] /\ m \in P \cap Blocs
                 /\ state[m] # "DONE" /\ state'[m] = "ACTIVATED"
  <2>1. CASE m \notin Downstream[n] /\ state'[m] = st[m]
    BY <2>1, <1>4, UpdatedNode DEF IInv, TypeOK
  <2> QED BY <2>1, <1>10
<1>12. Successors(n) \subseteq Downstream[n]
  BY <1>1 DEF Downstream, Successors
<1>13. b \notin Elem
  BY <1>1, GraphAssumption
<1>14. \A m \in Nodes : state'[m] = "DONE" <=> state[m] = "DONE"
  BY <1>1, <1>7, <1>8, <1>11
<1>15. \A m \in Nodes : state'[m] \in {"READY", "DISABLED"} => state'[m] = state[m]
  BY <1>11
<1>16. \A m \in Children :
         state'[m] \in {"TOACTIVATE", "ACTIVATED", "DONE"} /\ state'[m] # state[m]
           => Precursors(m) = {}
  BY <1>9, <1>11, <1>12, Graph
<1>17. \A m \in Elem : /\ state'[m] \in {"ACTIVATED", "DONE"} => state'[m] = state[m]
                       /\ state[m] = "ACTIVATED" => state'[m] = "ACTIVATED"
  <2> TAKE m \in Elem
  <2>1. m \in Nodes /\ m \notin Blocs
    BY GraphAssumption DEF Nodes
  <2> QED BY <2>1, <1>7, <1>8, <1>11, <1>13
<1>18. ASSUME NEW m \in Children, state[m] = "DISABLED", state'[m] # "DISABLED"
       PROVE  state[Father[m]] # "DONE"
  <2>1. m \in Nodes /\ m \in InitiallyDisabled
    BY <1>18, Graph DEF IInv, Parts, DisabledOld
  <2>2. m \notin P /\ m # x /\ m # b
    BY <2>1, <1>1, <1>7, <1>9, <1>18
  <2>3. m \in Downstream[n]
    BY <2>1, <2>2, <1>11, <1>18
  <2> QED BY <2>3, <1>1, <1>8 DEF ChildrenOf
<1>19. gate \subseteq gate' /\ \A l \in gate' \ gate : state'[l[1]] = "DONE"
  BY <1>1, <1>2, <1>3, <1>14
<1>20. tasks' = tasks /\ event' = ToFather(b, "ABORT")
  BY DEF OnFinishedThrows
<1>21. Sound
  BY <1>14, <1>15, <1>16, <1>17, <1>18, <1>19, <1>20, Graph DEF Sound
<1>22. state'[b] = "FAILED"
  BY <1>1, <1>3 DEF FailedAfter
<1>23. \A m \in Blocs : m # b /\ state'[m] = "DONE" => state[m] = "DONE"
  BY <1>14, Graph
<1> QED BY <1>1, <1>20, <1>21, <1>22, <1>23, NextEvent DEF IInv

LEMMA OnFailedKeeps ==
  ASSUME IInv, OnFailed
  PROVE  Sound /\ EventTrue'
<1> DEFINE n == event.from
<1> DEFINE b == Father[n]
<1> DEFINE st == FailedAfter(state, n)
<1>1. /\ n \in Children /\ n \in Nodes /\ Inside(n) /\ b \in Blocs /\ b \in Nodes
      /\ state[b] \notin {"READY", "DISABLED", "DONE"}
  BY EventFather DEF OnFailed
<1>2. \A l \in gate : l[1] # n
  <2>1. state[n] # "DONE"
    BY KindIsAnEvent DEF OnFailed, IInv, EventTrue, TypeOK
  <2> QED BY <2>1, <1>1, NotDoneClosed DEF IInv
<1>3. st \in [Nodes -> State] /\ gate' = gate /\ tasks' = tasks
  BY <1>1, FailedType DEF IInv, TypeOK, OnFailed
<1>4. \A m \in Nodes : \/ st[m] = state[m]
                       \/ /\ st[m] = "FAILED" /\ m \in ChildrenOf(b)
                          /\ state[m] \notin {"TOACTIVATE", "ACTIVATED", "DONE"}
  <2>1. \A m \in Downstream[n] : m \in ChildrenOf(b)
          /\ state[m] \notin {"TOACTIVATE", "ACTIVATED", "DONE"}
    BY <1>1, <1>2, DownstreamSiblings, ClosedDownstream DEF IInv
  <2> QED BY <2>1 DEF FailedAfter
<1>5. CASE AllFinished(st, b)
  BY <1>3, <1>4, <1>5, FinishKeeps DEF OnFailed
<1>6. CASE ~ AllFinished(st, b)
  <2>1. state' = st /\ event' = NoEvent
    BY <1>6 DEF OnFailed
  <2>2. \A m \in Nodes : state'[m] # state[m] =>
          /\ state'[m] = "FAILED" /\ m \in ChildrenOf(b)
          /\ state[m] \notin {"TOACTIVATE", "ACTIVATED", "DONE"}
    BY <2>1, <1>4
  <2>3. \A m \in Children : state[m] = "DISABLED" /\ state'[m] # "DISABLED"
                             => state[Father[m]] # "DONE"
    BY <2>2, <1>1, Graph DEF ChildrenOf
  <2>4. Sound
    BY <2>2, <2>3, <1>3, Graph DEF Sound
  <2> QED BY <2>1, <2>4 DEF EventTrue
<1> QED BY <1>5, <1>6

-----------------------------------------------------------------------------
(* The calls of the executor                                               *)

LEMMA TasksKeep ==
  ASSUME IInv, NEW S \in SUBSET Elem, GetNextTasks(S) \/ DropTasks(S)
  PROVE  Sound /\ EventTrue'
<1>1. state' = state /\ gate' = gate /\ event' = event /\ tasks' \subseteq Elem
  BY DEF GetNextTasks, DropTasks, IInv, TypeOK
<1>2. ASSUME NEW n \in tasks', n \notin tasks PROVE Inside(n)
  <2>1. n \in ReadyTasks /\ n \in Elem /\ n \in Children
    BY <1>2, Graph DEF GetNextTasks, DropTasks
  <2>2. ASSUME NEW b \in Enclosing[n]
        PROVE  state[b] \notin {"READY", "DISABLED"} /\ GateReady(gate, b)
    <3>1. b \in Blocs /\ state[b] = "ACTIVATED"
      BY <2>1, Graph DEF ReadyTasks, Enclosing
    <3>2. CASE b = Root
      BY <3>1, <3>2, Graph DEF GateReady
    <3>3. CASE b # Root
      BY <3>1, <3>3, Graph DEF IInv, Parts, GatesOpen, Children
    <3> QED BY <3>1, <3>2, <3>3
  <2> QED BY <2>2 DEF Inside
<1>3. Sound
  BY <1>1, <1>2 DEF Sound
<1>4. EventTrue'
  BY <1>1 DEF IInv, EventTrue, Inside, GateReady
<1> QED BY <1>3, <1>4

\* A task that changes its state and tells its father.
LEMMA NotifyKeeps ==
  ASSUME IInv, NEW n \in Elem, Inside(n), NEW v, NEW kind \in {"START", "FINISH", "ABORT"},
         Notify(n, v, kind), gate' = gate, tasks' = tasks,
         \/ kind = "START" /\ v = state[n] /\ state[n] \notin {"DONE", "DISABLED"}
         \/ kind = "FINISH" /\ v = "DONE" /\ state[n] = "ACTIVATED"
         \/ kind = "ABORT" /\ v = "ERROR" /\ state[n] # "DONE",
         state[Father[n]] # "DONE"
  PROVE  Sound /\ EventTrue'
<1>1. n \in Children /\ n \in Nodes /\ Father[n] \in Blocs /\ Father[n] # n
  BY Graph, NotOwnFather
<1>2. \A m \in Nodes : state'[m] = IF m = n THEN v ELSE state[m]
  BY <1>1 DEF Notify, IInv, TypeOK
<1>3. n \notin Blocs
  BY GraphAssumption
<1>4. state[n] = "ACTIVATED" => GateReady(gate, n)
  BY <1>1 DEF IInv, Parts, GatesOpen
<1>5. Sound
  BY <1>1, <1>2, <1>3, <1>4, Graph DEF Sound, GateReady
<1>6. Inside(n)'
  BY <1>1, <1>5, InsideStays DEF IInv
<1>7. state'[Father[n]] # "DONE"
  BY <1>1, <1>2, Graph
<1>8. event' = [from |-> n, kind |-> kind]
  BY DEF Notify
<1>9. state[n] # "DONE" => \A l \in gate : l[1] # n
  BY <1>1, NotDoneClosed DEF IInv
<1> QED BY <1>1, <1>2, <1>5, <1>6, <1>7, <1>8, <1>9 DEF EventTrue

\* A task that changes its state and tells nobody.
LEMMA QuietKeeps ==
  ASSUME IInv, event = NoEvent, NEW n \in Elem, NEW v,
         state' = [state EXCEPT ![n] = v], gate' = gate, tasks' = tasks, event' = event,
         state[n] \notin {"DONE", "DISABLED", "ACTIVATED"},
         v \in {"LOADED", "TOACTIVATE", "ACTIVATED"},
         v # "LOADED" => GateReady(gate, n),
         n \in tasks
  PROVE  Sound /\ EventTrue'
<1>1. n \in Children /\ n \in Nodes /\ n \notin Blocs
  BY Graph, GraphAssumption
<1>2. \A m \in Nodes : state'[m] = IF m = n THEN v ELSE state[m]
  BY <1>1 DEF IInv, TypeOK
<1> QED BY <1>1, <1>2, Graph DEF Sound, GateReady, EventTrue

LEMMA TaskCallKeeps ==
  ASSUME IInv, NEW n \in Elem, TaskCall(n)
  PROVE  Sound /\ EventTrue'
<1>1. n \in Children /\ n \in Nodes
  BY Graph
<1>2. Seen(n) => Inside(n) /\ state[n] \notin {"DONE", "DISABLED", "ACTIVATED"}
  BY DEF Seen, IInv, Parts, RunInside
<1>3. CASE TaskStarted(n)
  BY <1>1, <1>2, <1>3, FatherNotDone, NotifyKeeps DEF TaskStarted, IInv
<1>4. CASE TaskNotLoaded(n)
  BY <1>1, <1>2, <1>4, FatherNotDone, NotifyKeeps DEF TaskNotLoaded, IInv
<1>5. CASE Connected(n)
  <2>1. PICK v \in {"LOADED", "TOACTIVATE"} :
          state' = [state EXCEPT ![n] = v] /\ (v = "TOACTIVATE" => GateReady(gate, n))
    BY <1>5 DEF Connected, ConnectedState
  <2> QED BY <2>1, <1>2, <1>5, QuietKeeps DEF Connected, Seen
<1>6. CASE CoupledAborted(n)
  <2>1. PICK m \in tasks : /\ n # m /\ state[m] \in {"ERROR", "FAILED", "INTERNALERR"}
                         /\ n \in CoupledSet[m]
    BY <1>6 DEF CoupledAborted
  <2>2. m \in Elem /\ m \in Children /\ Father[n] = Father[m]
    BY <2>1, CoupledSiblings, Graph DEF IInv, TypeOK
  <2>3. Enclosing[n] = Enclosing[m]
    BY <1>1, <2>2, EnclosingStep
  <2>4. Inside(n)
    BY <2>1, <2>2, <2>3 DEF Inside, IInv, Parts, RunInside
  <2>5. state[Father[n]] # "DONE"
    BY <2>1, <2>2, FatherNotDone DEF IInv
  <2>6. Notify(n, "ERROR", "ABORT") /\ gate' = gate /\ tasks' = tasks /\ state[n] # "DONE"
    BY <1>6 DEF CoupledAborted
  <2> QED BY <2>4, <2>5, <2>6, NotifyKeeps
<1>7. CASE Begin(n)
  BY <1>1, <1>7, QuietKeeps DEF Begin, IInv, Parts, GatesOpen
<1>8. CASE Finished(n) \/ Aborted(n)
  <2>1. Inside(n) /\ state[n] = "ACTIVATED"
    BY <1>8 DEF Finished, Aborted, IInv, Parts, RunInside
  <2>2. state[Father[n]] # "DONE"
    BY <1>1, <2>1, FatherNotDone DEF IInv
  <2>3. CASE Finished(n)
    BY <2>1, <2>2, <2>3, NotifyKeeps DEF Finished
  <2>4. CASE Aborted(n)
    BY <2>1, <2>2, <2>4, NotifyKeeps DEF Aborted
  <2> QED BY <1>8, <2>3, <2>4
<1> QED BY <1>3, <1>4, <1>5, <1>6, <1>7, <1>8 DEF TaskCall

-----------------------------------------------------------------------------
(* The theorems                                                            *)

LEMMA NextKeeps ==
  ASSUME IInv, Next
  PROVE  Sound /\ EventTrue'
BY StartSchemaKeeps, StartSchemaThrowsKeeps, OnStartEventKeeps, OnLastFinishedKeeps,
   OnFinishedKeeps, OnFinishedThrowsKeeps, OnFailedKeeps, TasksKeep, TaskCallKeeps
   DEF Next, UpdateStateFrom

LEMMA InitInv == Init => IInv
<1> SUFFICES ASSUME Init PROVE IInv
  OBVIOUS
<1>1. TypeOK
  BY InitType
<1>2. \A n \in Nodes : /\ state[n] \in {"READY", "DISABLED"}
                       /\ state[n] = "DISABLED" => n \in InitiallyDisabled
  BY DEF Init
<1>3. gate = {} /\ tasks = {} /\ event = NoEvent
  BY DEF Init
<1>4. Parts
  BY <1>2, <1>3, Graph DEF Parts, GatesTrue, GatesOpen, RunInside, DoneBlocs, DisabledOld
<1> QED BY <1>1, <1>3, <1>4 DEF IInv, EventTrue

LEMMA StepInv == IInv /\ [Next]_vars => IInv'
<1> SUFFICES ASSUME IInv, [Next]_vars PROVE IInv'
  OBVIOUS
<1>1. CASE Next
  BY <1>1, NextKeeps, StepType, SoundKeeps DEF IInv
<1>2. CASE UNCHANGED vars
  BY <1>2 DEF vars, IInv, TypeOK, Parts, GatesTrue, GatesOpen, RunInside, DoneBlocs,
              DisabledOld, EventTrue, Inside, GateReady, AllDone
<1> QED BY <1>1, <1>2

LEMMA InvImpliesOrder == IInv => RunsAfterPrecursors
<1> SUFFICES ASSUME IInv, NEW n \in Elem, state[n] \in {"ACTIVATED", "DONE"},
                    NEW m \in {n} \cup Enclosing[n], NEW p \in Precursors(m)
             PROVE  state[p] = "DONE"
  BY DEF RunsAfterPrecursors
<1>1. GateReady(gate, m)
  BY Graph DEF IInv, Parts, GatesOpen, RunInside, Inside
<1>2. <<p, m>> \in gate
  BY <1>1 DEF GateReady
<1> QED BY <1>2 DEF IInv, Parts, GatesTrue

\* Whatever the schema and the order of the executor's calls, a node runs only
\* after all the nodes before it, and before the Blocs it is in.
THEOREM OrderOfExecution == Spec => []RunsAfterPrecursors
<1>1. Spec => []IInv
  BY InitInv, StepInv, PTL DEF Spec
<1> QED BY <1>1, InvImpliesOrder, PTL

\* Whatever the schema and the order of the executor's calls, a done node stays
\* done and a running one ends only by its own task.
THEOREM DoneStays == Spec => DoneIsForEver
<1> DEFINE A == /\ \A n \in Nodes : state[n] = "DONE" => state'[n] = "DONE"
                /\ \A n \in Elem : state[n] = "ACTIVATED"
                                     => state'[n] \in {"ACTIVATED", "DONE", "ERROR"}
<1>1. IInv /\ [Next]_vars => [A]_vars
  BY NextKeeps DEF Sound
<1>2. Spec => []IInv
  BY InitInv, StepInv, PTL DEF Spec
<1>3. Spec => [][A]_vars
  BY <1>1, <1>2, PTL DEF Spec
<1> QED BY <1>3 DEF DoneIsForEver

\* A node left aside by the run, in a Bloc that is done, was disabled with it.
LEMMA InvImpliesAllDone == IInv => RootDoneMeansAllDone
<1> SUFFICES ASSUME IInv, NEW n \in Elem, state[n] # "DONE",
                    ({n} \cup Enclosing[n]) \cap InitiallyDisabled = {}
             PROVE  state[Root] # "DONE"
  BY DEF RootDoneMeansAllDone
<1> DEFINE Left(x) == state[x] # "DONE" /\ ({x} \cup Enclosing[x]) \cap InitiallyDisabled = {}
<1> DEFINE S == {b \in Blocs : Left(b)}
<1>1. ASSUME NEW x \in Children, Left(x) PROVE Father[x] \in S
  <2>1. Father[x] \in Blocs /\ x \in Nodes /\ x \in ChildrenOf(Father[x])
    BY Graph DEF ChildrenOf
  <2>2. Enclosing[x] = {Father[x]} \cup Enclosing[Father[x]]
    BY EnclosingStep
  <2>3. state[x] # "DISABLED"
    BY <1>1, <2>1 DEF IInv, Parts, DisabledOld
  <2>4. state[Father[x]] # "DONE"
    BY <1>1, <2>1, <2>3 DEF IInv, Parts, DoneBlocs, AllDone
  <2> QED BY <1>1, <2>1, <2>2, <2>4
<1>2. n \in Children /\ n \in Nodes /\ Left(n)
  BY Graph
<1>3. \A x \in S \ {Root} : Father[x] \in S
  BY <1>1, Graph DEF Children, Nodes
<1>4. S \in SUBSET Blocs /\ Father[n] \in S
  BY <1>1, <1>2
<1>5. Enclosing[n] \subseteq S
  BY <1>2, <1>3, <1>4 DEF Enclosing
<1>6. Root \in S
  BY <1>2, <1>5, TreeAssumption
<1> QED BY <1>6

\* A schema is DONE only when every elementary node has been run, at whatever
\* depth, but those the user disabled.
THEOREM RootDone == Spec => []RootDoneMeansAllDone
<1>1. Spec => []IInv
  BY InitInv, StepInv, PTL DEF Spec
<1> QED BY <1>1, InvImpliesAllDone, PTL

-----------------------------------------------------------------------------
(* Failures                                                                *)

Bad == {"ERROR", "FAILED"}

LoadOpen == \A n \in Elem : (n \in tasks \/ state[n] = "TOLOAD") => GateReady(gate, n)

\* A node opens the gates of all that follow it, or fails what it leaves out.
LinksOpen == \A p \in Children : \A w, m \in Successors(p) :
               <<p, w>> \in gate => <<p, m>> \in gate \/ state[m] # "READY"

Pending(n) == event.kind = "ABORT" /\ event.from = n

\* A failure has reached what follows the node, or its event is on the way.
FailedInv == \A n \in Children :
               state[n] \in Bad => Pending(n) \/ \A m \in Downstream[n] : state[m] \in Bad

\* What follows a node that has opened no gate has a gate that is closed.
LEMMA DownstreamShut ==
  ASSUME Parts, NEW n \in Children, \A l \in gate : l[1] # n, NEW m \in Downstream[n]
  PROVE  m \in Children /\ ~ GateReady(gate, m)
<1> DEFINE S == {x \in Children : ~ GateReady(gate, x)}
<1>1. ASSUME NEW x \in Children, \A l \in gate : l[1] # x PROVE Successors(x) \subseteq S
  BY <1>1 DEF GateReady, Successors, Precursors
<1>2. \A x \in S : Successors(x) \subseteq S
  BY <1>1 DEF Parts, GatesOpen, GatesTrue
<1>3. Downstream[n] \subseteq S
  BY <1>1, <1>2, DownstreamLeast
<1> QED BY <1>3

LEMMA DownstreamClosed ==
  ASSUME Parts, NEW n \in Children, state[n] # "DONE", NEW m \in Downstream[n]
  PROVE  m \in Children /\ ~ GateReady(gate, m)
BY NotDoneClosed, DownstreamShut

LEMMA DownstreamTransitive ==
  ASSUME NEW n \in Children, NEW m \in Downstream[n]
  PROVE  m \in Children /\ Downstream[m] \subseteq Downstream[n]
<1>1. Downstream[n] \in SUBSET Children /\ n \in Nodes
  BY Graph DEF Downstream
<1>2. ASSUME NEW x \in Downstream[n] PROVE Successors(x) \subseteq Downstream[n]
  <2> SUFFICES ASSUME NEW y \in Successors(x), NEW S \in SUBSET Children,
                      Successors(n) \subseteq S, \A z \in S : Successors(z) \subseteq S
               PROVE  y \in S
    BY <1>1 DEF Downstream, Successors
  <2> QED BY <1>1, DownstreamLeast
<1> QED BY <1>1, <1>2, DownstreamLeast

LEMMA SuccessorsDownstream ==
  ASSUME NEW n \in Children
  PROVE  Successors(n) \subseteq Downstream[n]
BY Graph DEF Downstream, Successors

\* What is loaded by exUpdateState waits for the nodes some node of W waits for.
LEMMA LoadedTwins ==
  ASSUME CoupledTogether, NEW st \in [Nodes -> State], NEW W \in SUBSET Nodes, NEW n \in Elem,
         Updated(st, W)[n] = "TOLOAD", st[n] # "TOLOAD"
  PROVE  \E w \in W \cap Elem : Father[n] = Father[w] /\ Precursors(n) = Precursors(w)
<1> DEFINE R == {m \in W \cap Elem : st[m] = "READY"}
<1> DEFINE T == {m \in Elem : \E w \in W \cap Elem :
                   Father[m] = Father[w] /\ Precursors(m) = Precursors(w)}
<1>1. n \in LoadedWith(st, R)
  BY Graph DEF Updated
<1>2. T \in SUBSET Elem /\ R \subseteq T
  OBVIOUS
<1>3. \A x \in T : {y \in Coupled(x) : st[y] = "READY"} \subseteq T
  BY GraphAssumption DEF CoupledTogether, Coupled
<1>4. n \in T
  BY <1>1, <1>2, <1>3 DEF LoadedWith
<1> QED BY <1>4

\* The states after a FINISH event on which exUpdateState throws.
LEMMA ThrowsStates ==
  ASSUME IInv, NEW x \in Invalid, OnFinishedThrows(x)
  PROVE  /\ event.from \in Children /\ Father[event.from] \in Blocs
         /\ state'[Father[event.from]] = "FAILED"
         /\ x \in Reached(event.from) /\ event' = ToFather(Father[event.from], "ABORT")
         /\ \A m \in Downstream[event.from] : state'[m] = "FAILED"
         /\ \E P \in SUBSET Reached(event.from) :
              \A m \in Nodes \ ({x, Father[event.from]} \cup Downstream[event.from]) :
                state'[m] = Updated(state, P)[m]
         /\ x \notin Downstream[event.from] => state'[x] = "INTERNALERR"
<1> DEFINE n == event.from
<1> DEFINE b == Father[n]
<1>1. n \in Children /\ n \in Nodes /\ b \in Blocs /\ b \in Nodes
  BY EventFather DEF OnFinishedThrows
<1>2. PICK P \in VisitedBefore(Reached(n), x) :
        state' = [FailedAfter([Updated(state, P) EXCEPT ![x] = "INTERNALERR"], n)
                    EXCEPT ![b] = "FAILED"]
  BY DEF OnFinishedThrows
<1> DEFINE st == Updated(state, P)
<1> DEFINE st2 == [st EXCEPT ![x] = "INTERNALERR"]
<1>3. P \in SUBSET Reached(n) /\ P \in SUBSET Nodes
  BY <1>1, <1>2, ReachedNodes DEF VisitedBefore
<1>4. st \in [Nodes -> State]
  BY <1>3, UpdatedType DEF IInv, TypeOK
<1>5. x \in Elem /\ x \in Nodes /\ x \in Reached(n) /\ x # b
  BY <1>1, GraphAssumption, Graph DEF OnFinishedThrows
<1>6. FailedAfter(st2, n) = [y \in Nodes |-> IF y \in Downstream[n] THEN "FAILED" ELSE st2[y]]
  BY DEF FailedAfter
<1>7. \A m \in Nodes : state'[m] = IF m = b \/ m \in Downstream[n] THEN "FAILED" ELSE st2[m]
  BY <1>1, <1>2, <1>6
<1>8. \A m \in Nodes : st2[m] = IF m = x THEN "INTERNALERR" ELSE st[m]
  BY <1>4, <1>5
<1>9. \A m \in Downstream[n] : m \in Nodes
  BY <1>1, DownstreamTransitive, Graph
<1>10. event' = ToFather(b, "ABORT")
  BY DEF OnFinishedThrows
<1> HIDE DEF st2, st
<1>11. \A m \in Nodes \ ({x, b} \cup Downstream[n]) : state'[m] = Updated(state, P)[m]
  BY <1>7, <1>8 DEF st
<1> QED BY <1>1, <1>3, <1>5, <1>7, <1>8, <1>9, <1>10, <1>11

LEMMA LinksKept ==
  ASSUME IInv, LinksOpen, [Next]_vars
  PROVE  LinksOpen'
<1> SUFFICES ASSUME NEW p \in Children, NEW w \in Successors(p), NEW m \in Successors(p),
                    <<p, w>> \in gate', <<p, m>> \notin gate'
             PROVE  state'[m] # "READY"
  BY DEF LinksOpen
<1>1. m \in Children /\ m \in Nodes
  BY Graph DEF Successors
<1>2. Sound \/ UNCHANGED vars
  BY NextKeeps
<1>3. CASE <<p, w>> \in gate
  BY <1>1, <1>2, <1>3 DEF LinksOpen, Sound, vars
<1>4. CASE <<p, w>> \notin gate
  <2>1. OnFinished \/ \E x \in Invalid : OnFinishedThrows(x)
    BY <1>4 DEF Next, vars, StartSchema, StartSchemaThrows, UpdateStateFrom, OnStartEvent,
       OnLastFinished, OnFailed, GetNextTasks, DropTasks, TaskCall, TaskStarted,
       TaskNotLoaded, Connected, CoupledAborted, Begin, Finished, Aborted
  <2>2. ~ OnFinished
    BY <1>4 DEF OnFinished
  <2>3. PICK x \in Invalid : OnFinishedThrows(x)
    BY <2>1, <2>2
  <2>4. p = event.from
    BY <2>3, <1>4 DEF OnFinishedThrows
  <2>5. state'[m] = "FAILED"
    BY <2>3, <2>4, ThrowsStates, SuccessorsDownstream
  <2> QED BY <2>5
<1> QED BY <1>3, <1>4

\* A gate is open before what is behind it is loaded, or given to the executor.
LEMMA LoadOpenKept ==
  ASSUME IInv, LinksOpen, LoadOpen, CoupledTogether, [Next]_vars
  PROVE  LoadOpen'
<1> SUFFICES ASSUME NEW m \in Elem, m \in tasks' \/ state'[m] = "TOLOAD"
             PROVE  GateReady(gate', m)
  BY DEF LoadOpen
<1>1. m \in Children /\ m \in Nodes /\ m \notin Blocs
  BY Graph, GraphAssumption
<1>2. gate \subseteq gate'
  BY NextKeeps DEF Sound, vars
<1>3. CASE m \in tasks \/ state[m] = "TOLOAD"
  BY <1>2, <1>3 DEF LoadOpen, GateReady
<1>4. CASE m \in tasks' /\ m \notin tasks
  <2>1. PICK S \in SUBSET Elem : GetNextTasks(S)
    BY <1>4 DEF Next, vars, StartSchema, StartSchemaThrows, UpdateStateFrom, OnStartEvent,
       OnLastFinished, OnFinished, OnFinishedThrows, OnFailed, DropTasks, TaskCall, TaskStarted,
       TaskNotLoaded, Connected, CoupledAborted, Begin, Finished, Aborted
  <2>2. state[m] \in {"TOACTIVATE", "TOLOAD"} /\ gate' = gate
    BY <1>4, <2>1 DEF GetNextTasks, ReadyTasks
  <2> QED BY <1>1, <2>2 DEF LoadOpen, IInv, Parts, GatesOpen
<1>5. CASE state'[m] = "TOLOAD" /\ state[m] # "TOLOAD"
  <2>1. CASE StartSchema
    <3>1. Entered[Root] \in SUBSET Nodes
      BY EnteredNodes, Graph
    <3>2. PICK w \in Entered[Root] \cap Elem : Precursors(m) = Precursors(w)
      BY <1>5, <2>1, <3>1, LoadedTwins DEF StartSchema, IInv, TypeOK
    <3>3. Precursors(w) = {}
      BY <3>2, RootEnabled, EnteredInside, Graph
    <3> QED BY <3>2, <3>3 DEF GateReady
  <2>2. ASSUME NEW x \in Invalid, StartSchemaThrows(x) PROVE GateReady(gate', m)
    <3>1. PICK P \in VisitedBefore(Entered[Root], x) :
            state' = [Updated(state, P) EXCEPT ![x] = "INTERNALERR"]
      BY <2>2 DEF StartSchemaThrows
    <3>2. P \in SUBSET Nodes /\ P \subseteq Entered[Root]
      BY EnteredNodes, Graph DEF VisitedBefore
    <3>3. Updated(state, P) \in [Nodes -> State]
      BY <3>2, UpdatedType DEF IInv, TypeOK
    <3>4. Updated(state, P)[m] = "TOLOAD"
      BY <1>1, <1>5, <3>1, <3>3
    <3>5. PICK w \in P \cap Elem : Precursors(m) = Precursors(w)
      BY <1>5, <3>2, <3>4, LoadedTwins DEF IInv, TypeOK
    <3>6. Precursors(w) = {}
      BY <3>2, <3>5, RootEnabled, EnteredInside, Graph
    <3> QED BY <3>5, <3>6 DEF GateReady
  <2>3. CASE OnFinished
    <3>1. event.from \in Children /\ \A l \in gate : l[1] # event.from
      BY <2>3, EventFather, KindIsAnEvent DEF OnFinished, IInv, EventTrue, TypeOK
    <3>2. Reached(event.from) \in SUBSET Nodes
      BY <3>1, ReachedNodes
    <3>3. PICK w \in Reached(event.from) \cap Elem : Precursors(m) = Precursors(w)
      BY <1>5, <2>3, <3>2, LoadedTwins DEF OnFinished, IInv, TypeOK
    <3>4. \A p \in Precursors(w) : <<p, w>> \in gate'
      BY <2>3, <3>1, <3>3, ReachedOpen DEF OnFinished, IInv
    <3>5. state[m] = "READY"
      BY <1>1, <1>5, <2>3, <3>2, UpdatedNode DEF OnFinished, IInv, TypeOK
    <3>6. ASSUME NEW p \in Precursors(m) PROVE <<p, m>> \in gate'
      <4>1. CASE p = event.from
        BY <2>3, <3>1, <3>6, <4>1, <1>1 DEF OnFinished, Precursors, Successors
      <4>2. CASE p # event.from
        <5>1. <<p, w>> \in gate
          BY <2>3, <3>3, <3>4, <3>6, <4>2 DEF OnFinished
        <5>2. p \in Children /\ w \in Successors(p) /\ m \in Successors(p)
          BY <1>1, <3>3, <3>6, Graph DEF Precursors, Successors
        <5> QED BY <1>2, <3>5, <5>1, <5>2 DEF LinksOpen
      <4> QED BY <4>1, <4>2
    <3> QED BY <3>6 DEF GateReady
  <2>4. ASSUME NEW x \in Invalid, OnFinishedThrows(x) PROVE GateReady(gate', m)
    <3> DEFINE n == event.from
    <3>1. n \in Children /\ \A l \in gate : l[1] # n
      BY <2>4, EventFather, KindIsAnEvent DEF OnFinishedThrows, IInv, EventTrue, TypeOK
    <3>2. /\ m \notin Downstream[n] /\ m # x /\ m # Father[n]
          /\ x \notin Downstream[n] => state'[x] = "INTERNALERR"
      BY <1>1, <1>5, <2>4, ThrowsStates
    <3>3. PICK P \in SUBSET Reached(n) : state'[m] = Updated(state, P)[m]
      BY <1>1, <2>4, <3>2, ThrowsStates
    <3>4. P \in SUBSET Nodes
      BY <3>1, <3>3, ReachedNodes
    <3>5. PICK w \in P \cap Elem : Precursors(m) = Precursors(w)
      BY <1>5, <3>3, <3>4, LoadedTwins DEF IInv, TypeOK
    <3>6. w \notin Successors(n)
      BY <1>1, <3>1, <3>2, <3>5, SuccessorsDownstream, Graph DEF Precursors, Successors
    <3>7. Precursors(w) = {}
      BY <3>1, <3>5, <3>6, ReachedOpen DEF IInv
    <3> QED BY <3>5, <3>7 DEF GateReady
  <2>5. CASE \/ OnStartEvent \/ OnLastFinished \/ OnFailed \/ UNCHANGED vars
             \/ \E S \in SUBSET Elem : GetNextTasks(S) \/ DropTasks(S)
    <3>1. state'[m] = state[m] \/ state'[m] = "FAILED"
      BY <1>1, <2>5, KindIsAnEvent DEF OnStartEvent, OnLastFinished, OnFailed, Finish, FailedAfter,
         GetNextTasks, DropTasks, vars, IInv, TypeOK
    <3> QED BY <1>5, <3>1
  <2>6. ASSUME NEW n \in Elem, TaskCall(n) PROVE GateReady(gate', m)
    <3>1. state'[m] = state[m] \/ state'[m] \in {"ERROR", "LOADED", "TOACTIVATE", "ACTIVATED", "DONE"}
      BY <1>1, <2>6 DEF TaskCall, TaskStarted, TaskNotLoaded, Connected, ConnectedState,
         CoupledAborted, Begin, Finished, Aborted, Notify, IInv, TypeOK
    <3> QED BY <1>5, <3>1
  <2> QED BY <2>1, <2>2, <2>3, <2>4, <2>5, <2>6 DEF Next, UpdateStateFrom
<1> QED BY <1>3, <1>4, <1>5

\* The states after an ABORT event.
LEMMA OnFailedStates ==
  ASSUME IInv, OnFailed
  PROVE  /\ event.from \in Children /\ Father[event.from] \in Blocs
         /\ \A m \in Downstream[event.from] : state'[m] = "FAILED"
         /\ \A m \in Nodes \ ({Father[event.from]} \cup Downstream[event.from]) :
              state'[m] = state[m]
         /\ \/ state'[Father[event.from]] = state[Father[event.from]]
            \/ /\ state'[Father[event.from]] = "FAILED"
               /\ event' = ToFather(Father[event.from], "ABORT")
<1> DEFINE n == event.from
<1> DEFINE b == Father[n]
<1> DEFINE st == FailedAfter(state, n)
<1>1. /\ n \in Children /\ n \in Nodes /\ b \in Blocs /\ b \in Nodes
      /\ state[n] \in {"ERROR", "FAILED"}
  BY KindIsAnEvent, Graph DEF OnFailed, IInv, TypeOK, EventTrue
<1>2. \A m \in Nodes : st[m] = IF m \in Downstream[n] THEN "FAILED" ELSE state[m]
  BY DEF FailedAfter
<1>3. st \in [Nodes -> State]
  BY <1>1, FailedType DEF IInv, TypeOK
<1>4. b \notin Downstream[n]
  BY <1>1, DownstreamSiblings, NotOwnFather DEF ChildrenOf
<1>5. ~ AllDone(st, b)
  BY <1>1, <1>2, AcyclicAssumption DEF AllDone, ChildrenOf
<1>6. \A m \in Downstream[n] : m \in Nodes
  BY <1>1, DownstreamTransitive, Graph
<1>7. Finish(st, b) \/ state' = st
  BY DEF OnFailed
<1>8. CASE Finish(st, b)
  <2>1. state' = [st EXCEPT ![b] = "FAILED"] /\ event' = ToFather(b, "ABORT")
    BY <1>5, <1>8 DEF Finish
  <2> HIDE DEF st
  <2> QED BY <1>1, <1>2, <1>3, <1>4, <1>6, <2>1
<1>9. CASE state' = st
  <2> HIDE DEF st
  <2> QED BY <1>1, <1>2, <1>3, <1>4, <1>6, <1>9
<1> QED BY <1>7, <1>8, <1>9

\* A node in error whose gate is closed stays in error: only an event from
\* inside, an open gate or its own task changes its state.
LEMMA BadStays ==
  ASSUME IInv, LoadOpen, [Next]_vars,
         NEW m \in Children, state[m] \in Bad, ~ GateReady(gate', m)
  PROVE  state'[m] \in Bad
<1>1. m \in Nodes /\ ~ GateReady(gate, m) /\ Precursors(m) # {}
  BY Graph, NextKeeps DEF Sound, vars, GateReady
<1>2. m \notin Entered[Root]
  BY <1>1, RootEnabled, EnteredInside, Graph DEF Children
<1>3. ASSUME event.kind # "NOEVENT" PROVE m # Father[event.from]
  <2>1. event.from \in Children /\ Inside(event.from)
    BY <1>3, KindIsAnEvent DEF IInv, TypeOK, EventTrue
  <2> QED BY <1>1, <2>1, EnclosingStep DEF Inside
<1>4. CASE StartSchema
  <2>1. Entered[Root] \in SUBSET Nodes
    BY EnteredNodes, Graph
  <2> QED BY <1>1, <1>2, <1>4, <2>1, UpdatedNode DEF StartSchema, IInv, TypeOK, Bad
<1>5. ASSUME NEW x \in Invalid, StartSchemaThrows(x) PROVE state'[m] \in Bad
  <2>1. PICK P \in VisitedBefore(Entered[Root], x) :
          state' = [Updated(state, P) EXCEPT ![x] = "INTERNALERR"]
    BY <1>5 DEF StartSchemaThrows
  <2>2. P \in SUBSET Nodes /\ P \subseteq Entered[Root] /\ m # x
    BY <1>2, <1>5, EnteredNodes, Graph DEF VisitedBefore, StartSchemaThrows
  <2>3. Updated(state, P) \in [Nodes -> State]
    BY <2>2, UpdatedType DEF IInv, TypeOK
  <2>4. state'[m] = Updated(state, P)[m]
    BY <1>1, <2>1, <2>2, <2>3
  <2> QED BY <1>1, <1>2, <2>2, <2>4, UpdatedNode DEF IInv, TypeOK, Bad
<1>6. CASE OnStartEvent
  BY <1>1, <1>3, <1>6 DEF OnStartEvent, IInv, TypeOK
<1>7. CASE OnLastFinished
  BY <1>1, <1>3, <1>7 DEF OnLastFinished, Finish, IInv, TypeOK
<1>8. ASSUME event.kind = "FINISH",
             \/ gate' = gate \cup ({event.from} \X Successors(event.from))
             \/ m \notin Successors(event.from)
      PROVE  m \notin Reached(event.from)
  <2>1. event.from \in Children /\ \A l \in gate : l[1] # event.from
    BY <1>8, KindIsAnEvent DEF IInv, TypeOK, EventTrue
  <2> QED BY <1>1, <1>8, <2>1, ReachedOpen DEF IInv, GateReady
<1>9. CASE OnFinished
  <2>1. Reached(event.from) \in SUBSET Nodes
    BY <1>9, KindIsAnEvent, ReachedNodes DEF OnFinished, IInv, TypeOK
  <2> QED BY <1>1, <1>8, <1>9, <2>1, UpdatedNode DEF OnFinished, IInv, TypeOK, Bad
<1>10. ASSUME NEW x \in Invalid, OnFinishedThrows(x) PROVE state'[m] \in Bad
  <2> DEFINE n == event.from
  <2>1. n \in Children
    BY <1>10, KindIsAnEvent DEF OnFinishedThrows, IInv, TypeOK
  <2>2. CASE m \in Downstream[n]
    BY <1>10, <2>2, ThrowsStates DEF Bad
  <2>3. CASE m \notin Downstream[n]
    <3>1. m \notin Reached(n) /\ m # Father[n]
      BY <1>3, <1>8, <1>10, <2>1, <2>3, SuccessorsDownstream DEF OnFinishedThrows
    <3>2. x \in Reached(n) /\ m # x
      BY <1>10, <3>1, ThrowsStates
    <3>3. PICK P \in SUBSET Reached(n) : state'[m] = Updated(state, P)[m]
      BY <1>1, <1>10, <2>3, <3>1, <3>2, ThrowsStates
    <3>4. P \in SUBSET Nodes
      BY <2>1, <3>3, ReachedNodes
    <3> QED BY <1>1, <3>1, <3>3, <3>4, UpdatedNode DEF IInv, TypeOK, Bad
  <2> QED BY <2>2, <2>3
<1>11. CASE OnFailed
  BY <1>1, <1>3, <1>11, OnFailedStates DEF OnFailed, Bad
<1>12. CASE UNCHANGED vars \/ \E S \in SUBSET Elem : GetNextTasks(S) \/ DropTasks(S)
  BY <1>12 DEF vars, GetNextTasks, DropTasks
<1>13. ASSUME NEW n \in Elem, TaskCall(n) PROVE state'[m] \in Bad
  <2>1. m \notin tasks
    BY <1>1, GraphAssumption DEF LoadOpen, IInv, TypeOK
  <2> QED BY <1>1, <1>13, <2>1 DEF TaskCall, TaskStarted, TaskNotLoaded, Connected, Seen,
        CoupledAborted, Begin, Finished, Aborted, Notify, IInv, TypeOK, Bad
<1> QED BY <1>4, <1>5, <1>6, <1>7, <1>9, <1>10, <1>11, <1>12, <1>13 DEF Next, UpdateStateFrom

\* A node that has just failed has its event on the way, or what follows it
\* has failed with it.
LEMMA NewBad ==
  ASSUME IInv, [Next]_vars,
         NEW k \in Children, state[k] \notin Bad, state'[k] \in Bad
  PROVE  Pending(k)' \/ \A m \in Downstream[k] : state'[m] \in Bad
<1>1. k \in Nodes /\ k # Root
  BY Graph DEF Children
<1>2. \A b \in Blocs : k = b /\ event' = ToFather(b, "ABORT") => Pending(k)'
  BY <1>1 DEF ToFather, Pending
<1>3. ASSUME NEW W \in SUBSET Nodes PROVE Updated(state, W)[k] \notin Bad
  BY <1>1, UpdatedNode DEF IInv, TypeOK, Bad
<1>4. ~ StartSchema
  <2>1. Entered[Root] \in SUBSET Nodes
    BY EnteredNodes, Graph
  <2> QED BY <1>3, <2>1 DEF StartSchema
<1>5. ASSUME NEW x \in Invalid PROVE ~ StartSchemaThrows(x)
  <2> SUFFICES ASSUME StartSchemaThrows(x) PROVE FALSE
    OBVIOUS
  <2>1. PICK P \in VisitedBefore(Entered[Root], x) :
          state' = [Updated(state, P) EXCEPT ![x] = "INTERNALERR"]
    BY DEF StartSchemaThrows
  <2>2. P \in SUBSET Nodes
    BY EnteredNodes, Graph DEF VisitedBefore
  <2>3. Updated(state, P) \in [Nodes -> State]
    BY <2>2, UpdatedType DEF IInv, TypeOK
  <2> QED BY <1>1, <1>3, <2>1, <2>2, <2>3 DEF Bad
<1>6. ~ OnStartEvent
  BY <1>1 DEF OnStartEvent, IInv, TypeOK, Bad
<1>7. CASE OnLastFinished
  <2>1. event.kind = "FINISH" /\ Father[event.from] \in Blocs /\ Finish(state, Father[event.from])
    BY <1>7, KindIsAnEvent DEF OnLastFinished, IInv, TypeOK
  <2>2. k = Father[event.from] /\ event' = ToFather(k, "ABORT")
    BY <1>1, <2>1 DEF Finish, IInv, TypeOK, Bad
  <2> QED BY <1>2, <2>1, <2>2
<1>8. ~ OnFinished
  <2> SUFFICES ASSUME OnFinished PROVE FALSE
    OBVIOUS
  <2>1. Reached(event.from) \in SUBSET Nodes
    BY KindIsAnEvent, ReachedNodes DEF OnFinished, IInv, TypeOK
  <2> QED BY <1>3, <2>1 DEF OnFinished
<1>9. ASSUME NEW n \in Children, k \in Downstream[n],
             \A m \in Downstream[n] : state'[m] = "FAILED"
      PROVE  \A m \in Downstream[k] : state'[m] \in Bad
  BY <1>9, DownstreamTransitive DEF Bad
<1>10. ASSUME NEW x \in Invalid, OnFinishedThrows(x)
       PROVE  Pending(k)' \/ \A m \in Downstream[k] : state'[m] \in Bad
  <2> DEFINE n == event.from
  <2>1. n \in Children /\ Father[n] \in Blocs /\ Reached(n) \in SUBSET Nodes
    BY <1>10, ThrowsStates, ReachedNodes
  <2>2. CASE k = Father[n]
    BY <1>2, <1>10, <2>1, <2>2, ThrowsStates
  <2>3. CASE k \in Downstream[n]
    BY <1>9, <1>10, <2>1, <2>3, ThrowsStates
  <2>4. CASE k # Father[n] /\ k \notin Downstream[n]
    <3>1. k # x
      BY <1>10, <2>4, ThrowsStates DEF Bad
    <3>2. PICK P \in SUBSET Reached(n) : state'[k] = Updated(state, P)[k]
      BY <1>1, <1>10, <2>4, <3>1, ThrowsStates
    <3> QED BY <1>3, <2>1, <3>2
  <2> QED BY <2>2, <2>3, <2>4
<1>11. ASSUME OnFailed
       PROVE  Pending(k)' \/ \A m \in Downstream[k] : state'[m] \in Bad
  <2> DEFINE n == event.from
  <2>1. n \in Children /\ Father[n] \in Blocs
    BY <1>11, OnFailedStates
  <2>2. CASE k = Father[n]
    BY <1>2, <1>11, <2>1, <2>2, OnFailedStates
  <2>3. CASE k \in Downstream[n]
    BY <1>9, <1>11, <2>1, <2>3, OnFailedStates
  <2>4. CASE k # Father[n] /\ k \notin Downstream[n]
    BY <1>1, <1>11, <2>4, OnFailedStates
  <2> QED BY <2>2, <2>3, <2>4
<1>12. ~ (UNCHANGED vars \/ \E S \in SUBSET Elem : GetNextTasks(S) \/ DropTasks(S))
  BY DEF vars, GetNextTasks, DropTasks
<1>13. ASSUME NEW n \in Elem, TaskCall(n)
       PROVE  Pending(k)'
  <2>1. k = n /\ event' = [from |-> n, kind |-> "ABORT"]
    BY <1>1, <1>13 DEF TaskCall, TaskStarted, TaskNotLoaded, Connected, ConnectedState,
       CoupledAborted, Begin, Finished, Aborted, Notify, IInv, TypeOK, Bad
  <2> QED BY <2>1 DEF Pending
<1> QED BY <1>4, <1>5, <1>6, <1>7, <1>8, <1>10, <1>11, <1>12, <1>13 DEF Next, UpdateStateFrom

\* What follows a node that is not done is behind a closed gate.
BadClosed == \A n \in Children : state[n] # "DONE" =>
               \A m \in Downstream[n] : m \in Children /\ ~ GateReady(gate, m)

LEMMA InvClosed == IInv => BadClosed
BY DownstreamClosed DEF IInv, BadClosed

LEMMA FailedKept ==
  ASSUME IInv, LoadOpen, FailedInv, [Next]_vars, BadClosed'
  PROVE  FailedInv'
<1> SUFFICES ASSUME NEW k \in Children, state'[k] \in Bad, ~ Pending(k)', NEW m \in Downstream[k]
             PROVE  state'[m] \in Bad
  BY DEF FailedInv
<1>1. CASE state[k] \notin Bad
  BY <1>1, NewBad
<1>2. CASE state[k] \in Bad /\ ~ Pending(k)
  <2>1. state[m] \in Bad
    BY <1>2 DEF FailedInv
  <2>2. m \in Children /\ ~ GateReady(gate', m)
    BY DEF BadClosed, GateReady, Bad
  <2> QED BY <2>1, <2>2, BadStays
<1>3. CASE Pending(k)
  <2>1. event' # event
    BY <1>3 DEF Pending
  <2>2. OnFailed
    BY <1>3, <2>1 DEF Pending, NoEvent, Next, vars, StartSchema, StartSchemaThrows, UpdateStateFrom,
       OnStartEvent, OnLastFinished, OnFinished, OnFinishedThrows, GetNextTasks, DropTasks, TaskCall,
       TaskStarted, TaskNotLoaded, Connected, CoupledAborted, Begin, Finished, Aborted
  <2> QED BY <1>3, <2>2, OnFailedStates DEF Pending, Bad
<1> QED BY <1>1, <1>2, <1>3

LEMMA FailuresHandled ==
  ASSUME CoupledTogether
  PROVE  Spec => [](LinksOpen /\ LoadOpen /\ FailedInv)
<1> DEFINE FInv == LinksOpen /\ LoadOpen /\ FailedInv
<1>1. Spec => []IInv
  BY InitInv, StepInv, PTL DEF Spec
<1>2. Init => FInv
  BY DEF Init, LinksOpen, LoadOpen, FailedInv, Bad, Nodes, Children
<1>3. IInv => BadClosed
  BY InvClosed
<1>4. IInv /\ FInv /\ [Next]_vars /\ BadClosed' => FInv'
  BY LinksKept, LoadOpenKept, FailedKept
<1> HIDE DEF FInv
<1>5. Spec => []FInv
  BY <1>1, <1>2, <1>3, <1>4, PTL DEF Spec
<1> QED BY <1>5 DEF FInv

\* Once the events of a failure are handled, whatever follows the failed node,
\* or follows a Bloc that its failure failed, is in error too; in schemas the
\* streams of which join nodes that wait for the same ones.
THEOREM FailuresReachAll ==
  ASSUME CoupledTogether
  PROVE  Spec => []FailureReachesAll
<1>1. Spec => [](LinksOpen /\ LoadOpen /\ FailedInv)
  BY FailuresHandled
<1>2. LinksOpen /\ LoadOpen /\ FailedInv => FailureReachesAll
  BY DEF FailedInv, Pending, NoEvent, Bad, FailureReachesAll
<1> QED BY <1>1, <1>2, PTL

-----------------------------------------------------------------------------
(* No dead end                                                             *)

Over == {"DONE", "FAILED", "DISABLED", "ERROR", "INTERNALERR"}

\* Nothing runs in b, nor sends an event from it.
NoLife(b) ==
  /\ \A n \in Elem : n \in tasks \/ state[n] = "ACTIVATED" => b \notin Enclosing[n]
  /\ event # NoEvent => b \notin Enclosing[event.from]

\* A Bloc in which exUpdateState has thrown: it stays failed.
Lost(e) == /\ e \in Blocs /\ e \in Children /\ Precursors(e) # {} /\ GateReady(gate, e)
           /\ state[e] = "FAILED" /\ NoLife(e)

InLost(n) == \E e \in Enclosing[n] : Lost(e)

Cold(b) == NoLife(b) /\ (state[b] # "ACTIVATED" \/ InLost(b))

\* A node the gate of which is open has been entered if its Bloc has.
EntryInv == \A n \in Children \ InitiallyDisabled :
              state[n] = "READY" /\ GateReady(gate, n) => Cold(Father[n])

\* A Bloc the children of which are over is about to hear from the last one.
EndInv == \A b \in Blocs :
            state[b] = "ACTIVATED" /\ AllFinished(state, b) /\ ~ InLost(b) =>
              event # NoEvent /\ event.kind \in {"FINISH", "ABORT"} /\ Father[event.from] = b

\* A node that is done opens the gates that follow it, or they are over.
DoneInv == \A p \in Children : state[p] = "DONE" =>
             \/ event.kind = "FINISH" /\ event.from = p
             \/ \A m \in Successors(p) : <<p, m>> \in gate \/ state[m] \in Over

\* The executor is given no node an input of which is missing.
TaskInv  == \A n \in tasks : /\ n \notin unset
                             /\ state[n] \in {"TOLOAD", "TOACTIVATE", "ACTIVATED", "DONE", "ERROR"}
UnsetInv == \A n \in Elem \cap unset : state[n] \in {"TOLOAD", "TOACTIVATE"} => InLost(n)

InternalInv == \A n \in Elem : state[n] = "INTERNALERR" => InLost(n)
StartInv    == event.kind = "START" => state[event.from] \notin Over
KindInv     == /\ \A n \in Elem : state[n] # "LOADED"
               /\ \A b \in Blocs : state[b] \in {"READY", "ACTIVATED", "DONE", "FAILED", "DISABLED"}

\* Nothing runs in a disabled Bloc.
ClearInv    == /\ \A n \in Elem : n \in tasks \/ state[n] = "ACTIVATED" =>
                     Enclosing[n] \cap InitiallyDisabled = {}
               /\ event # NoEvent => Enclosing[event.from] \cap InitiallyDisabled = {}
DisabledInv == \A n \in InitiallyDisabled : state[n] \in {"DISABLED", "FAILED", "ERROR"}

\* Nodes that are over, and how they came to it.
DoneInside == \A b \in Blocs : state[b] = "DONE" => Inside(b)
ErrInside  == \A n \in Elem : state[n] \in {"ERROR", "INTERNALERR"} =>
                \A e \in Enclosing[n] : GateReady(gate, e)
FailBehind == \A n \in Elem : state[n] = "FAILED" => Precursors(n) # {}

FreshInv   == state[Root] = "READY" =>
                \A n \in Elem : state[n] \notin {"DONE", "FAILED", "ERROR", "INTERNALERR"}

EnclosedInv == ClearInv /\ DisabledInv /\ DoneInside /\ ErrInside /\ FailBehind /\ FreshInv
TaskParts   == TaskInv /\ UnsetInv /\ InternalInv /\ StartInv /\ KindInv
LiveInv     == EnclosedInv /\ TaskParts /\ EntryInv /\ EndInv /\ DoneInv

LEMMA EnclosingTransitive ==
  ASSUME NEW n \in Nodes, NEW b \in Enclosing[n]
  PROVE  b \in Blocs /\ b \in Nodes /\ Enclosing[b] \subseteq Enclosing[n]
<1>1. b \in Blocs /\ b \in Nodes
  BY Graph DEF Enclosing
<1>2. ASSUME NEW e \in Enclosing[b], NEW S \in SUBSET Blocs,
             n \in Children => Father[n] \in S, \A x \in S \ {Root} : Father[x] \in S
      PROVE  e \in S
  <2>1. b \in S
    BY <1>2 DEF Enclosing
  <2>2. b \in Children => Father[b] \in S
    BY <1>2, <2>1 DEF Children
  <2> QED BY <1>1, <1>2, <2>2 DEF Enclosing
<1>3. \A e \in Enclosing[b] : e \in Blocs
  BY <1>1 DEF Enclosing
<1> QED BY <1>1, <1>2, <1>3 DEF Enclosing

LEMMA EnclosingRoot == Enclosing[Root] = {}
BY Graph DEF Enclosing, Children

LEMMA EnclosingFather ==
  ASSUME NEW n \in Children
  PROVE  /\ Enclosing[Father[n]] \subseteq Enclosing[n]
         /\ Father[n] \in Enclosing[n]
         /\ \A m \in Children : Father[m] = Father[n] => Enclosing[m] = Enclosing[n]
BY EnclosingStep

LEMMA EnteredEntry ==
  ASSUME NEW m \in Nodes, NEW b \in Entered[m] \cap Blocs
  PROVE  Entry(b) \ InitiallyDisabled \subseteq Entered[m]
<1>1. Entry(b) \subseteq Nodes
  BY Graph DEF Entry, ChildrenOf
<1> QED BY <1>1 DEF Entered

\* The Blocs between a node and what is entered from it are entered too.
LEMMA EnteredChain ==
  ASSUME NEW m \in Nodes \ InitiallyDisabled, NEW x \in Entered[m]
  PROVE  /\ m \in Entered[m]
         /\ x = m \/ (x \in Children /\ Father[x] \in Entered[m])
         /\ \A e \in Enclosing[x] : e \in Entered[m] \/ e \in Enclosing[m]
<1> DEFINE S == {y \in Entered[m] :
                   /\ y = m \/ (y \in Children /\ Father[y] \in Entered[m])
                   /\ \A e \in Enclosing[y] : e \in Entered[m] \/ e \in Enclosing[m]}
<1>1. m \in Entered[m] /\ S \in SUBSET (Nodes \ InitiallyDisabled)
  BY DEF Entered
<1>2. ASSUME NEW b \in S \cap Blocs, NEW y \in Entry(b) \ InitiallyDisabled PROVE y \in S
  <2>1. y \in Entered[m] /\ y \in Children /\ Father[y] = b
    BY EnteredEntry DEF Entry, ChildrenOf
  <2> QED BY <2>1, EnclosingStep
<1>3. x \in S
  BY <1>1, <1>2 DEF Entered
<1> QED BY <1>1, <1>3

\* Nodes of one Bloc that wait for nothing are entered together.
LEMMA EnteredTwin ==
  ASSUME NEW m \in Nodes \ InitiallyDisabled, NEW x \in Entered[m], x # m,
         NEW y \in Children \ InitiallyDisabled,
         Father[y] = Father[x], Precursors(y) = Precursors(x)
  PROVE  y \in Entered[m]
<1>1. Father[x] \in Entered[m] /\ x \in Children /\ Precursors(x) = {}
  BY EnteredChain, EnteredInside
<1>2. Father[x] \in Blocs /\ y \in Entry(Father[x])
  BY <1>1, Graph DEF Entry, ChildrenOf
<1> QED BY <1>1, <1>2, EnteredEntry

\* Among finitely many sets one is in no other.
LEMMA MaximalSet ==
  ASSUME NEW S, IsFiniteSet(S), NEW F \in SUBSET SUBSET S, F # {}
  PROVE  \E X \in F : \A Y \in F : X \subseteq Y => X = Y
<1> DEFINE T == {S \ X : X \in F}
<1>1. IsWellFoundedOn(StrictSubsetOrdering(S), SUBSET S)
  BY FS_StrictSubsetOrderingWellFounded, FS_FiniteSubsetsOfFinite
<1>2. T \subseteq SUBSET S /\ T # {}
  <2>1. PICK X \in F : TRUE
    OBVIOUS
  <2>2. S \ X \in T
    BY <2>1
  <2>3. T \subseteq SUBSET S
    OBVIOUS
  <2> QED BY ONLY <2>2, <2>3
<1>3. PICK Z \in T : \A Y \in T : <<Y, Z>> \notin StrictSubsetOrdering(S)
  <2> HIDE DEF T
  <2> QED BY <1>1, <1>2, WFMin
<1>4. PICK X \in F : Z = S \ X
  BY <1>3
<1>5. ASSUME NEW Y \in F, X \subseteq Y PROVE X = Y
  <2>1. S \ Y \in T /\ S \ Y \in SUBSET S /\ Z \in SUBSET S /\ S \ Y \subseteq Z
    BY <1>4, <1>5
  <2>2. S \ Y = Z
    <3> HIDE DEF T
    <3> QED BY <1>3, <2>1 DEF StrictSubsetOrdering
  <2> QED BY <1>4, <1>5, <2>2
<1> QED BY <1>5

\* What the success of n enters lies in a successor of n that was closed, and
\* opens with it.
LEMMA ReachedChain ==
  ASSUME NEW n \in Children, \A l \in gate : l[1] # n, NEW x \in Reached(n)
  PROVE  \E m \in Successors(n) \ InitiallyDisabled :
           /\ m \in Children /\ Father[m] = Father[n] /\ ~ GateReady(gate, m)
           /\ GateReady(gate \cup ({n} \X Successors(n)), m)
           /\ x \in Entered[m] /\ Entered[m] \subseteq Reached(n)
           /\ x = m \/ (m \in Enclosing[x] /\ Precursors(x) = {} /\ Father[x] \in Entered[m])
           /\ \A e \in Enclosing[x] : \/ e \in Enclosing[n]
                                      \/ e = m
                                      \/ e \in Entered[m] /\ Precursors(e) = {}
<1>1. PICK m \in Opened(n) : x \in Entered[m]
  BY DEF Reached
<1>2. /\ m \in Children \ InitiallyDisabled /\ m \in Nodes \ InitiallyDisabled
      /\ m \in Successors(n) /\ n \in Precursors(m) /\ Father[m] = Father[n]
      /\ GateReady(gate \cup ({n} \X Successors(n)), m)
  BY GraphAssumption, Graph DEF Opened, Successors, Precursors
<1>3. ~ GateReady(gate, m)
  BY <1>2 DEF GateReady
<1>4. Entered[m] \subseteq Reached(n)
  BY <1>1 DEF Reached
<1>5. Enclosing[m] = Enclosing[n]
  BY <1>2, EnclosingFather
<1>6. x = m \/ (m \in Enclosing[x] /\ Precursors(x) = {} /\ Father[x] \in Entered[m])
  BY <1>1, <1>2, EnteredInside, EnteredChain
<1>7. ASSUME NEW e \in Enclosing[x]
      PROVE  e \in Enclosing[n] \/ e = m \/ (e \in Entered[m] /\ Precursors(e) = {})
  BY <1>1, <1>2, <1>5, EnteredInside, EnteredChain
<1> QED BY <1>1, <1>2, <1>3, <1>4, <1>6, <1>7

\* Nodes that wait for the same ones are reached together.
LEMMA ReachedTwin ==
  ASSUME NEW n \in Children, \A l \in gate : l[1] # n, NEW x \in Reached(n), x \in Children,
         LinksOpen, NEW y \in Children \ InitiallyDisabled, state[y] = "READY",
         Father[y] = Father[x], Precursors(y) = Precursors(x)
  PROVE  y \in Reached(n)
<1>1. PICK m \in Opened(n) : x \in Entered[m]
  BY DEF Reached
<1>2. m \in Nodes \ InitiallyDisabled /\ m \in Successors(n) /\ m \in Children
  BY Graph DEF Opened, Successors
<1>3. CASE x # m
  BY <1>1, <1>2, <1>3, EnteredTwin DEF Reached
<1>4. CASE x = m
  <2>1. y \in Successors(n)
    BY <1>2, <1>4 DEF Successors, Precursors
  <2>2. ASSUME NEW p \in Precursors(y), p # n PROVE <<p, y>> \in gate
    <3>1. p \in Precursors(x) /\ <<p, x>> \in gate
      BY <1>1, <1>4, <2>2 DEF Opened, GateReady
    <3>2. p \in Children /\ x \in Successors(p) /\ y \in Successors(p)
      BY <2>2, <3>1 DEF Precursors, Successors
    <3> QED BY <3>1, <3>2 DEF LinksOpen
  <2>3. y \in Opened(n)
    BY <2>1, <2>2 DEF Opened, GateReady
  <2>4. y \in Entered[y]
    BY Graph DEF Entered
  <2> QED BY <2>3, <2>4 DEF Reached
<1> QED BY <1>3, <1>4

\* What is between a node that was visited and the node that was opened was
\* visited before it.
LEMMA VisitedUp ==
  ASSUME NEW n \in Children, NEW x, NEW P \in VisitedBefore(Reached(n), x),
         NEW m \in Opened(n), NEW y \in Entered[m], y \in P
  PROVE  m \in P
<1> DEFINE S == {z \in Entered[m] : z \in P => m \in P}
<1>1. m \in Nodes \ InitiallyDisabled /\ Entered[m] \subseteq Reached(n)
  BY Graph DEF Opened, Successors, Reached
<1>2. m \in S /\ S \in SUBSET (Nodes \ InitiallyDisabled)
  BY <1>1, EnteredChain DEF Entered
<1>3. ASSUME NEW b \in S \cap Blocs, NEW z \in Entry(b) \ InitiallyDisabled PROVE z \in S
  <2>1. z \in Entered[m] /\ z \in Children /\ Father[z] = b /\ b \in Reached(n)
    BY <1>1, EnteredEntry DEF Entry, ChildrenOf
  <2>2. z \in P => b \in P
    BY <2>1 DEF VisitedBefore
  <2> QED BY <2>1, <2>2
<1>4. y \in S
  BY <1>1, <1>2, <1>3 DEF Entered
<1> QED BY <1>4

\* Where an event comes from: the one before it, or a node that ran.
LEMMA EventSource ==
  ASSUME IInv, [Next]_vars
  PROVE  \/ event' = NoEvent \/ event' = event
         \/ /\ event # NoEvent /\ event.from \in Children
            /\ event'.from = Father[event.from] /\ event'.from \in Children
         \/ \E n, m \in Elem : /\ event = NoEvent /\ event'.from = n /\ Father[m] = Father[n]
                               /\ m \in tasks \/ state[m] = "ACTIVATED"
<1>1. ASSUME event.kind # "NOEVENT", NEW kind \in {"START", "FINISH", "ABORT"},
             event' = ToFather(Father[event.from], kind)
      PROVE  \/ event' = NoEvent
             \/ /\ event # NoEvent /\ event.from \in Children
                /\ event'.from = Father[event.from] /\ event'.from \in Children
  BY <1>1, KindIsAnEvent DEF ToFather, Children, IInv, TypeOK
<1>2. CASE OnStartEvent
  BY <1>1, <1>2 DEF OnStartEvent
<1>3. ASSUME event.kind # "NOEVENT", NEW st, Finish(st, Father[event.from])
      PROVE  \E kind \in {"START", "FINISH", "ABORT"} : event' = ToFather(Father[event.from], kind)
  BY <1>3 DEF Finish
<1>4. CASE OnLastFinished \/ OnFailed
  BY <1>1, <1>3, <1>4 DEF OnLastFinished, OnFailed
<1>5. CASE \E x \in Invalid : OnFinishedThrows(x)
  BY <1>1, <1>5 DEF OnFinishedThrows
<1>6. CASE \/ StartSchema \/ OnFinished \/ UNCHANGED vars
           \/ \E x \in Invalid : StartSchemaThrows(x)
           \/ \E S \in SUBSET Elem : GetNextTasks(S) \/ DropTasks(S)
  BY <1>6 DEF StartSchema, OnFinished, vars, StartSchemaThrows, GetNextTasks, DropTasks
<1>7. ASSUME NEW n \in Elem, TaskCall(n), event' # event
      PROVE  \E m \in Elem : /\ event = NoEvent /\ event'.from = n /\ Father[m] = Father[n]
                             /\ m \in tasks \/ state[m] = "ACTIVATED"
  <2>1. event = NoEvent /\ event'.from = n
    BY <1>7 DEF TaskCall, TaskStarted, TaskNotLoaded, Connected, CoupledAborted, Begin, Finished,
       Aborted, Notify
  <2>2. CASE n \in tasks \/ state[n] = "ACTIVATED"
    BY <2>1, <2>2
  <2>3. CASE CoupledAborted(n)
    <3>1. PICK m \in tasks : n \in CoupledSet[m]
      BY <2>3 DEF CoupledAborted
    <3> QED BY <2>1, <3>1, CoupledSiblings DEF IInv, TypeOK
  <2> QED BY <1>7, <2>2, <2>3 DEF TaskCall, TaskStarted, TaskNotLoaded, Connected, Seen, Begin,
        Finished, Aborted
<1> QED BY <1>2, <1>4, <1>5, <1>6, <1>7 DEF Next, UpdateStateFrom

\* A Bloc that is not ACTIVATED, and in which nothing runs, does not come to life.
LEMMA NoLifeKept ==
  ASSUME IInv, [Next]_vars, NEW b \in Blocs, NoLife(b), state[b] # "ACTIVATED"
  PROVE  NoLife(b)'
<1>1. ASSUME NEW n \in Elem, n \in tasks' \/ state'[n] = "ACTIVATED" PROVE b \notin Enclosing[n]
  <2>1. CASE n \in tasks \/ state[n] = "ACTIVATED"
    BY <2>1 DEF NoLife
  <2>2. CASE n \in tasks' /\ n \notin tasks
    <3>1. n \in ReadyTasks
      BY <2>2 DEF Next, vars, StartSchema, StartSchemaThrows, UpdateStateFrom, OnStartEvent,
         OnLastFinished, OnFinished, OnFinishedThrows, OnFailed, GetNextTasks, DropTasks, TaskCall,
         TaskStarted, TaskNotLoaded, Connected, CoupledAborted, Begin, Finished, Aborted
    <3> QED BY <3>1 DEF ReadyTasks
  <2>3. CASE state'[n] = "ACTIVATED" /\ state[n] # "ACTIVATED"
    <3>1. n \in tasks
      BY <2>3, NextKeeps DEF Sound, vars
    <3> QED BY <3>1 DEF NoLife
  <2> QED BY <1>1, <2>1, <2>2, <2>3
<1>2. ASSUME event' # NoEvent PROVE b \notin Enclosing[event'.from]
  <2>1. CASE event' = event
    BY <1>2, <2>1 DEF NoLife
  <2>2. CASE event # NoEvent /\ event.from \in Children /\ event'.from = Father[event.from]
    BY <2>2, EnclosingFather DEF NoLife
  <2>3. ASSUME NEW n \in Elem, NEW m \in Elem, event'.from = n, Father[m] = Father[n],
               m \in tasks \/ state[m] = "ACTIVATED"
        PROVE  b \notin Enclosing[event'.from]
    BY <2>3, EnclosingFather, Graph DEF NoLife
  <2> QED BY <1>2, <2>1, <2>2, <2>3, EventSource
<1> QED BY <1>1, <1>2 DEF NoLife

\* A Bloc in which nothing runs changes only if it fails with what it follows,
\* or if it is entered.
LEMMA StillBloc ==
  ASSUME IInv, [Next]_vars, NEW b \in Blocs, NoLife(b), state'[b] # state[b]
  PROVE  \/ b \in Children /\ state'[b] = "FAILED"
         \/ /\ b \in Entered[Root] /\ state[Root] = "READY"
            /\ StartSchema \/ \E x \in Invalid : StartSchemaThrows(x)
         \/ OnFinished /\ b \in Reached(event.from)
         \/ /\ b \in Reached(event.from) /\ b \notin Downstream[event.from]
            /\ \E x \in Invalid : OnFinishedThrows(x)
<1>1. b \in Nodes /\ b \notin Elem
  BY Graph, GraphAssumption
<1>2. ASSUME event.kind # "NOEVENT" PROVE b # Father[event.from]
  BY <1>2, EventFather, KindIsAnEvent DEF NoLife, IInv, TypeOK
<1>3. CASE StartSchema
  <2>1. Entered[Root] \in SUBSET Nodes
    BY EnteredNodes, Graph
  <2> QED BY <1>1, <1>3, <2>1, UpdatedNode DEF StartSchema, IInv, TypeOK
<1>4. ASSUME NEW x \in Invalid, StartSchemaThrows(x)
      PROVE  b \in Entered[Root] /\ state[Root] = "READY"
  <2>1. PICK P \in VisitedBefore(Entered[Root], x) :
          state' = [Updated(state, P) EXCEPT ![x] = "INTERNALERR"]
    BY <1>4 DEF StartSchemaThrows
  <2>2. P \in SUBSET Nodes /\ P \subseteq Entered[Root] /\ b # x
    BY <1>1, GraphAssumption, EnteredNodes, Graph DEF VisitedBefore
  <2>3. Updated(state, P) \in [Nodes -> State]
    BY <2>2, UpdatedType DEF IInv, TypeOK
  <2>4. state'[b] = Updated(state, P)[b]
    BY <1>1, <2>1, <2>2, <2>3
  <2> QED BY <1>1, <1>4, <2>2, <2>4, UpdatedNode DEF IInv, TypeOK, StartSchemaThrows
<1>5. CASE OnStartEvent
  BY <1>1, <1>2, <1>5 DEF OnStartEvent, IInv, TypeOK
<1>6. CASE OnLastFinished
  BY <1>1, <1>2, <1>6 DEF OnLastFinished, Finish, IInv, TypeOK
<1>7. CASE OnFinished
  <2>1. Reached(event.from) \in SUBSET Nodes
    BY <1>7, KindIsAnEvent, ReachedNodes DEF OnFinished, IInv, TypeOK
  <2> QED BY <1>1, <1>7, <2>1, UpdatedNode DEF OnFinished, IInv, TypeOK
<1>8. ASSUME NEW x \in Invalid, OnFinishedThrows(x)
      PROVE  \/ b \in Children /\ state'[b] = "FAILED"
             \/ b \in Reached(event.from) /\ b \notin Downstream[event.from]
  <2> DEFINE n == event.from
  <2>1. n \in Children /\ b # x
    BY <1>1, <1>8, ThrowsStates, GraphAssumption
  <2>4. b # Father[n]
    BY <1>2, <1>8 DEF OnFinishedThrows
  <2>2. CASE b \in Downstream[n]
    BY <1>8, <2>1, <2>2, ThrowsStates, DownstreamTransitive
  <2>3. CASE b \notin Downstream[n]
    <3>1. PICK P \in SUBSET Reached(n) : state'[b] = Updated(state, P)[b]
      BY <1>1, <1>8, <2>1, <2>3, <2>4, ThrowsStates
    <3>2. P \in SUBSET Nodes
      BY <2>1, <3>1, ReachedNodes
    <3> QED BY <1>1, <2>3, <3>1, <3>2, UpdatedNode DEF IInv, TypeOK
  <2> QED BY <2>2, <2>3
<1>9. CASE OnFailed
  BY <1>1, <1>2, <1>9, OnFailedStates, DownstreamTransitive DEF OnFailed
<1>10. CASE UNCHANGED vars \/ \E S \in SUBSET Elem : GetNextTasks(S) \/ DropTasks(S)
  BY <1>10 DEF vars, GetNextTasks, DropTasks
<1>11. ASSUME NEW n \in Elem PROVE ~ TaskCall(n)
  BY <1>1 DEF TaskCall, TaskStarted, TaskNotLoaded, Connected,
     CoupledAborted, Begin, Finished, Aborted, Notify, IInv, TypeOK
<1> QED BY <1>3, <1>4, <1>5, <1>6, <1>7, <1>8, <1>9, <1>10, <1>11 DEF Next, UpdateStateFrom

\* An open gate is not opened again: it waits for no node that has yet to end.
LEMMA OpenNotReached ==
  ASSUME NEW n \in Children, \A l \in gate : l[1] # n,
         NEW b \in Children, Precursors(b) # {}, GateReady(gate, b)
  PROVE  b \notin Reached(n)
<1> SUFFICES ASSUME b \in Reached(n) PROVE FALSE
  OBVIOUS
<1>1. PICK m \in Opened(n) : b \in Entered[m]
  BY DEF Reached
<1>2. m \in Nodes \ InitiallyDisabled /\ m \in Successors(n) /\ n \in Precursors(m)
  BY <1>1, Graph DEF Opened, Successors, Precursors
<1>3. b = m
  BY <1>1, <1>2, EnteredInside
<1> QED BY <1>2, <1>3 DEF GateReady

LEMMA LostKept ==
  ASSUME IInv, [Next]_vars, NEW e, Lost(e)
  PROVE  Lost(e)'
<1>1. /\ e \in Blocs /\ e \in Children /\ Precursors(e) # {} /\ GateReady(gate, e)
      /\ state[e] = "FAILED" /\ NoLife(e)
  BY DEF Lost
<1>2. GateReady(gate', e)
  BY <1>1, NextKeeps DEF Sound, vars, GateReady
<1>3. NoLife(e)'
  BY <1>1, NoLifeKept
<1>4. e \notin Entered[Root]
  BY <1>1, RootEnabled, EnteredInside DEF Children
<1>5. ASSUME OnFinished \/ \E x \in Invalid : OnFinishedThrows(x)
      PROVE  e \notin Reached(event.from)
  <2>1. event.from \in Children /\ \A l \in gate : l[1] # event.from
    BY <1>5, EventFather, KindIsAnEvent DEF OnFinished, OnFinishedThrows, IInv, EventTrue, TypeOK
  <2> QED BY <1>1, <2>1, OpenNotReached
<1>6. state'[e] = "FAILED"
  BY <1>1, <1>4, <1>5, StillBloc
<1> QED BY <1>1, <1>2, <1>3, <1>6 DEF Lost

LEMMA InLostKept ==
  ASSUME IInv, [Next]_vars, NEW n, InLost(n)
  PROVE  InLost(n)'
BY LostKept DEF InLost

LEMMA ColdKept ==
  ASSUME IInv, [Next]_vars, NEW b \in Blocs, Cold(b),
         state[b] # "ACTIVATED" => state'[b] # "ACTIVATED"
  PROVE  Cold(b)'
<1>1. CASE state[b] # "ACTIVATED"
  BY <1>1, NoLifeKept DEF Cold
<1>2. CASE InLost(b)
  <2>1. PICK e \in Enclosing[b] : Lost(e)'
    BY <1>2, LostKept DEF InLost
  <2>2. NoLife(e)'
    BY <2>1 DEF Lost
  <2>3. ASSUME NEW n \in Nodes, b \in Enclosing[n] PROVE e \in Enclosing[n]
    BY <2>1, <2>3, EnclosingTransitive
  <2>4. event' # NoEvent => event'.from \in Nodes
    BY StepInv, Graph DEF IInv, EventTrue
  <2>5. NoLife(b)'
    BY <2>2, <2>3, <2>4, Graph DEF NoLife
  <2> QED BY <2>1, <2>5 DEF Cold, InLost
<1> QED BY <1>1, <1>2 DEF Cold

\* What a step does to an elementary node.
LEMMA ElemStep ==
  ASSUME IInv, [Next]_vars, NEW k \in Elem, state'[k] # state[k]
  PROVE  \/ /\ state'[k] = "FAILED" /\ event.from \in Children /\ k \in Downstream[event.from]
            /\ ~ GateReady(gate, k)
         \/ state[k] = "READY" /\ state'[k] = "TOLOAD"
         \/ state[k] = "LOADED" /\ state'[k] = "TOACTIVATE"
         \/ state'[k] = "INTERNALERR" /\ StartSchemaThrows(k)
         \/ /\ state'[k] = "INTERNALERR" /\ OnFinishedThrows(k)
            /\ k \in Reached(event.from) /\ k \notin Downstream[event.from]
         \/ TaskCall(k)
<1>1. k \in Nodes /\ k \in Children /\ k \notin Blocs /\ state \in [Nodes -> State]
  BY Graph, GraphAssumption DEF IInv, TypeOK
<1>2. ASSUME NEW W \in SUBSET Nodes
      PROVE  \/ Updated(state, W)[k] = state[k]
             \/ state[k] = "READY" /\ Updated(state, W)[k] = "TOLOAD"
             \/ state[k] = "LOADED" /\ Updated(state, W)[k] = "TOACTIVATE"
  BY <1>1, UpdatedNode
<1>3. CASE StartSchema
  <2>1. Entered[Root] \in SUBSET Nodes
    BY EnteredNodes, Graph
  <2> QED BY <1>2, <1>3, <2>1 DEF StartSchema
<1>4. ASSUME NEW x \in Invalid, StartSchemaThrows(x), x # k
      PROVE  \/ state[k] = "READY" /\ state'[k] = "TOLOAD"
             \/ state[k] = "LOADED" /\ state'[k] = "TOACTIVATE"
  <2>1. PICK P \in VisitedBefore(Entered[Root], x) :
          state' = [Updated(state, P) EXCEPT ![x] = "INTERNALERR"]
    BY <1>4 DEF StartSchemaThrows
  <2>2. P \in SUBSET Nodes
    BY EnteredNodes, Graph DEF VisitedBefore
  <2>3. Updated(state, P) \in [Nodes -> State]
    BY <1>1, <2>2, UpdatedType
  <2>4. state'[k] = Updated(state, P)[k]
    BY <1>1, <1>4, <2>1, <2>2, <2>3
  <2> QED BY <1>2, <2>2, <2>4
<1>5. ASSUME k \in Invalid, StartSchemaThrows(k) PROVE state'[k] = "INTERNALERR"
  <2>1. PICK P \in VisitedBefore(Entered[Root], k) :
          state' = [Updated(state, P) EXCEPT ![k] = "INTERNALERR"]
    BY <1>5 DEF StartSchemaThrows
  <2>2. P \in SUBSET Nodes
    BY EnteredNodes, Graph DEF VisitedBefore
  <2>3. Updated(state, P) \in [Nodes -> State]
    BY <1>1, <2>2, UpdatedType
  <2> QED BY <1>1, <2>1, <2>3
<1>6. ~ OnStartEvent
  <2> SUFFICES ASSUME OnStartEvent PROVE FALSE
    OBVIOUS
  <2>1. Father[event.from] # k
    BY <1>1, EventFather DEF OnStartEvent
  <2> QED BY <1>1, <2>1 DEF OnStartEvent
<1>7. ~ OnLastFinished
  <2> SUFFICES ASSUME OnLastFinished PROVE FALSE
    OBVIOUS
  <2>1. Father[event.from] # k
    BY <1>1, EventFather DEF OnLastFinished
  <2> QED BY <1>1, <2>1 DEF OnLastFinished, Finish
<1>8. CASE OnFinished
  <2>1. Reached(event.from) \in SUBSET Nodes
    BY <1>8, KindIsAnEvent, ReachedNodes DEF OnFinished, IInv, TypeOK
  <2> QED BY <1>2, <1>8, <2>1 DEF OnFinished
<1>9. ASSUME event.kind \in {"FINISH", "ABORT"}, k \in Downstream[event.from]
      PROVE  event.from \in Children /\ ~ GateReady(gate, k)
  <2>1. event.from \in Children /\ \A l \in gate : l[1] # event.from
    BY <1>9, KindIsAnEvent, NotDoneClosed DEF IInv, EventTrue, TypeOK
  <2> QED BY <1>9, <2>1, DownstreamShut DEF IInv
<1>10. ASSUME NEW x \in Invalid, OnFinishedThrows(x)
       PROVE  \/ state'[k] = "FAILED" /\ k \in Downstream[event.from]
              \/ /\ k = x /\ state'[k] = "INTERNALERR"
                 /\ k \in Reached(event.from) /\ k \notin Downstream[event.from]
              \/ state[k] = "READY" /\ state'[k] = "TOLOAD"
              \/ state[k] = "LOADED" /\ state'[k] = "TOACTIVATE"
  <2> DEFINE n == event.from
  <2>1. /\ n \in Children /\ k # Father[n] /\ x \in Reached(n)
        /\ k \in Downstream[n] => state'[k] = "FAILED"
        /\ x \notin Downstream[n] => state'[x] = "INTERNALERR"
    BY <1>1, <1>10, ThrowsStates
  <2>2. CASE k # x /\ k \notin Downstream[n]
    <3>1. PICK P \in SUBSET Reached(n) : state'[k] = Updated(state, P)[k]
      BY <1>1, <1>10, <2>1, <2>2, ThrowsStates
    <3>2. P \in SUBSET Nodes
      BY <2>1, <3>1, ReachedNodes
    <3> QED BY <1>2, <3>1, <3>2
  <2> QED BY <2>1, <2>2
<1>11. CASE OnFailed
  <2>1. /\ Father[event.from] # k
        /\ k \in Downstream[event.from] => state'[k] = "FAILED"
        /\ k # Father[event.from] /\ k \notin Downstream[event.from] => state'[k] = state[k]
    BY <1>1, <1>11, OnFailedStates
  <2> QED BY <1>9, <1>11, <2>1 DEF OnFailed
<1>12. ~ (UNCHANGED vars \/ \E S \in SUBSET Elem : GetNextTasks(S) \/ DropTasks(S))
  BY DEF vars, GetNextTasks, DropTasks
<1>13. ASSUME NEW n \in Elem, TaskCall(n)
       PROVE  TaskCall(k)
  <2>1. k = n
    BY <1>1, <1>13 DEF TaskCall, TaskStarted, TaskNotLoaded, Connected,
       CoupledAborted, Begin, Finished, Aborted, Notify
  <2> QED BY <1>13, <2>1
<1>14. ASSUME NEW x \in Invalid, StartSchemaThrows(x) \/ OnFinishedThrows(x)
       PROVE  \/ /\ state'[k] = "FAILED" /\ event.from \in Children /\ k \in Downstream[event.from]
                 /\ ~ GateReady(gate, k)
              \/ state[k] = "READY" /\ state'[k] = "TOLOAD"
              \/ state[k] = "LOADED" /\ state'[k] = "TOACTIVATE"
              \/ state'[k] = "INTERNALERR" /\ StartSchemaThrows(k)
              \/ /\ state'[k] = "INTERNALERR" /\ OnFinishedThrows(k)
                 /\ k \in Reached(event.from) /\ k \notin Downstream[event.from]
  <2>1. CASE StartSchemaThrows(x)
    BY <1>4, <1>5, <1>14, <2>1
  <2>2. CASE OnFinishedThrows(x)
    <3>1. event.kind = "FINISH"
      BY <2>2 DEF OnFinishedThrows
    <3> QED BY <1>9, <1>10, <2>2, <3>1
  <2> QED BY <1>14, <2>1, <2>2
<1> QED BY <1>3, <1>6, <1>7, <1>8, <1>11, <1>12, <1>13, <1>14 DEF Next, UpdateStateFrom

\* What a task does to its own state.
LEMMA TaskStates ==
  ASSUME TypeOK, NEW k \in Elem, TaskCall(k)
  PROVE  \/ state' = state
         \/ /\ \E st \in State : state' = [state EXCEPT ![k] = st]
            /\ \/ state'[k] = "ERROR" /\ (k \in tasks \/ state[k] = "ACTIVATED" \/ CoupledAborted(k))
               \/ Connected(k) /\ k \in tasks /\ state'[k] = ConnectedState(k)
               \/ Begin(k) /\ k \in tasks /\ state[k] = "TOACTIVATE" /\ state'[k] = "ACTIVATED"
               \/ Finished(k) /\ state[k] = "ACTIVATED" /\ state'[k] = "DONE"
<1>1. k \in Nodes
  BY Graph
<1> QED BY <1>1 DEF TaskCall, TaskStarted, TaskNotLoaded, Connected, ConnectedState, Seen,
           CoupledAborted, Begin, Finished, Aborted, Notify, TypeOK, State

\* When exUpdateState throws on x, what it has visited is in a Bloc that is lost.
LEMMA ThrowsVisited ==
  ASSUME IInv, NEW x \in Invalid, OnFinishedThrows(x)
  PROVE  \E P \in SUBSET Reached(event.from) :
           /\ \A m \in Nodes \ ({x, Father[event.from]} \cup Downstream[event.from]) :
                state'[m] = Updated(state, P)[m]
           /\ \A y \in P \cup {x} : y \notin Downstream[event.from] =>
                InLost(y)' /\ \A e \in Enclosing[y] : GateReady(gate', e)
           /\ \A y \in P \cup {x} :
                y \in Children /\ Father[y] \in Reached(event.from) => Father[y] \in P
<1> DEFINE n == event.from
<1> DEFINE b == Father[n]
<1> DEFINE W == Reached(n)
<1>1. /\ n \in Children /\ n \in Nodes /\ Inside(n) /\ b \in Blocs /\ b \in Nodes
      /\ \A l \in gate : l[1] # n
  BY EventFather, KindIsAnEvent DEF OnFinishedThrows, IInv, EventTrue, TypeOK
<1>2. x \in W /\ x \in Elem /\ x \in Children
  BY GraphAssumption, Graph DEF OnFinishedThrows
<1>3. PICK P \in VisitedBefore(W, x), Q \in SUBSET Successors(n) :
        /\ (P \cup {x} \cup Enclosing[x]) \cap Successors(n) \subseteq Q
        /\ gate' = gate \cup ({n} \X Q)
        /\ state' = [FailedAfter([Updated(state, P) EXCEPT ![x] = "INTERNALERR"], n)
                       EXCEPT ![b] = "FAILED"]
  BY DEF OnFinishedThrows
<1>4. P \in SUBSET W /\ P \in SUBSET Nodes
  BY <1>1, <1>3, ReachedNodes DEF VisitedBefore
<1>5. \A m \in Nodes \ ({x, b} \cup Downstream[n]) : state'[m] = Updated(state, P)[m]
  <2> DEFINE st == Updated(state, P)
  <2> DEFINE st2 == [st EXCEPT ![x] = "INTERNALERR"]
  <2>1. st \in [Nodes -> State]
    BY <1>4, UpdatedType DEF IInv, TypeOK
  <2>2. FailedAfter(st2, n) = [y \in Nodes |-> IF y \in Downstream[n] THEN "FAILED" ELSE st2[y]]
    BY DEF FailedAfter
  <2>3. \A m \in Nodes \ {x} : st2[m] = st[m]
    BY <2>1
  <2> HIDE DEF st2, st
  <2>4. \A m \in Nodes \ ({x, b} \cup Downstream[n]) : state'[m] = st[m]
    BY <1>1, <1>3, <2>2, <2>3 DEF st, st2
  <2> QED BY <2>4 DEF st
<1>6. \A y \in P \cup {x} : y \in Children /\ Father[y] \in W => Father[y] \in P
  BY <1>2, <1>3, EnclosingFather DEF VisitedBefore
<1>7. ASSUME NEW y \in P \cup {x}, y \notin Downstream[n]
      PROVE  InLost(y)' /\ \A e \in Enclosing[y] : GateReady(gate', e)
  <2>1. PICK m \in Opened(n) : y \in Entered[m]
    BY <1>2, <1>4 DEF Reached
  <2>2. /\ m \in Nodes \ InitiallyDisabled /\ m \in Children /\ m \in Successors(n)
        /\ n \in Precursors(m) /\ m \in Downstream[n] /\ Enclosing[m] = Enclosing[n]
    <3>1. m \in Nodes \ InitiallyDisabled /\ m \in Children /\ m \in Successors(n)
      BY <1>1, Graph DEF Opened, Successors
    <3>2. Father[m] = Father[n] /\ n \in Precursors(m)
      BY <1>1, <3>1, GraphAssumption DEF Successors, Precursors
    <3> QED BY <1>1, <3>1, <3>2, SuccessorsDownstream, EnclosingFather
  <2>3. y # m /\ m \in Enclosing[y] /\ m \in Blocs
    <3>1. y # m
      BY <1>7, <2>2
    <3>2. y \in Children /\ m \in Enclosing[y]
      BY <2>1, <2>2, <3>1, EnteredInside
    <3> QED BY <3>1, <3>2, EnclosingTransitive, Graph
  <2>4. m \in Q
    <3>1. CASE y \in P
      BY <1>1, <1>3, <2>1, <2>2, <3>1, VisitedUp
    <3>2. CASE y = x
      BY <1>3, <2>2, <2>3, <3>2
    <3> QED BY <3>1, <3>2
  <2>5. GateReady(gate', m)
    <3>1. ASSUME NEW p \in Precursors(m) PROVE <<p, m>> \in gate'
      <4>1. CASE p = n
        BY <1>3, <2>4, <4>1
      <4>2. CASE p # n
        BY <1>3, <2>1, <4>2 DEF Opened, GateReady
      <4> QED BY <4>1, <4>2
    <3> QED BY <3>1 DEF GateReady
  <2>6. ~ GateReady(gate, m)
    BY <1>1, <2>2 DEF GateReady
  <2>7. NoLife(m) /\ state[m] # "ACTIVATED"
    <3>1. state[m] # "ACTIVATED"
      BY <2>2, <2>6 DEF IInv, Parts, GatesOpen
    <3>2. ASSUME NEW k \in Elem, k \in tasks \/ state[k] = "ACTIVATED" PROVE m \notin Enclosing[k]
      BY <2>6, <3>2 DEF IInv, Parts, RunInside, Inside
    <3>3. m \notin Enclosing[n]
      BY <1>1, <2>6 DEF Inside
    <3> QED BY <3>1, <3>2, <3>3 DEF NoLife
  <2>8. NoLife(m)'
    BY <2>3, <2>7, NoLifeKept DEF Next, UpdateStateFrom
  <2>9. state'[m] = "FAILED"
    BY <2>2, ThrowsStates
  <2>10. Lost(m)'
    BY <2>2, <2>3, <2>5, <2>8, <2>9 DEF Lost
  <2>11. gate \subseteq gate'
    BY <1>3
  <2>12. ASSUME NEW e \in Enclosing[y] PROVE GateReady(gate', e)
    <3>1. CASE e \in Enclosing[m]
      BY <1>1, <2>2, <2>11, <3>1 DEF Inside, GateReady
    <3>2. CASE e \in Entered[m] /\ e # m
      BY <2>2, <3>2, EnteredInside DEF GateReady
    <3> QED BY <2>1, <2>2, <2>5, <3>1, <3>2, EnteredChain
  <2> QED BY <2>3, <2>10, <2>12 DEF InLost
<1> QED BY <1>4, <1>5, <1>6, <1>7

\* A Bloc becomes done at an event from a child.
LEMMA NewDone ==
  ASSUME IInv, [Next]_vars, NEW b \in Blocs, state'[b] = "DONE", state[b] # "DONE"
  PROVE  /\ event.kind = "FINISH" /\ event.from \in Children /\ b = Father[event.from]
         /\ OnLastFinished
<1>1. b \in Nodes /\ b \notin Elem /\ state \in [Nodes -> State]
  BY Graph, GraphAssumption DEF IInv, TypeOK
<1>2. ASSUME NEW W \in SUBSET Nodes PROVE Updated(state, W)[b] # "DONE"
  BY <1>1, UpdatedNode
<1>3. ~ StartSchema
  <2>1. Entered[Root] \in SUBSET Nodes
    BY EnteredNodes, Graph
  <2> QED BY <1>2, <2>1 DEF StartSchema
<1>4. ASSUME NEW x \in Invalid PROVE ~ StartSchemaThrows(x)
  <2> SUFFICES ASSUME StartSchemaThrows(x) PROVE FALSE
    OBVIOUS
  <2>1. PICK P \in VisitedBefore(Entered[Root], x) :
          state' = [Updated(state, P) EXCEPT ![x] = "INTERNALERR"]
    BY DEF StartSchemaThrows
  <2>2. P \in SUBSET Nodes
    BY EnteredNodes, Graph DEF VisitedBefore
  <2>3. Updated(state, P) \in [Nodes -> State]
    BY <1>1, <2>2, UpdatedType
  <2> QED BY <1>1, <1>2, <2>1, <2>2, <2>3
<1>5. ~ OnStartEvent
  BY <1>1 DEF OnStartEvent
<1>6. CASE OnLastFinished
  <2>1. event.kind = "FINISH" /\ event.from \in Children
    BY <1>6, EventFather DEF OnLastFinished
  <2> QED BY <1>1, <1>6, <2>1 DEF OnLastFinished, Finish
<1>7. ~ OnFinished
  <2> SUFFICES ASSUME OnFinished PROVE FALSE
    OBVIOUS
  <2>1. Reached(event.from) \in SUBSET Nodes
    BY KindIsAnEvent, ReachedNodes DEF OnFinished, IInv, TypeOK
  <2> QED BY <1>2, <2>1 DEF OnFinished
<1>8. ASSUME NEW x \in Invalid PROVE ~ OnFinishedThrows(x)
  <2> SUFFICES ASSUME OnFinishedThrows(x) PROVE FALSE
    OBVIOUS
  <2> DEFINE n == event.from
  <2>1. /\ n \in Children /\ b # Father[n] /\ b # x /\ b \notin Downstream[n]
    BY <1>1, ThrowsStates, GraphAssumption
  <2>2. PICK P \in SUBSET Reached(n) : state'[b] = Updated(state, P)[b]
    BY <1>1, <2>1, ThrowsStates
  <2>3. P \in SUBSET Nodes
    BY <2>1, <2>2, ReachedNodes
  <2> QED BY <1>2, <2>2, <2>3
<1>9. ~ OnFailed
  BY <1>1, OnFailedStates
<1>10. ~ (UNCHANGED vars \/ \E S \in SUBSET Elem : GetNextTasks(S) \/ DropTasks(S))
  BY DEF vars, GetNextTasks, DropTasks
<1>11. ASSUME NEW n \in Elem PROVE ~ TaskCall(n)
  BY <1>1 DEF TaskCall, TaskStarted, TaskNotLoaded, Connected,
     CoupledAborted, Begin, Finished, Aborted, Notify
<1> QED BY <1>3, <1>4, <1>5, <1>6, <1>7, <1>8, <1>9, <1>10, <1>11 DEF Next, UpdateStateFrom

LEMMA ClearKept ==
  ASSUME IInv, [Next]_vars, ClearInv, DisabledInv
  PROVE  ClearInv'
<1>1. ASSUME NEW n \in Elem, n \in tasks' \/ state'[n] = "ACTIVATED",
             NEW b \in Enclosing[n], b \in InitiallyDisabled
      PROVE  FALSE
  <2>1. n \in Nodes /\ b \in Blocs
    BY Graph DEF Enclosing
  <2>2. NoLife(b) /\ state[b] # "ACTIVATED"
    BY <1>1, <2>1 DEF ClearInv, DisabledInv, NoLife
  <2> QED BY <1>1, <2>1, <2>2, NoLifeKept DEF NoLife
<1>2. ASSUME event' # NoEvent, NEW b \in Enclosing[event'.from], b \in InitiallyDisabled
      PROVE  FALSE
  <2>1. event'.from \in Nodes
    BY <1>2, StepInv, Graph DEF IInv, EventTrue
  <2>2. NoLife(b) /\ state[b] # "ACTIVATED" /\ b \in Blocs
    BY <1>2, <2>1 DEF ClearInv, DisabledInv, NoLife, Enclosing
  <2> QED BY <1>2, <2>2, NoLifeKept DEF NoLife
<1> QED BY <1>1, <1>2 DEF ClearInv

LEMMA DisabledKept ==
  ASSUME IInv, [Next]_vars, ~ StartThrew, ClearInv, DisabledInv, TaskInv
  PROVE  DisabledInv'
<1> SUFFICES ASSUME NEW n \in InitiallyDisabled, state'[n] # state[n]
             PROVE  state'[n] \in {"DISABLED", "FAILED", "ERROR"}
  BY DEF DisabledInv
<1>1. /\ state[n] \in {"DISABLED", "FAILED", "ERROR"} /\ n \notin Entered[Root]
      /\ n \in Children
  <2>1. Disabled \subseteq Children /\ \A m \in Children : Downstream[m] \subseteq Children
    BY GraphAssumption, Graph DEF Downstream
  <2> QED BY <2>1, Graph DEF DisabledInv, Entered, InitiallyDisabled
<1>2. ASSUME event.kind = "FINISH" PROVE n \notin Reached(event.from)
  <2>1. event.from \in Children /\ \A l \in gate : l[1] # event.from
    BY <1>2, KindIsAnEvent DEF IInv, EventTrue, TypeOK
  <2> QED BY <2>1, ReachedOpen DEF IInv
<1>3. CASE n \in Blocs
  <2>1. NoLife(n)
    BY <1>3 DEF ClearInv, NoLife
  <2> QED BY <1>1, <1>2, <1>3, <2>1, StillBloc DEF OnFinished, OnFinishedThrows
<1>4. CASE n \in Elem
  <2>1. CASE TaskCall(n)
    BY <1>1, <1>4, <2>1, TaskStates DEF TaskInv, Connected, Seen, IInv
  <2> QED BY <1>1, <1>2, <1>4, <2>1, ElemStep DEF StartSchemaThrows, OnFinishedThrows
<1> QED BY <1>1, <1>3, <1>4 DEF Children, Nodes

LEMMA DoneInsideKept ==
  ASSUME IInv, [Next]_vars, DoneInside
  PROVE  DoneInside'
<1> SUFFICES ASSUME NEW b \in Blocs, state'[b] = "DONE" PROVE Inside(b)'
  BY DEF DoneInside
<1>1. b \in Nodes
  BY Graph
<1>2. Inside(b)
  <2>1. CASE state[b] = "DONE"
    BY <2>1 DEF DoneInside
  <2>2. CASE state[b] # "DONE"
    <3>1. event.from \in Children /\ b = Father[event.from] /\ Inside(event.from)
      BY <2>2, NewDone, EventFather
    <3> QED BY <3>1, EnclosingFather DEF Inside
  <2> QED BY <2>1, <2>2
<1>3. Sound \/ UNCHANGED vars
  BY NextKeeps
<1>4. CASE Sound
  BY <1>1, <1>2, <1>4, InsideStays DEF IInv
<1>5. CASE UNCHANGED vars
  BY <1>2, <1>5 DEF vars, Inside
<1> QED BY <1>3, <1>4, <1>5

LEMMA ErrInsideKept ==
  ASSUME IInv, [Next]_vars, ~ StartThrew, ErrInside
  PROVE  ErrInside'
<1> SUFFICES ASSUME NEW k \in Elem, state'[k] \in {"ERROR", "INTERNALERR"},
                    NEW e \in Enclosing[k]
             PROVE  GateReady(gate', e)
  BY DEF ErrInside
<1>1. gate \subseteq gate'
  BY NextKeeps DEF Sound, vars
<1>2. CASE state'[k] = state[k]
  BY <1>1, <1>2 DEF ErrInside, GateReady
<1>3. CASE state'[k] # state[k] /\ TaskCall(k)
  <2>1. \E m \in Elem : (m \in tasks \/ state[m] = "ACTIVATED") /\ Father[m] = Father[k]
    <3>1. CASE CoupledAborted(k)
      <4>1. PICK m \in tasks : k \in CoupledSet[m]
        BY <3>1 DEF CoupledAborted
      <4> QED BY <4>1, CoupledSiblings DEF IInv, TypeOK
    <3> QED BY <1>3, <3>1, TaskStates DEF IInv, ConnectedState
  <2>2. PICK m \in Elem : Inside(m) /\ Father[m] = Father[k]
    BY <2>1 DEF IInv, Parts, RunInside
  <2>3. e \in Enclosing[m]
    BY <2>2, EnclosingFather, Graph
  <2> QED BY <1>1, <2>2, <2>3 DEF Inside, GateReady
<1>4. CASE state'[k] # state[k] /\ ~ TaskCall(k)
  <2>1. ~ StartSchemaThrows(k)
    BY DEF StartSchemaThrows, StartThrew
  <2>2. OnFinishedThrows(k) /\ k \notin Downstream[event.from]
    BY <1>4, <2>1, ElemStep
  <2>3. k \in Invalid
    BY <2>2 DEF OnFinishedThrows, IInv, TypeOK
  <2> QED BY <2>2, <2>3, ThrowsVisited
<1> QED BY <1>2, <1>3, <1>4

LEMMA FailBehindKept ==
  ASSUME IInv, [Next]_vars, FailBehind
  PROVE  FailBehind'
<1> SUFFICES ASSUME NEW k \in Elem, state'[k] = "FAILED", state[k] # "FAILED"
             PROVE  Precursors(k) # {}
  BY DEF FailBehind
<1>1. ~ TaskCall(k)
  BY TaskStates DEF IInv, ConnectedState
<1>2. ~ GateReady(gate, k)
  BY <1>1, ElemStep
<1> QED BY <1>2 DEF GateReady

LEMMA FreshKept ==
  ASSUME IInv, [Next]_vars, ~ StartThrew, FreshInv
  PROVE  FreshInv'
<1> SUFFICES ASSUME state'[Root] = "READY", NEW k \in Elem, state'[k] # state[k],
                    state'[k] \in {"DONE", "FAILED", "ERROR", "INTERNALERR"}
             PROVE  FALSE
  <2>1. state'[Root] = "READY" => state[Root] = "READY"
    BY NextKeeps, Graph DEF Sound, vars
  <2> QED BY <2>1 DEF FreshInv
<1>1. state[Root] = "READY" /\ k \in Children
  BY NextKeeps, Graph DEF Sound, vars
<1>2. ASSUME NEW m \in Children, Inside(m) PROVE FALSE
  BY <1>1, <1>2, TreeAssumption DEF Inside
<1>3. event.from \notin Children
  BY <1>2 DEF IInv, EventTrue, NoEvent, Children
<1>4. event.kind # "FINISH"
  BY <1>3, KindIsAnEvent DEF IInv, TypeOK
<1>5. CASE TaskCall(k)
  <2>1. ~ CoupledAborted(k)
    <3> SUFFICES ASSUME NEW m \in tasks PROVE FALSE
      BY DEF CoupledAborted
    <3> QED BY <1>2, Graph DEF IInv, TypeOK, Parts, RunInside
  <2>2. k \notin tasks /\ state[k] # "ACTIVATED"
    BY <1>1, <1>2 DEF IInv, Parts, RunInside
  <2> QED BY <1>5, <2>1, <2>2, TaskStates DEF IInv, ConnectedState
<1>6. CASE ~ TaskCall(k)
  BY <1>3, <1>4, <1>6, ElemStep DEF StartSchemaThrows, StartThrew, OnFinishedThrows
<1> QED BY <1>5, <1>6

LEMMA EnclosedKept ==
  ASSUME IInv, [Next]_vars, ~ StartThrew, EnclosedInv, TaskInv
  PROVE  EnclosedInv'
BY ClearKept, DisabledKept, DoneInsideKept, ErrInsideKept, FailBehindKept, FreshKept DEF EnclosedInv

\* What a step may make of a Bloc.
LEMMA BlocKind ==
  ASSUME IInv, [Next]_vars, NEW b \in Blocs
  PROVE  state'[b] = state[b] \/ state'[b] \in {"ACTIVATED", "DONE", "FAILED"}
<1>1. b \in Nodes /\ b \notin Elem /\ state \in [Nodes -> State]
  BY Graph, GraphAssumption DEF IInv, TypeOK
<1>2. ASSUME NEW W \in SUBSET Nodes PROVE Updated(state, W)[b] \in {state[b], "ACTIVATED"}
  BY <1>1, UpdatedNode
<1>3. CASE StartSchema
  <2>1. Entered[Root] \in SUBSET Nodes
    BY EnteredNodes, Graph
  <2> QED BY <1>2, <1>3, <2>1 DEF StartSchema
<1>4. ASSUME NEW x \in Invalid, StartSchemaThrows(x) PROVE state'[b] \in {state[b], "ACTIVATED"}
  <2>1. PICK P \in VisitedBefore(Entered[Root], x) :
          state' = [Updated(state, P) EXCEPT ![x] = "INTERNALERR"]
    BY <1>4 DEF StartSchemaThrows
  <2>2. P \in SUBSET Nodes /\ x # b
    BY <1>1, GraphAssumption, EnteredNodes, Graph DEF VisitedBefore
  <2>3. Updated(state, P) \in [Nodes -> State]
    BY <1>1, <2>2, UpdatedType
  <2>4. state'[b] = Updated(state, P)[b]
    BY <1>1, <2>1, <2>2, <2>3
  <2> QED BY <1>2, <2>2, <2>4
<1>5. CASE OnStartEvent
  BY <1>1, <1>5 DEF OnStartEvent
<1>6. CASE OnLastFinished
  BY <1>1, <1>6 DEF OnLastFinished, Finish
<1>7. CASE OnFinished
  <2>1. Reached(event.from) \in SUBSET Nodes
    BY <1>7, KindIsAnEvent, ReachedNodes DEF OnFinished, IInv, TypeOK
  <2> QED BY <1>2, <1>7, <2>1 DEF OnFinished
<1>8. ASSUME NEW x \in Invalid, OnFinishedThrows(x)
      PROVE  state'[b] \in {state[b], "ACTIVATED", "FAILED"}
  <2> DEFINE n == event.from
  <2>1. /\ n \in Children /\ b # x
        /\ b = Father[n] \/ b \in Downstream[n] => state'[b] = "FAILED"
    BY <1>1, <1>8, ThrowsStates, GraphAssumption
  <2>2. CASE b # Father[n] /\ b \notin Downstream[n]
    <3>1. PICK P \in SUBSET Reached(n) : state'[b] = Updated(state, P)[b]
      BY <1>1, <1>8, <2>1, <2>2, ThrowsStates
    <3>2. P \in SUBSET Nodes
      BY <2>1, <3>1, ReachedNodes
    <3> QED BY <1>2, <3>1, <3>2
  <2> QED BY <2>1, <2>2
<1>9. CASE OnFailed
  BY <1>1, <1>9, OnFailedStates
<1>10. CASE UNCHANGED vars \/ \E S \in SUBSET Elem : GetNextTasks(S) \/ DropTasks(S)
  BY <1>10 DEF vars, GetNextTasks, DropTasks
<1>11. ASSUME NEW n \in Elem, TaskCall(n) PROVE state'[b] = state[b]
  BY <1>1, <1>11 DEF TaskCall, TaskStarted, TaskNotLoaded, Connected,
     CoupledAborted, Begin, Finished, Aborted, Notify
<1> QED BY <1>3, <1>4, <1>5, <1>6, <1>7, <1>8, <1>9, <1>10, <1>11 DEF Next, UpdateStateFrom

LEMMA TaskKept ==
  ASSUME IInv, [Next]_vars, ~ StartThrew, LoadOpen, TaskInv, UnsetInv, KindInv
  PROVE  TaskInv'
<1> SUFFICES ASSUME NEW n \in tasks'
             PROVE  /\ n \notin unset
                    /\ state'[n] \in {"TOLOAD", "TOACTIVATE", "ACTIVATED", "DONE", "ERROR"}
  <2>1. unset' = unset
    BY DEF Next, vars, StartSchema, StartSchemaThrows, UpdateStateFrom, OnStartEvent,
       OnLastFinished, OnFinished, OnFinishedThrows, OnFailed, GetNextTasks, DropTasks, TaskCall,
       TaskStarted, TaskNotLoaded, Connected, CoupledAborted, Begin, Finished, Aborted
  <2> QED BY <2>1 DEF TaskInv
<1>1. n \in Elem
  BY StepType DEF TypeOK, IInv
<1>2. CASE n \notin tasks
  <2>1. n \in ReadyTasks /\ state' = state
    BY <1>2 DEF Next, vars, StartSchema, StartSchemaThrows, UpdateStateFrom, OnStartEvent,
       OnLastFinished, OnFinished, OnFinishedThrows, OnFailed, GetNextTasks, DropTasks, TaskCall,
       TaskStarted, TaskNotLoaded, Connected, CoupledAborted, Begin, Finished, Aborted
  <2>2. ~ InLost(n)
    BY <2>1 DEF ReadyTasks, InLost, Lost
  <2> QED BY <2>1, <2>2 DEF ReadyTasks, UnsetInv
<1>3. CASE n \in tasks
  <2>1. /\ n \notin unset /\ GateReady(gate, n)
        /\ state[n] \in {"TOLOAD", "TOACTIVATE", "ACTIVATED", "DONE", "ERROR"}
    BY <1>1, <1>3 DEF TaskInv, LoadOpen
  <2>2. CASE TaskCall(n)
    BY <1>1, <2>1, <2>2, TaskStates DEF ConnectedState, IInv
  <2>3. CASE state'[n] # state[n] /\ ~ TaskCall(n)
    BY <1>1, <2>1, <2>3, ElemStep DEF StartSchemaThrows, OnFinishedThrows
  <2> QED BY <2>1, <2>2, <2>3
<1> QED BY <1>2, <1>3

LEMMA UnsetKept ==
  ASSUME IInv, [Next]_vars, ~ StartThrew, CoupledTogether, LinksOpen, DisabledInv,
         TaskInv, UnsetInv, KindInv
  PROVE  UnsetInv'
<1> SUFFICES ASSUME NEW n \in Elem, n \in unset, state'[n] \in {"TOLOAD", "TOACTIVATE"}
             PROVE  InLost(n)'
  <2>1. unset' = unset
    BY DEF Next, vars, StartSchema, StartSchemaThrows, UpdateStateFrom, OnStartEvent,
       OnLastFinished, OnFinished, OnFinishedThrows, OnFailed, GetNextTasks, DropTasks, TaskCall,
       TaskStarted, TaskNotLoaded, Connected, CoupledAborted, Begin, Finished, Aborted
  <2> QED BY <2>1 DEF UnsetInv
<1>1. n \in Nodes /\ n \in Children /\ n \notin Blocs /\ state \in [Nodes -> State]
  BY Graph, GraphAssumption DEF IInv, TypeOK
<1>2. CASE state'[n] = state[n]
  BY <1>2, InLostKept DEF UnsetInv
<1>3. CASE TaskCall(n) /\ state'[n] # state[n]
  BY <1>3, TaskStates DEF TaskInv, ConnectedState, IInv
<1>4. CASE ~ TaskCall(n) /\ state'[n] # state[n]
  <2>1. state[n] = "READY" /\ state'[n] = "TOLOAD" /\ n \notin InitiallyDisabled
    BY <1>4, ElemStep DEF KindInv, DisabledInv
  <2>2. ~ StartSchema
    <3> SUFFICES ASSUME StartSchema PROVE FALSE
      OBVIOUS
    <3>1. Entered[Root] \in SUBSET Nodes
      BY EnteredNodes, Graph
    <3>2. PICK w \in Entered[Root] \cap Elem : Father[n] = Father[w] /\ Precursors(n) = Precursors(w)
      BY <1>1, <2>1, <3>1, LoadedTwins DEF StartSchema
    <3>3. n \in Entered[Root]
      BY <1>1, <2>1, <3>2, RootEnabled, EnteredTwin, Graph
    <3> QED BY <3>3 DEF StartSchema
  <2>3. ~ OnFinished
    <3> SUFFICES ASSUME OnFinished PROVE FALSE
      OBVIOUS
    <3>1. event.from \in Children /\ \A l \in gate : l[1] # event.from
      BY KindIsAnEvent DEF OnFinished, IInv, EventTrue, TypeOK
    <3>2. Reached(event.from) \in SUBSET Nodes
      BY <3>1, ReachedNodes
    <3>3. PICK w \in Reached(event.from) \cap Elem :
            Father[n] = Father[w] /\ Precursors(n) = Precursors(w)
      BY <1>1, <2>1, <3>2, LoadedTwins DEF OnFinished
    <3>4. n \in Reached(event.from)
      BY <1>1, <2>1, <3>1, <3>3, ReachedTwin, Graph
    <3> QED BY <3>4 DEF OnFinished
  <2>4. ASSUME NEW x \in Invalid, OnFinishedThrows(x) PROVE InLost(n)'
    <3> DEFINE k == event.from
    <3>1. k \in Children /\ \A l \in gate : l[1] # k
      BY <2>4, KindIsAnEvent DEF OnFinishedThrows, IInv, EventTrue, TypeOK
    <3>2. n \notin Downstream[k] /\ n # Father[k] /\ n # x
      BY <1>1, <2>1, <2>4, ThrowsStates
    <3>3. PICK P \in SUBSET Reached(k) :
            /\ state'[n] = Updated(state, P)[n]
            /\ \A y \in P : y \notin Downstream[k] => InLost(y)'
      BY <1>1, <2>4, <3>2, ThrowsVisited
    <3>4. P \in SUBSET Nodes
      BY <3>1, <3>3, ReachedNodes
    <3>5. PICK w \in P \cap Elem : Father[n] = Father[w] /\ Precursors(n) = Precursors(w)
      BY <1>1, <2>1, <3>3, <3>4, LoadedTwins
    <3>6. w \notin Downstream[k]
      <4> SUFFICES ASSUME w \in Downstream[k] PROVE FALSE
        OBVIOUS
      <4>1. Precursors(w) # {}
        BY <3>1, DownstreamShut DEF GateReady, IInv
      <4>2. w \in Successors(k)
        BY <3>1, <3>5, <4>1, ReachedOpen DEF IInv
      <4>3. n \in Successors(k)
        BY <1>1, <3>1, <3>5, <4>2, Graph DEF Successors, Precursors
      <4> QED BY <3>1, <3>2, <4>3, SuccessorsDownstream
    <3>7. InLost(w)' /\ Enclosing[n] = Enclosing[w]
      BY <1>1, <3>3, <3>5, <3>6, EnclosingFather, Graph
    <3> QED BY <3>7 DEF InLost
  <2>5. ASSUME NEW x \in Invalid PROVE ~ StartSchemaThrows(x)
    BY DEF StartSchemaThrows, StartThrew
  <2>6. ~ (OnStartEvent \/ OnLastFinished)
    <3> SUFFICES ASSUME event.kind # "NOEVENT", Father[event.from] = n PROVE FALSE
      BY <1>1, <1>4 DEF OnStartEvent, OnLastFinished, Finish
    <3> QED BY <1>1, EventFather
  <2>7. ~ OnFailed
    BY <1>1, <1>4, <2>1, OnFailedStates
  <2>8. ~ (UNCHANGED vars \/ \E S \in SUBSET Elem : GetNextTasks(S) \/ DropTasks(S))
    BY <1>4 DEF vars, GetNextTasks, DropTasks
  <2>9. ASSUME NEW m \in Elem PROVE ~ TaskCall(m)
    BY <1>1, <1>4 DEF TaskCall, TaskStarted, TaskNotLoaded, Connected,
       CoupledAborted, Begin, Finished, Aborted, Notify
  <2> QED BY <2>2, <2>3, <2>4, <2>5, <2>6, <2>7, <2>8, <2>9 DEF Next, UpdateStateFrom
<1> QED BY <1>2, <1>3, <1>4

LEMMA InternalKept ==
  ASSUME IInv, [Next]_vars, ~ StartThrew, InternalInv
  PROVE  InternalInv'
<1> SUFFICES ASSUME NEW k \in Elem, state'[k] = "INTERNALERR" PROVE InLost(k)'
  BY DEF InternalInv
<1>1. CASE state[k] = "INTERNALERR"
  BY <1>1, InLostKept DEF InternalInv
<1>2. CASE state[k] # "INTERNALERR"
  <2>1. ~ TaskCall(k) /\ ~ StartSchemaThrows(k)
    BY <1>2, TaskStates DEF ConnectedState, StartSchemaThrows, StartThrew, IInv
  <2>2. OnFinishedThrows(k) /\ k \notin Downstream[event.from]
    BY <1>2, <2>1, ElemStep
  <2>3. k \in Invalid
    BY <2>2 DEF OnFinishedThrows, IInv, TypeOK
  <2> QED BY <2>2, <2>3, ThrowsVisited
<1> QED BY <1>1, <1>2

LEMMA StartKept ==
  ASSUME IInv, [Next]_vars, TaskInv, StartInv
  PROVE  StartInv'
<1> SUFFICES ASSUME event'.kind = "START" PROVE state'[event'.from] \notin Over
  BY DEF StartInv
<1>1. CASE OnStartEvent
  <2>1. event'.from = Father[event.from] /\ Father[event.from] \in Nodes
    BY <1>1, EventFather DEF OnStartEvent, ToFather, NoEvent
  <2> QED BY <1>1, <2>1 DEF OnStartEvent, IInv, TypeOK, Over
<1>2. CASE UNCHANGED vars \/ \E S \in SUBSET Elem : GetNextTasks(S) \/ DropTasks(S)
  BY <1>2 DEF vars, GetNextTasks, DropTasks, StartInv
<1>3. ~ (OnLastFinished \/ OnFailed \/ \E x \in Invalid : OnFinishedThrows(x))
  BY DEF OnLastFinished, OnFailed, OnFinishedThrows, Finish, ToFather, NoEvent
<1>4. ~ (StartSchema \/ OnFinished \/ \E x \in Invalid : StartSchemaThrows(x))
  BY DEF StartSchema, OnFinished, StartSchemaThrows, NoEvent
<1>5. ASSUME NEW n \in Elem, TaskCall(n) PROVE state'[event'.from] \notin Over
  <2>1. TaskStarted(n) /\ event'.from = n /\ n \in Nodes
    BY <1>5, Graph DEF TaskCall, TaskStarted, TaskNotLoaded, Connected, CoupledAborted, Begin,
       Finished, Aborted, Notify, NoEvent
  <2>2. state[n] = "TOLOAD"
    BY <2>1 DEF TaskStarted, Seen, TaskInv
  <2> QED BY <2>1, <2>2 DEF TaskStarted, Notify, IInv, TypeOK, Over
<1> QED BY <1>1, <1>2, <1>3, <1>4, <1>5 DEF Next, UpdateStateFrom

LEMMA KindKept ==
  ASSUME IInv, [Next]_vars, LoadOpen, TaskInv, KindInv
  PROVE  KindInv'
<1>1. ASSUME NEW n \in Elem PROVE state'[n] # "LOADED"
  <2>1. CASE TaskCall(n)
    BY <2>1, TaskStates DEF ConnectedState, LoadOpen, TaskInv, KindInv, IInv
  <2>2. CASE ~ TaskCall(n)
    BY <2>2, ElemStep DEF KindInv
  <2> QED BY <2>1, <2>2
<1>2. ASSUME NEW b \in Blocs
      PROVE  state'[b] \in {"READY", "ACTIVATED", "DONE", "FAILED", "DISABLED"}
  BY BlocKind DEF KindInv
<1> QED BY <1>1, <1>2 DEF KindInv

LEMMA TaskPartsKept ==
  ASSUME IInv, [Next]_vars, ~ StartThrew, CoupledTogether, LinksOpen, LoadOpen,
         EnclosedInv, TaskParts
  PROVE  TaskParts'
BY TaskKept, UnsetKept, InternalKept, StartKept, KindKept DEF TaskParts, EnclosedInv

\* A node that was READY and is visited is READY no more.
LEMMA UpdatedVisited ==
  ASSUME NEW st \in [Nodes -> State], NEW W \in SUBSET Nodes, NEW y \in W, st[y] = "READY"
  PROVE  Updated(st, W)[y] \notin Over \cup {"READY"}
<1> DEFINE R == {m \in W \cap Elem : st[m] = "READY"}
<1>1. CASE y \in Elem
  <2>1. y \in LoadedWith(st, R)
    BY <1>1 DEF LoadedWith
  <2> QED BY <2>1 DEF Updated, Over
<1>2. CASE y \in Blocs
  <2>1. y \notin LoadedWith(st, R)
    BY <1>2, GraphAssumption DEF LoadedWith
  <2>2. y \notin Elem
    BY <1>2, GraphAssumption
  <2> QED BY <1>2, <2>1, <2>2 DEF Updated, Over
<1> QED BY <1>1, <1>2 DEF Nodes

\* Nothing is done in a Bloc that has not been opened.
LEMMA DoneIsInside ==
  ASSUME IInv, DoneInside, NEW p \in Children, state[p] = "DONE"
  PROVE  Inside(p)
BY DEF IInv, Parts, RunInside, DoneInside, Children, Nodes

LEMMA EntryKept ==
  ASSUME IInv, [Next]_vars, ~ StartThrew, DoneInside, EntryInv
  PROVE  EntryInv'
<1> SUFFICES ASSUME NEW n \in Children \ InitiallyDisabled, state'[n] = "READY",
                    GateReady(gate', n)
             PROVE  Cold(Father[n])'
  BY DEF EntryInv, GateReady
<1> DEFINE b == Father[n]
<1>1. n \in Nodes /\ b \in Blocs /\ b \in Nodes /\ state[n] = "READY"
  BY Graph, NextKeeps DEF Sound, vars
<1>2. ASSUME NEW W \in SUBSET Nodes, state' = Updated(state, W) PROVE n \notin W
  BY <1>1, <1>2, UpdatedVisited DEF IInv, TypeOK
<1>3. ASSUME OnFinished \/ \E x \in Invalid : OnFinishedThrows(x)
      PROVE  /\ event.from \in Children /\ \A l \in gate : l[1] # event.from
             /\ event.kind = "FINISH" /\ Inside(event.from) /\ Reached(event.from) \in SUBSET Nodes
  BY <1>3, EventFather, KindIsAnEvent, ReachedNodes
     DEF OnFinished, OnFinishedThrows, IInv, EventTrue, TypeOK
<1>4. CASE GateReady(gate, n)
  <2>1. Cold(b)
    BY <1>1, <1>4 DEF EntryInv
  <2>2. ASSUME NEW m \in Enclosing[n] \cup {Root}, Precursors(n) # {}
        PROVE  GateReady(gate, m) /\ state[Root] # "READY"
    <3>1. PICK p \in Precursors(n) : <<p, n>> \in gate
      BY <1>4, <2>2 DEF GateReady
    <3>2. p \in Children /\ state[p] = "DONE" /\ Father[p] = Father[n]
      BY <3>1, GraphAssumption DEF IInv, Parts, GatesTrue, Precursors
    <3>3. Inside(p) /\ Enclosing[p] = Enclosing[n] /\ Root \in Enclosing[p]
      BY <3>2, DoneIsInside, EnclosingFather, TreeAssumption
    <3> QED BY <3>3 DEF Inside
  <2>3. Precursors(n) = {} => n \in Entry(b) \ InitiallyDisabled
    BY DEF Entry, ChildrenOf
  <2>4. CASE state[b] # "ACTIVATED" => state'[b] # "ACTIVATED"
    BY <1>1, <2>1, <2>4, ColdKept
  <2>5. CASE state[b] # "ACTIVATED" /\ state'[b] = "ACTIVATED"
    <3>1. NoLife(b)
      BY <2>1 DEF Cold
    <3>2. ~ (StartSchema /\ b \in Entered[Root])
      <4> SUFFICES ASSUME StartSchema, b \in Entered[Root] PROVE FALSE
        OBVIOUS
      <4>1. Entered[Root] \in SUBSET Nodes
        BY EnteredNodes, Graph
      <4>2. n \notin Entered[Root]
        BY <1>2, <4>1 DEF StartSchema
      <4>3. Precursors(n) # {}
        BY <1>1, <2>3, <4>2, EnteredEntry, Graph
      <4> QED BY <2>2, <4>3 DEF StartSchema
    <3>3. ~ (OnFinished /\ b \in Reached(event.from))
      <4> SUFFICES ASSUME OnFinished, b \in Reached(event.from) PROVE FALSE
        OBVIOUS
      <4>1. n \notin Reached(event.from)
        BY <1>2, <1>3 DEF OnFinished
      <4>2. PICK m \in Opened(event.from) : b \in Entered[m]
        BY DEF Reached
      <4>3. m \in Nodes \ InitiallyDisabled /\ m \in Successors(event.from) /\ ~ GateReady(gate, m)
        BY <1>3, Graph DEF Opened, Successors, Precursors, GateReady
      <4>4. Precursors(n) # {}
        BY <1>1, <2>3, <4>1, <4>2, <4>3, EnteredEntry DEF Reached
      <4>5. m = b \/ m \in Enclosing[b]
        BY <4>2, <4>3, EnteredInside
      <4>6. m \in Enclosing[n]
        BY <4>5, EnclosingFather
      <4> QED BY <2>2, <4>3, <4>4, <4>6
    <3>4. ASSUME NEW x \in Invalid, OnFinishedThrows(x) PROVE InLost(b)'
      <4> DEFINE k == event.from
      <4>1. k \in Children /\ Inside(k) /\ b # x /\ b # Father[k] /\ b \notin Downstream[k]
        <5>1. b # x
          BY <1>1, GraphAssumption
        <5> QED BY <1>3, <2>5, <3>4, <5>1, ThrowsStates
      <4>2. PICK P \in SUBSET Reached(k) :
              /\ state'[b] = Updated(state, P)[b]
              /\ \A y \in P : y \notin Downstream[k] => InLost(y)'
        BY <1>1, <3>4, <4>1, ThrowsVisited
      <4>3. P \in SUBSET Nodes
        BY <1>3, <3>4, <4>2
      <4>4. b \in P
        BY <1>1, <2>5, <4>2, <4>3, UpdatedNode DEF IInv, TypeOK
      <4> QED BY <4>1, <4>2, <4>4
    <3>5. ASSUME NEW x \in Invalid PROVE ~ StartSchemaThrows(x)
      BY DEF StartSchemaThrows, StartThrew
    <3>6. InLost(b)'
      BY <1>1, <2>5, <3>1, <3>2, <3>3, <3>4, <3>5, StillBloc
    <3> QED BY <1>1, <2>5, <3>1, <3>6, NoLifeKept DEF Cold
  <2> QED BY <2>4, <2>5
<1>5. CASE ~ GateReady(gate, n)
  <2>1. PICK p \in Precursors(n) : <<p, n>> \in gate' /\ <<p, n>> \notin gate
    BY <1>5 DEF GateReady
  <2>2. OnFinished \/ \E x \in Invalid : OnFinishedThrows(x)
    BY <2>1 DEF Next, vars, StartSchema, StartSchemaThrows, UpdateStateFrom, OnStartEvent,
       OnLastFinished, OnFailed, GetNextTasks, DropTasks, TaskCall, TaskStarted,
       TaskNotLoaded, Connected, CoupledAborted, Begin, Finished, Aborted
  <2>3. ~ OnFinished
    <3> SUFFICES ASSUME OnFinished PROVE FALSE
      OBVIOUS
    <3>1. n \in Successors(event.from)
      BY <2>1 DEF OnFinished
    <3>2. n \in Opened(event.from)
      BY <3>1 DEF Opened, OnFinished
    <3>3. n \in Entered[n]
      BY <1>1 DEF Entered
    <3> QED BY <1>2, <1>3, <3>2, <3>3 DEF OnFinished, Reached
  <2>4. PICK x \in Invalid : OnFinishedThrows(x)
    BY <2>2, <2>3
  <2>5. n \in Successors(event.from)
    BY <2>1, <2>4 DEF OnFinishedThrows
  <2> QED BY <1>3, <2>4, <2>5, ThrowsStates, SuccessorsDownstream
<1> QED BY <1>4, <1>5

\* A node that is over stays over until its gate opens.
LEMMA OverStays ==
  ASSUME IInv, [Next]_vars, ~ StartThrew, LoadOpen,
         NEW m \in Children, state[m] \in Over, ~ GateReady(gate', m)
  PROVE  state'[m] \in Over
<1>1. m \in Nodes /\ ~ GateReady(gate, m) /\ Precursors(m) # {}
  BY Graph, NextKeeps DEF Sound, vars, GateReady
<1>2. CASE m \in Elem
  <2>1. m \notin tasks
    BY <1>1, <1>2 DEF LoadOpen
  <2>2. CASE TaskCall(m)
    BY <1>2, <2>1, <2>2, TaskStates DEF IInv, Over
  <2>3. CASE ~ TaskCall(m) /\ state'[m] # state[m]
    BY <1>2, <2>3, ElemStep DEF Over
  <2> QED BY <2>2, <2>3
<1>3. CASE m \in Blocs
  <2>1. NoLife(m)
    BY <1>1 DEF IInv, Parts, RunInside, EventTrue, Inside, NoLife
  <2>2. m \notin Entered[Root]
    BY <1>1, RootEnabled, EnteredInside DEF Children
  <2>3. ASSUME OnFinished \/ \E x \in Invalid : OnFinishedThrows(x)
        PROVE  /\ event.from \in Children /\ \A l \in gate : l[1] # event.from
               /\ Successors(event.from) \subseteq Downstream[event.from]
    BY <2>3, KindIsAnEvent, SuccessorsDownstream
       DEF OnFinished, OnFinishedThrows, IInv, EventTrue, TypeOK
  <2>4. ~ (OnFinished /\ m \in Reached(event.from))
    BY <2>3, ReachedOpen DEF OnFinished, IInv, GateReady
  <2>5. ASSUME NEW x \in Invalid, OnFinishedThrows(x), m \in Reached(event.from)
        PROVE  m \in Downstream[event.from]
    BY <1>1, <2>3, <2>5, ReachedOpen DEF IInv
  <2>6. state'[m] = "FAILED" \/ state'[m] = state[m]
    BY <1>3, <2>1, <2>2, <2>4, <2>5, StillBloc
  <2> QED BY <2>6 DEF Over
<1> QED BY <1>1, <1>2, <1>3 DEF Nodes

LEMMA DoneKept ==
  ASSUME IInv, [Next]_vars, ~ StartThrew, LoadOpen, DoneInv
  PROVE  DoneInv'
<1> SUFFICES ASSUME NEW p \in Children, state'[p] = "DONE",
                    ~ (event'.kind = "FINISH" /\ event'.from = p),
                    NEW m \in Successors(p), <<p, m>> \notin gate'
             PROVE  state'[m] \in Over
  BY DEF DoneInv
<1>1. p \in Nodes /\ m \in Children /\ m \in Nodes /\ p \in Precursors(m) /\ Father[m] = Father[p]
  BY Graph, GraphAssumption DEF Successors, Precursors
<1>2. state[p] = "DONE"
  <2>1. CASE p \in Elem /\ state[p] # "DONE"
    <3>1. TaskCall(p)
      BY <2>1, ElemStep
    <3>2. Finished(p)
      BY <2>1, <3>1, TaskStates DEF IInv, ConnectedState
    <3> QED BY <3>2 DEF Finished, Notify
  <2>2. CASE p \in Blocs /\ state[p] # "DONE"
    <3>1. OnLastFinished /\ p = Father[event.from]
      BY <2>2, NewDone
    <3>2. event' = ToFather(p, "FINISH")
      BY <1>1, <2>2, <3>1 DEF OnLastFinished, Finish, IInv, TypeOK
    <3> QED BY <3>2 DEF ToFather, Children
  <2> QED BY <1>1, <2>1, <2>2 DEF Nodes
<1>3. <<p, m>> \notin gate /\ ~ GateReady(gate', m)
  BY <1>1, NextKeeps DEF Sound, vars, GateReady
<1>4. CASE state[m] \in Over
  BY <1>1, <1>3, <1>4, OverStays
<1>5. CASE state[m] \notin Over
  <2>1. event.kind = "FINISH" /\ event.from = p
    BY <1>2, <1>3, <1>5 DEF DoneInv
  <2>2. ~ OnLastFinished
    BY <1>1, <1>5, <2>1 DEF OnLastFinished, AllFinished, ChildrenOf, Over
  <2>3. ~ OnFinished
    BY <2>1 DEF OnFinished
  <2>4. \E x \in Invalid : OnFinishedThrows(x)
    BY <2>1, <2>2, <2>3 DEF NoEvent, Next, vars, StartSchema, StartSchemaThrows, UpdateStateFrom,
       OnStartEvent, OnFailed, GetNextTasks, DropTasks, TaskCall,
       TaskStarted, TaskNotLoaded, Connected, CoupledAborted, Begin, Finished, Aborted
  <2> QED BY <2>1, <2>4, ThrowsStates, SuccessorsDownstream DEF Over
<1> QED BY <1>4, <1>5

\* What is entered now, inside what was opened now, was not over before.
LEMMA EntryIsNew ==
  ASSUME IInv, EnclosedInv, NEW m \in Nodes, NEW b \in Entered[m] \cap Blocs,
         NEW y \in Entry(b) \ InitiallyDisabled,
         \/ m = Root /\ state[Root] = "READY"
         \/ m \in Children \ InitiallyDisabled /\ ~ GateReady(gate, m)
  PROVE  /\ y \in Children /\ y \in Nodes /\ Father[y] = b /\ y \in Entered[m]
         /\ y \in Elem => state[y] \notin Over
         /\ y \in Blocs => state[y] # "DONE"
<1>1. y \in Children /\ y \in Nodes /\ Father[y] = b /\ Precursors(y) = {} /\ y \in Entered[m]
  BY EnteredEntry, Graph DEF Entry, ChildrenOf
<1>2. state[y] # "DISABLED" /\ (y \in Elem => state[y] # "FAILED")
  BY <1>1 DEF IInv, Parts, DisabledOld, EnclosedInv, FailBehind
<1>3. CASE m = Root /\ state[Root] = "READY"
  <2>1. Root \in Enclosing[y]
    BY <1>1, TreeAssumption
  <2> QED BY <1>1, <1>2, <1>3, <2>1 DEF EnclosedInv, FreshInv, DoneInside, Inside, Over
<1>4. CASE m \in Children \ InitiallyDisabled /\ ~ GateReady(gate, m)
  <2>1. y # m
    BY <1>1, <1>4 DEF GateReady
  <2>2. m \in Enclosing[y]
    BY <1>1, <1>4, <2>1, EnteredInside
  <2> QED BY <1>1, <1>2, <1>4, <2>2
       DEF IInv, Parts, RunInside, EnclosedInv, ErrInside, DoneInside, Inside, Over
<1> QED BY <1>3, <1>4

LEMMA UpdatedLives ==
  ASSUME NEW st \in [Nodes -> State], NEW W \in SUBSET Nodes, NEW y \in Nodes,
         y \in Elem => st[y] \notin Over,
         y \in Blocs => y \in W /\ st[y] # "DONE"
  PROVE  Updated(st, W)[y] \notin Over
<1>1. CASE y \in Elem
  BY <1>1, UpdatedNode DEF Over
<1>2. CASE y \in Blocs
  <2>1. y \notin Elem
    BY <1>2, GraphAssumption
  <2>2. y \notin LoadedWith(st, {m \in W \cap Elem : st[m] = "READY"})
    BY <2>1 DEF LoadedWith
  <2> QED BY <1>2, <2>1, <2>2 DEF Updated, Over
<1> QED BY <1>1, <1>2 DEF Nodes

\* Loading and entering nodes make none of them over.
LEMMA UpdatedNotOver ==
  ASSUME NEW st \in [Nodes -> State], NEW W \in SUBSET Nodes, NEW y \in Nodes,
         Updated(st, W)[y] \in Over
  PROVE  st[y] \in Over
BY UpdatedNode DEF Over

\* A Bloc that goes on is told, or has been told, that its children are over.
LEMMA EndKept ==
  ASSUME IInv, [Next]_vars, ~ StartThrew, BlocsHaveWork, EnclosedInv, TaskParts, EndInv
  PROVE  EndInv'
<1> SUFFICES ASSUME NEW b \in Blocs, state'[b] = "ACTIVATED", AllFinished(state', b), ~ InLost(b)',
                    ~ (event' # NoEvent /\ event'.kind \in {"FINISH", "ABORT"} /\ Father[event'.from] = b)
             PROVE  FALSE
  BY DEF EndInv
<1> DEFINE Heard == event # NoEvent /\ event.kind \in {"FINISH", "ABORT"} /\ Father[event.from] = b
<1>1. b \in Nodes /\ b \notin Elem /\ ~ InLost(b) /\ state \in [Nodes -> State]
  BY Graph, GraphAssumption, InLostKept DEF IInv, TypeOK
<1>2. \A n \in Children : Father[n] = b => n \in Nodes /\ state'[n] \in Over
  BY Graph DEF AllFinished, ChildrenOf, Over
<1>3. state[b] = "ACTIVATED" /\ (\A n \in Children : Father[n] = b => state[n] \in Over) => Heard
  BY <1>1 DEF EndInv, AllFinished, ChildrenOf, Over
<1>4. ASSUME NEW W \in SUBSET Nodes, state' = Updated(state, W), b \notin W PROVE Heard
  <2>1. state[b] = "ACTIVATED"
    BY <1>1, <1>4, UpdatedNode
  <2>2. \A n \in Children : Father[n] = b => state[n] \in Over
    BY <1>1, <1>2, <1>4, UpdatedNotOver
  <2> QED BY <1>3, <2>1, <2>2
<1>5. ASSUME NEW W \in SUBSET Nodes, state' = Updated(state, W),
             NEW m \in Nodes \ InitiallyDisabled, b \in Entered[m], Entered[m] \subseteq W,
             \/ m = Root /\ state[Root] = "READY"
             \/ m \in Children \ InitiallyDisabled /\ ~ GateReady(gate, m)
      PROVE  FALSE
  <2>1. b \in Nodes \ InitiallyDisabled
    BY <1>5 DEF Entered
  <2>2. PICK y \in Entry(b) \ InitiallyDisabled : TRUE
    BY <2>1 DEF BlocsHaveWork
  <2>3. /\ y \in Children /\ y \in Nodes /\ Father[y] = b /\ y \in W
        /\ y \in Elem => state[y] \notin Over
        /\ y \in Blocs => state[y] # "DONE"
    BY <1>5, <2>2, EntryIsNew
  <2>4. state'[y] \notin Over
    BY <1>1, <1>5, <2>3, UpdatedLives
  <2> QED BY <1>2, <2>3, <2>4
<1>6. ~ StartSchema
  <2> SUFFICES ASSUME StartSchema PROVE FALSE
    OBVIOUS
  <2>1. Entered[Root] \in SUBSET Nodes /\ Root \in Nodes \ InitiallyDisabled
    BY EnteredNodes, Graph, RootEnabled
  <2> QED BY <1>4, <1>5, <2>1 DEF StartSchema
<1>7. ASSUME NEW x \in Invalid PROVE ~ StartSchemaThrows(x)
  BY DEF StartSchemaThrows, StartThrew
<1>8. ~ OnStartEvent
  <2> SUFFICES ASSUME OnStartEvent PROVE FALSE
    OBVIOUS
  <2> DEFINE f == Father[event.from]
  <2>1. /\ event.from \in Children /\ f \in Nodes /\ event # NoEvent
        /\ \A m \in Nodes : state'[m] = IF m = f THEN "ACTIVATED" ELSE state[m]
    BY EventFather, KindIsAnEvent DEF OnStartEvent, IInv, TypeOK
  <2>2. state[event.from] \notin Over
    BY DEF OnStartEvent, TaskParts, StartInv
  <2>3. b # f
    BY <1>2, <2>1, <2>2, NotOwnFather
  <2>4. \A n \in Children : Father[n] = b => n # f /\ state[n] \in Over
    BY <1>2, <2>1 DEF Over
  <2> QED BY <1>1, <1>3, <2>1, <2>3, <2>4 DEF OnStartEvent
<1>9. ASSUME NEW st \in [Nodes -> State], event.kind \in {"FINISH", "ABORT"},
             \A m \in Nodes : st[m] = state[m] \/ (m \in Downstream[event.from] /\ st[m] = "FAILED"),
             \/ AllFinished(st, Father[event.from]) /\ Finish(st, Father[event.from])
             \/ ~ AllFinished(st, Father[event.from]) /\ state' = st
      PROVE  FALSE
  <2> DEFINE f == Father[event.from]
  <2>1. event.from \in Children /\ f \in Nodes /\ f \in Blocs /\ event # NoEvent
    <3>1. event.kind # "NOEVENT"
      BY <1>9
    <3> QED BY <3>1, KindIsAnEvent DEF IInv, TypeOK
  <2>2. b # f
    BY <1>9, <2>1 DEF Finish
  <2>3. \A m \in Nodes \ {f} : state'[m] = st[m]
    BY <1>9 DEF Finish
  <2>4. state[b] = "ACTIVATED"
    BY <1>1, <1>9, <2>2, <2>3
  <2>5. \A m \in Downstream[event.from] : Father[m] = f
    BY <2>1, DownstreamSiblings DEF ChildrenOf
  <2>6. ASSUME f \in Children, Father[f] = b PROVE state'[f] = st[f]
    <3>1. f # Root
      BY <2>6 DEF Children
    <3> QED BY <1>9, <2>6, <3>1 DEF Finish, ToFather, NoEvent
  <2>7. \A n \in Children : Father[n] = b => state[n] \in Over
    BY <1>2, <1>9, <2>2, <2>3, <2>5, <2>6
  <2> QED BY <1>3, <2>2, <2>4, <2>7
<1>10. ~ OnLastFinished
  <2> SUFFICES ASSUME OnLastFinished PROVE FALSE
    OBVIOUS
  <2> QED BY <1>1, <1>9 DEF OnLastFinished
<1>11. ~ OnFailed
  <2> SUFFICES ASSUME OnFailed PROVE FALSE
    OBVIOUS
  <2> DEFINE st == FailedAfter(state, event.from)
  <2>1. event.from \in Nodes
    BY EventFather DEF OnFailed
  <2>2. st \in [Nodes -> State]
    BY <1>1, <2>1, FailedType
  <2>3. \A m \in Nodes : st[m] = state[m] \/ (m \in Downstream[event.from] /\ st[m] = "FAILED")
    BY DEF FailedAfter
  <2>4. /\ event.kind = "ABORT"
        /\ \/ AllFinished(st, Father[event.from]) /\ Finish(st, Father[event.from])
           \/ ~ AllFinished(st, Father[event.from]) /\ state' = st
    BY DEF OnFailed
  <2> HIDE DEF st
  <2> QED BY <1>9, <2>2, <2>3, <2>4
<1>12. ~ OnFinished
  <2> SUFFICES ASSUME OnFinished PROVE FALSE
    OBVIOUS
  <2> DEFINE k == event.from
  <2>1. /\ k \in Children /\ \A l \in gate : l[1] # k
        /\ Reached(k) \in SUBSET Nodes /\ state' = Updated(state, Reached(k))
    BY EventFather, KindIsAnEvent, ReachedNodes DEF OnFinished, IInv, EventTrue, TypeOK
  <2>2. CASE b \in Reached(k)
    <3>1. PICK m \in Opened(k) : b \in Entered[m]
      BY <2>2 DEF Reached
    <3>2. /\ m \in Children /\ m \in Nodes \ InitiallyDisabled /\ ~ GateReady(gate, m)
          /\ Entered[m] \subseteq Reached(k)
      BY <2>1, <3>1, Graph DEF Opened, Successors, Precursors, GateReady, Reached
    <3> QED BY <1>5, <2>1, <3>1, <3>2
  <2>3. CASE b \notin Reached(k)
    <3>1. Heard
      BY <1>4, <2>1, <2>3
    <3>2. AllFinished(state, b)
      BY <1>1, <1>2, <2>1, UpdatedNotOver DEF AllFinished, ChildrenOf, Over
    <3> QED BY <3>1, <3>2 DEF OnFinished
  <2> QED BY <2>2, <2>3
<1>13. ASSUME NEW x \in Invalid PROVE ~ OnFinishedThrows(x)
  <2> SUFFICES ASSUME OnFinishedThrows(x) PROVE FALSE
    OBVIOUS
  <2> DEFINE k == event.from
  <2>1. /\ k \in Children /\ \A l \in gate : l[1] # k
        /\ event.kind = "FINISH" /\ ~ AllFinished(state, Father[k])
    BY EventFather, KindIsAnEvent DEF OnFinishedThrows, IInv, EventTrue, TypeOK
  <2>0. Reached(k) \in SUBSET Nodes
    BY <2>1, ReachedNodes
  <2>2. /\ Father[k] \in Blocs /\ state'[Father[k]] = "FAILED"
        /\ x \in Reached(k) /\ event' = ToFather(Father[k], "ABORT")
        /\ \A m \in Downstream[k] : state'[m] = "FAILED" /\ Father[m] = Father[k]
    BY <2>1, ThrowsStates, DownstreamSiblings DEF ChildrenOf
  <2>3. b # Father[k] /\ b \notin Downstream[k]
    BY <2>2
  <2>4. PICK P \in SUBSET Reached(k) :
          /\ \A m \in Nodes \ ({x, Father[k]} \cup Downstream[k]) : state'[m] = Updated(state, P)[m]
          /\ \A y \in P \cup {x} : y \notin Downstream[k] => InLost(y)'
          /\ \A y \in P \cup {x} : y \in Children /\ Father[y] \in Reached(k) => Father[y] \in P
    BY ThrowsVisited
  <2>5. P \in SUBSET Nodes /\ b \notin P /\ x \in Elem
    <3>1. \A y \in P : y \notin Downstream[k] => InLost(y)'
      BY <2>4
    <3>2. b \in P => InLost(b)'
      BY <2>3, <3>1
    <3>3. x \in Elem
      BY GraphAssumption
    <3>4. P \in SUBSET Nodes
      BY <2>0, <2>4
    <3> QED BY <3>2, <3>3, <3>4
  <2>6. state[b] = "ACTIVATED"
    BY <1>1, <2>3, <2>4, <2>5, UpdatedNode
  <2>7. x \in Children /\ Father[x] # b
    <3>1. PICK m \in Opened(k) : x \in Entered[m]
      BY <2>2 DEF Reached
    <3>2. m \in Children /\ m \in Nodes \ InitiallyDisabled /\ Father[m] = Father[k]
      BY <2>1, <3>1, Graph, GraphAssumption DEF Opened, Successors
    <3>3. x = m \/ Father[x] \in Reached(k)
      BY <3>1, <3>2, EnteredChain DEF Reached
    <3> QED BY <2>3, <2>4, <2>5, <3>2, <3>3, Graph
  <2>8. ASSUME NEW n \in Children, Father[n] = b PROVE state[n] \in Over
    <3>1. n \notin Downstream[k] /\ n # x
      BY <2>2, <2>3, <2>7, <2>8
    <3>2. n # Father[k]
      BY <2>2, <2>8 DEF ToFather, NoEvent, Children
    <3>3. state'[n] = Updated(state, P)[n]
      BY <1>2, <2>4, <2>8, <3>1, <3>2
    <3> QED BY <1>1, <1>2, <2>5, <2>8, <3>3, UpdatedNotOver
  <2> QED BY <1>3, <2>3, <2>6, <2>8
<1>14. ASSUME state' = state, event' = event PROVE FALSE
  BY <1>2, <1>3, <1>14
<1>15. ASSUME NEW k \in Elem, TaskCall(k) PROVE FALSE
  <2>1. k \in Children /\ k \in Nodes /\ k # b /\ event = NoEvent
    BY <1>1, <1>15, Graph DEF TaskCall, TaskStarted, TaskNotLoaded, Connected, CoupledAborted,
       Begin, Finished, Aborted
  <2>2. \A m \in Nodes \ {k} : state'[m] = state[m]
    BY <1>1, <1>15 DEF TaskCall, TaskStarted, TaskNotLoaded, Connected, CoupledAborted,
       Begin, Finished, Aborted, Notify
  <2>3. state'[k] \in Over => state[k] \in Over \/ (event' # NoEvent /\ event'.from = k
                                                   /\ event'.kind \in {"FINISH", "ABORT"})
    BY <1>1, <1>15, <2>1 DEF TaskCall, TaskStarted, TaskNotLoaded, Connected, ConnectedState,
       CoupledAborted, Begin, Finished, Aborted, Notify, NoEvent, Over
  <2>4. \A n \in Children : Father[n] = b => state[n] \in Over
    BY <1>2, <2>1, <2>2, <2>3
  <2> QED BY <1>1, <1>3, <2>1, <2>2, <2>4
<1> QED BY <1>6, <1>7, <1>8, <1>10, <1>11, <1>12, <1>13, <1>14, <1>15
        DEF Next, UpdateStateFrom, GetNextTasks, DropTasks, vars

LEMMA LiveKept ==
  ASSUME IInv, [Next]_vars, ~ StartThrew, CoupledTogether, BlocsHaveWork, LinksOpen, LoadOpen,
         LiveInv
  PROVE  LiveInv'
<1>1. EnclosedInv'
  BY EnclosedKept DEF LiveInv, TaskParts
<1>2. TaskParts'
  BY TaskPartsKept DEF LiveInv
<1>3. EntryInv' /\ EndInv' /\ DoneInv'
  BY EntryKept, EndKept, DoneKept DEF LiveInv, EnclosedInv
<1> QED BY <1>1, <1>2, <1>3 DEF LiveInv

LEMMA InitLive ==
  ASSUME Init
  PROVE  LiveInv
<1>1. \A n \in Nodes : state[n] = IF n \in InitiallyDisabled THEN "DISABLED" ELSE "READY"
  BY DEF Init
<1>2. gate = {} /\ event = NoEvent /\ tasks = {}
  BY DEF Init
<1>3. InitiallyDisabled \subseteq Nodes
  BY GraphAssumption, Graph DEF InitiallyDisabled, Downstream
<1>4. Elem \subseteq Nodes /\ Blocs \subseteq Nodes /\ Children \subseteq Nodes
      /\ \A n \in Children : Father[n] \in Blocs
  BY Graph
<1>5. EnclosedInv
  BY <1>1, <1>2, <1>3, <1>4 DEF EnclosedInv, ClearInv, DisabledInv, DoneInside, ErrInside,
     FailBehind, FreshInv
<1>6. TaskParts
  BY <1>1, <1>2, <1>4 DEF TaskParts, TaskInv, UnsetInv, InternalInv, StartInv, KindInv, NoEvent
<1>7. EntryInv
  BY <1>1, <1>2, <1>4 DEF EntryInv, Cold, NoLife
<1>8. EndInv /\ DoneInv
  BY <1>1, <1>2, <1>4 DEF EndInv, DoneInv
<1> QED BY <1>5, <1>6, <1>7, <1>8 DEF LiveInv

\* No Bloc is inside itself: it hangs from the root.
LEMMA EnclosingSelf ==
  ASSUME NEW b \in Blocs
  PROVE  b \notin Enclosing[b]
<1> SUFFICES ASSUME b \in Enclosing[b] PROVE FALSE
  OBVIOUS
<1>1. b \in Nodes /\ b \in Children /\ Enclosing[b] \subseteq Blocs
  BY EnclosingRoot, Graph DEF Children, Nodes, Enclosing
<1> DEFINE C == {x \in Enclosing[b] : b \in Enclosing[x]}
<1>2. ASSUME NEW x \in C PROVE x \in Children /\ Father[x] \in C
  <2>1. x \in Children
    BY <1>1, EnclosingRoot, Graph DEF Children, Nodes
  <2>2. Father[x] \in Enclosing[b] /\ (b = Father[x] \/ b \in Enclosing[Father[x]])
    BY <1>1, <2>1, EnclosingStep, EnclosingTransitive
  <2> QED BY <2>1, <2>2
<1>3. C \in SUBSET Blocs /\ b \in C
  BY <1>1
<1>4. Enclosing[b] \subseteq C
  BY <1>1, <1>2, <1>3 DEF Enclosing
<1> QED BY <1>1, <1>4, EnclosingRoot, TreeAssumption

\* A Bloc that goes on, as do those around it.
Live(b) == b \in Blocs /\ \A e \in {b} \cup Enclosing[b] : state[e] = "ACTIVATED"

\* When nothing runs nor waits to run, it goes on because of a Bloc in it.
LEMMA LiveDown ==
  ASSUME IsFiniteSet(Nodes), IInv, FailedInv, LiveInv, event = NoEvent, ReadyTasks = {},
         \A n \in Elem : state[n] # "ACTIVATED", NEW b, Live(b)
  PROVE  \E n \in Children : Father[n] = b /\ Live(n)
<1>1. b \in Blocs /\ b \in Nodes /\ state[b] = "ACTIVATED" /\ ~ InLost(b)
  BY Graph DEF Live, InLost, Lost
<1> DEFINE U == {n \in ChildrenOf(b) : state[n] \notin Over}
<1>2. U # {}
  BY <1>1 DEF LiveInv, EndInv, AllFinished, Over
<1>3. \A n \in U : n \in Children /\ n \in Nodes /\ Father[n] = b /\ state[n] \notin Over
  BY Graph DEF ChildrenOf
<1>4. PICK n \in U : \A m \in U : Downstream[n] \subseteq Downstream[m] => Downstream[n] = Downstream[m]
  <2> DEFINE F == {Downstream[n] : n \in U}
  <2>1. IsFiniteSet(Children)
    BY FS_Subset, Graph
  <2>2. \A m \in U : Downstream[m] \subseteq Children
    BY <1>3 DEF Downstream
  <2>3. F \in SUBSET SUBSET Children /\ F # {}
    BY <1>2, <2>2
  <2>4. \E X \in F : \A Y \in F : X \subseteq Y => X = Y
    <3> HIDE DEF F
    <3> QED BY <2>1, <2>3, MaximalSet
  <2> QED BY <2>4
<1>5. \A e \in Enclosing[n] : state[e] = "ACTIVATED"
  BY <1>3, EnclosingStep DEF Live
<1>6. n \notin InitiallyDisabled
  BY <1>3 DEF LiveInv, EnclosedInv, DisabledInv, Over
<1>7. ASSUME NEW p \in Precursors(n) PROVE <<p, n>> \in gate
  <2>1. /\ p \in Children /\ p \in Nodes /\ p \in ChildrenOf(b) /\ n \in Successors(p)
        /\ Father[p] = Father[n]
    BY <1>3, <1>7, Graph, GraphAssumption DEF Precursors, Successors, ChildrenOf
  <2>2. n \in Downstream[p] /\ Downstream[n] \subseteq Downstream[p]
    BY <2>1, SuccessorsDownstream, DownstreamTransitive
  <2>3. state[p] \in Over
    BY <1>3, <1>4, <2>1, <2>2, AcyclicAssumption
  <2>4. state[p] # "DISABLED"
    <3> SUFFICES ASSUME state[p] = "DISABLED" PROVE FALSE
      OBVIOUS
    <3>1. p \in InitiallyDisabled
      BY <2>1 DEF IInv, Parts, DisabledOld
    <3>2. p \in Disabled \/ \E d \in Disabled : p \in Downstream[d]
      BY <3>1 DEF InitiallyDisabled
    <3>3. \A d \in Disabled : p \in Downstream[d] => n \in Downstream[d]
      BY <2>2, DownstreamTransitive, GraphAssumption
    <3> QED BY <1>6, <2>2, <3>2, <3>3 DEF InitiallyDisabled
  <2>5. state[p] \notin {"ERROR", "FAILED"}
    BY <1>3, <2>1, <2>2 DEF FailedInv, Bad, Pending, NoEvent, Over
  <2>6. state[p] # "INTERNALERR"
    <3> SUFFICES ASSUME state[p] = "INTERNALERR" PROVE FALSE
      OBVIOUS
    <3>1. p \in Elem
      BY <2>1 DEF LiveInv, TaskParts, KindInv, Nodes
    <3>2. PICK e \in Enclosing[p] : Lost(e)
      BY <3>1 DEF LiveInv, TaskParts, InternalInv, InLost
    <3>3. Enclosing[p] = Enclosing[n]
      BY <1>3, <2>1, EnclosingFather
    <3> QED BY <1>5, <3>2, <3>3 DEF Lost
  <2>7. state[p] = "DONE"
    BY <2>3, <2>4, <2>5, <2>6 DEF Over
  <2> QED BY <1>3, <2>1, <2>7 DEF LiveInv, DoneInv, NoEvent
<1>8. state[n] # "READY"
  BY <1>1, <1>3, <1>6, <1>7 DEF GateReady, LiveInv, EntryInv, Cold
<1>9. state[n] \in State \ (Over \cup {"READY"})
  BY <1>3, <1>8 DEF IInv, TypeOK
<1>10. n \notin Elem
  BY <1>5, <1>9 DEF ReadyTasks, LiveInv, TaskParts, KindInv, State, Over
<1>11. state[n] = "ACTIVATED" /\ n \in Blocs
  BY <1>3, <1>9, <1>10 DEF LiveInv, TaskParts, KindInv, Over, Nodes
<1> QED BY <1>3, <1>5, <1>11 DEF Live

LEMMA NotStuck ==
  ASSUME IsFiniteSet(Nodes), IInv, FailedInv, LiveInv, event = NoEvent, ReadyTasks = {},
         \A n \in Elem : state[n] # "ACTIVATED", state[Root] # "READY"
  PROVE  IsFinished(Root)
<1> SUFFICES ASSUME ~ IsFinished(Root) PROVE FALSE
  OBVIOUS
<1> DEFINE F == {Enclosing[b] : b \in {x \in Blocs : Live(x)}}
<1>1. Live(Root)
  BY EnclosingRoot, Graph DEF IsFinished, Live, LiveInv, TaskParts, KindInv
<1>2. IsFiniteSet(Blocs) /\ F \in SUBSET SUBSET Blocs /\ F # {}
  <2>1. IsFiniteSet(Blocs)
    BY FS_Subset, Graph
  <2>2. \A x \in Blocs : Enclosing[x] \subseteq Blocs
    BY Graph DEF Enclosing
  <2> QED BY <1>1, <2>1, <2>2, Graph
<1>3. PICK X \in F : \A Y \in F : X \subseteq Y => X = Y
  <2> HIDE DEF F
  <2> QED BY <1>2, MaximalSet
<1>4. PICK b \in Blocs : Live(b) /\ X = Enclosing[b]
  BY <1>3
<1>5. PICK n \in Children : Father[n] = b /\ Live(n)
  BY <1>4, LiveDown
<1>6. Enclosing[n] = {b} \cup Enclosing[b] /\ Enclosing[n] \in F
  BY <1>5, EnclosingStep DEF Live
<1> QED BY <1>3, <1>4, <1>6, EnclosingSelf

\* A schema stops only when its root is finished, unless it could not start:
\* with no event to handle, nothing running and nothing to run, nothing is
\* left of it.  Every Bloc that is entered must have something to run, and
\* the nodes joined by a stream must wait for the same ones.
THEOREM NoDeadEnds ==
  ASSUME IsFiniteSet(Nodes), CoupledTogether, BlocsHaveWork
  PROVE  Spec => []NoDeadEnd
<1> DEFINE J == StartThrew \/ LiveInv
<1>1. Spec => []IInv
  BY InitInv, StepInv, PTL DEF Spec
<1>2. Spec => [](LinksOpen /\ LoadOpen /\ FailedInv)
  BY FailuresHandled
<1>3. Init => J
  BY InitLive
<1>4. IInv /\ (LinksOpen /\ LoadOpen /\ FailedInv) /\ J /\ [Next]_vars => J'
  <2> SUFFICES ASSUME IInv, LinksOpen, LoadOpen, J, [Next]_vars PROVE J'
    OBVIOUS
  <2>1. unset' = unset
    BY DEF Next, vars, StartSchema, StartSchemaThrows, UpdateStateFrom, OnStartEvent,
       OnLastFinished, OnFinished, OnFinishedThrows, OnFailed, GetNextTasks, DropTasks, TaskCall,
       TaskStarted, TaskNotLoaded, Connected, CoupledAborted, Begin, Finished, Aborted
  <2>2. CASE StartThrew
    BY <2>1, <2>2 DEF StartThrew
  <2>3. CASE ~ StartThrew /\ LiveInv
    BY <2>3, LiveKept
  <2> QED BY <2>2, <2>3
<1>5. IInv /\ (LinksOpen /\ LoadOpen /\ FailedInv) /\ J => NoDeadEnd
  BY NotStuck DEF NoDeadEnd
<1> HIDE DEF J
<1>6. Spec => []J
  BY <1>1, <1>2, <1>3, <1>4, PTL DEF Spec
<1> QED BY <1>1, <1>2, <1>5, <1>6, PTL
=============================================================================
