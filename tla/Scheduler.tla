------------------------------ MODULE Scheduler ------------------------------
(***************************************************************************)
(* YACS: the tree of a schema (a Proc is a Bloc of Blocs and elementary    *)
(* nodes), its control gates and datastream links, and what the Scheduler  *)
(* and Task calls of the engine do to the states of the nodes.             *)
(*                                                                         *)
(* The actions are those calls.  ComposedNode::notifyFrom climbs the tree  *)
(* by calling updateStateFrom on one Bloc after the other while the        *)
(* caller holds _mutexForSchedulerUpdate: each of those calls is one step, *)
(* and `event' says which one comes next.  Spec lets a client issue the    *)
(* calls in every order an executor may; Executor.tla is the one the       *)
(* program has, and implements it.                                         *)
(***************************************************************************)
EXTENDS FiniteSets

CONSTANTS Elem,          \* elementary nodes
          Blocs,         \* Blocs, the root among them
          Root,          \* the schema
          Father,        \* Node::_father
          CtrlLinks,     \* control links, from an out gate to an in gate
          StreamLinks,   \* datastream links between elementary nodes
          Disabled,      \* nodes the user disabled before the run
          Invalid        \* elementary nodes some input of which may never be set

Nodes    == Elem \cup Blocs
Children == Nodes \ {Root}

\* Control links join nodes of one Bloc (ComposedNode::edAddCFLink).  So do
\* the datastream links of the schemas modelled: nodes that must run together
\* become ready together.
ASSUME GraphAssumption ==
  /\ Elem \cap Blocs = {}
  /\ Root \in Blocs
  /\ Father \in [Children -> Blocs]
  /\ CtrlLinks \subseteq {l \in Children \X Children : Father[l[1]] = Father[l[2]]}
  /\ StreamLinks \subseteq {l \in Elem \X Elem : Father[l[1]] = Father[l[2]]}
  /\ Disabled \subseteq Children
  /\ Invalid \subseteq Elem

State == {"READY", "TOLOAD", "LOADED", "TOACTIVATE", "ACTIVATED", "DONE",
          "ERROR", "FAILED", "DISABLED", "INTERNALERR"}

ChildrenOf(b)   == {n \in Children : Father[n] = b}
Precursors(n)   == {m \in Children : <<m, n>> \in CtrlLinks}
Successors(n)   == {m \in Children : <<n, m>> \in CtrlLinks}
Coupled(n)      == {m \in Elem : <<n, m>> \in StreamLinks \/ <<m, n>> \in StreamLinks}

\* What exNotifyFailed and exNotifyDisabled reach, gate after gate.
Downstream == [n \in Nodes |->
  {m \in Children : \A S \in SUBSET Children :
     (Successors(n) \subseteq S /\ \A x \in S : Successors(x) \subseteq S) => m \in S}]

\* The nodes of the Blocs around a node, the node excluded.
Enclosing == [n \in Nodes |->
  {b \in Blocs : \A S \in SUBSET Blocs :
     ((n \in Children => Father[n] \in S)
        /\ \A x \in S \ {Root} : Father[x] \in S) => b \in S}]

\* getCoupledNodes: the nodes a node feeds, directly or not, and itself.
CoupledSet == [n \in Elem |->
  {m \in Elem : \A S \in SUBSET Elem :
     (n \in S /\ \A x \in S : {y \in Elem : <<x, y>> \in StreamLinks} \subseteq S)
       => m \in S}]

\* Control links make no cycle (Bloc::checkNoCyclePassingThrough), and every
\* node hangs from the root.
ASSUME AcyclicAssumption == \A n \in Children : n \notin Downstream[n]
ASSUME TreeAssumption    == \A n \in Children : Root \in Enclosing[n]

\* Node::init and exDisabledState: a disabled node disables what follows it.
InitiallyDisabled == Disabled \cup UNION {Downstream[n] : n \in Disabled}

\* What Bloc::exUpdateState reaches from a node: in a Bloc that is not
\* disabled, the children without precursors, and so on inside them.
Entry(b) == {n \in ChildrenOf(b) : Precursors(n) = {}}

Entered == [n \in Nodes |->
  {m \in Nodes \ InitiallyDisabled : \A S \in SUBSET (Nodes \ InitiallyDisabled) :
     (n \in S /\ \A b \in S \cap Blocs : Entry(b) \ InitiallyDisabled \subseteq S)
       => m \in S}]

VARIABLES state,     \* Node::_state
          gate,      \* control links whose flag is set in the in gate
          event,     \* the call of updateStateFrom that comes next, or NoEvent
          tasks,     \* Executor::_tasks, what getNextTasks returned
          unset      \* nodes some input of which is not set in this run

vars == <<state, gate, event, tasks, unset>>

NoEvent == [from |-> Root, kind |-> "NOEVENT"]
Event   == {NoEvent} \cup [from : Children, kind : {"START", "FINISH", "ABORT"}]

GateReady_Any(g, n) == Precursors(n) = {} \/ \E p \in Precursors(n) : <<p, n>> \in g

GateReady(g, n) == \A p \in Precursors(n) : <<p, n>> \in g

AllFinished_NotDisabled(st, b) == \A n \in ChildrenOf(b) :
  st[n] \in {"DONE", "FAILED", "ERROR", "INTERNALERR"}

AllFinished(st, b) == \A n \in ChildrenOf(b) :
  st[n] \in {"DONE", "FAILED", "DISABLED", "ERROR", "INTERNALERR"}

AllDone_Finished(st, b) == AllFinished(st, b)

AllDone(st, b) == \A n \in ChildrenOf(b) : st[n] \in {"DONE", "DISABLED"}

IsFinished(b) == state[b] \in {"DONE", "ERROR", "FAILED", "DISABLED"}

\* Bloc::getReadyTasks, from the root down.
ReadyTasks ==
  {n \in Elem : /\ state[n] \in {"TOACTIVATE", "TOLOAD"}
                /\ \A b \in Enclosing[n] : state[b] = "ACTIVATED"}

\* ensureLoading: a node goes to TOLOAD, and with it the READY nodes coupled
\* to it in either direction, and so on.
LoadedWith(st, S) ==
  {m \in Elem : \A T \in SUBSET Elem :
     (S \subseteq T /\ \A x \in T : {y \in Coupled(x) : st[y] = "READY"} \subseteq T)
       => m \in T}

-----------------------------------------------------------------------------
(* State changes shared by several calls                                   *)

\* exUpdateState on every node of W, none of them disabled or invalid.
Updated(st, W) ==
  LET toLoad == LoadedWith(st, {n \in W \cap Elem : st[n] = "READY"})
  IN  [n \in Nodes |->
        CASE n \in toLoad                                  -> "TOLOAD"
          [] n \in W \cap Elem /\ st[n] = "LOADED"         -> "TOACTIVATE"
          [] n \in W \cap Blocs /\ st[n] # "DONE"          -> "ACTIVATED"
          [] OTHER                                         -> st[n]]

\* Node::exForwardFailed
FailedAfter(st, n) == [m \in Nodes |-> IF m \in Downstream[n] THEN "FAILED" ELSE st[m]]

\* The nodes exUpdateState has visited when it throws on x.  The links are
\* visited in the order they were made, which is any order: Blocs around x
\* are visited on the way, the other Blocs entirely or not at all.
VisitedBefore(W, x) ==
  {P \in SUBSET (W \ ({x} \cup unset)) :
     /\ Enclosing[x] \cap W \subseteq P
     /\ \A m \in P : /\ (m \in Children /\ Father[m] \in W) => Father[m] \in P
                     /\ m \in Blocs \ Enclosing[x] => Entered[m] \subseteq P}

\* The event that goes on to the father of b, if b is not the root.
ToFather(b, kind) ==
  IF b = Root \/ kind = "NOEVENT" THEN NoEvent ELSE [from |-> b, kind |-> kind]

\* setState(DONE or FAILED) and what is returned when b has no more to run.
Finish(st, b) ==
  LET verdict == IF AllDone(st, b) THEN "DONE" ELSE "FAILED"
  IN  /\ state' = [st EXCEPT ![b] = verdict]
      /\ event' = ToFather(b, IF verdict = "DONE" THEN "FINISH" ELSE "ABORT")

\* A task changes its own state, then calls notifyFrom.
Notify(n, st, kind) ==
  /\ state' = [state EXCEPT ![n] = st]
  /\ event' = [from |-> n, kind |-> kind]

Init ==
  /\ state = [n \in Nodes |-> IF n \in InitiallyDisabled THEN "DISABLED" ELSE "READY"]
  /\ gate = {}
  /\ event = NoEvent
  /\ tasks = {}
  /\ unset \in SUBSET Invalid

-----------------------------------------------------------------------------
(* exUpdateState on the root, once init() is done                          *)

StartSchema ==
  /\ state[Root] = "READY" /\ event = NoEvent
  /\ Entered[Root] \cap unset = {}
  /\ state' = Updated(state, Entered[Root])
  /\ UNCHANGED <<gate, event, tasks, unset>>

\* It throws on an invalid node: the caller gives up.
StartSchemaThrows(x) ==
  /\ state[Root] = "READY" /\ event = NoEvent
  /\ x \in Entered[Root] \cap unset
  /\ \E P \in VisitedBefore(Entered[Root], x) :
       state' = [Updated(state, P) EXCEPT ![x] = "INTERNALERR"]
  /\ UNCHANGED <<gate, event, tasks, unset>>

-----------------------------------------------------------------------------
(* updateStateFrom on the father of the node the event comes from          *)

\* START: updateStateOnStartEventFrom
OnStartEvent ==
  /\ event.kind = "START"
  /\ LET b == Father[event.from]
     IN  /\ state' = [state EXCEPT ![b] = "ACTIVATED"]
         /\ event' = ToFather(b, "START")
  /\ UNCHANGED <<gate, tasks, unset>>

\* FINISH, when it was the last child: Bloc::updateStateOnFinishedEventFrom
OnLastFinished ==
  /\ event.kind = "FINISH"
  /\ AllFinished(state, Father[event.from])
  /\ Finish(state, Father[event.from])
  /\ UNCHANGED <<gate, tasks, unset>>

\* Successors whose gate is ready once n has finished, and all they enter.
Opened(n) == {m \in Successors(n) \ InitiallyDisabled :
                GateReady(gate \cup ({n} \X Successors(n)), m)}
Reached(n) == UNION {Entered[m] : m \in Opened(n)}

\* FINISH, with more to do: exForwardFinished opens the gates that follow.
OnFinished ==
  /\ event.kind = "FINISH"
  /\ ~ AllFinished(state, Father[event.from])
  /\ LET n == event.from
     IN  /\ Reached(n) \cap unset = {}
         /\ state' = Updated(state, Reached(n))
         /\ gate' = gate \cup ({n} \X Successors(n))
  /\ event' = NoEvent
  /\ UNCHANGED <<tasks, unset>>

\* ... and throws on an invalid node x: what follows n fails, the Bloc too.
OnFinishedThrows(x) ==
  /\ event.kind = "FINISH"
  /\ ~ AllFinished(state, Father[event.from])
  /\ LET n == event.from
         b == Father[n]
         W == Reached(n)
     IN  /\ x \in W \cap unset
         /\ \E P \in VisitedBefore(W, x), Q \in SUBSET Successors(n) :
              /\ (P \cup {x} \cup Enclosing[x]) \cap Successors(n) \subseteq Q
              /\ gate' = gate \cup ({n} \X Q)
              /\ state' = [FailedAfter([Updated(state, P) EXCEPT ![x] = "INTERNALERR"], n)
                             EXCEPT ![b] = "FAILED"]
         /\ event' = ToFather(b, "ABORT")
  /\ UNCHANGED <<tasks, unset>>

OnFailed_OnlySuccessors ==
  /\ event.kind = "ABORT"
  /\ LET n  == event.from
         b  == Father[n]
         st == [m \in Nodes |-> IF m \in Successors(n) THEN "FAILED" ELSE state[m]]
     IN  IF AllFinished(st, b) THEN Finish(st, b)
                               ELSE state' = st /\ event' = NoEvent
  /\ UNCHANGED <<gate, tasks, unset>>

\* ABORT: Bloc::updateStateOnFailedEventFrom
OnFailed ==
  /\ event.kind = "ABORT"
  /\ LET n  == event.from
         b  == Father[n]
         st == FailedAfter(state, n)
     IN  IF AllFinished(st, b) THEN Finish(st, b)
                               ELSE state' = st /\ event' = NoEvent
  /\ UNCHANGED <<gate, tasks, unset>>

UpdateStateFrom == \/ OnStartEvent
                   \/ OnLastFinished
                   \/ OnFinished
                   \/ \E x \in Invalid : OnFinishedThrows(x)
                   \/ OnFailed

-----------------------------------------------------------------------------
(* The calls of an executor on the schema and on the tasks it was given    *)

\* getNextTasks; the executor may keep only some of the tasks.
GetNextTasks(S) ==
  /\ event = NoEvent
  /\ S \subseteq ReadyTasks
  /\ tasks' = S
  /\ UNCHANGED <<state, gate, event, unset>>

\* setStepsToExecute, or the end of a round.
DropTasks(S) ==
  /\ tasks' = tasks \cap S
  /\ UNCHANGED <<state, gate, event, unset>>

\* loadTask and launchTasks read the state of a task without the mutex: when
\* they come to use it, a failure upstream or an exception may have changed it.
Seen(n) == n \in tasks /\ state[n] \in {"TOLOAD", "FAILED", "INTERNALERR"}

\* notifyFrom(START), before loading
TaskStarted(n) ==
  /\ event = NoEvent /\ Seen(n)
  /\ Notify(n, state[n], "START")
  /\ UNCHANGED <<gate, tasks, unset>>

\* aborted() and notifyFrom(ABORT), when loading or connecting fails
TaskNotLoaded(n) ==
  /\ event = NoEvent /\ Seen(n)
  /\ Notify(n, "ERROR", "ABORT")
  /\ UNCHANGED <<gate, tasks, unset>>

\* connected()
ConnectedState(n) ==
  IF GateReady(gate, n) /\ n \notin unset THEN "TOACTIVATE" ELSE "LOADED"

Connected(n) ==
  /\ event = NoEvent /\ Seen(n)
  /\ state' = [state EXCEPT ![n] = ConnectedState(n)]
  /\ UNCHANGED <<gate, event, tasks, unset>>

\* aborted() on the tasks coupled to one that could not be connected: an
\* executor connects all its tasks before it runs any.
CoupledAborted(n) ==
  /\ event = NoEvent
  /\ state[n] \notin {"ERROR", "DONE", "ACTIVATED"}
  /\ \E m \in tasks : /\ n # m /\ n \in CoupledSet[m]
                       /\ state[m] \in {"ERROR", "FAILED", "INTERNALERR"}
  /\ Notify(n, "ERROR", "ABORT")
  /\ UNCHANGED <<gate, tasks, unset>>

\* begin()
Begin(n) ==
  /\ event = NoEvent /\ n \in tasks
  /\ state[n] = "TOACTIVATE"
  /\ state' = [state EXCEPT ![n] = "ACTIVATED"]
  /\ UNCHANGED <<gate, event, tasks, unset>>

\* finished() and notifyFrom(FINISH)
Finished(n) ==
  /\ event = NoEvent /\ state[n] = "ACTIVATED"
  /\ Notify(n, "DONE", "FINISH")
  /\ UNCHANGED <<gate, tasks, unset>>

\* aborted() and notifyFrom(ABORT)
Aborted(n) ==
  /\ event = NoEvent /\ state[n] = "ACTIVATED"
  /\ Notify(n, "ERROR", "ABORT")
  /\ UNCHANGED <<gate, tasks, unset>>

TaskCall(n) == \/ TaskStarted(n) \/ TaskNotLoaded(n) \/ Connected(n)
               \/ CoupledAborted(n) \/ Begin(n) \/ Finished(n) \/ Aborted(n)

Next == \/ StartSchema
        \/ \E x \in Invalid : StartSchemaThrows(x)
        \/ UpdateStateFrom
        \/ \E S \in SUBSET Elem : GetNextTasks(S) \/ DropTasks(S)
        \/ \E n \in Elem : TaskCall(n)

Spec == Init /\ [][Next]_vars
-----------------------------------------------------------------------------
(* Properties                                                              *)

\* Every variable keeps to its type.
TypeOK ==
  /\ state \in [Nodes -> State]
  /\ gate \subseteq CtrlLinks
  /\ event \in Event
  /\ tasks \subseteq Elem
  /\ unset \subseteq Invalid

\* An elementary node runs, or has run, only when every node before it, and
\* before a Bloc it is in, is done: a control link means that the second node
\* is not executed until the first one is terminated.
RunsAfterPrecursors ==
  \A n \in Elem : state[n] \in {"ACTIVATED", "DONE"} =>
    \A m \in {n} \cup Enclosing[n] : \A p \in Precursors(m) : state[p] = "DONE"

\* A node that is done stays done: neither a late START event, nor a failure
\* upstream, nor a gate notified twice restarts or fails it; a running one is
\* left alone until its own task reports.
DoneIsForEver ==
  [][/\ \A n \in Nodes : state[n] = "DONE" => state'[n] = "DONE"
     /\ \A n \in Elem : state[n] = "ACTIVATED" => state'[n] \in {"ACTIVATED", "DONE", "ERROR"}]_vars

\* The schema is done only if every node it had to run is done.
RootDoneMeansAllDone ==
  state[Root] = "DONE" =>
    \A n \in Elem : \/ state[n] = "DONE"
                    \/ ({n} \cup Enclosing[n]) \cap InitiallyDisabled # {}

\* Once the events of a failure are handled, whatever follows the failed node,
\* or follows a Bloc that its failure failed, is in error too.
FailureReachesAll ==
  event = NoEvent =>
    \A n \in Children : state[n] \in {"ERROR", "FAILED"} =>
      \A m \in Downstream[n] : state[m] \in {"FAILED", "ERROR"}

\* The first exUpdateState throws.
StartThrew == Entered[Root] \cap unset # {}

\* Unless it could not start, a schema with no event to handle, nothing running
\* and nothing to run is finished: otherwise the executor would wait, then
\* give up.
NoDeadEnd ==
  (event = NoEvent /\ state[Root] # "READY" /\ ~ StartThrew /\ ReadyTasks = {}
     /\ \A n \in Elem : state[n] # "ACTIVATED") => IsFinished(Root)

\* What a schema needs for its failures to spread and for it to come to an end.
\* Nodes joined by a stream wait for the same nodes: they are loaded together,
\* and ensureLoading loads none before its gate is open.
CoupledTogether == \A n \in Elem : \A m \in Coupled(n) : Precursors(m) = Precursors(n)

\* A Bloc that is entered has something to run: if its children without
\* precursors are all disabled, none of them ever tells it so.
BlocsHaveWork == \A b \in Blocs \ InitiallyDisabled : Entry(b) \ InitiallyDisabled # {}

\* A Bloc is finished as soon as all its children are (the comment of
\* Bloc::isFinished).
FinishedWithItsChildren ==
  \A b \in Blocs :
    (event = NoEvent /\ state[b] # "READY" /\ AllFinished(state, b)) => IsFinished(b)
=============================================================================
