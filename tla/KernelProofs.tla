---------------------------- MODULE KernelProofs ----------------------------
(***************************************************************************)
(* Three components of the KERNEL and of the JOBMANAGER above it.          *)
(*                                                                         *)
(* The trace: its accounting holds for any number of tracing threads, any  *)
(* size of pool and any width of the positions, and when nothing is traced *)
(* once the trace closes, all of it is printed by then.  With one tracing  *)
(* thread the pool implements the queue of TraceQueue.                     *)
(*                                                                         *)
(* The launcher: for any number of jobs, clients, sessions and failures, a *)
(* launcher that handles its requests one after the other is the table its *)
(* clients know, and each of its sessions gives a job at most once to the  *)
(* batch system.  Then the list of jobs of the JOBMANAGER that calls it:   *)
(* no job is listed twice, and none leaves the list without its user being *)
(* told.                                                                   *)
(***************************************************************************)
EXTENDS TraceBuffer, Launcher, JobsManager, FiniteSetTheorems, SequenceTheorems, TLAPS
-----------------------------------------------------------------------------
(* The trace                                                               *)

\* One thread moving from a label to another changes the number of threads at
\* a set of labels by one at most, and in the obvious way.
LEMMA MoveCount ==
  ASSUME NEW S, IsFiniteSet(S), NEW f, NEW g, NEW t \in S, NEW L,
         \A x \in S \ {t} : g[x] = f[x]
  PROVE  LET before == Cardinality({x \in S : f[x] \in L})
             after  == Cardinality({x \in S : g[x] \in L})
         IN  /\ before \in Nat /\ after \in Nat
             /\ (f[t] \in L <=> g[t] \in L) => after = before
             /\ f[t] \notin L /\ g[t] \in L => after = before + 1
             /\ f[t] \in L /\ g[t] \notin L => before = after + 1
<1> DEFINE F == {x \in S : f[x] \in L}
           G == {x \in S : g[x] \in L}
<1>1. IsFiniteSet(F) /\ IsFiniteSet(G)
  BY FS_Subset
<1>2. Cardinality(F) \in Nat /\ Cardinality(G) \in Nat
  BY <1>1, FS_CardinalityType
<1>3. (f[t] \in L <=> g[t] \in L) => G = F
  OBVIOUS
<1>4. f[t] \notin L /\ g[t] \in L => G = F \cup {t} /\ t \notin F
  OBVIOUS
<1>5. f[t] \in L /\ g[t] \notin L => F = G \cup {t} /\ t \notin G
  OBVIOUS
<1>6. t \notin F => Cardinality(F \cup {t}) = Cardinality(F) + 1
  BY <1>1, FS_AddElement
<1>7. t \notin G => Cardinality(G \cup {t}) = Cardinality(G) + 1
  BY <1>1, FS_AddElement
<1> QED
  BY <1>2, <1>3, <1>4, <1>5, <1>6, <1>7

\* The threads at fewer labels are not more numerous; one at a label outside
\* leaves room for it.
LEMMA NumAtMonotone ==
  ASSUME IsFiniteSet(Threads), NEW K, NEW L, K \subseteq L
  PROVE  /\ NumAt(K) \in Nat /\ NumAt(L) \in Nat
         /\ NumAt(K) <= NumAt(L)
         /\ \A t \in Threads : pc[t] \in L \ K => NumAt(K) + 1 <= NumAt(L)
<1> DEFINE AtK == {t \in Threads : pc[t] \in K}
           AtL == {t \in Threads : pc[t] \in L}
<1>1. IsFiniteSet(AtK) /\ IsFiniteSet(AtL) /\ AtK \subseteq AtL
  BY FS_Subset
<1>2. Cardinality(AtK) \in Nat /\ Cardinality(AtL) \in Nat
  BY <1>1, FS_CardinalityType
<1>3. Cardinality(AtK) <= Cardinality(AtL)
  BY <1>1, FS_Subset
<1>4. ASSUME NEW t \in Threads, pc[t] \in L \ K
      PROVE  Cardinality(AtK) + 1 <= Cardinality(AtL)
  <2>1. t \notin AtK /\ AtK \cup {t} \subseteq AtL
    BY <1>1, <1>4
  <2>2. Cardinality(AtK \cup {t}) = Cardinality(AtK) + 1
    BY <1>1, <2>1, FS_AddElement
  <2>3. Cardinality(AtK \cup {t}) <= Cardinality(AtL)
    BY <1>1, <2>1, FS_Subset
  <2> QED
    BY <2>2, <2>3
<1> QED
  BY <1>2, <1>3, <1>4 DEF NumAt

LEMMA ThreadsFinite == IsFiniteSet(Threads)
  BY ConstantsAssumption, FS_AddElement DEF Threads

\* Unsigned subtraction undoes an increment as long as the difference does
\* not reach the width of the positions.
LEMMA MinusIncremented ==
  ASSUME NEW a \in Position, NEW b \in Position
  PROVE  /\ Minus(a, b) \in 0 .. PosMod - 1
         /\ Incremented(a) \in Position
         /\ Minus(a, b) < PosMod - 1 => Minus(Incremented(a), b) = Minus(a, b) + 1
         /\ Minus(a, b) > 0 => Minus(a, Incremented(b)) = Minus(a, b) - 1
  BY ConstantsAssumption DEF Minus, Incremented, Position

\* What a step does to the number of threads at some labels, when one thread
\* moves.
LEMMA GotoCount ==
  ASSUME TypeOK, NEW t \in Threads, NEW b \in Labels, Goto(t, b), NEW L
  PROVE  /\ NumAt(L) \in Nat /\ NumAt(L)' \in Nat
         /\ (pc[t] \in L <=> b \in L) => NumAt(L)' = NumAt(L)
         /\ pc[t] \notin L /\ b \in L => NumAt(L)' = NumAt(L) + 1
         /\ pc[t] \in L /\ b \notin L => NumAt(L) = NumAt(L)' + 1
<1>1. pc'[t] = b /\ \A x \in Threads \ {t} : pc'[x] = pc[x]
  BY DEF TypeOK, Goto
<1> QED
  BY <1>1, MoveCount, ThreadsFinite DEF NumAt

\* The accounting is inductive together with the types.
IInv == TypeOK /\ TokensConserved /\ ToCollectExact

LEMMA SlotOfPosition ==
  ASSUME NEW p \in Position
  PROVE  p % BufferSize \in Slot
  BY ConstantsAssumption DEF Position, Slot

\* Bounds the accounting gives before a step.
LEMMA RoomLeft ==
  ASSUME IInv
  PROVE  /\ \A t \in Threads : pc[t] = "claim" => toCollect < BufferSize
         /\ \A t \in Threads : pc[t] = "advance" => toCollect > 0
         /\ toCollect \in Nat
<1>1. /\ NumAt(ClaimedAt) \in Nat /\ NumAt(HoldingAt) \in Nat
      /\ NumAt(AdvancingAt) \in Nat /\ NumAt(RetrievingAt) \in Nat
      /\ NumAt(ClaimedAt) <= NumAt(HoldingAt)
      /\ NumAt(AdvancingAt) <= NumAt(RetrievingAt)
      /\ \A t \in Threads : pc[t] = "claim"
           => NumAt(ClaimedAt) + 1 <= NumAt(HoldingAt)
  <2>1. ClaimedAt \subseteq HoldingAt /\ AdvancingAt \subseteq RetrievingAt
        /\ "claim" \in HoldingAt \ ClaimedAt
    BY DEF ClaimedAt, HoldingAt, AdvancingAt, RetrievingAt
  <2> QED
    BY <2>1, ThreadsFinite, NumAtMonotone
<1>2. \A t \in Threads : pc[t] = "advance" => NumAt({}) + 1 <= NumAt(AdvancingAt)
  BY ThreadsFinite, NumAtMonotone DEF AdvancingAt
<1>3. NumAt({}) \in Nat
  BY ThreadsFinite, NumAtMonotone
<1>4. freeSem \in Nat /\ fullSem \in Nat /\ BufferSize \in Nat
  BY ConstantsAssumption DEF IInv, TypeOK
<1> QED
  BY <1>1, <1>2, <1>3, <1>4 DEF IInv, TokensConserved, ToCollectExact

LEMMA InitIInv == Init => IInv
<1> SUFFICES ASSUME Init PROVE IInv
  OBVIOUS
<1>1. TypeOK
  <2>1. NoMessage \in Message /\ Blank \in TraceInfo
    BY DEF NoMessage, Message, Kind, Number, Blank, TraceInfo
  <2>2. /\ 0 \in Position /\ PosMod - 1 \in Position
        /\ 0 \in 0 .. BufferSize /\ BufferSize \in 0 .. BufferSize
    BY ConstantsAssumption DEF Position
  <2>3. pc \in [Threads -> Labels]
    BY DEF Init, Labels
  <2>4. printed \in Seq(TraceInfo)
    BY DEF Init
  <2>5. /\ buffer \in [Slot -> TraceInfo] /\ aTrace \in TraceInfo
        /\ msg \in [Threads -> Message] /\ mypos \in [Threads -> Position]
    BY <2>1, <2>2 DEF Init
  <2>6. /\ position \in Number /\ threadToClose \in BOOLEAN
        /\ listMutex \in {NoThread, Closer, Collector}
        /\ insertPos \in Position /\ retrievePos \in Position
        /\ freeSem \in 0 .. BufferSize /\ fullSem \in 0 .. BufferSize
    BY <2>2 DEF Init, Number
  <2> QED
    BY <2>3, <2>4, <2>5, <2>6 DEF TypeOK
<1>2. ASSUME NEW L, L \subseteq HoldingAt \cup RetrievingAt PROVE NumAt(L) = 0
  <2>1. {t \in Threads : pc[t] \in L} = {}
    BY <1>2 DEF Init, HoldingAt, RetrievingAt
  <2> QED
    BY <2>1, FS_EmptySet DEF NumAt
<1>3. /\ NumAt(HoldingAt) = 0 /\ NumAt(RetrievingAt) = 0
      /\ NumAt(ClaimedAt) = 0 /\ NumAt(AdvancingAt) = 0
  BY <1>2 DEF HoldingAt, RetrievingAt, ClaimedAt, AdvancingAt
<1> QED
  BY <1>1, <1>3, ConstantsAssumption
     DEF IInv, Init, TokensConserved, ToCollectExact, toCollect, Minus

\* The steps that move one thread between labels that are counted nowhere,
\* or the same, and leave the semaphores and the positions alone.
LEMMA UncountedStep ==
  ASSUME IInv, TypeOK', NEW t \in Threads, NEW b \in Labels, Goto(t, b),
         UNCHANGED <<insertPos, retrievePos, freeSem, fullSem>>,
         pc[t] \in HoldingAt <=> b \in HoldingAt,
         pc[t] \in ClaimedAt <=> b \in ClaimedAt,
         pc[t] \in RetrievingAt <=> b \in RetrievingAt,
         pc[t] \in AdvancingAt <=> b \in AdvancingAt
  PROVE  IInv'
<1>1. /\ NumAt(HoldingAt)' = NumAt(HoldingAt)
      /\ NumAt(ClaimedAt)' = NumAt(ClaimedAt)
      /\ NumAt(RetrievingAt)' = NumAt(RetrievingAt)
      /\ NumAt(AdvancingAt)' = NumAt(AdvancingAt)
  BY GotoCount DEF IInv
<1> QED
  BY <1>1 DEF IInv, TokensConserved, ToCollectExact, toCollect

\* Every step keeps the accounting: one case per action.
LEMMA NextIInv == IInv /\ [Next]_vars => IInv'
<1> SUFFICES ASSUME IInv, [Next]_vars PROVE IInv'
  OBVIOUS
<1>k. Collector \in Threads /\ Closer \in Threads /\ Producers \subseteq Threads
  BY ConstantsAssumption DEF Threads
<1>n. TypeOK /\ TokensConserved /\ ToCollectExact
  BY DEF IInv
<1>v. /\ freeSem \in Nat /\ fullSem \in Nat /\ BufferSize \in Nat \ {0}
      /\ freeSem <= BufferSize /\ fullSem <= BufferSize
  BY <1>n, ConstantsAssumption DEF TypeOK
<1>1. ASSUME NEW t \in Producers, Trace(t) PROVE IInv'
  <2>1. PICK k \in Kinds : BeginInsert(t, k)
    BY <1>1 DEF Trace
  <2>2. Goto(t, "wait free") /\ t \in Threads
    BY <2>1, <1>k DEF BeginInsert
  <2>3. [number |-> position + 1, kind |-> k] \in Message /\ position + 1 \in Number
    BY <1>n, ConstantsAssumption DEF TypeOK, Message, Number, Kind
  <2>4. TypeOK'
    BY <1>1, <2>1, <2>2, <2>3, <1>n DEF TypeOK, Trace, BeginInsert, Goto, Labels
  <2> QED
    BY <1>1, <2>2, <2>4, <1>k, UncountedStep
       DEF Trace, Labels,
           HoldingAt, ClaimedAt, RetrievingAt, AdvancingAt
<1>2. ASSUME NEW t \in Threads, WaitFree(t) PROVE IInv'
  <2>1. Goto(t, "claim") /\ "claim" \in Labels
    BY <1>2 DEF WaitFree, Labels
  <2>2. TypeOK'
    <3>0. freeSem > 0
      BY <1>2 DEF WaitFree
    <3>1. freeSem - 1 \in 0 .. BufferSize
      BY <3>0, <1>v
    <3> QED
      BY <1>2, <2>1, <3>1, <1>n DEF TypeOK, WaitFree, Goto
  <2>3. /\ NumAt(HoldingAt)' = NumAt(HoldingAt) + 1
        /\ NumAt(ClaimedAt)' = NumAt(ClaimedAt)
        /\ NumAt(RetrievingAt)' = NumAt(RetrievingAt)
        /\ NumAt(AdvancingAt)' = NumAt(AdvancingAt)
        /\ NumAt(HoldingAt) \in Nat /\ NumAt(RetrievingAt) \in Nat
    BY <1>2, <2>1, <1>n, GotoCount
       DEF WaitFree,
           HoldingAt, ClaimedAt, RetrievingAt, AdvancingAt
  <2>4. /\ freeSem > 0 /\ freeSem' = freeSem - 1 /\ fullSem' = fullSem
        /\ toCollect' = toCollect
    BY <1>2 DEF WaitFree, toCollect
  <2>5. TokensConserved'
    BY <2>3, <2>4, <1>n, <1>v DEF TokensConserved
  <2>6. ToCollectExact'
    BY <2>3, <2>4, <1>n DEF ToCollectExact
  <2> QED
    BY <2>2, <2>5, <2>6 DEF IInv
<1>3. ASSUME NEW t \in Threads, Claim(t) PROVE IInv'
  <2>1. Goto(t, "fill text") /\ "fill text" \in Labels
    BY <1>3 DEF Claim, Labels
  <2>2. insertPos \in Position /\ retrievePos \in Position
    BY <1>n DEF TypeOK
  <2>3. Incremented(insertPos) \in Position
    BY <2>2, MinusIncremented
  <2>4. TypeOK'
    BY <1>3, <1>n, <2>3 DEF TypeOK, Claim, Goto, Labels
  <2>5. toCollect < BufferSize /\ toCollect \in Nat
    BY <1>3, RoomLeft DEF Claim
  <2>6. toCollect' = toCollect + 1
    <3>1. BufferSize \in Nat /\ PosMod \in Nat /\ BufferSize < PosMod
      BY ConstantsAssumption
    <3>2. toCollect < PosMod - 1
      BY <3>1, <2>5
    <3> QED
      BY <1>3, <2>2, <3>2, MinusIncremented DEF Claim, toCollect
  <2>7. /\ NumAt(HoldingAt)' = NumAt(HoldingAt)
        /\ NumAt(ClaimedAt)' = NumAt(ClaimedAt) + 1
        /\ NumAt(RetrievingAt)' = NumAt(RetrievingAt)
        /\ NumAt(AdvancingAt)' = NumAt(AdvancingAt)
        /\ NumAt(ClaimedAt) \in Nat /\ NumAt(AdvancingAt) \in Nat
    BY <1>3, <2>1, <1>n, GotoCount
       DEF Claim,
           HoldingAt, ClaimedAt, RetrievingAt, AdvancingAt
  <2>8. fullSem' = fullSem /\ freeSem' = freeSem
    BY <1>3 DEF Claim
  <2>9. TokensConserved'
    BY <2>7, <2>8, <1>n DEF TokensConserved
  <2>10. ToCollectExact'
    BY <2>5, <2>6, <2>7, <2>8, <1>n, <1>v DEF ToCollectExact
  <2> QED
    BY <2>4, <2>9, <2>10 DEF IInv
<1>4. ASSUME NEW t \in Threads, FillText(t) \/ FillMeta(t) PROVE IInv'
  <2>1. mypos[t] % BufferSize \in Slot
    BY <1>n, SlotOfPosition DEF TypeOK
  <2>2. CASE FillText(t)
    <3>1. Goto(t, "fill meta") /\ "fill meta" \in Labels
      BY <2>2 DEF FillText, Labels
    <3>2. msg[t].number \in Number
      BY <1>n DEF TypeOK, Message
    <3>3. buffer' \in [Slot -> TraceInfo]
      BY <2>2, <2>1, <3>2, <1>n DEF TypeOK, FillText, TraceInfo
    <3>4. TypeOK'
      BY <2>2, <3>1, <3>3, <1>n DEF TypeOK, FillText, Goto
    <3> QED
      BY <2>2, <3>1, <3>4, UncountedStep
         DEF FillText,
             HoldingAt, ClaimedAt, RetrievingAt, AdvancingAt
  <2>3. CASE FillMeta(t)
    <3>1. Goto(t, "post") /\ "post" \in Labels
      BY <2>3 DEF FillMeta, Labels
    <3>2. buffer' \in [Slot -> TraceInfo]
      BY <2>3, <2>1, <1>n DEF TypeOK, FillMeta, TraceInfo
    <3>3. TypeOK'
      BY <2>3, <3>1, <3>2, <1>n DEF TypeOK, FillMeta, Goto
    <3> QED
      BY <2>3, <3>1, <3>3, UncountedStep
         DEF FillMeta,
             HoldingAt, ClaimedAt, RetrievingAt, AdvancingAt
  <2> QED
    BY <1>4, <2>2, <2>3
<1>5. ASSUME NEW t \in Threads, Post(t) PROVE IInv'
  <2>1. PICK b \in {"exited", "join", "idle"} : Goto(t, b)
    BY <1>5 DEF Post
  <2>2. b \in Labels
    BY DEF Labels
  <2>3. /\ NumAt(HoldingAt) = NumAt(HoldingAt)' + 1
        /\ NumAt(ClaimedAt) = NumAt(ClaimedAt)' + 1
        /\ NumAt(RetrievingAt)' = NumAt(RetrievingAt)
        /\ NumAt(AdvancingAt)' = NumAt(AdvancingAt)
        /\ NumAt(HoldingAt)' \in Nat /\ NumAt(RetrievingAt) \in Nat
        /\ NumAt(ClaimedAt)' \in Nat /\ NumAt(AdvancingAt) \in Nat
    BY <1>5, <2>1, <2>2, <1>n, GotoCount
       DEF Post,
           HoldingAt, ClaimedAt, RetrievingAt, AdvancingAt
  <2>4. fullSem + 1 <= BufferSize
    BY <2>3, <1>n, <1>v DEF TokensConserved
  <2>5. TypeOK'
    <3>1. fullSem + 1 \in 0 .. BufferSize
      BY <2>4, <1>v
    <3> QED
      BY <1>5, <2>1, <2>2, <3>1, <1>n DEF TypeOK, Post, Goto
  <2> QED
    BY <1>5, <2>3, <2>5, <1>n, <1>v
       DEF IInv, TokensConserved, ToCollectExact, toCollect, Post
<1>6. CASE Test
  <2>1. PICK b \in {"ended", "wait full"} : Goto(Collector, b)
    BY <1>6 DEF Test
  <2>2. b \in Labels /\ b \notin HoldingAt /\ b \notin RetrievingAt
    BY DEF Labels, HoldingAt, RetrievingAt
  <2>3. TypeOK'
    BY <1>6, <2>1, <2>2, <1>n DEF TypeOK, Test, Goto
  <2> QED
    BY <1>6, <2>1, <2>2, <2>3, <1>k, UncountedStep
       DEF Test,
           HoldingAt, ClaimedAt, RetrievingAt, AdvancingAt
<1>7. CASE WaitFull
  <2>1. Goto(Collector, "advance") /\ "advance" \in Labels
    BY <1>7 DEF WaitFull, Labels
  <2>2. TypeOK'
    <3>0. fullSem > 0
      BY <1>7 DEF WaitFull
    <3>1. fullSem - 1 \in 0 .. BufferSize
      BY <3>0, <1>v
    <3> QED
      BY <1>7, <2>1, <3>1, <1>n DEF TypeOK, WaitFull, Goto
  <2>3. /\ NumAt(HoldingAt)' = NumAt(HoldingAt)
        /\ NumAt(ClaimedAt)' = NumAt(ClaimedAt)
        /\ NumAt(RetrievingAt)' = NumAt(RetrievingAt) + 1
        /\ NumAt(AdvancingAt)' = NumAt(AdvancingAt) + 1
        /\ NumAt(HoldingAt) \in Nat /\ NumAt(RetrievingAt) \in Nat
        /\ NumAt(ClaimedAt) \in Nat /\ NumAt(AdvancingAt) \in Nat
    BY <1>7, <2>1, <1>n, <1>k, GotoCount
       DEF WaitFull,
           HoldingAt, ClaimedAt, RetrievingAt, AdvancingAt
  <2>4. /\ fullSem > 0 /\ fullSem' = fullSem - 1 /\ freeSem' = freeSem
        /\ toCollect' = toCollect
    BY <1>7 DEF WaitFull, toCollect
  <2>5. TokensConserved'
    BY <2>3, <2>4, <1>n, <1>v DEF TokensConserved
  <2>6. ToCollectExact'
    BY <2>3, <2>4, <1>n, <1>v DEF ToCollectExact
  <2> QED
    BY <2>2, <2>5, <2>6 DEF IInv
<1>8. CASE Advance
  <2>1. Goto(Collector, "copy") /\ "copy" \in Labels
    BY <1>8 DEF Advance, Labels
  <2>2. insertPos \in Position /\ retrievePos \in Position
    BY <1>n DEF TypeOK
  <2>3. Incremented(retrievePos) \in Position
    BY <2>2, MinusIncremented
  <2>4. TypeOK'
    BY <1>8, <2>1, <1>n, <2>3, <1>k DEF TypeOK, Advance, Goto
  <2>5. toCollect > 0 /\ toCollect \in Nat
    BY <1>8, <1>k, RoomLeft DEF Advance
  <2>6. toCollect' = toCollect - 1
    BY <1>8, <2>2, <2>5, MinusIncremented DEF Advance, toCollect
  <2>7. /\ NumAt(HoldingAt)' = NumAt(HoldingAt)
        /\ NumAt(ClaimedAt)' = NumAt(ClaimedAt)
        /\ NumAt(RetrievingAt)' = NumAt(RetrievingAt)
        /\ NumAt(AdvancingAt) = NumAt(AdvancingAt)' + 1
        /\ NumAt(ClaimedAt) \in Nat /\ NumAt(AdvancingAt)' \in Nat
    BY <1>8, <2>1, <1>n, <1>k, GotoCount
       DEF Advance,
           HoldingAt, ClaimedAt, RetrievingAt, AdvancingAt
  <2> QED
    BY <1>8, <2>4, <2>5, <2>6, <2>7, <1>n, <1>v
       DEF IInv, TokensConserved, ToCollectExact, Advance
<1>9. CASE Copy
  <2>1. Goto(Collector, "release") /\ "release" \in Labels
    BY <1>9 DEF Copy, Labels
  <2>2. buffer[mypos[Collector] % BufferSize] \in TraceInfo
    BY <1>n, <1>k, SlotOfPosition DEF TypeOK
  <2>3. TypeOK'
    BY <1>9, <2>1, <2>2, <1>n DEF TypeOK, Copy, Goto
  <2> QED
    BY <1>9, <2>1, <2>3, <1>k, UncountedStep
       DEF Copy,
           HoldingAt, ClaimedAt, RetrievingAt, AdvancingAt
<1>10. CASE Release
  <2>1. Goto(Collector, "print") /\ "print" \in Labels
    BY <1>10 DEF Release, Labels
  <2>2. /\ NumAt(HoldingAt)' = NumAt(HoldingAt)
        /\ NumAt(ClaimedAt)' = NumAt(ClaimedAt)
        /\ NumAt(RetrievingAt) = NumAt(RetrievingAt)' + 1
        /\ NumAt(AdvancingAt)' = NumAt(AdvancingAt)
        /\ NumAt(HoldingAt) \in Nat /\ NumAt(RetrievingAt)' \in Nat
    BY <1>10, <2>1, <1>n, <1>k, GotoCount
       DEF Release,
           HoldingAt, ClaimedAt, RetrievingAt, AdvancingAt
  <2>3. freeSem + 1 <= BufferSize
    BY <2>2, <1>n, <1>v DEF TokensConserved
  <2>4. TypeOK'
    <3>1. freeSem + 1 \in 0 .. BufferSize
      BY <2>3, <1>v
    <3> QED
      BY <1>10, <2>1, <3>1, <1>n DEF TypeOK, Release, Goto
  <2> QED
    BY <1>10, <2>2, <2>4, <1>n, <1>v
       DEF IInv, TokensConserved, ToCollectExact, toCollect, Release
<1>11. CASE PrintTrace
  <2>1. PICK b \in {"exit", "test"} : Goto(Collector, b)
    BY <1>11 DEF PrintTrace
  <2>2. b \in Labels /\ b \notin HoldingAt /\ b \notin RetrievingAt
    BY DEF Labels, HoldingAt, RetrievingAt
  <2>3. printed' \in Seq(TraceInfo)
    BY <1>11, <1>n DEF TypeOK, PrintTrace
  <2>4. TypeOK'
    BY <1>11, <2>1, <2>2, <2>3, <1>n DEF TypeOK, PrintTrace, Goto
  <2> QED
    BY <1>11, <2>1, <2>2, <2>4, <1>k, UncountedStep
       DEF PrintTrace,
           HoldingAt, ClaimedAt, RetrievingAt, AdvancingAt
<1>12. ASSUME NEW t \in {Closer, Collector}, pc[t] \in {"idle", "exit"},
              BeginInsert(t, "normal"), listMutex' = t, threadToClose' = TRUE,
              UNCHANGED <<insertPos, retrievePos, freeSem, fullSem, buffer,
                          mypos, aTrace, printed>>
       PROVE  IInv'
  <2>1. Goto(t, "wait free") /\ "wait free" \in Labels /\ t \in Threads
    BY <1>12, <1>k DEF BeginInsert, Labels
  <2>2. /\ [number |-> position + 1, kind |-> "normal"] \in Message
        /\ position + 1 \in Number
    BY <1>n DEF TypeOK, Message, Number, Kind
  <2>3. TypeOK'
    BY <1>12, <2>1, <2>2, <1>n DEF TypeOK, BeginInsert, Goto
  <2> QED
    BY <1>12, <2>1, <2>3, UncountedStep
       DEF HoldingAt, ClaimedAt, RetrievingAt, AdvancingAt
<1>13. CASE ExitProcess
  BY <1>12, <1>13 DEF ExitProcess
<1>14. CASE Close
  BY <1>12, <1>14 DEF Close
<1>15. CASE Join
  <2>1. Goto(Closer, "closed") /\ "closed" \in Labels
    BY <1>15 DEF Join, Labels
  <2>2. TypeOK'
    BY <1>15, <2>1, <1>n DEF TypeOK, Join, Goto
  <2> QED
    BY <1>15, <2>1, <2>2, <1>k, UncountedStep
       DEF Join,
           HoldingAt, ClaimedAt, RetrievingAt, AdvancingAt
<1>16. CASE UNCHANGED vars
  BY <1>16 DEF vars, IInv, TypeOK, TokensConserved, ToCollectExact, toCollect, NumAt
<1> QED
  BY <1>1, <1>2, <1>3, <1>4, <1>5, <1>6, <1>7, <1>8, <1>9, <1>10, <1>11,
     <1>13, <1>14, <1>15, <1>16, <1>k
     DEF Next, ThreadStep, CollectorStep, CloserStep, Terminating, Insert, Retrieve

\* The semaphores account for every buffer of the pool in every interleaving
\* of any number of tracing threads, the collector and the deletion.
THEOREM BuffersAccounted == Spec => []TokensConserved
<1>1. IInv => TokensConserved
  BY DEF IInv
<1> QED
  BY <1>1, InitIInv, NextIInv, PTL DEF Spec

\* toCollect() is exact and bounded by the pool, although it is read without
\* a lock and the positions wrap.
THEOREM CollectorCount == Spec => []ToCollectExact
<1>1. IInv => ToCollectExact
  BY DEF IInv
<1> QED
  BY <1>1, InitIInv, NextIInv, PTL DEF Spec

\* Neither semaphore passes the size of the pool, and the buffers always hold
\* well-formed messages.
THEOREM TraceTypes == Spec => []TypeOK
<1>1. IInv => TypeOK
  BY DEF IInv
<1> QED
  BY <1>1, InitIInv, NextIInv, PTL DEF Spec

-----------------------------------------------------------------------------
(* The end of the trace                                                    *)

\* Where a thread has a number for a message it has not put in the pool, and
\* where it has a message that is neither in the pool nor printed.
InsertingAt == {"wait free"} \cup HoldingAt
CarryingAt  == InsertingAt \cup RetrievingAt \cup {"print"}
OtherProducers      == Producers \ {Closer}

\* Every message that has a number is printed, in the pool, or in the hands of
\* one thread.
MessagesCounted == position = Len(printed) + fullSem + NumAt(CarryingAt)

\* Only one thread inserts once the workers are joined: the one that deletes
\* the pool, or the collector on its way out of exit(1).
WhoCloses ==
  /\ threadToClose <=> listMutex # NoThread
  /\ listMutex = Closer => /\ pc[Closer] \in InsertingAt \cup {"join"}
                           /\ \A p \in OtherProducers : pc[p] = "idle"
  /\ pc[Closer] = "closed" => /\ \A p \in OtherProducers : pc[p] = "idle"
                              /\ listMutex = NoThread /\ pc[Collector] = "ended"
  /\ pc[Closer] = "join" => listMutex = Closer
  /\ pc[Collector] \in InsertingAt \cup {"exited"} <=> listMutex = Collector

\* Once the collector has left its loop one message at most is to come or to
\* be left in the pool.
LastOneLeft ==
  pc[Collector] = "ended" => /\ listMutex = Closer \/ pc[Closer] = "closed"
                             /\ fullSem + NumAt(InsertingAt) <= 1

DrainInv == IInv /\ MessagesCounted /\ WhoCloses /\ LastOneLeft

LEMMA InitDrain == Init => DrainInv
<1> SUFFICES ASSUME Init PROVE DrainInv
  OBVIOUS
<1>1. \A t \in Threads : pc[t] \notin CarryingAt
  BY DEF Init, CarryingAt, InsertingAt, HoldingAt, RetrievingAt
<1>2. NumAt(CarryingAt) = 0
  <2>1. {t \in Threads : pc[t] \in CarryingAt} = {}
    BY <1>1
  <2> QED
    BY <2>1, FS_EmptySet DEF NumAt
<1>3. Collector \in Threads /\ Closer \in Threads /\ Closer # Collector
  BY ConstantsAssumption DEF Threads
<1>4. MessagesCounted
  BY <1>2 DEF Init, MessagesCounted
<1>5. WhoCloses
  BY <1>3, NoThreadAssumption
     DEF Init, WhoCloses, OtherProducers, InsertingAt, HoldingAt, Threads
<1>6. LastOneLeft
  BY <1>3 DEF Init, LastOneLeft
<1> QED
  BY <1>4, <1>5, <1>6, InitIInv DEF DrainInv

\* A message stays counted when a thread keeps it, takes its number, puts it in
\* the pool, takes it out, or prints it.
LEMMA CountedAfter ==
  ASSUME IInv, IInv', MessagesCounted, NEW t \in Threads, NEW b \in Labels, Goto(t, b),
         \/ /\ pc[t] \in CarryingAt <=> b \in CarryingAt
            /\ UNCHANGED <<position, printed, fullSem>>
         \/ /\ pc[t] \notin CarryingAt /\ b \in CarryingAt
            /\ position' = position + 1 /\ UNCHANGED <<printed, fullSem>>
         \/ /\ pc[t] \notin CarryingAt /\ b \in CarryingAt
            /\ fullSem' = fullSem - 1 /\ UNCHANGED <<printed, position>>
         \/ /\ pc[t] \in CarryingAt /\ b \notin CarryingAt
            /\ fullSem' = fullSem + 1 /\ UNCHANGED <<printed, position>>
         \/ /\ pc[t] \in CarryingAt /\ b \notin CarryingAt
            /\ printed' = Append(printed, aTrace) /\ UNCHANGED <<fullSem, position>>
  PROVE  MessagesCounted'
<1>1. TypeOK
  BY DEF IInv
<1>2. /\ NumAt(CarryingAt) \in Nat /\ NumAt(CarryingAt)' \in Nat
      /\ (pc[t] \in CarryingAt <=> b \in CarryingAt) => NumAt(CarryingAt)' = NumAt(CarryingAt)
      /\ pc[t] \notin CarryingAt /\ b \in CarryingAt
           => NumAt(CarryingAt)' = NumAt(CarryingAt) + 1
      /\ pc[t] \in CarryingAt /\ b \notin CarryingAt
           => NumAt(CarryingAt) = NumAt(CarryingAt)' + 1
  BY <1>1, GotoCount
<1>3. /\ position \in Nat /\ fullSem \in Nat /\ Len(printed) \in Nat
      /\ Len(Append(printed, aTrace)) = Len(printed) + 1
  BY <1>1 DEF TypeOK, Number
<1>4. MessagesCounted' <=> position' = Len(printed') + fullSem' + NumAt(CarryingAt)'
  BY DEF MessagesCounted
<1>5. position = Len(printed) + fullSem + NumAt(CarryingAt)
  BY DEF MessagesCounted
<1> QED
  BY <1>2, <1>3, <1>4, <1>5

\* Every step keeps the messages counted: one case per action.
LEMMA NextCounted ==
  ASSUME IInv, IInv', MessagesCounted, WhoCloses, Next
  PROVE  MessagesCounted'
<1> USE DEF CarryingAt, InsertingAt, HoldingAt, RetrievingAt, Labels
<1>k. Collector \in Threads /\ Closer \in Threads /\ Producers \subseteq Threads
  BY ConstantsAssumption DEF Threads
<1>1. ASSUME NEW t \in Producers, Trace(t) PROVE MessagesCounted'
  BY <1>1, <1>k, CountedAfter DEF Trace, BeginInsert
<1>2. ASSUME NEW t \in Threads, WaitFree(t) PROVE MessagesCounted'
  BY <1>2, CountedAfter DEF WaitFree
<1>3. ASSUME NEW t \in Threads, Claim(t) PROVE MessagesCounted'
  BY <1>3, CountedAfter DEF Claim
<1>4. ASSUME NEW t \in Threads, FillText(t) PROVE MessagesCounted'
  BY <1>4, CountedAfter DEF FillText
<1>5. ASSUME NEW t \in Threads, FillMeta(t) PROVE MessagesCounted'
  BY <1>5, CountedAfter DEF FillMeta
<1>6. ASSUME NEW t \in Threads, Post(t) PROVE MessagesCounted'
  <2>1. PICK b \in {"exited", "join", "idle"} : Goto(t, b)
    BY <1>6 DEF Post
  <2> QED
    BY <1>6, <2>1, CountedAfter DEF Post
<1>7. CASE Test
  <2>1. PICK b \in {"ended", "wait full"} : Goto(Collector, b)
    BY <1>7 DEF Test
  <2> QED
    BY <1>7, <1>k, <2>1, CountedAfter DEF Test
<1>8. CASE WaitFull
  BY <1>8, <1>k, CountedAfter DEF WaitFull
<1>9. CASE Advance
  BY <1>9, <1>k, CountedAfter DEF Advance
<1>10. CASE Copy
  BY <1>10, <1>k, CountedAfter DEF Copy
<1>11. CASE Release
  BY <1>11, <1>k, CountedAfter DEF Release
<1>12. CASE PrintTrace
  <2>1. PICK b \in {"exit", "test"} : Goto(Collector, b)
    BY <1>12 DEF PrintTrace
  <2> QED
    BY <1>12, <1>k, <2>1, CountedAfter DEF PrintTrace
<1>13. CASE ExitProcess
  BY <1>13, <1>k, CountedAfter DEF ExitProcess, BeginInsert
<1>14. CASE Close
  BY <1>14, <1>k, CountedAfter DEF Close, BeginInsert
<1>15. CASE Join
  BY <1>15, <1>k, CountedAfter DEF Join
<1>16. CASE UNCHANGED vars
  BY <1>16 DEF vars, MessagesCounted, NumAt
<1> QED
  BY <1>1, <1>2, <1>3, <1>4, <1>5, <1>6, <1>7, <1>8, <1>9, <1>10, <1>11, <1>12,
     <1>13, <1>14, <1>15, <1>16, <1>k
     DEF Next, ThreadStep, CollectorStep, CloserStep, Terminating, Insert, Retrieve

\* Once the workers are joined before the pool is deleted, nobody traces while
\* it is.
LEMMA NextWhoCloses ==
  ASSUME QuiescentClose, IInv, WhoCloses, LastOneLeft, Next
  PROVE  WhoCloses'
<1> USE DEF InsertingAt, HoldingAt, Labels, Goto, OtherProducers
<1>k. /\ Collector \in Threads /\ Closer \in Threads /\ Producers \subseteq Threads
      /\ Closer # Collector /\ Closer \in Producers /\ Collector \notin Producers
      /\ Closer # NoThread /\ Collector # NoThread
      /\ \A t \in Threads : t \in Producers \/ t = Collector
  BY ConstantsAssumption, NoThreadAssumption DEF Threads
<1>n. pc \in [Threads -> Labels] /\ listMutex \in {NoThread, Closer, Collector}
  BY DEF IInv, TypeOK
<1>1. ASSUME NEW t \in Producers, Trace(t) PROVE WhoCloses'
  BY <1>1, <1>k, <1>n DEF Trace, BeginInsert, WhoCloses
<1>2. ASSUME NEW t \in Threads, NEW a \in InsertingAt, NEW b \in InsertingAt,
             pc[t] = a, Goto(t, b), UNCHANGED <<listMutex, threadToClose>>
      PROVE  WhoCloses'
  <2>1. /\ pc'[t] = b /\ \A x \in Threads \ {t} : pc'[x] = pc[x]
        /\ a \notin {"idle", "closed", "join", "ended", "exited"}
        /\ b \notin {"idle", "closed", "join", "ended", "exited"}
    BY <1>2, <1>n
  <2>2. CASE t = Collector
    BY <1>2, <2>1, <2>2, <1>k DEF WhoCloses
  <2>3. CASE t = Closer
    BY <1>2, <2>1, <2>3, <1>k DEF WhoCloses
  <2>4. CASE t \in OtherProducers
    BY <1>2, <2>1, <2>4, <1>k DEF WhoCloses
  <2> QED
    BY <2>2, <2>3, <2>4, <1>k
<1>21. ASSUME NEW t \in Threads, WaitFree(t) \/ Claim(t) \/ FillText(t) \/ FillMeta(t)
       PROVE  WhoCloses'
  BY <1>2, <1>21 DEF WaitFree, Claim, FillText, FillMeta
<1>3. ASSUME NEW t \in Threads, Post(t) PROVE WhoCloses'
  <2> DEFINE b == CASE t = Collector                  -> "exited"
                    [] t = Closer /\ listMutex = Closer -> "join"
                    [] OTHER                           -> "idle"
  <2>1. /\ pc[t] = "post" /\ pc'[t] = b /\ \A x \in Threads \ {t} : pc'[x] = pc[x]
        /\ UNCHANGED <<listMutex, threadToClose>>
    BY <1>3, <1>n DEF Post
  <2>2. CASE t = Collector
    <3>1. b = "exited"
      BY <2>2, <1>k
    <3> QED
      BY <2>1, <2>2, <3>1, <1>k DEF WhoCloses
  <2>3. CASE t = Closer /\ listMutex = Closer
    <3>1. b = "join"
      BY <2>3, <1>k
    <3> QED
      BY <2>1, <2>3, <3>1, <1>k DEF WhoCloses
  <2>4. CASE t \in Producers /\ listMutex # t
    <3>0. t # Collector /\ ~ (t = Closer /\ listMutex = Closer)
      BY <2>4, <1>k
    <3>1. b = "idle"
      BY <3>0
    <3> QED
      BY <2>1, <2>4, <3>1, <1>k DEF WhoCloses
  <2> QED
    BY <2>1, <2>2, <2>3, <2>4, <1>k, <1>n DEF WhoCloses
<1>4. CASE Test
  BY <1>4, <1>k, <1>n DEF Test, WhoCloses
<1>5. ASSUME NEW a \in {"wait full", "advance", "copy", "release"},
             NEW b \in {"advance", "copy", "release", "print"},
             pc[Collector] = a, Goto(Collector, b), UNCHANGED <<listMutex, threadToClose>>
      PROVE  WhoCloses'
  BY <1>5, <1>k, <1>n DEF WhoCloses
<1>51. CASE WaitFull \/ Advance \/ Copy \/ Release
  BY <1>5, <1>51 DEF WaitFull, Advance, Copy, Release
<1>6. CASE PrintTrace
  BY <1>6, <1>k, <1>n DEF PrintTrace, WhoCloses
<1>7. CASE ExitProcess
  BY <1>7, <1>k, <1>n DEF ExitProcess, BeginInsert, WhoCloses
<1>8. CASE Close
  BY <1>8, <1>k, <1>n DEF Close, BeginInsert, WhoCloses
<1>9. CASE Join
  BY <1>9, <1>k, <1>n DEF Join, WhoCloses
<1>10. CASE UNCHANGED vars
  BY <1>10 DEF vars, WhoCloses
<1> QED
  BY <1>1, <1>21, <1>3, <1>4, <1>51, <1>6, <1>7, <1>8, <1>9, <1>10, <1>k
     DEF Next, ThreadStep, CollectorStep, CloserStep, Terminating, Insert, Retrieve

\* At most one thread inserts: its label says how many do.
LEMMA OneInserts ==
  ASSUME \A p \in OtherProducers : pc[p] = "idle", pc[Collector] \notin InsertingAt
  PROVE  NumAt(InsertingAt) \in {0, 1}
<1>1. {t \in Threads : pc[t] \in InsertingAt} \subseteq {Closer}
  BY DEF OtherProducers, Threads, InsertingAt, HoldingAt
<1>2. \/ {t \in Threads : pc[t] \in InsertingAt} = {}
      \/ {t \in Threads : pc[t] \in InsertingAt} = {Closer}
  BY <1>1
<1> QED
  BY <1>2, FS_EmptySet, FS_Singleton DEF NumAt

\* The collector leaves its loop when the pool is empty; the thread that
\* deletes it has one message to put there, and no other comes.
LEMMA NextLastOne ==
  ASSUME QuiescentClose, IInv, IInv', WhoCloses, LastOneLeft, Next
  PROVE  LastOneLeft'
<1>k. /\ Collector \in Threads /\ Closer \in Threads /\ Producers \subseteq Threads
      /\ Closer # Collector /\ Closer \in Producers /\ Collector \notin Producers
      /\ Closer # NoThread /\ Collector # NoThread
      /\ \A t \in Threads : t = Closer \/ t \in OtherProducers \/ t = Collector
  BY ConstantsAssumption, NoThreadAssumption DEF Threads, OtherProducers
<1>t. TypeOK
  BY DEF IInv
<1>n. /\ pc \in [Threads -> Labels] /\ listMutex \in {NoThread, Closer, Collector}
      /\ fullSem \in Nat
  BY <1>t DEF TypeOK
<1>b. InsertingAt \subseteq Labels \ {"idle", "join", "closed", "ended", "exited"}
      /\ {"idle", "join", "closed", "ended", "exited", "test"} \subseteq Labels
      /\ "idle" \notin InsertingAt /\ "join" \notin InsertingAt
      /\ "closed" \notin InsertingAt /\ "ended" \notin InsertingAt /\ "test" \notin InsertingAt
  BY DEF InsertingAt, HoldingAt, Labels
<1> SUFFICES ASSUME pc'[Collector] = "ended" PROVE LastOneLeft'
  BY DEF LastOneLeft
<1>1. CASE Test
  <2>1. Goto(Collector, "ended") /\ threadToClose /\ toCollect = 0
    BY <1>1, <1>k, <1>n DEF Test, Goto
  <2>2. listMutex = Closer /\ \A p \in OtherProducers : pc[p] = "idle"
    BY <1>1, <2>1, <1>n, <1>b DEF WhoCloses, Test
  <2>3. fullSem = 0
    <3>1. NumAt(ClaimedAt) \in Nat /\ NumAt(AdvancingAt) \in Nat
      BY ThreadsFinite, NumAtMonotone
    <3> QED
      BY <2>1, <3>1, <1>n DEF IInv, ToCollectExact, AdvancingAt
  <2>4. NumAt(InsertingAt) \in {0, 1}
    BY <1>1, <2>2, <1>b, OneInserts DEF Test
  <2>5. NumAt(InsertingAt)' = NumAt(InsertingAt) /\ UNCHANGED <<fullSem, listMutex>>
    <3>1. pc[Collector] = "test" /\ UNCHANGED <<fullSem, listMutex>>
      BY <1>1 DEF Test
    <3> QED
      BY <3>1, <2>1, <1>k, <1>t, <1>b, GotoCount
  <2> QED
    BY <2>2, <2>3, <2>4, <2>5 DEF LastOneLeft
<1>2. CASE pc[Collector] = "ended"
  <2>1. /\ listMutex = Closer \/ pc[Closer] = "closed"
        /\ fullSem + NumAt(InsertingAt) <= 1
        /\ listMutex # Collector
        /\ \A p \in OtherProducers : pc[p] = "idle"
    BY <1>2, <1>n, <1>b DEF LastOneLeft, WhoCloses
  <2>2. NumAt(InsertingAt) \in Nat /\ NumAt(InsertingAt)' \in Nat
    <3>1. \A S \in SUBSET Threads : Cardinality(S) \in Nat
      BY ThreadsFinite, FS_Subset, FS_CardinalityType
    <3> QED
      BY <3>1 DEF NumAt
  <2>3. ASSUME WaitFree(Closer) \/ Claim(Closer) \/ FillText(Closer) \/ FillMeta(Closer)
        PROVE  LastOneLeft'
    <3>1. PICK b \in InsertingAt : Goto(Closer, b)
      BY <2>3 DEF WaitFree, Claim, FillText, FillMeta, InsertingAt, HoldingAt
    <3>2. pc[Closer] \in InsertingAt /\ UNCHANGED <<fullSem, listMutex>>
      BY <2>3 DEF WaitFree, Claim, FillText, FillMeta, InsertingAt, HoldingAt
    <3>3. NumAt(InsertingAt)' = NumAt(InsertingAt)
      BY <3>1, <3>2, <1>k, <1>t, <1>b, GotoCount
    <3>4. pc[Closer] # "closed"
      BY <3>2, <1>b
    <3> QED
      BY <2>1, <3>2, <3>3, <3>4 DEF LastOneLeft
  <2>4. ASSUME Post(Closer) PROVE LastOneLeft'
    <3>1. pc[Closer] = "post" /\ listMutex = Closer /\ UNCHANGED listMutex
      BY <2>4, <2>1 DEF Post
    <3>2. Goto(Closer, "join") /\ fullSem' = fullSem + 1
      BY <2>4, <3>1, <1>k DEF Post
    <3>3. NumAt(InsertingAt) = NumAt(InsertingAt)' + 1
      <4>1. "post" \in InsertingAt
        BY DEF InsertingAt, HoldingAt
      <4> QED
        BY <3>1, <3>2, <4>1, <1>k, <1>t, <1>b, GotoCount
    <3> QED
      BY <2>1, <2>2, <3>1, <3>2, <3>3, <1>n DEF LastOneLeft
  <2>5. CASE Join
    <3>1. Goto(Closer, "closed") /\ pc[Closer] = "join" /\ fullSem' = fullSem
      BY <2>5 DEF Join
    <3>2. NumAt(InsertingAt)' = NumAt(InsertingAt)
      BY <3>1, <1>k, <1>t, <1>b, GotoCount
    <3>3. pc'[Closer] = "closed"
      BY <3>1, <1>k, <1>n DEF Goto
    <3> QED
      BY <2>1, <3>1, <3>2, <3>3 DEF LastOneLeft
  <2>6. CASE UNCHANGED vars
    BY <2>6, <1>2 DEF vars, LastOneLeft, NumAt
  <2>7. \A t \in Producers : ~ Trace(t)
    BY <2>1, <1>k DEF Trace, WhoCloses
  <2>8. \A t \in OtherProducers \cup {Collector} :
          ~ (WaitFree(t) \/ Claim(t) \/ FillText(t) \/ FillMeta(t) \/ Post(t))
    BY <2>1, <1>2, <1>k DEF WaitFree, Claim, FillText, FillMeta, Post
  <2>9. ~ Retrieve /\ ~ ExitProcess
    BY <1>2 DEF Retrieve, Test, WaitFull, Advance, Copy, Release, PrintTrace, ExitProcess
  <2>10. ~ Close
    BY <2>1, <1>k DEF Close
  <2> QED
    BY <2>3, <2>4, <2>5, <2>6, <2>7, <2>8, <2>9, <2>10, <1>k
       DEF Next, ThreadStep, CollectorStep, CloserStep, Terminating, Insert
<1>3. CASE pc[Collector] # "ended" /\ ~ Test
  <2>1. ASSUME NEW t \in Threads, NEW b \in Labels \ {"ended"}, Goto(t, b) PROVE FALSE
    BY <2>1, <1>3, <1>k, <1>n DEF Goto
  <2> USE DEF Labels
  <2>2. \A t \in Threads : ~ Trace(t) /\ ~ Insert(t)
    <3> SUFFICES ASSUME NEW t \in Threads, Trace(t) \/ Insert(t) PROVE FALSE
      OBVIOUS
    <3>1. CASE Trace(t) \/ WaitFree(t) \/ Claim(t) \/ FillText(t) \/ FillMeta(t)
      BY <3>1, <2>1 DEF Trace, BeginInsert, WaitFree, Claim, FillText, FillMeta
    <3>2. CASE Post(t)
      <4>1. PICK b \in {"exited", "join", "idle"} : Goto(t, b)
        BY <3>2 DEF Post
      <4> QED
        BY <4>1, <2>1
    <3> QED
      BY <3>1, <3>2 DEF Insert
  <2>3. ~ (WaitFull \/ Advance \/ Copy \/ Release \/ ExitProcess \/ Close \/ Join)
    BY <2>1, <1>k DEF WaitFull, Advance, Copy, Release, ExitProcess, Close, Join, BeginInsert
  <2>4. ~ PrintTrace
    <3> SUFFICES ASSUME PrintTrace PROVE FALSE
      OBVIOUS
    <3>1. PICK b \in {"exit", "test"} : Goto(Collector, b)
      BY DEF PrintTrace
    <3> QED
      BY <3>1, <2>1, <1>k
  <2>5. ~ UNCHANGED vars
    BY <1>3 DEF vars
  <2> QED
    BY <2>2, <2>3, <2>4, <2>5, <1>3, <1>k
       DEF Next, ThreadStep, CollectorStep, CloserStep, Terminating, Retrieve
<1> QED
  BY <1>1, <1>2, <1>3

\* If the workers are joined before the pool is deleted, as the program does,
\* nothing they traced is lost: when deleteInstance returns all is printed but
\* "end of trace", maybe.
THEOREM TraceDrained == QuiescentClose => (Spec => []DrainedBeforeClose)
<1> SUFFICES ASSUME QuiescentClose PROVE Spec => []DrainedBeforeClose
  OBVIOUS
<1>1. DrainInv /\ [Next]_vars => DrainInv'
  <2> SUFFICES ASSUME DrainInv, [Next]_vars PROVE DrainInv'
    OBVIOUS
  <2>1. IInv'
    BY NextIInv DEF DrainInv
  <2>2. CASE Next
    BY <2>1, <2>2, NextCounted, NextWhoCloses, NextLastOne DEF DrainInv
  <2>3. CASE UNCHANGED vars
    BY <2>1, <2>3 DEF vars, DrainInv, MessagesCounted, WhoCloses, LastOneLeft, NumAt
  <2> QED
    BY <2>2, <2>3
<1>2. DrainInv => DrainedBeforeClose
  <2> SUFFICES ASSUME DrainInv, pc[Closer] = "closed"
               PROVE  Len(printed) \in {position - 1, position}
    BY DEF DrainedBeforeClose
  <2>1. /\ \A p \in OtherProducers : pc[p] = "idle"
        /\ pc[Collector] = "ended"
    BY DEF DrainInv, WhoCloses
  <2>2. {t \in Threads : pc[t] \in CarryingAt} = {}
    BY <2>1 DEF Threads, OtherProducers, CarryingAt, InsertingAt, HoldingAt, RetrievingAt
  <2>3. NumAt(CarryingAt) = 0
    BY <2>2, FS_EmptySet DEF NumAt
  <2>4. NumAt(InsertingAt) \in Nat
    BY ThreadsFinite, NumAtMonotone
  <2>5. fullSem \in Nat /\ position \in Nat /\ Len(printed) \in Nat
    BY DEF DrainInv, IInv, TypeOK, Number
  <2>6. fullSem <= 1
    BY <2>1, <2>4, <2>5 DEF DrainInv, LastOneLeft
  <2> QED
    BY <2>3, <2>5, <2>6 DEF DrainInv, MessagesCounted
<1> QED
  BY <1>1, <1>2, InitDrain, PTL DEF Spec

-----------------------------------------------------------------------------
(* The trace as a queue, with one thread tracing                          *)

\* The slot i places after slot s, round the pool.
After(s, i) == IF s + i < BufferSize THEN s + i ELSE s + i - BufferSize

LEMMA Quotient ==
  ASSUME NEW x \in Nat
  PROVE  /\ x \div BufferSize \in Int /\ x % BufferSize \in 0 .. BufferSize - 1
         /\ x = BufferSize * (x \div BufferSize) + (x % BufferSize)
BY ConstantsAssumption

LEMMA Unique ==
  ASSUME NEW p \in Int, NEW q \in Int, NEW r \in 0 .. BufferSize - 1, NEW s \in 0 .. BufferSize - 1,
         BufferSize * p + r = BufferSize * q + s
  PROVE  r = s
<1>0. BufferSize \in Nat \ {0}
  BY ConstantsAssumption
<1>1. BufferSize * (p - q) = s - r
  BY <1>0
<1>2. CASE p - q >= 1
  <2>1. BufferSize * (p - q) >= BufferSize
    BY <1>0, <1>2
  <2> QED BY <1>0, <1>1, <2>1
<1>3. CASE p - q <= -1
  <2>1. BufferSize * (p - q) <= - BufferSize
    BY <1>0, <1>3
  <2> QED BY <1>0, <1>1, <2>1
<1>4. CASE p = q
  BY <1>0, <1>4
<1> QED BY <1>2, <1>3, <1>4

LEMMA SlotAfter ==
  ASSUME NEW x \in Nat, NEW i \in 0 .. BufferSize
  PROVE  (x + i) % BufferSize = After(x % BufferSize, i)
<1>0. BufferSize \in Nat \ {0}
  BY ConstantsAssumption
<1> DEFINE q == x \div BufferSize
           r == x % BufferSize
           u == (x + i) \div BufferSize
           v == (x + i) % BufferSize
<1>1. q \in Int /\ r \in 0 .. BufferSize - 1 /\ x = BufferSize * q + r
  BY Quotient
<1>2. u \in Int /\ v \in 0 .. BufferSize - 1 /\ x + i = BufferSize * u + v
  BY Quotient
<1> HIDE DEF q, r, u, v
<1>3. CASE r + i < BufferSize
  <2>1. BufferSize * q + (r + i) = BufferSize * u + v
    BY <1>0, <1>1, <1>2
  <2>2. r + i \in 0 .. BufferSize - 1
    BY <1>0, <1>1, <1>3
  <2>3. r + i = v
    BY <1>1, <1>2, <2>1, <2>2, Unique
  <2> QED BY <1>3, <2>3 DEF After, r, v
<1>4. CASE r + i >= BufferSize
  <2>1. BufferSize * (q + 1) = BufferSize * q + BufferSize
    BY <1>0, <1>1
  <2>2. BufferSize * (q + 1) + (r + i - BufferSize) = BufferSize * u + v
    BY <1>0, <1>1, <1>2, <2>1
  <2>3. r + i - BufferSize \in 0 .. BufferSize - 1 /\ q + 1 \in Int
    BY <1>0, <1>1, <1>4
  <2>4. r + i - BufferSize = v
    BY <1>2, <2>2, <2>3, Unique
  <2>5. ~ (r + i < BufferSize)
    BY <1>0, <1>1, <1>4
  <2> QED BY <2>4, <2>5 DEF After, r, v
<1> QED BY <1>0, <1>1, <1>3, <1>4

LEMMA NextSlot ==
  ASSUME NEW p \in Position
  PROVE  Incremented(p) % BufferSize = After(p % BufferSize, 1)
<1>0. /\ BufferSize \in Nat \ {0} /\ PosMod \in Nat /\ p \in Nat /\ PosMod % BufferSize = 0
      /\ p < PosMod
  BY ConstantsAssumption, PowerOfTwoAssumption DEF Position
<1>1. (p + 1) % BufferSize = After(p % BufferSize, 1)
  BY <1>0, SlotAfter
<1>2. 0 % BufferSize = 0
  BY <1>0
<1> QED BY <1>0, <1>1, <1>2 DEF Incremented

LEMMA AfterAfter ==
  ASSUME NEW s \in Slot, NEW i \in 0 .. BufferSize - 1
  PROVE  /\ After(s, i) \in Slot /\ After(s, i + 1) \in Slot
         /\ After(After(s, i), 1) = After(s, i + 1)
         /\ After(After(s, 1), i) = After(s, i + 1)
         /\ \A j \in 0 .. BufferSize : After(s, i) = After(s, j) /\ j # i =>
                                         j = BufferSize /\ i = 0
BY ConstantsAssumption DEF After, Slot

\* One thread traces, and no message that ends the process.
OneTracer == Producers = {Closer} /\ Kinds \subseteq {"normal"}

\* The messages of PendingQueue, one by one.
PendingLen == fullSem + (IF pc[Collector] \in {"advance", "copy"} THEN 1 ELSE 0)
PendingAt(i) == buffer[(retrievePos + (IF pc[Collector] = "copy" THEN i - 1 ELSE i)) % BufferSize]

\* Where the two threads are, and the number of the message that is inserted.
TwoThreads ==
  /\ pc[Collector] \in {"test", "wait full", "advance", "copy", "release", "print", "ended"}
  /\ pc[Closer] \in InsertingAt \cup {"idle", "join", "closed"}
  /\ position <= MaxMessages + 1
  /\ listMutex = NoThread /\ pc[Closer] # "closed" => position <= MaxMessages
  /\ pc[Closer] \in InsertingAt => msg[Closer].number = position
  /\ position = Len(Taken) + PendingLen + (IF pc[Closer] \in InsertingAt THEN 1 ELSE 0)

\* Nothing that the collector may print ends the process.
NormalOnes ==
  /\ msg[Closer].kind = "normal" /\ aTrace.meta.kind = "normal"
  /\ \A s \in Slot : buffer[s].meta.kind = "normal"

\* The positions the threads work at, and what has been written there.
Filling ==
  /\ pc[Closer] \in ClaimedAt => mypos[Closer] = insertPos
  /\ pc[Closer] \in {"fill meta", "post"} =>
       buffer[insertPos % BufferSize].trace = msg[Closer].number
  /\ pc[Closer] = "post" => buffer[insertPos % BufferSize].meta = msg[Closer]
  /\ pc[Collector] = "copy" => mypos[Collector] = retrievePos

\* The place the tracing thread comes to is as far from the place of the
\* collector as there are buffers to be retrieved, across the wrap of both.
Claimed   == IF pc[Closer] \in ClaimedAt THEN 1 ELSE 0
Advancing == IF pc[Collector] = "advance" THEN 1 ELSE 0
Ring == insertPos % BufferSize = After(retrievePos % BufferSize, fullSem + Claimed + Advancing)

FifoInv == IInv /\ TwoThreads /\ NormalOnes /\ Filling /\ Ring

\* With two threads the accounting is a sum of four terms.
LEMMA TwoCounts ==
  ASSUME OneTracer, TwoThreads, NEW L
  PROVE  NumAt(L) = (IF pc[Closer] \in L THEN 1 ELSE 0) + (IF pc[Collector] \in L THEN 1 ELSE 0)
<1> DEFINE S == {t \in Threads : pc[t] \in L}
<1>0. Closer # Collector /\ Threads = {Closer, Collector}
  BY ConstantsAssumption DEF OneTracer, Threads
<1>1. /\ Cardinality({Closer}) = 1 /\ Cardinality({Collector}) = 1 /\ Cardinality({}) = 0
      /\ Cardinality({Closer} \cup {Collector}) = 2
  <2>1. /\ IsFiniteSet({Closer}) /\ Cardinality({Closer}) = 1 /\ Cardinality({Collector}) = 1
        /\ Cardinality({}) = 0
    BY FS_Singleton, FS_EmptySet
  <2>2. Collector \notin {Closer}
    BY <1>0
  <2>3. Cardinality({Closer} \cup {Collector}) = Cardinality({Closer}) + 1
    BY <2>1, <2>2, FS_AddElement
  <2> QED BY <2>1, <2>3
<1>2. /\ pc[Closer] \in L /\ pc[Collector] \in L => S = {Closer} \cup {Collector}
      /\ pc[Closer] \in L /\ pc[Collector] \notin L => S = {Closer}
      /\ pc[Closer] \notin L /\ pc[Collector] \in L => S = {Collector}
      /\ pc[Closer] \notin L /\ pc[Collector] \notin L => S = {}
  BY <1>0
<1>3. NumAt(L) = Cardinality(S)
  BY DEF NumAt
<1> HIDE DEF S
<1> QED BY <1>1, <1>2, <1>3

LEMMA BufferRoom ==
  ASSUME OneTracer, FifoInv
  PROVE  /\ freeSem \in Nat /\ fullSem \in Nat /\ BufferSize \in Nat \ {0}
         /\ BufferSize = freeSem + fullSem + (IF pc[Closer] \in HoldingAt THEN 1 ELSE 0)
                                 + (IF pc[Collector] \in RetrievingAt THEN 1 ELSE 0)
<1>1. pc[Closer] \notin RetrievingAt /\ pc[Collector] \notin HoldingAt
  <2>1. /\ pc[Closer] \in InsertingAt \cup {"idle", "join", "closed"}
        /\ pc[Collector] \in {"test", "wait full", "advance", "copy", "release", "print", "ended"}
    BY DEF FifoInv, TwoThreads
  <2>2. pc[Closer] \notin RetrievingAt
    BY <2>1 DEF RetrievingAt, HoldingAt, InsertingAt
  <2>3. pc[Collector] \notin HoldingAt
    BY <2>1 DEF HoldingAt
  <2> QED BY <2>2, <2>3
<1>2. freeSem \in Nat /\ fullSem \in Nat /\ BufferSize \in Nat \ {0}
  BY ConstantsAssumption DEF FifoInv, IInv, TypeOK
<1>3. /\ NumAt(HoldingAt) = IF pc[Closer] \in HoldingAt THEN 1 ELSE 0
      /\ NumAt(RetrievingAt) = IF pc[Collector] \in RetrievingAt THEN 1 ELSE 0
  BY <1>1, TwoCounts DEF FifoInv
<1>4. freeSem + fullSem + NumAt(HoldingAt) + NumAt(RetrievingAt) = BufferSize
  BY DEF FifoInv, IInv, TokensConserved
<1> QED BY <1>2, <1>3, <1>4

\* The slots of the pending messages, and the one that is being filled.
LEMMA Slots ==
  ASSUME OneTracer, FifoInv
  PROVE  /\ retrievePos % BufferSize \in Slot /\ insertPos % BufferSize \in Slot
         /\ PendingLen \in 0 .. BufferSize
         /\ pc[Closer] \in ClaimedAt => PendingLen < BufferSize
         /\ \A i \in 1 .. PendingLen + 1 :
              LET skip == IF pc[Collector] = "copy" THEN i - 1 ELSE i
              IN  i <= BufferSize =>
                    /\ skip \in 0 .. BufferSize
                    /\ (retrievePos + skip) % BufferSize = After(retrievePos % BufferSize, skip)
                    /\ (retrievePos + skip) % BufferSize \in Slot
         /\ pc[Closer] \in ClaimedAt =>
              \A i \in 1 .. PendingLen + 1 :
                LET skip == IF pc[Collector] = "copy" THEN i - 1 ELSE i
                IN  (retrievePos + skip) % BufferSize = insertPos % BufferSize <=> i = PendingLen + 1
<1>0. /\ retrievePos \in Nat /\ retrievePos \in Position /\ insertPos \in Position
      /\ BufferSize \in Nat \ {0} /\ fullSem \in Nat /\ freeSem \in Nat
  <2>1. retrievePos \in Position /\ insertPos \in Position
    BY DEF FifoInv, IInv, TypeOK
  <2>2. \A p \in Position : p \in Nat
    BY ConstantsAssumption DEF Position
  <2> QED BY <2>1, <2>2, BufferRoom
<1>r. BufferSize = freeSem + fullSem + (IF pc[Closer] \in HoldingAt THEN 1 ELSE 0)
                                     + (IF pc[Collector] \in RetrievingAt THEN 1 ELSE 0)
  BY BufferRoom
<1>1. retrievePos % BufferSize \in Slot /\ insertPos % BufferSize \in Slot
  BY <1>0, SlotOfPosition
<1>2. PendingLen \in 0 .. BufferSize /\ (pc[Closer] \in ClaimedAt => PendingLen < BufferSize)
  BY <1>0, <1>r DEF PendingLen, ClaimedAt, RetrievingAt
<1>3. ASSUME NEW i \in 1 .. PendingLen + 1, i <= BufferSize
      PROVE  LET skip == IF pc[Collector] = "copy" THEN i - 1 ELSE i
             IN  /\ skip \in 0 .. BufferSize
                 /\ (retrievePos + skip) % BufferSize = After(retrievePos % BufferSize, skip)
                 /\ (retrievePos + skip) % BufferSize \in Slot
  <2> DEFINE skip == IF pc[Collector] = "copy" THEN i - 1 ELSE i
  <2>1. skip \in 0 .. BufferSize
    BY <1>0, <1>2, <1>3
  <2>2. (retrievePos + skip) % BufferSize = After(retrievePos % BufferSize, skip)
    BY <1>0, <2>1, SlotAfter
  <2>3. After(retrievePos % BufferSize, skip) \in Slot
    BY <1>0, <1>1, <2>1 DEF After, Slot
  <2> QED BY <2>1, <2>2, <2>3
<1>p. PendingLen \in Nat
  BY <1>0 DEF PendingLen
<1>4. ASSUME pc[Closer] \in ClaimedAt, NEW i \in 1 .. PendingLen + 1
      PROVE  LET skip == IF pc[Collector] = "copy" THEN i - 1 ELSE i
             IN  (retrievePos + skip) % BufferSize = insertPos % BufferSize <=> i = PendingLen + 1
  <2> DEFINE skip == IF pc[Collector] = "copy" THEN i - 1 ELSE i
             last == fullSem + 1 + Advancing
             s    == retrievePos % BufferSize
  <2>1. i <= BufferSize /\ PendingLen < BufferSize
    BY <1>0, <1>p, <1>2, <1>4
  <2>2. skip \in 0 .. BufferSize /\ (retrievePos + skip) % BufferSize = After(s, skip)
    BY <1>3, <2>1
  <2>3. insertPos % BufferSize = After(s, last)
    BY <1>4 DEF FifoInv, Ring, Claimed
  <2>4. skip = last <=> i = PendingLen + 1
    BY <1>0 DEF PendingLen, Advancing
  <2>5. last \in 1 .. BufferSize /\ skip <= last /\ (skip = 0 => last < BufferSize)
    BY <1>0, <1>4, <1>r, <2>1 DEF PendingLen, Advancing, ClaimedAt, RetrievingAt
  <2> HIDE DEF skip, last
  <2>6. After(s, skip) = After(s, last) => skip = last
    <3>1. skip < last => skip \in 0 .. BufferSize - 1 /\ last \in 0 .. BufferSize
      BY <1>0, <2>2, <2>5
    <3> QED BY <1>0, <1>1, <2>2, <2>5, <3>1, AfterAfter
  <2> QED BY <2>2, <2>3, <2>4, <2>6 DEF skip
<1> QED BY <1>1, <1>2, <1>3, <1>4

\* The queue is a sequence of messages, taken one by one.
LEMMA Pending ==
  ASSUME OneTracer, FifoInv
  PROVE  /\ PendingQueue \in Seq(TraceInfo) /\ Len(PendingQueue) = PendingLen
         /\ \A i \in 1 .. PendingLen : PendingQueue[i] = PendingAt(i)
<1>1. PendingLen \in Nat /\ PendingQueue = [i \in 1 .. PendingLen |-> PendingAt(i)]
  <2>1. fullSem \in Nat
    BY BufferRoom
  <2> QED BY <2>1 DEF PendingQueue, PendingLen, PendingAt
<1>2. \A i \in 1 .. PendingLen : PendingAt(i) \in TraceInfo
  <2> SUFFICES ASSUME NEW i \in 1 .. PendingLen PROVE PendingAt(i) \in TraceInfo
    OBVIOUS
  <2>1. i \in 1 .. PendingLen + 1 /\ i <= BufferSize
    BY <1>1, Slots, BufferRoom
  <2>2. (retrievePos + (IF pc[Collector] = "copy" THEN i - 1 ELSE i)) % BufferSize \in Slot
    BY <2>1, Slots
  <2>3. buffer \in [Slot -> TraceInfo]
    BY DEF FifoInv, IInv, TypeOK
  <2> QED BY <2>2, <2>3 DEF PendingAt
<1> HIDE DEF PendingLen, PendingAt, PendingQueue
<1> QED BY <1>1, <1>2

\* What a step does to the queue.
Whole(m, n) == m.trace = n /\ m.meta.number = n
PutNext(m)  == Queue!Put(m) /\ m \in Traced /\ Whole(m, Len(Taken) + Len(PendingQueue) + 1)
QueueStep   == \/ UNCHANGED <<PendingQueue, Taken>>
               \/ Queue!Get
               \/ \E m \in Traced : PutNext(m)

Same == UNCHANGED <<retrievePos, fullSem, buffer, aTrace, printed>> /\ pc'[Collector] = pc[Collector]

LEMMA SameQueue ==
  ASSUME Same
  PROVE  UNCHANGED <<PendingQueue, Taken, PendingLen, Advancing>>
BY DEF Same, PendingQueue, Taken, PendingLen, Advancing

LEMMA Typed ==
  ASSUME OneTracer, FifoInv
  PROVE  /\ TypeOK /\ Closer # Collector /\ Closer \in Threads /\ Collector \in Threads
         /\ DOMAIN pc = Threads /\ DOMAIN msg = Threads /\ DOMAIN mypos = Threads
         /\ DOMAIN buffer = Slot
         /\ insertPos % BufferSize \in Slot
         /\ Taken \in Seq(TraceInfo) /\ printed \in Seq(TraceInfo) /\ aTrace \in TraceInfo
<1>1. TypeOK
  BY DEF FifoInv, IInv
<1>2. Closer # Collector /\ Closer \in Threads /\ Collector \in Threads
  BY ConstantsAssumption DEF OneTracer, Threads
<1>3. insertPos % BufferSize \in Slot
  BY Slots
<1>4. printed \in Seq(TraceInfo) /\ aTrace \in TraceInfo
  BY <1>1 DEF TypeOK
<1>5. Taken \in Seq(TraceInfo)
  BY <1>4 DEF Taken
<1> QED BY <1>1, <1>2, <1>3, <1>4, <1>5 DEF TypeOK

Kept == TwoThreads' /\ NormalOnes' /\ Filling' /\ Ring' /\ QueueStep

\* The tracing thread asks for a buffer.
LEMMA KeptBegin ==
  ASSUME OneTracer, FifoInv, BeginInsert(Closer, "normal"), pc[Closer] = "idle",
         UNCHANGED <<insertPos, retrievePos, freeSem, fullSem, buffer, mypos, aTrace, printed>>,
         position' <= MaxMessages + 1,
         listMutex' = NoThread => position' <= MaxMessages
  PROVE  Kept
<1>1. /\ pc'[Closer] = "wait free" /\ pc'[Collector] = pc[Collector] /\ position' = position + 1
      /\ msg'[Closer] = [number |-> position + 1, kind |-> "normal"]
  BY Typed DEF BeginInsert, Goto
<1>2. UNCHANGED <<PendingQueue, Taken, PendingLen, Advancing>>
  BY <1>1, SameQueue DEF Same
<1>m. msg'[Closer].number = position' /\ msg'[Closer].kind = "normal"
  <2>1. msg' = [msg EXCEPT ![Closer] = [number |-> position + 1, kind |-> "normal"]]
    BY DEF BeginInsert
  <2>2. Closer \in DOMAIN msg
    BY Typed
  <2> QED BY <1>1, <2>1, <2>2
<1>4. Ring'
  <2>1. Claimed' = Claimed
    BY <1>1 DEF Claimed, ClaimedAt, HoldingAt
  <2> QED BY <1>2, <2>1 DEF FifoInv, Ring, After
<1>5. TwoThreads'
  <2>1. PendingLen \in Nat /\ Len(Taken) \in Nat
    BY Pending, Typed, Slots
  <2>2. pc[Closer] \notin InsertingAt /\ pc'[Closer] \in InsertingAt
    BY <1>1 DEF InsertingAt, HoldingAt
  <2>3. position = Len(Taken) + PendingLen
    <3>1. position = Len(Taken) + PendingLen + (IF pc[Closer] \in InsertingAt THEN 1 ELSE 0)
      BY DEF FifoInv, TwoThreads
    <3> QED BY <2>1, <2>2, <3>1
  <2>4. Taken' = Taken /\ PendingLen' = PendingLen
    BY <1>2
  <2>5. position' = Len(Taken') + PendingLen' + 1
    BY <1>1, <2>1, <2>3, <2>4
  <2>6. pc[Collector] \in {"test", "wait full", "advance", "copy", "release", "print", "ended"}
    BY DEF FifoInv, TwoThreads
  <2>7. msg'[Closer].number = position'
    BY <1>m
  <2> HIDE DEF PendingLen, Taken
  <2> QED BY <1>1, <2>2, <2>5, <2>6, <2>7 DEF TwoThreads
<1>6. Filling'
  <2>1. pc'[Closer] \notin ClaimedAt \cup {"fill meta", "post"}
    BY <1>1 DEF ClaimedAt, HoldingAt
  <2> QED BY <1>1, <2>1 DEF FifoInv, Filling
<1>7. NormalOnes'
  <2>1. msg'[Closer].kind = "normal"
    BY <1>m
  <2> QED BY <2>1 DEF FifoInv, NormalOnes
<1> QED BY <1>2, <1>4, <1>5, <1>6, <1>7 DEF Kept, QueueStep

\* A step of the tracing thread that touches neither the pool nor the number.
LEMMA KeptAside ==
  ASSUME OneTracer, FifoInv,
         UNCHANGED <<position, insertPos, retrievePos, fullSem, buffer, msg, mypos, aTrace, printed>>,
         pc'[Collector] = pc[Collector],
         pc'[Closer] \in InsertingAt <=> pc[Closer] \in InsertingAt,
         pc'[Closer] \in InsertingAt \cup {"idle", "join", "closed"},
         pc'[Closer] \notin ClaimedAt, pc[Closer] \notin ClaimedAt,
         listMutex' = NoThread /\ pc'[Closer] # "closed" => position <= MaxMessages
  PROVE  Kept
<1>1. UNCHANGED <<PendingQueue, Taken, PendingLen, Advancing>>
  BY SameQueue DEF Same
<1>2. Ring' /\ NormalOnes'
  BY <1>1 DEF FifoInv, Ring, Claimed, After, NormalOnes
<1>3. TwoThreads'
  BY <1>1 DEF FifoInv, TwoThreads
<1>4. Filling'
  BY DEF FifoInv, Filling, ClaimedAt, HoldingAt
<1> QED BY <1>1, <1>2, <1>3, <1>4 DEF Kept, QueueStep

LEMMA KeptClaim ==
  ASSUME OneTracer, FifoInv, Claim(Closer)
  PROVE  Kept
<1>1. /\ pc[Closer] = "claim" /\ pc'[Closer] = "fill text" /\ pc'[Collector] = pc[Collector]
      /\ mypos'[Closer] = insertPos' /\ mypos'[Collector] = mypos[Collector]
      /\ insertPos' = Incremented(insertPos)
  BY Typed DEF Claim, Goto
<1>2. UNCHANGED <<PendingQueue, Taken, PendingLen, Advancing>>
  BY <1>1, SameQueue DEF Same, Claim
<1>3. Ring'
  <2> DEFINE s == retrievePos % BufferSize
             i == fullSem + Advancing
  <2>1. insertPos % BufferSize = After(s, i) /\ Claimed = 0 /\ Claimed' = 1
    <3>1. Claimed = 0 /\ Claimed' = 1
      BY <1>1 DEF Claimed, ClaimedAt, HoldingAt
    <3>2. fullSem \in Nat /\ Advancing \in Nat
      BY BufferRoom DEF Advancing
    <3> QED BY <3>1, <3>2 DEF FifoInv, Ring
  <2>2. i \in 0 .. BufferSize - 1 /\ s \in Slot /\ fullSem + Claimed' + Advancing' = i + 1
    <3>1. s \in Slot
      BY Slots
    <3>2. i \in 0 .. BufferSize - 1
      <4>1. /\ BufferSize = freeSem + fullSem + 1 + (IF pc[Collector] \in RetrievingAt THEN 1 ELSE 0)
            /\ freeSem \in Nat /\ fullSem \in Nat /\ BufferSize \in Nat
        BY <1>1, BufferRoom DEF HoldingAt
      <4>2. pc[Collector] = "advance" => pc[Collector] \in RetrievingAt
        BY DEF RetrievingAt
      <4> QED BY <4>1, <4>2 DEF Advancing
    <3>3. fullSem \in Nat /\ Advancing \in Nat
      BY BufferRoom DEF Advancing
    <3> QED BY <1>2, <2>1, <3>1, <3>2, <3>3
  <2>3. insertPos' % BufferSize = After(insertPos % BufferSize, 1)
    BY <1>1, NextSlot, Typed DEF TypeOK
  <2>4. After(After(s, i), 1) = After(s, i + 1)
    BY <2>2, AfterAfter
  <2>5. fullSem' = fullSem /\ retrievePos' = retrievePos
    BY DEF Claim
  <2>6. insertPos' % BufferSize = After(s, i + 1)
    BY <2>1, <2>3, <2>4
  <2> HIDE DEF i, s
  <2>7. fullSem' + Claimed' + Advancing' = i + 1 /\ retrievePos' % BufferSize = s
    BY <2>2, <2>5 DEF s
  <2>8. After(s, i + 1)' = After(s, i + 1) /\ s' = s /\ i' = i
    BY <1>2, <2>5 DEF s, i, After
  <2> QED BY <2>6, <2>7, <2>8 DEF Ring, After
<1>4. TwoThreads'
  BY <1>1, <1>2 DEF FifoInv, TwoThreads, Claim, InsertingAt, HoldingAt
<1>5. Filling' /\ NormalOnes'
  BY <1>1 DEF FifoInv, Filling, NormalOnes, Claim
<1> QED BY <1>2, <1>3, <1>4, <1>5 DEF Kept, QueueStep

\* What is written where the tracing thread is changes nothing in the queue.
LEMMA WriteAside ==
  ASSUME OneTracer, FifoInv, pc[Closer] \in ClaimedAt,
         NEW b, buffer' = [buffer EXCEPT ![insertPos % BufferSize] = b],
         UNCHANGED <<retrievePos, fullSem, aTrace, printed>>, pc'[Collector] = pc[Collector]
  PROVE  UNCHANGED <<PendingQueue, Taken, PendingLen, Advancing>>
<1>1. PendingLen' = PendingLen /\ Advancing' = Advancing /\ Taken' = Taken
  BY DEF PendingLen, Advancing, Taken
<1>2. ASSUME NEW i \in 1 .. PendingLen PROVE PendingAt(i)' = PendingAt(i)
  <2> DEFINE skip == IF pc[Collector] = "copy" THEN i - 1 ELSE i
             slot == (retrievePos + skip) % BufferSize
  <2>1. PendingLen \in Nat /\ i \in 1 .. PendingLen + 1 /\ i <= BufferSize /\ i # PendingLen + 1
    BY Slots, BufferRoom
  <2>2. slot \in Slot /\ slot # insertPos % BufferSize
    BY <2>1, Slots
  <2>3. buffer'[slot] = buffer[slot]
    BY <2>2, Typed
  <2>4. PendingAt(i) = buffer[slot]
    BY DEF PendingAt
  <2>5. PendingAt(i)' = buffer'[slot]
    BY DEF PendingAt
  <2> QED BY <2>3, <2>4, <2>5
<1>3. PendingQueue = [i \in 1 .. PendingLen |-> PendingAt(i)]
  BY DEF PendingQueue, PendingLen, PendingAt
<1>4. PendingQueue' = [i \in 1 .. PendingLen' |-> PendingAt(i)']
  BY DEF PendingQueue, PendingLen, PendingAt
<1> HIDE DEF PendingQueue, PendingLen, PendingAt
<1> QED BY <1>1, <1>2, <1>3, <1>4

\* ... and keeps the invariant, if the buffer is filled as it should.
LEMMA KeptWrite ==
  ASSUME OneTracer, FifoInv, pc[Closer] \in ClaimedAt, pc'[Closer] \in {"fill meta", "post"},
         NEW b, buffer' = [buffer EXCEPT ![insertPos % BufferSize] = b],
         b.trace = msg[Closer].number, b.meta.kind = "normal",
         pc'[Closer] = "post" => b.meta = msg[Closer],
         UNCHANGED <<position, insertPos, retrievePos, fullSem, listMutex, msg, mypos, aTrace,
                     printed>>,
         pc'[Collector] = pc[Collector]
  PROVE  Kept
<1>1. UNCHANGED <<PendingQueue, Taken, PendingLen, Advancing>>
  BY WriteAside
<1>2. Claimed' = Claimed
  BY DEF Claimed, ClaimedAt, HoldingAt
<1>3. Ring'
  BY <1>1, <1>2 DEF FifoInv, Ring, After
<1>4. TwoThreads'
  <2>1. pc[Closer] \in InsertingAt /\ pc'[Closer] \in InsertingAt /\ pc[Closer] # "closed"
        /\ pc'[Closer] # "closed"
    BY DEF InsertingAt, ClaimedAt, HoldingAt
  <2> QED BY <1>1, <2>1 DEF FifoInv, TwoThreads
<1>5. buffer'[insertPos % BufferSize] = b
  BY Typed
<1>6. Filling'
  <2>1. mypos[Closer] = insertPos /\ (pc[Collector] = "copy" => mypos[Collector] = retrievePos)
    BY DEF FifoInv, Filling
  <2> QED BY <1>5, <2>1 DEF Filling
<1>7. NormalOnes'
  <2>1. \A s \in Slot : buffer'[s].meta.kind = "normal"
    BY <1>5, Typed DEF FifoInv, NormalOnes
  <2> QED BY <2>1 DEF FifoInv, NormalOnes
<1> QED BY <1>1, <1>3, <1>4, <1>6, <1>7 DEF Kept, QueueStep

LEMMA KeptFill ==
  ASSUME OneTracer, FifoInv, FillText(Closer) \/ FillMeta(Closer)
  PROVE  Kept
<1> DEFINE s == insertPos % BufferSize
           t == [buffer[s] EXCEPT !.trace = msg[Closer].number]
           m == [buffer[s] EXCEPT !.meta = msg[Closer]]
<1>1. pc[Closer] \in {"fill text", "fill meta"}
  BY DEF FillText, FillMeta
<1>2. pc[Closer] \in ClaimedAt
  BY <1>1 DEF ClaimedAt, HoldingAt
<1>3. mypos[Closer] = insertPos /\ s \in Slot /\ buffer[s] \in TraceInfo
  BY <1>2, Typed DEF FifoInv, Filling, TypeOK
<1>4. buffer[s].meta.kind = "normal" /\ msg[Closer].kind = "normal"
  BY <1>3 DEF FifoInv, NormalOnes
<1>5. CASE FillText(Closer)
  <2>1. pc'[Closer] = "fill meta" /\ pc'[Collector] = pc[Collector]
    BY <1>5, Typed DEF FillText, Goto
  <2>2. buffer' = [buffer EXCEPT ![s] = t]
    BY <1>3, <1>5 DEF FillText
  <2>3. t.trace = msg[Closer].number /\ t.meta.kind = "normal"
    BY <1>3, <1>4 DEF TraceInfo
  <2> HIDE DEF t
  <2>4. buffer' = [buffer EXCEPT ![insertPos % BufferSize] = t]
    BY <2>2
  <2> QED BY <1>2, <1>5, <2>1, <2>3, <2>4, KeptWrite DEF FillText
<1>6. CASE FillMeta(Closer)
  <2>1. pc[Closer] = "fill meta" /\ pc'[Closer] = "post" /\ pc'[Collector] = pc[Collector]
    BY <1>6, Typed DEF FillMeta, Goto
  <2>2. buffer' = [buffer EXCEPT ![s] = m]
    BY <1>3, <1>6 DEF FillMeta
  <2>3. m.trace = msg[Closer].number /\ m.meta = msg[Closer] /\ m.meta.kind = "normal"
    BY <1>3, <1>4, <2>1 DEF TraceInfo, FifoInv, Filling
  <2> HIDE DEF m
  <2>4. buffer' = [buffer EXCEPT ![insertPos % BufferSize] = m]
    BY <2>2
  <2> QED BY <1>2, <1>6, <2>1, <2>3, <2>4, KeptWrite DEF FillMeta
<1> QED BY <1>5, <1>6

LEMMA AppendedIs ==
  ASSUME NEW S, NEW s \in Seq(S), NEW n, n = Len(s), NEW m
  PROVE  Append(s, m) = [i \in 1 .. n + 1 |-> IF i <= n THEN s[i] ELSE m]
<1>1. s \in Seq(S \cup {m}) /\ m \in S \cup {m} /\ n \in Nat
  OBVIOUS
<1>2. Append(s, m) \in Seq(S \cup {m}) /\ Len(Append(s, m)) = n + 1
  BY <1>1
<1>3. \A i \in 1 .. n + 1 : Append(s, m)[i] = IF i <= n THEN s[i] ELSE m
  BY <1>1
<1>4. Append(s, m) = [i \in 1 .. n + 1 |-> Append(s, m)[i]]
  BY <1>1, <1>2, LenProperties
<1> QED BY <1>3, <1>4

\* The message that is posted is the next one.
LEMMA KeptPost ==
  ASSUME OneTracer, FifoInv, Post(Closer)
  PROVE  Kept
<1> DEFINE m == buffer[insertPos % BufferSize]
<1>1. /\ pc[Closer] = "post" /\ pc'[Closer] \in {"idle", "join"} /\ pc'[Collector] = pc[Collector]
      /\ fullSem' = fullSem + 1
      /\ UNCHANGED <<position, insertPos, retrievePos, buffer, listMutex, msg, mypos, aTrace, printed>>
  BY Typed DEF Post, Goto
<1>2. /\ pc[Closer] \in ClaimedAt /\ pc[Closer] \in InsertingAt
      /\ pc'[Closer] \notin ClaimedAt /\ pc'[Closer] \notin InsertingAt
  BY <1>1 DEF ClaimedAt, InsertingAt, HoldingAt
<1>3. /\ PendingLen \in Nat /\ PendingLen < BufferSize /\ fullSem \in Nat /\ BufferSize \in Nat
      /\ Len(Taken) \in Nat
  BY <1>2, Slots, BufferRoom, Typed
<1>4. /\ PendingLen' = PendingLen + 1 /\ Taken' = Taken /\ Advancing' = Advancing
      /\ Claimed = 1 /\ Claimed' = 0
  BY <1>1, <1>2, <1>3 DEF PendingLen, Taken, Advancing, Claimed
<1>5. \A i \in Int : PendingAt(i)' = PendingAt(i)
  BY <1>1 DEF PendingAt
<1>6. PendingAt(PendingLen + 1) = m
  <2>1. PendingLen + 1 \in 1 .. PendingLen + 1
    BY <1>3
  <2>2. (retrievePos + (IF pc[Collector] = "copy" THEN (PendingLen + 1) - 1 ELSE PendingLen + 1))
           % BufferSize = insertPos % BufferSize
    BY <1>2, <2>1, Slots
  <2> HIDE DEF PendingLen
  <2> QED BY <2>2 DEF PendingAt
<1>7. PendingQueue' = Append(PendingQueue, m)
  <2>1. PendingQueue' = [i \in 1 .. PendingLen' |-> PendingAt(i)']
    BY DEF PendingQueue, PendingLen, PendingAt
  <2>2. /\ PendingQueue \in Seq(TraceInfo) /\ Len(PendingQueue) = PendingLen
        /\ \A i \in 1 .. PendingLen : PendingQueue[i] = PendingAt(i)
    BY Pending
  <2>3. \A i \in 1 .. PendingLen + 1 : PendingAt(i)' = IF i <= PendingLen THEN PendingQueue[i] ELSE m
    <3> SUFFICES ASSUME NEW i \in 1 .. PendingLen + 1
                 PROVE  PendingAt(i)' = IF i <= PendingLen THEN PendingQueue[i] ELSE m
      OBVIOUS
    <3> HIDE DEF PendingQueue, PendingLen, PendingAt, m
    <3>1. PendingAt(i)' = PendingAt(i)
      BY <1>3, <1>5
    <3>2. CASE i <= PendingLen
      <4>1. i \in 1 .. PendingLen
        BY <1>3, <3>2
      <4> QED BY <2>2, <3>1, <3>2, <4>1
    <3>3. CASE i = PendingLen + 1
      BY <1>3, <1>6, <3>1, <3>3
    <3> QED BY <1>3, <3>2, <3>3
  <2> HIDE DEF PendingQueue, PendingLen, PendingAt, m
  <2>4. PendingQueue' = [i \in 1 .. PendingLen + 1 |-> IF i <= PendingLen THEN PendingQueue[i] ELSE m]
    BY <1>4, <2>1, <2>3
  <2>5. Append(PendingQueue, m) = [i \in 1 .. PendingLen + 1 |-> IF i <= PendingLen THEN PendingQueue[i] ELSE m]
    BY <1>3, <2>2, AppendedIs
  <2> QED BY <2>4, <2>5
<1>8. /\ m.trace = msg[Closer].number /\ m.meta = msg[Closer] /\ msg[Closer].kind = "normal"
      /\ msg[Closer].number = position /\ position = Len(Taken) + PendingLen + 1
      /\ position <= MaxMessages + 1
  BY <1>1, <1>2 DEF FifoInv, Filling, NormalOnes, TwoThreads
<1>9. m = [trace |-> position, meta |-> [number |-> position, kind |-> "normal"]]
  <2>1. m \in TraceInfo /\ msg[Closer] \in Message
    BY Typed DEF TypeOK
  <2>2. msg[Closer] = [number |-> position, kind |-> "normal"]
    BY <1>8, <2>1 DEF Message
  <2> QED BY <1>8, <2>1, <2>2 DEF TraceInfo
<1>10. m \in Traced
  <2>1. position \in 1 .. MaxMessages + 1 /\ "normal" \in Kind
    BY <1>3, <1>8, ConstantsAssumption DEF Kind
  <2> QED BY <1>9, <2>1 DEF Traced
<1>11. PutNext(m)
  <2>1. Queue!Put(m)
    BY <1>3, <1>4, <1>7, Pending DEF Queue!Put
  <2>2. Whole(m, Len(Taken) + Len(PendingQueue) + 1)
    BY <1>8, Pending DEF Whole
  <2> QED BY <1>10, <2>1, <2>2 DEF PutNext
<1>12. Ring'
  <2>1. fullSem' + Claimed' + Advancing' = fullSem + Claimed + Advancing
    BY <1>1, <1>3, <1>4 DEF Advancing
  <2> QED BY <1>1, <2>1 DEF FifoInv, Ring, After
<1>13. TwoThreads'
  <2>1. pc'[Collector] \in {"test", "wait full", "advance", "copy", "release", "print", "ended"}
    BY <1>1 DEF FifoInv, TwoThreads
  <2>2. listMutex = NoThread => position <= MaxMessages
    BY <1>1 DEF FifoInv, TwoThreads
  <2>3. position' = Len(Taken') + PendingLen'
    BY <1>1, <1>3, <1>4, <1>8
  <2> HIDE DEF PendingLen, Taken
  <2>4. Len(Taken') + PendingLen' \in Nat
    BY <1>3, <1>4
  <2>5. /\ pc'[Closer] \in InsertingAt \cup {"idle", "join", "closed"}
        /\ position' <= MaxMessages + 1
        /\ listMutex' = NoThread /\ pc'[Closer] # "closed" => position' <= MaxMessages
    BY <1>1, <1>8, <2>2
  <2>6. position' = Len(Taken') + PendingLen' + (IF pc'[Closer] \in InsertingAt THEN 1 ELSE 0)
    BY <1>2, <2>3, <2>4
  <2> QED BY <1>2, <2>1, <2>5, <2>6 DEF TwoThreads
<1>14. Filling' /\ NormalOnes'
  BY <1>1, <1>2 DEF FifoInv, Filling, NormalOnes
<1> HIDE DEF m
<1> QED BY <1>10, <1>11, <1>12, <1>13, <1>14 DEF Kept, QueueStep

LEMMA TailIs ==
  ASSUME NEW S, NEW s \in Seq(S), NEW n, n = Len(s), s # <<>>
  PROVE  Tail(s) = [i \in 1 .. n - 1 |-> s[i + 1]] /\ Head(s) = s[1]
<1>1. /\ Tail(s) \in Seq(S) /\ Len(Tail(s)) = n - 1 /\ n \in Nat
      /\ \A i \in 1 .. n - 1 : Tail(s)[i] = s[i + 1]
  BY HeadTailProperties
<1>2. Tail(s) = [i \in 1 .. n - 1 |-> Tail(s)[i]]
  BY <1>1, LenProperties
<1> QED BY <1>1, <1>2

\* The steps of the collector that leave the queue alone.
LEMMA KeptCollect ==
  ASSUME OneTracer, FifoInv,
         UNCHANGED <<position, insertPos, retrievePos, buffer, listMutex, msg, mypos, aTrace>>,
         pc'[Closer] = pc[Closer], pc'[Collector] # "copy",
         pc'[Collector] \in {"test", "wait full", "advance", "release", "print", "ended"},
         PendingQueue' = PendingQueue, Taken' = Taken, PendingLen' = PendingLen,
         fullSem' + Claimed + Advancing' = fullSem + Claimed + Advancing
  PROVE  Kept
<1>1. Claimed' = Claimed
  BY DEF Claimed
<1>2. Ring'
  BY <1>1 DEF FifoInv, Ring, After
<1>3. TwoThreads'
  BY DEF FifoInv, TwoThreads
<1>4. Filling' /\ NormalOnes'
  BY DEF FifoInv, Filling, NormalOnes
<1> QED BY <1>2, <1>3, <1>4 DEF Kept, QueueStep

LEMMA CollectorAt ==
  ASSUME OneTracer, FifoInv, NEW l, Goto(Collector, l)
  PROVE  /\ pc'[Collector] = l /\ pc'[Closer] = pc[Closer]
         /\ pc[Closer] \notin {"advance", "copy", "release", "print"}
<1>1. pc'[Collector] = l /\ pc'[Closer] = pc[Closer]
  BY Typed DEF Goto
<1>2. pc[Closer] \notin {"advance", "copy", "release", "print"}
  BY DEF FifoInv, TwoThreads, InsertingAt, HoldingAt
<1> QED BY <1>1, <1>2

LEMMA KeptTest == ASSUME OneTracer, FifoInv, Test PROVE Kept
<1>1. /\ pc[Collector] = "test" /\ pc'[Collector] \in {"ended", "wait full"}
      /\ pc'[Closer] = pc[Closer]
  BY CollectorAt DEF Test
<1>2. fullSem' = fullSem /\ fullSem \in Nat /\ Advancing = 0 /\ Advancing' = 0
  BY <1>1, BufferRoom DEF Test, Advancing
<1>3. PendingQueue' = PendingQueue /\ Taken' = Taken /\ PendingLen' = PendingLen
  BY <1>1 DEF Test, PendingQueue, Taken, PendingLen
<1> QED BY <1>1, <1>2, <1>3, KeptCollect DEF Test

LEMMA KeptWaitFull == ASSUME OneTracer, FifoInv, WaitFull PROVE Kept
<1>1. /\ pc[Collector] = "wait full" /\ pc'[Collector] = "advance"
      /\ pc'[Closer] = pc[Closer]
  BY CollectorAt DEF WaitFull
<1>2. /\ fullSem' = fullSem - 1 /\ fullSem \in Nat /\ fullSem' \in Nat
      /\ Advancing = 0 /\ Advancing' = 1
  <2>1. fullSem' = fullSem - 1 /\ fullSem \in Nat /\ fullSem > 0
    BY BufferRoom DEF WaitFull
  <2>2. Advancing = 0 /\ Advancing' = 1
    BY <1>1 DEF Advancing
  <2> QED BY <2>1, <2>2
<1>3. PendingLen' = PendingLen
  <2>1. PendingLen = fullSem + 0 /\ PendingLen' = fullSem' + 1
    BY <1>1 DEF PendingLen
  <2> QED BY <1>2, <2>1
<1>4. \A i \in 1 .. PendingLen : PendingAt(i)' = PendingAt(i)
  BY <1>1 DEF WaitFull, PendingAt
<1>5. PendingQueue' = PendingQueue /\ Taken' = Taken
  <2>1. PendingQueue = [i \in 1 .. PendingLen |-> PendingAt(i)]
    BY DEF PendingQueue, PendingLen, PendingAt
  <2>2. PendingQueue' = [i \in 1 .. PendingLen' |-> PendingAt(i)']
    BY DEF PendingQueue, PendingLen, PendingAt
  <2>3. Taken' = Taken
    BY <1>1 DEF WaitFull, Taken
  <2> HIDE DEF PendingQueue, PendingLen, PendingAt
  <2> QED BY <1>3, <1>4, <2>1, <2>2, <2>3
<1>6. fullSem' + Claimed + Advancing' = fullSem + Claimed + Advancing
  <2>1. Claimed \in Nat
    BY DEF Claimed
  <2> QED BY <1>2, <2>1
<1> QED BY <1>1, <1>2, <1>3, <1>5, <1>6, KeptCollect DEF WaitFull

LEMMA KeptRelease == ASSUME OneTracer, FifoInv, Release PROVE Kept
<1>1. /\ pc[Collector] = "release" /\ pc'[Collector] = "print"
      /\ pc'[Closer] = pc[Closer]
  BY CollectorAt DEF Release
<1>2. /\ fullSem' = fullSem /\ fullSem \in Nat /\ Advancing = 0 /\ Advancing' = 0
  BY <1>1, BufferRoom DEF Release, Advancing
<1>3. PendingQueue' = PendingQueue /\ Taken' = Taken /\ PendingLen' = PendingLen
  BY <1>1 DEF Release, PendingQueue, Taken, PendingLen
<1> QED BY <1>1, <1>2, <1>3, KeptCollect DEF Release

LEMMA KeptPrint == ASSUME OneTracer, FifoInv, PrintTrace PROVE Kept
<1>0. aTrace.meta.kind = "normal"
  BY DEF FifoInv, NormalOnes
<1>1. /\ pc[Collector] = "print" /\ pc'[Collector] = "test"
      /\ pc'[Closer] = pc[Closer]
  BY <1>0, CollectorAt DEF PrintTrace
<1>2. /\ fullSem' = fullSem /\ fullSem \in Nat /\ Advancing = 0 /\ Advancing' = 0
  BY <1>1, BufferRoom DEF PrintTrace, Advancing
<1>3. PendingQueue' = PendingQueue /\ Taken' = Taken /\ PendingLen' = PendingLen
  BY <1>1 DEF PrintTrace, PendingQueue, Taken, PendingLen
<1> QED BY <1>1, <1>2, <1>3, KeptCollect DEF PrintTrace

\* The collector goes on to the next buffer, which is still the first to take.
LEMMA KeptAdvance == ASSUME OneTracer, FifoInv, Advance PROVE Kept
<1> DEFINE s == retrievePos % BufferSize
<1>1. /\ pc[Collector] = "advance" /\ pc'[Collector] = "copy" /\ pc'[Closer] = pc[Closer]
      /\ retrievePos' = Incremented(retrievePos) /\ retrievePos \in Position
      /\ mypos'[Collector] = retrievePos' /\ mypos'[Closer] = mypos[Closer]
      /\ UNCHANGED <<position, insertPos, fullSem, buffer, listMutex, msg, aTrace, printed>>
  BY CollectorAt, Typed DEF Advance, TypeOK
<1>2. /\ PendingLen = fullSem + 1 /\ PendingLen' = PendingLen /\ Taken' = Taken
      /\ Advancing = 1 /\ Advancing' = 0 /\ Claimed' = Claimed /\ Claimed \in {0, 1}
      /\ Claimed = 1 => PendingLen < BufferSize
      /\ fullSem \in Nat /\ PendingLen \in 1 .. BufferSize /\ BufferSize \in Nat \ {0}
  BY <1>1, Slots, BufferRoom DEF PendingLen, Taken, Advancing, Claimed
<1>3. s \in Slot /\ retrievePos' % BufferSize = After(s, 1)
  BY <1>1, NextSlot, Slots
<1>4. retrievePos' \in Nat
  BY <1>1, ConstantsAssumption DEF Position, Incremented
<1>5. ASSUME NEW i \in 1 .. PendingLen PROVE PendingAt(i)' = PendingAt(i)
  <2>1. i - 1 \in 0 .. BufferSize - 1 /\ i - 1 \in 0 .. BufferSize /\ i \in 1 .. PendingLen + 1
        /\ i <= BufferSize
    BY <1>2
  <2>2. (retrievePos + i) % BufferSize = After(s, i)
    BY <1>1, <2>1, Slots
  <2>3. (retrievePos' + (i - 1)) % BufferSize = After(After(s, 1), i - 1)
    BY <1>3, <1>4, <2>1, SlotAfter
  <2>4. After(After(s, 1), i - 1) = After(s, i)
    <3>1. After(After(s, 1), i - 1) = After(s, (i - 1) + 1)
      BY <1>3, <2>1, AfterAfter
    <3>2. (i - 1) + 1 = i
      BY <2>1
    <3> QED BY <3>1, <3>2
  <2>5. PendingAt(i) = buffer[(retrievePos + i) % BufferSize]
    BY <1>1 DEF PendingAt
  <2>6. PendingAt(i)' = buffer'[(retrievePos' + (i - 1)) % BufferSize]
    BY <1>1 DEF PendingAt
  <2> QED BY <1>1, <2>2, <2>3, <2>4, <2>5, <2>6
<1>6. PendingQueue' = PendingQueue
  <2>1. PendingQueue = [i \in 1 .. PendingLen |-> PendingAt(i)]
    BY DEF PendingQueue, PendingLen, PendingAt
  <2>2. PendingQueue' = [i \in 1 .. PendingLen' |-> PendingAt(i)']
    BY DEF PendingQueue, PendingLen, PendingAt
  <2> HIDE DEF PendingQueue, PendingLen, PendingAt
  <2> QED BY <1>2, <1>5, <2>1, <2>2
<1>7. Ring'
  <2> DEFINE i == fullSem + Claimed
  <2>1. i \in 0 .. BufferSize - 1 /\ fullSem + Claimed + Advancing = i + 1
        /\ fullSem' + Claimed' + Advancing' = i
    BY <1>1, <1>2
  <2>2. insertPos % BufferSize = After(s, i + 1)
    BY <2>1 DEF FifoInv, Ring
  <2>3. After(After(s, 1), i) = After(s, i + 1)
    BY <1>3, <2>1, AfterAfter
  <2>4. insertPos' % BufferSize = After(retrievePos' % BufferSize, i)
    BY <1>1, <1>3, <2>2, <2>3
  <2> HIDE DEF i
  <2>5. insertPos' % BufferSize = After(retrievePos' % BufferSize, fullSem' + Claimed' + Advancing')
    BY <2>1, <2>4
  <2> QED BY <2>5 DEF Ring, After
<1>8. TwoThreads'
  BY <1>1, <1>2 DEF FifoInv, TwoThreads
<1>9. Filling' /\ NormalOnes'
  BY <1>1 DEF FifoInv, Filling, NormalOnes
<1> QED BY <1>2, <1>6, <1>7, <1>8, <1>9 DEF Kept, QueueStep

\* The collector takes the first message.
LEMMA KeptCopy == ASSUME OneTracer, FifoInv, Copy PROVE Kept
<1>1. /\ pc[Collector] = "copy" /\ pc'[Collector] = "release" /\ pc'[Closer] = pc[Closer]
      /\ aTrace' = buffer[mypos[Collector] % BufferSize]
      /\ UNCHANGED <<position, insertPos, retrievePos, fullSem, buffer, listMutex, msg, mypos, printed>>
  BY CollectorAt DEF Copy
<1>2. mypos[Collector] = retrievePos /\ retrievePos \in Nat
  <2>1. mypos[Collector] = retrievePos
    BY <1>1 DEF FifoInv, Filling
  <2>2. retrievePos \in Position
    BY Typed DEF TypeOK
  <2> QED BY <2>1, <2>2, ConstantsAssumption DEF Position
<1>3. /\ PendingLen = fullSem + 1 /\ PendingLen' = PendingLen - 1 /\ PendingLen' \in Nat
      /\ Advancing' = Advancing /\ Claimed' = Claimed
      /\ Taken = printed /\ Taken' = Append(printed, aTrace')
      /\ fullSem \in Nat /\ PendingLen \in 1 .. BufferSize /\ PendingLen \in Nat
  <2>1. fullSem \in Nat /\ BufferSize \in Nat /\ PendingLen \in 0 .. BufferSize
    BY Slots, BufferRoom
  <2>2. PendingLen = fullSem + 1 /\ PendingLen' = fullSem
    BY <1>1, <2>1 DEF PendingLen
  <2>3. Advancing' = Advancing /\ Claimed' = Claimed /\ Taken = printed /\ Taken' = Append(printed, aTrace')
    BY <1>1 DEF Advancing, Claimed, Taken
  <2> QED BY <2>1, <2>2, <2>3
<1>4. /\ PendingQueue \in Seq(TraceInfo) /\ Len(PendingQueue) = PendingLen
      /\ \A i \in 1 .. PendingLen : PendingQueue[i] = PendingAt(i)
  BY Pending
<1>5. PendingQueue # <<>>
  BY <1>3, <1>4
<1>6. /\ Tail(PendingQueue) = [i \in 1 .. PendingLen - 1 |-> PendingQueue[i + 1]]
      /\ Head(PendingQueue) = PendingQueue[1]
  BY <1>4, <1>5, TailIs
<1>7. aTrace' = Head(PendingQueue)
  <2>1. 1 \in 1 .. PendingLen
    BY <1>3
  <2>2. PendingAt(1) = buffer[(retrievePos + (1 - 1)) % BufferSize]
    BY <1>1 DEF PendingAt
  <2>3. retrievePos + (1 - 1) = retrievePos
    BY <1>2
  <2> QED BY <1>1, <1>2, <1>4, <1>6, <2>1, <2>2, <2>3
<1>8. \A i \in 1 .. PendingLen - 1 : PendingAt(i)' = PendingQueue[i + 1]
  <2> SUFFICES ASSUME NEW i \in 1 .. PendingLen - 1 PROVE PendingAt(i)' = PendingQueue[i + 1]
    OBVIOUS
  <2>1. i + 1 \in 1 .. PendingLen /\ (i + 1) - 1 = i
    BY <1>3
  <2>2. PendingAt(i + 1) = buffer[(retrievePos + ((i + 1) - 1)) % BufferSize]
    BY <1>1 DEF PendingAt
  <2>3. PendingAt(i)' = buffer'[(retrievePos' + i) % BufferSize]
    BY <1>1 DEF PendingAt
  <2> QED BY <1>1, <1>4, <2>1, <2>2, <2>3
<1>9. PendingQueue' = Tail(PendingQueue)
  <2>1. PendingQueue' = [i \in 1 .. PendingLen' |-> PendingAt(i)']
    BY DEF PendingQueue, PendingLen, PendingAt
  <2> HIDE DEF PendingQueue, PendingLen, PendingAt
  <2> QED BY <1>3, <1>6, <1>8, <2>1
<1>10. Queue!Get
  BY <1>3, <1>5, <1>7, <1>9 DEF Queue!Get
<1>11. Ring'
  BY <1>1, <1>3 DEF FifoInv, Ring, After
<1>12. TwoThreads'
  <2>1. Len(Taken') = Len(Taken) + 1 /\ Len(Taken) \in Nat
    <3>1. aTrace' \in TraceInfo
      BY <1>4, <1>5, <1>7, HeadTailProperties
    <3> QED BY <1>3, <3>1, Typed
  <2>2. Len(Taken') + PendingLen' = Len(Taken) + PendingLen
    BY <1>3, <2>1
  <2>3. position' = Len(Taken') + PendingLen' + (IF pc'[Closer] \in InsertingAt THEN 1 ELSE 0)
    BY <1>1, <2>2 DEF FifoInv, TwoThreads
  <2>4. /\ pc'[Collector] = "release" /\ pc'[Closer] \in InsertingAt \cup {"idle", "join", "closed"}
        /\ position' <= MaxMessages + 1
        /\ listMutex' = NoThread /\ pc'[Closer] # "closed" => position' <= MaxMessages
        /\ pc'[Closer] \in InsertingAt => msg'[Closer].number = position'
    BY <1>1 DEF FifoInv, TwoThreads
  <2> QED BY <2>3, <2>4 DEF TwoThreads
<1>13. Filling' /\ NormalOnes'
  <2>1. aTrace'.meta.kind = "normal"
    BY <1>1, <1>2, Slots DEF FifoInv, NormalOnes
  <2> QED BY <1>1, <2>1 DEF FifoInv, Filling, NormalOnes
<1> QED BY <1>10, <1>11, <1>12, <1>13 DEF Kept, QueueStep

LEMMA FifoInit == ASSUME OneTracer, Init PROVE FifoInv /\ Queue!Init /\ PendingQueue = <<>> /\ Taken = <<>>
<1>1. IInv
  BY InitIInv
<1>2. /\ Closer # Collector /\ Closer \in Threads /\ Collector \in Threads
      /\ BufferSize \in Nat \ {0} /\ MaxMessages \in Nat
  BY ConstantsAssumption DEF OneTracer, Threads
<1>3. pc[Closer] = "idle" /\ pc[Collector] = "test"
  BY <1>2 DEF Init
<1>4. pc[Closer] \notin InsertingAt /\ pc[Closer] \notin ClaimedAt
  BY <1>3 DEF InsertingAt, ClaimedAt, HoldingAt
<1>5. PendingLen = 0 /\ Taken = <<>> /\ Claimed = 0 /\ Advancing = 0 /\ fullSem = 0
  BY <1>3, <1>4 DEF Init, PendingLen, Taken, Claimed, Advancing
<1>6. TwoThreads
  <2>1. Len(Taken) = 0 /\ position = 0
    BY <1>5 DEF Init
  <2> QED BY <1>2, <1>3, <1>4, <1>5, <2>1 DEF TwoThreads
<1>7. NormalOnes /\ Filling
  BY <1>2, <1>3, <1>4 DEF Init, NormalOnes, Filling, Blank, NoMessage
<1>8. Ring
  <2>1. insertPos = retrievePos /\ insertPos % BufferSize \in Slot
    BY <1>1, SlotOfPosition DEF Init, IInv, TypeOK
  <2>2. After(insertPos % BufferSize, 0) = insertPos % BufferSize
    BY <1>2, <2>1 DEF After, Slot
  <2> QED BY <1>5, <2>1, <2>2 DEF Ring
<1>9. PendingQueue = <<>>
  <2>1. PendingQueue = [i \in 1 .. PendingLen |-> PendingAt(i)]
    BY DEF PendingQueue, PendingLen, PendingAt
  <2> HIDE DEF PendingQueue, PendingLen, PendingAt
  <2> QED BY <1>5, <2>1
<1> QED BY <1>1, <1>5, <1>6, <1>7, <1>8, <1>9 DEF FifoInv, Queue!Init

LEMMA FifoNext ==
  ASSUME OneTracer, FifoInv, [Next]_vars
  PROVE  FifoInv' /\ QueueStep
<1>0. IInv'
  BY NextIInv DEF FifoInv
<1> SUFFICES Kept
  BY <1>0 DEF Kept, FifoInv
<1>1. pc[Collector] \notin InsertingAt /\ pc[Collector] # "exit"
  BY DEF FifoInv, TwoThreads, InsertingAt, HoldingAt
<1>n. position \in Nat /\ MaxMessages \in Nat
  BY Typed, ConstantsAssumption DEF TypeOK, Number
<1>2. ASSUME Insert(Closer) PROVE Kept
  <2>1. CASE WaitFree(Closer)
    <3>1. pc[Closer] = "wait free" /\ pc'[Closer] = "claim" /\ pc'[Collector] = pc[Collector]
      BY <2>1, Typed DEF WaitFree, Goto
    <3>2. pc[Closer] \in InsertingAt \ ClaimedAt /\ pc'[Closer] \in InsertingAt \ ClaimedAt
      BY <3>1 DEF InsertingAt, ClaimedAt, HoldingAt
    <3>3. listMutex = NoThread => position <= MaxMessages
      BY <3>1 DEF FifoInv, TwoThreads
    <3> QED BY <2>1, <3>1, <3>2, <3>3, KeptAside DEF WaitFree
  <2> QED BY <1>2, <2>1, KeptClaim, KeptFill, KeptPost DEF Insert
<1>3. ASSUME Trace(Closer) PROVE Kept
  <2>1. BeginInsert(Closer, "normal")
    BY <1>3 DEF Trace, OneTracer
  <2>2. position < MaxMessages /\ position' = position + 1
    BY <1>3, <2>1 DEF Trace, BeginInsert
  <2>3. position' <= MaxMessages /\ position' <= MaxMessages + 1
    BY <1>n, <2>2
  <2> QED BY <1>3, <2>1, <2>2, <2>3, KeptBegin DEF Trace
<1>4. ASSUME Close PROVE Kept
  <2>1. position <= MaxMessages /\ pc[Closer] = "idle"
    BY <1>4 DEF Close, FifoInv, TwoThreads
  <2>2. position' <= MaxMessages + 1
    <3>1. position' = position + 1
      BY <1>4 DEF Close, BeginInsert
    <3> QED BY <1>n, <2>1, <3>1
  <2>3. listMutex' # NoThread
    BY <1>4, NoThreadAssumption, Typed DEF Close
  <2> QED BY <1>4, <2>1, <2>2, <2>3, KeptBegin DEF Close
<1>5. ASSUME Join PROVE Kept
  <2>1. pc[Closer] = "join" /\ pc'[Closer] = "closed" /\ pc'[Collector] = pc[Collector]
    BY <1>5, Typed DEF Join, Goto
  <2>2. /\ pc[Closer] \notin InsertingAt /\ pc'[Closer] \notin InsertingAt
        /\ pc[Closer] \notin ClaimedAt /\ pc'[Closer] \notin ClaimedAt
    BY <2>1 DEF InsertingAt, ClaimedAt, HoldingAt
  <2> QED BY <1>5, <2>1, <2>2, KeptAside DEF Join
<1>6. ASSUME Retrieve PROVE Kept
  BY <1>6, KeptTest, KeptWaitFull, KeptAdvance, KeptCopy, KeptRelease, KeptPrint DEF Retrieve
<1>7. ASSUME ExitProcess \/ Insert(Collector) PROVE FALSE
  BY <1>1, <1>7 DEF ExitProcess, Insert, WaitFree, Claim, FillText, FillMeta, Post, InsertingAt,
     HoldingAt
<1>8. ASSUME UNCHANGED vars PROVE Kept
  <2>1. UNCHANGED <<PendingQueue, Taken, PendingLen, Advancing, Claimed>>
    BY <1>8 DEF vars, PendingQueue, Taken, PendingLen, Advancing, Claimed
  <2>2. TwoThreads' /\ NormalOnes' /\ Filling'
    BY <1>8, <2>1 DEF vars, FifoInv, TwoThreads, NormalOnes, Filling
  <2>3. Ring'
    BY <1>8, <2>1 DEF vars, FifoInv, Ring, After
  <2> QED BY <2>1, <2>2, <2>3 DEF Kept, QueueStep
<1>9. ASSUME NEW p \in Producers, ThreadStep(p) PROVE Kept
  <2>1. p = Closer
    BY DEF OneTracer
  <2> QED BY <1>2, <1>3, <1>9, <2>1 DEF ThreadStep
<1> QED BY <1>2, <1>4, <1>5, <1>6, <1>7, <1>8, <1>9 DEF Next, CollectorStep, CloserStep, Terminating

\* The messages are taken, and wait, in the order of their numbers.
InOrder ==
  /\ \A i \in 1 .. Len(Taken) : Whole(Taken[i], i)
  /\ \A i \in 1 .. Len(PendingQueue) : Whole(PendingQueue[i], Len(Taken) + i)

LEMMA OrderKept ==
  ASSUME OneTracer, FifoInv, InOrder, QueueStep
  PROVE  InOrder'
<1>0. /\ PendingQueue \in Seq(TraceInfo) /\ Taken \in Seq(TraceInfo)
      /\ Len(PendingQueue) \in Nat /\ Len(Taken) \in Nat
  BY Pending, Typed
<1>1. CASE UNCHANGED <<PendingQueue, Taken>>
  BY <1>1 DEF InOrder, Whole
<1>2. CASE Queue!Get
  <2> DEFINE n == Len(PendingQueue)
  <2>1. /\ PendingQueue # <<>> /\ Taken' = Append(Taken, Head(PendingQueue))
        /\ PendingQueue' = Tail(PendingQueue)
    BY <1>2 DEF Queue!Get
  <2>2. /\ Tail(PendingQueue) = [i \in 1 .. n - 1 |-> PendingQueue[i + 1]]
        /\ Head(PendingQueue) = PendingQueue[1] /\ Head(PendingQueue) \in TraceInfo
        /\ Len(PendingQueue') = n - 1 /\ n >= 1
    BY <1>0, <2>1, TailIs, HeadTailProperties
  <2>3. /\ Len(Taken') = Len(Taken) + 1
        /\ \A i \in 1 .. Len(Taken) + 1 :
             Taken'[i] = IF i <= Len(Taken) THEN Taken[i] ELSE PendingQueue[1]
    BY <1>0, <2>1, <2>2, AppendedIs
  <2>4. Whole(PendingQueue[1], Len(Taken) + 1)
    BY <1>0, <2>2 DEF InOrder
  <2>5. ASSUME NEW i \in 1 .. Len(Taken') PROVE Whole(Taken'[i], i)
    BY <1>0, <2>3, <2>4, <2>5 DEF InOrder
  <2>6. ASSUME NEW i \in 1 .. Len(PendingQueue') PROVE Whole(PendingQueue'[i], Len(Taken') + i)
    <3>1. i + 1 \in 1 .. n /\ PendingQueue'[i] = PendingQueue[i + 1]
      BY <1>0, <2>1, <2>2, <2>6
    <3>2. Whole(PendingQueue[i + 1], Len(Taken) + (i + 1))
      BY <3>1 DEF InOrder
    <3>3. Len(Taken') + i = Len(Taken) + (i + 1)
      BY <1>0, <2>3
    <3> QED BY <3>1, <3>2, <3>3
  <2> QED BY <2>5, <2>6 DEF InOrder, Whole
<1>3. ASSUME NEW m \in Traced, PutNext(m) PROVE InOrder'
  <2> DEFINE n == Len(PendingQueue)
  <2>1. PendingQueue' = Append(PendingQueue, m) /\ Taken' = Taken /\ Whole(m, Len(Taken) + n + 1)
    BY <1>3 DEF PutNext, Queue!Put
  <2>2. /\ PendingQueue' = [i \in 1 .. n + 1 |-> IF i <= n THEN PendingQueue[i] ELSE m]
        /\ Len(PendingQueue') = n + 1
    <3>1. PendingQueue' = [i \in 1 .. n + 1 |-> IF i <= n THEN PendingQueue[i] ELSE m]
      BY <1>0, <2>1, AppendedIs
    <3> QED BY <1>0, <2>1, <3>1
  <2>3. ASSUME NEW i \in 1 .. n + 1 PROVE Whole(PendingQueue'[i], Len(Taken) + i)
    <3>1. CASE i <= n
      <4>1. i \in 1 .. n /\ PendingQueue'[i] = PendingQueue[i]
        BY <1>0, <2>2, <3>1
      <4> QED BY <4>1 DEF InOrder
    <3>2. CASE i = n + 1
      <4>1. PendingQueue'[i] = m /\ Len(Taken) + i = Len(Taken) + n + 1
        BY <1>0, <2>2, <3>2
      <4> QED BY <2>1, <4>1
    <3> QED BY <1>0, <3>1, <3>2
  <2> QED BY <2>1, <2>2, <2>3 DEF InOrder, Whole
<1> QED BY <1>1, <1>2, <1>3 DEF QueueStep

\* With one thread tracing and no abort message, the pool is a bounded
\* first-in first-out queue, across the wrap of the positions, for every size of
\* pool: nothing is lost, printed twice or overtaken, from insert() to the
\* collector.
THEOREM TraceIsQueue ==
  ASSUME OneTracer
  PROVE  Spec => FirstInFirstOut
<1>1. Init => FifoInv /\ Queue!Init
  BY FifoInit
<1>2. FifoInv /\ [Next]_vars => FifoInv' /\ [Queue!Next]_(Queue!vars)
  BY FifoNext DEF QueueStep, PutNext, Queue!Next, Queue!vars
<1> QED BY <1>1, <1>2, PTL DEF Spec, FirstInFirstOut, Queue!Spec

\* ... and what is printed is whole and numbered in order, without a gap.
THEOREM PrintsInOrder ==
  ASSUME OneTracer
  PROVE  Spec => []PrintedInOrder
<1>1. Init => FifoInv /\ InOrder
  BY FifoInit DEF InOrder
<1>2. FifoInv /\ InOrder /\ [Next]_vars => FifoInv' /\ InOrder'
  BY FifoNext, OrderKept
<1>3. FifoInv /\ InOrder => PrintedInOrder
  <2> SUFFICES ASSUME FifoInv, InOrder, NEW i \in DOMAIN printed
               PROVE  Whole(printed[i], i)
    BY DEF PrintedInOrder, Whole
  <2>1. i \in 1 .. Len(printed) /\ Len(printed) \in Nat
    BY Typed
  <2>2. Taken = printed \/ Taken = Append(printed, aTrace)
    BY DEF Taken
  <2>3. i \in 1 .. Len(Taken) /\ Taken[i] = printed[i]
    BY <2>1, <2>2, Typed
  <2> QED BY <2>3 DEF InOrder
<1> QED BY <1>1, <1>2, <1>3, PTL DEF Spec

-----------------------------------------------------------------------------
(* The launcher                                                            *)

USE DEF Numbers, Refs, Alive, Final, States, Idle

(* Types                                                                   *)

LEMMA TypesStart == LauncherInit => LauTypeOK
  BY JobTableAssumption, LauncherAssumption DEF LauncherInit, TableInit, LauTypeOK

LEMMA SavedAt == ASSUME NEW f \in Seq(SavedJob), NEW i \in 1 .. Len(f) PROVE f[i] \in SavedJob
OBVIOUS

LEMMA SavedSequence ==
  ASSUME NEW k \in Nat, NEW f, f = [i \in 1 .. k |-> f[i]], \A i \in 1 .. k : f[i] \in SavedJob
  PROVE  f \in Seq(SavedJob)
OBVIOUS

LEMMA SavedFields ==
  ASSUME NEW j \in SavedJob PROVE j.state \in States /\ j.ref \in 0 .. MaxBatch
BY DEF SavedJob

LEMMA CallTypes ==
  ASSUME LauTypeOK, NEW c \in Clients, request[c].at # "idle"
  PROVE  /\ request[c] \in LaunchCall /\ request[c] # Idle /\ request[c].job \in Numbers
         /\ request[c].at = "submitted" => request[c].ref \in Refs
BY DEF LauTypeOK, LaunchCall

(* The numbers given to jobs are those below the counter.                  *)
LEMMA CreatedBelow ==
  ASSUME LauTypeOK, NEW n \in Numbers, table[n] # "none"
  PROVE  n < counter
BY JobTableAssumption DEF LauTypeOK

LEMMA TypesLoad == ASSUME LauTypeOK, LoadJobs PROVE LauTypeOK'
<1> USE DEF tableVars, history
<1> DEFINE Job(n) == file[n - counter + 1]
           loaded == counter .. counter + Len(file) - 1
           launched == {n \in loaded : Job(n).state # "CREATED"}
<1> USE JobTableAssumption, LauncherAssumption DEF LauTypeOK
<1>1. /\ Len(file) \in Nat /\ counter \in Nat /\ counter + Len(file) <= MaxJobs
      /\ counter' = counter + Len(file)
  BY DEF LoadJobs
<1>2. ASSUME NEW n \in loaded PROVE n \in Numbers /\ Job(n) \in SavedJob
  <2>1. n \in Numbers /\ n - counter + 1 \in 1 .. Len(file)
    BY <1>1
  <2>2. Job(n) \in SavedJob
    BY <2>1, SavedAt
  <2> QED BY <2>1, <2>2
<1>3. PICK lost \in SUBSET launched :
        /\ table' = [n \in Numbers |->
             IF n \in lost THEN "none" ELSE IF n \in loaded THEN LoadedState(Job(n)) ELSE table[n]]
        /\ reference' = [n \in Numbers |->
             IF n \in launched \ lost /\ Resumes THEN Job(n).ref ELSE reference[n]]
        /\ managers' = managers \cup (launched \ lost)
  BY DEF LoadJobs
<1>4. \A n \in loaded : LoadedState(Job(n)) \in States
  BY <1>2, SavedFields DEF LoadedState
<1>5. table' \in [Numbers -> States \cup {"none"}]
  BY <1>3, <1>4
<1>6. reference' \in [Numbers -> 0 .. MaxBatch]
  BY <1>2, <1>3, SavedFields
<1>7. managers' \subseteq Numbers
  BY <1>2, <1>3
<1>8. followed' \subseteq Refs
  <2>1. followed' \subseteq followed \cup ({Job(n).ref : n \in launched} \ {0})
    BY DEF LoadJobs
  <2>2. \A n \in launched : Job(n).ref \in 0 .. MaxBatch
    BY <1>2, SavedFields
  <2>3. ASSUME NEW x \in {Job(n).ref : n \in launched} \ {0} PROVE x \in Refs
    BY <2>2, <2>3
  <2> HIDE DEF launched
  <2> QED BY <2>1, <2>3
<1>9. \A n \in Numbers : n >= counter' => table'[n] = "none" /\ reference'[n] = 0
  <2> SUFFICES ASSUME NEW n \in Numbers, n >= counter'
               PROVE  table'[n] = "none" /\ reference'[n] = 0
    OBVIOUS
  <2>1. n \notin loaded /\ n >= counter
    BY <1>1
  <2>2. n \notin launched /\ n \notin lost
    BY <2>1, <1>3
  <2> QED BY <1>3, <2>1, <2>2
<1>10. counter' \in 0 .. MaxJobs
  BY <1>1
<1> QED BY <1>5, <1>6, <1>7, <1>8, <1>9, <1>10 DEF LoadJobs

LEMMA TypesSave == ASSUME LauTypeOK, SaveJobs PROVE LauTypeOK'
<1> DEFINE saved == {n \in Numbers : table[n] # "none"}
<1> USE DEF tableVars, history
<1>1. saved \subseteq Numbers /\ IsFiniteSet(saved) /\ Cardinality(saved) \in Nat
  <2>1. IsFiniteSet(Numbers)
    BY JobTableAssumption, FS_Interval
  <2> QED BY <2>1, FS_Subset, FS_CardinalityType
<1>2. PICK order \in [1 .. Cardinality(saved) -> saved] :
        file' = [i \in DOMAIN order |-> [state |-> table[order[i]], ref |-> reference[order[i]]]]
  BY DEF SaveJobs
<1>3. \A i \in 1 .. Cardinality(saved) :
        file'[i] \in SavedJob
  BY <1>1, <1>2 DEF LauTypeOK, SavedJob
<1>4. file' \in Seq(SavedJob)
  <2>1. file' = [i \in 1 .. Cardinality(saved) |-> file'[i]]
    BY <1>2
  <2> HIDE DEF saved
  <2> QED BY <1>1, <1>3, <2>1, SavedSequence
<1> QED BY <1>4 DEF SaveJobs, LauTypeOK, tableVars, history

LEMMA TypesStep == LauTypeOK /\ [LauncherNext]_launcherVars => LauTypeOK'
<1> SUFFICES ASSUME LauTypeOK, [LauncherNext]_launcherVars PROVE LauTypeOK'
  OBVIOUS
<1> USE JobTableAssumption, LauncherAssumption DEF LauTypeOK, tableVars, history
<1>1. CASE CreateJob
  BY <1>1 DEF CreateJob, TableAdd
<1>2. CASE SaveJobs
  BY <1>2, TypesSave
<1>3. CASE Restart
  BY <1>3 DEF Restart, TableRestart
<1>4. CASE LoadJobs
  BY <1>4, TypesLoad
<1>5. ASSUME NEW c \in Clients, SubmitJob(c) PROVE LauTypeOK'
  <2>1. request[c].job \in Numbers
    BY <1>5, CallTypes DEF SubmitJob
  <2>2. ASSUME submitted < MaxBatch, submitted' = submitted + 1,
               batch' = [batch EXCEPT ![submitted + 1] = "QUEUED"],
               request' = [request EXCEPT ![c] =
                 [at |-> "submitted", job |-> request[c].job, ref |-> submitted + 1]],
               owner' = [owner EXCEPT ![submitted + 1] = request[c].job]
        PROVE  LauTypeOK'
    <3>1. submitted + 1 \in Refs /\ submitted' \in 0 .. MaxBatch
      BY <2>2
    <3>2. [at |-> "submitted", job |-> request[c].job, ref |-> submitted + 1] \in LaunchCall
      BY <2>1, <3>1 DEF LaunchCall
    <3>3. request' \in [Clients -> {Idle} \cup LaunchCall]
      BY <2>2, <3>2
    <3>4. owner' \in [Refs -> Numbers \cup {-1}]
      BY <2>1, <2>2
    <3>5. batch' \in [Refs -> Alive \cup {"none", "FINISHED", "FAILED"}]
      BY <2>2
    <3> QED BY <1>5, <3>1, <3>3, <3>4, <3>5 DEF SubmitJob
  <2>3. CASE UNCHANGED <<batch, submitted, owner>> /\ request' = [request EXCEPT ![c] = Idle]
    BY <1>5, <2>3 DEF SubmitJob
  <2> QED BY <1>5, <2>2, <2>3 DEF SubmitJob
<1>6. ASSUME NEW c \in Clients, Launched(c) PROVE LauTypeOK'
  <2>2. request[c].job \in Numbers /\ request[c].ref \in Refs
    BY <1>6, CallTypes DEF Launched
  <2>3. table[request[c].job] # "none" => request[c].job < counter
    BY <2>2
  <2>4. table' \in [Numbers -> States \cup {"none"}] /\ reference' \in [Numbers -> 0 .. MaxBatch]
    BY <1>6, <2>2 DEF Launched
  <2>5. request' \in [Clients -> {Idle} \cup LaunchCall]
    BY <1>6 DEF Launched
  <2>6. followed' \subseteq Refs
    BY <1>6, <2>2 DEF Launched
  <2>7. \A n \in Numbers : n >= counter => table'[n] = "none" /\ reference'[n] = 0
    BY <1>6, <2>2, <2>3 DEF Launched
  <2> QED BY <1>6, <2>4, <2>5, <2>6, <2>7 DEF Launched
<1>7. ASSUME NEW c \in Clients, NEW n \in Numbers, LaunchJob(c, n) PROVE LauTypeOK'
  <2>1. n < counter
    BY <1>7 DEF LaunchJob
  <2>2. CASE TableLaunch(n, "ERROR") /\ UNCHANGED <<managers, request>>
    BY <1>7, <2>1, <2>2 DEF LaunchJob, TableLaunch
  <2>3. CASE /\ managers' = managers \cup {n} /\ UNCHANGED tableVars
             /\ request' = [request EXCEPT ![c] = [at |-> "submitting", job |-> n, ref |-> 0]]
    <3>1. [at |-> "submitting", job |-> n, ref |-> 0] \in LaunchCall
      BY DEF LaunchCall
    <3>2. request' \in [Clients -> {Idle} \cup LaunchCall]
      BY <2>3, <3>1
    <3> QED BY <1>7, <2>3, <3>2 DEF LaunchJob
  <2> QED BY <1>7, <2>2, <2>3 DEF LaunchJob
<1>8. ASSUME NEW n \in Numbers, GetJobState(n) PROVE LauTypeOK'
  BY <1>8 DEF GetJobState
<1>9. ASSUME NEW n \in Numbers, StopJob(n) PROVE LauTypeOK'
  BY <1>9 DEF StopJob, TableStop, DeleteBatchJob
<1>10. ASSUME NEW n \in Numbers, RemoveJob(n) PROVE LauTypeOK'
  <2>1. batch' \in [Refs -> Alive \cup {"none", "FINISHED", "FAILED"}]
    BY <1>10 DEF RemoveJob, DeleteBatchJob
  <2>2. /\ table' \in [Numbers -> States \cup {"none"}] /\ reference' \in [Numbers -> 0 .. MaxBatch]
        /\ \A m \in Numbers : m >= counter => table'[m] = "none" /\ reference'[m] = 0
    BY <1>10 DEF RemoveJob, TableRemove
  <2>3. /\ followed' \subseteq Refs /\ stopped' \subseteq Numbers
        /\ UNCHANGED <<counter, managers, request, submitted, file, owner>>
    BY <1>10 DEF RemoveJob, TableRemove
  <2> QED BY <2>1, <2>2, <2>3
<1>11. ASSUME NEW r \in Refs, BatchStep(r) PROVE LauTypeOK'
  BY <1>11 DEF BatchStep
<1>12. CASE UNCHANGED launcherVars
  BY <1>12 DEF launcherVars
<1> QED BY <1>1, <1>2, <1>3, <1>4, <1>5, <1>6, <1>7, <1>8, <1>9, <1>10, <1>11, <1>12 DEF LauncherNext

(* Type correctness of the launcher, its file and its batch system, with   *)
(* requests that overlap too: a job beyond the counter never has a state.  *)
THEOREM LauTypes == LauncherSpec => []LauTypeOK
<1> QED BY TypesStart, TypesStep, PTL DEF LauncherSpec

-----------------------------------------------------------------------------
(* Requests that overlap                                                   *)

\* What a state s and a reference r, seen earlier, say of the batch system b
\* that has been given k jobs.
Seen(s, r, b, k) ==
  /\ r <= k
  /\ s = "CREATED" => r = 0
  /\ s \in Alive => r # 0 /\ b[r] \in Polled(s)
  /\ s = "FINISHED" /\ r # 0 => b[r] \notin Alive

\* The table, the file and the requests show states that were true once.
AllSeen ==
  /\ \A n \in Numbers : Seen(table[n], reference[n], batch, submitted)
  /\ \A i \in DOMAIN file : Seen(file[i].state, file[i].ref, batch, submitted)
  /\ \A c \in Clients : request[c].at = "submitted" => Seen("QUEUED", request[c].ref, batch, submitted)

\* A request launches a job that was created, and has submitted a batch job for it.
Launches ==
  \A c \in Clients : request[c] # Idle =>
    /\ request[c].job < counter
    /\ request[c].at = "submitted" => owner[request[c].ref] = request[c].job

\* A job given to the batch system is CREATED only while a request that gave it
\* is under way.
Owners ==
  \A r \in Refs : owner[r] # -1 =>
    /\ r <= submitted /\ owner[r] < counter
    /\ table[owner[r]] = "CREATED" => StillLaunching(r)

LauInv == LauTypeOK /\ AllSeen /\ Launches /\ Owners

\* The batch system does not put a job back, and is given new ones only.
Forward ==
  /\ submitted <= submitted'
  /\ \A q \in Refs : q <= submitted =>
       batch'[q] = batch[q] \/ (batch[q] \in Alive /\ batch'[q] \in Polled(batch[q]))

LEMMA GoesForward ==
  ASSUME LauTypeOK, LauTypeOK', [LauncherNext]_launcherVars
  PROVE  Forward
<1> USE DEF LauTypeOK, Forward, Polled
<1>1. CASE UNCHANGED <<batch, submitted>>
  BY <1>1
<1>2. ASSUME NEW n \in Numbers, StopJob(n) \/ RemoveJob(n) PROVE Forward
  BY <1>2 DEF StopJob, RemoveJob, DeleteBatchJob
<1>3. ASSUME NEW c \in Clients, SubmitJob(c) PROVE Forward
  BY <1>3 DEF SubmitJob
<1>4. ASSUME NEW r \in Refs, BatchStep(r) PROVE Forward
  BY <1>4 DEF BatchStep
<1>5. CreateJob \/ SaveJobs \/ Restart \/ LoadJobs \/ UNCHANGED launcherVars => UNCHANGED <<batch, submitted>>
  BY DEF CreateJob, SaveJobs, Restart, LoadJobs, launcherVars
<1>6. \A c \in Clients : Launched(c) => UNCHANGED <<batch, submitted>>
  BY DEF Launched
<1>7. \A c \in Clients, n \in Numbers : LaunchJob(c, n) \/ GetJobState(n) => UNCHANGED <<batch, submitted>>
  BY DEF LaunchJob, GetJobState
<1>8. \A n \in Numbers : GetJobState(n) => UNCHANGED <<batch, submitted>>
  BY DEF GetJobState
<1> QED BY <1>1, <1>2, <1>3, <1>4, <1>5, <1>6, <1>7, <1>8 DEF LauncherNext

(* What was seen stays true as the batch system goes forward.              *)
LEMMA SeenStays ==
  ASSUME LauTypeOK, LauTypeOK', Forward,
         NEW s, NEW r \in 0 .. MaxBatch, Seen(s, r, batch, submitted)
  PROVE  Seen(s, r, batch', submitted')
<1>1. r <= submitted'
  BY DEF Seen, Forward, LauTypeOK
<1>2. CASE r = 0
  BY <1>1, <1>2 DEF Seen
<1>3. CASE r # 0
  <2>1. r \in Refs /\ r <= submitted
    BY <1>3 DEF Seen
  <2>2. batch'[r] = batch[r] \/ (batch[r] \in Alive /\ batch'[r] \in Polled(batch[r]))
    BY <2>1 DEF Forward
  <2> QED BY <1>1, <2>2 DEF Seen, Polled
<1> QED BY <1>2, <1>3

(* What a step does not change is still true of what it has made.          *)
LEMMA SeenKept ==
  ASSUME LauTypeOK, LauTypeOK', Forward, AllSeen
  PROVE  /\ \A n \in Numbers : table'[n] = table[n] /\ reference'[n] = reference[n]
                => Seen(table'[n], reference'[n], batch', submitted')
         /\ \A n \in Numbers : table'[n] \in {"FAILED", "ERROR", "none"} /\ reference'[n] \in {reference[n], 0}
                => Seen(table'[n], reference'[n], batch', submitted')
         /\ \A i \in DOMAIN file : Seen(file[i].state, file[i].ref, batch', submitted')
         /\ \A c \in Clients : request'[c] = request[c] /\ request'[c].at = "submitted"
                => Seen("QUEUED", request'[c].ref, batch', submitted')
<1>1. \A n \in Numbers : Seen(table[n], reference[n], batch', submitted') /\ reference[n] \in 0 .. MaxBatch
  BY SeenStays DEF AllSeen, LauTypeOK
<1>2. ASSUME NEW n \in Numbers, table'[n] \in {"FAILED", "ERROR", "none"}, reference'[n] \in {reference[n], 0}
      PROVE  Seen(table'[n], reference'[n], batch', submitted')
  BY <1>1, <1>2 DEF Seen, LauTypeOK
<1>3. ASSUME NEW i \in DOMAIN file PROVE Seen(file[i].state, file[i].ref, batch', submitted')
  <2>1. file \in Seq(SavedJob) /\ i \in 1 .. Len(file)
    BY <1>3 DEF LauTypeOK
  <2>2. file[i].ref \in 0 .. MaxBatch
    BY <2>1, SavedAt, SavedFields
  <2> QED BY <2>2, SeenStays DEF AllSeen
<1>4. ASSUME NEW c \in Clients, request[c].at = "submitted"
      PROVE  Seen("QUEUED", request[c].ref, batch', submitted')
  <2>1. request[c].ref \in 0 .. MaxBatch
    BY <1>4, CallTypes
  <2> QED BY <1>4, <2>1, SeenStays DEF AllSeen
<1> QED BY <1>1, <1>2, <1>3, <1>4

LEMMA LoadSeen ==
  ASSUME LauTypeOK, LauTypeOK', Forward, AllSeen, LoadJobs, NEW n \in Numbers
  PROVE  Seen(table'[n], reference'[n], batch', submitted')
<1> DEFINE Job(m) == file[m - counter + 1]
           loaded == counter .. counter + Len(file) - 1
           launched == {m \in loaded : Job(m).state # "CREATED"}
<1>1. PICK lost \in SUBSET launched :
        /\ table' = [m \in Numbers |->
             IF m \in lost THEN "none" ELSE IF m \in loaded THEN LoadedState(Job(m)) ELSE table[m]]
        /\ reference' = [m \in Numbers |->
             IF m \in launched \ lost /\ Resumes THEN Job(m).ref ELSE reference[m]]
  BY DEF LoadJobs
<1>2. CASE n \notin loaded
  <2>1. table'[n] = table[n] /\ reference'[n] = reference[n]
    BY <1>1, <1>2
  <2> QED BY <2>1, SeenKept
<1>3. CASE n \in loaded
  <2>1. counter \in Nat /\ file \in Seq(SavedJob) /\ Len(file) \in Nat
    BY JobTableAssumption DEF LauTypeOK
  <2>2. n - counter + 1 \in 1 .. Len(file) /\ n >= counter
    BY <1>3, <2>1
  <2>3. Job(n) \in SavedJob /\ reference[n] = 0
    BY <2>1, <2>2, SavedAt DEF LauTypeOK
  <2>4. Seen(Job(n).state, Job(n).ref, batch', submitted')
    BY <2>1, <2>2, SeenKept
  <2>5. submitted' \in Nat
    BY LauncherAssumption DEF LauTypeOK
  <2>6. CASE n \in lost
    <3>1. table'[n] = "none" /\ reference'[n] = 0
      BY <1>1, <2>3, <2>6
    <3> QED BY <2>5, <3>1 DEF Seen
  <2>7. CASE n \notin lost
    <3>1. table'[n] = LoadedState(Job(n)) /\ LoadedState(Job(n)) \in States
      BY <1>1, <1>3, <2>3, <2>7, SavedFields DEF LoadedState
    <3>2. CASE Resumes /\ n \in launched
      <4>1. table'[n] = Job(n).state /\ reference'[n] = Job(n).ref
        BY <1>1, <1>3, <2>7, <3>1, <3>2 DEF LoadedState
      <4> QED BY <2>4, <4>1
    <3>3. CASE ~ (Resumes /\ n \in launched)
      <4>1. reference'[n] = 0 /\ table'[n] \notin Alive
        BY <1>1, <1>3, <2>3, <2>7, <3>1, <3>3 DEF LoadedState
      <4> QED BY <2>5, <4>1 DEF Seen
    <3> QED BY <3>2, <3>3
  <2> QED BY <2>6, <2>7
<1> QED BY <1>2, <1>3

LEMMA SaveSeen ==
  ASSUME LauTypeOK, AllSeen, SaveJobs, NEW i \in DOMAIN file'
  PROVE  Seen(file'[i].state, file'[i].ref, batch', submitted')
<1> DEFINE saved == {n \in Numbers : table[n] # "none"}
<1>1. PICK order \in [1 .. Cardinality(saved) -> saved] :
        file' = [k \in DOMAIN order |-> [state |-> table[order[k]], ref |-> reference[order[k]]]]
  BY DEF SaveJobs
<1>2. order[i] \in Numbers /\ file'[i].state = table[order[i]] /\ file'[i].ref = reference[order[i]]
  BY <1>1
<1> QED BY <1>2 DEF AllSeen, SaveJobs

LEMMA SeenStep ==
  ASSUME LauTypeOK, LauTypeOK', AllSeen, [LauncherNext]_launcherVars
  PROVE  AllSeen'
<1> DEFINE TableSeen == \A n \in Numbers : Seen(table'[n], reference'[n], batch', submitted')
           FileSeen == \A i \in DOMAIN file' : Seen(file'[i].state, file'[i].ref, batch', submitted')
           CallSeen == \A c \in Clients : request'[c].at = "submitted"
                         => Seen("QUEUED", request'[c].ref, batch', submitted')
<1> SUFFICES TableSeen /\ FileSeen /\ CallSeen
  BY DEF AllSeen
<1>0. Forward
  BY GoesForward
<1>a. UNCHANGED <<table, reference>> => TableSeen
  BY <1>0, SeenKept
<1>b. UNCHANGED file => FileSeen
  BY <1>0, SeenKept
<1>c. UNCHANGED request => CallSeen
  BY <1>0, SeenKept
<1>d. submitted' \in Nat /\ submitted \in Nat
  BY LauncherAssumption DEF LauTypeOK
<1> HIDE DEF TableSeen, FileSeen, CallSeen
<1> USE DEF tableVars, history
<1>1. CASE CreateJob
  <2>1. ASSUME NEW n \in Numbers PROVE Seen(table'[n], reference'[n], batch', submitted')
    <3>1. CASE n = counter
      <4>1. table'[n] = "CREATED" /\ reference'[n] = 0
        BY <1>1, <3>1 DEF CreateJob, TableAdd, LauTypeOK
      <4> QED BY <1>d, <4>1 DEF Seen
    <3>2. CASE n # counter
      <4>1. table'[n] = table[n] /\ reference'[n] = reference[n]
        BY <1>1, <3>2 DEF CreateJob, TableAdd, LauTypeOK
      <4> QED BY <1>0, <4>1, SeenKept
    <3> QED BY <3>1, <3>2
  <2> QED BY <1>1, <1>b, <1>c, <2>1 DEF CreateJob, TableSeen
<1>2. CASE SaveJobs
  <2>1. FileSeen
    BY <1>2, SaveSeen DEF FileSeen
  <2> QED BY <1>2, <1>a, <1>c, <2>1 DEF SaveJobs
<1>3. CASE Restart
  <2>1. \A n \in Numbers : table'[n] = "none" /\ reference'[n] = 0
    BY <1>3 DEF Restart, TableRestart
  <2>2. TableSeen
    BY <1>d, <2>1 DEF TableSeen, Seen
  <2>3. CallSeen
    BY <1>3 DEF Restart, CallSeen
  <2> QED BY <1>3, <1>b, <2>2, <2>3 DEF Restart
<1>4. CASE LoadJobs
  <2>1. TableSeen
    BY <1>0, <1>4, LoadSeen DEF TableSeen
  <2> QED BY <1>4, <1>b, <1>c, <2>1 DEF LoadJobs
<1>5. ASSUME NEW c \in Clients, SubmitJob(c) PROVE TableSeen /\ FileSeen /\ CallSeen
  <2>1. CallSeen
    <3> SUFFICES ASSUME NEW d \in Clients, request'[d].at = "submitted"
                 PROVE  Seen("QUEUED", request'[d].ref, batch', submitted')
      BY DEF CallSeen
    <3>1. CASE request'[d] = request[d]
      BY <1>0, <3>1, SeenKept
    <3>2. CASE request'[d] # request[d]
      <4>1. /\ submitted < MaxBatch /\ submitted' = submitted + 1
            /\ batch' = [batch EXCEPT ![submitted + 1] = "QUEUED"]
            /\ request'[d].ref = submitted + 1
        BY <1>5, <3>2 DEF SubmitJob, LauTypeOK
      <4>2. batch'[submitted + 1] = "QUEUED"
        BY <1>d, <4>1, LauncherAssumption DEF LauTypeOK
      <4> QED BY <1>d, <4>1, <4>2 DEF Seen, Polled
    <3> QED BY <3>1, <3>2
  <2> QED BY <1>5, <1>a, <1>b, <2>1 DEF SubmitJob
<1>6. ASSUME NEW c \in Clients, Launched(c) PROVE TableSeen /\ FileSeen /\ CallSeen
  <2> DEFINE j == request[c].job
  <2>1. j \in Numbers /\ request[c] # Idle /\ request[c].ref \in 0 .. MaxBatch
    BY <1>6, CallTypes DEF Launched
  <2>2. Seen("QUEUED", request[c].ref, batch', submitted')
    BY <1>6, <2>1 DEF Launched, AllSeen
  <2>3. ASSUME NEW n \in Numbers PROVE Seen(table'[n], reference'[n], batch', submitted')
    <3>1. CASE n = j /\ table[j] # "none"
      <4>1. table'[n] = "QUEUED" /\ reference'[n] = request[c].ref
        BY <1>6, <2>1, <3>1 DEF Launched, LauTypeOK
      <4> QED BY <2>2, <4>1
    <3>2. CASE ~ (n = j /\ table[j] # "none")
      <4>1. table'[n] = table[n] /\ reference'[n] = reference[n]
        BY <1>6, <3>2 DEF Launched, LauTypeOK
      <4> QED BY <1>0, <4>1, SeenKept
    <3> QED BY <3>1, <3>2
  <2>4. CallSeen
    <3>1. \A d \in Clients : request'[d].at = "submitted" => request'[d] = request[d]
      BY <1>6 DEF Launched, LauTypeOK
    <3> QED BY <1>0, <3>1, SeenKept DEF CallSeen
  <2> QED BY <1>6, <1>b, <2>3, <2>4 DEF Launched, TableSeen
<1>7. ASSUME NEW c \in Clients, NEW n \in Numbers, LaunchJob(c, n) PROVE TableSeen /\ FileSeen /\ CallSeen
  <2>1. CallSeen
    <3>1. \A d \in Clients : request'[d].at = "submitted" => request'[d] = request[d]
      BY <1>7 DEF LaunchJob, LauTypeOK
    <3> QED BY <1>0, <3>1, SeenKept DEF CallSeen
  <2>2. \A m \in Numbers : /\ table'[m] = table[m] \/ table'[m] = "ERROR"
                           /\ reference'[m] = reference[m]
    BY <1>7 DEF LaunchJob, TableLaunch, LauTypeOK
  <2>3. TableSeen
    BY <1>0, <2>2, SeenKept DEF TableSeen
  <2> QED BY <1>7, <1>b, <2>1, <2>3 DEF LaunchJob
<1>8. ASSUME NEW n \in Numbers, GetJobState(n) PROVE TableSeen /\ FileSeen /\ CallSeen
  <2>1. ASSUME NEW m \in Numbers PROVE Seen(table'[m], reference'[m], batch', submitted')
    <3>1. CASE m = n
      <4>1. /\ table'[m] = batch[reference[m]] /\ reference'[m] = reference[m]
            /\ reference[m] # 0 /\ UNCHANGED <<batch, submitted>> /\ reference[m] <= submitted
            /\ batch[reference[m]] \in Alive \cup {"none", "FINISHED", "FAILED"}
        BY <1>8, <3>1 DEF GetJobState, LauTypeOK, AllSeen, Seen
      <4> QED BY <4>1 DEF Seen, Polled
    <3>2. CASE m # n
      <4>1. table'[m] = table[m] /\ reference'[m] = reference[m]
        BY <1>8, <3>2 DEF GetJobState, LauTypeOK
      <4> QED BY <1>0, <4>1, SeenKept
    <3> QED BY <3>1, <3>2
  <2> QED BY <1>8, <1>b, <1>c, <2>1 DEF GetJobState, TableSeen
<1>9. ASSUME NEW n \in Numbers, StopJob(n) PROVE TableSeen /\ FileSeen /\ CallSeen
  <2>1. \A m \in Numbers : /\ table'[m] = table[m] \/ table'[m] = "FAILED"
                           /\ reference'[m] = reference[m]
    BY <1>9 DEF StopJob, TableStop, LauTypeOK
  <2>2. TableSeen
    BY <1>0, <2>1, SeenKept DEF TableSeen
  <2> QED BY <1>9, <1>b, <1>c, <2>2 DEF StopJob
<1>10. ASSUME NEW n \in Numbers, RemoveJob(n) PROVE TableSeen /\ FileSeen /\ CallSeen
  <2>1. \A m \in Numbers : \/ table'[m] = table[m] /\ reference'[m] = reference[m]
                           \/ table'[m] = "none" /\ reference'[m] = 0
    BY <1>10 DEF RemoveJob, TableRemove, LauTypeOK
  <2>2. TableSeen
    BY <1>0, <2>1, SeenKept DEF TableSeen
  <2> QED BY <1>10, <1>b, <1>c, <2>2 DEF RemoveJob
<1>11. ASSUME NEW r \in Refs, BatchStep(r) PROVE TableSeen /\ FileSeen /\ CallSeen
  BY <1>11, <1>a, <1>b, <1>c DEF BatchStep
<1>12. CASE UNCHANGED launcherVars
  BY <1>12, <1>a, <1>b, <1>c DEF launcherVars
<1> QED BY <1>1, <1>2, <1>3, <1>4, <1>5, <1>6, <1>7, <1>8, <1>9, <1>10, <1>11, <1>12 DEF LauncherNext

(* A job of the table that is made CREATED has a new number.               *)
LEMMA OnlyNewAreCreated ==
  ASSUME LauTypeOK, LauTypeOK', CreateJob \/ LoadJobs, NEW n \in Numbers, n < counter
  PROVE  table'[n] = table[n] /\ counter <= counter'
<1>1. CASE CreateJob
  BY <1>1 DEF CreateJob, TableAdd, LauTypeOK
<1>2. CASE LoadJobs
  <2>1. n \notin counter .. counter + Len(file) - 1 /\ counter' = counter + Len(file) /\ Len(file) \in Nat
    BY <1>2, JobTableAssumption DEF LoadJobs, LauTypeOK
  <2> QED BY <1>2, <2>1, JobTableAssumption DEF LoadJobs, LauTypeOK
<1> QED BY <1>1, <1>2

LEMMA LaunchesStep ==
  ASSUME LauTypeOK, LauTypeOK', AllSeen, Launches, [LauncherNext]_launcherVars
  PROVE  Launches'
<1> USE DEF tableVars, history
<1>0. counter \in Nat /\ counter' \in Nat
  BY JobTableAssumption DEF LauTypeOK
<1>1. ASSUME UNCHANGED owner, counter <= counter',
             \A c \in Clients : request'[c] \in {request[c], Idle}
      PROVE  Launches'
  <2> SUFFICES ASSUME NEW c \in Clients, request'[c] # Idle
               PROVE  /\ request'[c].job < counter'
                      /\ request'[c].at = "submitted" => owner'[request'[c].ref] = request'[c].job
    BY DEF Launches
  <2>1. request'[c] = request[c] /\ request[c].job < counter /\ request[c].job \in Int
    BY <1>1, CallTypes DEF Launches, Numbers, LauTypeOK, LaunchCall
  <2> QED BY <1>0, <1>1, <2>1 DEF Launches
<1>2. CASE CreateJob \/ SaveJobs \/ LoadJobs \/ UNCHANGED launcherVars
  <2>1. counter <= counter'
    BY <1>0, <1>2, JobTableAssumption DEF CreateJob, TableAdd, SaveJobs, LoadJobs, launcherVars, LauTypeOK
  <2> QED BY <1>1, <1>2, <2>1 DEF CreateJob, SaveJobs, LoadJobs, launcherVars
<1>3. CASE Restart
  BY <1>3 DEF Restart, Launches, Idle
<1>4. ASSUME NEW c \in Clients, SubmitJob(c) PROVE Launches'
  <2>1. CASE UNCHANGED owner /\ request' = [request EXCEPT ![c] = Idle]
    BY <1>0, <1>1, <1>4, <2>1 DEF SubmitJob, LauTypeOK
  <2>2. ASSUME submitted < MaxBatch,
               request' = [request EXCEPT ![c] = [at |-> "submitted", job |-> request[c].job, ref |-> submitted + 1]],
               owner' = [owner EXCEPT ![submitted + 1] = request[c].job]
        PROVE  Launches'
    <3>1. submitted + 1 \in Refs /\ submitted \in Nat
      BY <2>2, LauncherAssumption DEF LauTypeOK
    <3>2. SUFFICES ASSUME NEW d \in Clients, request'[d] # Idle
                   PROVE  /\ request'[d].job < counter'
                          /\ request'[d].at = "submitted" => owner'[request'[d].ref] = request'[d].job
      BY DEF Launches
    <3>3. CASE d = c
      <4>1. /\ request'[d].ref = submitted + 1 /\ request'[d].job = request[c].job
            /\ owner'[submitted + 1] = request[c].job /\ request[c].job < counter /\ counter' = counter
        BY <1>4, <2>2, <3>1, <3>3 DEF SubmitJob, LauTypeOK, Launches, Idle
      <4> QED BY <4>1
    <3>4. CASE d # c
      <4>1. request'[d] = request[d]
        BY <2>2, <3>4 DEF LauTypeOK
      <4>2. request[d].job < counter /\ counter' = counter
        BY <1>4, <3>2, <4>1 DEF SubmitJob, Launches
      <4>3. ASSUME request[d].at = "submitted" PROVE owner'[request[d].ref] = request[d].job
        <5>1. request[d].ref \in Refs /\ request[d].ref <= submitted /\ owner[request[d].ref] = request[d].job
          BY <4>3, CallTypes DEF AllSeen, Seen, Launches, Idle
        <5> QED BY <2>2, <3>1, <5>1 DEF LauTypeOK
      <4> QED BY <4>1, <4>2, <4>3
    <3> QED BY <3>3, <3>4
  <2> QED BY <1>4, <2>1, <2>2 DEF SubmitJob
<1>5. ASSUME NEW c \in Clients, Launched(c) PROVE Launches'
  BY <1>0, <1>1, <1>5 DEF Launched, LauTypeOK
<1>6. ASSUME NEW c \in Clients, NEW n \in Numbers, LaunchJob(c, n) PROVE Launches'
  <2>1. UNCHANGED <<owner, counter>> /\ n < counter
    BY <1>6, CreatedBelow DEF LaunchJob, TableLaunch
  <2>2. CASE UNCHANGED request
    BY <1>0, <1>1, <2>1, <2>2
  <2>3. CASE request' = [request EXCEPT ![c] = [at |-> "submitting", job |-> n, ref |-> 0]]
    <3>1. request'[c].job = n /\ request'[c].at = "submitting"
          /\ \A d \in Clients \ {c} : request'[d] = request[d]
      BY <2>3 DEF LauTypeOK
    <3> QED BY <2>1, <3>1 DEF Launches
  <2> QED BY <1>6, <2>2, <2>3 DEF LaunchJob
<1>7. ASSUME NEW n \in Numbers, GetJobState(n) \/ StopJob(n) \/ RemoveJob(n) PROVE Launches'
  BY <1>0, <1>1, <1>7 DEF GetJobState, StopJob, TableStop, RemoveJob, TableRemove
<1>8. ASSUME NEW r \in Refs, BatchStep(r) PROVE Launches'
  BY <1>0, <1>1, <1>8 DEF BatchStep
<1> QED BY <1>2, <1>3, <1>4, <1>5, <1>6, <1>7, <1>8 DEF LauncherNext

LEMMA OwnersStep ==
  ASSUME LauTypeOK, LauTypeOK', Launches, Owners, [LauncherNext]_launcherVars
  PROVE  Owners'
<1> USE DEF tableVars, history
<1>a. counter \in Nat /\ counter' \in Nat /\ submitted \in Nat /\ submitted' \in Nat
  BY LauncherAssumption, JobTableAssumption DEF LauTypeOK
\* Steps that submit nothing, make no known job CREATED, and end no launch of a
\* job that stays so.
<1>b. ASSUME UNCHANGED <<owner, submitted>>, counter <= counter',
             \A n \in Numbers : n < counter /\ table'[n] = "CREATED" => table[n] = "CREATED",
             \A c \in Clients : request[c].at = "submitted" /\ table'[request[c].job] = "CREATED"
                                  => request'[c] = request[c]
      PROVE  Owners'
  <2> SUFFICES ASSUME NEW r \in Refs, owner'[r] # -1
               PROVE  /\ r <= submitted' /\ owner'[r] < counter'
                      /\ table'[owner'[r]] = "CREATED" => StillLaunching(r)'
    BY DEF Owners
  <2>1. /\ owner'[r] = owner[r] /\ owner[r] \in Numbers /\ r <= submitted /\ owner[r] < counter
        /\ table[owner[r]] = "CREATED" => StillLaunching(r)
    BY <1>b DEF Owners, LauTypeOK
  <2>2. ASSUME table'[owner[r]] = "CREATED" PROVE StillLaunching(r)'
    <3>1. PICK c \in Clients : request[c].at = "submitted" /\ request[c].ref = r
      BY <1>b, <2>1, <2>2 DEF StillLaunching
    <3>2. request[c].job = owner[r]
      BY <3>1 DEF Launches
    <3>3. request'[c] = request[c]
      BY <1>b, <2>2, <3>1, <3>2
    <3> QED BY <3>1, <3>3 DEF StillLaunching
  <2> QED BY <1>a, <1>b, <2>1, <2>2
<1>1. CASE CreateJob \/ LoadJobs
  <2>1. UNCHANGED <<owner, submitted, request>>
    BY <1>1 DEF CreateJob, LoadJobs
  <2>2. counter <= counter'
    BY <1>1, JobTableAssumption DEF CreateJob, TableAdd, LoadJobs, LauTypeOK
  <2> QED BY <1>1, <1>b, <2>1, <2>2, OnlyNewAreCreated
<1>2. CASE SaveJobs \/ UNCHANGED launcherVars
  BY <1>2, <1>a, <1>b DEF SaveJobs, launcherVars
<1>3. CASE Restart
  BY <1>3 DEF Restart, Owners
<1>4. ASSUME NEW c \in Clients, SubmitJob(c) PROVE Owners'
  <2> DEFINE j == request[c].job
  <2>1. /\ j \in Numbers /\ request[c].at = "submitting" /\ UNCHANGED <<table, counter>> /\ j < counter
    BY <1>4, CallTypes DEF SubmitJob, Launches, Idle
  <2>2. CASE UNCHANGED <<submitted, owner>> /\ request' = [request EXCEPT ![c] = Idle]
    BY <1>a, <1>b, <2>1, <2>2 DEF LauTypeOK
  <2>3. ASSUME submitted' = submitted + 1, submitted < MaxBatch,
               request' = [request EXCEPT ![c] = [at |-> "submitted", job |-> j, ref |-> submitted + 1]],
               owner' = [owner EXCEPT ![submitted + 1] = j]
        PROVE  Owners'
    <3> SUFFICES ASSUME NEW r \in Refs, owner'[r] # -1
                 PROVE  /\ r <= submitted' /\ owner'[r] < counter'
                        /\ table'[owner'[r]] = "CREATED" => StillLaunching(r)'
      BY DEF Owners
    <3>1. CASE r = submitted + 1
      <4>1. owner'[r] = j /\ request'[c].at = "submitted" /\ request'[c].ref = r
        BY <2>3, <3>1 DEF LauTypeOK
      <4> QED BY <1>a, <2>1, <2>3, <3>1, <4>1 DEF StillLaunching
    <3>2. CASE r # submitted + 1
      <4>1. /\ owner'[r] = owner[r] /\ r <= submitted /\ owner[r] < counter
            /\ table[owner[r]] = "CREATED" => StillLaunching(r)
        BY <2>3, <3>2 DEF Owners, LauTypeOK
      <4>2. StillLaunching(r) => StillLaunching(r)'
        <5>1. \A d \in Clients : request[d].at = "submitted" => request'[d] = request[d]
          BY <2>1, <2>3 DEF LauTypeOK
        <5> QED BY <5>1 DEF StillLaunching
      <4> QED BY <1>a, <2>1, <2>3, <4>1, <4>2
    <3> QED BY <3>1, <3>2
  <2> QED BY <1>4, <2>2, <2>3 DEF SubmitJob
<1>5. ASSUME NEW c \in Clients, Launched(c) PROVE Owners'
  <2> DEFINE j == request[c].job
  <2>1. j \in Numbers
    BY <1>5, CallTypes DEF Launched
  <2>2. /\ table' = [table EXCEPT ![j] = IF table[j] # "none" THEN "QUEUED" ELSE @]
        /\ UNCHANGED <<counter, owner, submitted>>
        /\ \A d \in Clients \ {c} : request'[d] = request[d]
    BY <1>5 DEF Launched, LauTypeOK
  <2>3. table'[j] # "CREATED" /\ \A n \in Numbers : table'[n] = "CREATED" => table[n] = "CREATED"
    BY <2>1, <2>2 DEF LauTypeOK
  <2> QED BY <1>a, <1>b, <2>2, <2>3
<1>6. ASSUME NEW c \in Clients, NEW n \in Numbers, LaunchJob(c, n) PROVE Owners'
  <2>1. /\ UNCHANGED <<owner, submitted, counter>>
        /\ \A d \in Clients : request[d].at = "submitted" => request'[d] = request[d]
    BY <1>6 DEF LaunchJob, TableLaunch, LauTypeOK, Idle
  <2>2. \A m \in Numbers : table'[m] = "CREATED" => table[m] = "CREATED"
    BY <1>6 DEF LaunchJob, TableLaunch, LauTypeOK
  <2> QED BY <1>a, <1>b, <2>1, <2>2
<1>7. ASSUME NEW n \in Numbers, GetJobState(n) PROVE Owners'
  <2>1. \A m \in Numbers : table'[m] = "CREATED" => table[m] = "CREATED"
    BY <1>7 DEF GetJobState, LauTypeOK
  <2> QED BY <1>7, <1>a, <1>b, <2>1 DEF GetJobState
<1>8. ASSUME NEW n \in Numbers, StopJob(n) \/ RemoveJob(n) PROVE Owners'
  <2>1. /\ \A m \in Numbers : table'[m] = "CREATED" => table[m] = "CREATED"
        /\ UNCHANGED <<owner, submitted, counter, request>>
    BY <1>8 DEF StopJob, TableStop, RemoveJob, TableRemove, LauTypeOK
  <2> QED BY <1>a, <1>b, <2>1
<1>9. ASSUME NEW r \in Refs, BatchStep(r) PROVE Owners'
  BY <1>9, <1>a, <1>b DEF BatchStep
<1> QED BY <1>1, <1>2, <1>3, <1>4, <1>5, <1>6, <1>7, <1>8, <1>9 DEF LauncherNext

LEMMA LauStarts == LauncherInit => LauInv
<1> SUFFICES ASSUME LauncherInit PROVE LauInv
  OBVIOUS
<1>1. LauTypeOK
  BY TypesStart
<1>2. Launches /\ Owners
  BY DEF LauncherInit, Launches, Owners
<1>3. AllSeen
  BY DEF LauncherInit, TableInit, AllSeen, Seen, Idle
<1> QED BY <1>1, <1>2, <1>3 DEF LauInv

LEMMA LauStep == LauInv /\ [LauncherNext]_launcherVars => LauInv'
<1> SUFFICES ASSUME LauInv, [LauncherNext]_launcherVars PROVE LauInv'
  OBVIOUS
<1>1. LauTypeOK'
  BY TypesStep DEF LauInv
<1>2. AllSeen'
  BY <1>1, SeenStep DEF LauInv
<1>3. Launches'
  BY <1>1, LaunchesStep DEF LauInv
<1>4. Owners'
  BY <1>1, OwnersStep DEF LauInv
<1> QED BY <1>1, <1>2, <1>3, <1>4 DEF LauInv

(* A request begins on a job that is CREATED.                              *)
LEMMA BeginsOnCreated ==
  ASSUME LauTypeOK, [LauncherNext]_launcherVars, NEW c \in Clients,
         request[c] = Idle, request'[c].at = "submitting"
  PROVE  table[request'[c].job] = "CREATED"
<1>0. request'[c] # request[c]
  BY DEF Idle
<1>1. ASSUME NEW d \in Clients, SubmitJob(d) \/ Launched(d) PROVE FALSE
  BY <1>0, <1>1 DEF SubmitJob, Launched, LauTypeOK, Idle
<1>2. ASSUME NEW d \in Clients, NEW n \in Numbers, LaunchJob(d, n)
      PROVE  table[request'[c].job] = "CREATED"
  BY <1>0, <1>2 DEF LaunchJob, LauTypeOK
<1>3. ASSUME CreateJob \/ SaveJobs \/ Restart \/ LoadJobs PROVE FALSE
  BY <1>0, <1>3 DEF CreateJob, SaveJobs, Restart, LoadJobs, Idle
<1>4. ASSUME NEW n \in Numbers, GetJobState(n) \/ StopJob(n) \/ RemoveJob(n) PROVE FALSE
  BY <1>0, <1>4 DEF GetJobState, StopJob, RemoveJob
<1>5. ASSUME NEW r \in Refs, BatchStep(r) PROVE FALSE
  BY <1>0, <1>5 DEF BatchStep
<1>6. ~ UNCHANGED launcherVars
  BY <1>0 DEF launcherVars
<1> QED BY <1>1, <1>2, <1>3, <1>4, <1>5, <1>6 DEF LauncherNext

(* With requests that overlap in any way: a launch that begins on a job     *)
(* that was given to the batch system before finds the request which gave   *)
(* it still under way.  A job is run twice by overlapping requests only,    *)
(* and a session whose requests do not overlap submits each job once.       *)
THEOREM JobSubmittedOnce == LauncherSpec => SubmittedOnce
<1>1. LauInv /\ [LauncherNext]_launcherVars => LauInv'
  BY LauStep
<1>2. ASSUME LauInv, [LauncherNext]_launcherVars, NEW c \in Clients, NEW r \in Refs,
             request[c] = Idle /\ request'[c].at = "submitting" /\ request'[c].job = owner[r]
      PROVE  StillLaunching(r)
  <2>1. table[owner[r]] = "CREATED"
    BY <1>2, BeginsOnCreated DEF LauInv
  <2>2. owner[r] # -1
    <3>1. LauTypeOK' /\ request'[c].at # "idle"
      BY <1>2, TypesStep DEF LauInv
    <3>2. request'[c].job \in Numbers
      BY <3>1, <1>2 DEF LauTypeOK, LaunchCall
    <3> QED BY <1>2, <3>2, JobTableAssumption DEF Numbers
  <2> QED BY <1>2, <2>1, <2>2 DEF LauInv, Owners
<1>3. LauInv /\ [LauncherNext]_launcherVars
        => [\A c \in Clients, r \in Refs :
              request[c] = Idle /\ request'[c].at = "submitting" /\ request'[c].job = owner[r]
                => StillLaunching(r)]_launcherVars
  BY <1>2
<1> QED BY <1>1, <1>3, LauStarts, PTL DEF LauncherSpec, SubmittedOnce

(* A job shown as queued or running can be followed to its end, and one    *)
(* shown as finished is over, in every session, with requests that overlap *)
(* too.                                                                    *)
THEOREM StatesAreTrue == LauncherSpec => [](AliveIsFollowed /\ FinishedIsOver)
<1>1. LauInv /\ [LauncherNext]_launcherVars => LauInv'
  BY LauStep
<1>2. LauInv => AliveIsFollowed /\ FinishedIsOver
  BY DEF LauInv, AllSeen, Seen, Polled, AliveIsFollowed, FinishedIsOver
<1> QED BY <1>1, <1>2, LauStarts, PTL DEF LauncherSpec

-----------------------------------------------------------------------------
(* The table the clients know                                              *)

LEMMA LoadIsTableLoad == ASSUME LauTypeOK, LauTypeOK', LoadJobs PROVE TableLoad
<1>1. counter' = counter + Len(file) /\ counter + Len(file) <= MaxJobs /\ Len(file) \in Nat /\ counter \in Nat
  BY JobTableAssumption DEF LoadJobs, LauTypeOK
<1>2. counter' \in counter .. MaxJobs
  BY <1>1, JobTableAssumption
<1>3. table' \in [Numbers -> States \cup {"none"}]
  BY DEF LauTypeOK
<1>4. ASSUME NEW n \in Numbers \ (counter .. counter' - 1) PROVE table'[n] = table[n]
  BY <1>1, <1>4 DEF LoadJobs
<1> QED BY <1>2, <1>3, <1>4 DEF TableLoad

LEMMA LauncherStep ==
  ASSUME LauInv, LauTypeOK', [LauncherNext]_launcherVars
  PROVE  [TableNext \/ Overtaken]_tableVars
<1> USE DEF tableVars
<1>0. LauTypeOK /\ AllSeen
  BY DEF LauInv
<1>1. CASE CreateJob
  BY <1>1 DEF CreateJob, TableNext
<1>2. CASE Restart
  BY <1>2 DEF Restart, TableNext
<1>3. CASE LoadJobs
  BY <1>0, <1>3, LoadIsTableLoad DEF TableNext
<1>4. CASE SaveJobs \/ UNCHANGED launcherVars
  BY <1>4 DEF SaveJobs, launcherVars
<1>5. ASSUME NEW c \in Clients, SubmitJob(c) PROVE UNCHANGED tableVars
  BY <1>5 DEF SubmitJob
<1>6. ASSUME NEW c \in Clients, Launched(c) PROVE [TableNext \/ Overtaken]_tableVars
  <2>1. request[c].job \in Numbers
    BY <1>0, <1>6, CallTypes DEF Launched
  <2>2. CASE table[request[c].job] = "CREATED"
    <3>1. TableLaunch(request[c].job, "QUEUED")
      BY <1>6, <2>2 DEF Launched, TableLaunch
    <3> QED BY <2>1, <3>1 DEF TableNext
  <2>3. CASE table[request[c].job] = "none"
    <3>1. table' = [table EXCEPT ![request[c].job] = @] /\ UNCHANGED counter
      BY <1>6, <2>3 DEF Launched
    <3> QED BY <1>0, <3>1 DEF LauTypeOK
  <2>4. CASE table[request[c].job] \notin {"CREATED", "none"}
    BY <1>6, <2>4 DEF Launched, Overtaken
  <2> QED BY <2>2, <2>3, <2>4
<1>7. ASSUME NEW c \in Clients, NEW n \in Numbers, LaunchJob(c, n) PROVE TableNext \/ UNCHANGED tableVars
  BY <1>7 DEF LaunchJob, TableNext
<1>8. ASSUME NEW n \in Numbers, GetJobState(n) PROVE TableNext
  <2>1. table[n] \in Alive /\ batch[reference[n]] \in Polled(table[n])
    BY <1>0, <1>8 DEF GetJobState, AllSeen, Seen, LauTypeOK
  <2>2. TablePoll(n)
    BY <1>8, <2>1 DEF GetJobState, TablePoll
  <2> QED BY <2>2 DEF TableNext
<1>9. ASSUME NEW n \in Numbers, StopJob(n) PROVE TableNext
  BY <1>9 DEF StopJob, TableNext
<1>10. ASSUME NEW n \in Numbers, RemoveJob(n) PROVE TableNext
  BY <1>10 DEF RemoveJob, TableNext
<1>11. ASSUME NEW r \in Refs, BatchStep(r) PROVE UNCHANGED tableVars
  BY <1>11 DEF BatchStep
<1> QED BY <1>1, <1>2, <1>3, <1>4, <1>5, <1>6, <1>7, <1>8, <1>9, <1>10, <1>11 DEF LauncherNext

(* With requests that overlap in any way, the launcher is the table its     *)
(* clients know, but for overtaken launches: a job is launched when it is   *)
(* CREATED, its state only moves as the batch system moves it, and numbers  *)
(* are not given twice in a session.                                        *)
THEOREM LauncherIsTable == LauncherSpec => ImplementsTable
<1>1. LauncherInit => TableInit
  BY DEF LauncherInit
<1>2. LauInv /\ [LauncherNext]_launcherVars => LauInv'
  BY LauStep
<1>3. LauInv => LauTypeOK
  BY DEF LauInv
<1>4. LauInv /\ LauTypeOK' /\ [LauncherNext]_launcherVars => [TableNext \/ Overtaken]_tableVars
  BY LauncherStep
<1> QED BY <1>1, <1>2, <1>3, <1>4, LauStarts, PTL DEF LauncherSpec, ImplementsTable

-----------------------------------------------------------------------------
(* The job manager                                                         *)

USE DEF Names

Entries == [state : States \cup {"NOT_CREATED"}, id : -1 .. MaxJobs - 1]
Removed(i) == Thread("removed", i, NoName)

(* The entries have types, and numbers below the counter; so have the jobs *)
(* of the launcher.                                                        *)
EntryTypes ==
  /\ table \in [Numbers -> States \cup {"none"}] /\ counter \in 0 .. MaxJobs
  /\ \A i \in Numbers : table[i] # "none" => i < counter
  /\ jobs \in [Names -> Entries]
  /\ \A n \in Names : jobs[n].id < counter
  /\ IsABag(threads)

JmInv == EntryTypes /\ OneEntryPerJob /\ GoneIsTold

LEMMA SpawnedBag ==
  ASSUME NEW B, IsABag(B), NEW N
  PROVE  /\ IsABag(B (+) SetToBag(N))
         /\ \A t : BagIn(t, B) \/ t \in N => BagIn(t, B (+) SetToBag(N))
BY DEF IsABag, BagIn, BagToSet, SetToBag, (+)

LEMMA EndedBag ==
  ASSUME NEW B, IsABag(B), NEW t
  PROVE  /\ IsABag(B (-) SetToBag({t}))
         /\ \A u : BagIn(u, B) /\ u # t => BagIn(u, B (-) SetToBag({t}))
BY DEF IsABag, BagIn, BagToSet, SetToBag, (-)

LEMMA Spawns ==
  ASSUME IsABag(threads), NEW N, Spawn(N)
  PROVE  /\ IsABag(threads')
         /\ \A t : BagIn(t, threads) \/ t \in N => BagIn(t, threads')
BY SpawnedBag DEF Spawn

LEMMA EndsThread ==
  ASSUME IsABag(threads), NEW t, NEW N, Ends(t, N)
  PROVE  /\ IsABag(threads')
         /\ \A u : BagIn(u, threads) /\ u # t => BagIn(u, threads')
<1> DEFINE B == threads (-) SetToBag({t})
<1>1. IsABag(B) /\ \A u : BagIn(u, threads) /\ u # t => BagIn(u, B)
  BY EndedBag
<1>2. threads' = B (+) SetToBag(N)
  BY DEF Ends
<1> HIDE DEF B
<1> QED BY <1>1, <1>2, SpawnedBag

(* A step that gives a job an entry only if no other entry has it, and     *)
(* leaves none behind of a job it removes without a thread to tell it.     *)
LEMMA EntriesKept ==
  ASSUME JmInv, EntryTypes',
         \A n \in DOMAIN jobs' :
           \/ jobs'[n].id = -1
           \/ n \in Names /\ jobs'[n].id = jobs[n].id
           \/ /\ table'[jobs'[n].id] # "none"
              /\ \A m \in DOMAIN jobs' : jobs'[m].id = jobs'[n].id => m = n,
         \A i \in Numbers : table[i] # "none" /\ table'[i] = "none" => BagIn(Removed(i), threads'),
         \A i \in Numbers : BagIn(Removed(i), threads) =>
           BagIn(Removed(i), threads') \/ \A n \in DOMAIN jobs' : jobs'[n].id # i
  PROVE  JmInv'
<1>1. OneEntryPerJob'
  BY DEF JmInv, OneEntryPerJob
<1>2. GoneIsTold'
  <2> SUFFICES ASSUME NEW n \in DOMAIN jobs', jobs'[n].id # -1, table'[jobs'[n].id] = "none"
               PROVE  BagIn(Removed(jobs'[n].id), threads')
    BY DEF GoneIsTold, Known, Removed
  <2>1. n \in Names /\ jobs'[n].id = jobs[n].id
    OBVIOUS
  <2>2. jobs[n].id \in Numbers
    BY <2>1, JobTableAssumption DEF JmInv, EntryTypes, Entries
  <2>3. Known(n) \/ BagIn(Removed(jobs[n].id), threads)
    BY <2>1 DEF JmInv, GoneIsTold, Removed
  <2> QED BY <2>1, <2>2, <2>3 DEF Known
<1> QED BY <1>1, <1>2 DEF JmInv

(* Steps that leave the entries and the jobs as they are.                  *)
LEMMA EntriesSame ==
  ASSUME JmInv, UNCHANGED <<tableVars, jobs>>, IsABag(threads'),
         \A i \in Numbers : BagIn(Removed(i), threads) => BagIn(Removed(i), threads')
  PROVE  JmInv'
<1>1. EntryTypes'
  BY DEF JmInv, EntryTypes, tableVars
<1> QED BY <1>1, EntriesKept DEF JmInv, EntryTypes, tableVars

LEMMA JmStarts == JmInit => JmInv
BY JobTableAssumption DEF JmInit, TableInit, JmInv, EntryTypes, OneEntryPerJob, GoneIsTold,
   EmptyBag, SetToBag, IsABag

LEMMA RemovedInTable ==
  ASSUME EntryTypes, NEW i \in Numbers, TableRemove(i)
  PROVE  /\ table' \in [Numbers -> States \cup {"none"}] /\ counter' = counter
         /\ \A k \in Numbers : table'[k] = IF k = i THEN "none" ELSE table[k]
BY DEF EntryTypes, TableRemove

LEMMA DeleteJobKeeps ==
  ASSUME JmInv, NEW n, DeleteJob(n)
  PROVE  JmInv'
<1>0. EntryTypes
  BY DEF JmInv
<1>1. /\ jobs' = [x \in Names \ {n} |-> jobs[x]] /\ DOMAIN jobs' = Names \ {n}
      /\ jobs' \in [Names \ {n} -> Entries]
  BY DEF DeleteJob, JmInv, EntryTypes
<1>2. CASE Known(n)
  <2> DEFINE i == jobs[n].id
  <2>1. i \in Numbers
    BY <1>2, JobTableAssumption DEF Known, JmInv, EntryTypes, Entries
  <2>2. TableRemove(i) /\ Spawn({Removed(i)})
    BY <1>2 DEF DeleteJob, Removed
  <2>3. IsABag(threads') /\ \A t : BagIn(t, threads) \/ t = Removed(i) => BagIn(t, threads')
    BY <1>0, <2>2, Spawns DEF EntryTypes
  <2>4. /\ table' \in [Numbers -> States \cup {"none"}] /\ counter' = counter
        /\ \A k \in Numbers : table'[k] = IF k = i THEN "none" ELSE table[k]
    BY <1>0, <2>1, <2>2, RemovedInTable
  <2> HIDE DEF i
  <2>5. EntryTypes'
    BY <1>0, <1>1, <2>3, <2>4 DEF EntryTypes
  <2> QED BY <1>1, <2>3, <2>4, <2>5, EntriesKept
<1>3. CASE ~ Known(n)
  <2>1. UNCHANGED <<tableVars, threads>>
    BY <1>3 DEF DeleteJob
  <2>2. EntryTypes'
    BY <1>0, <1>1, <2>1 DEF EntryTypes, tableVars
  <2> QED BY <1>1, <2>1, <2>2, EntriesKept DEF tableVars
<1> QED BY <1>2, <1>3

LEMMA NumbersOfEntries ==
  ASSUME EntryTypes
  PROVE  counter \in Int /\ \A m \in Names : jobs[m].id \in Int /\ jobs[m].id < counter + 1
BY JobTableAssumption DEF EntryTypes, Entries

LEMMA AddedToTable ==
  ASSUME EntryTypes, NEW s \in States, TableAdd(s)
  PROVE  /\ table' \in [Numbers -> States \cup {"none"}] /\ counter' \in 0 .. MaxJobs
         /\ counter \in Numbers /\ counter' = counter + 1 /\ table[counter] = "none"
         /\ \A i \in Numbers : table'[i] = IF i = counter THEN s ELSE table[i]
         /\ \A i \in Numbers : table'[i] # "none" => i < counter'
BY JobTableAssumption DEF EntryTypes, TableAdd

LEMMA PolledTable ==
  ASSUME EntryTypes, NEW i \in Numbers, TablePoll(i)
  PROVE  /\ table' \in [Numbers -> States \cup {"none"}] /\ counter' = counter
         /\ \A k \in Numbers : table'[k] = "none" <=> table[k] = "none"
BY DEF EntryTypes, TablePoll, Polled

LEMMA StoppedTable ==
  ASSUME EntryTypes, NEW i \in Numbers, TableStop(i)
  PROVE  /\ table' \in [Numbers -> States \cup {"none"}] /\ counter' = counter
         /\ \A k \in Numbers : table'[k] = "none" <=> table[k] = "none"
BY DEF EntryTypes, TableStop

LEMMA LaunchedTable ==
  ASSUME EntryTypes, NEW i \in Numbers, TableLaunch(i, "QUEUED")
  PROVE  /\ table' \in [Numbers -> States \cup {"none"}] /\ counter' = counter
         /\ \A k \in Numbers : table'[k] = "none" <=> table[k] = "none"
BY DEF EntryTypes, TableLaunch

(* Steps that give no number and remove no job.                            *)
LEMMA NumbersKept ==
  ASSUME JmInv, table' \in [Numbers -> States \cup {"none"}], counter' = counter,
         \A k \in Numbers : table'[k] = "none" <=> table[k] = "none",
         jobs' \in [Names -> Entries], \A n \in Names : jobs'[n].id = jobs[n].id,
         IsABag(threads'),
         \A i \in Numbers : BagIn(Removed(i), threads) => BagIn(Removed(i), threads')
  PROVE  JmInv'
<1>1. EntryTypes'
  BY DEF JmInv, EntryTypes
<1> QED BY <1>1, EntriesKept

LEMMA AddJobKeeps ==
  ASSUME JmInv, AddJob
  PROVE  JmInv'
<1> DEFINE n == gui.name
<1>0. EntryTypes /\ n \notin Names /\ IsABag(threads)
  BY DEF JmInv, EntryTypes, AddJob
<1>1. ASSUME NEW e \in Entries, Put(n, e)
      PROVE  /\ jobs' \in [Names \cup {n} -> Entries] /\ jobs'[n] = e
             /\ \A m \in Names : jobs'[m] = jobs[m]
  BY <1>0, <1>1 DEF Put, EntryTypes
<1>2. CASE TableAdd("CREATED") /\ Put(n, [state |-> "CREATED", id |-> counter])
           /\ ShowNew(n, "CREATED", {Thread("new", counter, NoName)})
  <2>1. [state |-> "CREATED", id |-> counter] \in Entries
    BY <1>0, <1>2, AddedToTable DEF Entries
  <2>2. IsABag(threads') /\ \A t : BagIn(t, threads) => BagIn(t, threads')
    BY <1>0, <1>2, Spawns DEF ShowNew
  <2>3. EntryTypes'
    <3>1. \A m \in DOMAIN jobs' : jobs'[m].id < counter'
      BY <1>0, <1>1, <1>2, <2>1, AddedToTable, NumbersOfEntries
    <3> QED BY <1>0, <1>1, <1>2, <2>1, <2>2, <3>1, AddedToTable DEF EntryTypes
  <2>4. \A m \in Names : jobs'[m].id # counter
    BY <1>0, <1>1, <1>2, <2>1 DEF EntryTypes
  <2> QED BY <1>0, <1>1, <1>2, <2>1, <2>2, <2>3, <2>4, AddedToTable, EntriesKept
<1>3. CASE Put(n, [state |-> "CREATED", id |-> -1]) /\ IsABag(threads')
           /\ (UNCHANGED tableVars \/ TableAdd("CREATED"))
           /\ \A t : BagIn(t, threads) => BagIn(t, threads')
  <2>1. [state |-> "CREATED", id |-> -1] \in Entries
    BY JobTableAssumption DEF Entries
  <2>2. EntryTypes' /\ \A i \in Numbers : table[i] # "none" => table'[i] # "none"
    <3>1. \A m \in DOMAIN jobs' : jobs'[m].id = -1 \/ (m \in Names /\ jobs'[m].id = jobs[m].id)
      BY <1>1, <1>3, <2>1
    <3>2. CASE UNCHANGED tableVars
      <4>1. \A m \in DOMAIN jobs' : jobs'[m].id < counter'
        BY <1>0, <3>1, <3>2, JobTableAssumption DEF EntryTypes, tableVars
      <4> QED BY <1>0, <1>1, <1>3, <2>1, <3>2, <4>1 DEF EntryTypes, tableVars
    <3>3. CASE TableAdd("CREATED")
      <4>1. \A m \in DOMAIN jobs' : jobs'[m].id < counter'
        BY <1>0, <3>1, <3>3, AddedToTable, NumbersOfEntries, JobTableAssumption
      <4> QED BY <1>0, <1>1, <1>3, <2>1, <3>3, <4>1, AddedToTable DEF EntryTypes
    <3> QED BY <1>3, <3>2, <3>3
  <2> QED BY <1>1, <1>3, <2>1, <2>2, EntriesKept
<1>4. ASSUME TableAdd("CREATED") , Spawn({Thread("new", counter, NoName)})
      PROVE  IsABag(threads') /\ \A t : BagIn(t, threads) => BagIn(t, threads')
  BY <1>0, <1>4, Spawns
<1> QED BY <1>0, <1>2, <1>3, <1>4 DEF AddJob, launcher

LEMMA NewJobKeeps ==
  ASSUME JmInv, NEW i \in Numbers, NewJob(i)
  PROVE  JmInv'
<1> DEFINE t == Thread("new", i, NoName)
<1>0. EntryTypes /\ IsABag(threads)
  BY DEF JmInv, EntryTypes
<1>1. Ends(t, {})
  BY DEF NewJob
<1>2. \A k : Removed(k) # t
  BY DEF Removed, Thread
<1>3. IsABag(threads') /\ \A k : BagIn(Removed(k), threads) => BagIn(Removed(k), threads')
  BY <1>0, <1>1, <1>2, EndsThread
<1>4. CASE UNCHANGED <<tableVars, jobs>>
  BY <1>3, <1>4, EntriesSame
<1>5. ASSUME table[i] # "none", \A n \in Names : jobs[n].id # i, TablePoll(i),
             NEW name, Put(name, [state |-> table'[i], id |-> i])
      PROVE  JmInv'
  <2>1. /\ table' \in [Numbers -> States \cup {"none"}] /\ counter' = counter
        /\ \A k \in Numbers : table'[k] = "none" <=> table[k] = "none"
    BY <1>0, <1>5, PolledTable
  <2>2. [state |-> table'[i], id |-> i] \in Entries /\ i < counter
    BY <1>0, <1>5, <2>1, JobTableAssumption DEF Entries, EntryTypes
  <2>3. /\ jobs' \in [Names \cup {name} -> Entries] /\ jobs'[name].id = i
        /\ \A m \in Names \ {name} : jobs'[m] = jobs[m]
    BY <1>0, <1>5, <2>2 DEF Put, EntryTypes
  <2>4. EntryTypes'
    BY <1>0, <1>3, <2>1, <2>2, <2>3 DEF EntryTypes
  <2> QED BY <1>3, <1>5, <2>1, <2>3, <2>4, EntriesKept
<1> QED BY <1>4, <1>5 DEF NewJob

LEMMA RemovedJobKeeps ==
  ASSUME JmInv, NEW i \in Numbers, RemovedJob(i)
  PROVE  JmInv'
<1> DEFINE gone == {n \in Names : jobs[n].id = i}
<1>0. EntryTypes /\ IsABag(threads)
  BY DEF JmInv, EntryTypes
<1>1. Ends(Removed(i), {}) /\ UNCHANGED tableVars
      /\ jobs' = [n \in Names |-> IF n \in gone THEN [jobs[n] EXCEPT !.id = -1] ELSE jobs[n]]
  BY DEF RemovedJob, Removed, launcher
<1>2. \A k \in Numbers : k # i => Removed(k) # Removed(i)
  BY DEF Removed, Thread
<1>3. IsABag(threads')
      /\ \A k \in Numbers : k # i /\ BagIn(Removed(k), threads) => BagIn(Removed(k), threads')
  BY <1>0, <1>1, <1>2, EndsThread
<1>4. /\ jobs' \in [Names -> Entries]
      /\ \A n \in Names : jobs'[n].id = IF jobs[n].id = i THEN -1 ELSE jobs[n].id
  BY <1>0, <1>1, JobTableAssumption DEF EntryTypes, Entries
<1>5. EntryTypes'
  BY <1>0, <1>1, <1>3, <1>4 DEF EntryTypes, tableVars
<1>6. \A n \in DOMAIN jobs' : n \in Names /\ jobs'[n].id # i
  BY <1>4
<1> QED BY <1>1, <1>3, <1>4, <1>5, <1>6, EntriesKept DEF tableVars

LEMMA ThreadsKeep ==
  ASSUME JmInv, NEW n, StartThread(n) \/ StopThread(n) \/ ResultsThread(n)
  PROVE  JmInv'
<1>0. EntryTypes /\ IsABag(threads)
  BY DEF JmInv, EntryTypes
<1>1. ASSUME NEW what \in {"start", "stop", "results"}, NEW N, Ends(Thread(what, -1, n), N)
      PROVE  IsABag(threads') /\ \A i : BagIn(Removed(i), threads) => BagIn(Removed(i), threads')
  <2>1. \A i : Removed(i) # Thread(what, -1, n)
    BY DEF Removed, Thread
  <2> QED BY <1>0, <1>1, <2>1, EndsThread
<1>2. Known(n) => jobs[n].id \in Numbers
  BY <1>0, JobTableAssumption DEF Known, EntryTypes, Entries
<1>3. CASE StartThread(n)
  <2>1. IsABag(threads') /\ \A i : BagIn(Removed(i), threads) => BagIn(Removed(i), threads')
    BY <1>1, <1>3 DEF StartThread
  <2>2. \/ UNCHANGED <<tableVars, jobs>>
        \/ /\ n \in Names /\ jobs' \in [Names -> Entries]
           /\ \A m \in Names : jobs'[m].id = jobs[m].id
           /\ UNCHANGED tableVars \/ (Known(n) /\ TableLaunch(jobs[n].id, "QUEUED"))
    <3>1. ASSUME n \in Names, NEW st \in States, jobs' = [jobs EXCEPT ![n].state = st]
          PROVE  jobs' \in [Names -> Entries] /\ \A m \in Names : jobs'[m].id = jobs[m].id
      BY <1>0, <3>1 DEF EntryTypes, Entries
    <3>2. \/ UNCHANGED <<tableVars, jobs>>
          \/ /\ n \in Names /\ \E st \in States : jobs' = [jobs EXCEPT ![n].state = st]
             /\ UNCHANGED tableVars \/ (Known(n) /\ TableLaunch(jobs[n].id, "QUEUED"))
      <4> HIDE DEF Names
      <4>1. "QUEUED" \in States /\ "ERROR" \in States
        OBVIOUS
      <4>2. CASE n \notin Names /\ UNCHANGED <<tableVars, jobs>>
        BY <4>2
      <4>3. CASE Known(n) /\ TableLaunch(jobs[n].id, "QUEUED") /\ jobs' = [jobs EXCEPT ![n].state = "QUEUED"]
        BY <4>1, <4>3 DEF Known
      <4>4. CASE n \in Names /\ UNCHANGED tableVars /\ jobs' = [jobs EXCEPT ![n].state = "ERROR"]
        BY <4>1, <4>4
      <4> QED BY <1>3, <4>2, <4>3, <4>4, Zenon DEF StartThread
    <3> QED BY <3>1, <3>2
  <2>3. CASE UNCHANGED <<tableVars, jobs>>
    BY <2>1, <2>3, EntriesSame
  <2>4. CASE UNCHANGED tableVars /\ jobs' \in [Names -> Entries]
             /\ \A m \in Names : jobs'[m].id = jobs[m].id
    BY <1>0, <2>1, <2>4, NumbersKept DEF EntryTypes, tableVars
  <2>5. CASE Known(n) /\ TableLaunch(jobs[n].id, "QUEUED") /\ jobs' \in [Names -> Entries]
             /\ \A m \in Names : jobs'[m].id = jobs[m].id
    BY <1>0, <1>2, <2>1, <2>5, LaunchedTable, NumbersKept
  <2> QED BY <2>2, <2>3, <2>4, <2>5
<1>4. CASE StopThread(n)
  <2>1. IsABag(threads') /\ \A i : BagIn(Removed(i), threads) => BagIn(Removed(i), threads')
    BY <1>1, <1>4 DEF StopThread
  <2>2. jobs' = jobs /\ (UNCHANGED tableVars \/ (Known(n) /\ TableStop(jobs[n].id)))
    BY <1>4 DEF StopThread
  <2>3. CASE UNCHANGED tableVars
    BY <2>1, <2>2, <2>3, EntriesSame
  <2>4. CASE Known(n) /\ TableStop(jobs[n].id)
    BY <1>0, <1>2, <2>1, <2>2, <2>4, StoppedTable, NumbersKept DEF EntryTypes
  <2> QED BY <2>2, <2>3, <2>4
<1>5. CASE ResultsThread(n)
  BY <1>1, <1>5, EntriesSame DEF ResultsThread, launcher
<1> QED BY <1>3, <1>4, <1>5

LEMMA RefreshKeeps ==
  ASSUME JmInv, RefreshThread
  PROVE  JmInv'
<1> DEFINE t == Thread("refresh", -1, NoName)
           asked == {n \in Names : Known(n) /\ jobs[n].state \notin Final \cup {"NOT_CREATED"}}
           numbers == {jobs[n].id : n \in asked}
<1>0. EntryTypes /\ IsABag(threads)
  BY DEF JmInv, EntryTypes
<1>1. Ends(t, {}) /\ counter' = counter
      /\ table' \in {new \in [Numbers -> States \cup {"none"}] :
           \A i \in Numbers : IF i \in numbers THEN new[i] \in Polled(table[i]) ELSE new[i] = table[i]}
      /\ jobs' = [n \in Names |-> IF n \in asked THEN [jobs[n] EXCEPT !.state = table'[jobs[n].id]]
                                  ELSE jobs[n]]
  BY DEF RefreshThread
<1>2. IsABag(threads') /\ \A i : BagIn(Removed(i), threads) => BagIn(Removed(i), threads')
  <2>1. \A i : Removed(i) # t
    BY DEF Removed, Thread
  <2> QED BY <1>0, <1>1, <2>1, EndsThread
<1>3. table' \in [Numbers -> States \cup {"none"}]
      /\ \A k \in Numbers : table'[k] = "none" <=> table[k] = "none"
  BY <1>0, <1>1 DEF Polled, EntryTypes
<1>4. \A n \in asked : jobs[n].id \in Numbers /\ table[jobs[n].id] # "none"
  BY <1>0, JobTableAssumption DEF Known, EntryTypes, Entries
<1>5. jobs' \in [Names -> Entries] /\ \A n \in Names : jobs'[n].id = jobs[n].id
  <2> SUFFICES ASSUME NEW n \in Names PROVE jobs'[n] \in Entries /\ jobs'[n].id = jobs[n].id
    BY <1>1
  <2>1. jobs[n] \in Entries
    BY <1>0 DEF EntryTypes
  <2>2. CASE n \in asked
    <3>1. table'[jobs[n].id] \in States
      BY <1>3, <1>4, <2>2
    <3>2. jobs'[n] = [jobs[n] EXCEPT !.state = table'[jobs[n].id]]
      BY <1>1, <2>2
    <3> QED BY <2>1, <3>1, <3>2 DEF Entries
  <2>3. CASE n \notin asked
    BY <1>1, <2>1, <2>3
  <2> QED BY <2>2, <2>3
<1> QED BY <1>1, <1>2, <1>3, <1>5, NumbersKept

(* The buttons, the wizard and the events of the GUI.                      *)
LEMMA GuiKeeps ==
  ASSUME JmInv,
         \/ \E i \in DOMAIN rows : Select(i)
         \/ StartJob \/ StopJobAsked \/ GetResults \/ RefreshJobs \/ Delete \/ RestartJob
         \/ \E n \in OwnNames \cup {pick.name} : OpenWizard(n)
         \/ CancelWizard \/ FinishWizard \/ SetNotCreated \/ HandleEvent \/ Fall
  PROVE  JmInv'
<1>0. EntryTypes /\ IsABag(threads)
  BY DEF JmInv, EntryTypes
<1>1. ASSUME NEW N, Spawn(N), UNCHANGED <<tableVars, jobs>> PROVE JmInv'
  BY <1>0, <1>1, Spawns, EntriesSame
<1>2. ASSUME UNCHANGED <<tableVars, jobs, threads>> PROVE JmInv'
  BY <1>0, <1>2, EntriesSame
<1>3. CASE (\E i \in DOMAIN rows : Select(i)) \/ CancelWizard \/ Fall
           \/ \E n \in OwnNames \cup {pick.name} : OpenWizard(n)
  BY <1>2, <1>3 DEF Select, CancelWizard, Fall, Crash, OpenWizard, launcher
<1>4. CASE StartJob \/ StopJobAsked \/ GetResults \/ RefreshJobs
  BY <1>1, <1>4 DEF StartJob, StopJobAsked, GetResults, RefreshJobs, launcher
<1>5. CASE Delete \/ RestartJob
  BY <1>5, DeleteJobKeeps DEF Delete, RestartJob
<1>6. CASE FinishWizard
  BY <1>2, <1>6, DeleteJobKeeps DEF FinishWizard, launcher
<1>7. CASE HandleEvent
  BY <1>2, <1>7, DeleteJobKeeps DEF HandleEvent, launcher
<1>8. CASE SetNotCreated
  <2>1. jobs' \in [Names -> Entries] /\ \A n \in Names : jobs'[n].id = jobs[n].id
    BY <1>0, <1>8 DEF SetNotCreated, EntryTypes, Entries
  <2>2. IsABag(threads') /\ \A t : BagIn(t, threads) => BagIn(t, threads')
    BY <1>0, <1>8, Spawns DEF SetNotCreated, ShowNew
  <2> QED BY <1>0, <1>8, <2>1, <2>2, NumbersKept DEF SetNotCreated, launcher, tableVars, EntryTypes
<1> QED BY <1>3, <1>4, <1>5, <1>6, <1>7, <1>8

LEMMA OthersKeep ==
  ASSUME JmInv,
         \/ \E n \in OtherNames : OtherAdd(n)
         \/ \E i \in Numbers : OtherRemove(i) \/ OtherStop(i) \/ OtherLaunch(i) \/ OtherPoll(i)
  PROVE  JmInv'
<1>0. EntryTypes /\ IsABag(threads) /\ jobs \in [Names -> Entries]
  BY DEF JmInv, EntryTypes
<1>1. CASE \E n \in OtherNames : OtherAdd(n)
  <2>1. jobs' = jobs /\ (TableAdd("CREATED") \/ TableAdd("RUNNING"))
        /\ Spawn({Thread("new", counter, NoName)})
    BY <1>1 DEF OtherAdd
  <2>2. IsABag(threads') /\ \A t : BagIn(t, threads) => BagIn(t, threads')
    BY <1>0, <2>1, Spawns
  <2>3. EntryTypes' /\ \A i \in Numbers : table[i] # "none" => table'[i] # "none"
    <3>1. \A m \in Names : jobs[m].id < counter'
      BY <1>0, <2>1, AddedToTable, NumbersOfEntries
    <3> QED BY <1>0, <2>1, <2>2, <3>1, AddedToTable DEF EntryTypes
  <2> QED BY <2>1, <2>2, <2>3, EntriesKept
<1>2. ASSUME NEW i \in Numbers, OtherRemove(i) PROVE JmInv'
  <2>1. jobs' = jobs /\ TableRemove(i) /\ Spawn({Removed(i)})
    BY <1>2 DEF OtherRemove, Removed
  <2>2. IsABag(threads') /\ \A t : BagIn(t, threads) \/ t = Removed(i) => BagIn(t, threads')
    BY <1>0, <2>1, Spawns
  <2>3. /\ table' \in [Numbers -> States \cup {"none"}] /\ counter' = counter
        /\ \A k \in Numbers : table'[k] = IF k = i THEN "none" ELSE table[k]
    BY <1>0, <2>1, RemovedInTable
  <2>4. EntryTypes'
    BY <1>0, <2>1, <2>2, <2>3 DEF EntryTypes
  <2> QED BY <2>1, <2>2, <2>3, <2>4, EntriesKept
<1>3. ASSUME NEW i \in Numbers, OtherStop(i) PROVE JmInv'
  <2>1. IsABag(threads') /\ \A t : BagIn(t, threads) => BagIn(t, threads')
    BY <1>0, <1>3, Spawns DEF OtherStop
  <2> QED BY <1>0, <1>3, <2>1, StoppedTable, NumbersKept DEF OtherStop
<1>4. ASSUME NEW i \in Numbers, OtherLaunch(i) \/ OtherPoll(i) PROVE JmInv'
  BY <1>0, <1>4, LaunchedTable, PolledTable, NumbersKept DEF OtherLaunch, OtherPoll
<1> QED BY <1>1, <1>2, <1>3, <1>4

LEMMA JmKept ==
  ASSUME JmInv, [JmNext]_jmVars
  PROVE  JmInv'
<1>1. CASE UNCHANGED jmVars
  BY <1>1, EntriesSame DEF jmVars, launcher, JmInv, EntryTypes
<1>2. CASE JmNext
  BY <1>2, GuiKeeps, AddJobKeeps, NewJobKeeps, RemovedJobKeeps, ThreadsKeep, RefreshKeeps, OthersKeep
     DEF JmNext, Numbered, Named
<1> QED BY <1>1, <1>2

(* A job of the launcher has at most one entry in the job manager,         *)
(* whichever comes first of the answer to createJob and the notification,  *)
(* and whatever the other clients of the launcher do.                      *)
THEOREM OneEntry == JmSpec => []OneEntryPerJob
<1>1. JmInv => OneEntryPerJob
  BY DEF JmInv
<1> QED BY <1>1, JmStarts, JmKept, PTL DEF JmSpec

(* An entry the job of which is no longer in the launcher has lost its     *)
(* number, or is about to: no entry stands for a removed job for ever.     *)
THEOREM GoneAreTold == JmSpec => []GoneIsTold
<1>1. JmInv => GoneIsTold
  BY DEF JmInv
<1> QED BY <1>1, JmStarts, JmKept, PTL DEF JmSpec

(* The mutex of the map that the GUI takes for a stop or for the results   *)
(* is not left locked: the thread that releases it is there.               *)
THEOREM LockIsHandedOver == JmSpec => []LockHandedOver
<1>1. JmInit => LockHandedOver
  BY DEF JmInit, LockHandedOver
<1>2. ASSUME JmInv, LockHandedOver, [JmNext]_jmVars PROVE LockHandedOver'
  <2> SUFFICES ASSUME locked' PROVE \E t \in BagToSet(threads') : t.does \in {"stop", "results"}
    BY DEF LockHandedOver
  <2>0. IsABag(threads)
    BY <1>2 DEF JmInv, EntryTypes
  <2>1. ASSUME locked, \A t : BagIn(t, threads) => BagIn(t, threads')
        PROVE  \E t \in BagToSet(threads') : t.does \in {"stop", "results"}
    BY <1>2, <2>1 DEF LockHandedOver, BagIn
  <2>2. ASSUME locked, NEW N, Spawn(N)
        PROVE  \E t \in BagToSet(threads') : t.does \in {"stop", "results"}
    BY <2>0, <2>1, <2>2, Spawns
  <2>3. ASSUME locked, threads' = threads
        PROVE  \E t \in BagToSet(threads') : t.does \in {"stop", "results"}
    BY <2>1, <2>3
  <2>4. CASE UNCHANGED jmVars
    BY <2>3, <2>4 DEF jmVars
  <2>5. ASSUME NEW what \in {"stop", "results"}, Spawn({Thread(what, -1, pick.name)})
        PROVE  \E t \in BagToSet(threads') : t.does \in {"stop", "results"}
    <3>1. BagIn(Thread(what, -1, pick.name), threads')
      BY <2>0, <2>5, Spawns
    <3> QED BY <3>1 DEF BagIn, Thread
  <2>6. CASE (\E i \in DOMAIN rows : Select(i)) \/ StartJob \/ StopJobAsked \/ GetResults \/ RefreshJobs
             \/ CancelWizard \/ Fall \/ \E n \in OwnNames \cup {pick.name} : OpenWizard(n)
    BY <2>2, <2>3, <2>5, <2>6 DEF Select, StartJob, StopJobAsked, GetResults, RefreshJobs,
       CancelWizard, Fall, Crash, OpenWizard
  <2>7. ASSUME NEW n PROVE ~ DeleteJob(n)
    BY DEF DeleteJob
  <2>8. CASE Delete \/ RestartJob \/ FinishWizard \/ HandleEvent \/ AddJob
    BY <2>3, <2>7, <2>8 DEF Delete, RestartJob, FinishWizard, HandleEvent, AddJob
  <2>9. CASE SetNotCreated
    BY <2>2, <2>9 DEF SetNotCreated, ShowNew
  <2>10. ~ (Numbered \/ Named \/ RefreshThread)
    BY DEF Numbered, Named, NewJob, RemovedJob, StartThread, StopThread, ResultsThread, RefreshThread
  <2>11. CASE \/ \E n \in OtherNames : OtherAdd(n)
              \/ \E i \in Numbers : OtherRemove(i) \/ OtherStop(i) \/ OtherLaunch(i) \/ OtherPoll(i)
    BY <2>2, <2>3, <2>11 DEF OtherAdd, OtherRemove, OtherStop, OtherLaunch, OtherPoll
  <2> QED BY <1>2, <2>4, <2>6, <2>8, <2>9, <2>10, <2>11 DEF JmNext
<1> QED BY <1>1, <1>2, JmStarts, JmKept, PTL DEF JmSpec
=============================================================================
