---------------------------- MODULE ForEachProofs ----------------------------
(***************************************************************************)
(* For every collection, every number of branches, with and without        *)
(* keep-going, init and finalize nodes, and whatever fails: a ForEachLoop  *)
(* that is DONE has run every sample and published every result.           *)
(***************************************************************************)
EXTENDS ForEachLoop, FiniteSetTheorems, TLAPS

Idle   == {"NONE", "READY"}
Active == {"TOLOAD", "TOACTIVATE", "ACTIVATED"}

\* The branches have been given their first samples.
Live == \E t \in Clone : st[t] \notin Idle

\* Between init() and exUpdateState().
BeforeUpdate ==
  event = "UPDATE" =>
    /\ state = "READY" /\ stage = IdleStage /\ execCurrentId = 0 /\ failedCounter = 0
    /\ \A t \in Clone : st[t] = "NONE"

\* The fake node waits or runs only in a turn that has no clones.
FakeAlone ==
  /\ st[Fake] \in {"NONE", "TOACTIVATE", "ACTIVATED", "DONE"}
  /\ st[Fake] \in {"TOACTIVATE", "ACTIVATED"} =>
       event = "NOEVENT" /\ Used = {} /\ (ToDo = 0 => execVals = <<>>)

Placed ==
  \A t \in Clone : (\/ t[2] \notin Used
                    \/ t[1] = "init" /\ ~ HasInit
                    \/ t[1] = "finalize" /\ ~ HasFinalize) => st[t] = "NONE"

\* What the executor holds is in the state the stage of its round says.
Staged ==
  \A t \in Task :
    /\ stage[t] \in {"chosen", "loading"} => t \in Clone /\ st[t] = "TOLOAD"
    /\ stage[t] \in {"loaded", "connected"} => st[t] \in {"READY", "TOLOAD", "TOACTIVATE", "ERROR"}

InitFirst ==
  \A b \in Branch : st[<<"work", b>>] \notin Idle => st[<<"init", b>>] \in {"NONE", "DONE"}

Stored(k) == execVals[ToAbsId(k)] = ToAbsId(k)

\* The branch was refused its sample: its body will not start again.
Stopped(b) == st[<<"work", b>>] = "READY" /\ st[<<"init", b>>] \in {"NONE", "DONE"}

\* A branch without a sample has ended; another one works on the sample of its rank.
BranchSamples ==
  \A b \in Used :
    /\ execIds[b] = Unset =>
         /\ execCurrentId = ToDo
         /\ \/ st[<<"work", b>>] = "DONE"
            \/ st[<<"work", b>>] = "ERROR" /\ failedCounter # 0
    /\ execIds[b] # Unset /\ ~ Stopped(b) => sample[b] = ToAbsId(execIds[b])

Vals ==
  /\ execVals \in Values(Size)
  /\ \A i \in Passed : execVals[i] = i
  /\ \A k \in 0 .. (execCurrentId - 1) :
       failedCounter # 0 \/ Stored(k) \/ \E b \in Used : execIds[b] = k

Dispatched == Live => BranchSamples /\ Vals

Complete == [i \in 0 .. (Size - 1) |-> i]

\* Once the finalize nodes are started, the bodies are done and the results out.
NotFinalized == {b \in Used : st[<<"finalize", b>>] # "DONE"}

Finalizing ==
  (\E b \in Used : st[<<"finalize", b>>] \notin Idle) =>
    /\ \A b \in Used : st[<<"work", b>>] = "DONE"
    /\ \A b \in Used : st[<<"finalize", b>>] \notin Idle
    /\ out = Complete
    /\ unfinished = Cardinality(NotFinalized)

\* The passed results are not those of every sample of a collection.
NotAllPassed == \A t \in DOMAIN Sizes : Sizes[t] # 0 => Cardinality(Passed) # Sizes[t]

DoneInv == state = "DONE" => DoneMeansAllDone /\ (NotAllPassed => ResultsComplete)

FInv == /\ TypeOK /\ BeforeUpdate /\ FakeAlone /\ Placed /\ Staged /\ InitFirst
        /\ Dispatched /\ Finalizing /\ DoneInv

-----------------------------------------------------------------------------
(* The two numberings of the samples                                       *)

NotPassed == (0 .. (Size - 1)) \ Passed

LEMMA SizeTypes ==
  ASSUME turn \in DOMAIN Sizes
  PROVE  /\ Size \in Nat /\ Cardinality(Passed) \in Nat /\ ToDo \in Nat
         /\ IsFiniteSet(NotPassed) /\ Cardinality(NotPassed) = ToDo
         /\ Passed \subseteq 0 .. (Size - 1)
<1>1. Size \in Nat
  BY SizesAssumption DEF Size
<1>2. Passed \subseteq 0 .. (Size - 1) /\ IsFiniteSet(Passed)
  BY PassedAssumption DEF Size
<1>3. IsFiniteSet(0 .. (Size - 1)) /\ Cardinality(0 .. (Size - 1)) = Size
  BY <1>1, FS_Interval
<1>4. Cardinality(Passed) \in Nat
  BY <1>2, FS_CardinalityType
<1>5. IsFiniteSet(NotPassed) /\ Cardinality(NotPassed) \in Nat
  BY <1>3, FS_Subset, FS_CardinalityType DEF NotPassed
<1>6. NotPassed \cup Passed = 0 .. (Size - 1) /\ NotPassed \cap Passed = {}
  BY <1>2 DEF NotPassed
<1>7. Cardinality(0 .. (Size - 1)) = Cardinality(NotPassed) + Cardinality(Passed) - Cardinality({})
  BY <1>2, <1>5, <1>6, FS_Union
<1> QED
  BY <1>1, <1>2, <1>3, <1>4, <1>5, <1>7, FS_EmptySet DEF ToDo

Below(i) == {j \in 0 .. (i - 1) : j \notin Passed}

LEMMA LocalIdBound ==
  ASSUME turn \in DOMAIN Sizes, NEW i \in NotPassed
  PROVE  /\ LocalId(i) \in 0 .. (ToDo - 1)
         /\ \A j \in NotPassed : i < j => LocalId(i) < LocalId(j)
<1>1. i \in Nat /\ Size \in Nat /\ ToDo \in Nat
  BY SizeTypes DEF NotPassed
<1>2. IsFiniteSet(Below(i)) /\ Cardinality(Below(i)) \in Nat /\ i \notin Below(i)
  <2>1. IsFiniteSet(0 .. (i - 1))
    BY <1>1, FS_Interval
  <2> QED
    BY <1>1, <2>1, FS_Subset, FS_CardinalityType DEF Below
<1>3. Cardinality(Below(i) \cup {i}) = Cardinality(Below(i)) + 1
  BY <1>2, FS_AddElement
<1>4. Below(i) \cup {i} \subseteq NotPassed
  BY <1>1 DEF Below, NotPassed
<1>5. Cardinality(Below(i)) + 1 <= ToDo
  BY <1>3, <1>4, SizeTypes, FS_Subset
<1>6. ASSUME NEW j \in NotPassed, i < j
      PROVE  Cardinality(Below(i)) + 1 <= Cardinality(Below(j))
  <2>1. j \in Nat
    BY <1>1 DEF NotPassed
  <2>2. IsFiniteSet(Below(j)) /\ Cardinality(Below(j)) \in Nat
    <3>1. IsFiniteSet(0 .. (j - 1))
      BY <2>1, FS_Interval
    <3> QED
      BY <3>1, FS_Subset, FS_CardinalityType DEF Below
  <2>3. Below(i) \cup {i} \subseteq Below(j)
    BY <1>1, <1>6, <2>1 DEF Below, NotPassed
  <2> QED
    BY <1>3, <2>2, <2>3, FS_Subset
<1>7. \A j : LocalId(j) = Cardinality(Below(j))
  BY DEF LocalId, Below
<1>8. \A j \in NotPassed : i < j => Cardinality(Below(j)) \in Nat
  <2> SUFFICES ASSUME NEW j \in NotPassed PROVE Cardinality(Below(j)) \in Nat
    OBVIOUS
  <2>1. j \in Nat
    BY <1>1 DEF NotPassed
  <2>2. IsFiniteSet(0 .. (j - 1))
    BY <2>1, FS_Interval
  <2> QED
    BY <2>2, FS_Subset, FS_CardinalityType DEF Below
<1> QED
  BY <1>1, <1>2, <1>5, <1>6, <1>7, <1>8

\* toAbsId is the inverse of LocalId: it reaches every sample to do, once.
LEMMA AbsIds ==
  ASSUME turn \in DOMAIN Sizes
  PROVE  /\ \A k \in 0 .. (ToDo - 1) : ToAbsId(k) \in NotPassed /\ LocalId(ToAbsId(k)) = k
         /\ \A i \in NotPassed : ToAbsId(LocalId(i)) = i
<1> DEFINE f == [i \in NotPassed |-> LocalId(i)]
<1>1. ToDo \in Nat /\ Size \in Nat /\ IsFiniteSet(NotPassed) /\ Cardinality(NotPassed) = ToDo
  BY SizeTypes
<1>2. \A i, j \in NotPassed : LocalId(i) = LocalId(j) => i = j
  <2> SUFFICES ASSUME NEW i \in NotPassed, NEW j \in NotPassed, i # j
               PROVE  LocalId(i) # LocalId(j)
    OBVIOUS
  <2>1. i \in Nat /\ j \in Nat
    BY <1>1 DEF NotPassed
  <2>2. LocalId(i) \in Nat /\ LocalId(j) \in Nat
    BY <1>1, LocalIdBound
  <2>3. CASE i < j
    BY <2>2, <2>3, LocalIdBound
  <2>4. CASE j < i
    BY <2>2, <2>4, LocalIdBound
  <2> QED
    BY <2>1, <2>3, <2>4
<1>3. f \in [NotPassed -> 0 .. (ToDo - 1)]
  BY LocalIdBound
<1>4. f \in Injection(NotPassed, 0 .. (ToDo - 1))
  BY <1>2, <1>3 DEF Injection, IsInjective
<1>5. IsFiniteSet(0 .. (ToDo - 1)) /\ Cardinality(0 .. (ToDo - 1)) = ToDo
  BY <1>1, FS_Interval
<1>6. f \in Surjection(NotPassed, 0 .. (ToDo - 1))
  BY <1>1, <1>4, <1>5, FS_Injection
<1>7. \A k \in 0 .. (ToDo - 1) : \E i \in NotPassed : LocalId(i) = k
  BY <1>6 DEF Surjection
<1>8. \A k : ToAbsId(k) = CHOOSE i \in NotPassed : LocalId(i) = k
  BY DEF ToAbsId, NotPassed
<1>9. \A k \in 0 .. (ToDo - 1) : ToAbsId(k) \in NotPassed /\ LocalId(ToAbsId(k)) = k
  BY <1>7, <1>8
<1>10. \A i \in NotPassed : ToAbsId(LocalId(i)) = i
  <2> SUFFICES ASSUME NEW i \in NotPassed PROVE ToAbsId(LocalId(i)) = i
    OBVIOUS
  <2>1. LocalId(i) \in 0 .. (ToDo - 1)
    BY LocalIdBound
  <2> QED
    BY <1>2, <1>9, <2>1
<1> QED
  BY <1>9, <1>10

\* As many branches are used as there are branches and samples.
LEMMA UsedBranches ==
  ASSUME turn \in DOMAIN Sizes
  PROVE  /\ IsFiniteSet(Used) /\ Used \subseteq Branch /\ Used \subseteq Nat
         /\ Cardinality(Used) \in 0 .. ToDo /\ Cardinality(Used) <= MaxBranches
         /\ \A b \in Used : b < Cardinality(Used)
         /\ Used = {} <=> ToDo = 0 \/ NbBranches[turn] <= 0
<1>1. ToDo \in Nat /\ NbBranches[turn] \in Int /\ MaxBranches \in Nat
      /\ NbBranches[turn] <= MaxBranches
  BY SizeTypes, BranchAssumption
<1> DEFINE n == IF NbBranches[turn] <= 0 THEN 0
                ELSE IF NbBranches[turn] < ToDo THEN NbBranches[turn] ELSE ToDo
<1>2. n \in Nat /\ n <= ToDo /\ n <= MaxBranches
  BY <1>1
<1>3. Used = 0 .. (n - 1)
  BY <1>1 DEF Used, Branch
<1>4. IsFiniteSet(0 .. (n - 1)) /\ Cardinality(0 .. (n - 1)) = n
  BY <1>2, FS_Interval
<1>5. n = 0 <=> ToDo = 0 \/ NbBranches[turn] <= 0
  BY <1>1
<1> HIDE DEF n
<1> QED
  BY <1>1, <1>2, <1>3, <1>4, <1>5 DEF Branch

-----------------------------------------------------------------------------
(* The invariant                                                           *)

LEMMA Tasks ==
  /\ Fake \notin Clone /\ Fake \in Task /\ Clone \subseteq Task
  /\ \A b \in Branch, k \in Kind : <<k, b>> \in Clone
  /\ \A t \in Clone : t[1] \in Kind /\ t[2] \in Branch /\ t = <<t[1], t[2]>>
  /\ \A t \in Task : t \notin Clone => t = Fake
  /\ Kind = {"init", "work", "finalize"}
BY DEF Fake, Clone, Task, Kind

LEMMA InitHolds == ASSUME Init PROVE FInv
<1>1. turn \in DOMAIN Sizes /\ 1 \in DOMAIN Sizes /\ Sizes \in Seq(Nat)
  BY SizesAssumption DEF Init
<1>2. Size \in Nat /\ ToDo \in Nat
  BY <1>1, SizeTypes
<1>3. TypeOK
  <2>1. /\ st \in [Task -> {"NONE"}] /\ stage \in [Task -> {"none"}]
        /\ execIds \in [Branch -> {Unset}] /\ sample \in [Branch -> {Unset}]
    BY DEF Init, NoClone, IdleStage
  <2>2. execVals = <<>> /\ out = <<>> /\ loaded = {} /\ event = "UPDATE" /\ state = "READY"
        /\ execCurrentId = 0 /\ unfinished = 0 /\ failedCounter = 0
    BY DEF Init
  <2>3. MaxBranches \in Nat
    BY BranchAssumption
  <2>4. /\ st \in [Task -> {"NONE", "READY", "TOLOAD", "TOACTIVATE", "ACTIVATED", "DONE", "ERROR"}]
        /\ stage \in [Task -> {"none", "chosen", "loading", "loaded", "connected"}]
    BY <2>1
  <2>5. /\ execIds \in [Branch -> {Unset} \cup 0 .. (ToDo - 1)]
        /\ sample \in [Branch -> {Unset} \cup 0 .. (Size - 1)]
    BY <2>1
  <2>6. out \in {<<>>} \cup UNION {Values(Sizes[t]) : t \in DOMAIN Sizes}
    BY <2>2
  <2> QED
    BY <1>1, <1>2, <2>2, <2>3, <2>4, <2>5, <2>6 DEF TypeOK
<1>4. \A t \in Task : st[t] = "NONE" /\ stage[t] = "none"
  BY DEF Init, NoClone, IdleStage
<1>5. ~ Live
  BY <1>4, Tasks DEF Live, Idle
<1>6. BeforeUpdate /\ FakeAlone /\ Placed /\ Staged /\ InitFirst /\ Dispatched /\ DoneInv
  BY <1>4, <1>5, Tasks DEF Init, BeforeUpdate, FakeAlone, Placed, Staged, InitFirst, Dispatched,
     DoneInv, Idle
<1>7. Finalizing
  <2>1. \A b \in Used : <<"finalize", b>> \in Clone
    BY <1>1, Tasks, UsedBranches
  <2> QED
    BY <1>4, <2>1, Tasks DEF Finalizing, Idle
<1> QED
  BY <1>3, <1>6, <1>7 DEF FInv

\* In a turn without clones only the fake node matters.
LEMMA NoClones ==
  ASSUME FInv, UpdateEmpty \/ UpdateNoBranch
  PROVE  FInv'
<1> USE DEF FInv
<1>1. turn' = turn /\ turn \in DOMAIN Sizes /\ Size' = Size /\ ToDo' = ToDo /\ Used' = Used
  BY DEF UpdateEmpty, UpdateNoBranch, TypeOK, Size, ToDo, Used
<1>2. ToDo \in Nat /\ Size \in Nat /\ Used = {}
  BY <1>1, SizeTypes, UsedBranches DEF UpdateEmpty, UpdateNoBranch
<1>3. /\ st' = [st EXCEPT ![Fake] = "TOACTIVATE"] /\ state' = "ACTIVATED" /\ event' = "NOEVENT"
      /\ UNCHANGED <<turn, stage, loaded, branchVars, unfinished, failedCounter, out>>
      /\ execVals' = execVals \/ execVals' = <<>>
      /\ ToDo = 0 => execVals' = <<>>
  BY DEF UpdateEmpty, UpdateNoBranch, resultVars
<1>4. /\ stage = IdleStage
      /\ \A t \in Clone : st[t] = "NONE"
      /\ \A t \in Clone : st'[t] = "NONE"
      /\ st'[Fake] = "TOACTIVATE"
  BY <1>3, Tasks DEF BeforeUpdate, UpdateEmpty, UpdateNoBranch, TypeOK
<1>5. TypeOK'
  BY <1>1, <1>2, <1>3, Tasks DEF TypeOK, branchVars
<1>6. ~ Live'
  BY <1>4 DEF Live, Idle
<1>7. BeforeUpdate' /\ FakeAlone' /\ Placed' /\ InitFirst' /\ Dispatched' /\ DoneInv' /\ Finalizing'
  BY <1>1, <1>2, <1>3, <1>4, <1>6, Tasks DEF BeforeUpdate, FakeAlone, Placed, InitFirst, Dispatched,
     DoneInv, Finalizing, Idle
<1>8. Staged'
  BY <1>3, <1>4, Tasks DEF Staged, IdleStage
<1> QED
  BY <1>5, <1>7, <1>8

LEMMA DispatchHolds ==
  ASSUME FInv, UpdateDispatch
  PROVE  FInv'
<1> USE DEF FInv
<1> DEFINE n == Cardinality(Used)
<1>1. turn' = turn /\ turn \in DOMAIN Sizes /\ Size' = Size /\ ToDo' = ToDo /\ Used' = Used
  BY DEF UpdateDispatch, TypeOK, Size, ToDo, Used
<1>2. /\ ToDo \in Nat /\ Size \in Nat /\ n \in 0 .. ToDo /\ n <= MaxBranches
      /\ Used \subseteq Branch /\ Used \subseteq Nat /\ \A b \in Used : b < n
  BY <1>1, SizeTypes, UsedBranches
<1>3. execCurrentId = 0 /\ failedCounter = 0 /\ stage = IdleStage /\ \A t \in Clone : st[t] = "NONE"
  BY DEF UpdateDispatch, BeforeUpdate
<1>4. /\ execIds' = [b \in Branch |-> IF b \in Used THEN b ELSE Unset]
      /\ sample' = [b \in Branch |-> IF b \in Used THEN ToAbsId(b) ELSE Unset]
      /\ execCurrentId' = n
  BY <1>2, <1>3 DEF UpdateDispatch
<1>5. \A k \in 0 .. (ToDo - 1) : ToAbsId(k) \in 0 .. (Size - 1)
  BY <1>1, AbsIds DEF NotPassed
<1>6. \A b \in Used : b \in 0 .. (ToDo - 1)
  BY <1>2
<1>7. execVals' \in Values(Size)
  BY <1>1, SizeTypes DEF UpdateDispatch, PreparedVals, Values
<1>8. /\ \A t \in Clone : st'[t] \in {"NONE", "READY", "TOLOAD"}
      /\ st' \in [Task -> {"NONE", "READY", "TOLOAD", "TOACTIVATE", "ACTIVATED", "DONE", "ERROR"}]
      /\ st'[Fake] = st[Fake]
  BY Tasks DEF UpdateDispatch, Cloned, TypeOK, FirstKind, Fake
<1>9. TypeOK'
  <2>1. execIds' \in [Branch -> {Unset} \cup 0 .. (ToDo - 1)]
    BY <1>4, <1>6 DEF Unset
  <2>2. sample' \in [Branch -> {Unset} \cup 0 .. (Size - 1)]
    BY <1>4, <1>5, <1>6 DEF Unset
  <2> QED
    BY <1>1, <1>2, <1>4, <1>7, <1>8, <2>1, <2>2 DEF TypeOK, UpdateDispatch
<1>10. BeforeUpdate' /\ Staged' /\ DoneInv'
  BY <1>1, <1>3, Tasks DEF BeforeUpdate, Staged, DoneInv, UpdateDispatch, IdleStage
<1>11. FakeAlone'
  BY <1>1, <1>8 DEF FakeAlone, UpdateDispatch
<1>12. Placed'
  BY <1>1, <1>8, Tasks DEF Placed, UpdateDispatch, Cloned, FirstKind
<1>13. InitFirst'
  BY Tasks DEF InitFirst, UpdateDispatch, Cloned, FirstKind, Idle, Fake
<1>14. Finalizing'
  BY <1>1, <1>2, <1>8, Tasks DEF Finalizing, UpdateDispatch, Cloned, FirstKind, Idle, Fake
<1>15. BranchSamples'
  <2>1. \A k : ToAbsId(k)' = ToAbsId(k)
    BY <1>1 DEF ToAbsId, LocalId
  <2>2. \A b \in Used : execIds'[b] = b /\ sample'[b] = ToAbsId(b) /\ b # Unset
    BY <1>2, <1>4 DEF Unset
  <2> QED
    BY <1>1, <2>1, <2>2 DEF BranchSamples
<1>16. Vals'
  <2>1. \A i \in Passed : execVals'[i] = i
    BY <1>1, SizeTypes DEF UpdateDispatch, PreparedVals
  <2>2. \A k \in 0 .. (n - 1) : \E b \in Used : execIds'[b] = k
    <3> SUFFICES ASSUME NEW k \in 0 .. (n - 1) PROVE k \in Used
      BY <1>2, <1>4
    <3>1. ToDo # 0 /\ NbBranches[turn] > 0
      BY DEF UpdateDispatch
    <3>2. n <= NbBranches[turn]
      <4>1. NbBranches[turn] \in Int
        BY <1>1, BranchAssumption
      <4>2. Used \subseteq 0 .. (NbBranches[turn] - 1)
        BY <1>2, <4>1 DEF Used, Branch
      <4>3. Cardinality(0 .. (NbBranches[turn] - 1)) = NbBranches[turn]
            /\ IsFiniteSet(0 .. (NbBranches[turn] - 1))
        <5> DEFINE m == NbBranches[turn]
        <5>1. m \in Int /\ m > 0
          BY <3>1, <4>1
        <5> HIDE DEF m
        <5>2. Cardinality(0 .. (m - 1)) = m /\ IsFiniteSet(0 .. (m - 1))
          BY <5>1, FS_Interval
        <5> QED
          BY <5>2 DEF m
      <4> QED
        BY <4>2, <4>3, FS_Subset
    <3> QED
      BY <1>1, <1>2, <3>2, BranchAssumption DEF Used, Branch
  <2> QED
    BY <1>1, <1>4, <1>7, <2>1, <2>2 DEF Vals
<1> QED
  BY <1>9, <1>10, <1>11, <1>12, <1>13, <1>14, <1>15, <1>16 DEF Dispatched

LEMMA ThrowsHolds ==
  ASSUME FInv, NEW n \in 0 .. MaxBranches, UpdateThrows(n)
  PROVE  FInv'
<1> USE DEF FInv
<1>1. turn' = turn /\ turn \in DOMAIN Sizes /\ Size' = Size /\ ToDo' = ToDo /\ Used' = Used
  BY DEF UpdateThrows, TypeOK, Size, ToDo, Used
<1>2. /\ ToDo \in Nat /\ Size \in Nat /\ Cardinality(Used) \in 0 .. ToDo /\ Used \subseteq Branch
      /\ Used \subseteq Nat /\ \A b \in Used : b < Cardinality(Used)
  BY <1>1, SizeTypes, UsedBranches
<1>3. execCurrentId = 0 /\ stage = IdleStage
  BY DEF UpdateThrows, BeforeUpdate
<1>4. \A k \in 0 .. (ToDo - 1) : ToAbsId(k) \in 0 .. (Size - 1)
  BY <1>1, AbsIds DEF NotPassed
<1>5. \A b \in Used : b \in 0 .. (ToDo - 1)
  BY <1>2
<1>6. /\ \A t \in Clone : st'[t] \in {"NONE", "READY"}
      /\ st' \in [Task -> {"NONE", "READY", "TOLOAD", "TOACTIVATE", "ACTIVATED", "DONE", "ERROR"}]
      /\ st'[Fake] = st[Fake]
  BY Tasks DEF UpdateThrows, Cloned, TypeOK, Fake
<1>7. ~ Live'
  BY <1>6 DEF Live, Idle
<1>8. TypeOK'
  <2>1. execIds' \in [Branch -> {Unset} \cup 0 .. (ToDo - 1)]
    <3>1. \A b \in Used : execCurrentId + b = b
      BY <1>2, <1>3
    <3> QED
      BY <1>5, <3>1 DEF UpdateThrows
  <2>2. sample' \in [Branch -> {Unset} \cup 0 .. (Size - 1)]
    <3>1. \A b \in Used : execCurrentId + b = b
      BY <1>2, <1>3
    <3>2. \A b \in Used : ToAbsId(execCurrentId + b) \in 0 .. (Size - 1)
      BY <1>4, <1>5, <3>1
    <3> QED
      BY <3>2 DEF UpdateThrows
  <2>3. execVals' \in Values(Size)
    BY DEF UpdateThrows, Values
  <2>4. execCurrentId' \in 0 .. ToDo
    BY <1>2, <1>3 DEF UpdateThrows
  <2> QED
    BY <1>1, <1>6, <2>1, <2>2, <2>3, <2>4 DEF TypeOK, UpdateThrows
<1>9. BeforeUpdate' /\ Staged' /\ DoneInv' /\ Dispatched'
  BY <1>1, <1>3, <1>7, Tasks DEF BeforeUpdate, Staged, DoneInv, UpdateThrows, IdleStage, Dispatched
<1>10. FakeAlone'
  BY <1>1, <1>6 DEF FakeAlone, UpdateThrows
<1>11. Placed'
  BY <1>1, Tasks DEF Placed, UpdateThrows, Cloned
<1>12. InitFirst'
  BY <1>6, Tasks DEF InitFirst, Idle
<1>13. Finalizing'
  BY <1>1, <1>2, <1>6, Tasks DEF Finalizing, Idle
<1> QED
  BY <1>8, <1>9, <1>10, <1>11, <1>12, <1>13

LEMMA SameTurn ==
  ASSUME turn' = turn
  PROVE  /\ Size' = Size /\ ToDo' = ToDo /\ Used' = Used /\ Complete' = Complete
         /\ \A k : ToAbsId(k)' = ToAbsId(k)
BY DEF Size, ToDo, Used, Complete, ToAbsId, LocalId

\* A round of the executor that goes on, the clones as they were.
LEMMA StageMoves ==
  ASSUME FInv,
         UNCHANGED <<turn, st, branchVars, unfinished, resultVars, event>>, event = "NOEVENT",
         state' = state \/ state' = "ACTIVATED", loaded' \subseteq Clone,
         stage' \in [Task -> {"none", "chosen", "loading", "loaded", "connected"}],
         Staged'
  PROVE  FInv'
<1> USE DEF FInv
<1>1. turn' = turn /\ st' = st /\ event' = event /\ unfinished' = unfinished
      /\ UNCHANGED branchVars /\ UNCHANGED resultVars
  OBVIOUS
<1>2. Size' = Size /\ ToDo' = ToDo /\ Used' = Used /\ Complete' = Complete
      /\ \A k : ToAbsId(k)' = ToAbsId(k)
  BY <1>1, SameTurn
<1>3. TypeOK'
  BY <1>1, <1>2 DEF TypeOK, branchVars, resultVars
<1>4. BeforeUpdate' /\ FakeAlone' /\ Placed' /\ InitFirst'
  BY <1>1, <1>2 DEF BeforeUpdate, FakeAlone, Placed, InitFirst, resultVars
<1>5. Dispatched'
  BY <1>1, <1>2 DEF Dispatched, Live, BranchSamples, Stopped, Vals, Stored, branchVars, resultVars
<1>6. Finalizing' /\ DoneInv'
  BY <1>1, <1>2 DEF Finalizing, NotFinalized, DoneInv, DoneMeansAllDone, ResultsComplete, resultVars, Complete
<1> QED
  BY <1>3, <1>4, <1>5, <1>6

\* A clone that waits goes on waiting, or runs.
LEMMA ActiveMoves ==
  ASSUME FInv, event = "NOEVENT",
         NEW t \in Task, NEW v \in Active, st[t] \in Active,
         t = Fake => v # "TOLOAD",
         st' = [st EXCEPT ![t] = v],
         UNCHANGED <<state, turn, loaded, branchVars, unfinished, resultVars, event>>,
         stage' \in [Task -> {"none", "chosen", "loading", "loaded", "connected"}],
         Staged'
  PROVE  FInv'
<1> USE DEF FInv
<1>1. turn' = turn /\ event' = event /\ unfinished' = unfinished /\ state' = state /\ loaded' = loaded
      /\ UNCHANGED branchVars /\ UNCHANGED resultVars
  OBVIOUS
<1>2. Size' = Size /\ ToDo' = ToDo /\ Used' = Used /\ Complete' = Complete
      /\ \A k : ToAbsId(k)' = ToAbsId(k)
  BY <1>1, SameTurn
<1>3. /\ \A u \in Task \ {t} : st'[u] = st[u]
      /\ st'[t] = v /\ v \in Active /\ st[t] \in Active
  BY DEF TypeOK
<1>4. TypeOK'
  BY <1>1, <1>2, <1>3 DEF TypeOK, branchVars, resultVars, Active
<1>5. BeforeUpdate' /\ FakeAlone' /\ Placed' /\ InitFirst'
  BY <1>1, <1>2, <1>3, Tasks
     DEF BeforeUpdate, FakeAlone, Placed, InitFirst, resultVars, Active, Idle
<1>6. Dispatched'
  <2>1. Live' => Live
    BY <1>3, Tasks DEF Live, Active, Idle
  <2>2. \A b \in Used : st[<<"work", b>>] \in {"DONE", "ERROR"} => st'[<<"work", b>>] = st[<<"work", b>>]
    BY <1>3, Tasks DEF Active, Used
  <2>3. \A b \in Used : Stopped(b) => Stopped(b)'
    BY <1>3, Tasks DEF Stopped, Active, Used
  <2> QED
    BY <1>1, <1>2, <2>1, <2>2, <2>3 DEF Dispatched, BranchSamples, Vals, Stored, branchVars, resultVars
<1>7. Finalizing'
  <2>1. \A b \in Used : /\ st[<<"work", b>>] = "DONE" => st'[<<"work", b>>] = "DONE"
                        /\ st'[<<"finalize", b>>] \in Idle <=> st[<<"finalize", b>>] \in Idle
                        /\ st'[<<"finalize", b>>] = "DONE" <=> st[<<"finalize", b>>] = "DONE"
    BY <1>3, Tasks DEF Active, Idle, Used
  <2> QED
    BY <1>1, <1>2, <2>1 DEF Finalizing, NotFinalized, resultVars
<1>8. DoneInv'
  BY <1>1, <1>2, <1>3, Tasks
     DEF DoneInv, DoneMeansAllDone, ResultsComplete, resultVars, Complete, Active, FakeAlone
<1> QED
  BY <1>4, <1>5, <1>6, <1>7, <1>8

-----------------------------------------------------------------------------
(* The end of a body                                                       *)

\* What holds when the body of branch b ends: s and vals are the states and
\* the results with this end taken into account, nf the number of failures.
Ended(b, s, vals, nf) ==
  \/ /\ s = [st EXCEPT ![<<"work", b>>] = "DONE"]
     /\ vals = StoredVals(b) /\ nf = failedCounter
  \/ /\ s = [st EXCEPT ![<<"work", b>>] = "ERROR"]
     /\ vals = execVals /\ nf = failedCounter + 1

LEMMA BodyActive ==
  ASSUME FInv, NEW b \in Branch, st[<<"work", b>>] \in Active
  PROVE  /\ b \in Used /\ Live /\ BranchSamples /\ Vals /\ state # "DONE"
         /\ execIds[b] \in 0 .. (ToDo - 1)
         /\ execIds[b] # Unset /\ sample[b] = ToAbsId(execIds[b])
         /\ st[<<"init", b>>] \in {"NONE", "DONE"}
         /\ \A c \in Used : st[<<"finalize", c>>] \in Idle
<1> USE DEF FInv
<1>1. b \in Used
  BY Tasks DEF Placed, Active
<1>2. Live
  BY Tasks DEF Live, Active, Idle
<1>3. BranchSamples /\ Vals
  BY <1>2 DEF Dispatched
<1>4. execIds[b] # Unset /\ sample[b] = ToAbsId(execIds[b])
  BY <1>1, <1>3 DEF BranchSamples, Stopped, Active
<1>5. execIds[b] \in {Unset} \cup 0 .. (ToDo - 1)
  BY DEF TypeOK
<1>6. execIds[b] \in 0 .. (ToDo - 1)
  BY <1>4, <1>5
<1>7. st[<<"init", b>>] \in {"NONE", "DONE"}
  BY DEF InitFirst, Active, Idle
<1>8. \A c \in Used : st[<<"finalize", c>>] \in Idle
  BY <1>1 DEF Finalizing, Active
<1>9. state # "DONE"
  BY Tasks DEF DoneInv, DoneMeansAllDone, Active
<1> QED
  BY <1>1, <1>2, <1>3, <1>4, <1>6, <1>7, <1>8, <1>9

\* The results after this end: typed, the passed ones kept, every sample that
\* was dispatched stored, failed or in the hands of another branch.
LEMMA EndedVals ==
  ASSUME FInv, NEW b \in Branch, st[<<"work", b>>] \in Active,
         NEW s, NEW vals, NEW nf, Ended(b, s, vals, nf)
  PROVE  /\ vals \in Values(Size) /\ nf \in Nat
         /\ \A i \in Passed : vals[i] = i
         /\ \A k \in 0 .. (execCurrentId - 1) :
              \/ nf # 0 \/ vals[ToAbsId(k)] = ToAbsId(k)
              \/ \E c \in Used \ {b} : execIds[c] = k
<1> DEFINE k0 == execIds[b]
<1>1. turn \in DOMAIN Sizes /\ failedCounter \in Nat /\ execCurrentId \in 0 .. ToDo
  BY DEF FInv, TypeOK
<1>2. ToDo \in Nat /\ Size \in Nat
  BY <1>1, SizeTypes
<1>3. Vals /\ k0 \in 0 .. (ToDo - 1) /\ sample[b] = ToAbsId(k0)
  BY BodyActive
<1>4. \A k \in 0 .. (execCurrentId - 1) : ToAbsId(k) \in NotPassed
  BY <1>1, <1>2, AbsIds
<1>5. ToAbsId(k0) \in 0 .. (Size - 1) /\ ToAbsId(k0) \notin Passed
  BY <1>1, <1>3, AbsIds DEF NotPassed
<1> HIDE DEF k0
<1>6. CASE vals = StoredVals(b) /\ nf = failedCounter
  <2>1. vals = [execVals EXCEPT ![ToAbsId(k0)] = ToAbsId(k0)]
    BY <1>3, <1>6 DEF StoredVals, k0
  <2>2. execVals \in [0 .. (Size - 1) -> {Unset} \cup 0 .. (Size - 1)]
    BY <1>3 DEF Vals, Values
  <2>3. vals \in Values(Size) /\ vals[ToAbsId(k0)] = ToAbsId(k0)
    BY <1>5, <2>1, <2>2 DEF Values
  <2>4. \A i \in 0 .. (Size - 1) : execVals[i] = i => vals[i] = i
    BY <1>5, <2>1, <2>2
  <2>5. \A i \in Passed : vals[i] = i
    BY <1>1, <1>3, <2>4, SizeTypes DEF Vals
  <2>6. ASSUME NEW k \in 0 .. (execCurrentId - 1)
        PROVE  \/ nf # 0 \/ vals[ToAbsId(k)] = ToAbsId(k)
               \/ \E c \in Used \ {b} : execIds[c] = k
    <3>1. CASE k = k0
      BY <2>3, <3>1
    <3>2. CASE k # k0
      <4>1. failedCounter # 0 \/ execVals[ToAbsId(k)] = ToAbsId(k) \/ \E c \in Used : execIds[c] = k
        BY <1>3 DEF Vals, Stored
      <4>2. ToAbsId(k) \in 0 .. (Size - 1)
        BY <1>4 DEF NotPassed
      <4> QED
        BY <1>6, <2>4, <3>2, <4>1, <4>2 DEF k0
    <3> QED
      BY <3>1, <3>2
  <2> QED
    BY <1>1, <1>6, <2>3, <2>5, <2>6
<1>7. CASE vals = execVals /\ nf = failedCounter + 1
  BY <1>1, <1>3, <1>7 DEF Vals
<1> QED
  BY <1>6, <1>7 DEF Ended

\* The states of the nodes when only the body of b has changed.
LEMMA BodyStates ==
  ASSUME FInv, event = "NOEVENT", NEW b \in Branch, st[<<"work", b>>] \in Active,
         UNCHANGED <<turn, loaded>>, event' \in {"NOEVENT", "FINISH", "ABORT"},
         NEW v \in {"READY", "TOLOAD", "DONE", "ERROR"}, st' = [st EXCEPT ![<<"work", b>>] = v],
         execVals' \in Values(Size),
         stage' \in [Task -> {"none", "chosen", "loading", "loaded", "connected"}],
         \A t \in Task \ {<<"work", b>>} : stage'[t] = stage[t],
         \/ stage'[<<"work", b>>] = "none"
         \/ v # "DONE" /\ stage'[<<"work", b>>] \in {"loaded", "connected"}
  PROVE  /\ st' \in [Task -> {"NONE", "READY", "TOLOAD", "TOACTIVATE", "ACTIVATED", "DONE", "ERROR"}]
         /\ BeforeUpdate' /\ FakeAlone' /\ Placed' /\ Staged' /\ InitFirst' /\ Finalizing'
<1> USE DEF FInv
<1>1. Size' = Size /\ ToDo' = ToDo /\ Used' = Used
  BY SameTurn
<1>2. /\ \A u \in Task \ {<<"work", b>>} : st'[u] = st[u]
      /\ st'[<<"work", b>>] = v /\ <<"work", b>> \in Clone
      /\ st' \in [Task -> {"NONE", "READY", "TOLOAD", "TOACTIVATE", "ACTIVATED", "DONE", "ERROR"}]
  BY Tasks DEF TypeOK
<1>3. b \in Used /\ st[<<"init", b>>] \in {"NONE", "DONE"} /\ \A c \in Used : st[<<"finalize", c>>] \in Idle
  BY BodyActive
<1>4. BeforeUpdate' /\ Placed' /\ InitFirst'
  BY <1>1, <1>2, <1>3, Tasks DEF BeforeUpdate, Placed, InitFirst, Idle
<1>5. FakeAlone'
  <2>1. st[Fake] \notin {"TOACTIVATE", "ACTIVATED"}
    BY <1>3 DEF FakeAlone
  <2> QED
    BY <1>2, <2>1, Tasks DEF FakeAlone
<1>6. Staged'
  BY <1>2, Tasks DEF Staged
<1>7. Finalizing'
  <2>1. \A c \in Used : st'[<<"finalize", c>>] \in Idle
    <3> SUFFICES ASSUME NEW c \in Used PROVE st'[<<"finalize", c>>] = st[<<"finalize", c>>]
      BY <1>3
    <3>1. <<"finalize", c>> \in Task /\ <<"finalize", c>> # <<"work", b>>
      BY Tasks DEF Used
    <3> QED
      BY <1>2, <3>1
  <2> QED
    BY <1>1, <2>1 DEF Finalizing
<1> QED
  BY <1>2, <1>4, <1>5, <1>6, <1>7

\* No sample is left and no other branch runs: all have ended well, and the
\* sequence is complete, unless one failed.
LEMMA AllEnded ==
  ASSUME FInv, NEW b \in Branch, st[<<"work", b>>] \in Active,
         NEW s, NEW vals, Ended(b, s, vals, 0),
         execCurrentId = ToDo, ~ OthersRunning(b)
  PROVE  /\ vals = Complete /\ s = [st EXCEPT ![<<"work", b>>] = "DONE"]
         /\ \A c \in Used : s[<<"work", c>>] = "DONE" /\ st[<<"init", c>>] \in {"NONE", "DONE"}
<1> USE DEF FInv
<1>1. turn \in DOMAIN Sizes /\ ToDo \in Nat /\ Size \in Nat /\ Passed \subseteq 0 .. (Size - 1)
  BY SizeTypes DEF TypeOK
<1>2. /\ vals \in Values(Size) /\ \A i \in Passed : vals[i] = i
      /\ \A k \in 0 .. (execCurrentId - 1) :
           \/ vals[ToAbsId(k)] = ToAbsId(k) \/ \E c \in Used \ {b} : execIds[c] = k
  BY EndedVals
<1>3. \A c \in Used \ {b} : execIds[c] = Unset
  BY DEF OthersRunning
<1>4. s = [st EXCEPT ![<<"work", b>>] = "DONE"] /\ failedCounter = 0
  BY DEF Ended, TypeOK
<1>5. \A k \in 0 .. (ToDo - 1) : vals[ToAbsId(k)] = ToAbsId(k)
  BY <1>1, <1>2, <1>3 DEF Unset
<1>6. \A i \in 0 .. (Size - 1) : vals[i] = i
  <2> SUFFICES ASSUME NEW i \in 0 .. (Size - 1), i \notin Passed PROVE vals[i] = i
    BY <1>2
  <2>1. i \in NotPassed
    BY DEF NotPassed
  <2>2. LocalId(i) \in 0 .. (ToDo - 1) /\ ToAbsId(LocalId(i)) = i
    BY <1>1, <2>1, AbsIds, LocalIdBound
  <2> QED
    BY <1>5, <2>2
<1>7. vals = Complete
  BY <1>2, <1>6 DEF Values, Complete
<1>8. ASSUME NEW c \in Used
      PROVE  s[<<"work", c>>] = "DONE" /\ st[<<"init", c>>] \in {"NONE", "DONE"}
  <2>1. c \in Branch /\ <<"work", c>> \in Task /\ <<"work", b>> \in Task
    BY Tasks DEF Used
  <2>2. CASE c = b
    BY <1>4, <2>1, <2>2, BodyActive DEF TypeOK
  <2>3. CASE c # b
    <3>1. st[<<"work", c>>] = "DONE"
      BY <1>3, <1>4, <2>3, BodyActive DEF BranchSamples
    <3> QED
      BY <1>4, <2>1, <2>3, <3>1 DEF InitFirst, Idle, TypeOK
  <2> QED
    BY <2>2, <2>3
<1> QED
  BY <1>4, <1>7, <1>8

LEMMA WorkEndsHolds ==
  ASSUME FInv, event = "NOEVENT", NEW b \in Branch, st[<<"work", b>>] \in Active,
         NEW s, NEW vals, NEW nf, Ended(b, s, vals, nf), WorkEnds(b, s, vals, nf),
         UNCHANGED <<turn, loaded>>,
         stage' \in [Task -> {"none", "chosen", "loading", "loaded", "connected"}],
         \A t \in Task \ {<<"work", b>>} : stage'[t] = stage[t],
         \/ stage'[<<"work", b>>] = "none"
         \/ s[<<"work", b>>] = "ERROR" /\ stage'[<<"work", b>>] \in {"loaded", "connected"}
  PROVE  FInv'
<1> USE DEF FInv
<1> DEFINE w == <<"work", b>>
<1>1. /\ Size' = Size /\ ToDo' = ToDo /\ Used' = Used /\ Complete' = Complete
      /\ \A k : ToAbsId(k)' = ToAbsId(k)
  BY SameTurn
<1>2. /\ turn \in DOMAIN Sizes /\ ToDo \in Nat /\ Size \in Nat /\ execCurrentId \in 0 .. ToDo
      /\ failedCounter \in Nat /\ w \in Task
      /\ execIds \in [Branch -> {Unset} \cup 0 .. (ToDo - 1)]
      /\ sample \in [Branch -> {Unset} \cup 0 .. (Size - 1)]
  BY SizeTypes, Tasks DEF TypeOK
<1>3. /\ b \in Used /\ Live /\ BranchSamples /\ Vals /\ state # "DONE" /\ Used \subseteq Branch
      /\ execIds[b] # Unset /\ sample[b] = ToAbsId(execIds[b])
      /\ \A c \in Used : st[<<"finalize", c>>] \in Idle
  BY BodyActive, UsedBranches, <1>2 DEF BranchSamples
<1>4. /\ vals \in Values(Size) /\ nf \in Nat
      /\ \A i \in Passed : vals[i] = i
      /\ \A k \in 0 .. (execCurrentId - 1) :
           \/ nf # 0 \/ vals[ToAbsId(k)] = ToAbsId(k) \/ \E c \in Used \ {b} : execIds[c] = k
  BY EndedVals
<1>5. /\ s[w] = "DONE" \/ (s[w] = "ERROR" /\ nf # 0)
      /\ s = [st EXCEPT ![w] = s[w]]
      /\ \A u \in Task \ {w} : s[u] = st[u]
      /\ failedCounter # 0 => nf # 0
  <2>1. st \in [Task -> {"NONE", "READY", "TOLOAD", "TOACTIVATE", "ACTIVATED", "DONE", "ERROR"}]
    BY DEF TypeOK
  <2>2. CASE s = [st EXCEPT ![w] = "DONE"] /\ nf = failedCounter
    <3>1. s[w] = "DONE" /\ \A u \in Task \ {w} : s[u] = st[u]
      BY <1>2, <2>1, <2>2
    <3>2. s = [st EXCEPT ![w] = s[w]]
      BY <2>2, <3>1
    <3> QED
      BY <2>2, <3>1, <3>2
  <2>3. CASE s = [st EXCEPT ![w] = "ERROR"] /\ nf = failedCounter + 1
    BY <1>2, <2>1, <2>3
  <2> QED
    BY <2>2, <2>3 DEF Ended
<1>6. execVals' = vals /\ failedCounter' = nf
  BY DEF WorkEnds
<1>7. /\ out = out /\ out \in {<<>>} \cup UNION {Values(Sizes[t]) : t \in DOMAIN Sizes}
      /\ Values(Size) \subseteq UNION {Values(Sizes[t]) : t \in DOMAIN Sizes}
      /\ unfinished \in 0 .. MaxBranches
  BY <1>2 DEF TypeOK, Size
<1>8. \A c \in Used \ {b} : execIds[c] = Unset =>
        /\ execCurrentId = ToDo
        /\ st[<<"work", c>>] = "DONE" \/ (st[<<"work", c>>] = "ERROR" /\ nf # 0)
  BY <1>3, <1>5 DEF BranchSamples
<1>9. \A c \in Used \ {b} : <<"work", c>> \in Task \ {w}
  BY <1>3, Tasks
<1> HIDE DEF w
\* What the other branches have is not disturbed.
<1>9a. ASSUME NEW c \in Used \ {b}, \A u \in Task \ {w} : st'[u] = st[u]
       PROVE  Stopped(c)' = Stopped(c)
  <2>1. <<"work", c>> \in Task \ {w} /\ <<"init", c>> \in Task \ {w}
    BY <1>3, Tasks DEF w
  <2> QED
    BY <1>9a, <2>1 DEF Stopped
<1>10. CASE NextSample(b, s)
  <2>1. /\ execCurrentId # ToDo /\ state = "ACTIVATED"
        /\ execIds' = [execIds EXCEPT ![b] = execCurrentId]
        /\ sample'  = [sample EXCEPT ![b] = ToAbsId(execCurrentId)]
        /\ execCurrentId' = execCurrentId + 1
        /\ st' = [st EXCEPT ![w] = "TOLOAD"]
        /\ UNCHANGED <<state, event, unfinished, out>>
    BY <1>2, <1>5, <1>10 DEF NextSample, w
  <2>2. execCurrentId \in 0 .. (ToDo - 1) /\ ToAbsId(execCurrentId) \in 0 .. (Size - 1)
    BY <1>2, <2>1, AbsIds DEF NotPassed
  <2>3. BeforeUpdate' /\ FakeAlone' /\ Placed' /\ Staged' /\ InitFirst' /\ Finalizing'
        /\ st' \in [Task -> {"NONE", "READY", "TOLOAD", "TOACTIVATE", "ACTIVATED", "DONE", "ERROR"}]
    BY <1>4, <1>6, <2>1, BodyStates DEF w
  <2>4. TypeOK'
    BY <1>1, <1>2, <1>4, <1>6, <1>7, <2>1, <2>2, <2>3 DEF TypeOK
  <2>5. BranchSamples'
    <3> SUFFICES ASSUME NEW c \in Used
                 PROVE  /\ execIds'[c] # Unset
                        /\ ~ Stopped(c)' => sample'[c] = ToAbsId(execIds'[c])
      BY <1>1 DEF BranchSamples
    <3>1. CASE c = b
      BY <1>2, <2>1, <3>1 DEF Unset
    <3>2. CASE c # b
      <4>1. \A u \in Task \ {w} : st'[u] = st[u]
        BY <2>1 DEF TypeOK
      <4> QED
        BY <1>2, <1>3, <1>9a, <2>1, <3>2, <4>1 DEF BranchSamples, Unset
    <3> QED
      BY <3>1, <3>2
  <2>6. Vals'
    <3> SUFFICES ASSUME NEW k \in 0 .. execCurrentId
                 PROVE  nf # 0 \/ vals[ToAbsId(k)] = ToAbsId(k) \/ \E c \in Used : execIds'[c] = k
      BY <1>1, <1>2, <1>4, <1>6, <2>1 DEF Vals, Stored
    <3>1. CASE k = execCurrentId
      BY <1>2, <1>3, <2>1, <3>1
    <3>2. CASE k # execCurrentId
      BY <1>2, <1>3, <1>4, <2>1, <3>2
    <3> QED
      BY <3>1, <3>2
  <2>7. DoneInv'
    BY <2>1 DEF DoneInv
  <2> QED
    BY <2>3, <2>4, <2>5, <2>6, <2>7 DEF Dispatched
<1>10a. CASE NextSampleThrows(b, s)
  <2>1. /\ execIds' = [execIds EXCEPT ![b] = execCurrentId] /\ execCurrentId # ToDo
        /\ st' = [st EXCEPT ![w] = "READY"] /\ state' = "ERROR" /\ event' = "ABORT"
        /\ UNCHANGED <<unfinished, out, sample, execCurrentId>>
    BY <1>2, <1>5, <1>10a DEF NextSampleThrows, LoopFails, w
  <2>2. BeforeUpdate' /\ FakeAlone' /\ Placed' /\ Staged' /\ InitFirst' /\ Finalizing'
        /\ st' \in [Task -> {"NONE", "READY", "TOLOAD", "TOACTIVATE", "ACTIVATED", "DONE", "ERROR"}]
    BY <1>4, <1>6, <2>1, BodyStates DEF w
  <2>3. TypeOK'
    BY <1>1, <1>2, <1>4, <1>6, <1>7, <2>1, <2>2 DEF TypeOK
  <2>4. BranchSamples'
    <3> SUFFICES ASSUME NEW c \in Used
                 PROVE  /\ execIds'[c] # Unset
                        /\ ~ Stopped(c)' => sample[c] = ToAbsId(execIds'[c])
      BY <1>1, <2>1 DEF BranchSamples
    <3>1. \A u \in Task \ {w} : st'[u] = st[u]
      BY <2>1 DEF TypeOK
    <3>2. CASE c = b
      <4>1. st'[w] = "READY"
        BY <1>2, <2>1 DEF TypeOK
      <4>2. st'[<<"init", b>>] \in {"NONE", "DONE"}
        BY <3>1, BodyActive, Tasks DEF w
      <4> QED
        BY <1>2, <1>3, <2>1, <3>2, <4>1, <4>2 DEF Stopped, Unset, w
    <3>3. CASE c # b
      BY <1>2, <1>3, <1>9a, <2>1, <3>1, <3>3 DEF BranchSamples, Unset
    <3> QED
      BY <3>2, <3>3
  <2>5. Vals'
    BY <1>1, <1>2, <1>3, <1>4, <1>6, <2>1 DEF Vals, Stored
  <2>6. DoneInv'
    BY <2>1 DEF DoneInv
  <2> QED
    BY <2>2, <2>3, <2>4, <2>5, <2>6 DEF Dispatched
<1>11. CASE NoMoreSample(b, s)
  <2>1. /\ st' = [st EXCEPT ![w] = s[w]]
        /\ UNCHANGED <<state, event, unfinished, out, execIds, sample, execCurrentId>>
    BY <1>5, <1>11 DEF NoMoreSample, branchVars
  <2>2. BeforeUpdate' /\ FakeAlone' /\ Placed' /\ Staged' /\ InitFirst' /\ Finalizing'
        /\ st' \in [Task -> {"NONE", "READY", "TOLOAD", "TOACTIVATE", "ACTIVATED", "DONE", "ERROR"}]
    BY <1>4, <1>5, <1>6, <2>1, BodyStates DEF w
  <2>3. TypeOK'
    BY <1>1, <1>2, <1>4, <1>6, <1>7, <2>1, <2>2 DEF TypeOK
  <2>4. BranchSamples'
    <3>1. \A u \in Task \ {w} : st'[u] = st[u]
      BY <2>1 DEF TypeOK
    <3>2. \A c \in Used \ {b} : Stopped(c)' = Stopped(c) /\ st'[<<"work", c>>] = st[<<"work", c>>]
      BY <1>9, <1>9a, <3>1
    <3> QED
      BY <1>1, <1>3, <1>6, <1>8, <2>1, <3>2 DEF BranchSamples
  <2>5. Vals'
    BY <1>1, <1>4, <1>6, <2>1 DEF Vals, Stored
  <2>6. DoneInv'
    BY <1>3, <2>1 DEF DoneInv
  <2> QED
    BY <2>2, <2>3, <2>4, <2>5, <2>6 DEF Dispatched
\* The branch has no sample any more: what the two last cases share.
<1>12. ASSUME execCurrentId = ToDo, execIds' = [execIds EXCEPT ![b] = Unset],
              UNCHANGED <<sample, execCurrentId>>,
              \A c \in Used : /\ st'[<<"work", c>>] = s[<<"work", c>>]
                              /\ st'[<<"init", c>>] = s[<<"init", c>>]
       PROVE  BranchSamples' /\ Vals'
  <2>1. /\ execIds'[b] = Unset
        /\ \A c \in Used \ {b} : execIds'[c] = execIds[c]
    BY <1>2, <1>3, <1>12
  <2>2. BranchSamples'
    <3> SUFFICES ASSUME NEW c \in Used
                 PROVE  /\ execIds'[c] = Unset =>
                             \/ st'[<<"work", c>>] = "DONE"
                             \/ st'[<<"work", c>>] = "ERROR" /\ failedCounter' # 0
                        /\ execIds'[c] # Unset /\ ~ Stopped(c)' => sample[c] = ToAbsId(execIds'[c])
      BY <1>1, <1>12 DEF BranchSamples
    <3>1. CASE c = b
      BY <1>5, <1>6, <1>12, <2>1, <3>1 DEF w
    <3>2. CASE c # b
      <4>1. /\ st'[<<"work", c>>] = st[<<"work", c>>]
            /\ st'[<<"init", c>>] = st[<<"init", c>>]
        BY <1>3, <1>5, <1>9, <1>12, <3>2, Tasks DEF w
      <4>2. Stopped(c)' = Stopped(c)
        BY <4>1 DEF Stopped
      <4> QED
        BY <1>3, <1>6, <1>8, <2>1, <3>2, <4>1, <4>2 DEF BranchSamples
    <3> QED
      BY <3>1, <3>2
  <2>3. Vals'
    BY <1>1, <1>4, <1>6, <1>12, <2>1 DEF Vals, Stored
  <2> QED
    BY <2>2, <2>3
<1>13. CASE BranchEnds(b, s)
  <2>1. /\ execCurrentId = ToDo /\ st' = [st EXCEPT ![w] = s[w]] /\ st' = s
        /\ execIds' = [execIds EXCEPT ![b] = Unset]
        /\ UNCHANGED <<state, event, unfinished, out, sample, execCurrentId>>
    BY <1>5, <1>13 DEF BranchEnds
  <2>2. BeforeUpdate' /\ FakeAlone' /\ Placed' /\ Staged' /\ InitFirst' /\ Finalizing'
        /\ st' \in [Task -> {"NONE", "READY", "TOLOAD", "TOACTIVATE", "ACTIVATED", "DONE", "ERROR"}]
    BY <1>4, <1>5, <1>6, <2>1, BodyStates DEF w
  <2>3. TypeOK'
    BY <1>1, <1>2, <1>4, <1>6, <1>7, <2>1, <2>2 DEF TypeOK
  <2>4. BranchSamples' /\ Vals'
    BY <1>12, <2>1
  <2>5. DoneInv'
    BY <1>3, <2>1 DEF DoneInv
  <2> QED
    BY <2>2, <2>3, <2>4, <2>5 DEF Dispatched
<1>14. CASE AllBranchesEnd(b, s, vals, nf)
  <2>1. /\ execCurrentId = ToDo /\ ~ OthersRunning(b)
        /\ execIds' = [execIds EXCEPT ![b] = Unset]
        /\ UNCHANGED <<sample, execCurrentId>>
    BY <1>14 DEF AllBranchesEnd
  <2>2. CASE LoopFails(s, "FAILED") \/ LoopFails(s, "ERROR")
    <3>1. /\ st' = [st EXCEPT ![w] = s[w]] /\ st' = s /\ UNCHANGED <<unfinished, out>>
          /\ state' \in {"FAILED", "ERROR"} /\ event' = "ABORT"
      BY <1>5, <2>2 DEF LoopFails
    <3>2. BeforeUpdate' /\ FakeAlone' /\ Placed' /\ Staged' /\ InitFirst' /\ Finalizing'
          /\ st' \in [Task -> {"NONE", "READY", "TOLOAD", "TOACTIVATE", "ACTIVATED", "DONE", "ERROR"}]
      BY <1>4, <1>5, <1>6, <3>1, BodyStates DEF w
    <3>3. TypeOK'
      BY <1>1, <1>2, <1>4, <1>6, <1>7, <2>1, <3>1, <3>2 DEF TypeOK
    <3>4. BranchSamples' /\ Vals'
      BY <1>12, <2>1, <3>1
    <3>5. DoneInv'
      BY <3>1 DEF DoneInv
    <3> QED
      BY <3>2, <3>3, <3>4, <3>5 DEF Dispatched
  <2>3. CASE nf = 0 /\ LoopSucceeds(s, vals)
    <3>1. /\ vals = Complete
          /\ \A c \in Used : s[<<"work", c>>] = "DONE" /\ st[<<"init", c>>] \in {"NONE", "DONE"}
          /\ s[w] = "DONE" /\ stage'[w] = "none"
      <4>1. Ended(b, s, vals, 0)
        BY <2>3
      <4>2. /\ vals = Complete
            /\ \A c \in Used : s[<<"work", c>>] = "DONE" /\ st[<<"init", c>>] \in {"NONE", "DONE"}
        BY <2>1, <4>1, AllEnded
      <4> QED
        BY <1>3, <4>2 DEF w
    <3>2. out' = vals
      BY <2>3 DEF LoopSucceeds
    <3>3. CASE ~ HasFinalize
      <4>1. /\ st' = [st EXCEPT ![w] = s[w]] /\ st' = s /\ unfinished' = unfinished
            /\ state' = "DONE" /\ event' = "FINISH"
        BY <1>5, <2>3, <3>3 DEF LoopSucceeds
      <4>2. BeforeUpdate' /\ FakeAlone' /\ Placed' /\ Staged' /\ InitFirst' /\ Finalizing'
            /\ st' \in [Task -> {"NONE", "READY", "TOLOAD", "TOACTIVATE", "ACTIVATED", "DONE", "ERROR"}]
        BY <1>4, <1>5, <1>6, <4>1, BodyStates DEF w
      <4>3. TypeOK'
        BY <1>1, <1>2, <1>4, <1>6, <1>7, <2>1, <3>2, <4>1, <4>2 DEF TypeOK
      <4>4. BranchSamples' /\ Vals'
        BY <1>12, <2>1, <4>1
      <4>5. DoneMeansAllDone'
        <5> SUFFICES ASSUME NEW t \in Clone PROVE st'[t] \in {"NONE", "DONE"}
          BY DEF DoneMeansAllDone
        <5>1. t \in Task /\ t = <<t[1], t[2]>> /\ t[1] \in {"init", "work", "finalize"}
          BY Tasks
        <5>2. CASE t[2] \notin Used \/ t[1] = "finalize"
          BY <1>1, <3>3, <4>2, <5>2 DEF Placed
        <5>3. CASE t[2] \in Used /\ t[1] = "work"
          <6>1. t = <<"work", t[2]>>
            BY <5>1, <5>3
          <6> QED
            BY <3>1, <4>1, <5>3, <6>1
        <5>4. CASE t[2] \in Used /\ t[1] = "init"
          <6>1. t = <<"init", t[2]>>
            BY <5>1, <5>4
          <6>2. s[t] = st[t]
            BY <1>5, <5>1, <6>1 DEF w
          <6> QED
            BY <3>1, <4>1, <5>4, <6>1, <6>2
        <5> QED
          BY <5>1, <5>2, <5>3, <5>4
      <4>6. DoneInv'
        BY <1>1, <3>1, <3>2, <4>5 DEF DoneInv, ResultsComplete, Complete
      <4> QED
        BY <4>2, <4>3, <4>4, <4>6 DEF Dispatched
    <3>4. CASE HasFinalize
      <4>1. /\ st' = [t \in Task |-> IF t[1] = "finalize" /\ t[2] \in Used THEN "TOLOAD" ELSE s[t]]
            /\ unfinished' = Cardinality(Used) /\ state' = state /\ event' = event
        BY <2>3, <3>4 DEF LoopSucceeds
      <4>2. /\ \A c \in Branch : st'[<<"work", c>>] = s[<<"work", c>>]
            /\ \A c \in Branch : st'[<<"init", c>>] = st[<<"init", c>>]
            /\ \A c \in Used : st'[<<"finalize", c>>] = "TOLOAD"
            /\ st'[Fake] = st[Fake]
        BY <1>3, <1>5, <4>1, Tasks DEF w, Fake
      <4>3. st' \in [Task -> {"NONE", "READY", "TOLOAD", "TOACTIVATE", "ACTIVATED", "DONE", "ERROR"}]
        BY <1>5, <4>1 DEF TypeOK
      <4>4. Cardinality(Used) \in 0 .. MaxBranches
        BY <1>2, UsedBranches
      <4>5. TypeOK'
        BY <1>1, <1>2, <1>4, <1>6, <1>7, <2>1, <3>2, <4>1, <4>3, <4>4 DEF TypeOK
      <4>6. BranchSamples' /\ Vals'
        <5>1. \A c \in Used : st'[<<"init", c>>] = s[<<"init", c>>]
          BY <1>3, <1>5, <4>2, Tasks DEF w
        <5> QED
          BY <1>3, <1>12, <2>1, <4>2, <5>1
      <4>7. FakeAlone' /\ BeforeUpdate'
        BY <1>1, <1>3, <4>1, <4>2 DEF FakeAlone, BeforeUpdate
      <4>8. Placed'
        BY <1>1, <1>3, <1>5, <3>4, <4>1, Tasks DEF Placed, w
      <4>9. Staged'
        <5> SUFFICES ASSUME NEW t \in Task
                     PROVE  /\ stage'[t] \in {"chosen", "loading"} => t \in Clone /\ st'[t] = "TOLOAD"
                            /\ stage'[t] \in {"loaded", "connected"} =>
                                 st'[t] \in {"READY", "TOLOAD", "TOACTIVATE", "ERROR"}
          BY DEF Staged
        <5>1. CASE t = w
          BY <3>1, <5>1
        <5>2. CASE t # w
          <6>1. stage'[t] = stage[t]
            BY <5>2 DEF w
          <6>2. CASE t[1] = "finalize" /\ t[2] \in Used
            <7>1. st'[t] = "TOLOAD" /\ t # Fake
              BY <4>1, <6>2 DEF Fake
            <7> QED
              BY <6>1, <7>1, Tasks
          <6>3. CASE ~ (t[1] = "finalize" /\ t[2] \in Used)
            <7>1. st'[t] = st[t]
              BY <1>5, <4>1, <5>2, <6>3
            <7> QED
              BY <6>1, <7>1 DEF Staged
          <6> QED
            BY <6>2, <6>3
        <5> QED
          BY <5>1, <5>2
      <4>10. InitFirst'
        <5> SUFFICES ASSUME NEW c \in Branch, st'[<<"work", c>>] \notin Idle
                     PROVE  st[<<"init", c>>] \in {"NONE", "DONE"}
          BY <4>2 DEF InitFirst
        <5>1. CASE c \in Used
          BY <3>1, <5>1
        <5>2. CASE c \notin Used
          <6>1. <<"work", c>> \in Clone /\ <<"work", c>>[2] = c
            BY Tasks
          <6>2. st[<<"work", c>>] = "NONE"
            BY <5>2, <6>1 DEF Placed
          <6>3. s[<<"work", c>>] = "NONE"
            BY <1>3, <1>5, <5>2, <6>1, <6>2, Tasks DEF w
          <6> QED
            BY <4>2, <6>3 DEF Idle
        <5> QED
          BY <5>1, <5>2
      <4>11. Finalizing'
        <5>1. NotFinalized' = Used
          BY <1>1, <4>2 DEF NotFinalized
        <5>2. \A c \in Used : st'[<<"work", c>>] = "DONE" /\ st'[<<"finalize", c>>] = "TOLOAD"
          BY <1>3, <3>1, <4>2
        <5>3. out' = Complete' /\ unfinished' = Cardinality(NotFinalized')
          BY <1>1, <3>1, <3>2, <4>1, <5>1
        <5> QED
          BY <1>1, <5>2, <5>3 DEF Finalizing, Idle
      <4>12. DoneInv'
        BY <1>3, <4>1 DEF DoneInv
      <4> QED
        BY <4>5, <4>6, <4>7, <4>8, <4>9, <4>10, <4>11, <4>12 DEF Dispatched
    <3> QED
      BY <3>3, <3>4
  <2> QED
    BY <1>14, <2>2, <2>3 DEF AllBranchesEnd
<1> QED
  BY <1>10, <1>10a, <1>11, <1>13, <1>14 DEF WorkEnds

-----------------------------------------------------------------------------
(* The steps                                                               *)

LEMMA CloneFailsHolds ==
  ASSUME FInv, event = "NOEVENT", NEW t \in Clone, st[t] \in Active, CloneFails(t),
         UNCHANGED <<turn, loaded>>,
         stage' \in [Task -> {"none", "chosen", "loading", "loaded", "connected"}],
         \A u \in Task \ {t} : stage'[u] = stage[u],
         stage'[t] \in {"none", "loaded", "connected"}
  PROVE  FInv'
<1> USE DEF FInv
<1> DEFINE s == [st EXCEPT ![t] = "ERROR"]
<1>1. CASE t[1] = "work" /\ KeepGoing
  <2>1. t = <<"work", t[2]>> /\ t[2] \in Branch
    BY <1>1, Tasks
  <2>2. s[t] = "ERROR"
    BY Tasks DEF TypeOK
  <2>3. WorkEnds(t[2], s, execVals, failedCounter + 1)
    BY <1>1 DEF CloneFails
  <2>4. Ended(t[2], s, execVals, failedCounter + 1)
    BY <2>1 DEF Ended
  <2> HIDE DEF s
  <2> QED
    BY <2>1, <2>2, <2>3, <2>4, WorkEndsHolds
<1>2. CASE ~ (t[1] = "work" /\ KeepGoing)
  <2>1. /\ st' = s /\ state' = "FAILED" /\ event' = "ABORT"
        /\ UNCHANGED <<unfinished, out, execIds, sample, execCurrentId, failedCounter, execVals>>
    BY <1>2 DEF CloneFails, LoopFails, branchVars
  <2>2. /\ Size' = Size /\ ToDo' = ToDo /\ Used' = Used /\ Complete' = Complete
        /\ \A k : ToAbsId(k)' = ToAbsId(k)
    BY SameTurn
  <2>3. /\ \A u \in Task \ {t} : st'[u] = st[u]
        /\ st'[t] = "ERROR" /\ t \in Task /\ t # Fake
        /\ st' \in [Task -> {"NONE", "READY", "TOLOAD", "TOACTIVATE", "ACTIVATED", "DONE", "ERROR"}]
    BY <2>1, Tasks DEF TypeOK
  <2>4. Live
    BY DEF Live, Active, Idle
  <2>5. TypeOK'
    BY <2>1, <2>2, <2>3 DEF TypeOK
  <2>6. BeforeUpdate' /\ Placed' /\ DoneInv'
    BY <2>1, <2>2, <2>3 DEF BeforeUpdate, Placed, DoneInv, Active
  <2>7. FakeAlone'
    <3>1. t[2] \in Used
      BY DEF Placed, Active
    <3> QED
      BY <2>1, <2>3, <3>1, Tasks DEF FakeAlone
  <2>8. Staged'
    BY <2>3 DEF Staged
  <2>9. InitFirst'
    <3> SUFFICES ASSUME NEW b \in Branch, st'[<<"work", b>>] \notin Idle
                 PROVE  st'[<<"init", b>>] \in {"NONE", "DONE"}
      BY DEF InitFirst
    <3>1. <<"work", b>> \in Task /\ <<"init", b>> \in Task /\ <<"work", b>> # <<"init", b>>
      BY Tasks
    <3>2. st[<<"work", b>>] \notin Idle
      BY <2>3, <3>1 DEF Active, Idle
    <3>3. st[<<"init", b>>] \in {"NONE", "DONE"}
      BY <3>2 DEF InitFirst
    <3> QED
      BY <2>3, <3>1, <3>3 DEF Active
  <2>10. BranchSamples'
    <3>1. \A b \in Used : execIds[b] = Unset =>
            /\ st[<<"work", b>>] \in {"DONE", "ERROR"} /\ <<"work", b>> \in Task
            /\ st'[<<"work", b>>] = st[<<"work", b>>]
      BY <2>3, <2>4, Tasks DEF Dispatched, BranchSamples, Active, Used
    <3>2. \A b \in Used : Stopped(b) => Stopped(b)'
      BY <2>3, Tasks DEF Stopped, Active, Used
    <3> QED
      BY <2>1, <2>2, <2>4, <3>1, <3>2 DEF Dispatched, BranchSamples
  <2>11. Vals'
    BY <2>1, <2>2, <2>4 DEF Dispatched, Vals, Stored
  <2>12. Finalizing'
    <3>1. \A b \in Used : <<"finalize", b>> \in Task /\ <<"work", b>> \in Task
      BY Tasks DEF Used
    <3>2. \A b \in Used : /\ st'[<<"finalize", b>>] \in Idle <=> st[<<"finalize", b>>] \in Idle
                          /\ st'[<<"finalize", b>>] = "DONE" <=> st[<<"finalize", b>>] = "DONE"
      BY <2>3, <3>1 DEF Active, Idle
    <3>3. \A b \in Used : st[<<"work", b>>] = "DONE" => st'[<<"work", b>>] = "DONE"
      BY <2>3, <3>1 DEF Active
    <3> QED
      BY <2>1, <2>2, <3>2, <3>3 DEF Finalizing, NotFinalized
  <2> QED
    BY <2>5, <2>6, <2>7, <2>8, <2>9, <2>10, <2>11, <2>12 DEF Dispatched
<1> QED
  BY <1>1, <1>2

\* A round of the executor.
LEMMA RoundHolds == ASSUME FInv, Round PROVE FInv'
<1> USE DEF FInv
<1>1. CASE GetNextTasks
  <2>1. /\ stage' = [t \in Task |-> IF t \notin ReadyTasks THEN "none"
                                    ELSE IF st[t] = "TOLOAD" THEN "chosen" ELSE "loaded"]
        /\ UNCHANGED <<state, turn, st, loaded, branchVars, unfinished, resultVars, event>>
        /\ event = "NOEVENT"
    BY <1>1 DEF GetNextTasks
  <2>2. \A t \in ReadyTasks : \/ t \in Clone /\ st[t] \in {"TOLOAD", "TOACTIVATE"}
                              \/ st[t] = "TOACTIVATE"
    BY DEF ReadyTasks
  <2>3. Staged'
    BY <2>1, <2>2 DEF Staged
  <2> QED
    BY <2>1, <2>3, StageMoves DEF TypeOK
<1>2. ASSUME NEW t \in Task, TaskStarted(t) PROVE FInv'
  <2>1. Staged'
    BY <1>2 DEF TaskStarted, Staged, TypeOK
  <2> QED
    BY <1>2, <2>1, StageMoves DEF TaskStarted, TypeOK
<1>3. ASSUME NEW t \in Task, TaskLoaded(t) PROVE FInv'
  <2>1. t \in Clone /\ Staged'
    BY <1>3 DEF TaskLoaded, Staged, TypeOK
  <2> QED
    BY <1>3, <2>1, StageMoves DEF TaskLoaded, TypeOK
<1>4. ASSUME NEW t \in Task, TaskNotLoaded(t) PROVE FInv'
  <2>1. t \in Clone /\ st[t] \in Active
    BY <1>4 DEF TaskNotLoaded, Staged, Active
  <2>2. /\ stage' = [stage EXCEPT ![t] = "loaded"] /\ CloneFails(t)
        /\ event = "NOEVENT" /\ UNCHANGED <<turn, loaded>>
    BY <1>4 DEF TaskNotLoaded
  <2>3. /\ stage' \in [Task -> {"none", "chosen", "loading", "loaded", "connected"}]
        /\ stage'[t] = "loaded" /\ \A u \in Task \ {t} : stage'[u] = stage[u]
    BY <2>2 DEF TypeOK
  <2> QED
    BY <2>1, <2>2, <2>3, CloneFailsHolds
<1>5. ASSUME NEW t \in Task, TaskConnected(t) PROVE FInv'
  <2>1. /\ event = "NOEVENT" /\ stage[t] = "loaded"
        /\ stage' = [stage EXCEPT ![t] = "connected"]
        /\ st' = [st EXCEPT ![t] = IF st[t] = "TOLOAD" THEN "TOACTIVATE" ELSE st[t]]
        /\ UNCHANGED <<state, turn, loaded, branchVars, unfinished, resultVars, event>>
    BY <1>5 DEF TaskConnected
  <2>2. st[t] \in {"READY", "TOLOAD", "TOACTIVATE", "ERROR"}
    BY <2>1 DEF Staged
  <2>3. stage' \in [Task -> {"none", "chosen", "loading", "loaded", "connected"}] /\ Staged'
    BY <2>1, <2>2 DEF Staged, TypeOK
  <2>4. CASE st[t] \in {"READY", "ERROR"}
    <3>1. st' = st
      BY <2>1, <2>4 DEF TypeOK
    <3> QED
      BY <2>1, <2>3, <3>1, StageMoves DEF TypeOK
  <2>5. CASE st[t] \notin {"READY", "ERROR"}
    <3>1. st' = [st EXCEPT ![t] = "TOACTIVATE"]
      BY <2>1, <2>2, <2>5
    <3>2. st[t] \in Active /\ "TOACTIVATE" \in Active
      BY <2>2, <2>5 DEF Active
    <3> QED
      BY <2>1, <2>3, <3>1, <3>2, ActiveMoves
  <2> QED
    BY <2>4, <2>5
<1>6. ASSUME NEW t \in Task, TaskNotConnected(t) PROVE FInv'
  <2>1. /\ stage' = [stage EXCEPT ![t] = "connected"] /\ CloneFails(t)
        /\ event = "NOEVENT" /\ UNCHANGED <<turn, loaded>> /\ st[t] = "TOLOAD"
    BY <1>6 DEF TaskNotConnected
  <2>2. t \in Clone /\ st[t] \in Active
    BY <2>1, Tasks DEF FakeAlone, Active
  <2>3. /\ stage' \in [Task -> {"none", "chosen", "loading", "loaded", "connected"}]
        /\ stage'[t] = "connected" /\ \A u \in Task \ {t} : stage'[u] = stage[u]
    BY <2>1 DEF TypeOK
  <2> QED
    BY <2>1, <2>2, <2>3, CloneFailsHolds
<1>7. ASSUME NEW t \in Task, TaskLaunched(t) PROVE FInv'
  <2>1. /\ event = "NOEVENT" /\ stage[t] = "connected"
        /\ stage' = [stage EXCEPT ![t] = "none"]
        /\ st' = [st EXCEPT ![t] = IF st[t] = "TOACTIVATE" THEN "ACTIVATED" ELSE st[t]]
        /\ UNCHANGED <<state, turn, loaded, branchVars, unfinished, resultVars, event>>
    BY <1>7 DEF TaskLaunched
  <2>2. st[t] \in {"READY", "TOLOAD", "TOACTIVATE", "ERROR"}
    BY <2>1 DEF Staged
  <2>3. stage' \in [Task -> {"none", "chosen", "loading", "loaded", "connected"}] /\ Staged'
    BY <2>1, <2>2 DEF Staged, TypeOK
  <2>4. CASE st[t] # "TOACTIVATE"
    <3>1. st' = st
      BY <2>1, <2>4 DEF TypeOK
    <3> QED
      BY <2>1, <2>3, <3>1, StageMoves DEF TypeOK
  <2>5. CASE st[t] = "TOACTIVATE"
    <3>1. st' = [st EXCEPT ![t] = "ACTIVATED"]
      BY <2>1, <2>5
    <3>2. st[t] \in Active /\ "ACTIVATED" \in Active
      BY <2>5 DEF Active
    <3> QED
      BY <2>1, <2>3, <3>1, <3>2, ActiveMoves
  <2> QED
    BY <2>4, <2>5
<1> QED
  BY <1>1, <1>2, <1>3, <1>4, <1>5, <1>6, <1>7 DEF Round

LEMMA InitFinishedHolds ==
  ASSUME FInv, NEW b \in Branch, InitFinished(b)
  PROVE  FInv'
<1> USE DEF FInv
<1> DEFINE i == <<"init", b>>
           w == <<"work", b>>
<1>1. /\ event = "NOEVENT" /\ st[i] = "ACTIVATED"
      /\ st' = [st EXCEPT ![i] = "DONE", ![w] = "TOLOAD"]
      /\ UNCHANGED <<state, turn, stage, loaded, execIds, sample, execCurrentId, unfinished,
                     failedCounter, execVals, out, event>>
  BY DEF InitFinished, branchVars, resultVars
<1>2. /\ Size' = Size /\ ToDo' = ToDo /\ Used' = Used /\ Complete' = Complete
      /\ \A k : ToAbsId(k)' = ToAbsId(k)
  BY <1>1, SameTurn
<1>3. i \in Clone /\ w \in Clone /\ i \in Task /\ w \in Task /\ i # w /\ i # Fake /\ w # Fake
      /\ i[1] = "init" /\ i[2] = b /\ w[1] = "work" /\ w[2] = b
  BY Tasks
<1>4. /\ \A u \in Task \ {i, w} : st'[u] = st[u]
      /\ st'[i] = "DONE" /\ st'[w] = "TOLOAD"
      /\ st' \in [Task -> {"NONE", "READY", "TOLOAD", "TOACTIVATE", "ACTIVATED", "DONE", "ERROR"}]
  BY <1>1, <1>3 DEF TypeOK
<1>5. b \in Used /\ HasInit /\ Live
  BY <1>1, <1>3 DEF Placed, Live, Idle
<1>6. st[w] \in Idle /\ state # "DONE"
  BY <1>1, <1>3 DEF InitFirst, DoneInv, DoneMeansAllDone
<1>7. \A c \in Used : st[<<"finalize", c>>] \in Idle
  BY <1>5, <1>6 DEF Finalizing, Idle
<1>8. TypeOK'
  BY <1>1, <1>2, <1>4 DEF TypeOK
<1>9. BeforeUpdate' /\ DoneInv'
  BY <1>1, <1>6 DEF BeforeUpdate, DoneInv
<1>10. FakeAlone'
  BY <1>1, <1>2, <1>3, <1>4, Tasks DEF FakeAlone
<1>11. Placed'
  <2> SUFFICES ASSUME NEW u \in Clone,
                      \/ u[2] \notin Used
                      \/ u[1] = "init" /\ ~ HasInit
                      \/ u[1] = "finalize" /\ ~ HasFinalize
               PROVE  st'[u] = "NONE"
    BY <1>2 DEF Placed
  <2>1. st[u] = "NONE" /\ u \in Task
    BY Tasks DEF Placed
  <2>2. u # i /\ u # w
    BY <1>3, <1>5
  <2> QED
    BY <1>4, <2>1, <2>2
<1>12. Staged'
  BY <1>1, <1>3, <1>4, <1>6 DEF Staged, Idle
<1>13. InitFirst'
  BY <1>3, <1>4, Tasks DEF InitFirst
<1>14. Finalizing'
  <2>1. \A c \in Used : st'[<<"finalize", c>>] = st[<<"finalize", c>>]
    BY <1>4, Tasks DEF Used
  <2> QED
    BY <1>2, <1>7, <2>1 DEF Finalizing
<1>15. Dispatched'
  <2>1. \A c \in Used : execIds[c] = Unset => st'[<<"work", c>>] = st[<<"work", c>>]
    <3>1. execIds[b] # Unset
      BY <1>5, <1>6 DEF Dispatched, BranchSamples, Idle
    <3> QED
      BY <1>4, <3>1, Tasks DEF Used
  <2>2. \A c \in Used : Stopped(c) => Stopped(c)'
    <3>1. ~ Stopped(b)
      BY <1>1 DEF Stopped
    <3> QED
      BY <1>4, <3>1, Tasks DEF Stopped, Used
  <2> QED
    BY <1>1, <1>2, <1>5, <2>1, <2>2 DEF Dispatched, BranchSamples, Vals, Stored
<1> QED
  BY <1>8, <1>9, <1>10, <1>11, <1>12, <1>13, <1>14, <1>15

LEMMA WorkFinishedHolds ==
  ASSUME FInv, NEW b \in Branch, WorkFinished(b)
  PROVE  FInv'
<1> DEFINE w == <<"work", b>>
           s == [st EXCEPT ![w] = "DONE"]
<1>1. /\ event = "NOEVENT" /\ st[w] = "ACTIVATED"
      /\ WorkEnds(b, s, StoredVals(b), failedCounter) \/ StoreThrows(s)
      /\ UNCHANGED <<turn, stage, loaded>>
  BY DEF WorkFinished
<1>2. Ended(b, s, StoredVals(b), failedCounter)
  BY DEF Ended
<1>3. stage[w] = "none" /\ st[w] \in Active /\ w \in Task
  BY <1>1, Tasks DEF FInv, TypeOK, Staged, Active
<1>4. stage' \in [Task -> {"none", "chosen", "loading", "loaded", "connected"}]
  BY <1>1 DEF FInv, TypeOK
<1>5. CASE StoreThrows(s)
  <2>1. /\ st' = s /\ state' = "ERROR" /\ event' = "ABORT"
        /\ UNCHANGED <<unfinished, out, execIds, sample, execCurrentId, failedCounter, execVals>>
    BY <1>5 DEF StoreThrows, LoopFails, branchVars
  <2>2. /\ Size' = Size /\ ToDo' = ToDo /\ Used' = Used
        /\ \A k : ToAbsId(k)' = ToAbsId(k)
    BY <1>1, SameTurn
  <2>3. b \in Used /\ Live /\ BranchSamples /\ Vals /\ execIds[b] # Unset /\ sample[b] = ToAbsId(execIds[b])
    BY <1>3, BodyActive
  <2>4. /\ BeforeUpdate' /\ FakeAlone' /\ Placed' /\ Staged' /\ InitFirst' /\ Finalizing'
        /\ st' \in [Task -> {"NONE", "READY", "TOLOAD", "TOACTIVATE", "ACTIVATED", "DONE", "ERROR"}]
    <3>1. execVals' \in Values(Size) /\ event' \in {"NOEVENT", "FINISH", "ABORT"}
      BY <2>1, <2>3 DEF Vals
    <3> QED
      BY <1>1, <1>3, <1>4, <2>1, <3>1, BodyStates
  <2>5. TypeOK'
    BY <1>1, <2>1, <2>2, <2>4 DEF FInv, TypeOK
  <2>6. \A u \in Task \ {w} : st'[u] = st[u]
    BY <2>1 DEF FInv, TypeOK
  <2>7. BranchSamples'
    <3>1. \A c \in Used \ {b} : Stopped(c)' = Stopped(c) /\ st'[<<"work", c>>] = st[<<"work", c>>]
      BY <2>6, Tasks DEF Stopped, Used
    <3> QED
      BY <2>1, <2>2, <2>3, <3>1 DEF BranchSamples
  <2>8. Vals' /\ DoneInv'
    BY <2>1, <2>2, <2>3 DEF Vals, Stored, DoneInv
  <2> QED
    BY <2>4, <2>5, <2>7, <2>8 DEF FInv, Dispatched
<1>6. CASE WorkEnds(b, s, StoredVals(b), failedCounter)
  <2> HIDE DEF s
  <2> QED
    BY <1>1, <1>2, <1>3, <1>4, <1>6, WorkEndsHolds
<1> QED
  BY <1>1, <1>5, <1>6

\* The last finalize node ends the loop.
LEMMA FinalizeFinishedHolds ==
  ASSUME FInv, NEW b \in Branch, FinalizeFinished(b)
  PROVE  FInv'
<1> USE DEF FInv
<1> DEFINE f == <<"finalize", b>>
<1>1. /\ event = "NOEVENT" /\ st[f] = "ACTIVATED"
      /\ st' = [st EXCEPT ![f] = "DONE"]
      /\ unfinished' = unfinished - 1
      /\ \/ unfinished = 1 /\ state' = "DONE" /\ event' = "FINISH"
         \/ unfinished # 1 /\ UNCHANGED <<state, event>>
      /\ UNCHANGED <<turn, stage, loaded, execIds, sample, execCurrentId, failedCounter, execVals, out>>
  BY DEF FinalizeFinished, branchVars, resultVars
<1>2. /\ Size' = Size /\ ToDo' = ToDo /\ Used' = Used /\ Complete' = Complete
      /\ \A k : ToAbsId(k)' = ToAbsId(k)
  BY <1>1, SameTurn
<1>3. f \in Clone /\ f \in Task /\ f # Fake /\ f[1] = "finalize" /\ f[2] = b
  BY Tasks
<1>4. /\ \A u \in Task \ {f} : st'[u] = st[u]
      /\ st'[f] = "DONE"
      /\ st' \in [Task -> {"NONE", "READY", "TOLOAD", "TOACTIVATE", "ACTIVATED", "DONE", "ERROR"}]
  BY <1>1, <1>3 DEF TypeOK
<1>5. b \in Used /\ Live
  BY <1>1, <1>3 DEF Placed, Live, Idle
<1>6. /\ \A c \in Used : st[<<"work", c>>] = "DONE"
      /\ \A c \in Used : st[<<"finalize", c>>] \notin Idle
      /\ out = Complete /\ unfinished = Cardinality(NotFinalized)
  BY <1>1, <1>5 DEF Finalizing, Idle
<1>7. /\ IsFiniteSet(NotFinalized) /\ b \in NotFinalized
      /\ NotFinalized' = NotFinalized \ {b}
  <2>1. IsFiniteSet(NotFinalized)
    <3>1. IsFiniteSet(Used) /\ NotFinalized \subseteq Used
      BY UsedBranches DEF TypeOK, NotFinalized
    <3> QED
      BY <3>1, FS_Subset
  <2>2. \A c \in Used : st'[<<"finalize", c>>] = IF c = b THEN "DONE" ELSE st[<<"finalize", c>>]
    BY <1>4, Tasks DEF Used
  <2> QED
    BY <1>1, <1>2, <1>5, <2>1, <2>2 DEF NotFinalized
<1>8. /\ Cardinality(NotFinalized) \in Nat
      /\ Cardinality(NotFinalized') = Cardinality(NotFinalized) - 1
      /\ Cardinality(NotFinalized') \in Nat
  <2> DEFINE N == NotFinalized
  <2>1. IsFiniteSet(N) /\ b \in N
    BY <1>7
  <2> HIDE DEF N
  <2>2. IsFiniteSet(N \ {b}) /\ Cardinality(N \ {b}) = Cardinality(N) - 1
    BY <2>1, FS_RemoveElement
  <2>3. Cardinality(N) \in Nat /\ Cardinality(N \ {b}) \in Nat
    BY <2>1, <2>2, FS_CardinalityType
  <2> QED
    BY <1>7, <2>2, <2>3 DEF N
<1>9. state # "DONE"
  BY <1>1, <1>3 DEF DoneInv, DoneMeansAllDone
<1>10. TypeOK'
  <2>1. unfinished' \in 0 .. MaxBranches /\ MaxBranches \in Nat
    BY <1>1, <1>6, <1>8, BranchAssumption DEF TypeOK
  <2> QED
    BY <1>1, <1>2, <1>4, <2>1 DEF TypeOK
<1>11. BeforeUpdate'
  BY <1>1 DEF BeforeUpdate
<1>12. FakeAlone'
  BY <1>1, <1>2, <1>3, <1>4, <1>5, Tasks DEF FakeAlone
<1>13. Placed'
  BY <1>1, <1>2, <1>3, <1>4 DEF Placed
<1>14. Staged'
  BY <1>1, <1>3, <1>4 DEF Staged
<1>15. InitFirst'
  BY <1>3, <1>4, Tasks DEF InitFirst
<1>16. \A c \in Used : st'[<<"work", c>>] = st[<<"work", c>>]
  BY <1>4, Tasks DEF Used
<1>17. Dispatched'
  <2>1. \A c \in Used : st'[<<"init", c>>] = st[<<"init", c>>]
    BY <1>4, Tasks DEF Used
  <2> QED
    BY <1>1, <1>2, <1>5, <1>16, <2>1 DEF Dispatched, BranchSamples, Stopped, Vals, Stored
<1>18. Finalizing'
  <2>1. \A c \in Used : st'[<<"finalize", c>>] \notin Idle
    BY <1>4, <1>6, Tasks DEF Used, Idle
  <2> QED
    BY <1>1, <1>2, <1>6, <1>8, <1>16, <2>1 DEF Finalizing
<1>19. DoneInv'
  <2> SUFFICES ASSUME state' = "DONE" PROVE DoneMeansAllDone' /\ ResultsComplete'
    BY DEF DoneInv
  <2>1. NotFinalized' = {}
    <3>1. unfinished = 1
      BY <1>1, <1>9
    <3>2. IsFiniteSet(NotFinalized') /\ Cardinality(NotFinalized') = 0
      <4>1. IsFiniteSet(NotFinalized \ {b})
        BY <1>7, FS_Subset
      <4> QED
        BY <1>6, <1>7, <1>8, <3>1, <4>1
    <3> QED
      BY <3>2, FS_EmptySet
  <2>2. ASSUME NEW t \in Clone PROVE st'[t] \in {"NONE", "DONE"}
    <3>1. t = <<t[1], t[2]>> /\ t[1] \in {"init", "work", "finalize"}
      BY Tasks
    <3>2. CASE t[2] \notin Used
      BY <1>2, <1>13, <3>2 DEF Placed
    <3>3. CASE t[2] \in Used /\ t[1] = "work"
      <4>1. t = <<"work", t[2]>>
        BY <3>1, <3>3
      <4> QED
        BY <1>6, <1>16, <3>3, <4>1
    <3>4. CASE t[2] \in Used /\ t[1] = "finalize"
      <4>1. t = <<"finalize", t[2]>>
        BY <3>1, <3>4
      <4>2. t[2] \notin NotFinalized' /\ t[2] \in Used'
        BY <1>2, <2>1, <3>4
      <4> QED
        BY <4>1, <4>2 DEF NotFinalized
    <3>5. CASE t[2] \in Used /\ t[1] = "init"
      <4>1. t = <<"init", t[2]>> /\ t[2] \in Branch
        BY <3>1, <3>5, Tasks
      <4>2. st'[<<"work", t[2]>>] \notin Idle
        BY <1>6, <1>16, <3>5 DEF Idle
      <4> QED
        BY <1>15, <4>1, <4>2 DEF InitFirst
    <3> QED
      BY <3>1, <3>2, <3>3, <3>4, <3>5
  <2> QED
    BY <1>1, <1>2, <1>6, <2>2 DEF DoneMeansAllDone, ResultsComplete, Complete
<1> QED
  BY <1>10, <1>11, <1>12, <1>13, <1>14, <1>15, <1>17, <1>18, <1>19

LEMMA FakeEndsHolds == ASSUME FInv, FakeEnds PROVE FInv'
<1> USE DEF FInv
<1>1. /\ event = "NOEVENT" /\ st[Fake] = "ACTIVATED"
      /\ st' = [st EXCEPT ![Fake] = "DONE"]
      /\ \/ (ToDo = 0 \/ ~ HasOutput) /\ out' = execVals /\ state' = "DONE" /\ event' = "FINISH"
         \/ out' = out /\ state' = "ERROR" /\ event' = "ABORT"
      /\ UNCHANGED <<turn, stage, loaded, execIds, sample, execCurrentId, unfinished, failedCounter,
                     execVals>>
  BY DEF FakeEnds, branchVars
<1>2. /\ Size' = Size /\ ToDo' = ToDo /\ Used' = Used
      /\ \A k : ToAbsId(k)' = ToAbsId(k)
  BY <1>1, SameTurn
<1>3. Used = {} /\ (ToDo = 0 => execVals = <<>>)
  BY <1>1 DEF FakeAlone
<1>4. /\ \A u \in Task \ {Fake} : st'[u] = st[u]
      /\ st'[Fake] = "DONE"
      /\ st' \in [Task -> {"NONE", "READY", "TOLOAD", "TOACTIVATE", "ACTIVATED", "DONE", "ERROR"}]
  BY <1>1, Tasks DEF TypeOK
<1>5. \A t \in Clone : st'[t] = "NONE"
  BY <1>3, <1>4, Tasks DEF Placed
<1>6. TypeOK'
  <2>1. Values(Size) \subseteq UNION {Values(Sizes[t]) : t \in DOMAIN Sizes}
    BY DEF TypeOK, Size
  <2>2. out' \in {<<>>} \cup UNION {Values(Sizes[t]) : t \in DOMAIN Sizes}
    BY <1>1, <2>1 DEF TypeOK
  <2> QED
    BY <1>1, <1>2, <1>4, <2>2 DEF TypeOK
<1>7. BeforeUpdate' /\ FakeAlone' /\ Placed' /\ InitFirst' /\ Dispatched' /\ Finalizing'
  BY <1>1, <1>2, <1>3, <1>4, <1>5, Tasks
     DEF BeforeUpdate, FakeAlone, Placed, InitFirst, Dispatched, Live, Finalizing, Idle
<1>8. Staged'
  BY <1>1, <1>4, Tasks DEF Staged
<1>9. DoneInv'
  <2>1. DoneMeansAllDone'
    BY <1>5 DEF DoneMeansAllDone
  <2>2. ASSUME NotAllPassed, state' = "DONE", HasOutput PROVE out' = [i \in 0 .. (Size' - 1) |-> i]
    <3>1. out' = <<>> /\ ToDo = 0
      BY <1>1, <1>3, <2>2
    <3>2. Size = 0
      BY <2>2, <3>1, SizeTypes DEF NotAllPassed, ToDo, Size, TypeOK
    <3>3. [i \in 0 .. (0 - 1) |-> i] = <<>>
      OBVIOUS
    <3> QED
      BY <1>2, <3>1, <3>2, <3>3
  <2> QED
    BY <2>1, <2>2 DEF DoneInv, ResultsComplete
<1> QED
  BY <1>6, <1>7, <1>8, <1>9

LEMMA AroundHolds == ASSUME FInv, Restart \/ NoRestart PROVE FInv'
<1> USE DEF FInv
<1>1. CASE Restart
  <2>1. /\ event \in {"FINISH", "ABORT"} /\ turn < Len(Sizes) /\ turn' = turn + 1
        /\ st' = [NoClone EXCEPT ![Fake] = st[Fake]]
        /\ stage' = IdleStage /\ loaded' = {}
        /\ execIds' = [b \in Branch |-> Unset] /\ sample' = [b \in Branch |-> Unset]
        /\ execCurrentId' = 0 /\ failedCounter' = 0 /\ execVals' = <<>>
        /\ state' = "READY" /\ event' = "UPDATE"
        /\ unfinished' = unfinished /\ out' = out
    BY <1>1, AroundAssumption DEF Restart
  <2>2. turn' \in DOMAIN Sizes
    BY <2>1, SizesAssumption DEF TypeOK
  <2>3. Size' \in Nat /\ ToDo' \in Nat
    <3>1. \A n \in DOMAIN Sizes : Sizes[n] \in Nat /\ Sizes[n] - Cardinality(Passed) \in Nat
      <4> TAKE n \in DOMAIN Sizes
      <4>1. Sizes[n] \in Nat /\ Passed \subseteq 0 .. (Sizes[n] - 1) /\ IsFiniteSet(Passed)
        BY SizesAssumption, PassedAssumption
      <4>2. IsFiniteSet(0 .. (Sizes[n] - 1)) /\ Cardinality(0 .. (Sizes[n] - 1)) = Sizes[n]
        <5> DEFINE m == Sizes[n]
        <5>1. m \in Nat
          BY <4>1
        <5> HIDE DEF m
        <5>2. IsFiniteSet(0 .. (m - 1)) /\ Cardinality(0 .. (m - 1)) = m
          BY <5>1, FS_Interval
        <5> QED
          BY <5>2 DEF m
      <4>3. Cardinality(Passed) <= Sizes[n] /\ Cardinality(Passed) \in Nat
        BY <4>1, <4>2, FS_Subset, FS_CardinalityType
      <4> QED
        BY <4>1, <4>3
    <3> QED
      BY <2>2, <3>1 DEF Size, ToDo
  <2>4. /\ \A t \in Clone : st'[t] = "NONE"
        /\ st'[Fake] = st[Fake] /\ st[Fake] \in {"NONE", "DONE"}
        /\ st' \in [Task -> {"NONE", "READY", "TOLOAD", "TOACTIVATE", "ACTIVATED", "DONE", "ERROR"}]
    BY <2>1, Tasks DEF NoClone, FakeAlone
  <2>5. TypeOK'
    <3>1. /\ execIds' \in [Branch -> {Unset} \cup 0 .. (ToDo' - 1)]
          /\ sample' \in [Branch -> {Unset} \cup 0 .. (Size' - 1)]
          /\ stage' \in [Task -> {"none", "chosen", "loading", "loaded", "connected"}]
      BY <2>1 DEF IdleStage
    <3> QED
      BY <2>1, <2>2, <2>3, <2>4, <3>1 DEF TypeOK
  <2>6. BeforeUpdate' /\ FakeAlone' /\ Placed' /\ DoneInv'
    BY <2>1, <2>4 DEF BeforeUpdate, FakeAlone, Placed, DoneInv, IdleStage
  <2>7. Staged'
    BY <2>1 DEF Staged, IdleStage
  <2>8. InitFirst' /\ Dispatched'
    BY <2>4, Tasks DEF InitFirst, Dispatched, Live, Idle
  <2>9. Finalizing'
    <3>1. \A b \in Used' : <<"finalize", b>> \in Clone
      BY Tasks DEF Used
    <3> QED
      BY <2>4, <3>1 DEF Finalizing, Idle
  <2> QED
    BY <2>5, <2>6, <2>7, <2>8, <2>9
<1>2. CASE NoRestart
  <2>1. /\ event \in {"FINISH", "ABORT"} /\ event' = "NOEVENT"
        /\ UNCHANGED <<state, turn, st, stage, loaded, execIds, sample, execCurrentId, unfinished,
                       failedCounter, execVals, out>>
    BY <1>2 DEF NoRestart, branchVars, resultVars
  <2>2. /\ Size' = Size /\ ToDo' = ToDo /\ Used' = Used /\ Complete' = Complete
        /\ \A k : ToAbsId(k)' = ToAbsId(k)
    BY <2>1, SameTurn
  <2>3. TypeOK'
    BY <2>1, <2>2 DEF TypeOK
  <2>4. BeforeUpdate' /\ FakeAlone' /\ Placed' /\ Staged' /\ InitFirst'
    BY <2>1, <2>2 DEF BeforeUpdate, FakeAlone, Placed, Staged, InitFirst
  <2>5. Dispatched' /\ Finalizing' /\ DoneInv'
    BY <2>1, <2>2 DEF Dispatched, Live, BranchSamples, Stopped, Vals, Stored, Finalizing, NotFinalized,
       DoneInv, DoneMeansAllDone, ResultsComplete, Complete
  <2> QED
    BY <2>3, <2>4, <2>5
<1> QED
  BY <1>1, <1>2

LEMMA StutterHolds == ASSUME FInv, UNCHANGED vars PROVE FInv'
<1> USE DEF FInv
<1>1. UNCHANGED <<state, turn, st, stage, loaded, execIds, sample, execCurrentId, unfinished,
                  failedCounter, execVals, out, event>>
  BY DEF vars
<1>2. /\ Size' = Size /\ ToDo' = ToDo /\ Used' = Used /\ Complete' = Complete
      /\ \A k : ToAbsId(k)' = ToAbsId(k)
  BY <1>1, SameTurn
<1>3. TypeOK' /\ BeforeUpdate' /\ FakeAlone' /\ Placed' /\ Staged' /\ InitFirst'
  BY <1>1, <1>2 DEF TypeOK, BeforeUpdate, FakeAlone, Placed, Staged, InitFirst
<1>4. Dispatched' /\ Finalizing' /\ DoneInv'
  BY <1>1, <1>2 DEF Dispatched, Live, BranchSamples, Stopped, Vals, Stored, Finalizing, NotFinalized,
     DoneInv, DoneMeansAllDone, ResultsComplete, Complete
<1> QED
  BY <1>3, <1>4

LEMMA NextHolds == ASSUME FInv, [Next]_vars PROVE FInv'
<1>1. CASE ExUpdateState
  BY <1>1, NoClones, DispatchHolds, ThrowsHolds DEF ExUpdateState
<1>2. ASSUME NEW t \in Clone, TaskAborted(t) PROVE FInv'
  <2>1. st[t] = "ACTIVATED" /\ CloneFails(t) /\ event = "NOEVENT" /\ UNCHANGED <<turn, stage, loaded>>
    BY <1>2 DEF TaskAborted
  <2>2. stage[t] = "none" /\ st[t] \in Active
    BY <2>1, Tasks DEF FInv, TypeOK, Staged, Active
  <2>3. stage' \in [Task -> {"none", "chosen", "loading", "loaded", "connected"}]
    BY <2>1 DEF FInv, TypeOK
  <2> QED
    BY <2>1, <2>2, <2>3, CloneFailsHolds
<1>3. CASE TaskEnds
  BY <1>2, <1>3, InitFinishedHolds, WorkFinishedHolds, FinalizeFinishedHolds, FakeEndsHolds DEF TaskEnds
<1> QED
  BY <1>1, <1>3, RoundHolds, AroundHolds, StutterHolds DEF Next

LEMMA Invariant == Spec => []FInv
<1>1. Init => FInv
  BY InitHolds
<1>2. FInv /\ [Next]_vars => FInv'
  BY NextHolds
<1> QED
  BY <1>1, <1>2, PTL DEF Spec

\* The states and the counters of the loop keep their types.
THEOREM ForEachTypes == Spec => []TypeOK
<1>1. FInv => TypeOK
  BY DEF FInv
<1> QED
  BY <1>1, Invariant, PTL

\* A loop that is DONE leaves no clone that failed, runs or waits.
THEOREM ForEachDone == Spec => []DoneMeansAllDone
<1>1. FInv => DoneMeansAllDone
  BY DEF FInv, DoneInv, DoneMeansAllDone
<1> QED
  BY <1>1, Invariant, PTL

\* A loop that is DONE has published the result of every sample, at the rank of
\* the sample, unless all were passed (then pushAllSequenceValues publishes none).
THEOREM ForEachResults == ASSUME NotAllPassed PROVE Spec => []ResultsComplete
<1>1. FInv => ResultsComplete
  BY NotAllPassed DEF FInv, DoneInv, ResultsComplete
<1> QED
  BY <1>1, Invariant, PTL

\* No body starts before the init node of its branch has ended, and no finalize
\* node before all the bodies have ended well.
THEOREM ForEachOrder == Spec => []BodyBetweenInitAndFinalize
<1>1. ASSUME FInv PROVE BodyBetweenInitAndFinalize
  <2> SUFFICES ASSUME NEW b \in Branch
               PROVE  /\ st[<<"work", b>>] \in {"TOLOAD", "TOACTIVATE", "ACTIVATED", "DONE"}
                           => st[<<"init", b>>] \in {"NONE", "DONE"}
                      /\ st[<<"finalize", b>>] \in {"TOLOAD", "TOACTIVATE", "ACTIVATED", "DONE"}
                           => \A c \in Branch : st[<<"work", c>>] \in {"NONE", "DONE"}
    BY DEF BodyBetweenInitAndFinalize
  <2>1. st[<<"work", b>>] \in {"TOLOAD", "TOACTIVATE", "ACTIVATED", "DONE"}
           => st[<<"init", b>>] \in {"NONE", "DONE"}
    BY <1>1 DEF FInv, InitFirst, Idle
  <2>2. ASSUME st[<<"finalize", b>>] \in {"TOLOAD", "TOACTIVATE", "ACTIVATED", "DONE"},
               NEW c \in Branch
        PROVE  st[<<"work", c>>] \in {"NONE", "DONE"}
    <3>1. /\ <<"finalize", b>> \in Clone /\ <<"finalize", b>>[2] = b
          /\ <<"work", c>> \in Clone /\ <<"work", c>>[2] = c
      BY Tasks
    <3>2. b \in Used
      BY <1>1, <2>2, <3>1 DEF FInv, Placed
    <3>3. CASE c \in Used
      BY <1>1, <2>2, <3>2, <3>3 DEF FInv, Finalizing, Idle
    <3>4. CASE c \notin Used
      BY <1>1, <3>1, <3>4 DEF FInv, Placed
    <3> QED
      BY <3>3, <3>4
  <2> QED
    BY <2>1, <2>2
<1> QED
  BY <1>1, Invariant, PTL
=============================================================================
