---------------------------- MODULE CalciumProofs ----------------------------
(***************************************************************************)
(* For any number of writers, dates and levels: the types, the wake-ups,   *)
(* the closing of the port, and the sequence of reads of one writer's data.*)
(***************************************************************************)
EXTENDS CalciumPort, WellFoundedInduction, FiniteSetTheorems, TLAPS

(* A set of natural numbers that is not empty has a least element.         *)
LEMMA LeastNat ==
  ASSUME NEW S \in SUBSET Nat, S # {}
  PROVE  \E x \in S : \A y \in S : x <= y
<1> DEFINE R == {ss \in Nat \X Nat : ss[1] < ss[2]}
<1>1. IsWellFoundedOn(R, Nat)
  BY NatLessThanWellFounded DEF OpToRel
<1>2. PICK x \in S : \A y \in S : ~ (<<y, x>> \in R)
  <2> HIDE DEF R
  <2> QED BY <1>1, WFMin
<1>3. ASSUME NEW y \in S PROVE x <= y
  <2>1. <<y, x>> \in Nat \X Nat
    OBVIOUS
  <2>2. ~ (y < x)
    BY <1>2, <2>1
  <2> QED BY <2>2
<1> QED BY <1>3

LEMMA LeastDate ==
  ASSUME NEW S \in SUBSET Dates, S # {}
  PROVE  Min(S) \in S /\ \A v \in S : Min(S) <= v
<1>1. S \in SUBSET Nat
  BY PortAssumption DEF Dates
<1>2. \E x \in S : \A y \in S : x <= y
  BY <1>1, LeastNat
<1> QED BY <1>2 DEF Min

LEMMA LatestDate ==
  ASSUME NEW S \in SUBSET Dates, S # {}
  PROVE  Max(S) \in S /\ \A v \in S : Max(S) >= v
<1> DEFINE T == {LastDate - v : v \in S}
<1>1. S \in SUBSET Nat /\ LastDate \in Nat /\ \A v \in S : v <= LastDate
  BY PortAssumption DEF Dates
<1>2. T \in SUBSET Nat /\ T # {}
  <2>1. \A v \in S : LastDate - v \in Nat
    BY <1>1
  <2> QED BY <2>1
<1>3. PICK x \in T : \A y \in T : x <= y
  <2> HIDE DEF T
  <2> QED BY <1>2, LeastNat
<1>4. PICK v \in S : x = LastDate - v
  BY <1>3
<1>5. \A u \in S : v >= u
  BY <1>1, <1>3, <1>4
<1> QED BY <1>4, <1>5 DEF Max

(* The tables the policy makes keep the type of the table.                 *)
IsTable(s) == /\ Stamps(s) \subseteq Dates
              /\ \A v \in Stamps(s) : s[v] \in Data

LEMMA TableWithout ==
  ASSUME NEW s, IsTable(s), NEW D
  PROVE  /\ IsTable(Without(s, D))
         /\ Stamps(Without(s, D)) = Stamps(s) \ D
         /\ \A v \in Stamps(s) \ D : Without(s, D)[v] = s[v]
BY DEF IsTable, Without, Stamps

LEMMA TableWith ==
  ASSUME NEW s, IsTable(s), NEW d \in Dates, NEW x \in Data
  PROVE  /\ IsTable(With(s, d, x))
         /\ Stamps(With(s, d, x)) = {d} \cup Stamps(s)
         /\ \A v \in Stamps(s) \ {d} : With(s, d, x)[v] = s[v]
         /\ With(s, d, x)[d] = x
BY DEF IsTable, With, Stamps

LEMMA TableBounds ==
  ASSUME NEW s, IsTable(s), NEW d \in Dates, IsBounded(s, d)
  PROVE  /\ Below(s, d) \in Stamps(s) /\ Below(s, d) < d
         /\ Above(s, d) \in Stamps(s) /\ Above(s, d) > d
<1> DEFINE low == {v \in Stamps(s) : v < d}
           high == {v \in Stamps(s) : v > d}
<1>1. low \in SUBSET Dates /\ low # {} /\ high \in SUBSET Dates /\ high # {}
  BY DEF IsTable, IsBounded
<1>2. Max(low) \in low /\ Min(high) \in high
  <2> HIDE DEF low, high
  <2> QED BY <1>1, LeastDate, LatestDate
<1> QED BY <1>2 DEF Below, Above

LEMMA TableInterpolated ==
  ASSUME NEW s, IsTable(s), NEW d \in Dates, IsBounded(s, d)
  PROVE  /\ IsTable(Interpolated(s, d))
         /\ Stamps(Interpolated(s, d)) = {d} \cup Stamps(s)
         /\ \A v \in Stamps(s) : Interpolated(s, d)[v] = s[v]
<1> DEFINE x == s[Below(s, d)] \cup s[Above(s, d)]
<1>1. x \in Data
  BY TableBounds DEF IsTable, Data
<1>2. d \notin Stamps(s)
  BY PortAssumption DEF IsBounded, IsEqual, Near, IsTable, Dates
<1>3. Interpolated(s, d) = With(s, d, x)
  BY DEF Interpolated
<1> HIDE DEF x
<1> QED BY <1>1, <1>2, <1>3, TableWith

----------------------------------------------------------------------------
(* The types and the wake-ups                                              *)

InGetOrNext == pc \in {"calling", "looking", "deciding", "asleep", "woken", "late", "again"} => op \in {"get", "next"}
PutHasDate == \A w \in Writers : mutex = w => putting[w] \in Dates
Waker == \E w \in Writers : writer[w] \in {"waking", "removing"}
OpenOrWaking == directive = "UNDEFINED" \/ Waker
SleepsFlagged ==
  /\ pc = "asleep" /\ op = "get" => waitingConvenient
  /\ pc = "asleep" /\ op = "next" => waitingAny
StillMissing == pc \in {"deciding", "asleep"} => ~Available /\ OpenOrWaking

(* The connections: nothing but AddConnection before the services are      *)
(* launched, and the count is of the ends still to come.                   *)
NotLaunched ==
  Launched \/ /\ pc = "idle" /\ mutex = "free" /\ finished = {}
              /\ \A w \in joined : writer[w] = "writing"
GoneOrJoined == \A w \in Writers \ joined : writer[w] = "gone"
FinishedEnded == \A w \in finished : writer[w] # "writing"
PutterWrites == \A w \in Writers : mutex = w => writer[w] = "writing"
CountsEnds ==
  mustnotdisconnect = IF Ends >= Cardinality(joined) THEN 0 ELSE Cardinality(joined) - Ends

ConnInv == NotLaunched /\ GoneOrJoined /\ FinishedEnded /\ PutterWrites /\ CountsEnds

CalInv == CalTypeOK /\ InGetOrNext /\ PutHasDate /\ ConnInv /\ SleepsFlagged /\ StillMissing

(* Sets of writers are finite.                                             *)
LEMMA FewWriters ==
  ASSUME NEW S \in SUBSET Writers
  PROVE  IsFiniteSet(S) /\ Cardinality(S) \in Nat /\ Cardinality(S) <= Cardinality(Writers)
                        /\ Cardinality(Writers) \in Nat
<1>1. IsFiniteSet(S) /\ Cardinality(S) <= Cardinality(Writers)
  BY PortAssumption, FS_Subset
<1> QED BY <1>1, PortAssumption, FS_CardinalityType

LEMMA OneWriterMore ==
  ASSUME NEW S \in SUBSET Writers, NEW w \in Writers \ S
  PROVE  Cardinality(S \cup {w}) = Cardinality(S) + 1
BY FewWriters, FS_AddElement

(* The ends that are counted, and the one that closes the port.            *)
LEMMA EndIsCounted ==
  ASSUME CalTypeOK, ConnInv, NEW w \in Writers, Finish(w) \/ RemoveConnection(w)
  PROVE  ConnInv' /\ Ends' = Ends + 1 /\ joined' = joined /\ Ends \in Nat
<1> USE DEF ConnInv
<1>1. joined = Writers /\ UNCHANGED <<joined, mutex, pc>>
  BY DEF Finish, RemoveConnection, Disconnect, Launched, readerVars
<1>2. finished \in SUBSET Writers /\ Removed \in SUBSET Writers
  BY <1>1 DEF CalTypeOK, Removed
<1>3. PICK how, after, wakes : Disconnect(w, how, after, wakes) /\ mutex # w
  BY DEF Finish, RemoveConnection
<1>4. Cardinality(finished') + Cardinality(Removed') = Cardinality(finished) + Cardinality(Removed) + 1
  <2>1. CASE Finish(w)
    <3>1. w \notin finished /\ finished' = finished \cup {w}
      BY <2>1 DEF Finish, FinishedEnded
    <3>2. Removed' = Removed
      BY <1>1, <2>1 DEF Finish, Disconnect, Removed, CalTypeOK
    <3> QED BY <1>2, <3>1, <3>2, OneWriterMore, FewWriters
  <2>2. CASE RemoveConnection(w)
    <3>1. finished' = finished /\ w \notin Removed
      BY <2>2 DEF RemoveConnection, Removed
    <3>2. Removed' = Removed \cup {w}
      BY <1>1, <2>2 DEF RemoveConnection, Disconnect, Removed, CalTypeOK
    <3> QED BY <1>2, <3>1, <3>2, OneWriterMore, FewWriters
  <2> QED BY <2>1, <2>2
<1>5. Ends' = Ends + 1 /\ Ends \in Nat
  BY <1>2, <1>4, FewWriters DEF Ends
<1>6. CountsEnds'
  <2>1. mustnotdisconnect' = IF mustnotdisconnect > 0 THEN mustnotdisconnect - 1 ELSE 0
    BY <1>3 DEF Disconnect
  <2>2. Cardinality(joined) \in Nat
    BY <1>1, FewWriters
  <2> QED BY <1>1, <1>5, <2>1, <2>2 DEF CountsEnds
<1>7. NotLaunched' /\ GoneOrJoined' /\ PutterWrites'
  <2>1. NotLaunched' /\ GoneOrJoined'
    BY <1>1 DEF NotLaunched, Launched, GoneOrJoined
  <2>2. \A v \in Writers : v # w => writer'[v] = writer[v]
    BY <1>3 DEF Disconnect, CalTypeOK
  <2>3. PutterWrites'
    BY <1>1, <1>3, <2>2 DEF PutterWrites
  <2> QED BY <2>1, <2>3
<1>8. FinishedEnded'
  BY <1>1 DEF FinishedEnded, Finish, RemoveConnection, Disconnect, CalTypeOK
<1> QED BY <1>1, <1>5, <1>6, <1>7, <1>8

LEMMA ConnAdd ==
  ASSUME CalTypeOK, ConnInv, NEW w \in Writers, AddConnection(w)
  PROVE  /\ ConnInv' /\ joined' \subseteq Writers /\ finished' = {}
         /\ mustnotdisconnect' \in 0 .. Cardinality(Writers) /\ turn' \in Nat
         /\ mutex = "free" /\ mutex' = "free" /\ pc = "idle" /\ pc' = "idle"
<1> USE DEF ConnInv
<1>1. /\ writer[w] = "gone" /\ pc = "idle" /\ UNCHANGED <<pc, mutex>>
      /\ mustnotdisconnect' = mustnotdisconnect + 1
      /\ writer' = [writer EXCEPT ![w] = "writing"]
  BY DEF AddConnection, readerVars
<1>2. CASE w \notin joined /\ joined' = joined \cup {w} /\ UNCHANGED <<turn, finished>>
  <2>1. mutex = "free" /\ finished = {} /\ \A v \in joined : writer[v] = "writing"
    BY <1>2 DEF NotLaunched, Launched
  <2>2. Removed = {} /\ Removed' = {}
    BY <1>1, <1>2, <2>1 DEF Removed, CalTypeOK
  <2>3. Ends = 0 /\ Ends' = 0
    BY <1>2, <2>1, <2>2, FS_EmptySet DEF Ends
  <2>4. /\ joined \in SUBSET Writers /\ joined' \in SUBSET Writers
        /\ Cardinality(joined') = Cardinality(joined) + 1
    BY <1>2, OneWriterMore DEF CalTypeOK
  <2>5. CountsEnds' /\ mustnotdisconnect' \in 0 .. Cardinality(Writers)
    BY <1>1, <2>3, <2>4, FewWriters DEF CountsEnds
  <2> QED BY <1>1, <1>2, <2>1, <2>4, <2>5 DEF NotLaunched, GoneOrJoined, FinishedEnded, PutterWrites, CalTypeOK
<1>3. CASE /\ joined = Writers /\ \A v \in Writers : writer[v] = "gone"
           /\ turn' = turn + 1 /\ joined' = {w} /\ finished' = {}
  <2>1. mutex = "free"
    BY <1>1, <1>3 DEF PutterWrites, CalTypeOK
  <2>2. Removed = Writers /\ Removed' = {}
    BY <1>1, <1>3 DEF Removed, CalTypeOK
  <2>3. Ends >= Cardinality(joined) /\ Ends' = 0
    <3>1. finished \in SUBSET Writers /\ Writers \in SUBSET Writers
      BY DEF CalTypeOK
    <3> QED BY <1>3, <2>2, <3>1, FewWriters, FS_EmptySet DEF Ends
  <2>4. Cardinality(joined') = 1 /\ Cardinality(Writers) >= 1
    <3>1. Cardinality({w}) = 1
      BY FS_Singleton
    <3> QED BY <1>3, <3>1, FewWriters
  <2>5. CountsEnds' /\ mustnotdisconnect' \in 0 .. Cardinality(Writers)
    <3>1. mustnotdisconnect = 0
      BY <2>3 DEF CountsEnds
    <3> QED BY <1>1, <2>3, <2>4, <3>1, FewWriters DEF CountsEnds
  <2> QED BY <1>1, <1>3, <2>1, <2>5 DEF NotLaunched, GoneOrJoined, FinishedEnded, PutterWrites, CalTypeOK
<1> QED BY <1>2, <1>3 DEF AddConnection

(* The steps that neither connect nor disconnect.                          *)
LEMMA ConnKept ==
  ASSUME ConnInv, Launched, UNCHANGED <<writer, closeVars>>,
         mutex' \in Writers => mutex' = mutex \/ writer[mutex'] = "writing"
  PROVE  ConnInv'
<1>1. Ends' = Ends
  BY DEF Ends, Removed, closeVars
<1> QED BY <1>1 DEF ConnInv, NotLaunched, Launched, GoneOrJoined, FinishedEnded, PutterWrites, CountsEnds, closeVars

LEMMA CalInit == Init => CalInv
<1> SUFFICES ASSUME Init PROVE CalInv
  OBVIOUS
<1>1. Cardinality(Writers) \in Nat
  BY PortAssumption, FS_CardinalityType
<1>2. Stamps(stored) = {}
  BY DEF Init, Stamps
<1>3. 0 \in Dates
  BY PortAssumption DEF Dates
<1>4. CalTypeOK
  <2>1. mustnotdisconnect \in 0 .. Cardinality(Writers) /\ turn \in Nat
    BY <1>1 DEF Init
  <2>2. /\ joined = {} /\ finished = {} /\ sent = {} /\ served = {}
        /\ given \in [Dates -> Data] /\ writer = [w \in Writers |-> "gone"] /\ putting = [w \in Writers |-> -1]
    BY DEF Init, Data
  <2> QED BY <1>2, <1>3, <2>1, <2>2 DEF Init, CalTypeOK, Places
<1>5. Ends = 0 /\ Cardinality(joined) = 0
  BY FS_EmptySet DEF Init, Ends, Removed
<1>6. ConnInv
  BY <1>5, PortAssumption DEF Init, ConnInv, NotLaunched, GoneOrJoined, FinishedEnded, PutterWrites, CountsEnds
<1> QED BY <1>4, <1>6, PortAssumption DEF Init, CalInv, InGetOrNext, PutHasDate, SleepsFlagged, StillMissing

(* The steps of writers.                                                   *)
LEMMA CalPutLock ==
  ASSUME CalInv, NEW w \in Writers, PutLock(w)
  PROVE  CalInv'
<1> USE DEF CalInv
<1>1. CalTypeOK'
  BY PortAssumption DEF CalTypeOK, PutLock, portVars, closeVars, readerVars, history
<1>2. InGetOrNext' /\ SleepsFlagged'
  BY DEF InGetOrNext, SleepsFlagged, PutLock, portVars, closeVars, readerVars
<1>5. ConnInv'
  BY ConnKept DEF PutLock
<1>3. PutHasDate'
  BY DEF PutHasDate, PutLock, CalTypeOK
<1>4. StillMissing'
  BY DEF StillMissing, OpenOrWaking, Waker, Available, After, PutLock, portVars, closeVars, readerVars
<1> QED BY <1>1, <1>2, <1>3, <1>4, <1>5

LEMMA CalPut ==
  ASSUME CalInv, NEW w \in Writers, Put(w)
  PROVE  CalInv'
<1> USE DEF CalInv
<1>1. putting[w] \in Dates /\ mutex = w /\ w \notin {"reader", "free"}
  BY PortAssumption DEF Put, PutHasDate
<1>2. IsTable(stored)
  BY DEF CalTypeOK, IsTable
<1>3. {putting[w]} \in Data
  BY <1>1 DEF Data
<1>4. IsTable(stored')
  BY <1>1, <1>2, <1>3, TableWith DEF Put
<1>5. pc' \in {pc, "woken"} /\ (pc' = "woken" => pc \in {"asleep", "woken"})
  BY DEF Put, Signal
<1>6. CalTypeOK'
  BY <1>1, <1>4, <1>5 DEF CalTypeOK, IsTable, Places, Put, closeVars
<1>7. InGetOrNext' /\ PutHasDate' /\ ConnInv'
  <2>1. Launched
    BY <1>1 DEF ConnInv, NotLaunched
  <2>2. ConnInv'
    BY <2>1, ConnKept, PortAssumption DEF Put
  <2> QED BY <1>1, <1>5, <2>2, PortAssumption DEF Put, InGetOrNext, PutHasDate
<1>8. pc # "deciding"
  BY <1>1 DEF CalTypeOK
<1>9. CASE pc' = "asleep"
  <2>1. pc = "asleep" /\ op \in {"get", "next"}
    BY <1>5, <1>9 DEF InGetOrNext
  <2>2. ~waitingAny /\ op = "get" /\ waitingConvenient /\ ~Convenient(stored', expected)
    BY <2>1, <1>9 DEF SleepsFlagged, Put, Signal
  <2>3. UNCHANGED <<waitingAny, waitingConvenient, op, expected, directive, writer>>
    BY <2>2 DEF Put, closeVars
  <2> QED BY <2>1, <2>2, <2>3, <1>6, <1>7, <1>9 DEF SleepsFlagged, StillMissing, Available, OpenOrWaking, Waker
<1>10. CASE pc' # "asleep"
  BY <1>5, <1>6, <1>7, <1>8, <1>10 DEF SleepsFlagged, StillMissing
<1> QED BY <1>9, <1>10

LEMMA CalAdd ==
  ASSUME CalInv, NEW w \in Writers, AddConnection(w)
  PROVE  CalInv'
<1> USE DEF CalInv
<1>1. CalTypeOK'
  BY ConnAdd DEF CalTypeOK, AddConnection, portVars, readerVars, history
<1> QED BY <1>1, ConnAdd, PortAssumption DEF InGetOrNext, PutHasDate, SleepsFlagged, StillMissing

LEMMA CalFinish ==
  ASSUME CalInv, NEW w \in Writers, Finish(w) \/ RemoveConnection(w)
  PROVE  CalInv'
<1> USE DEF CalInv
<1>1. PICK how \in {"CONTINUE", "STOP"}, after \in {"ended", "gone"}, wakes \in {"waking", "removing"} :
        Disconnect(w, how, after, wakes)
  BY PortAssumption DEF Finish, RemoveConnection
<1>2. finished' \subseteq joined' /\ w \in joined
  BY DEF Finish, RemoveConnection, Launched, Disconnect, CalTypeOK
<1>3. mustnotdisconnect' \in 0 .. Cardinality(Writers)
  BY <1>1, FewWriters DEF CalTypeOK, Disconnect
<1>4. CalTypeOK'
  BY <1>1, <1>2, <1>3 DEF CalTypeOK, Disconnect, portVars, readerVars, history
<1>5. ~Waker
  BY <1>1 DEF Disconnect, Waker
<1>6. OpenOrWaking => OpenOrWaking'
  BY <1>1, <1>5 DEF Disconnect, OpenOrWaking, Waker, CalTypeOK
<1>7. InGetOrNext' /\ PutHasDate' /\ SleepsFlagged'
  BY <1>1 DEF InGetOrNext, PutHasDate, SleepsFlagged, Disconnect, portVars, readerVars
<1>8. StillMissing'
  BY <1>1, <1>6 DEF StillMissing, Available, Disconnect, portVars, readerVars, After
<1> QED BY <1>4, <1>7, <1>8, EndIsCounted

LEMMA CalWakeup ==
  ASSUME CalInv, NEW w \in Writers, WakeupWaiting(w)
  PROVE  CalInv'
<1> USE DEF CalInv
<1>1. pc # "deciding"
  BY PortAssumption DEF CalTypeOK, WakeupWaiting
<1>2. pc' # "asleep" /\ (pc' # pc => pc = "asleep" /\ pc' = "woken")
  BY DEF WakeupWaiting, Signal, SleepsFlagged, InGetOrNext
<1>3. CalTypeOK'
  BY <1>2, PortAssumption DEF CalTypeOK, WakeupWaiting, portVars, closeVars, history, Places
<1>4. ConnInv'
  <2>1. Removed' = Removed
    BY DEF WakeupWaiting, Removed, CalTypeOK, closeVars
  <2>2. Launched
    BY DEF WakeupWaiting, ConnInv, NotLaunched, GoneOrJoined
  <2>3. CountsEnds'
    BY <2>1 DEF WakeupWaiting, ConnInv, CountsEnds, Ends, closeVars
  <2> QED BY <2>2, <2>3 DEF WakeupWaiting, ConnInv, NotLaunched, Launched, GoneOrJoined, FinishedEnded, PutterWrites,
          CalTypeOK, closeVars
<1> QED BY <1>1, <1>2, <1>3, <1>4 DEF WakeupWaiting, InGetOrNext, PutHasDate, SleepsFlagged, StillMissing, portVars, closeVars

(* The steps of the reader before its call ends.                           *)
LEMMA CalCalls ==
  ASSUME CalInv, StartGet \/ StartNext \/ StartErase \/ LookAgain \/ GetContinues \/ SpuriousWakeUp \/ GiveUp
  PROVE  CalInv'
<1> USE DEF CalInv
<1>1. CalTypeOK'
  <2>1. CASE StartGet
    BY <2>1 DEF CalTypeOK, Places, StartGet, Call, closeVars, history
  <2>2. CASE StartNext \/ StartErase
    BY <2>2 DEF CalTypeOK, Places, StartNext, StartErase, Call, portVars, closeVars, history
  <2>3. CASE LookAgain \/ GetContinues
    BY <2>3 DEF CalTypeOK, Places, LookAgain, GetContinues, portVars, closeVars, history
  <2>4. CASE SpuriousWakeUp \/ GiveUp
    BY <2>4 DEF CalTypeOK, Places, SpuriousWakeUp, GiveUp, portVars, closeVars, history
  <2> QED BY <2>1, <2>2, <2>3, <2>4
<1>2. InGetOrNext'
  BY DEF InGetOrNext, StartGet, StartNext, StartErase, LookAgain, GetContinues, SpuriousWakeUp, GiveUp, Call
<1>5. ConnInv'
  <2>1. Launched /\ UNCHANGED <<mutex, writer, closeVars>>
    BY DEF ConnInv, NotLaunched, StartGet, StartNext, StartErase, LookAgain, GetContinues, SpuriousWakeUp, GiveUp, Call
  <2> QED BY <2>1, ConnKept
<1>3. PutHasDate' /\ SleepsFlagged'
  BY DEF PutHasDate, SleepsFlagged, StartGet, StartNext, StartErase, LookAgain, GetContinues, SpuriousWakeUp, GiveUp, Call, portVars, closeVars
<1>4. StillMissing'
  BY DEF StillMissing, StartGet, StartNext, StartErase, LookAgain, GetContinues, SpuriousWakeUp, GiveUp, Call
<1> QED BY <1>1, <1>2, <1>3, <1>4, <1>5

LEMMA CalLock ==
  ASSUME CalInv, Lock
  PROVE  CalInv'
<1> USE DEF CalInv
<1>1. CalTypeOK'
  BY DEF CalTypeOK, Places, Lock, portVars, closeVars, history
<1>2. ConnInv'
  BY ConnKept, PortAssumption DEF Lock, ConnInv, NotLaunched
<1> QED BY <1>1, <1>2, PortAssumption DEF InGetOrNext, PutHasDate, SleepsFlagged, StillMissing, Lock, portVars, closeVars, history

LEMMA CalDecide ==
  ASSUME CalInv, Decide
  PROVE  CalInv'
<1> USE DEF CalInv
<1>1. CalTypeOK'
  BY DEF CalTypeOK, Places, Decide, closeVars, history
<1>2. OpenOrWaking'
  BY DEF Decide, OpenOrWaking, closeVars
<1>3. After(stored') \subseteq After(stored)
  BY DEF Decide, After
<1>4. ~Available'
  <2>1. CASE op = "get"
    BY <2>1 DEF Decide, Available
  <2>2. CASE op # "get"
    <3>1. After(stored) = {}
      BY <2>2 DEF Decide, Available
    <3>2. (After(stored))' = {}
      BY <3>1 DEF Decide, After
    <3> QED BY <2>2, <3>2 DEF Decide, Available
  <2> QED BY <2>1, <2>2
<1>5. ConnInv'
  BY ConnKept DEF Decide, ConnInv, NotLaunched
<1> QED BY <1>1, <1>2, <1>4, <1>5, PortAssumption DEF InGetOrNext, PutHasDate, SleepsFlagged, StillMissing, Decide, closeVars, history

LEMMA CalWait ==
  ASSUME CalInv, Wait
  PROVE  CalInv'
<1> USE DEF CalInv
<1>1. CalTypeOK'
  BY DEF CalTypeOK, Places, Wait, closeVars, history
<1>2. ~Available' /\ OpenOrWaking'
  BY DEF Wait, StillMissing, Available, After, OpenOrWaking, Waker, closeVars
<1>3. PutHasDate'
  BY PortAssumption DEF PutHasDate, Wait
<1>4. ConnInv'
  BY ConnKept, PortAssumption DEF Wait, ConnInv, NotLaunched
<1> QED BY <1>1, <1>2, <1>3, <1>4 DEF InGetOrNext, SleepsFlagged, StillMissing, Wait, closeVars

(* What ends a call leaves the reader idle and the mutex free.             *)
LEMMA CalEnds ==
  ASSUME CalInv, pc # "idle", pc' = "idle", mutex' = "free", UNCHANGED <<closeVars, writer, putting>>, CalTypeOK'
  PROVE  CalInv'
<1>1. ConnInv'
  BY ConnKept, PortAssumption DEF CalInv, ConnInv, NotLaunched
<1> QED BY <1>1, PortAssumption DEF CalInv, InGetOrNext, PutHasDate, SleepsFlagged, StillMissing

LEMMA CalThrow ==
  ASSUME CalInv, GetThrows \/ NextThrows \/ TimedOut
  PROVE  CalInv'
<1>1. pc # "idle" /\ pc' = "idle" /\ mutex' = "free" /\ UNCHANGED <<closeVars, writer, putting>>
  BY DEF GetThrows, NextThrows, TimedOut, Throw, Return
<1>2. CalTypeOK'
  BY DEF CalInv, CalTypeOK, Places, GetThrows, NextThrows, TimedOut, Throw, Return, closeVars
<1> QED BY <1>1, <1>2, CalEnds

LEMMA SendTypes ==
  ASSUME CalInv, NEW s, IsTable(s), NEW it, NEW v \in Stamps(s), NEW d \in Dates, Send(s, it, v, d)
  PROVE  /\ pc' = "idle" /\ mutex' = "free"
         /\ UNCHANGED <<expected, closeVars, writer, putting, op, woken, sent>>
         /\ IsTable(stored') /\ Stamps(stored') = Stamps(s) \ Surplus(s)
         /\ \A u \in Stamps(stored') : stored'[u] = s[u]
         /\ answer'.kind = "data" => it \notin Surplus(s) /\ answer'.data = s[v] /\ answer'.date = d
         /\ answer'.data \in Data
<1>1. /\ stored' = Without(s, Surplus(s))
      /\ pc' = "idle" /\ mutex' = "free"
      /\ UNCHANGED <<expected, closeVars, writer, putting, op, woken, sent>>
      /\ answer' = IF it \in Surplus(s) THEN [kind |-> "removed", date |-> d, data |-> {}]
                                        ELSE [kind |-> "data", date |-> d, data |-> s[v]]
  BY DEF Send, Return
<1>2. s[v] \in Data /\ {} \in Data
  BY DEF IsTable, Data
<1>3. /\ IsTable(stored') /\ Stamps(stored') = Stamps(s) \ Surplus(s)
      /\ \A u \in Stamps(stored') : stored'[u] = s[u]
  BY <1>1, TableWithout
<1> HIDE DEF Send
<1> QED BY <1>1, <1>2, <1>3

LEMMA CalGives ==
  ASSUME CalInv, GetEqual \/ GetBounded \/ NextFinds \/ NextRepeats
  PROVE  CalInv'
<1> USE DEF CalInv
<1>1. IsTable(stored)
  BY DEF CalTypeOK, IsTable
<1>2. PICK s, it, v, d :
        /\ IsTable(s) /\ v \in Stamps(s) /\ d \in Dates /\ Send(s, it, v, d)
  <2>1. CASE GetEqual
    <3> DEFINE N == {v \in Stamps(stored) : Near(v, expected)}
    <3>1. N \in SUBSET Dates /\ N # {}
      BY <1>1, <2>1 DEF GetEqual, IsEqual, IsTable
    <3>2. Nearest(stored, expected) \in Stamps(stored)
      <4>1. Min(N) \in N
        <5> HIDE DEF N
        <5> QED BY <3>1, LeastDate
      <4> QED BY <4>1 DEF Nearest
    <3> QED BY <1>1, <2>1, <3>2 DEF GetEqual, CalTypeOK
  <2>2. CASE GetBounded
    BY <1>1, <2>2, TableInterpolated DEF GetBounded, CalTypeOK
  <2>3. CASE NextFinds
    <3>1. After(stored) \in SUBSET Dates /\ After(stored) # {}
      BY <1>1, <2>3 DEF NextFinds, After, IsTable
    <3>2. Min(After(stored)) \in Stamps(stored)
      BY <3>1, LeastDate DEF After
    <3> QED BY <1>1, <2>3, <3>2 DEF NextFinds, NextGives, IsTable
  <2>4. CASE NextRepeats
    <3>1. Stamps(stored) \in SUBSET Dates /\ Stamps(stored) # {}
      BY <1>1, <2>4 DEF NextRepeats, IsTable
    <3>2. Max(Stamps(stored)) \in Stamps(stored)
      BY <3>1, LatestDate
    <3> QED BY <1>1, <2>4, <3>2 DEF NextRepeats, NextGives, IsTable
  <2> QED BY <2>1, <2>2, <2>3, <2>4
<1>3. /\ pc' = "idle" /\ mutex' = "free"
      /\ UNCHANGED <<expected, closeVars, writer, putting, op, woken, sent>>
      /\ IsTable(stored') /\ answer'.data \in Data
  BY <1>2, SendTypes
<1>4. /\ waitingConvenient' \in BOOLEAN /\ waitingAny' \in BOOLEAN
      /\ lastSet' \in BOOLEAN /\ last' \in Dates
      /\ served' \in SUBSET Dates /\ given' \in [Dates -> Data]
  <2>1. CASE GetEqual \/ GetBounded
    BY <1>3, <2>1 DEF GetEqual, GetBounded, Give, GetFlags, CalTypeOK
  <2>2. CASE NextFinds
    <3>1. After(stored) \in SUBSET Dates /\ After(stored) # {}
      BY <1>1, <2>2 DEF NextFinds, After, IsTable
    <3>2. Min(After(stored)) \in Dates
      BY <3>1, LeastDate
    <3> QED BY <2>2, <3>2 DEF NextFinds, NextGives, NextFlags, CalTypeOK
  <2>3. CASE NextRepeats
    <3>1. Stamps(stored) \in SUBSET Dates /\ Stamps(stored) # {}
      BY <1>1, <2>3 DEF NextRepeats, IsTable
    <3>2. Max(Stamps(stored)) \in Dates
      BY <3>1, LatestDate
    <3> QED BY <2>3, <3>2 DEF NextRepeats, NextGives, CalTypeOK
  <2> QED BY <2>1, <2>2, <2>3
<1>5. CalTypeOK'
  BY <1>3, <1>4 DEF CalTypeOK, IsTable, Places, closeVars
<1>6. pc # "idle"
  BY DEF GetEqual, GetBounded, NextFinds, NextRepeats
<1> QED BY <1>3, <1>5, <1>6, CalEnds

LEMMA CalErases ==
  ASSUME CalInv, Erase
  PROVE  CalInv'
<1> USE DEF CalInv
<1>1. PICK erased \in SUBSET Dates :
        /\ stored' = Without(stored, erased)
        /\ given' = [v \in Dates |-> IF v \in erased THEN {} ELSE given[v]]
        /\ sent' = sent \ erased
  BY DEF Erase
<1>2. IsTable(stored')
  BY <1>1, TableWithout DEF CalTypeOK, IsTable
<1>3. given' \in [Dates -> Data]
  BY <1>1 DEF CalTypeOK, Data
<1>4. CalTypeOK'
  BY <1>1, <1>2, <1>3 DEF CalTypeOK, Erase, closeVars, IsTable, Places
<1>5. ConnInv'
  BY ConnKept DEF Erase, ConnInv, NotLaunched
<1> QED BY <1>4, <1>5 DEF InGetOrNext, PutHasDate, SleepsFlagged, StillMissing, Erase, closeVars

LEMMA CalStep == CalInv /\ [Next]_vars => CalInv'
<1> SUFFICES ASSUME CalInv, [Next]_vars PROVE CalInv'
  OBVIOUS
<1>1. CASE \E w \in Writers : WriterStep(w)
  BY <1>1, CalAdd, CalPutLock, CalPut, CalFinish, CalWakeup DEF WriterStep
<1>2. CASE Get \/ Sequential \/ Waiting \/ StartErase \/ Erase
  BY <1>2, CalCalls, CalLock, CalDecide, CalWait, CalThrow, CalGives, CalErases DEF Get, Sequential, Waiting
<1>3. CASE UNCHANGED vars
  <2>1. ConnInv'
    BY <1>3 DEF CalInv, ConnInv, NotLaunched, Launched, GoneOrJoined, FinishedEnded, PutterWrites, CountsEnds, Ends, Removed,
       vars, closeVars, readerVars
  <2> QED BY <1>3, <2>1 DEF CalInv, CalTypeOK, InGetOrNext, PutHasDate, SleepsFlagged, StillMissing, OpenOrWaking, Waker,
          Available, After, vars, portVars, closeVars, readerVars, history
<1> QED BY <1>1, <1>2, <1>3 DEF Next

LEMMA CalAlways == Spec => []CalInv
<1> QED BY CalInit, CalStep, PTL DEF Spec

(* Type correctness of the port, for any writers, dates and storage level. *)
THEOREM CalTypes == Spec => []CalTypeOK
<1>1. CalInv => CalTypeOK
  BY DEF CalInv
<1> QED BY <1>1, CalAlways, PTL

(* put and disconnect race with a reader about to sleep, and the reader    *)
(* never sleeps beside what it wants, nor with nobody to tell it the port  *)
(* is closed.                                                              *)
THEOREM NoWakeUpLost == Spec => []NoLostWakeUp
<1>1. CalInv => NoLostWakeUp
  BY DEF CalInv, StillMissing, NoLostWakeUp, OpenOrWaking, Waker
<1> QED BY <1>1, CalAlways, PTL

(* For any number of writers and turns of a loop, and in whatever order    *)
(* they call cp_fin, fail and are disconnected: the port is closed by the  *)
(* end that makes as many as there were connections, and by no other.      *)
THEOREM PortClosedOnce == Spec => ClosedByTheLastEnd
<1> DEFINE Closes == directive' # directive \/ ~(Closing' \subseteq Closing)
<1>1. CalInv /\ [Next]_vars => (Closes => Ends' = Cardinality(joined'))
  <2> SUFFICES ASSUME CalInv, [Next]_vars, Closes PROVE Ends' = Cardinality(joined')
    OBVIOUS
  <2>1. ASSUME NEW w \in Writers, Finish(w) \/ RemoveConnection(w) PROVE Ends' = Cardinality(joined')
    <3>1. mustnotdisconnect = 1
      BY <2>1, PortAssumption DEF Finish, RemoveConnection, Disconnect, Closing, CalInv, CalTypeOK
    <3>2. joined \in SUBSET Writers
      BY DEF CalInv, CalTypeOK
    <3> QED BY <2>1, <3>1, <3>2, EndIsCounted, FewWriters DEF CalInv, ConnInv, CountsEnds
  <2>2. ASSUME UNCHANGED <<directive, writer>> PROVE FALSE
    BY <2>2 DEF Closing
  <2>3. CASE Get \/ Sequential \/ Waiting \/ StartErase \/ Erase
    BY <2>2, <2>3 DEF Get, Sequential, Waiting, StartErase, Erase, StartGet, GetEqual, GetBounded, GetThrows, GetContinues, LookAgain,
       StartNext, NextFinds, NextThrows, NextRepeats, NextGives, Send, Throw, Return, Lock, Decide, Wait, SpuriousWakeUp, GiveUp, TimedOut, closeVars
  <2>4. ASSUME NEW w \in Writers, PutLock(w) \/ Put(w) PROVE FALSE
    BY <2>2, <2>4 DEF PutLock, Put, closeVars
  <2>5. ASSUME NEW w \in Writers, AddConnection(w) \/ WakeupWaiting(w) PROVE FALSE
    BY <2>5 DEF AddConnection, WakeupWaiting, closeVars, Closing, CalInv, CalTypeOK
  <2>6. CASE UNCHANGED vars
    BY <2>2, <2>6 DEF vars, closeVars
  <2> QED BY <2>1, <2>3, <2>4, <2>5, <2>6 DEF Next, WriterStep
<1>2. CalInv /\ [Next]_vars => [Closes => Ends' = Cardinality(joined')]_vars
  BY <1>1
<1> QED BY <1>2, CalAlways, PTL DEF Spec, ClosedByTheLastEnd

----------------------------------------------------------------------------
(* No loss, and the sequence of reads                                      *)

LEMMA NothingSurplus ==
  ASSUME StorageLevel = 0, NEW s
  PROVE  Surplus(s) = {}
BY DEF Surplus

LEMMA KeepsStep ==
  ASSUME CalInv, StorageLevel = 0, sent \subseteq Stamps(stored), [Next]_vars
  PROVE  sent' \subseteq Stamps(stored')
<1>1. IsTable(stored)
  BY DEF CalInv, CalTypeOK, IsTable
<1>2. ASSUME NEW w \in Writers, Put(w) PROVE sent' \subseteq Stamps(stored')
  BY <1>2 DEF Put, With, Stamps
<1>3. CASE Erase
  <2>1. PICK erased : stored' = Without(stored, erased) /\ sent' = sent \ erased
    BY <1>3 DEF Erase
  <2> QED BY <1>1, <2>1, TableWithout
<1>4. CASE GetEqual \/ NextFinds \/ NextRepeats
  <2>1. stored' = Without(stored, Surplus(stored)) /\ sent' = sent
    BY <1>4 DEF GetEqual, NextFinds, NextRepeats, NextGives, Send, Return
  <2> QED BY <1>1, <2>1, NothingSurplus, TableWithout
<1>5. CASE GetBounded
  <2> DEFINE s == Interpolated(stored, expected)
  <2>1. IsTable(s) /\ Stamps(stored) \subseteq Stamps(s)
    BY <1>1, <1>5, TableInterpolated DEF GetBounded, CalInv, CalTypeOK
  <2>2. stored' = Without(s, Surplus(s)) /\ sent' = sent
    BY <1>5 DEF GetBounded, Send, Return
  <2> HIDE DEF s
  <2> QED BY <2>1, <2>2, NothingSurplus, TableWithout
<1>6. CASE UNCHANGED <<stored, sent>>
  BY <1>6
<1>7. CASE \/ StartGet \/ StartNext \/ GetThrows \/ GetContinues \/ LookAgain \/ NextThrows
           \/ Waiting \/ StartErase
  BY <1>7, <1>6 DEF StartGet, StartNext, GetThrows, GetContinues, LookAgain, NextThrows, Throw, Return,
     Waiting, Lock, Decide, Wait, SpuriousWakeUp, GiveUp, TimedOut, StartErase, portVars, history
<1>8. ASSUME NEW w \in Writers, AddConnection(w) \/ PutLock(w) \/ Finish(w) \/ RemoveConnection(w) \/ WakeupWaiting(w)
      PROVE  sent' \subseteq Stamps(stored')
  BY <1>8, <1>6 DEF AddConnection, PutLock, Finish, RemoveConnection, Disconnect, WakeupWaiting, portVars, history
<1>9. CASE UNCHANGED vars
  BY <1>9, <1>6 DEF vars, portVars, history
<1> QED BY <1>2, <1>3, <1>4, <1>5, <1>7, <1>8, <1>9 DEF Next, Get, Sequential, WriterStep

(* A port without limit on its storage loses nothing.                      *)
THEOREM KeepsEverything == Spec => []NothingLost
<1>1. Init => NothingLost
  BY DEF Init, NothingLost
<1>2. CalInv /\ NothingLost /\ [Next]_vars => NothingLost'
  BY KeepsStep DEF NothingLost
<1> QED BY <1>1, <1>2, CalAlways, PTL DEF Spec

(* The datum put is later than all that the table holds and has given.     *)
LaterThanAll(d) ==
  /\ \A v \in Stamps(stored) : v < d
  /\ lastSet => last < d

NotEarlier(d) ==
  /\ \A v \in Stamps(stored) : v <= d
  /\ lastSet => last <= d

PutsIncrease ==
  \A w \in Writers : writer[w] = "writing" =>
    IF mutex = w THEN LaterThanAll(putting[w]) ELSE NotEarlier(putting[w])
ClosedMeansEnded ==
  directive # "UNDEFINED" => \A w \in Writers : writer[w] # "writing"
WakerClosed == Waker => directive # "UNDEFINED"
NothingYet ==
  turn = 1 /\ (joined = {} => Stamps(stored) = {} /\ ~lastSet /\ directive = "UNDEFINED")
WokenFinds ==
  (op = "next" /\ (pc = "woken" \/ (pc \in {"looking", "again"} /\ woken))) =>
    (directive # "UNDEFINED" \/ After(stored) # {})

SeqInv ==
  /\ sent \subseteq Stamps(stored)
  /\ PutsIncrease /\ ClosedMeansEnded /\ WakerClosed /\ NothingYet /\ WokenFinds
  /\ pc # "erasing"
  /\ NextMissesNothing

OneInSequence ==
  /\ \E w : Writers = {w}
  /\ Turns = 1 /\ StorageLevel = 0 /\ ~SpuriousWakeUps /\ "erase" \notin Reads

(* Dates are numbers.                                                      *)
LEMMA Numbers ==
  ASSUME CalInv
  PROVE  /\ \A d \in Dates : d \in Nat
         /\ \A v \in Stamps(stored) : v \in Nat /\ v \in Dates
         /\ last \in Nat /\ expected \in Nat
         /\ \A w \in Writers : putting[w] \in Int
<1>1. \A d \in Dates : d \in Nat
  BY PortAssumption DEF Dates
<1> QED BY <1>1 DEF CalInv, CalTypeOK

(* Once a connection is made, it is recorded for the whole turn.           *)
LEMMA StillJoined ==
  ASSUME NothingYet, Launched \/ joined # {}, OneInSequence, UNCHANGED <<turn, joined>>
  PROVE  NothingYet'
BY DEF NothingYet, Launched, OneInSequence

(* A step of the reader that leaves the writers alone, and adds to the     *)
(* table and takes for the last date given nothing later than the table.   *)
LEMMA PutsStillIncrease ==
  ASSUME CalInv, SeqInv, OneInSequence, UNCHANGED <<writer, putting, closeVars>>, mutex \notin Writers, mutex' \notin Writers, Launched,
         Stamps(stored') \subseteq Dates,
         \A v \in Stamps(stored') : \E u \in Stamps(stored) : v <= u,
         lastSet' => (lastSet /\ last' = last) \/ last' \in Stamps(stored')
  PROVE  PutsIncrease' /\ ClosedMeansEnded' /\ WakerClosed' /\ NothingYet'
<1>1. ClosedMeansEnded' /\ WakerClosed' /\ NothingYet'
  BY StillJoined DEF SeqInv, ClosedMeansEnded, WakerClosed, Waker, closeVars
<1>2. ASSUME NEW w \in Writers, writer[w] = "writing"
      PROVE  NotEarlier(putting[w])'
  <2>1. NotEarlier(putting[w]) /\ putting[w] \in Dates \cup {-1}
    BY <1>2 DEF SeqInv, PutsIncrease, CalInv, CalTypeOK
  <2>2. Dates \subseteq Nat /\ Stamps(stored) \subseteq Dates
    BY PortAssumption DEF Dates, CalInv, CalTypeOK
  <2>3. ASSUME NEW v \in Stamps(stored') PROVE v <= putting[w]
    <3>1. PICK u \in Stamps(stored) : v <= u
      OBVIOUS
    <3>2. v \in Nat /\ u \in Nat
      BY <2>2
    <3>3. u <= putting[w]
      BY <2>1 DEF NotEarlier
    <3>4. putting[w] \in Int
      BY Numbers
    <3> QED BY <3>1, <3>2, <3>3, <3>4
  <2>4. lastSet' => last' <= putting[w]
    BY <2>1, <2>3 DEF NotEarlier
  <2> QED BY <2>3, <2>4 DEF NotEarlier
<1> QED BY <1>1, <1>2 DEF PutsIncrease

LEMMA SeqPut ==
  ASSUME CalInv, SeqInv, OneInSequence, NEW w \in Writers, Put(w)
  PROVE  SeqInv'
<1> USE DEF SeqInv
<1>1. Writers = {w} /\ mutex = w /\ w \notin {"reader", "free"}
  BY PortAssumption DEF OneInSequence, Put
<1>2. putting[w] \in Dates /\ IsTable(stored) /\ {putting[w]} \in Data
  BY <1>1 DEF CalInv, CalTypeOK, PutHasDate, IsTable, Data
<1>3. LaterThanAll(putting[w]) /\ writer[w] = "writing" /\ directive = "UNDEFINED"
  BY <1>1 DEF PutsIncrease, CalInv, ConnInv, PutterWrites, ClosedMeansEnded
<1>4. /\ Stamps(stored') = Stamps(stored) \cup {putting[w]} /\ sent' = sent \cup {putting[w]}
      /\ mutex' = "free" /\ pc' # "erasing"
      /\ UNCHANGED <<last, lastSet, directive, writer, putting, op, woken, served>>
  BY <1>2, TableWith DEF Put, Signal, closeVars
<1>5. Dates \subseteq Nat
  BY PortAssumption DEF Dates
<1>6. sent' \subseteq Stamps(stored')
  BY <1>4
<1>7. PutsIncrease'
  <2>1. ASSUME NEW v \in Stamps(stored') PROVE v <= putting[w]
    <3>1. CASE v = putting[w]
      BY <3>1, Numbers
    <3>2. CASE v \in Stamps(stored)
      <4>1. v \in Nat /\ v < putting[w] /\ putting[w] \in Int
        BY <1>3, <3>2, Numbers DEF LaterThanAll
      <4> QED BY <4>1
    <3> QED BY <1>4, <3>1, <3>2
  <2>2. lastSet => last <= putting[w]
    <3>1. last \in Nat /\ putting[w] \in Int /\ (lastSet => last < putting[w])
      BY <1>3, Numbers DEF LaterThanAll
    <3> QED BY <3>1
  <2>3. NotEarlier(putting[w])'
    BY <1>4, <2>1, <2>2 DEF NotEarlier
  <2> QED BY <1>1, <1>4, <2>3 DEF PutsIncrease
<1>8. ClosedMeansEnded' /\ WakerClosed' /\ NothingYet'
  <2>1. Launched /\ UNCHANGED <<turn, joined>>
    BY <1>1, PortAssumption DEF CalInv, ConnInv, NotLaunched, Put, closeVars
  <2>2. NothingYet'
    BY <2>1, StillJoined
  <2> QED BY <1>1, <1>3, <1>4, <2>2 DEF ClosedMeansEnded, WakerClosed, Waker
<1>9. WokenFinds'
  <2>1. putting[w] \in After(stored)'
    <3>1. last \in Nat /\ putting[w] \in Int /\ (lastSet => last < putting[w])
      BY <1>3, Numbers DEF LaterThanAll
    <3>2. lastSet => putting[w] > last
      BY <3>1
    <3> QED BY <1>4, <3>2 DEF After
  <2> QED BY <2>1 DEF WokenFinds
<1>10. NextMissesNothing'
  <2>1. last \in Nat /\ putting[w] \in Int /\ (lastSet => last < putting[w])
    BY <1>3, Numbers DEF LaterThanAll
  <2>2. lastSet => ~(putting[w] <= last)
    BY <2>1
  <2> QED BY <1>4, <2>2 DEF NextMissesNothing
<1> QED BY <1>4, <1>6, <1>7, <1>8, <1>9, <1>10

LEMMA SeqWriter ==
  ASSUME CalInv, SeqInv, OneInSequence, NEW w \in Writers,
         AddConnection(w) \/ PutLock(w) \/ Finish(w) \/ RemoveConnection(w) \/ WakeupWaiting(w)
  PROVE  SeqInv'
<1> USE DEF SeqInv
<1>1. Writers = {w} /\ w \notin {"reader", "free"} /\ Dates \subseteq Nat
  BY PortAssumption DEF OneInSequence, Dates
<1>2. CASE PutLock(w)
  <2>1. PICK d \in Dates : d > putting[w] /\ putting' = [putting EXCEPT ![w] = d]
    BY <1>2 DEF PutLock
  <2>2. writer[w] = "writing" /\ mutex = "free" /\ mutex' = w /\ UNCHANGED <<portVars, closeVars, writer, readerVars, history>>
    BY <1>2 DEF PutLock
  <2>3. NotEarlier(putting[w])
    BY <1>1, <2>2 DEF PutsIncrease
  <2>4. LaterThanAll(d)
    <3>1. d \in Nat /\ putting[w] \in Int
      BY Numbers
    <3>2. ASSUME NEW v \in Stamps(stored) PROVE v < d
      <4>1. v \in Nat /\ v <= putting[w]
        BY <2>3, Numbers DEF NotEarlier
      <4> QED BY <2>1, <3>1, <4>1
    <3>3. lastSet => last < d
      <4>1. last \in Nat /\ (lastSet => last <= putting[w])
        BY <2>3, Numbers DEF NotEarlier
      <4> QED BY <2>1, <3>1, <4>1
    <3> QED BY <3>2, <3>3 DEF LaterThanAll
  <2>5. putting'[w] = d
    BY <2>1 DEF CalInv, CalTypeOK
  <2>6. PutsIncrease'
    BY <1>1, <2>2, <2>4, <2>5 DEF PutsIncrease, LaterThanAll, portVars
  <2>7. NothingYet'
    BY <1>2, <2>2, StillJoined DEF PutLock, closeVars
  <2> QED BY <1>1, <2>2, <2>6, <2>7 DEF ClosedMeansEnded, WakerClosed, Waker, WokenFinds, After, NextMissesNothing,
          portVars, closeVars, readerVars, history
<1>3. CASE Finish(w) \/ RemoveConnection(w)
  <2>1. PICK how \in {"CONTINUE", "STOP"}, after \in {"ended", "gone"}, wakes \in {"waking", "removing"} :
          Disconnect(w, how, after, wakes) /\ mutex # w
    BY <1>3, PortAssumption DEF Finish, RemoveConnection
  <2>2. UNCHANGED <<portVars, mutex, putting, readerVars, history>>
    BY <2>1 DEF Disconnect
  <2>3. writer'[w] \in {after, wakes} /\ (directive' = "UNDEFINED" => directive = "UNDEFINED" /\ writer'[w] = after)
    BY <2>1, <1>1 DEF Disconnect, CalInv, CalTypeOK, Waker, WakerClosed
  <2>4. PutsIncrease' /\ ClosedMeansEnded' /\ WakerClosed' /\ NothingYet'
    <3>1. NothingYet'
      BY <1>3, <2>1, StillJoined DEF Finish, RemoveConnection, Disconnect
    <3> QED BY <1>1, <2>1, <2>2, <2>3, <3>1 DEF PutsIncrease, ClosedMeansEnded, WakerClosed, Waker
  <2> QED BY <2>2, <2>3, <2>4 DEF WokenFinds, After, NextMissesNothing, portVars, readerVars, history
<1>4. CASE WakeupWaiting(w)
  <2>1. directive # "UNDEFINED" /\ writer'[w] # "writing" /\ mutex = "free"
    BY <1>4 DEF WakeupWaiting, WakerClosed, Waker, CalInv, CalTypeOK
  <2>2. UNCHANGED <<portVars, mutex, closeVars, putting, history>> /\ pc' # "erasing"
    BY <1>4 DEF WakeupWaiting, Signal
  <2>3. PutsIncrease' /\ ClosedMeansEnded' /\ WakerClosed' /\ NothingYet' /\ WokenFinds'
    <3>1. joined # {}
      BY <1>1, <1>4 DEF WakeupWaiting, CalInv, ConnInv, GoneOrJoined
    <3>2. NothingYet'
      BY <2>2, <3>1, StillJoined DEF closeVars
    <3> QED BY <1>1, <2>1, <2>2, <3>2 DEF PutsIncrease, ClosedMeansEnded, WakerClosed, WokenFinds, closeVars
  <2> QED BY <2>2, <2>3 DEF NextMissesNothing, portVars, history
<1>5. CASE AddConnection(w)
  <2>1. joined = {} /\ joined' = {w} /\ turn' = turn /\ turn = 1
    BY <1>1, <1>5 DEF AddConnection, NothingYet, OneInSequence, CalInv, CalTypeOK
  <2>2. UNCHANGED <<portVars, mutex, directive, readerVars, history>> /\ pc = "idle"
    BY <1>5 DEF AddConnection
  <2>3. Stamps(stored) = {} /\ ~lastSet /\ directive = "UNDEFINED" /\ mutex \notin Writers
    <3>1. mutex = "free"
      BY <1>5, ConnAdd DEF CalInv
    <3> QED BY <2>1, <3>1, PortAssumption DEF NothingYet
  <2>4. PutsIncrease'
    BY <2>2, <2>3 DEF PutsIncrease, NotEarlier, portVars
  <2>5. ClosedMeansEnded' /\ WakerClosed' /\ NothingYet'
    <3>1. ~Waker'
      BY <1>1, <1>5 DEF AddConnection, Waker, CalInv, CalTypeOK
    <3> QED BY <2>1, <2>2, <2>3, <3>1 DEF ClosedMeansEnded, WakerClosed, NothingYet
  <2> QED BY <2>2, <2>4, <2>5 DEF WokenFinds, NextMissesNothing, portVars, readerVars, history
<1> QED BY <1>2, <1>3, <1>4, <1>5

(* The steps of the reader that leave the table and what was given alone.  *)
LEMMA SeqQuiet ==
  ASSUME CalInv, SeqInv, OneInSequence,
         UNCHANGED <<stored, last, lastSet, closeVars, writer, putting, sent, served>>,
         mutex \notin Writers, mutex' \notin Writers, WokenFinds', pc' # "erasing", Launched
  PROVE  SeqInv'
BY StillJoined DEF SeqInv, PutsIncrease, NotEarlier, ClosedMeansEnded, WakerClosed, Waker, NextMissesNothing, closeVars

LEMMA SeqCalls ==
  ASSUME CalInv, SeqInv, OneInSequence,
         StartGet \/ StartNext \/ StartErase \/ LookAgain \/ GetContinues \/ SpuriousWakeUp \/ GiveUp \/ Lock \/ Wait \/ TimedOut
  PROVE  SeqInv'
<1>1. /\ UNCHANGED <<stored, last, lastSet, closeVars, writer, putting, sent, served>>
      /\ mutex' = mutex \/ (mutex \notin Writers /\ mutex' \notin Writers)
      /\ pc' # "erasing"
  BY PortAssumption DEF StartGet, StartNext, StartErase, LookAgain, GetContinues, SpuriousWakeUp, GiveUp, Lock, Wait, TimedOut, Return,
     OneInSequence, SeqInv, Call, portVars, history, CalInv, CalTypeOK
<1>2. WokenFinds'
  BY <1>1 DEF SeqInv, WokenFinds, After, StartGet, StartNext, StartErase, LookAgain, GetContinues, SpuriousWakeUp, GiveUp, Lock, Wait, TimedOut, Return,
     Call, OneInSequence, closeVars, portVars
<1>5. Launched
  BY DEF CalInv, ConnInv, NotLaunched, StartGet, StartNext, StartErase, LookAgain, GetContinues, SpuriousWakeUp, GiveUp, Lock, Wait, TimedOut, Call
<1>3. CASE mutex \in Writers
  BY <1>1, <1>2, <1>3, <1>5, StillJoined DEF SeqInv, PutsIncrease, LaterThanAll, NotEarlier, ClosedMeansEnded, WakerClosed, Waker, NextMissesNothing, closeVars
<1>4. CASE mutex \notin Writers
  BY <1>1, <1>2, <1>4, <1>5, SeqQuiet
<1> QED BY <1>3, <1>4

LEMMA SeqDecide ==
  ASSUME CalInv, SeqInv, OneInSequence, Decide
  PROVE  SeqInv'
<1>1. mutex = "reader" /\ mutex \notin Writers
  BY PortAssumption DEF Decide, CalInv, CalTypeOK
<1>2. lastSet' = lastSet
  BY DEF Decide, SeqInv, WokenFinds, Available, CalInv, CalTypeOK
<1>3. WokenFinds'
  BY DEF Decide, WokenFinds
<1>4. Launched
  BY DEF CalInv, ConnInv, NotLaunched, Decide
<1> QED BY <1>1, <1>2, <1>3, <1>4, SeqQuiet DEF Decide, history

LEMMA SeqThrow ==
  ASSUME CalInv, SeqInv, OneInSequence, GetThrows \/ NextThrows
  PROVE  SeqInv'
<1> USE DEF SeqInv
<1>1. /\ directive # "UNDEFINED" /\ ~Available /\ mutex = "reader"
      /\ pc' = "idle" /\ mutex' = "free"
      /\ UNCHANGED <<stored, last, closeVars, writer, putting, op, woken, sent, served>>
      /\ lastSet' = (lastSet \/ (op = "next" /\ woken))
  BY DEF GetThrows, NextThrows, Throw, Return, CalInv, CalTypeOK
<1>2. PutsIncrease' /\ ClosedMeansEnded' /\ WakerClosed' /\ NothingYet'
  <2>1. Launched
    BY DEF CalInv, ConnInv, NotLaunched, GetThrows, NextThrows
  <2> QED BY <1>1, <2>1, PortAssumption, StillJoined DEF PutsIncrease, ClosedMeansEnded, WakerClosed, Waker, closeVars
<1>3. NextMissesNothing'
  <2>1. CASE lastSet' = lastSet
    BY <1>1, <2>1 DEF NextMissesNothing
  <2>2. CASE lastSet' # lastSet
    <3>1. op = "next" /\ ~lastSet
      BY <1>1, <2>2 DEF CalInv, CalTypeOK
    <3>2. Stamps(stored) = {}
      BY <1>1, <3>1 DEF Available, After
    <3> QED BY <1>1, <3>2 DEF NextMissesNothing
  <2> QED BY <2>1, <2>2
<1> QED BY <1>1, <1>2, <1>3 DEF WokenFinds

LEMMA SeqGet ==
  ASSUME CalInv, SeqInv, OneInSequence, GetEqual \/ GetBounded
  PROVE  SeqInv'
<1>1. IsTable(stored) /\ expected \in Dates /\ Dates \subseteq Nat
  BY PortAssumption DEF CalInv, CalTypeOK, IsTable, Dates
<1>2. /\ mutex = "reader" /\ pc' = "idle" /\ mutex' = "free"
      /\ UNCHANGED <<last, lastSet, closeVars, writer, putting, op, woken, sent, served>>
  BY DEF GetEqual, GetBounded, Send, Return, CalInv, CalTypeOK
<1>3. /\ Stamps(stored) \subseteq Stamps(stored') /\ Stamps(stored') \subseteq Dates
      /\ \A v \in Stamps(stored') : \E u \in Stamps(stored) : v <= u
  <2>1. CASE GetEqual
    <3>1. stored' = Without(stored, Surplus(stored))
      BY <2>1 DEF GetEqual, Send
    <3>2. Stamps(stored') = Stamps(stored) \ {}
      BY <1>1, <3>1, NothingSurplus, TableWithout DEF OneInSequence
    <3>3. \A v \in Stamps(stored) : v <= v
      BY Numbers
    <3> QED BY <1>1, <3>2, <3>3 DEF IsTable
  <2>2. CASE GetBounded
    <3> DEFINE s == Interpolated(stored, expected)
    <3>1. stored' = Without(s, Surplus(s)) /\ IsBounded(stored, expected)
      BY <2>2 DEF GetBounded, Send
    <3>2. IsTable(s) /\ Stamps(s) = {expected} \cup Stamps(stored)
      BY <1>1, <3>1, TableInterpolated
    <3>3. Stamps(stored') = Stamps(s) \ {}
      <4> HIDE DEF s
      <4> QED BY <3>1, <3>2, NothingSurplus, TableWithout DEF OneInSequence
    <3>4. PICK u \in Stamps(stored) : u > expected
      BY <3>1 DEF IsBounded
    <3>5. expected <= u
      BY <3>4, Numbers
    <3>6. \A v \in Stamps(stored) : v <= v
      BY Numbers
    <3> HIDE DEF s
    <3> QED BY <1>1, <3>2, <3>3, <3>5, <3>6 DEF IsTable
  <2> QED BY <2>1, <2>2
<1>4. PutsIncrease' /\ ClosedMeansEnded' /\ WakerClosed' /\ NothingYet'
  <2>1. Launched
    BY DEF CalInv, ConnInv, NotLaunched, GetEqual, GetBounded
  <2> QED BY <1>2, <1>3, <2>1, PortAssumption, PutsStillIncrease DEF closeVars
<1> QED BY <1>2, <1>3, <1>4 DEF SeqInv, WokenFinds, NextMissesNothing

LEMMA SeqNext ==
  ASSUME CalInv, SeqInv, OneInSequence, NextFinds \/ NextRepeats
  PROVE  SeqInv'
<1>1. IsTable(stored) /\ Dates \subseteq Nat /\ Stamps(stored) \in SUBSET Dates
  BY PortAssumption DEF CalInv, CalTypeOK, IsTable, Dates
<1>2. PICK v : NextGives(v) /\ pc = "looking"
               /\ \/ After(stored) # {} /\ v = Min(After(stored))
                  \/ After(stored) = {} /\ Stamps(stored) # {} /\ v = Max(Stamps(stored))
  BY DEF NextFinds, NextRepeats, Available
<1>3. /\ v \in Stamps(stored)
      /\ \A u \in Stamps(stored) : u <= v => u = v \/ (lastSet /\ u <= last)
  <2>1. CASE After(stored) # {} /\ v = Min(After(stored))
    <3>1. After(stored) \in SUBSET Dates
      BY <1>1 DEF After
    <3>2. v \in After(stored) /\ \A u \in After(stored) : v <= u
      BY <2>1, <3>1, LeastDate
    <3>3. ASSUME NEW u \in Stamps(stored), u <= v PROVE u = v \/ (lastSet /\ u <= last)
      <4>1. u \in Nat /\ last \in Nat /\ v \in Nat
        BY <3>1, <3>2, Numbers
      <4>2. CASE u \in After(stored)
        <5>1. v <= u
          BY <3>2, <4>2
        <5> QED BY <3>3, <4>1, <5>1
      <4>3. CASE u \notin After(stored)
        <5>1. lastSet /\ ~(u > last)
          BY <4>3 DEF After
        <5> QED BY <4>1, <5>1
      <4> QED BY <4>2, <4>3
    <3>4. v \in Stamps(stored)
      BY <3>2 DEF After
    <3> QED BY <3>3, <3>4
  <2>2. CASE After(stored) = {} /\ Stamps(stored) # {} /\ v = Max(Stamps(stored))
    <3>1. v \in Stamps(stored)
      BY <1>1, <2>2, LatestDate
    <3>2. \A u \in Stamps(stored) : lastSet /\ ~(u > last)
      BY <2>2 DEF After
    <3>3. ASSUME NEW u \in Stamps(stored) PROVE lastSet /\ u <= last
      <4>1. u \in Nat /\ last \in Nat
        BY Numbers
      <4> QED BY <3>2, <4>1
    <3> QED BY <3>1, <3>3
  <2> QED BY <1>2, <2>1, <2>2
<1>4. /\ mutex = "reader" /\ pc' = "idle" /\ mutex' = "free"
      /\ UNCHANGED <<closeVars, writer, putting, op, woken, sent>>
      /\ last' = v /\ lastSet' = TRUE /\ served' = served \cup {v}
      /\ stored' = Without(stored, Surplus(stored))
  BY <1>2 DEF NextGives, Send, Return, CalInv, CalTypeOK
<1>5. Stamps(stored') = Stamps(stored)
  <2>1. Stamps(stored') = Stamps(stored) \ {}
    BY <1>1, <1>4, NothingSurplus, TableWithout DEF OneInSequence
  <2> QED BY <2>1
<1>6. PutsIncrease' /\ ClosedMeansEnded' /\ WakerClosed' /\ NothingYet'
  <2>1. \A u \in Stamps(stored) : u <= u
    BY Numbers
  <2>2. Launched
    BY <1>2 DEF CalInv, ConnInv, NotLaunched
  <2> QED BY <1>1, <1>3, <1>4, <1>5, <2>1, <2>2, PortAssumption, PutsStillIncrease DEF closeVars
<1>7. NextMissesNothing'
  BY <1>3, <1>4 DEF SeqInv, NextMissesNothing
<1> QED BY <1>4, <1>5, <1>6, <1>7 DEF SeqInv, WokenFinds

LEMMA SeqStep == CalInv /\ SeqInv /\ OneInSequence /\ [Next]_vars => SeqInv'
<1> SUFFICES ASSUME CalInv, SeqInv, OneInSequence, [Next]_vars PROVE SeqInv'
  OBVIOUS
<1>1. CASE \E w \in Writers : WriterStep(w)
  BY <1>1, SeqPut, SeqWriter DEF WriterStep
<1>2. CASE Get \/ Sequential \/ Waiting
  BY <1>2, SeqCalls, SeqDecide, SeqThrow, SeqGet, SeqNext DEF Get, Sequential, Waiting
<1>3. CASE StartErase
  BY <1>3 DEF StartErase, OneInSequence
<1>4. CASE Erase
  BY <1>4 DEF Erase, SeqInv
<1>5. CASE UNCHANGED vars
  BY <1>5 DEF SeqInv, PutsIncrease, LaterThanAll, NotEarlier, ClosedMeansEnded, WakerClosed, Waker, NothingYet, WokenFinds, After, NextMissesNothing,
     vars, portVars, closeVars, readerVars, history
<1> QED BY <1>1, <1>2, <1>3, <1>4, <1>5 DEF Next

(* One writer whose dates increase, one turn, no limit on the storage, no  *)
(* erasure and no spurious wake-up: the reads in sequence pass over no     *)
(* datum, whatever reads by date come between, interpolated or not.        *)
THEOREM InSequence ==
  ASSUME OneInSequence
  PROVE  Spec => []NextMissesNothing
<1>1. Init => SeqInv
  <2> SUFFICES ASSUME Init PROVE SeqInv
    OBVIOUS
  <2>1. Stamps(stored) = {}
    BY DEF Init, Stamps
  <2>2. Init
    OBVIOUS
  <2> QED BY <2>1, <2>2, PortAssumption DEF Init, SeqInv, PutsIncrease, NotEarlier, LaterThanAll, ClosedMeansEnded, WakerClosed, Waker,
      NothingYet, WokenFinds, NextMissesNothing
<1>2. CalInv /\ SeqInv /\ [Next]_vars => SeqInv'
  BY SeqStep
<1>3. SeqInv => NextMissesNothing
  BY DEF SeqInv
<1> QED BY <1>1, <1>2, <1>3, CalAlways, PTL DEF Spec

=============================================================================
