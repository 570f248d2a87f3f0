---------------------------- MODULE CalciumPort ----------------------------
(***************************************************************************)
(* The data table of a provides port of Calcium (KERNEL, DSC_User):        *)
(* GenericPort with CalciumCouplingPolicy, and the count of connections of *)
(* CalciumGenericProvidesPort.  Writers put data in the table from threads *)
(* of the ORB; the component that owns the port reads it, by date (get) or *)
(* in sequence (next), and blocks while what it wants has not come.  YACS  *)
(* connects the writers before it launches the services; a writer that has *)
(* ended says so (cp_fin), then YACS removes its connection.  In a loop it *)
(* connects the same components again, to the same port.                   *)
(*                                                                         *)
(* A date stands for a time or an iteration number.  A datum is the set of *)
(* the dates it was computed from: one for a datum that was put, two or    *)
(* more for one that was interpolated.  There is one reader, as            *)
(* GenericPort::put asks for.                                              *)
(***************************************************************************)
EXTENDS Integers, FiniteSets, FiniteSetsExt

CONSTANTS
  Writers,          \* components connected to the port
  LastDate,         \* the last time, or iteration number, of the instance
  InTime,           \* TIME_DEPENDENCY, otherwise ITERATION_DEPENDENCY
  DeltaT,           \* the tolerance on times, in hundredths
  StorageLevel,     \* 0 stands for UNLIMITED_STORAGE_LEVEL
  Directives,       \* what a writer may say in cp_fin
  Reads,            \* the calls the owner makes: "get", "next", "erase"
  Turns,            \* how many times the services run, in a loop of YACS
  TimeOut,          \* whether dscTimeOut is set
  SpuriousWakeUps   \* whether pthread_cond_wait may return by itself

Dates == 0 .. LastDate

ASSUME PortAssumption ==
  /\ LastDate \in Nat /\ Turns \in Nat
  /\ DeltaT \in 0 .. 100 /\ StorageLevel \in Nat
  /\ InTime \in BOOLEAN /\ TimeOut \in BOOLEAN /\ SpuriousWakeUps \in BOOLEAN
  /\ Directives \subseteq {"CONTINUE", "STOP"}
  /\ Reads \subseteq {"get", "next", "erase"}
  /\ IsFiniteSet(Writers) /\ "reader" \notin Writers /\ "free" \notin Writers

VARIABLES
  stored,             \* storedDatas: date -> datum
  waitingConvenient,  \* waitingForConvenientDataId
  waitingAny,         \* waitingForAnyDataId
  expected,           \* expectedDataId
  last, lastSet,      \* lastDataId, lastDataIdSet
  mutex,              \* owner of storedDatas_mutex, or "free"
  directive,          \* _disconnectDirective
  mustnotdisconnect,  \* _mustnotdisconnect
  turn, joined,       \* the turn of the loop, the writers connected in it
  writer,             \* per writer: where it is
  putting,            \* per writer: the date of the put under way, or of the last one
  pc, op, woken,      \* the reader: where it is, its call, whether it has waited
  answer,             \* what the last call of the reader gave
  sent, served, given, \* history: dates put, dates given by next, data given by get,
  finished            \* writers that have called cp_fin in this turn

portVars   == <<stored, waitingConvenient, waitingAny, expected, last, lastSet>>
closeVars  == <<directive, mustnotdisconnect, turn, joined, finished>>
readerVars == <<pc, op, woken, answer>>
history    == <<sent, served, given>>
vars == <<portVars, mutex, closeVars, writer, putting, readerVars, history>>

Stamps(s) == DOMAIN s
Data == SUBSET Dates
NoAnswer == [kind |-> "none", date |-> 0, data |-> {}]

(* A table where the date d has the datum x, and one without the dates of D. *)
With(s, d, x) == [v \in Stamps(s) \cup {d} |-> IF v = d THEN x ELSE s[v]]
Without(s, D) == [v \in Stamps(s) \ D |-> s[v]]

----------------------------------------------------------------------------
(* What the policy says of a table                                         *)

(* AdjacentFunctor: v is taken for the date d if it is at most d and at    *)
(* least d less the tolerance.                                             *)
Near(v, d) ==
  /\ v <= d
  /\ 100 * v >= d * (100 - (IF InTime THEN DeltaT ELSE 0))

(* isDataIdConveniant: the first date near d, or in time mode the one just *)
(* below d when there is one above.                                        *)
IsEqual(s, d) == \E v \in Stamps(s) : Near(v, d)
Nearest(s, d) == Min({v \in Stamps(s) : Near(v, d)})
IsBounded(s, d) ==
  /\ InTime /\ ~IsEqual(s, d)
  /\ \E v \in Stamps(s) : v < d
  /\ \E v \in Stamps(s) : v > d
Below(s, d) == Max({v \in Stamps(s) : v < d})
Above(s, d) == Min({v \in Stamps(s) : v > d})

Convenient(s, d) == IsEqual(s, d) \/ IsBounded(s, d)

(* BoundedDataIdProcessor, and the store of the interpolated datum.        *)
Interpolated(s, d) == With(s, d, s[Below(s, d)] \cup s[Above(s, d)])

(* EraseDataIdProcessor: the oldest dates beyond the storage level.        *)
Surplus(s) ==
  IF StorageLevel = 0 THEN {}
  ELSE {v \in Stamps(s) : Cardinality({u \in Stamps(s) : u >= v}) > StorageLevel}

(* What next may give: the dates after the last one given.                 *)
After(s) == {v \in Stamps(s) : lastSet => v > last}

----------------------------------------------------------------------------
(* Writers                                                                 *)

Init ==
  /\ stored = <<>>
  /\ waitingConvenient = FALSE /\ waitingAny = FALSE /\ expected = 0
  /\ last = 0 /\ lastSet = FALSE
  /\ mutex = "free"
  /\ directive = "UNDEFINED" /\ mustnotdisconnect = 0
  /\ turn = 1 /\ joined = {} /\ finished = {}
  /\ writer = [w \in Writers |-> "gone"]
  /\ putting = [w \in Writers |-> -1]
  /\ pc = "idle" /\ op = "none" /\ woken = FALSE /\ answer = NoAnswer
  /\ sent = {} /\ served = {} /\ given = [d \in Dates |-> {}]

(* cond_instance.signal(), which is lost unless the reader waits.          *)
Signal == pc' = IF pc = "asleep" THEN "woken" ELSE pc

(* connectService: the port counts one connection more.  Nothing else of   *)
(* it changes, the directive of the turn before included.                  *)
AddConnection(w) ==
  /\ pc = "idle" /\ writer[w] = "gone"
  /\ \/ w \notin joined /\ joined' = joined \cup {w} /\ UNCHANGED <<turn, finished>>
     \/ /\ joined = Writers /\ (\A v \in Writers : writer[v] = "gone") /\ turn < Turns
        /\ turn' = turn + 1 /\ joined' = {w} /\ finished' = {}
  /\ mustnotdisconnect' = mustnotdisconnect + 1
  /\ writer' = [writer EXCEPT ![w] = "writing"] /\ putting' = [putting EXCEPT ![w] = -1]
  /\ UNCHANGED <<portVars, mutex, directive, readerVars, history>>

(* The services are launched once all are connected.                       *)
Launched == joined = Writers

(* A writer calls put with a date later than its last one, and takes the   *)
(* mutex.                                                                  *)
PutLock(w) ==
  /\ Launched /\ writer[w] = "writing" /\ mutex = "free"
  /\ \E d \in Dates :
       /\ d > putting[w]
       /\ putting' = [putting EXCEPT ![w] = d]
  /\ mutex' = w
  /\ UNCHANGED <<portVars, closeVars, writer, readerVars, history>>

(* The rest of put: the datum is stored, or replaces the one of its date,  *)
(* and the reader is signalled if what it waits for has come.              *)
Put_ByDate(w) ==
  /\ mutex = w
  /\ stored' = With(stored, putting[w], {putting[w]})
  /\ sent' = sent \cup {putting[w]}
  /\ IF waitingAny
       THEN /\ waitingAny' = FALSE
            /\ Signal
            /\ UNCHANGED waitingConvenient
     ELSE IF waitingConvenient /\ IsEqual(stored', expected)
       THEN /\ waitingConvenient' = FALSE
            /\ Signal
            /\ UNCHANGED waitingAny
     ELSE UNCHANGED <<waitingAny, waitingConvenient, pc>>
  /\ mutex' = "free"
  /\ UNCHANGED <<expected, last, lastSet, closeVars, writer, putting, op, woken, answer, served, given>>

Put(w) ==
  /\ mutex = w
  /\ stored' = With(stored, putting[w], {putting[w]})
  /\ sent' = sent \cup {putting[w]}
  /\ IF waitingAny
       THEN /\ waitingAny' = FALSE
            /\ Signal
            /\ UNCHANGED waitingConvenient
     ELSE IF waitingConvenient /\ Convenient(stored', expected)
       THEN /\ waitingConvenient' = FALSE
            /\ Signal
            /\ UNCHANGED waitingAny
     ELSE UNCHANGED <<waitingAny, waitingConvenient, pc>>
  /\ mutex' = "free"
  /\ UNCHANGED <<expected, last, lastSet, closeVars, writer, putting, op, woken, answer, served, given>>

(* disconnect, under _disconnect_mutex: the end that takes the count to    *)
(* zero writes the directive, without storedDatas_mutex, and goes on to    *)
(* wake the reader up.                                                     *)
Disconnect_EachTime(w, how, next, waking) ==
  /\ \A v \in Writers : writer[v] \notin {"waking", "removing"}
  /\ mustnotdisconnect' = IF mustnotdisconnect > 0 THEN mustnotdisconnect - 1 ELSE 0
  /\ IF mustnotdisconnect <= 1
       THEN directive' = how /\ writer' = [writer EXCEPT ![w] = waking]
       ELSE writer' = [writer EXCEPT ![w] = next] /\ UNCHANGED directive
  /\ UNCHANGED <<portVars, mutex, turn, joined, putting, readerVars, history>>

Disconnect(w, how, next, waking) ==
  /\ \A v \in Writers : writer[v] \notin {"waking", "removing"}
  /\ mustnotdisconnect' = IF mustnotdisconnect > 0 THEN mustnotdisconnect - 1 ELSE 0
  /\ IF mustnotdisconnect = 1
       THEN directive' = how /\ writer' = [writer EXCEPT ![w] = waking]
       ELSE writer' = [writer EXCEPT ![w] = next] /\ UNCHANGED directive
  /\ UNCHANGED <<portVars, mutex, turn, joined, putting, readerVars, history>>

(* ecp_fin: the writer has nothing more to say.                            *)
Finish(w) ==
  /\ Launched /\ writer[w] = "writing" /\ mutex # w
  /\ \E how \in Directives : Disconnect(w, how, "ended", "waking")
  /\ finished' = finished \cup {w}

(* YACS disconnects the service when its task is over, whether it has      *)
(* called cp_fin or failed before.                                         *)
RemoveConnection(w) ==
  /\ Launched /\ writer[w] \in {"writing", "ended"} /\ mutex # w
  /\ Disconnect(w, "STOP", "gone", "removing")
  /\ UNCHANGED finished

(* wakeupWaiting, then the release of _disconnect_mutex.                   *)
WakeupWaiting_IfAny(w) ==
  /\ writer[w] \in {"waking", "removing"} /\ mutex = "free"
  /\ IF waitingAny THEN Signal ELSE UNCHANGED pc
  /\ writer' = [writer EXCEPT ![w] = IF writer[w] = "waking" THEN "ended" ELSE "gone"]
  /\ UNCHANGED <<portVars, mutex, closeVars, putting, op, woken, answer, history>>

WakeupWaiting(w) ==
  /\ writer[w] \in {"waking", "removing"} /\ mutex = "free"
  /\ IF waitingAny \/ waitingConvenient THEN Signal ELSE UNCHANGED pc
  /\ writer' = [writer EXCEPT ![w] = IF writer[w] = "waking" THEN "ended" ELSE "gone"]
  /\ UNCHANGED <<portVars, mutex, closeVars, putting, op, woken, answer, history>>

----------------------------------------------------------------------------
(* The reader: common steps                                                *)

Call(c) == Launched /\ pc = "idle" /\ op' = c /\ woken' = FALSE /\ answer' = NoAnswer

(* The first statement of get is done before the mutex is taken.           *)
StartGet ==
  /\ "get" \in Reads /\ Call("get") /\ pc' = "calling"
  /\ expected' \in Dates
  /\ UNCHANGED <<stored, waitingConvenient, waitingAny, last, lastSet, mutex, closeVars, writer, putting, history>>

StartNext ==
  /\ "next" \in Reads /\ Call("next") /\ pc' = "calling"
  /\ UNCHANGED <<portVars, mutex, closeVars, writer, putting, history>>

(* Entry, or return of wait: the mutex is taken.                           *)
Lock ==
  /\ pc \in {"calling", "woken"} /\ mutex = "free"
  /\ mutex' = "reader" /\ pc' = "looking"
  /\ woken' = (pc = "woken")
  /\ UNCHANGED <<portVars, closeVars, writer, putting, op, answer, history>>

(* The call ends, with the datum of the date v computed from data, or with *)
(* an exception.                                                           *)
Return(kind, v, data) ==
  /\ answer' = [kind |-> kind, date |-> v, data |-> data]
  /\ pc' = "idle" /\ mutex' = "free"
  /\ UNCHANGED <<expected, closeVars, writer, putting, op, woken, sent>>

(* Nothing to give: the port stays as it is but for the flag.              *)
Throw(kind) ==
  /\ Return(kind, 0, {})
  /\ waitingConvenient' = IF op = "get" THEN TRUE ELSE waitingConvenient
  /\ waitingAny' = IF op = "next" THEN FALSE ELSE waitingAny
  /\ lastSet' = (lastSet \/ (op = "next" /\ woken))
  /\ UNCHANGED <<stored, last, served, given>>

(* Whether the call finds what it looks for in the table.                  *)
Available == IF op = "get" THEN Convenient(stored, expected) ELSE After(stored) # {}

(* Nothing to give and the port is open: the call will wait.  The          *)
(* directive has been read, the flag is set and the mutex left afterwards. *)
Decide ==
  /\ pc = "looking" /\ ~Available /\ directive = "UNDEFINED"
  /\ pc' = "deciding"
  /\ lastSet' = (lastSet \/ (op = "next" /\ woken))
  /\ UNCHANGED <<stored, waitingConvenient, waitingAny, expected, last, mutex, closeVars, writer, putting, op, woken, answer, history>>

Wait ==
  /\ pc = "deciding"
  /\ pc' = "asleep" /\ mutex' = "free"
  /\ waitingConvenient' = (op = "get" \/ waitingConvenient)
  /\ waitingAny' = (op = "next" \/ waitingAny)
  /\ UNCHANGED <<stored, expected, last, lastSet, closeVars, writer, putting, op, woken, answer, history>>

SpuriousWakeUp ==
  /\ SpuriousWakeUps /\ pc = "asleep" /\ pc' = "woken"
  /\ UNCHANGED <<portVars, mutex, closeVars, writer, putting, op, woken, answer, history>>

(* timedwait gives up; the mutex has still to be taken, and what comes     *)
(* meanwhile is not looked at.                                             *)
GiveUp ==
  /\ TimeOut /\ pc = "asleep" /\ pc' = "late"
  /\ UNCHANGED <<portVars, mutex, closeVars, writer, putting, op, woken, answer, history>>

TimedOut ==
  /\ pc = "late" /\ mutex = "free"
  /\ Return("timeout", 0, {})
  /\ waitingConvenient' = IF op = "get" THEN TRUE ELSE waitingConvenient
  /\ waitingAny' = IF op = "next" THEN FALSE ELSE waitingAny
  /\ UNCHANGED <<stored, last, lastSet, served, given>>

----------------------------------------------------------------------------
(* The reader: what a call gives                                           *)

(* The datum of date v in the table s is sent, unless the storage level    *)
(* takes away the entry `it` at which the iterator points: an exception.   *)
Send(s, it, v, wanted) ==
  /\ stored' = Without(s, Surplus(s))
  /\ IF it \in Surplus(s) THEN Return("removed", wanted, {})
                          ELSE Return("data", wanted, s[v])

(* What catch leaves of the flags, if there was an exception.              *)
GetFlags  == /\ waitingConvenient' = (waitingConvenient \/ answer'.kind = "removed")
             /\ UNCHANGED waitingAny
NextFlags == /\ waitingAny' = (waitingAny /\ answer'.kind = "data")
             /\ UNCHANGED waitingConvenient

Give(d) ==
  given' = IF answer'.kind = "data" THEN [given EXCEPT ![d] = answer'.data] ELSE given

(* get finds the date it wants.                                            *)
GetEqual ==
  /\ pc = "looking" /\ op = "get" /\ IsEqual(stored, expected)
  /\ LET v == Nearest(stored, expected) IN Send(stored, v, v, expected)
  /\ Give(expected) /\ GetFlags
  /\ UNCHANGED <<last, lastSet, served>>

(* get finds dates around the one it wants: the interpolated datum is      *)
(* stored, and the iterator points at the date below.                      *)
GetBounded ==
  /\ pc = "looking" /\ op = "get" /\ IsBounded(stored, expected)
  /\ Send(Interpolated(stored, expected), Below(stored, expected), expected, expected)
  /\ Give(expected) /\ GetFlags
  /\ UNCHANGED <<last, lastSet, served>>

(* DisconnectProcessor in get once the port is disconnected: an exception, *)
(* or another turn of the loop, the mutex kept.                            *)
GetThrows ==
  /\ pc = "looking" /\ op = "get" /\ ~Available
  /\ \/ directive = "STOP" /\ Throw("stopped")
     \/ /\ directive = "CONTINUE" /\ \A v \in Stamps(stored) : v < expected
        /\ Throw("noData")

GetContinues ==
  /\ pc = "looking" /\ op = "get" /\ ~Available
  /\ directive = "CONTINUE" /\ \E v \in Stamps(stored) : v >= expected
  /\ pc' = "again"
  /\ UNCHANGED <<portVars, mutex, closeVars, writer, putting, op, woken, answer, history>>

LookAgain ==
  /\ pc = "again" /\ pc' = "looking"
  /\ UNCHANGED <<portVars, mutex, closeVars, writer, putting, op, woken, answer, history>>

(* next gives the datum of date v.                                         *)
NextGives(v) ==
  /\ Send(stored, v, v, v)
  /\ last' = v /\ lastSet' = TRUE
  /\ served' = served \cup {v}
  /\ UNCHANGED given

NextFinds ==
  /\ pc = "looking" /\ op = "next" /\ After(stored) # {}
  /\ NextGives(Min(After(stored))) /\ NextFlags

(* DisconnectProcessor in next: an exception, or the last datum once more. *)
NextThrows ==
  /\ pc = "looking" /\ op = "next" /\ ~Available
  /\ \/ directive = "STOP" /\ Throw("stopped")
     \/ /\ directive = "CONTINUE" /\ \A v \in Stamps(stored) : v < last
        /\ Throw("noData")

NextRepeats ==
  /\ pc = "looking" /\ op = "next" /\ ~Available
  /\ directive = "CONTINUE" /\ \E v \in Stamps(stored) : v >= last
  /\ NextGives(Max(Stamps(stored)))
  /\ waitingAny' = FALSE /\ UNCHANGED waitingConvenient

(* cp_fini, cp_fint, cp_effi, cp_efft: the owner erases what comes before  *)
(* or after a date.  No mutex is taken: the two steps say when the table   *)
(* is in use, and when a put is between its own two steps what the build   *)
(* does may be worse than the orders the model takes.                      *)
StartErase ==
  /\ "erase" \in Reads /\ Call("erase") /\ pc' = "erasing"
  /\ UNCHANGED <<portVars, mutex, closeVars, writer, putting, history>>

Erase ==
  /\ pc = "erasing" /\ pc' = "idle"
  /\ \E d \in Dates :
       \E erased \in {{v \in Dates : v <= d}, {v \in Dates : v >= d}} :
         /\ stored' = Without(stored, erased)
         /\ given' = [v \in Dates |-> IF v \in erased THEN {} ELSE given[v]]
         /\ sent' = sent \ erased
  /\ UNCHANGED <<waitingConvenient, waitingAny, expected, last, lastSet, mutex, closeVars, writer, putting, op, woken, answer, served>>

Get == StartGet \/ GetEqual \/ GetBounded \/ GetThrows \/ GetContinues \/ LookAgain
Sequential == StartNext \/ NextFinds \/ NextThrows \/ NextRepeats
Waiting == Lock \/ Decide \/ Wait \/ SpuriousWakeUp \/ GiveUp \/ TimedOut
WriterStep(w) == AddConnection(w) \/ PutLock(w) \/ Put(w) \/ Finish(w) \/ RemoveConnection(w) \/ WakeupWaiting(w)

Next ==
  \/ Get \/ Sequential \/ Waiting
  \/ StartErase \/ Erase
  \/ \E w \in Writers : WriterStep(w)

Spec == Init /\ [][Next]_vars

(* A call that has begun goes on, and every service ends, at the latest by *)
(* failing; nothing obliges a writer to put or a reader to call.  Weak     *)
(* fairness is enough for the mutex, a service making finitely many puts.  *)
Answering ==
  \/ GetEqual \/ GetBounded \/ GetThrows \/ GetContinues \/ LookAgain
  \/ NextFinds \/ NextThrows \/ NextRepeats
  \/ Lock \/ Decide \/ Wait \/ TimedOut \/ Erase

FairPort ==
  /\ Spec
  /\ WF_vars(Answering)
  /\ \A w \in Writers : WF_vars(Put(w)) /\ WF_vars(WakeupWaiting(w)) /\ WF_vars(RemoveConnection(w))

----------------------------------------------------------------------------
(* Properties                                                              *)

Places == {"idle", "calling", "looking", "deciding", "asleep", "woken", "late", "again", "erasing"}

(* The types; the mutex is with whoever is in a critical section.          *)
CalTypeOK ==
  /\ Stamps(stored) \subseteq Dates /\ \A v \in Stamps(stored) : stored[v] \in Data
  /\ waitingConvenient \in BOOLEAN /\ waitingAny \in BOOLEAN /\ lastSet \in BOOLEAN
  /\ expected \in Dates /\ last \in Dates
  /\ mutex \in Writers \cup {"free", "reader"}
  /\ directive \in {"UNDEFINED", "CONTINUE", "STOP"}
  /\ mustnotdisconnect \in 0 .. Cardinality(Writers)
  /\ turn \in Nat /\ joined \subseteq Writers /\ finished \subseteq joined
  /\ writer \in [Writers -> {"writing", "waking", "ended", "removing", "gone"}]
  /\ putting \in [Writers -> Dates \cup {-1}]
  /\ pc \in Places /\ op \in {"none", "get", "next", "erase"} /\ woken \in BOOLEAN
  /\ (mutex = "reader") <=> (pc \in {"looking", "deciding", "again"})
  /\ sent \subseteq Dates /\ served \subseteq Dates /\ given \in [Dates -> Data]

(* A reader sleeps only while what it wants is missing and the port is     *)
(* open, or somebody is about to wake it up: put and disconnect race with  *)
(* the look it takes before it sleeps.                                     *)
NoLostWakeUp ==
  pc = "asleep" =>
    /\ ~Available
    /\ directive = "UNDEFINED" \/ \E w \in Writers : writer[w] \in {"waking", "removing"}

(* The ends a port has counted in this turn: the calls of cp_fin, then the *)
(* removals of the connections that had been made.                         *)
Closing == {w \in Writers : writer[w] \in {"waking", "removing"}}
Removed == {w \in joined : writer[w] \in {"removing", "gone"}}
Ends    == Cardinality(finished) + Cardinality(Removed)

(* A port is closed by the end that makes as many ends, cp_fin or removal  *)
(* of any writer in any order, as there were connections in the turn: not  *)
(* by one before, nor again by one after, so that the removal of a         *)
(* connection whose writer said CP_CONT does not turn it into CP_ARRET.    *)
ClosedByTheLastEnd ==
  [][directive' # directive \/ ~(Closing' \subseteq Closing)
       => Ends' = Cardinality(joined')]_vars

(* Reads in sequence pass over no datum, when dates are put in increasing  *)
(* order: whatever was put up to the last one given has been given.        *)
NextMissesNothing == \A v \in sent : (lastSet /\ v <= last) => v \in served

(* What a date gave once it gives again, interpolated or not, unless the   *)
(* owner erases: data put later do not change it.                          *)
RepeatedReadsAgree ==
  [][\A d \in Dates : given[d] # {} => given'[d] \in {given[d], {}}]_vars

(* The storage level takes away the oldest data only, and only while       *)
(* enough of them are left.                                                *)
LostOnlyTheOldest ==
  LET lost == sent \ Stamps(stored) IN
  (StorageLevel > 0 /\ lost # {}) =>
    /\ Cardinality(Stamps(stored)) >= StorageLevel
    /\ \A v \in lost, u \in Stamps(stored) : v < u

(* A port without limit on its storage loses nothing.                      *)
NothingLost == StorageLevel = 0 => sent \subseteq Stamps(stored)

(* A date is read from what was put at it, or on both sides of it.         *)
ReadsWhatSurrounds ==
  (answer.kind = "data" /\ op = "get") =>
    \/ \E v \in answer.data : Near(v, answer.date)
    \/ Min(answer.data) < answer.date /\ answer.date < Max(answer.data)

(* Every call of the reader comes to an end, even when the writers fail.   *)
ReadEnds == (pc # "idle") ~> (pc = "idle")

(* The only call that does not is a get that finds the port left open for  *)
(* its date by CP_CONT, and turns in its loop with the mutex kept.         *)
ReadEndsOrTurns == (pc # "idle") ~> (pc \in {"idle", "again"})

=============================================================================
