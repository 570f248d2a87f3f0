----------------------------- MODULE TraceBuffer -----------------------------
(***************************************************************************)
(* KERNEL's trace: LocalTraceBufferPool (a circular pool of buffers        *)
(* guarded by two counting semaphores), the collector thread that prints   *)
(* it (LocalTraceCollector::run), and the shutdown of both                 *)
(* (PROTECTED_DELETE::deleteInstance, ~LocalTraceBufferPool,               *)
(* ~LocalTraceCollector).                                                  *)
(*                                                                         *)
(* A step is what one thread does between two points where another thread  *)
(* can see a difference: a semaphore operation, one increment under        *)
(* _incrementMutex, one of the two halves of filling a buffer, the memcpy  *)
(* of a buffer.                                                            *)
(***************************************************************************)
EXTENDS Naturals, Sequences, FiniteSets

CONSTANTS Producers,       \* the threads of the program that trace
          Closer,          \* the one of them that deletes the pool
          Collector,       \* the printing thread
          BufferSize,      \* TRACE_BUFFER_SIZE
          PosMod,          \* ULONG_MAX + 1
          MaxMessages,     \* bound: messages the program traces
          Kinds,           \* subset of {"normal", "abort"} the program uses
          QuiescentClose   \* the workers are joined before the pool is deleted

ASSUME ConstantsAssumption ==
  /\ Closer \in Producers
  /\ Collector \notin Producers
  /\ IsFiniteSet(Producers)
  /\ BufferSize \in Nat \ {0}
  /\ PosMod \in Nat
  /\ BufferSize < PosMod
  /\ MaxMessages \in Nat
  /\ Kinds \subseteq {"normal", "abort"}
  /\ QuiescentClose \in BOOLEAN

\* "must be power of 2": a position must index the same buffer before and
\* after the unsigned long wraps.
ASSUME PowerOfTwoAssumption == PosMod % BufferSize = 0

VARIABLES position,      \* _position, the last message number given
          insertPos,     \* _insertPos
          retrievePos,   \* _retrievePos
          freeSem,       \* value of _freeBufferSemaphore
          fullSem,       \* value of _fullBufferSemaphore
          buffer,        \* _myBuffer
          threadToClose, \* BaseTraceCollector::_threadToClose
          listMutex,     \* owner of PROTECTED_DELETE::_listMutex, or NoThread
          pc,            \* where each thread is
          msg,           \* the message a thread is inserting
          mypos,         \* myInsertPos of each thread, myRetrievePos
          aTrace,        \* the collector's copy of a buffer
          printed        \* what reached the trace output, in order

vars == <<position, insertPos, retrievePos, freeSem, fullSem, buffer,
          threadToClose, listMutex, pc, msg, mypos, aTrace, printed>>

Threads  == Producers \cup {Collector}
NoThread == "none"
ASSUME NoThreadAssumption == NoThread \notin Threads

Number   == Nat                         \* _position does not wrap here
Kind     == {"normal", "abort"}
Message  == [number : Number, kind : Kind]
Position == 0 .. PosMod - 1
Slot     == 0 .. BufferSize - 1

\* LocalTrace_TraceInfo: the text is written by strncpy before the other
\* fields; both halves carry the number of the message they belong to.
TraceInfo == [trace : Number, meta : Message]

\* The memset of the constructor: no message has number 0.
NoMessage == [number |-> 0, kind |-> "normal"]
Blank     == [trace |-> 0, meta |-> NoMessage]

-----------------------------------------------------------------------------
Incremented_Saturating(p) == IF p = PosMod - 1 THEN p ELSE p + 1

\* ++pos on an unsigned long.
Incremented(p) == IF p = PosMod - 1 THEN 0 ELSE p + 1

\* a - b on unsigned longs.
Minus(a, b) == IF a >= b THEN a - b ELSE (a + PosMod) - b

\* _insertPos - _retrievePos
toCollect == Minus(insertPos, retrievePos)

Running == pc[Collector] # "exited"     \* nothing moves after exit(1)

Goto(t, label) == pc' = [pc EXCEPT ![t] = label]

\* The pool is constructed and the collector has started.
Init ==
  /\ position = 0 /\ insertPos = PosMod - 1 /\ retrievePos = PosMod - 1
  /\ freeSem = BufferSize /\ fullSem = 0
  /\ buffer = [s \in Slot |-> Blank]
  /\ threadToClose = FALSE /\ listMutex = NoThread
  /\ pc = [t \in Threads |-> IF t = Collector THEN "test" ELSE "idle"]
  /\ msg = [t \in Threads |-> NoMessage]
  /\ mypos = [t \in Threads |-> 0]
  /\ aTrace = Blank /\ printed = <<>>

-----------------------------------------------------------------------------
(* insert()                                                                *)

\* The message number is taken first, so it can differ from the order of the
\* buffers.
BeginInsert(t, k) ==
  /\ position' = position + 1
  /\ msg' = [msg EXCEPT ![t] = [number |-> position + 1, kind |-> k]]
  /\ Goto(t, "wait free")

\* A thread of the program traces.
Trace(t) ==
  /\ pc[t] = "idle"
  /\ position < MaxMessages
  /\ pc[Closer] # "closed"
  /\ QuiescentClose => ~ threadToClose
  /\ \E k \in Kinds : BeginInsert(t, k)
  /\ UNCHANGED <<insertPos, retrievePos, freeSem, fullSem, buffer,
                 threadToClose, listMutex, mypos, aTrace, printed>>

WaitFree_NotTaken(t) ==
  /\ pc[t] = "wait free" /\ freeSem > 0
  /\ Goto(t, "claim")
  /\ UNCHANGED <<position, insertPos, retrievePos, freeSem, fullSem, buffer,
                 threadToClose, listMutex, msg, mypos, aTrace, printed>>

\* sem_wait(&_freeBufferSemaphore)
WaitFree(t) ==
  /\ pc[t] = "wait free" /\ freeSem > 0
  /\ freeSem' = freeSem - 1
  /\ Goto(t, "claim")
  /\ UNCHANGED <<position, insertPos, retrievePos, fullSem, buffer,
                 threadToClose, listMutex, msg, mypos, aTrace, printed>>

\* lockedIncrement(_insertPos)
Claim(t) ==
  /\ pc[t] = "claim"
  /\ insertPos' = Incremented(insertPos)
  /\ mypos' = [mypos EXCEPT ![t] = Incremented(insertPos)]
  /\ Goto(t, "fill text")
  /\ UNCHANGED <<position, retrievePos, freeSem, fullSem, buffer,
                 threadToClose, listMutex, msg, aTrace, printed>>

\* strncpy into the buffer
FillText(t) ==
  /\ pc[t] = "fill text"
  /\ buffer' = [buffer EXCEPT ![mypos[t] % BufferSize].trace = msg[t].number]
  /\ Goto(t, "fill meta")
  /\ UNCHANGED <<position, insertPos, retrievePos, freeSem, fullSem,
                 threadToClose, listMutex, msg, mypos, aTrace, printed>>

\* threadId, traceType and position of the buffer
FillMeta(t) ==
  /\ pc[t] = "fill meta"
  /\ buffer' = [buffer EXCEPT ![mypos[t] % BufferSize].meta = msg[t]]
  /\ Goto(t, "post")
  /\ UNCHANGED <<position, insertPos, retrievePos, freeSem, fullSem,
                 threadToClose, listMutex, msg, mypos, aTrace, printed>>

\* sem_post(&_fullBufferSemaphore) and return to whoever called insert: the
\* program, ~LocalTraceCollector on its way to pthread_join, or the same
\* destructor run by exit(1) in the collector, whose pthread_join on itself
\* fails at once and lets the process end.
Post(t) ==
  /\ pc[t] = "post"
  /\ fullSem' = fullSem + 1
  /\ Goto(t, CASE t = Collector                  -> "exited"
               [] t = Closer /\ listMutex = Closer -> "join"
               [] OTHER                           -> "idle")
  /\ UNCHANGED <<position, insertPos, retrievePos, freeSem, buffer,
                 threadToClose, listMutex, msg, mypos, aTrace, printed>>

Insert(t) == \/ WaitFree(t) \/ Claim(t) \/ FillText(t) \/ FillMeta(t)
             \/ Post(t)

-----------------------------------------------------------------------------
(* The collector: LocalTraceCollector::run and retrieve()                  *)

Test_NoDrain ==
  /\ pc[Collector] = "test"
  /\ Goto(Collector, IF threadToClose THEN "ended" ELSE "wait full")
  /\ UNCHANGED <<position, insertPos, retrievePos, freeSem, fullSem, buffer,
                 threadToClose, listMutex, msg, mypos, aTrace, printed>>

\* while (!_threadToClose || toCollect())
Test ==
  /\ pc[Collector] = "test"
  /\ Goto(Collector,
          IF threadToClose /\ toCollect = 0 THEN "ended" ELSE "wait full")
  /\ UNCHANGED <<position, insertPos, retrievePos, freeSem, fullSem, buffer,
                 threadToClose, listMutex, msg, mypos, aTrace, printed>>

\* sem_wait(&_fullBufferSemaphore)
WaitFull ==
  /\ pc[Collector] = "wait full" /\ fullSem > 0
  /\ fullSem' = fullSem - 1
  /\ Goto(Collector, "advance")
  /\ UNCHANGED <<position, insertPos, retrievePos, freeSem, buffer,
                 threadToClose, listMutex, msg, mypos, aTrace, printed>>

\* lockedIncrement(_retrievePos)
Advance ==
  /\ pc[Collector] = "advance"
  /\ retrievePos' = Incremented(retrievePos)
  /\ mypos' = [mypos EXCEPT ![Collector] = Incremented(retrievePos)]
  /\ Goto(Collector, "copy")
  /\ UNCHANGED <<position, insertPos, freeSem, fullSem, buffer,
                 threadToClose, listMutex, msg, aTrace, printed>>

\* memcpy of the buffer
Copy ==
  /\ pc[Collector] = "copy"
  /\ aTrace' = buffer[mypos[Collector] % BufferSize]
  /\ Goto(Collector, "release")
  /\ UNCHANGED <<position, insertPos, retrievePos, freeSem, fullSem, buffer,
                 threadToClose, listMutex, msg, mypos, printed>>

\* sem_post(&_freeBufferSemaphore)
Release ==
  /\ pc[Collector] = "release"
  /\ freeSem' = freeSem + 1
  /\ Goto(Collector, "print")
  /\ UNCHANGED <<position, insertPos, retrievePos, fullSem, buffer,
                 threadToClose, listMutex, msg, mypos, aTrace, printed>>

\* The output, and exit(1) after an ABORT_MESS.
PrintTrace ==
  /\ pc[Collector] = "print"
  /\ printed' = Append(printed, aTrace)
  /\ Goto(Collector, IF aTrace.meta.kind = "abort" THEN "exit" ELSE "test")
  /\ UNCHANGED <<position, insertPos, retrievePos, freeSem, fullSem, buffer,
                 threadToClose, listMutex, msg, mypos, aTrace>>

Retrieve == Test \/ WaitFull \/ Advance \/ Copy \/ Release \/ PrintTrace

-----------------------------------------------------------------------------
(* Deleting the pool                                                       *)

\* exit(1) runs HouseKeeping in the collector: deleteInstance takes
\* _listMutex, the destructors ask the collector to close and insert
\* "end of trace".  If the closer holds the mutex, the collector waits.
ExitProcess ==
  /\ pc[Collector] = "exit" /\ listMutex = NoThread
  /\ listMutex' = Collector
  /\ threadToClose' = TRUE
  /\ BeginInsert(Collector, "normal")
  /\ UNCHANGED <<insertPos, retrievePos, freeSem, fullSem, buffer, mypos,
                 aTrace, printed>>

Close_NoWakeUp ==
  /\ pc[Closer] = "idle" /\ listMutex = NoThread
  /\ QuiescentClose => \A p \in Producers : pc[p] = "idle"
  /\ listMutex' = Closer
  /\ threadToClose' = TRUE
  /\ Goto(Closer, "join")
  /\ UNCHANGED <<position, insertPos, retrievePos, freeSem, fullSem, buffer,
                 msg, mypos, aTrace, printed>>

\* deleteInstance by the program: the same destructors in the closer.
Close ==
  /\ pc[Closer] = "idle" /\ listMutex = NoThread
  /\ QuiescentClose => \A p \in Producers : pc[p] = "idle"
  /\ listMutex' = Closer
  /\ threadToClose' = TRUE
  /\ BeginInsert(Closer, "normal")
  /\ UNCHANGED <<insertPos, retrievePos, freeSem, fullSem, buffer, mypos,
                 aTrace, printed>>

\* pthread_join returns: the collector ended.
Join ==
  /\ pc[Closer] = "join" /\ pc[Collector] = "ended"
  /\ threadToClose' = FALSE
  /\ listMutex' = NoThread
  /\ Goto(Closer, "closed")
  /\ UNCHANGED <<position, insertPos, retrievePos, freeSem, fullSem, buffer,
                 msg, mypos, aTrace, printed>>

Stopped == pc[Closer] = "closed" \/ ~ Running

\* The program is over.
Terminating == Stopped /\ UNCHANGED vars

-----------------------------------------------------------------------------
ThreadStep(t) == Running /\ (Insert(t) \/ (t \in Producers /\ Trace(t)))

CollectorStep == Running /\ (Retrieve \/ ExitProcess \/ Insert(Collector))

CloserStep == Running /\ (Close \/ Join)

Next == \/ \E p \in Producers : ThreadStep(p)
        \/ CollectorStep
        \/ CloserStep
        \/ Terminating

Spec == Init /\ [][Next]_vars

\* Every thread is scheduled once it can go on, and the program ends by
\* deleting the pool; nothing obliges it to trace.
FairSpec == /\ Spec
            /\ \A p \in Producers : WF_vars(Running /\ Insert(p))
            /\ WF_vars(CollectorStep)
            /\ WF_vars(CloserStep)

-----------------------------------------------------------------------------
(* Properties                                                              *)

Labels == {"idle", "wait free", "claim", "fill text", "fill meta", "post",
           "join", "closed", "test", "wait full", "advance", "copy",
           "release", "print", "exit", "exited", "ended"}

\* Semaphores never exceed the pool, and positions stay unsigned longs.
TypeOK ==
  /\ position \in Number
  /\ insertPos \in Position /\ retrievePos \in Position
  /\ freeSem \in 0 .. BufferSize /\ fullSem \in 0 .. BufferSize
  /\ buffer \in [Slot -> TraceInfo]
  /\ threadToClose \in BOOLEAN
  /\ listMutex \in {NoThread, Closer, Collector}
  /\ pc \in [Threads -> Labels]
  /\ msg \in [Threads -> Message]
  /\ mypos \in [Threads -> Position]
  /\ aTrace \in TraceInfo
  /\ printed \in Seq(TraceInfo)

\* Where a thread holds a buffer taken from the free ones, where it has been
\* given a position for it, where the collector holds a full one, and where it
\* has not counted it as retrieved yet.
HoldingAt    == {"claim", "fill text", "fill meta", "post"}
ClaimedAt    == HoldingAt \ {"claim"}
RetrievingAt == {"advance", "copy", "release"}
AdvancingAt  == {"advance"}

NumAt(labels) == Cardinality({t \in Threads : pc[t] \in labels})

\* Every buffer of the pool is free, full, or in the hands of exactly one
\* insert() or retrieve() in progress: none is lost or counted twice by the
\* two semaphores, whatever the threads interleave.
TokensConserved ==
  freeSem + fullSem + NumAt(HoldingAt) + NumAt(RetrievingAt) = BufferSize

\* toCollect(), computed without a lock from two counters that wrap, counts
\* the buffers claimed by insert() and not yet taken by retrieve(): it never
\* underflows and never passes the size of the pool.
ToCollectExact ==
  /\ toCollect = fullSem + NumAt(ClaimedAt) + NumAt(AdvancingAt)
  /\ toCollect <= BufferSize

\* When deleteInstance returns, every message of the program has been
\* printed; only "end of trace" may be left in the pool.
DrainedBeforeClose ==
  pc[Closer] = "closed" => Len(printed) \in {position - 1, position}

\* deleteInstance returns: the collector sees the request to close, unless an
\* abort message has sent it to exit(1) instead.
CloseEnds ==
  (pc[Closer] = "join") ~> (pc[Closer] = "closed" \/ pc[Collector] = "exit")

\* Every message traced before the pool is deleted is printed.
EveryTracePrinted ==
  \A n \in 1 .. MaxMessages :
    (position >= n /\ listMutex = NoThread /\ pc[Closer] # "closed")
      ~> \E i \in DOMAIN printed : printed[i].trace = n

\* What the collector prints is one message, whole, that insert() had put in
\* the pool.  Two threads that trace break it.
PrintsWholeMessages ==
  \A i \in DOMAIN printed : /\ printed[i].trace # 0
                            /\ printed[i].trace = printed[i].meta.number

\* "If type = ABORT then exit application with message": once the message is
\* out the process ends.  A thread deleting the pool meanwhile breaks it.
AbortEndsProcess == (pc[Collector] = "exit") ~> ~ Running

\* The pool as the queue of the messages posted and not copied yet; what the
\* collector holds counts as taken.
PendingQueue ==
  [i \in 1 .. fullSem + (IF pc[Collector] \in {"advance", "copy"} THEN 1 ELSE 0) |->
     LET skip == IF pc[Collector] = "copy" THEN i - 1 ELSE i
     IN  buffer[(retrievePos + skip) % BufferSize]]

Taken == IF pc[Collector] \in {"release", "print"} THEN Append(printed, aTrace)
                                                  ELSE printed

\* Everything that may be traced: the program's messages, and the last one.
Traced == {[trace |-> n, meta |-> [number |-> n, kind |-> k]] :
             n \in 1 .. MaxMessages + 1, k \in Kind}

Queue == INSTANCE TraceQueue WITH Message <- Traced, Capacity <- BufferSize,
                                  queue <- PendingQueue, taken <- Taken

\* With one thread tracing, the pool is a bounded first-in first-out queue,
\* across the wrap of the positions.
FirstInFirstOut == Queue!Spec

\* ... and the message at each place is the one traced at that place.
PrintedInOrder ==
  \A i \in DOMAIN printed : printed[i].trace = i /\ printed[i].meta.number = i
=============================================================================
