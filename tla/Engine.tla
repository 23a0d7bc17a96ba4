------------------------------- MODULE Engine -------------------------------
(***************************************************************************)
(* The engine behind an AssetImageGenerator: one worker thread delivering  *)
(* queued batches item by item, any number of client threads calling       *)
(* imageAt(), generateImages(), cancel(), cancelAll(), wait(), waitFor()   *)
(* and close(), and completion handlers that call back in on the worker.   *)
(*                                                                         *)
(* A critical section of queueMutex (or of a batch's mutex) that does not  *)
(* wait is one step; a store to an atomic, a notification and the use of   *)
(* decoderMutex are steps of their own.  A thread blocked in a condition   *)
(* variable is in `asleep`; it waits on queueCv, turnCv or the doneCv of a *)
(* batch according to where its program counter stands.                    *)
(***************************************************************************)
EXTENDS Naturals, Sequences, FiniteSets

CONSTANTS
  Clients,          \* application threads
  Worker,           \* the engine's worker thread
  Batches,          \* the generateImages() calls that may be made
  Size,             \* Size[b]: number of requested times of batch b
  None,             \* no batch, no thread
  Ops,              \* Ops[t]: the calls thread t makes (the worker: its handlers)
  MaxHandlerOps,    \* bound: calls made by one invocation of a handler
  CallsDuringClose  \* may clients be inside the generator while one closes it?

Threads == Clients \cup {Worker}

OpNames == {"imageAt", "generateImages", "cancel", "cancelAll", "close", "wait", "waitFor"}

ASSUME ThreadsAssumption == Worker \notin Clients /\ None \notin Threads
ASSUME BatchesAssumption == None \notin Batches /\ Size \in [Batches -> Nat]
ASSUME OpsAssumption == Ops \in [Threads -> SUBSET OpNames] /\ MaxHandlerOps \in Nat
ASSUME CloseAssumption == CallsDuringClose \in BOOLEAN

VARIABLES
  queue,        \* Engine::queue, the batches still holding undispatched items
  current,      \* Engine::current, the batch of the item in progress
  stopping, stopFlag, workerDone,
  workerTurn,   \* the worker has claimed the decoder for its next item
  syncWaiters,  \* synchronous callers waiting for the decoder
  decoder,      \* holder of decoderMutex
  next, completed, cancelled, handler,  \* fields of each Batch
  status,       \* what generateImages() did with each batch
  engine,       \* AssetImageGenerator::engine
  wpc, batch, index, result, claimedTurn,  \* the worker in run(), and its locals
  pc, arg,      \* each thread's call in progress, and the batch it waits on
  handlerOps,   \* calls made so far by the running handler
  asleep,       \* threads blocked in a condition variable
  delivered, published  \* history: completions of each batch; batches in queue order

queueVars   == <<queue, current, workerDone>>
stopVars    == <<stopping, stopFlag>>
turnVars    == <<workerTurn, claimedTurn>>
decoderVars == <<syncWaiters, decoder>>
batchVars   == <<next, completed, cancelled, handler, status>>
itemVars    == <<batch, index, result>>
callVars    == <<pc, arg, handlerOps, engine>>
history     == <<delivered, published>>

vars == <<queueVars, stopVars, turnVars, decoderVars, batchVars, itemVars, callVars,
          history, wpc, asleep>>

Statuses == {"succeeded", "failed", "cancelled"}

-----------------------------------------------------------------------------

\* open() has returned: the worker is started and has nothing to do.
Init ==
  /\ queue = <<>> /\ current = None /\ workerDone = FALSE
  /\ stopping = FALSE /\ stopFlag = FALSE
  /\ workerTurn = FALSE /\ claimedTurn = FALSE
  /\ syncWaiters = 0 /\ decoder = None
  /\ next = [b \in Batches |-> 0] /\ completed = [b \in Batches |-> 0]
  /\ cancelled = [b \in Batches |-> FALSE]
  /\ handler = [b \in Batches |-> "held"]
  /\ status = [b \in Batches |-> "unused"]
  /\ batch = None /\ index = 0 /\ result = "cancelled"
  /\ pc = [t \in Threads |-> "idle"] /\ arg = [t \in Threads |-> None]
  /\ handlerOps = 0 /\ engine = "held"
  /\ delivered = [b \in Batches |-> <<>>] /\ published = <<>>
  /\ wpc = "defer" /\ asleep = {}

Awake(t) == t \notin asleep

InQueue(b) == \E i \in DOMAIN queue : queue[i] = b

Finished(b) == completed[b] >= Size[b]

\* CancelToken{ &batch->cancelled, &stopFlag } of the item in progress.
TokenRequested == cancelled[batch] \/ stopFlag

IsLast == index + 1 = Size[batch]

NoWakeUp == UNCHANGED asleep  \* mutant: a notification left out

\* notify_one() and notify_all() on queueCv: only the worker ever waits there.
WakeQueueCv == asleep' = asleep \ (IF wpc \in {"defer", "take"} THEN {Worker} ELSE {})

\* mutant: notify_one() where several callers may be parked
WakeOneTurnCv ==
  asleep' \in {asleep \ {t} : t \in {u \in asleep : pc[u] = "turn"}}
              \cup {S \in {asleep} : \A u \in asleep : pc[u] # "turn"}

WakeTurnCv == asleep' = asleep \ {t \in Threads : pc[t] = "turn"}

WakeNobody(b) == UNCHANGED asleep  \* mutant

WakeDoneCv(b) == asleep' = asleep \ {t \in Threads : pc[t] = "wait" /\ arg[t] = b}

\* mutant: the batch whose last item is in hand is forgotten
CancelQueuedOnly == cancelled' = [b \in Batches |-> cancelled[b] \/ InQueue(b)]

\* Cancels every batch that still has an item to deliver (cancelAll, requestStop).
CancelQueued == cancelled' = [b \in Batches |-> cancelled[b] \/ InQueue(b) \/ b = current]

-----------------------------------------------------------------------------
(* The worker: Engine::run().  Run(from, to) is the frame of its steps.    *)

Run(from, to) ==
  /\ wpc = from /\ wpc' = to
  /\ UNCHANGED <<stopVars, syncWaiters, cancelled, status, pc, arg, engine, published>>

NoSyncWaitersIgnoringStop == syncWaiters = 0  \* mutant

NoSyncWaiters == stopping \/ syncWaiters = 0

\* The wait_for at the top of the loop: entered, or re-evaluated after a wake-up
\* (the queue cannot have become empty meanwhile: only the worker pops it).
StopDeferring ==
  /\ Run("defer", "take") /\ Awake(Worker)
  /\ queue = <<>> \/ NoSyncWaiters
  /\ UNCHANGED <<queueVars, turnVars, decoder, next, completed, handler, itemVars,
                 handlerOps, delivered, asleep>>

DeferToSyncCallers ==
  /\ Run("defer", "defer") /\ Awake(Worker)
  /\ queue # <<>> /\ ~NoSyncWaiters
  /\ asleep' = asleep \cup {Worker}
  /\ UNCHANGED <<queueVars, turnVars, decoder, next, completed, handler, itemVars,
                 handlerOps, delivered>>

\* syncPriorityLimit elapsed: the predicate is evaluated once more, and when it is
\* still false the worker claims a turn.
DeferTimeout ==
  /\ Run("defer", "take") /\ ~Awake(Worker)
  /\ asleep' = asleep \ {Worker}
  /\ workerTurn' = (workerTurn \/ ~NoSyncWaiters)
  /\ claimedTurn' = ~NoSyncWaiters
  /\ UNCHANGED <<queueVars, decoder, next, completed, handler, itemVars, handlerOps, delivered>>

OffByOne(b) == next[b] + 1 > Size[b]  \* mutant: compares before the increment
RoundRobin(b) == TRUE                  \* mutant: off the queue after every item

\* Dispatching the next item of b leaves none: b comes off the queue.
Exhausted(b) == next[b] + 1 >= Size[b]

Dispatch ==
  /\ Run("take", "check") /\ Awake(Worker) /\ queue # <<>>
  /\ LET b == Head(queue) IN
       /\ batch' = b /\ current' = b
       /\ index' = next[b]
       /\ next' = [next EXCEPT ![b] = @ + 1]
       /\ queue' = IF Exhausted(b) THEN Tail(queue) ELSE queue
  /\ UNCHANGED <<workerDone, turnVars, decoder, completed, handler, result, handlerOps,
                 delivered, asleep>>

FindNothing ==
  /\ Run("take", "release") /\ Awake(Worker) /\ queue = <<>> /\ stopping
  /\ UNCHANGED <<queueVars, turnVars, decoder, next, completed, handler, itemVars,
                 handlerOps, delivered, asleep>>

WaitForWork ==
  /\ Run("take", "take") /\ Awake(Worker) /\ queue = <<>> /\ ~stopping
  /\ asleep' = asleep \cup {Worker}
  /\ UNCHANGED <<queueVars, turnVars, decoder, next, completed, handler, itemVars,
                 handlerOps, delivered>>

CheckToken ==
  /\ Run("check", IF TokenRequested THEN "release" ELSE "lock")
  /\ result' = "cancelled"
  /\ UNCHANGED <<queueVars, turnVars, decoder, next, completed, handler, batch, index,
                 handlerOps, delivered, asleep>>

TakeDecoder ==
  /\ Run("lock", "decode") /\ decoder = None
  /\ decoder' = Worker
  /\ UNCHANGED <<queueVars, turnVars, next, completed, handler, itemVars, handlerOps,
                 delivered, asleep>>

\* mutant: current is reset with the decoder, before the delivery
DecodeAndForget ==
  /\ Run("decode", "release")
  /\ \E r \in Statuses : (r = "cancelled" => TokenRequested) /\ result' = r
  /\ decoder' = None /\ current' = None
  /\ UNCHANGED <<queue, workerDone, turnVars, next, completed, handler, batch, index, handlerOps,
                 delivered, asleep>>

\* pipeline->imageAt(): a cancellation that arrives meanwhile may or may not be seen.
Decode ==
  /\ Run("decode", "release")
  /\ \E r \in Statuses : (r = "cancelled" => TokenRequested) /\ result' = r
  /\ decoder' = None
  /\ UNCHANGED <<queueVars, turnVars, next, completed, handler, batch, index, handlerOps,
                 delivered, asleep>>

AfterRelease == IF batch = None THEN "empty" ELSE "deliver"

\* mutant: the turn is kept until the loop comes round
KeepTurn ==
  /\ Run("release", AfterRelease)
  /\ UNCHANGED <<queueVars, turnVars, decoder, next, completed, handler, itemVars, handlerOps,
                 delivered, asleep>>

ReleaseTurn ==
  /\ Run("release", IF claimedTurn THEN "notifyTurn" ELSE AfterRelease)
  /\ claimedTurn' = FALSE
  /\ workerTurn' = (workerTurn /\ ~claimedTurn)
  /\ UNCHANGED <<queueVars, decoder, next, completed, handler, itemVars, handlerOps,
                 delivered, asleep>>

NotifyTurn ==
  /\ Run("notifyTurn", AfterRelease) /\ WakeTurnCv
  /\ UNCHANGED <<queueVars, turnVars, decoder, next, completed, handler, itemVars,
                 handlerOps, delivered>>

Deliver ==
  /\ Run("deliver", "handler")
  /\ delivered' = [delivered EXCEPT ![batch] = Append(@, [index |-> index, status |-> result])]
  /\ handlerOps' = 0
  /\ UNCHANGED <<queueVars, turnVars, decoder, next, completed, handler, itemVars, asleep>>

HandlerKept == UNCHANGED handler  \* mutant: the reset is left out

ResetHandler == handler' = IF IsLast THEN [handler EXCEPT ![batch] = "destroyed"] ELSE handler

HandlerReturns ==
  /\ Run("handler", "account") /\ pc[Worker] = "idle"
  /\ ResetHandler
  /\ UNCHANGED <<queueVars, turnVars, decoder, next, completed, itemVars, handlerOps,
                 delivered, asleep>>

Account ==
  /\ Run("account", IF IsLast THEN "notifyDone" ELSE "forget")
  /\ completed' = [completed EXCEPT ![batch] = @ + 1]
  /\ UNCHANGED <<queueVars, turnVars, decoder, next, handler, itemVars, handlerOps,
                 delivered, asleep>>

NotifyDone ==
  /\ Run("notifyDone", "forget") /\ WakeDoneCv(batch)
  /\ UNCHANGED <<queueVars, turnVars, decoder, next, completed, handler, itemVars,
                 handlerOps, delivered>>

Forget ==
  /\ Run("forget", "defer")
  /\ current' = IF current = batch THEN None ELSE current
  /\ batch' = None
  /\ UNCHANGED <<queue, workerDone, turnVars, decoder, next, completed, handler, index,
                 result, handlerOps, delivered, asleep>>

Drained == queue = <<>>

\* Woken with an empty queue: spin until stopFlag is set too, then leave unless
\* something was queued meanwhile.
SpinOrDrain ==
  /\ Run("empty", "defer") /\ (~stopFlag \/ ~Drained)
  /\ UNCHANGED <<queueVars, turnVars, decoder, next, completed, handler, itemVars,
                 handlerOps, delivered, asleep>>

Exit ==
  /\ Run("empty", "exited") /\ stopFlag /\ Drained
  /\ workerDone' = TRUE
  /\ UNCHANGED <<queue, current, turnVars, decoder, next, completed, handler, itemVars,
                 handlerOps, delivered, asleep>>

-----------------------------------------------------------------------------
(* Calls on the generator and on request handles.                          *)

Closing(t) == pc[t] \in {"stop", "raise", "wake", "join"}

InEngine(t) == pc[t] \in {"announce", "turn", "lock", "leave", "notify", "decode", "notifyOne"}

\* The last shared_ptr to the engine is gone: the generator's and the worker's.
EngineFreed == engine = "null" /\ wpc = "exited"

GeneratorOps == {"imageAt", "generateImages", "cancelAll", "close"}

\* Thread t may begin a call: a client at any time, the worker from inside a handler.
Begin(t, op, to) ==
  /\ pc[t] = "idle" /\ op \in Ops[t]
  /\ t = Worker => wpc = "handler" /\ handlerOps < MaxHandlerOps
  /\ t \in Clients /\ op \in GeneratorOps /\ ~CallsDuringClose => \A u \in Threads : ~Closing(u)
  /\ handlerOps' = IF t = Worker THEN handlerOps + 1 ELSE handlerOps
  /\ pc' = [pc EXCEPT ![t] = to]
  /\ UNCHANGED <<current, workerDone, stopVars, turnVars, decoderVars, next, itemVars, engine,
                 delivered, wpc, asleep>>

\* A step inside a call.  A caller still in a freed engine is in undefined behaviour:
\* it goes no further.
Move(t, from, to) ==
  /\ pc[t] = from /\ Awake(t)
  /\ ~(t \in Clients /\ InEngine(t) /\ EngineFreed)
  /\ pc' = [pc EXCEPT ![t] = to]
  /\ UNCHANGED <<queueVars, claimedTurn, next, completed, handler, status, itemVars,
                 handlerOps, history, wpc>>

CallImageAt(t) ==
  /\ Begin(t, "imageAt", "announce")
  /\ engine = "held" /\ ~stopFlag
  /\ UNCHANGED <<queue, completed, cancelled, handler, status, arg, published>>

Announce(t) ==
  /\ Move(t, "announce", "turn")
  /\ syncWaiters' = syncWaiters + 1
  /\ UNCHANGED <<stopVars, workerTurn, decoder, cancelled, arg, engine, asleep>>

PassAlways == TRUE  \* mutant: arriving callers ignore the turn

MayPassTurn == ~workerTurn \/ stopFlag

PassTurn(t) ==
  /\ Move(t, "turn", "lock") /\ MayPassTurn
  /\ UNCHANGED <<stopVars, workerTurn, decoderVars, cancelled, arg, engine, asleep>>

ParkOnTurn(t) ==
  /\ Move(t, "turn", "turn") /\ ~MayPassTurn
  /\ asleep' = asleep \cup {t}
  /\ UNCHANGED <<stopVars, workerTurn, decoderVars, cancelled, arg, engine>>

LockDecoder(t) ==
  /\ Move(t, "lock", "leave") /\ decoder = None
  /\ decoder' = t
  /\ UNCHANGED <<stopVars, workerTurn, syncWaiters, cancelled, arg, engine, asleep>>

LeaveWaiters(t) ==
  /\ Move(t, "leave", "notify")
  /\ syncWaiters' = syncWaiters - 1
  /\ UNCHANGED <<stopVars, workerTurn, decoder, cancelled, arg, engine, asleep>>

NotifyWorker(t) ==
  /\ Move(t, "notify", "decode") /\ WakeQueueCv
  /\ UNCHANGED <<stopVars, workerTurn, decoderVars, cancelled, arg, engine>>

FinishImageAt(t) ==
  /\ Move(t, "decode", "idle")
  /\ decoder' = None
  /\ UNCHANGED <<stopVars, workerTurn, syncWaiters, cancelled, arg, engine, asleep>>

\* No engine, no times, or a worker that has left: finished without its handler.
GenerateNothing(t, b) ==
  /\ Begin(t, "generateImages", "idle") /\ status[b] = "unused"
  /\ engine = "null" \/ Size[b] = 0 \/ workerDone
  /\ status' = [status EXCEPT ![b] = "refused"]
  /\ completed' = [completed EXCEPT ![b] = Size[b]]
  /\ handler' = [handler EXCEPT ![b] = "destroyed"]
  /\ UNCHANGED <<queue, cancelled, arg, published>>

GenerateImages(t, b) ==
  /\ Begin(t, "generateImages", "notifyOne") /\ status[b] = "unused"
  /\ engine = "held" /\ Size[b] # 0 /\ ~workerDone
  /\ status' = [status EXCEPT ![b] = "published"]
  /\ queue' = Append(queue, b) /\ published' = Append(published, b)
  /\ UNCHANGED <<completed, cancelled, handler, arg>>

NotifyOne(t) ==
  /\ Move(t, "notifyOne", "idle") /\ WakeQueueCv
  /\ UNCHANGED <<stopVars, workerTurn, decoderVars, cancelled, arg, engine>>

\* AsyncRequest::cancel(), and Completion::cancelBatch() from the batch's own handler.
Cancel(t, b) ==
  /\ Begin(t, "cancel", "idle") /\ status[b] = "published"
  /\ cancelled' = [cancelled EXCEPT ![b] = TRUE]
  /\ UNCHANGED <<queue, completed, handler, status, arg, published>>

CancelAll(t) ==
  /\ Begin(t, "cancelAll", "idle") /\ engine = "held"
  /\ CancelQueued
  /\ UNCHANGED <<queue, completed, handler, status, arg, published>>

\* wait() and waitFor() on the handle of b, refused on the worker at once.
Wait(t, b) ==
  /\ \E op \in {"wait", "waitFor"} : Begin(t, op, IF t = Worker THEN "idle" ELSE "wait")
  /\ status[b] # "unused"
  /\ arg' = [arg EXCEPT ![t] = b]
  /\ UNCHANGED <<queue, completed, cancelled, handler, status, published>>

ReturnFromWait(t) ==
  /\ Move(t, "wait", "idle") /\ Finished(arg[t])
  /\ UNCHANGED <<stopVars, workerTurn, decoderVars, cancelled, arg, engine, asleep>>

ParkOnDone(t) ==
  /\ Move(t, "wait", "wait") /\ ~Finished(arg[t])
  /\ asleep' = asleep \cup {t}
  /\ UNCHANGED <<stopVars, workerTurn, decoderVars, cancelled, arg, engine>>

WaitTimeout(t) ==
  /\ pc[t] = "wait" /\ ~Awake(t) /\ "waitFor" \in Ops[t]
  /\ asleep' = asleep \ {t} /\ pc' = [pc EXCEPT ![t] = "idle"]
  /\ UNCHANGED <<queueVars, stopVars, turnVars, decoderVars, batchVars, itemVars, arg,
                 handlerOps, engine, history, wpc>>

-----------------------------------------------------------------------------
(* close(): requestStop(), then join (or detach on the worker), then reset. *)

Close(t) ==
  /\ Begin(t, "close", "stop") /\ engine = "held"
  /\ \A u \in Threads : ~Closing(u)
  /\ ~CallsDuringClose => \A u \in Clients : ~InEngine(u)
  /\ UNCHANGED <<queue, completed, cancelled, handler, status, arg, published>>

RequestStop(t) ==
  /\ Move(t, "stop", "raise")
  /\ stopping' = TRUE /\ workerTurn' = FALSE
  /\ CancelQueued
  /\ UNCHANGED <<stopFlag, decoderVars, arg, engine, asleep>>

RaiseStopFlag(t) ==
  /\ Move(t, "raise", "wake")
  /\ stopFlag' = TRUE
  /\ UNCHANGED <<stopping, workerTurn, decoderVars, cancelled, arg, engine, asleep>>

\* mutant: the worker is not notified
WakeCallersOnly(t) ==
  /\ Move(t, "wake", "join")
  /\ asleep' = {u \in asleep : pc[u] # "turn"}
  /\ UNCHANGED <<stopVars, workerTurn, decoderVars, cancelled, arg, engine>>

\* Both notify_all() calls.
WakeAll(t) ==
  /\ Move(t, "wake", "join")
  /\ asleep' = {u \in asleep : pc[u] = "wait"}
  /\ UNCHANGED <<stopVars, workerTurn, decoderVars, cancelled, arg, engine>>

\* join() has returned, or the worker closes from a handler and detaches itself.
Joined(t) == t = Worker \/ wpc = "exited"

JoinAndReset(t) ==
  /\ Move(t, "join", "idle")
  /\ Joined(t)
  /\ engine' = "null"
  /\ UNCHANGED <<stopVars, workerTurn, decoderVars, cancelled, arg, asleep>>

-----------------------------------------------------------------------------

WorkerStep ==
  \/ StopDeferring \/ DeferToSyncCallers \/ DeferTimeout
  \/ Dispatch \/ FindNothing \/ WaitForWork
  \/ CheckToken \/ TakeDecoder \/ Decode
  \/ ReleaseTurn \/ NotifyTurn \/ Deliver \/ HandlerReturns
  \/ Account \/ NotifyDone \/ Forget \/ SpinOrDrain \/ Exit

BeginCall(t) ==
  \/ CallImageAt(t) \/ CancelAll(t) \/ Close(t)
  \/ \E b \in Batches : GenerateImages(t, b) \/ GenerateNothing(t, b) \/ Cancel(t, b) \/ Wait(t, b)

ImageAtStep(t) ==
  \/ Announce(t) \/ PassTurn(t) \/ ParkOnTurn(t) \/ LockDecoder(t)
  \/ LeaveWaiters(t) \/ NotifyWorker(t) \/ FinishImageAt(t)

CallStep(t) ==
  \/ ImageAtStep(t) \/ NotifyOne(t) \/ ReturnFromWait(t) \/ ParkOnDone(t)
  \/ RequestStop(t) \/ RaiseStopFlag(t) \/ WakeAll(t) \/ JoinAndReset(t)

\* The standard lets a condition variable wake a thread nobody notified.
SpuriousWake(t) ==
  /\ t \in asleep
  /\ asleep' = asleep \ {t}
  /\ UNCHANGED <<queueVars, stopVars, turnVars, decoderVars, batchVars, itemVars, callVars,
                 history, wpc>>

\* Nothing is under way and nothing is owed: the program may stay here for ever.
Quiescent ==
  /\ wpc = "exited" \/ (wpc = "take" /\ queue = <<>> /\ ~stopping)
  /\ \A t \in Clients : pc[t] = "idle" \/ (EngineFreed /\ InEngine(t))

Idle == Quiescent /\ UNCHANGED vars

Next ==
  \/ WorkerStep
  \/ \E t \in Threads : BeginCall(t) \/ CallStep(t) \/ WaitTimeout(t) \/ SpuriousWake(t)
  \/ Idle

Spec == Init /\ [][Next]_vars

\* Threads run, started calls and handlers go on, and the worker's deadline passes however
\* often it is woken before; nothing says who gets a mutex two threads compete for
\* (std::mutex is not fair).
Fairness ==
  WF_vars(WorkerStep) /\ SF_vars(DeferTimeout) /\ \A t \in Threads : WF_vars(CallStep(t))

FairSpec == Spec /\ Fairness

\* What it takes of decoderMutex for nobody to lose it for ever.
DecoderIsFair == SF_vars(TakeDecoder) /\ \A t \in Threads : SF_vars(LockDecoder(t))

=============================================================================
