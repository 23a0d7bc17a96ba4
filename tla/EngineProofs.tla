---------------------------- MODULE EngineProofs ----------------------------
(***************************************************************************)
(* Proofs about Engine, for any number of clients, batches and items.      *)
(***************************************************************************)
EXTENDS EngineProperties, FiniteSetTheorems, TLAPS

\* Every variable keeps its type: TypeOK without the bounds by Size, which need the
\* accounting below.
Typed ==
  /\ queue \in Seq(Batches) /\ current \in Batches \cup {None}
  /\ workerDone \in BOOLEAN /\ stopping \in BOOLEAN /\ stopFlag \in BOOLEAN
  /\ workerTurn \in BOOLEAN /\ claimedTurn \in BOOLEAN
  /\ syncWaiters \in Int /\ decoder \in Threads \cup {None}
  /\ next \in [Batches -> Nat] /\ completed \in [Batches -> Nat]
  /\ cancelled \in [Batches -> BOOLEAN] /\ handler \in [Batches -> {"held", "destroyed"}]
  /\ status \in [Batches -> {"unused", "published", "refused"}]
  /\ batch \in Batches \cup {None} /\ index \in Nat /\ result \in Statuses
  /\ pc \in [Threads -> CallLocs] /\ arg \in [Threads -> Batches \cup {None}]
  /\ handlerOps \in 0..MaxHandlerOps /\ engine \in {"held", "null"}
  /\ wpc \in WorkerLocs /\ asleep \in SUBSET Threads
  /\ delivered \in [Batches -> Seq(CompletionRecord)] /\ published \in Seq(Batches)

-----------------------------------------------------------------------------
(* The accounting of items.                                                *)

\* Where the worker holds an item it has not delivered, or not yet counted.
Undelivered == {"check", "lock", "decode", "release", "notifyTurn", "deliver"}
Uncounted   == Undelivered \cup {"handler", "account"}

\* The worker has a batch in hand exactly between dispatching an item and forgetting it.
InHandOK ==
  /\ wpc \in {"check", "lock", "decode", "deliver", "handler", "account", "notifyDone", "forget"}
       => batch # None
  /\ wpc \in {"defer", "take", "empty", "exited"} => batch = None
  /\ batch # None => /\ status[batch] = "published"
                     /\ next[batch] = index + 1
                     /\ current = batch

\* The queue holds the batches with items left to dispatch, once each.
QueueOK ==
  /\ \A i \in 1..Len(queue) :
       /\ status[queue[i]] = "published"
       /\ next[queue[i]] < Size[queue[i]]
  /\ \A i, j \in 1..Len(queue) : queue[i] = queue[j] => i = j
  /\ \A b \in Batches :
       status[b] = "published" /\ next[b] < Size[b] => \E i \in 1..Len(queue) : queue[i] = b

InHand(b, locs) == batch = b /\ wpc \in locs

\* For each batch: what was dispatched has been delivered and counted, the item in hand
\* apart, and the handler goes with the last item.
AccountOK ==
  \A b \in Batches :
    /\ next[b] <= Size[b]
    /\ InHand(b, Undelivered) => next[b] = Len(delivered[b]) + 1
    /\ ~InHand(b, Undelivered) => next[b] = Len(delivered[b])
    /\ \A k \in 1..Len(delivered[b]) : delivered[b][k].index = k - 1
    /\ status[b] = "published" =>
         /\ Size[b] # 0
         /\ InHand(b, Uncounted) => next[b] = completed[b] + 1
         /\ ~InHand(b, Uncounted) => next[b] = completed[b]
         /\ handler[b] = "destroyed" <=>
              next[b] = Size[b] /\ ~InHand(b, Undelivered \cup {"handler"})
    /\ status[b] # "published" => next[b] = 0
    /\ status[b] = "unused" => completed[b] = 0 /\ handler[b] = "held"
    /\ status[b] = "refused" => completed[b] = Size[b] /\ handler[b] = "destroyed"

\* The worker leaves only with the queue empty, and nothing is queued after that.
ExitOK == workerDone <=> wpc = "exited"

DoneOK == workerDone => queue = <<>>

DeliveryInv == Typed /\ InHandOK /\ QueueOK /\ AccountOK /\ ExitOK /\ DoneOK

-----------------------------------------------------------------------------
(* Type correctness.                                                       *)

\* The groups of variables the actions leave alone.
USE DEF vars, queueVars, stopVars, turnVars, decoderVars, batchVars, itemVars, callVars, history

\* What Head and Tail leave of the queue.
LEMMA HeadTail ==
  ASSUME NEW S, NEW q \in Seq(S), q # <<>>
  PROVE  /\ Head(q) \in S /\ Tail(q) \in Seq(S)
         /\ Head(q) = q[1] /\ Len(q) \in Nat \ {0}
         /\ Len(Tail(q)) = Len(q) - 1
         /\ \A i \in 1..Len(Tail(q)) : Tail(q)[i] = q[i + 1]
  OBVIOUS

\* A function updated at one point, in its domain or not.
LEMMA UpdateType ==
  ASSUME NEW S, NEW T, NEW f \in [S -> T], NEW x, NEW v, x \in S => v \in T
  PROVE  [f EXCEPT ![x] = v] \in [S -> T]
  OBVIOUS

\* A worker step keeps every variable in its type.
LEMMA WorkerStepTyped == Typed /\ WorkerStep => Typed'
<1> SUFFICES ASSUME Typed, WorkerStep PROVE Typed'
  OBVIOUS
<1> USE ThreadsAssumption, BatchesAssumption, OpsAssumption DEF Typed, WorkerLocs, Threads, Run
<1>1. CASE StopDeferring
  BY SMTT(60), <1>1 DEF StopDeferring, NoSyncWaiters
<1>2. CASE DeferToSyncCallers
  BY <1>2 DEF DeferToSyncCallers, NoSyncWaiters
<1>3. CASE DeferTimeout
  BY <1>3 DEF DeferTimeout, NoSyncWaiters
<1>4. CASE Dispatch
  <2>1. Head(queue) \in Batches /\ Tail(queue) \in Seq(Batches)
    BY <1>4, HeadTail DEF Dispatch
  <2>2. next[Head(queue)] \in Nat /\ next[Head(queue)] + 1 \in Nat
    BY SMTT(60), <2>1
  <2>a. next' = [next EXCEPT ![Head(queue)] = next[Head(queue)] + 1]
    BY <1>4 DEF Dispatch
  <2>b. next \in [Batches -> Nat]
    OBVIOUS
  <2>3. next' \in [Batches -> Nat]
    BY ONLY <2>1, <2>2, <2>a, <2>b, UpdateType
  <2>4. queue' \in Seq(Batches) /\ batch' \in Batches /\ current' \in Batches /\ index' \in Nat
    BY <1>4, <2>1, <2>2 DEF Dispatch
  <2>5. QED
    BY <1>4, <2>3, <2>4 DEF Dispatch
<1>5. CASE FindNothing
  BY <1>5 DEF FindNothing
<1>6. CASE WaitForWork
  BY <1>6 DEF WaitForWork
<1>7. CASE CheckToken
  BY <1>7 DEF CheckToken, Statuses
<1>8. CASE TakeDecoder
  BY <1>8 DEF TakeDecoder
<1>9. CASE Decode
  BY <1>9 DEF Decode
<1>10. CASE ReleaseTurn
  BY <1>10 DEF ReleaseTurn, AfterRelease
<1>11. CASE NotifyTurn
  BY <1>11 DEF NotifyTurn, AfterRelease, WakeTurnCv
<1>12. CASE Deliver
  <2>1. [index |-> index, status |-> result] \in CompletionRecord
    BY DEF CompletionRecord
  <2>a. batch \in Batches => Append(delivered[batch], [index |-> index, status |-> result])
                               \in Seq(CompletionRecord)
    BY <2>1
  <2>2. delivered' \in [Batches -> Seq(CompletionRecord)]
    BY <1>12, <2>a, UpdateType DEF Deliver
  <2>3. handlerOps' \in 0..MaxHandlerOps
    BY <1>12 DEF Deliver
  <2>4. QED
    BY <1>12, <2>2, <2>3 DEF Deliver
<1>13. CASE HandlerReturns
  <2>1. handler' \in [Batches -> {"held", "destroyed"}]
    BY <1>13, UpdateType DEF HandlerReturns, ResetHandler
  <2>2. wpc' \in WorkerLocs
    BY <1>13 DEF HandlerReturns
  <2>3. QED
    BY <1>13, <2>1, <2>2 DEF HandlerReturns
<1>14. CASE Account
  <2>a. batch \in Batches => completed[batch] + 1 \in Nat
    OBVIOUS
  <2>1. completed' \in [Batches -> Nat]
    BY <1>14, <2>a, UpdateType DEF Account
  <2>2. wpc' \in WorkerLocs
    BY <1>14 DEF Account
  <2>3. QED
    BY <1>14, <2>1, <2>2 DEF Account
<1>15. CASE NotifyDone
  BY <1>15 DEF NotifyDone, WakeDoneCv
<1>16. CASE Forget
  BY <1>16 DEF Forget
<1>17. CASE SpinOrDrain
  BY SMTT(60), <1>17 DEF SpinOrDrain
<1>18. CASE Exit
  BY <1>18 DEF Exit
<1>. QED
  BY <1>1, <1>2, <1>3, <1>4, <1>5, <1>6, <1>7, <1>8, <1>9, <1>10, <1>11, <1>12, <1>13, <1>14, <1>15, <1>16, <1>17, <1>18 DEF WorkerStep

\* So does a step of a call.
LEMMA CallStepTyped ==
  ASSUME Typed, NEW t \in Threads, CallStep(t) \/ WaitTimeout(t) \/ SpuriousWake(t)
  PROVE  Typed'
<1> USE ThreadsAssumption DEF Typed, CallLocs, Threads, Move
<1>1. CASE Announce(t)
  BY <1>1 DEF Announce
<1>2. CASE PassTurn(t)
  BY <1>2 DEF PassTurn
<1>3. CASE ParkOnTurn(t)
  BY <1>3 DEF ParkOnTurn
<1>4. CASE LockDecoder(t)
  BY <1>4 DEF LockDecoder
<1>5. CASE LeaveWaiters(t)
  BY <1>5 DEF LeaveWaiters
<1>6. CASE NotifyWorker(t)
  BY <1>6 DEF NotifyWorker, WakeQueueCv
<1>7. CASE FinishImageAt(t)
  BY <1>7 DEF FinishImageAt
<1>8. CASE NotifyOne(t)
  BY <1>8 DEF NotifyOne, WakeQueueCv
<1>9. CASE ReturnFromWait(t)
  BY <1>9 DEF ReturnFromWait
<1>10. CASE ParkOnDone(t)
  BY <1>10 DEF ParkOnDone
<1>11. CASE RequestStop(t)
  BY <1>11 DEF RequestStop, CancelQueued, InQueue
<1>12. CASE RaiseStopFlag(t)
  BY <1>12 DEF RaiseStopFlag
<1>13. CASE WakeAll(t)
  BY <1>13 DEF WakeAll
<1>14. CASE JoinAndReset(t)
  BY <1>14 DEF JoinAndReset
<1>15. CASE WaitTimeout(t)
  BY <1>15 DEF WaitTimeout
<1>16. CASE SpuriousWake(t)
  BY <1>16 DEF SpuriousWake
<1>. QED
  BY <1>1, <1>2, <1>3, <1>4, <1>5, <1>6, <1>7, <1>8, <1>9, <1>10, <1>11, <1>12, <1>13, <1>14, <1>15, <1>16 DEF CallStep, ImageAtStep

\* And so does the beginning of a call.
LEMMA BeginCallTyped ==
  ASSUME Typed, NEW t \in Threads, BeginCall(t)
  PROVE  Typed'
<1> USE ThreadsAssumption, BatchesAssumption, OpsAssumption DEF Typed, CallLocs, Threads, Begin
<1>1. CASE CallImageAt(t)
  BY <1>1 DEF CallImageAt
<1>2. CASE CancelAll(t)
  BY <1>2 DEF CancelAll, CancelQueued, InQueue
<1>3. CASE Close(t)
  BY <1>3 DEF Close
<1>4. ASSUME NEW b \in Batches, GenerateImages(t, b) PROVE Typed'
  BY <1>4 DEF GenerateImages
<1>5. ASSUME NEW b \in Batches, GenerateNothing(t, b) PROVE Typed'
  BY SMTT(60), <1>5 DEF GenerateNothing
<1>6. ASSUME NEW b \in Batches, Cancel(t, b) PROVE Typed'
  BY SMTT(60), <1>6 DEF Cancel
<1>7. ASSUME NEW b \in Batches, Wait(t, b) PROVE Typed'
  BY SMTT(60), <1>7 DEF Wait
<1>. QED
  BY <1>1, <1>2, <1>3, <1>4, <1>5, <1>6, <1>7 DEF BeginCall

LEMMA TypedInit == Init => Typed
<1> SUFFICES ASSUME Init PROVE Typed
  OBVIOUS
<1>1. queue \in Seq(Batches) /\ published \in Seq(Batches)
  BY DEF Init
<1>2. delivered \in [Batches -> Seq(CompletionRecord)]
  BY DEF Init
<1>3. handlerOps \in 0..MaxHandlerOps
  BY OpsAssumption DEF Init
<1>4. /\ next \in [Batches -> Nat] /\ completed \in [Batches -> Nat]
      /\ cancelled \in [Batches -> BOOLEAN] /\ handler \in [Batches -> {"held", "destroyed"}]
      /\ status \in [Batches -> {"unused", "published", "refused"}]
  BY DEF Init
<1>5. /\ pc \in [Threads -> CallLocs] /\ arg \in [Threads -> Batches \cup {None}]
      /\ wpc \in WorkerLocs /\ asleep \in SUBSET Threads /\ result \in Statuses
  BY DEF Init, WorkerLocs, CallLocs, Statuses
<1>6. /\ current \in Batches \cup {None} /\ batch \in Batches \cup {None}
      /\ decoder \in Threads \cup {None} /\ engine \in {"held", "null"}
      /\ syncWaiters \in Int /\ index \in Nat
  BY DEF Init
<1>7. /\ workerDone \in BOOLEAN /\ stopping \in BOOLEAN /\ stopFlag \in BOOLEAN
      /\ workerTurn \in BOOLEAN /\ claimedTurn \in BOOLEAN
  BY DEF Init
<1>. QED
  BY <1>1, <1>2, <1>3, <1>4, <1>5, <1>6, <1>7 DEF Typed

LEMMA TypedNext == Typed /\ [Next]_vars => Typed'
<1>1. CASE UNCHANGED vars
  BY <1>1 DEF Typed
<1>2. CASE Next
  BY <1>1, <1>2, WorkerStepTyped, CallStepTyped, BeginCallTyped DEF Next, Idle
<1>. QED
  BY <1>1, <1>2

\* The model never leaves its types.
THEOREM TypeCorrect == Spec => []Typed
  BY TypedInit, TypedNext, PTL DEF Spec

-----------------------------------------------------------------------------
(* Delivery.  Only eight actions touch what the accounting speaks of; the  *)
(* others at most move the worker within a stage of its item.              *)

Books == <<queue, current, workerDone, next, completed, handler, status, batch, index, delivered>>

\* The worker stays on the same side of delivering, running the handler, counting and leaving.
SameStage ==
  /\ \A locs \in {Undelivered, Uncounted, {"handler"}} :
       batch # None => (wpc \in locs <=> wpc' \in locs)
  /\ wpc = "exited" <=> wpc' = "exited"

Accounting == InHandOK /\ QueueOK /\ AccountOK /\ ExitOK /\ DoneOK

LEMMA QuietStep ==
  ASSUME Typed, Accounting, UNCHANGED Books, SameStage, InHandOK'
  PROVE  Accounting'
<1>1. QueueOK'
  BY DEF Accounting, QueueOK, Books
<1>2. ASSUME NEW b \in Batches
      PROVE  /\ InHand(b, Undelivered)' <=> InHand(b, Undelivered)
             /\ InHand(b, Uncounted)' <=> InHand(b, Uncounted)
             /\ InHand(b, Undelivered \cup {"handler"})' <=> InHand(b, Undelivered \cup {"handler"})
  BY BatchesAssumption DEF InHand, SameStage, Books
<1>3. AccountOK'
  BY <1>2 DEF Accounting, AccountOK, Books
<1>4. ExitOK' /\ DoneOK'
  BY DEF Accounting, ExitOK, DoneOK, SameStage, Books
<1>. QED
  BY <1>1, <1>3, <1>4 DEF Accounting

\* The worker steps that only move the worker.
QuietWorkerStep ==
  \/ StopDeferring \/ DeferToSyncCallers \/ DeferTimeout \/ FindNothing \/ WaitForWork
  \/ CheckToken \/ TakeDecoder \/ Decode \/ ReleaseTurn \/ NotifyTurn \/ NotifyDone \/ SpinOrDrain

LEMMA QuietWorker == Typed /\ Accounting /\ QuietWorkerStep => Accounting'
<1> SUFFICES ASSUME Typed, Accounting, QuietWorkerStep PROVE Accounting'
  OBVIOUS
<1>1. UNCHANGED Books
  BY DEF QuietWorkerStep, Books, Run, StopDeferring, DeferToSyncCallers, DeferTimeout, FindNothing,
         WaitForWork, CheckToken, TakeDecoder, Decode, ReleaseTurn, NotifyTurn, NotifyDone,
         SpinOrDrain
<1>2. \/ wpc = "defer" /\ wpc' \in {"defer", "take"}
      \/ wpc = "take" /\ wpc' \in {"take", "release"}
      \/ wpc = "check" /\ wpc' \in {"release", "lock"}
      \/ wpc = "lock" /\ wpc' = "decode"
      \/ wpc = "decode" /\ wpc' = "release"
      \/ wpc = "release" /\ wpc' \in {"notifyTurn", AfterRelease}
      \/ wpc = "notifyTurn" /\ wpc' = AfterRelease
      \/ wpc = "notifyDone" /\ wpc' = "forget"
      \/ wpc = "empty" /\ wpc' = "defer"
  BY DEF QuietWorkerStep, Run, StopDeferring, DeferToSyncCallers, DeferTimeout, FindNothing,
         WaitForWork, CheckToken, TakeDecoder, Decode, ReleaseTurn, NotifyTurn, NotifyDone,
         SpinOrDrain
<1>3. InHandOK'
  BY <1>1, <1>2 DEF Accounting, InHandOK, Books, AfterRelease
<1>4. SameStage
  BY <1>2, <1>3 DEF SameStage, Accounting, InHandOK, AfterRelease, Undelivered, Uncounted
<1>. QED
  BY <1>1, <1>3, <1>4, QuietStep

LEMMA DispatchOK == Typed /\ Accounting /\ Dispatch => Accounting'
<1> SUFFICES ASSUME Typed, Accounting, Dispatch PROVE Accounting'
  OBVIOUS
<1> DEFINE b == Head(queue)
<1>1. /\ b \in Batches /\ Tail(queue) \in Seq(Batches) /\ b = queue[1] /\ Len(queue) \in Nat \ {0}
      /\ Len(Tail(queue)) = Len(queue) - 1
      /\ \A i \in 1..Len(Tail(queue)) : Tail(queue)[i] = queue[i + 1]
  BY HeadTail DEF Dispatch, Typed
<1>2. /\ wpc = "take" /\ wpc' = "check" /\ batch' = b /\ current' = b /\ index' = next[b]
      /\ next' = [next EXCEPT ![b] = next[b] + 1]
      /\ queue' = IF next[b] + 1 >= Size[b] THEN Tail(queue) ELSE queue
      /\ UNCHANGED <<workerDone, completed, handler, status, delivered>>
  BY DEF Dispatch, Run, Exhausted
<1>3. status[b] = "published" /\ next[b] < Size[b] /\ batch = None
  BY <1>1, <1>2 DEF Accounting, QueueOK, InHandOK
<1>4. next[b] \in Nat /\ Size[b] \in Nat /\ next'[b] = next[b] + 1 /\ b # None
  BY <1>1, <1>2, BatchesAssumption DEF Typed
<1>5. \A c \in Batches \ {b} : next'[c] = next[c]
  BY <1>2 DEF Typed
<1>6. InHandOK'
  BY <1>2, <1>3, <1>4 DEF InHandOK
<1>7. QueueOK'
  <2>1. CASE next[b] + 1 >= Size[b]
    <3>1. queue' = Tail(queue) /\ next'[b] = Size[b]
      BY <1>2, <1>3, <1>4, <2>1
    <3>2. ASSUME NEW i \in 1..Len(queue')
          PROVE  queue'[i] # b /\ queue'[i] \in Batches /\ i + 1 \in 1..Len(queue) /\ queue'[i] = queue[i + 1]
      BY <1>1, <3>1 DEF Accounting, QueueOK, Typed
    <3>3. ASSUME NEW i \in 1..Len(queue')
          PROVE  status'[queue'[i]] = "published" /\ next'[queue'[i]] < Size[queue'[i]]
      <4>1. status[queue[i + 1]] = "published" /\ next[queue[i + 1]] < Size[queue[i + 1]]
        BY <3>2 DEF Accounting, QueueOK
      <4>2. next'[queue'[i]] = next[queue[i + 1]]
        BY <1>5, <3>2
      <4>. QED
        BY <1>2, <3>2, <4>1, <4>2
    <3>4. \A i, j \in 1..Len(queue') : queue'[i] = queue'[j] => i = j
      BY <3>2 DEF Accounting, QueueOK
    <3>5. ASSUME NEW c \in Batches, status'[c] = "published", next'[c] < Size[c]
          PROVE  \E i \in 1..Len(queue') : queue'[i] = c
      <4>1. c # b
        <5> SUFFICES ASSUME c = b PROVE FALSE
          OBVIOUS
        <5>1. next'[b] = Size[b] /\ next'[b] < Size[b]
          BY <3>1, <3>5
        <5>. QED
          BY <5>1, <1>4
      <4>2. PICK i \in 1..Len(queue) : queue[i] = c
        BY <1>2, <1>5, <3>5, <4>1 DEF Accounting, QueueOK
      <4>3. i - 1 \in 1..Len(queue') /\ queue'[i - 1] = c
        BY <1>1, <3>1, <4>1, <4>2
      <4>. QED
        BY <4>3
    <3>. QED
      BY <3>3, <3>4, <3>5 DEF QueueOK
  <2>2. CASE ~(next[b] + 1 >= Size[b])
    <3>1. queue' = queue /\ next'[b] < Size[b]
      BY <1>2, <1>4, <2>2
    <3>2. \A i \in 1..Len(queue) : queue[i] \in Batches
      BY DEF Typed
    <3>3. \A c \in Batches : next'[c] < Size[c] => next[c] < Size[c]
      BY <1>3, <1>5
    <3>4. \A c \in Batches : next[c] < Size[c] => next'[c] < Size[c]
      BY <1>5, <3>1
    <3>. QED
      BY <1>2, <3>1, <3>2, <3>3, <3>4 DEF Accounting, QueueOK
  <2>. QED
    BY <2>1, <2>2
<1>8. AccountOK'
  <2> SUFFICES ASSUME NEW c \in Batches PROVE AccountOK!(c)'
    BY DEF AccountOK
  <2>1. AccountOK!(c)
    BY DEF Accounting, AccountOK
  <2>2. InHand(c, Undelivered)' <=> c = b
    BY <1>2 DEF InHand, Undelivered
  <2>3. InHand(c, Uncounted)' <=> c = b
    BY <1>2 DEF InHand, Undelivered, Uncounted
  <2>4. InHand(c, Undelivered \cup {"handler"})' <=> c = b
    BY <1>2 DEF InHand, Undelivered
  <2>5. ~InHand(c, Undelivered) /\ ~InHand(c, Uncounted) /\ ~InHand(c, Undelivered \cup {"handler"})
    BY <1>3, BatchesAssumption DEF InHand
  <2>6. CASE c = b
    BY <1>2, <1>3, <1>4, <2>1, <2>2, <2>3, <2>4, <2>5, <2>6 DEF Typed
  <2>7. CASE c # b
    BY <1>2, <1>5, <2>1, <2>2, <2>3, <2>4, <2>5, <2>7
  <2>. QED
    BY <2>6, <2>7
<1>9. ExitOK' /\ DoneOK'
  BY <1>1, <1>2 DEF Accounting, ExitOK, DoneOK
<1>. QED
  BY <1>6, <1>7, <1>8, <1>9 DEF Accounting

LEMMA QueueKept == QueueOK /\ UNCHANGED <<queue, next, status>> => QueueOK'
  BY DEF QueueOK

LEMMA DeliverOK == Typed /\ Accounting /\ Deliver => Accounting'
<1> SUFFICES ASSUME Typed, Accounting, Deliver PROVE Accounting'
  OBVIOUS
<1> DEFINE d == [index |-> index, status |-> result]
<1>1. /\ wpc = "deliver" /\ wpc' = "handler"
      /\ delivered' = [delivered EXCEPT ![batch] = Append(delivered[batch], d)]
      /\ UNCHANGED <<queue, current, workerDone, next, completed, handler, status, batch, index>>
  BY DEF Deliver, Run
<1>2. batch \in Batches /\ index \in Nat /\ next[batch] = index + 1 /\ status[batch] = "published"
  BY <1>1, BatchesAssumption DEF Accounting, InHandOK, Typed
<1>3. delivered[batch] \in Seq(CompletionRecord)
  BY <1>2 DEF Typed
<1>4. delivered'[batch] = Append(delivered[batch], d)
  BY <1>1, <1>2 DEF Typed
<1>5. InHandOK'
  BY <1>1 DEF Accounting, InHandOK
<1>6. AccountOK'
  <2> SUFFICES ASSUME NEW c \in Batches PROVE AccountOK!(c)'
    BY DEF AccountOK
  <2>1. AccountOK!(c)
    BY DEF Accounting, AccountOK
  <2>2. ~InHand(c, Undelivered)'
    BY <1>1 DEF InHand, Undelivered
  <2>3. /\ InHand(c, Uncounted)' <=> InHand(c, Uncounted)
        /\ InHand(c, Undelivered \cup {"handler"})' <=> InHand(c, Undelivered \cup {"handler"})
        /\ InHand(c, Undelivered) <=> c = batch
    BY <1>1 DEF InHand, Undelivered, Uncounted
  <2>4. CASE c = batch
    <3>1. next[c] = Len(delivered[c]) + 1
      BY <2>1, <2>3, <2>4
    <3>2. Len(delivered'[c]) = Len(delivered[c]) + 1 /\ Len(delivered[c]) \in Nat
      BY <1>3, <1>4, <2>4
    <3>3. ASSUME NEW k \in 1..Len(delivered'[c]) PROVE delivered'[c][k].index = k - 1
      <4>1. CASE k \in 1..Len(delivered[c])
        <5>1. delivered[c][k].index = k - 1
          BY <2>1, <4>1
        <5>2. delivered'[c][k] = delivered[c][k]
          BY <1>3, <1>4, <2>4, <4>1
        <5>. QED
          BY <5>1, <5>2
      <4>2. CASE k = Len(delivered[c]) + 1
        <5>1. delivered'[c][k] = d
          BY <1>3, <1>4, <2>4, <4>2
        <5>2. index = k - 1
          BY <1>2, <2>4, <3>1, <3>2, <4>2
        <5>. QED
          BY <5>1, <5>2
      <4>. QED
        BY <3>2, <4>1, <4>2
    <3>. QED
      BY <1>1, <1>2, <2>1, <2>2, <2>3, <2>4, <3>1, <3>2, <3>3
  <2>5. CASE c # batch
    <3>1. delivered'[c] = delivered[c]
      BY <1>1, <2>5 DEF Typed
    <3>. QED
      BY <1>1, <2>1, <2>2, <2>3, <2>5, <3>1
  <2>. QED
    BY <2>4, <2>5
<1>7. QueueOK' /\ ExitOK' /\ DoneOK'
  BY <1>1, QueueKept DEF Accounting, ExitOK, DoneOK
<1>. QED
  BY <1>5, <1>6, <1>7 DEF Accounting

LEMMA HandlerReturnsOK == Typed /\ Accounting /\ HandlerReturns => Accounting'
<1> SUFFICES ASSUME Typed, Accounting, HandlerReturns PROVE Accounting'
  OBVIOUS
<1>1. /\ wpc = "handler" /\ wpc' = "account"
      /\ handler' = IF index + 1 = Size[batch] THEN [handler EXCEPT ![batch] = "destroyed"]
                                               ELSE handler
      /\ UNCHANGED <<queue, current, workerDone, next, completed, status, batch, index, delivered>>
  BY DEF HandlerReturns, Run, ResetHandler, IsLast
<1>2. batch \in Batches /\ next[batch] = index + 1 /\ status[batch] = "published"
  BY <1>1, BatchesAssumption DEF Accounting, InHandOK, Typed
<1>3. InHandOK'
  BY <1>1 DEF Accounting, InHandOK
<1>4. AccountOK'
  <2> SUFFICES ASSUME NEW c \in Batches PROVE AccountOK!(c)'
    BY DEF AccountOK
  <2>1. AccountOK!(c)
    BY DEF Accounting, AccountOK
  <2>2. ~InHand(c, Undelivered) /\ ~InHand(c, Undelivered)'
    BY <1>1 DEF InHand, Undelivered
  <2>3. /\ InHand(c, Uncounted)' <=> InHand(c, Uncounted)
        /\ ~InHand(c, Undelivered \cup {"handler"})'
        /\ InHand(c, Undelivered \cup {"handler"}) <=> c = batch
    BY <1>1 DEF InHand, Undelivered, Uncounted
  <2>4. CASE c = batch
    <3>1. handler[c] # "destroyed"
      BY <1>2, <2>1, <2>3, <2>4
    <3>2. handler'[c] = "destroyed" <=> next[c] = Size[c]
      BY <1>1, <1>2, <2>4, <3>1 DEF Typed
    <3>. QED
      BY <1>1, <1>2, <2>1, <2>2, <2>3, <2>4, <3>2
  <2>5. CASE c # batch
    <3>1. handler'[c] = handler[c]
      BY <1>1, <2>5 DEF Typed
    <3>. QED
      BY <1>1, <2>1, <2>2, <2>3, <2>5, <3>1
  <2>. QED
    BY <2>4, <2>5
<1>5. QueueOK' /\ ExitOK' /\ DoneOK'
  BY <1>1, QueueKept DEF Accounting, ExitOK, DoneOK
<1>. QED
  BY <1>3, <1>4, <1>5 DEF Accounting

LEMMA AccountCountsOK == Typed /\ Accounting /\ Account => Accounting'
<1> SUFFICES ASSUME Typed, Accounting, Account PROVE Accounting'
  OBVIOUS
<1>1. /\ wpc = "account" /\ wpc' \in {"notifyDone", "forget"}
      /\ completed' = [completed EXCEPT ![batch] = completed[batch] + 1]
      /\ UNCHANGED <<queue, current, workerDone, next, handler, status, batch, index, delivered>>
  BY DEF Account, Run
<1>2. batch \in Batches /\ status[batch] = "published"
  BY <1>1, BatchesAssumption DEF Accounting, InHandOK, Typed
<1>3. InHandOK'
  BY <1>1 DEF Accounting, InHandOK
<1>4. AccountOK'
  <2> SUFFICES ASSUME NEW c \in Batches PROVE AccountOK!(c)'
    BY DEF AccountOK
  <2>1. AccountOK!(c)
    BY DEF Accounting, AccountOK
  <2>2. /\ ~InHand(c, Undelivered) /\ ~InHand(c, Undelivered)'
        /\ ~InHand(c, Undelivered \cup {"handler"}) /\ ~InHand(c, Undelivered \cup {"handler"})'
    BY <1>1 DEF InHand, Undelivered
  <2>3. ~InHand(c, Uncounted)' /\ (InHand(c, Uncounted) <=> c = batch)
    BY <1>1 DEF InHand, Undelivered, Uncounted
  <2>4. CASE c = batch
    <3>1. completed'[c] = completed[c] + 1
      BY <1>1, <1>2, <2>4 DEF Typed
    <3>. QED
      BY <1>1, <1>2, <2>1, <2>2, <2>3, <2>4, <3>1
  <2>5. CASE c # batch
    <3>1. completed'[c] = completed[c]
      BY <1>1, <2>5 DEF Typed
    <3>. QED
      BY <1>1, <2>1, <2>2, <2>3, <2>5, <3>1
  <2>. QED
    BY <2>4, <2>5
<1>5. QueueOK' /\ ExitOK' /\ DoneOK'
  BY <1>1, QueueKept DEF Accounting, ExitOK, DoneOK
<1>. QED
  BY <1>3, <1>4, <1>5 DEF Accounting

LEMMA ForgetOK == Typed /\ Accounting /\ Forget => Accounting'
<1> SUFFICES ASSUME Typed, Accounting, Forget PROVE Accounting'
  OBVIOUS
<1>1. /\ wpc = "forget" /\ wpc' = "defer" /\ batch' = None
      /\ UNCHANGED <<queue, workerDone, next, completed, handler, status, delivered>>
  BY DEF Forget, Run
<1>2. InHandOK'
  BY <1>1 DEF InHandOK
<1>3. ASSUME NEW c \in Batches
      PROVE  /\ ~InHand(c, Undelivered) /\ ~InHand(c, Undelivered)'
             /\ ~InHand(c, Undelivered \cup {"handler"}) /\ ~InHand(c, Undelivered \cup {"handler"})'
             /\ ~InHand(c, Uncounted) /\ ~InHand(c, Uncounted)'
  BY <1>1 DEF InHand, Undelivered, Uncounted
<1>4. AccountOK'
  BY <1>1, <1>3 DEF Accounting, AccountOK
<1>5. QueueOK' /\ ExitOK' /\ DoneOK'
  BY <1>1, QueueKept DEF Accounting, ExitOK, DoneOK
<1>. QED
  BY <1>2, <1>4, <1>5 DEF Accounting

LEMMA ExitIsFinal == Typed /\ Accounting /\ Exit => Accounting'
<1> SUFFICES ASSUME Typed, Accounting, Exit PROVE Accounting'
  OBVIOUS
<1>1. /\ wpc = "empty" /\ wpc' = "exited" /\ queue = <<>> /\ workerDone' = TRUE
      /\ UNCHANGED <<queue, current, next, completed, handler, status, batch, index, delivered>>
  BY DEF Exit, Run, Drained
<1>2. batch = None
  BY <1>1 DEF Accounting, InHandOK
<1>3. ASSUME NEW c \in Batches
      PROVE  /\ ~InHand(c, Undelivered) /\ ~InHand(c, Undelivered)'
             /\ ~InHand(c, Undelivered \cup {"handler"}) /\ ~InHand(c, Undelivered \cup {"handler"})'
             /\ ~InHand(c, Uncounted) /\ ~InHand(c, Uncounted)'
  BY <1>1, <1>2, BatchesAssumption DEF InHand
<1>4. InHandOK'
  BY <1>1, <1>2 DEF InHandOK
<1>5. AccountOK'
  BY <1>1, <1>3 DEF Accounting, AccountOK
<1>6. QueueOK' /\ ExitOK' /\ DoneOK'
  BY <1>1, QueueKept DEF Accounting, ExitOK, DoneOK
<1>. QED
  BY <1>4, <1>5, <1>6 DEF Accounting

\* A batch that has not been used yet has no item in hand.
LEMMA UnusedIsNotInHand ==
  ASSUME Accounting, NEW b \in Batches, status[b] = "unused"
  PROVE  batch # b
  BY BatchesAssumption DEF Accounting, InHandOK

LEMMA GenerateImagesOK ==
  ASSUME Typed, Accounting, NEW t \in Threads, NEW b \in Batches, GenerateImages(t, b)
  PROVE  Accounting'
<1>1. /\ status[b] = "unused" /\ Size[b] # 0 /\ ~workerDone
      /\ status' = [status EXCEPT ![b] = "published"] /\ queue' = Append(queue, b)
      /\ UNCHANGED <<current, workerDone, next, completed, handler, batch, index, delivered, wpc>>
  BY DEF GenerateImages, Begin
<1>2. /\ queue \in Seq(Batches) /\ Len(queue) \in Nat /\ Len(queue') = Len(queue) + 1
      /\ queue'[Len(queue) + 1] = b
      /\ \A i \in 1..Len(queue) : queue'[i] = queue[i] /\ queue[i] \in Batches
  BY <1>1 DEF Typed
<1>3. AccountOK!(b)
  BY DEF Accounting, AccountOK
<1>4. next[b] = 0 /\ completed[b] = 0 /\ Size[b] \in Nat
  BY <1>1, <1>3, BatchesAssumption
<1>5. status'[b] = "published" /\ \A c \in Batches \ {b} : status'[c] = status[c]
  BY <1>1 DEF Typed
<1>6. batch # b
  BY <1>1, UnusedIsNotInHand
<1>7. InHandOK'
  <2>1. batch # None => status'[batch] = "published"
    BY <1>5, <1>6 DEF Accounting, InHandOK, Typed
  <2>. QED
    BY <1>1, <2>1 DEF Accounting, InHandOK
<1>8. QueueOK'
  <2>1. ASSUME NEW i \in 1..Len(queue) PROVE queue[i] # b
    BY <1>1, <2>1 DEF Accounting, QueueOK
  <2>2. ASSUME NEW i \in 1..Len(queue')
        PROVE  status'[queue'[i]] = "published" /\ next'[queue'[i]] < Size[queue'[i]]
    <3>1. CASE i \in 1..Len(queue)
      BY <1>1, <1>2, <1>5, <2>1, <3>1 DEF Accounting, QueueOK
    <3>2. CASE i = Len(queue) + 1
      BY <1>1, <1>2, <1>4, <1>5, <3>2
    <3>. QED
      BY <1>2, <3>1, <3>2
  <2>3. ASSUME NEW i \in 1..Len(queue'), NEW j \in 1..Len(queue'), queue'[i] = queue'[j]
        PROVE  i = j
    <3>1. CASE i \in 1..Len(queue) /\ j \in 1..Len(queue)
      BY <1>2, <2>3, <3>1 DEF Accounting, QueueOK
    <3>2. CASE i = Len(queue) + 1
      BY <1>2, <2>1, <2>3, <3>2
    <3>3. CASE j = Len(queue) + 1
      BY <1>2, <2>1, <2>3, <3>3
    <3>. QED
      BY <1>2, <3>1, <3>2, <3>3
  <2>4. ASSUME NEW c \in Batches, status'[c] = "published", next'[c] < Size[c]
        PROVE  \E i \in 1..Len(queue') : queue'[i] = c
    <3>1. CASE c = b
      BY <1>2, <3>1
    <3>2. CASE c # b
      <4>1. PICK i \in 1..Len(queue) : queue[i] = c
        BY <1>1, <1>5, <2>4, <3>2 DEF Accounting, QueueOK
      <4>. QED
        BY <1>2, <4>1
    <3>. QED
      BY <3>1, <3>2
  <2>. QED
    BY <2>2, <2>3, <2>4 DEF QueueOK
<1>9. AccountOK'
  <2> SUFFICES ASSUME NEW c \in Batches PROVE AccountOK!(c)'
    BY DEF AccountOK
  <2>1. AccountOK!(c)
    BY DEF Accounting, AccountOK
  <2>2. /\ InHand(c, Undelivered)' <=> InHand(c, Undelivered)
        /\ InHand(c, Uncounted)' <=> InHand(c, Uncounted)
        /\ InHand(c, Undelivered \cup {"handler"})' <=> InHand(c, Undelivered \cup {"handler"})
    BY <1>1 DEF InHand
  <2>3. CASE c = b
    <3>1. /\ ~InHand(c, Undelivered) /\ ~InHand(c, Uncounted)
          /\ ~InHand(c, Undelivered \cup {"handler"})
      BY <1>6, <2>3 DEF InHand
    <3>2. handler[b] = "held"
      BY <1>1, <1>3
    <3>. QED
      BY <1>1, <1>4, <1>5, <2>1, <2>2, <2>3, <3>1, <3>2
  <2>4. CASE c # b
    BY <1>1, <1>5, <2>1, <2>2, <2>4
  <2>. QED
    BY <2>3, <2>4
<1>10. ExitOK' /\ DoneOK'
  BY <1>1 DEF Accounting, ExitOK, DoneOK
<1>. QED
  BY <1>7, <1>8, <1>9, <1>10 DEF Accounting

LEMMA GenerateNothingOK ==
  ASSUME Typed, Accounting, NEW t \in Threads, NEW b \in Batches, GenerateNothing(t, b)
  PROVE  Accounting'
<1>1. /\ status[b] = "unused"
      /\ status' = [status EXCEPT ![b] = "refused"]
      /\ completed' = [completed EXCEPT ![b] = Size[b]]
      /\ handler' = [handler EXCEPT ![b] = "destroyed"]
      /\ UNCHANGED <<queue, current, workerDone, next, batch, index, delivered, wpc>>
  BY DEF GenerateNothing, Begin
<1>2. /\ status'[b] = "refused" /\ completed'[b] = Size[b] /\ handler'[b] = "destroyed"
      /\ \A c \in Batches \ {b} :
           status'[c] = status[c] /\ completed'[c] = completed[c] /\ handler'[c] = handler[c]
  BY <1>1 DEF Typed
<1>3. batch # b
  BY <1>1, UnusedIsNotInHand
<1>4. InHandOK'
  <2>1. batch # None => status'[batch] = "published"
    BY <1>2, <1>3 DEF Accounting, InHandOK, Typed
  <2>. QED
    BY <1>1, <2>1 DEF Accounting, InHandOK
<1>5. QueueOK'
  <2>1. ASSUME NEW i \in 1..Len(queue) PROVE queue[i] \in Batches \ {b}
    <3>1. queue[i] # b
      BY <1>1 DEF Accounting, QueueOK
    <3>. QED
      BY SMTT(60), <3>1 DEF Typed
  <2>2. \A i \in 1..Len(queue) : status'[queue[i]] = "published" /\ next[queue[i]] < Size[queue[i]]
    BY <1>2, <2>1 DEF Accounting, QueueOK
  <2>3. \A c \in Batches : status'[c] = "published" => status[c] = "published"
    BY <1>2
  <2>. QED
    BY <1>1, <2>2, <2>3 DEF Accounting, QueueOK
<1>6. AccountOK'
  <2> SUFFICES ASSUME NEW c \in Batches PROVE AccountOK!(c)'
    BY DEF AccountOK
  <2>1. AccountOK!(c)
    BY DEF Accounting, AccountOK
  <2>2. /\ InHand(c, Undelivered)' <=> InHand(c, Undelivered)
        /\ InHand(c, Uncounted)' <=> InHand(c, Uncounted)
        /\ InHand(c, Undelivered \cup {"handler"})' <=> InHand(c, Undelivered \cup {"handler"})
    BY <1>1 DEF InHand
  <2>3. CASE c = b
    BY <1>1, <1>2, <2>1, <2>2, <2>3
  <2>4. CASE c # b
    BY <1>1, <1>2, <2>1, <2>2, <2>4
  <2>. QED
    BY <2>3, <2>4
<1>7. ExitOK' /\ DoneOK'
  BY <1>1 DEF Accounting, ExitOK, DoneOK
<1>. QED
  BY <1>4, <1>5, <1>6, <1>7 DEF Accounting

\* Every other step of a call leaves the books and the worker alone.
LEMMA QuietCall ==
  ASSUME Typed, Accounting, UNCHANGED <<Books, wpc>>
  PROVE  Accounting'
<1>1. InHandOK' /\ SameStage
  BY DEF Accounting, InHandOK, SameStage, Books
<1>2. UNCHANGED Books
  OBVIOUS
<1>. QED
  BY <1>1, <1>2, QuietStep

LEMMA WorkerStepOK == Typed /\ Accounting /\ WorkerStep => Accounting'
<1>1. WorkerStep => \/ QuietWorkerStep \/ Dispatch \/ Deliver \/ HandlerReturns
                    \/ Account \/ Forget \/ Exit
  BY DEF WorkerStep, QuietWorkerStep
<1>. QED
  BY <1>1, QuietWorker, DispatchOK, DeliverOK, HandlerReturnsOK, AccountCountsOK, ForgetOK,
     ExitIsFinal

LEMMA CallOK ==
  ASSUME Typed, Accounting, NEW t \in Threads,
         BeginCall(t) \/ CallStep(t) \/ WaitTimeout(t) \/ SpuriousWake(t)
  PROVE  Accounting'
<1>1. CASE CallStep(t)
  <2>1. UNCHANGED <<Books, wpc>>
    BY <1>1 DEF CallStep, ImageAtStep, Books, Move, Announce, PassTurn, ParkOnTurn, LockDecoder,
       LeaveWaiters, NotifyWorker, FinishImageAt, NotifyOne, ReturnFromWait, ParkOnDone,
       RequestStop, RaiseStopFlag, WakeAll, JoinAndReset
  <2>. QED
    BY <2>1, QuietCall
<1>2. CASE WaitTimeout(t) \/ SpuriousWake(t)
  <2>1. UNCHANGED <<Books, wpc>>
    BY <1>2 DEF WaitTimeout, SpuriousWake, Books
  <2>. QED
    BY <2>1, QuietCall
<1>3. CASE CallImageAt(t) \/ CancelAll(t) \/ Close(t)
  <2>1. UNCHANGED <<Books, wpc>>
    BY <1>3 DEF CallImageAt, CancelAll, Close, Begin, Books
  <2>. QED
    BY <2>1, QuietCall
<1>4. ASSUME NEW b \in Batches, Cancel(t, b) \/ Wait(t, b) PROVE Accounting'
  <2>1. UNCHANGED <<Books, wpc>>
    BY <1>4 DEF Cancel, Wait, Begin, Books
  <2>. QED
    BY <2>1, QuietCall
<1>. QED
  BY <1>1, <1>2, <1>3, <1>4, GenerateImagesOK, GenerateNothingOK DEF BeginCall

LEMMA AccountingInit == Init => Accounting
<1> SUFFICES ASSUME Init PROVE Accounting
  OBVIOUS
<1>1. InHandOK /\ ExitOK /\ DoneOK
  BY DEF Init, InHandOK, ExitOK, DoneOK
<1>2. QueueOK
  BY DEF Init, QueueOK
<1>3. ASSUME NEW b \in Batches PROVE AccountOK!(b)
  <2>1. /\ ~InHand(b, Undelivered) /\ ~InHand(b, Uncounted)
        /\ ~InHand(b, Undelivered \cup {"handler"})
    BY BatchesAssumption DEF Init, InHand
  <2>2. next[b] = 0 /\ completed[b] = 0 /\ status[b] = "unused" /\ delivered[b] = <<>>
        /\ handler[b] = "held"
    BY DEF Init
  <2>. QED
    BY <2>1, <2>2, BatchesAssumption
<1>4. AccountOK
  BY <1>3 DEF AccountOK
<1>. QED
  BY <1>1, <1>2, <1>4 DEF Accounting

LEMMA AccountingNext == Typed /\ Accounting /\ [Next]_vars => Accounting'
<1>1. CASE UNCHANGED vars
  <2>1. UNCHANGED <<Books, wpc>>
    BY <1>1 DEF Books
  <2>. QED
    BY <2>1, QuietCall
<1>2. CASE Next
  BY <1>1, <1>2, WorkerStepOK, CallOK DEF Next, Idle
<1>. QED
  BY <1>1, <1>2

\* The books balance at every instant, whatever the threads do.
THEOREM DeliveryCorrect == Spec => []DeliveryInv
<1>1. Init => DeliveryInv
  BY TypedInit, AccountingInit DEF DeliveryInv, Accounting
<1>2. DeliveryInv /\ [Next]_vars => DeliveryInv'
  BY TypedNext, AccountingNext DEF DeliveryInv, Accounting
<1>. QED
  BY <1>1, <1>2, PTL DEF Spec

\* Types with the bounds by Size, which the accounting gives.
LEMMA TypeFromInv == DeliveryInv => TypeOK
<1> SUFFICES ASSUME DeliveryInv PROVE TypeOK
  OBVIOUS
<1>1. ASSUME NEW b \in Batches PROVE next[b] <= Size[b] /\ completed[b] <= Size[b]
  <2>1. AccountOK!(b)
    BY DEF DeliveryInv, AccountOK
  <2>2. next[b] \in Nat /\ completed[b] \in Nat /\ Size[b] \in Nat
    BY BatchesAssumption DEF DeliveryInv, Typed
  <2>3. status[b] \in {"unused", "published", "refused"}
    BY DEF DeliveryInv, Typed
  <2>. QED
    BY <2>1, <2>2, <2>3
<1>. QED
  BY <1>1 DEF DeliveryInv, Typed, TypeOK

\* Every variable keeps its type and the counters of a batch their bounds.
THEOREM TypeSafety == Spec => []TypeOK
  BY DeliveryCorrect, TypeFromInv, PTL

\* A batch with nothing left to dispatch and nothing in hand has been delivered and counted.
LEMMA Balance ==
  ASSUME DeliveryInv, NEW b \in Batches
  PROVE  /\ next[b] \in Nat /\ completed[b] \in Nat /\ Size[b] \in Nat
         /\ Len(delivered[b]) \in Nat /\ DOMAIN delivered[b] = 1..Len(delivered[b])
         /\ next[b] <= Size[b] /\ AccountOK!(b)
<1>1. delivered[b] \in Seq(CompletionRecord)
  BY DEF DeliveryInv, Typed
<1>2. next[b] \in Nat /\ completed[b] \in Nat /\ Size[b] \in Nat
  BY BatchesAssumption DEF DeliveryInv, Typed
<1>3. AccountOK!(b)
  BY DEF DeliveryInv, AccountOK
<1>. QED
  BY <1>1, <1>2, <1>3

\* An item that is delivered is delivered once, in request order, and a batch that reads as
\* finished has had them all.
THEOREM ExactlyOnce == Spec => []ExactlyOnceInOrder
<1>1. DeliveryInv => ExactlyOnceInOrder
  <2> SUFFICES ASSUME DeliveryInv, NEW b \in Batches PROVE ExactlyOnceInOrder!(b)
    BY DEF ExactlyOnceInOrder
  <2>1. /\ next[b] \in Nat /\ completed[b] \in Nat /\ Size[b] \in Nat
        /\ Len(delivered[b]) \in Nat /\ DOMAIN delivered[b] = 1..Len(delivered[b])
        /\ next[b] <= Size[b] /\ AccountOK!(b)
    BY Balance
  <2>2. Len(delivered[b]) <= Size[b]
    BY <2>1
  <2>3. \A k \in DOMAIN delivered[b] : delivered[b][k].index = k - 1
    BY <2>1
  <2>4. InHand(b, Undelivered) => InHand(b, Uncounted)
    BY DEF InHand, Uncounted
  <2>5. status[b] = "published" /\ Finished(b) => Len(delivered[b]) = Size[b]
    BY <2>1, <2>4 DEF Finished
  <2>6. status[b] # "published" => delivered[b] = <<>>
    <3> SUFFICES ASSUME status[b] # "published" PROVE delivered[b] = <<>>
      OBVIOUS
    <3>1. Len(delivered[b]) = 0
      BY <2>1
    <3>2. delivered[b] \in Seq(CompletionRecord)
      BY DEF DeliveryInv, Typed
    <3>. QED
      BY <3>1, <3>2
  <2>. QED
    BY <2>2, <2>3, <2>5, <2>6
<1>. QED
  BY <1>1, DeliveryCorrect, PTL

\* The handler is gone before its batch can be seen to finish, and never earlier than its
\* last delivery.
THEOREM HandlerLifetime == Spec => []HandlerDiesBeforeFinish
<1>1. DeliveryInv => HandlerDiesBeforeFinish
  <2> SUFFICES ASSUME DeliveryInv, NEW b \in Batches PROVE HandlerDiesBeforeFinish!(b)
    BY DEF HandlerDiesBeforeFinish
  <2>1. /\ next[b] \in Nat /\ completed[b] \in Nat /\ Size[b] \in Nat
        /\ Len(delivered[b]) \in Nat /\ next[b] <= Size[b] /\ AccountOK!(b)
    BY Balance
  <2>2. status[b] \in {"unused", "published", "refused"}
    BY DEF DeliveryInv, Typed
  <2>3. /\ InHand(b, Undelivered) => InHand(b, Undelivered \cup {"handler"})
        /\ InHand(b, Undelivered \cup {"handler"}) => InHand(b, Uncounted)
    BY DEF InHand, Uncounted
  <2>4. CASE status[b] = "published"
    BY <2>1, <2>3, <2>4 DEF Finished
  <2>5. CASE status[b] # "published"
    BY <2>1, <2>2, <2>5 DEF Finished
  <2>. QED
    BY <2>4, <2>5
<1>. QED
  BY <1>1, DeliveryCorrect, PTL

\* cancelAll() and close() always find the batch an item is still owed to.
THEOREM Reachable == Spec => []UndeliveredIsReachable
<1>1. DeliveryInv => UndeliveredIsReachable
  <2> SUFFICES ASSUME DeliveryInv, NEW b \in Batches, status[b] = "published",
                      Len(delivered[b]) < Size[b], ~InQueue(b)
               PROVE  current = b
    BY DEF UndeliveredIsReachable
  <2>1. /\ next[b] \in Nat /\ Size[b] \in Nat /\ next[b] <= Size[b] /\ AccountOK!(b)
        /\ Len(delivered[b]) \in Nat
    BY Balance
  <2>2. ~(next[b] < Size[b])
    <3> SUFFICES ASSUME next[b] < Size[b] PROVE FALSE
      OBVIOUS
    <3>1. PICK i \in 1..Len(queue) : queue[i] = b
      BY DEF DeliveryInv, QueueOK
    <3>2. i \in DOMAIN queue
      BY <3>1 DEF DeliveryInv, Typed
    <3>. QED
      BY <3>1, <3>2 DEF InQueue
  <2>3. InHand(b, Undelivered)
    BY <2>1, <2>2
  <2>. QED
    BY <2>3, BatchesAssumption DEF InHand, DeliveryInv, InHandOK
<1>. QED
  BY <1>1, DeliveryCorrect, PTL

LEMMA DoneIsDrained ==
  DeliveryInv /\ workerDone => \A b \in Batches : status[b] = "published" => Finished(b)
<1> SUFFICES ASSUME DeliveryInv, workerDone, NEW b \in Batches, status[b] = "published"
             PROVE  Finished(b)
  OBVIOUS
<1>1. /\ next[b] \in Nat /\ completed[b] \in Nat /\ Size[b] \in Nat /\ next[b] <= Size[b]
      /\ AccountOK!(b)
  BY Balance
<1>2. wpc = "exited" /\ queue = <<>>
  BY DEF DeliveryInv, ExitOK, DoneOK
<1>3. ~(next[b] < Size[b])
  BY <1>2 DEF DeliveryInv, QueueOK
<1>4. ~InHand(b, Uncounted)
  BY <1>2 DEF InHand, Uncounted, Undelivered
<1>. QED
  BY <1>1, <1>3, <1>4 DEF Finished

\* A worker that has declared itself done leaves no accepted batch unfinished.
THEOREM NothingLeft == Spec => []NothingLeftBehind
<1>1. DeliveryInv => NothingLeftBehind
  BY DoneIsDrained DEF NothingLeftBehind, DeliveryInv, DoneOK
<1>. QED
  BY <1>1, DeliveryCorrect, PTL

\* When close() returns on a client, every accepted batch is finished.
THEOREM CloseDrains == Spec => CloseReturnsDrained
<1> DEFINE Step == \A t \in Clients : pc[t] = "join" /\ pc'[t] = "idle" =>
                     \A b \in Batches : status[b] = "published" => Finished(b)
<1>1. DeliveryInv /\ [Next]_vars => [Step]_vars
  <2> SUFFICES ASSUME DeliveryInv, Next, NEW t \in Clients, pc[t] = "join", pc'[t] = "idle",
                      NEW b \in Batches, status[b] = "published"
               PROVE  Finished(b)
    OBVIOUS
  <2>1. t \in Threads /\ t # Worker /\ pc \in [Threads -> CallLocs]
    BY ThreadsAssumption DEF Threads, DeliveryInv, Typed
  <2>2. ~UNCHANGED pc
    BY <2>1
  <2>3. ~WorkerStep /\ ~Idle
    BY <2>2 DEF WorkerStep, Run, Idle, StopDeferring, DeferToSyncCallers, DeferTimeout, FindNothing,
       WaitForWork, CheckToken, TakeDecoder, Decode, ReleaseTurn, NotifyTurn, Deliver,
       HandlerReturns, Account, NotifyDone, Forget, SpinOrDrain, Dispatch, Exit
  <2>4. PICK u \in Threads : BeginCall(u) \/ CallStep(u) \/ WaitTimeout(u) \/ SpuriousWake(u)
    BY <2>3 DEF Next
  <2>5. \A v \in Threads : v # u => pc'[v] = pc[v]
    BY <2>1, <2>4 DEF BeginCall, CallStep, WaitTimeout, SpuriousWake, ImageAtStep, Move, Begin,
       Announce, PassTurn, ParkOnTurn, LockDecoder, LeaveWaiters, NotifyWorker, FinishImageAt,
       NotifyOne, ReturnFromWait, ParkOnDone, RequestStop, RaiseStopFlag, WakeAll, JoinAndReset,
       CallImageAt, CancelAll, Close, GenerateImages, GenerateNothing, Cancel, Wait
  <2>6. u = t
    BY <2>1, <2>5
  <2>7. JoinAndReset(t)
    BY <2>1, <2>4, <2>6 DEF BeginCall, CallStep, WaitTimeout, SpuriousWake, ImageAtStep, Move, Begin,
       Announce, PassTurn, ParkOnTurn, LockDecoder, LeaveWaiters, NotifyWorker, FinishImageAt,
       NotifyOne, ReturnFromWait, ParkOnDone, RequestStop, RaiseStopFlag, WakeAll,
       CallImageAt, CancelAll, Close, GenerateImages, GenerateNothing, Cancel, Wait
  <2>8. workerDone
    BY <2>1, <2>7 DEF JoinAndReset, Joined, DeliveryInv, ExitOK
  <2>. QED
    BY <2>8, DoneIsDrained
<1>. QED
  BY <1>1, DeliveryCorrect, PTL DEF Spec, CloseReturnsDrained

-----------------------------------------------------------------------------
(* The worker's turn.                                                      *)

TurnInv == Typed /\ TurnDiscipline

LEMMA TurnNext == TurnInv /\ [Next]_vars => TurnInv'
<1> SUFFICES ASSUME TurnInv, [Next]_vars PROVE TurnDiscipline'
  BY TypedNext DEF TurnInv
<1> USE DEF TurnInv, TurnDiscipline
<1>1. CASE UNCHANGED vars
  BY <1>1
<1>2. CASE WorkerStep
  <2>1. CASE DeferTimeout
    BY <2>1 DEF DeferTimeout, Run, NoSyncWaiters
  <2>2. CASE ReleaseTurn
    BY <2>2 DEF ReleaseTurn, Run, Typed
  <2>3. CASE ~DeferTimeout /\ ~ReleaseTurn
    <3>1. UNCHANGED <<workerTurn, claimedTurn, stopping>>
      BY <1>2, <2>3 DEF WorkerStep, Run, StopDeferring, DeferToSyncCallers, FindNothing,
         WaitForWork, CheckToken, TakeDecoder, Decode, NotifyTurn, Deliver, HandlerReturns,
         Account, NotifyDone, Forget, SpinOrDrain, Dispatch, Exit
    <3>2. wpc \in {"take", "check", "lock", "decode", "release"}
            => wpc' \in {"take", "check", "lock", "decode", "release"}
      BY <1>2, <2>3 DEF WorkerStep, Run, StopDeferring, DeferToSyncCallers, FindNothing,
         WaitForWork, CheckToken, TakeDecoder, Decode, NotifyTurn, Deliver, HandlerReturns,
         Account, NotifyDone, Forget, SpinOrDrain, Dispatch, Exit
    <3>. QED
      BY <3>1, <3>2
  <2>. QED
    BY <2>1, <2>2, <2>3
<1>3. ASSUME NEW t \in Threads, BeginCall(t) \/ CallStep(t) \/ WaitTimeout(t) \/ SpuriousWake(t)
      PROVE  TurnDiscipline'
  <2>1. UNCHANGED <<claimedTurn, wpc>>
    BY <1>3 DEF BeginCall, CallStep, WaitTimeout, SpuriousWake, ImageAtStep, Move, Begin,
       Announce, PassTurn, ParkOnTurn, LockDecoder, LeaveWaiters, NotifyWorker, FinishImageAt,
       NotifyOne, ReturnFromWait, ParkOnDone, RequestStop, RaiseStopFlag, WakeAll, JoinAndReset,
       CallImageAt, CancelAll, Close, GenerateImages, GenerateNothing, Cancel, Wait
  <2>2. UNCHANGED <<workerTurn, stopping>> \/ ~workerTurn'
    BY <1>3 DEF BeginCall, CallStep, WaitTimeout, SpuriousWake, ImageAtStep, Move, Begin,
       Announce, PassTurn, ParkOnTurn, LockDecoder, LeaveWaiters, NotifyWorker, FinishImageAt,
       NotifyOne, ReturnFromWait, ParkOnDone, RequestStop, RaiseStopFlag, WakeAll, JoinAndReset,
       CallImageAt, CancelAll, Close, GenerateImages, GenerateNothing, Cancel, Wait
  <2>. QED
    BY <2>1, <2>2
<1>. QED
  BY <1>1, <1>2, <1>3 DEF Next, Idle

\* A claimed turn never outlives its item's decode and never survives requestStop().
THEOREM TurnIsTransient == Spec => []TurnDiscipline
<1>1. Init => TurnInv
  <2>1. Init => TurnDiscipline
    BY DEF Init, TurnDiscipline
  <2>. QED
    BY <2>1, TypedInit DEF TurnInv
<1>2. TurnInv => TurnDiscipline
  BY DEF TurnInv
<1>. QED
  BY <1>1, <1>2, TurnNext, PTL DEF Spec

-----------------------------------------------------------------------------
(* Who sleeps, and who is on the way to wake him: what the invariant says. *)

\* Who sleeps: a client on the turn or on its batch, the worker between two items.
SleepersOK ==
  /\ \A t \in Clients : ~Awake(t) => pc[t] \in {"turn", "wait"}
  /\ ~Awake(Worker) => wpc \in {"defer", "take"}

\* The worker calls in from a handler only, and never waits on a batch.
HandlerCallsOK == pc[Worker] # "wait" /\ (pc[Worker] # "idle" => wpc = "handler")

\* Whoever waits on a batch waits on one that was accepted or refused.
WaitsOK == \A t \in Threads : pc[t] = "wait" => arg[t] \in Batches /\ status[arg[t]] # "unused"

\* syncWaiters counts the calls between announcing themselves and leaving.
Waiting == {t \in Threads : pc[t] \in {"turn", "lock", "leave"}}
WaitersOK == IsFiniteSet(Waiting) /\ syncWaiters = Cardinality(Waiting)

\* The four conditions a thread may sleep on, and who is about to notify each.
WorkAnnounced ==
  ~Awake(Worker) /\ wpc = "take" /\ (queue # <<>> \/ stopping)
    => SomeoneAt({"notifyOne", "raise", "wake"})
WayAnnounced ==
  ~Awake(Worker) /\ wpc = "defer" /\ NoSyncWaiters => SomeoneAt({"notify", "raise", "wake"})
TurnAnnounced ==
  \A t \in asleep :
    pc[t] = "turn" /\ MayPassTurn => wpc = "notifyTurn" \/ SomeoneAt({"raise", "wake"})
EndAnnounced ==
  \A t \in asleep : pc[t] = "wait" /\ Finished(arg[t]) => wpc = "notifyDone" /\ batch = arg[t]

Awaited == SleepersOK /\ HandlerCallsOK /\ WaitsOK /\ WaitersOK
Announced == WorkAnnounced /\ WayAnnounced /\ TurnAnnounced /\ EndAnnounced

-----------------------------------------------------------------------------
(* Sleeping and waking: the worker's steps.                                *)

\* The groups of variables the actions leave alone.
USE DEF vars, queueVars, stopVars, turnVars, decoderVars, batchVars, itemVars, callVars, history

\* A step of the worker leaves every call where it is.
LEMMA WorkerStepFrame ==
  ASSUME WorkerStep
  PROVE  /\ UNCHANGED <<stopping, stopFlag, syncWaiters, status, pc, arg>>
         /\ queue' # <<>> => queue # <<>>
BY DEF WorkerStep, Run, StopDeferring, DeferToSyncCallers, DeferTimeout, Dispatch, FindNothing,
   WaitForWork, CheckToken, TakeDecoder, Decode, ReleaseTurn, NotifyTurn, Deliver, HandlerReturns,
   Account, NotifyDone, Forget, SpinOrDrain, Exit

\* The steps after which the worker sleeps.
LEMMA WorkerFallsAsleep ==
  ASSUME WorkerStep, SleepersOK, Worker \in asleep'
  PROVE  \/ wpc' = "take" /\ queue' = <<>> /\ ~stopping'
         \/ wpc' = "defer" /\ ~NoSyncWaiters'
<1>1. CASE DeferToSyncCallers
  BY <1>1 DEF DeferToSyncCallers, Run, NoSyncWaiters
<1>2. CASE WaitForWork
  BY <1>2 DEF WaitForWork, Run
<1>3. CASE DeferTimeout
  BY <1>3 DEF DeferTimeout
<1>4. CASE ~DeferToSyncCallers /\ ~WaitForWork /\ ~DeferTimeout
  <2>1. wpc \in {"defer", "take"} => Awake(Worker)
    BY <1>4 DEF WorkerStep, Run, StopDeferring, Dispatch, FindNothing, CheckToken, TakeDecoder,
       Decode, ReleaseTurn,
       NotifyTurn, Deliver, HandlerReturns, Account, NotifyDone, Forget, SpinOrDrain, Exit
  <2>2. Worker \notin asleep
    BY <2>1 DEF SleepersOK, Awake
  <2>3. asleep' \subseteq asleep
    BY <1>4 DEF WorkerStep, Run, StopDeferring, Dispatch, FindNothing, CheckToken, TakeDecoder,
       Decode, ReleaseTurn,
       NotifyTurn, Deliver, HandlerReturns, Account, NotifyDone, Forget, SpinOrDrain, Exit,
       WakeTurnCv, WakeDoneCv
  <2> QED
    BY <2>2, <2>3
<1> QED
  BY <1>1, <1>2, <1>3, <1>4

\* Nobody else is put to sleep by them.
LEMMA WorkerSleepsAlone ==
  ASSUME WorkerStep
  PROVE  asleep' \subseteq asleep \cup {Worker}
BY DEF WorkerStep, Run, StopDeferring, DeferToSyncCallers, DeferTimeout, Dispatch, FindNothing,
   WaitForWork, CheckToken, TakeDecoder, Decode, ReleaseTurn, NotifyTurn, Deliver, HandlerReturns,
   Account, NotifyDone, Forget, SpinOrDrain, Exit, WakeTurnCv, WakeDoneCv

\* A turn that is given back is announced by the next step, which wakes everybody parked on it.
LEMMA WorkerPassesTurn ==
  ASSUME Typed, WorkerStep, TurnDiscipline, HandlerCallsOK, TurnAnnounced
  PROVE  TurnAnnounced'
<1> SUFFICES ASSUME NEW t \in asleep', pc'[t] = "turn", MayPassTurn',
                        ~SomeoneAt({"raise", "wake"})'
             PROVE  wpc' = "notifyTurn"
  BY DEF TurnAnnounced
<1>1. /\ UNCHANGED <<stopping, stopFlag, syncWaiters, status, pc, arg>>
      /\ asleep' \subseteq asleep \cup {Worker}
  BY WorkerStepFrame, WorkerSleepsAlone
<1>2. ~SomeoneAt({"raise", "wake"})
  BY <1>1 DEF SomeoneAt
<1>3. CASE wpc = "notifyTurn"
  <2>1. NotifyTurn
    BY <1>3 DEF WorkerStep, Run, StopDeferring, DeferToSyncCallers, DeferTimeout, Dispatch,
       FindNothing,
       WaitForWork, CheckToken, TakeDecoder, Decode, ReleaseTurn, Deliver, HandlerReturns,
       Account, NotifyDone, Forget, SpinOrDrain, Exit
  <2>2. t \in asleep /\ t \in Threads /\ ~(pc[t] = "turn")
    BY <2>1, <1>1 DEF NotifyTurn, WakeTurnCv, Typed
  <2> QED
    BY <1>1, <2>2
<1>4. CASE wpc # "notifyTurn" /\ ~MayPassTurn
  BY <1>1, <1>4 DEF WorkerStep, Run, StopDeferring, DeferToSyncCallers, DeferTimeout, Dispatch,
     FindNothing,
     WaitForWork, CheckToken, TakeDecoder, Decode, ReleaseTurn, NotifyTurn, Deliver,
     HandlerReturns,
     Account, NotifyDone, Forget, SpinOrDrain, Exit, MayPassTurn, TurnDiscipline
<1>5. CASE wpc # "notifyTurn" /\ MayPassTurn
  <2>1. t = Worker
    BY <1>1, <1>2, <1>5 DEF TurnAnnounced
  <2>2. wpc = "handler" /\ pc[Worker] # "idle"
    BY <1>1, <2>1 DEF HandlerCallsOK
  <2>3. UNCHANGED asleep
    BY <2>2 DEF WorkerStep, Run, StopDeferring, DeferToSyncCallers, DeferTimeout, Dispatch,
       FindNothing,
       WaitForWork, CheckToken, TakeDecoder, Decode, ReleaseTurn, NotifyTurn, Deliver,
       HandlerReturns,
       Account, NotifyDone, Forget, SpinOrDrain, Exit
  <2> QED
    BY <1>1, <1>2, <1>5, <2>1, <2>3 DEF TurnAnnounced
<1> QED
  BY <1>3, <1>4, <1>5

\* The step that completes a batch goes on to its notification, which wakes everybody
\* who waits on it.
LEMMA WorkerEndsBatch ==
  ASSUME DeliveryInv, WorkerStep, HandlerCallsOK, WaitsOK, EndAnnounced
  PROVE  EndAnnounced'
<1> SUFFICES ASSUME NEW t \in asleep', pc'[t] = "wait", Finished(arg[t])'
             PROVE  wpc' = "notifyDone" /\ batch' = arg[t]
  BY WorkerStepFrame DEF EndAnnounced
<1>1. pc[t] = "wait" /\ t \in asleep /\ t \in Threads
  BY WorkerStepFrame, WorkerSleepsAlone DEF HandlerCallsOK, DeliveryInv, Typed
<1>2. arg[t] \in Batches /\ status[arg[t]] # "unused"
  BY <1>1 DEF WaitsOK
<1>3. Finished(arg[t]) => NotifyDone /\ batch = arg[t]
  BY <1>1 DEF EndAnnounced, WorkerStep, Run, StopDeferring, DeferToSyncCallers, DeferTimeout,
     Dispatch, FindNothing,
       WaitForWork, CheckToken, TakeDecoder, Decode, ReleaseTurn, NotifyTurn, Deliver,
       HandlerReturns,
       Account, NotifyDone, Forget, SpinOrDrain, Exit
<1>4. CASE Account
  <2>1. arg[t] = batch /\ ~Finished(batch) /\ wpc = "account"
    BY <1>2, <1>3, <1>4 DEF Account, NotifyDone, Run, Finished, DeliveryInv, Typed
  <2>2. /\ completed[batch] \in Nat /\ Size[batch] \in Nat
        /\ next[batch] = completed[batch] + 1 /\ next[batch] = index + 1
    BY <1>2, <2>1, Balance DEF DeliveryInv, AccountOK, InHandOK, InHand, Uncounted
  <2>3. completed'[batch] = completed[batch] + 1
    BY <1>2, <1>4, <2>1 DEF Account, DeliveryInv, Typed
  <2>4. IsLast
    BY <2>1, <2>2, <2>3, WorkerStepFrame DEF Finished, IsLast
  <2> QED
    BY <1>4, <2>1, <2>4 DEF Account, Run
<1>5. CASE ~Account
  <2>1. completed' = completed
    BY <1>5 DEF WorkerStep, Run, StopDeferring, DeferToSyncCallers, DeferTimeout, Dispatch,
       FindNothing,
       WaitForWork, CheckToken, TakeDecoder, Decode, ReleaseTurn, NotifyTurn, Deliver,
       HandlerReturns,
       Account, NotifyDone, Forget, SpinOrDrain, Exit
  <2>2. NotifyDone /\ batch = arg[t]
    BY <1>3, <2>1, WorkerStepFrame DEF Finished
  <2> QED
    BY <1>1, <2>2 DEF NotifyDone, WakeDoneCv
<1> QED
  BY <1>4, <1>5

\* A step of the worker keeps everybody announced.
LEMMA WorkerKeepsAnnounced ==
  ASSUME DeliveryInv, TurnDiscipline, Awaited, Announced, WorkerStep
  PROVE  Awaited' /\ Announced'
<1> USE DEF Awaited, Announced
<1>1. UNCHANGED <<stopping, stopFlag, syncWaiters, status, pc, arg>>
  BY WorkerStepFrame
<1>2. WorkAnnounced' /\ WayAnnounced'
  BY WorkerFallsAsleep DEF WorkAnnounced, WayAnnounced, Awake
<1>3. TurnAnnounced' /\ EndAnnounced'
  BY WorkerPassesTurn, WorkerEndsBatch DEF DeliveryInv
<1>4. SleepersOK'
  BY <1>1, WorkerFallsAsleep, WorkerSleepsAlone, ThreadsAssumption DEF SleepersOK, Awake
<1>5. HandlerCallsOK'
  BY <1>1 DEF HandlerCallsOK, WorkerStep, Run, StopDeferring, DeferToSyncCallers, DeferTimeout,
     Dispatch, FindNothing,
       WaitForWork, CheckToken, TakeDecoder, Decode, ReleaseTurn, NotifyTurn, Deliver,
       HandlerReturns,
       Account, NotifyDone, Forget, SpinOrDrain, Exit
<1>6. WaitsOK'
  BY <1>1 DEF WaitsOK
<1>7. WaitersOK'
  BY <1>1 DEF WaitersOK, Waiting
<1> QED
  BY <1>2, <1>3, <1>4, <1>5, <1>6, <1>7

-----------------------------------------------------------------------------
(* Sleeping and waking: the steps of calls.                                *)

\* Every step a thread can take but the worker's own.
ThreadStep(t) == BeginCall(t) \/ CallStep(t) \/ WaitTimeout(t) \/ SpuriousWake(t)

\* Such a step leaves the worker's item and the other threads' calls alone.
LEMMA ThreadStepFrame ==
  ASSUME Typed, NEW t \in Threads, ThreadStep(t)
  PROVE  /\ UNCHANGED <<wpc, batch, claimedTurn>>
         /\ \A u \in Threads : u # t => pc'[u] = pc[u] /\ arg'[u] = arg[u]
BY DEF Typed, ThreadStep, BeginCall, CallStep, WaitTimeout, SpuriousWake, ImageAtStep, Move,
   Begin, Announce,
     PassTurn, ParkOnTurn, LockDecoder, LeaveWaiters, NotifyWorker, FinishImageAt, NotifyOne,
     ReturnFromWait,
     ParkOnDone, RequestStop, RaiseStopFlag, WakeAll, JoinAndReset, CallImageAt, CancelAll, Close,
     GenerateImages, GenerateNothing, Cancel, Wait

\* A thread falls asleep in a call it is in, on a condition that does not hold.
LEMMA ThreadFallsAsleep ==
  ASSUME Typed, NEW t \in Threads, ThreadStep(t)
  PROVE  \/ asleep' \subseteq asleep
         \/ /\ asleep' = asleep \cup {t}
            /\ UNCHANGED <<pc, arg, stopFlag, workerTurn, completed, syncWaiters,
                           stopping, queue, status>>
            /\ \/ pc[t] = "turn" /\ ~MayPassTurn
               \/ pc[t] = "wait" /\ ~Finished(arg[t])
BY DEF WakeQueueCv, Typed, ThreadStep, BeginCall, CallStep, WaitTimeout, SpuriousWake,
   ImageAtStep, Move, Begin, Announce,
     PassTurn, ParkOnTurn, LockDecoder, LeaveWaiters, NotifyWorker, FinishImageAt, NotifyOne,
     ReturnFromWait,
     ParkOnDone, RequestStop, RaiseStopFlag, WakeAll, JoinAndReset, CallImageAt, CancelAll, Close,
     GenerateImages, GenerateNothing, Cancel, Wait

\* Nobody else is put to sleep by it.
LEMMA ThreadSleepsAlone ==
  ASSUME Typed, NEW t \in Threads, ThreadStep(t), NEW u \in asleep', u # t
  PROVE  u \in asleep /\ u \in Threads
<1>1. asleep' \subseteq asleep \cup {t}
  BY ThreadFallsAsleep
<1>2. asleep \subseteq Threads
  BY DEF Typed
<1> QED
  BY <1>1, <1>2

\* The worker calls from its handler.
LEMMA WorkerCallsFromHandler ==
  ASSUME HandlerCallsOK, BeginCall(Worker) \/ CallStep(Worker) \/ WaitTimeout(Worker)
  PROVE  wpc = "handler"
BY DEF HandlerCallsOK, BeginCall, CallStep, WaitTimeout, SpuriousWake, ImageAtStep, Move, Begin,
   Announce,
     PassTurn, ParkOnTurn, LockDecoder, LeaveWaiters, NotifyWorker, FinishImageAt, NotifyOne,
     ReturnFromWait,
     ParkOnDone, RequestStop, RaiseStopFlag, WakeAll, JoinAndReset, CallImageAt, CancelAll, Close,
     GenerateImages, GenerateNothing, Cancel, Wait

\* A call goes on from where a notification is owed only by giving it, or by owing the
\* next one.
LEMMA NotifierGoesOn ==
  ASSUME Typed, NEW t \in Threads, ThreadStep(t), pc[t] \in {"notifyOne", "notify", "raise",
         "wake"}
  PROVE  \/ pc'[t] = pc[t]
         \/ pc[t] \in {"notifyOne", "notify"} /\ WakeQueueCv
         \/ pc[t] = "raise" /\ pc'[t] = "wake"
         \/ asleep' = {u \in asleep : pc[u] = "wait"}
BY DEF Typed, ThreadStep, BeginCall, CallStep, WaitTimeout, SpuriousWake, ImageAtStep, Move,
   Begin, Announce,
     PassTurn, ParkOnTurn, LockDecoder, LeaveWaiters, NotifyWorker, FinishImageAt, NotifyOne,
     ReturnFromWait,
     ParkOnDone, RequestStop, RaiseStopFlag, WakeAll, JoinAndReset, CallImageAt, CancelAll, Close,
     GenerateImages, GenerateNothing, Cancel, Wait

\* A call that makes a condition true owes the notification.
LEMMA ChangeIsOwed ==
  ASSUME Typed, NEW t \in Threads, ThreadStep(t)
  PROVE  /\ queue' # queue => pc'[t] = "notifyOne"
         /\ stopping' # stopping \/ workerTurn' # workerTurn => pc'[t] = "raise"
         /\ stopFlag' # stopFlag => pc'[t] = "wake"
         /\ syncWaiters' # syncWaiters => pc'[t] = "notify" \/ syncWaiters' = syncWaiters + 1
         /\ \A b \in Batches :
              status[b] # "unused" => completed'[b] = completed[b] /\ status'[b] # "unused"
BY DEF Typed, ThreadStep, BeginCall, CallStep, WaitTimeout, SpuriousWake, ImageAtStep, Move,
   Begin, Announce,
     PassTurn, ParkOnTurn, LockDecoder, LeaveWaiters, NotifyWorker, FinishImageAt, NotifyOne,
     ReturnFromWait,
     ParkOnDone, RequestStop, RaiseStopFlag, WakeAll, JoinAndReset, CallImageAt, CancelAll, Close,
     GenerateImages, GenerateNothing, Cancel, Wait

\* Where somebody owes a notification, somebody still does, or it has been given.
LEMMA StillOwed ==
  ASSUME Typed, NEW t \in Threads, ThreadStep(t),
         NEW locs \in {{"notifyOne", "raise", "wake"}, {"notify", "raise", "wake"},
                       {"raise", "wake"}},
         SomeoneAt(locs)
  PROVE  \/ SomeoneAt(locs)'
         \/ asleep' = {u \in asleep : pc[u] = "wait"}
         \/ WakeQueueCv /\ locs # {"raise", "wake"}
<1>1. PICK u \in Threads : pc[u] \in locs
  BY DEF SomeoneAt
<1>2. CASE u # t
  BY <1>1, <1>2, ThreadStepFrame DEF SomeoneAt
<1>3. CASE u = t
  <2>1. pc[t] \in {"notifyOne", "notify", "raise", "wake"}
    BY <1>1, <1>3
  <2>2. CASE pc'[t] = pc[t]
    BY <1>1, <1>3, <2>2 DEF SomeoneAt
  <2>3. CASE pc[t] \in {"notifyOne", "notify"} /\ WakeQueueCv
    BY <1>1, <1>3, <2>3
  <2>4. CASE pc[t] = "raise" /\ pc'[t] = "wake"
    BY <2>4 DEF SomeoneAt
  <2> QED
    BY <2>1, <2>2, <2>3, <2>4, NotifierGoesOn
<1> QED
  BY <1>2, <1>3

\* A caller is counted from its announcement until it leaves.
LEMMA WaitersAreCounted ==
  ASSUME Typed, NEW t \in Threads, ThreadStep(t), WaitersOK
  PROVE  WaitersOK'
<1>1. CASE Announce(t)
  <2>1. Waiting' = Waiting \cup {t} /\ t \notin Waiting /\ syncWaiters' = syncWaiters + 1
    BY <1>1 DEF Announce, Move, Waiting, Typed
  <2> QED
    BY <2>1, FS_AddElement DEF WaitersOK
<1>2. CASE LeaveWaiters(t)
  <2>1. Waiting' = Waiting \ {t} /\ t \in Waiting /\ syncWaiters' = syncWaiters - 1
    BY <1>2 DEF LeaveWaiters, Move, Waiting, Typed
  <2> QED
    BY <2>1, FS_RemoveElement DEF WaitersOK
<1>3. CASE ~Announce(t) /\ ~LeaveWaiters(t)
  <2>1. syncWaiters' = syncWaiters
    BY <1>3 DEF ThreadStep, BeginCall, CallStep, WaitTimeout, SpuriousWake, ImageAtStep, Move,
       Begin, Announce,
       PassTurn, ParkOnTurn, LockDecoder, LeaveWaiters, NotifyWorker, FinishImageAt, NotifyOne,
       ReturnFromWait,
       ParkOnDone, RequestStop, RaiseStopFlag, WakeAll, JoinAndReset, CallImageAt, CancelAll,
       Close,
       GenerateImages, GenerateNothing, Cancel, Wait
  <2>2. pc'[t] \in {"turn", "lock", "leave"} <=> pc[t] \in {"turn", "lock", "leave"}
    BY <1>3 DEF Typed, ThreadStep, BeginCall, CallStep, WaitTimeout, SpuriousWake, ImageAtStep,
       Move, Begin, Announce,
       PassTurn, ParkOnTurn, LockDecoder, LeaveWaiters, NotifyWorker, FinishImageAt, NotifyOne,
       ReturnFromWait,
       ParkOnDone, RequestStop, RaiseStopFlag, WakeAll, JoinAndReset, CallImageAt, CancelAll,
       Close,
       GenerateImages, GenerateNothing, Cancel, Wait
  <2>3. Waiting' = Waiting
    BY <2>2, ThreadStepFrame DEF Waiting
  <2> QED
    BY <2>1, <2>3 DEF WaitersOK
<1> QED
  BY <1>1, <1>2, <1>3

\* The worker never parks in a call: from a handler, no turn is claimed and no batch is
\* waited for.
LEMMA WorkerNeverParks ==
  ASSUME Typed, NEW t \in Threads, ThreadStep(t), TurnDiscipline, HandlerCallsOK,
         Worker \in asleep'
  PROVE  Worker \in asleep
<1>1. CASE asleep' \subseteq asleep
  BY <1>1
<1>2. CASE ~(asleep' \subseteq asleep) /\ t # Worker
  BY <1>2, ThreadFallsAsleep
<1>3. CASE ~(asleep' \subseteq asleep) /\ t = Worker
  <2>1. pc[Worker] = "turn" /\ ~MayPassTurn
    BY <1>3, ThreadFallsAsleep DEF HandlerCallsOK
  <2> QED
    BY <2>1 DEF HandlerCallsOK, TurnDiscipline, MayPassTurn
<1> QED
  BY <1>1, <1>2, <1>3

\* The worker that sleeps is woken for work, and for its way to the decoder.
LEMMA ThreadsAnnounceToWorker ==
  ASSUME Typed, NEW t \in Threads, ThreadStep(t), Awaited, TurnDiscipline,
         WorkAnnounced, WayAnnounced
  PROVE  WorkAnnounced' /\ WayAnnounced'
<1> SUFFICES ASSUME Worker \in asleep'
             PROVE  WorkAnnounced' /\ WayAnnounced'
  BY DEF WorkAnnounced, WayAnnounced, Awake
<1>1. /\ UNCHANGED wpc
      /\ Worker \in Threads
  BY ThreadStepFrame DEF Threads
<1>2. Worker \in asleep
  BY WorkerNeverParks DEF Awaited
<1>3. wpc \in {"defer", "take"} /\ pc[Worker] = "idle"
  BY <1>2 DEF Awaited, SleepersOK, HandlerCallsOK, Awake
<1>4. ~WakeQueueCv /\ asleep' # {u \in asleep : pc[u] = "wait"}
  BY <1>3 DEF WakeQueueCv
<1>5. WorkAnnounced'
  <2> SUFFICES ASSUME wpc = "take", queue' # <<>> \/ stopping'
               PROVE  SomeoneAt({"notifyOne", "raise", "wake"})'
    BY <1>1 DEF WorkAnnounced
  <2>1. CASE queue # <<>> \/ stopping
    BY <1>2, <1>4, <2>1, StillOwed DEF WorkAnnounced, Awake
  <2>2. CASE queue = <<>> /\ ~stopping
    BY <2>2, ChangeIsOwed DEF SomeoneAt
  <2> QED
    BY <2>1, <2>2
<1>6. WayAnnounced'
  <2> SUFFICES ASSUME wpc = "defer", NoSyncWaiters'
               PROVE  SomeoneAt({"notify", "raise", "wake"})'
    BY <1>1 DEF WayAnnounced
  <2>1. CASE NoSyncWaiters
    BY <1>2, <1>4, <2>1, StillOwed DEF WayAnnounced, Awake
  <2>2. CASE ~NoSyncWaiters
    <3>1. syncWaiters \in Nat
      BY FS_CardinalityType DEF Awaited, WaitersOK
    <3>2. stopping' # stopping \/ (syncWaiters' # syncWaiters /\ syncWaiters' # syncWaiters + 1)
      BY <2>2, <3>1 DEF NoSyncWaiters
    <3> QED
      BY <3>2, ChangeIsOwed DEF SomeoneAt
  <2> QED
    BY <2>1, <2>2
<1> QED
  BY <1>5, <1>6

\* A thread that still sleeps has not moved.
LEMMA SleeperStays ==
  ASSUME Typed, NEW t \in Threads, ThreadStep(t), t \in asleep, t \in asleep', SleepersOK,
         HandlerCallsOK
  PROVE  pc'[t] = pc[t] /\ arg'[t] = arg[t]
BY DEF WakeQueueCv, Awake, SleepersOK, HandlerCallsOK, Threads, Typed, ThreadStep, BeginCall,
   CallStep, WaitTimeout, SpuriousWake, ImageAtStep, Move, Begin, Announce,
     PassTurn, ParkOnTurn, LockDecoder, LeaveWaiters, NotifyWorker, FinishImageAt, NotifyOne,
     ReturnFromWait,
     ParkOnDone, RequestStop, RaiseStopFlag, WakeAll, JoinAndReset, CallImageAt, CancelAll, Close,
     GenerateImages, GenerateNothing, Cancel, Wait

\* Callers parked on a turn are woken when they may pass.
LEMMA ThreadsAnnounceTurn ==
  ASSUME Typed, NEW t \in Threads, ThreadStep(t), SleepersOK, HandlerCallsOK, TurnAnnounced
  PROVE  TurnAnnounced'
<1> SUFFICES ASSUME NEW u \in asleep', pc'[u] = "turn", MayPassTurn'
             PROVE  wpc = "notifyTurn" \/ SomeoneAt({"raise", "wake"})'
  BY ThreadStepFrame DEF TurnAnnounced
<1>1. u \in asleep /\ pc[u] = "turn"
  <2>1. CASE u # t
    BY <2>1, ThreadSleepsAlone, ThreadStepFrame
  <2>2. CASE u = t /\ asleep' \subseteq asleep
    BY <2>2, SleeperStays
  <2>3. CASE u = t /\ ~(asleep' \subseteq asleep)
    BY <2>3, ThreadFallsAsleep DEF MayPassTurn
  <2> QED
    BY <2>1, <2>2, <2>3
<1>2. CASE MayPassTurn
  <2>1. asleep' # {v \in asleep : pc[v] = "wait"}
    BY <1>1
  <2> QED
    BY <1>1, <1>2, <2>1, StillOwed DEF TurnAnnounced
<1>3. CASE ~MayPassTurn
  BY <1>3, ChangeIsOwed DEF MayPassTurn, SomeoneAt
<1> QED
  BY <1>2, <1>3

\* Nothing but the worker ends a batch somebody waits on.
LEMMA ThreadsAnnounceEnd ==
  ASSUME Typed, NEW t \in Threads, ThreadStep(t), Awaited, EndAnnounced
  PROVE  EndAnnounced'
<1> SUFFICES ASSUME NEW u \in asleep', pc'[u] = "wait", completed'[arg'[u]] >= Size[arg'[u]]
             PROVE  wpc = "notifyDone" /\ batch = arg'[u]
  BY ThreadStepFrame DEF EndAnnounced, Finished
<1>1. u \in asleep /\ u \in Threads /\ pc[u] = "wait" /\ arg'[u] = arg[u]
  <2>1. CASE u # t
    BY <2>1, ThreadSleepsAlone, ThreadStepFrame
  <2>2. CASE u = t /\ asleep' \subseteq asleep
    BY <2>2, SleeperStays DEF Awaited
  <2>3. CASE u = t /\ ~(asleep' \subseteq asleep)
    BY <2>3, ThreadFallsAsleep DEF Finished
  <2> QED
    BY <2>1, <2>2, <2>3
<1>2. arg[u] \in Batches /\ completed'[arg[u]] = completed[arg[u]]
  BY <1>1, ChangeIsOwed DEF Awaited, WaitsOK
<1> QED
  BY <1>1, <1>2 DEF EndAnnounced, Finished

\* A step of a call keeps everybody announced.
LEMMA ThreadKeepsAnnounced ==
  ASSUME Typed, TurnDiscipline, Awaited, Announced, NEW t \in Threads, ThreadStep(t)
  PROVE  Awaited' /\ Announced'
<1>1. Announced'
  BY ThreadsAnnounceToWorker, ThreadsAnnounceTurn, ThreadsAnnounceEnd DEF Awaited, Announced
<1>2. WaitersOK'
  BY WaitersAreCounted DEF Awaited
<1>3. HandlerCallsOK'
  <2>1. CASE t # Worker
    BY <2>1, ThreadStepFrame DEF Awaited, HandlerCallsOK, Threads
  <2>2. CASE t = Worker /\ SpuriousWake(t)
    BY <2>2 DEF SpuriousWake, Awaited, HandlerCallsOK
  <2>3. CASE t = Worker /\ ~SpuriousWake(t)
    <3>1. wpc = "handler" /\ wpc' = wpc
      BY <2>3, WorkerCallsFromHandler, ThreadStepFrame DEF ThreadStep, Awaited
    <3>2. pc'[Worker] # "wait"
      BY <2>3 DEF Awaited, HandlerCallsOK, Typed, ThreadStep, BeginCall, CallStep, WaitTimeout,
         SpuriousWake, ImageAtStep, Move, Begin, Announce,
       PassTurn, ParkOnTurn, LockDecoder, LeaveWaiters, NotifyWorker, FinishImageAt, NotifyOne,
       ReturnFromWait,
       ParkOnDone, RequestStop, RaiseStopFlag, WakeAll, JoinAndReset, CallImageAt, CancelAll,
       Close,
       GenerateImages, GenerateNothing, Cancel, Wait
    <3> QED
      BY <3>1, <3>2 DEF HandlerCallsOK
  <2> QED
    BY <2>1, <2>2, <2>3
<1>4. SleepersOK'
  <2>1. ~Awake(Worker)' => wpc' \in {"defer", "take"}
    BY WorkerNeverParks, ThreadStepFrame DEF Awaited, SleepersOK, Awake
  <2>2. ASSUME NEW v \in Clients, v \in asleep'
        PROVE  pc'[v] \in {"turn", "wait"}
    <3>1. v \in Threads
      BY DEF Threads
    <3>2. CASE v # t
      BY <2>2, <3>1, <3>2, ThreadFallsAsleep, ThreadStepFrame DEF Awaited, SleepersOK, Awake
    <3>3. CASE v = t /\ asleep' \subseteq asleep
      BY <2>2, <3>3, SleeperStays DEF Awaited, SleepersOK, Awake
    <3>4. CASE v = t /\ ~(asleep' \subseteq asleep)
      BY <3>4, ThreadFallsAsleep
    <3> QED
      BY <3>2, <3>3, <3>4
  <2> QED
    BY <2>1, <2>2 DEF SleepersOK, Awake
<1>5. WaitsOK'
  <2> SUFFICES ASSUME NEW v \in Threads, pc'[v] = "wait"
               PROVE  arg'[v] \in Batches /\ status'[arg'[v]] # "unused"
    BY DEF WaitsOK
  <2>1. CASE pc[v] = "wait" /\ arg'[v] = arg[v]
    BY <2>1, ChangeIsOwed DEF Awaited, WaitsOK
  <2>2. CASE v # t
    BY <2>1, <2>2, ThreadStepFrame
  <2>3. CASE v = t /\ ~(pc[v] = "wait" /\ arg'[v] = arg[v])
    BY <2>3 DEF Typed, ThreadStep, BeginCall, CallStep, WaitTimeout, SpuriousWake, ImageAtStep,
       Move, Begin, Announce,
       PassTurn, ParkOnTurn, LockDecoder, LeaveWaiters, NotifyWorker, FinishImageAt, NotifyOne,
       ReturnFromWait,
       ParkOnDone, RequestStop, RaiseStopFlag, WakeAll, JoinAndReset, CallImageAt, CancelAll,
       Close,
       GenerateImages, GenerateNothing, Cancel, Wait
  <2> QED
    BY <2>1, <2>2, <2>3
<1> QED
  BY <1>1, <1>2, <1>3, <1>4, <1>5 DEF Awaited

-----------------------------------------------------------------------------
(* Sleeping and waking: the invariant, and what follows from it.           *)

\* At the start nobody sleeps and nobody is counted.
LEMMA WakeupInit == Init => Awaited /\ Announced
<1> SUFFICES ASSUME Init PROVE Awaited /\ Announced
  OBVIOUS
<1>1. /\ asleep = {} /\ syncWaiters = 0 /\ Worker \in Threads
      /\ \A t \in Threads : pc[t] = "idle"
  BY DEF Init, Threads
<1>2. WaitersOK
  <2>1. Waiting = {}
    BY <1>1 DEF Waiting
  <2> QED
    BY <1>1, <2>1, FS_EmptySet DEF WaitersOK
<1> QED
  BY <1>1, <1>2 DEF Awaited, Announced, SleepersOK, HandlerCallsOK, WaitsOK, WorkAnnounced,
     WayAnnounced,
     TurnAnnounced, EndAnnounced, Awake

\* Every step keeps everybody announced.
LEMMA WakeupNext ==
  DeliveryInv /\ TurnDiscipline /\ Awaited /\ Announced /\ [Next]_vars => Awaited' /\ Announced'
<1> SUFFICES ASSUME DeliveryInv, TurnDiscipline, Awaited, Announced, [Next]_vars
             PROVE  Awaited' /\ Announced'
  OBVIOUS
<1>1. CASE WorkerStep
  BY <1>1, WorkerKeepsAnnounced
<1>2. ASSUME NEW t \in Threads, ThreadStep(t)
      PROVE  Awaited' /\ Announced'
  BY <1>2, ThreadKeepsAnnounced DEF DeliveryInv
<1>3. CASE UNCHANGED vars
  BY <1>3 DEF Awaited, Announced, SleepersOK, HandlerCallsOK, WaitsOK, WaitersOK, Waiting,
     WorkAnnounced,
     WayAnnounced, TurnAnnounced, EndAnnounced, Awake, SomeoneAt, NoSyncWaiters, MayPassTurn,
     Finished
<1> QED
  BY <1>1, <1>2, <1>3 DEF Next, Idle, ThreadStep

\* The inductive invariant of sleeping and waking: who may sleep, on what, that the count
\* of waiting callers is true, and who is about to notify.
THEOREM WakeupCorrect == Spec => [](Awaited /\ Announced)
<1> QED
  BY WakeupInit, WakeupNext, DeliveryCorrect, TurnIsTransient, PTL DEF Spec

\* Engine.h, the waits on queueCv, turnCv and doneCv: whoever sleeps on a condition that
\* has come true is about to be notified, with any number of callers and waiters.
THEOREM WakeupsAreNotLost == Spec => []NoLostWakeup
<1>1. Awaited /\ Announced => NoLostWakeup
  BY DEF Announced, WorkAnnounced, WayAnnounced, TurnAnnounced, EndAnnounced, NoLostWakeup, Awake
<1> QED
  BY <1>1, WakeupCorrect, PTL

\* A handler that calls imageAt(), wait(), close() or anything else never parks the
\* worker it runs on.
THEOREM HandlersRun == Spec => []HandlerNeverParks
<1>1. Awaited => HandlerNeverParks
  BY DEF Awaited, SleepersOK, HandlerNeverParks
<1> QED
  BY <1>1, WakeupCorrect, PTL

=============================================================================
