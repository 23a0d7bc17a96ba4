----------------------- MODULE EngineRefinementProofs -----------------------
(***************************************************************************)
(* Engine implements GenerationContract, for any number of clients,        *)
(* batches and items: every step of a thread is, seen by a caller, a step  *)
(* the contract allows, or none.                                           *)
(***************************************************************************)
EXTENDS EngineProofs

\* Batches are published once each.
PublishedOK ==
  /\ \A b \in Batches :
       status[b] = "published" <=> \E i \in 1..Len(published) : published[i] = b
  /\ \A i, j \in 1..Len(published) : published[i] = published[j] => i = j

\* How many batches have left the queue.
Left == Len(published) - Len(queue)

\* The queue is the end of the publication order, and the batch in hand is the last one
\* that left it or its head.
ServiceOrderOK ==
  /\ Len(queue) <= Len(published)
  /\ \A i \in 1..Len(queue) : queue[i] = published[Left + i]
  /\ batch # None => \E i \in 1..Len(published) : published[i] = batch /\ i <= Left + 1

\* An item on its way out as cancelled has had its cancellation requested.
CancelledOK ==
  wpc \in {"release", "notifyTurn", "deliver"} /\ batch # None /\ result = "cancelled"
    => TokenRequested

\* Whatever only teardown brings about comes after requestStop().
TeardownOK ==
  /\ \A t \in Threads : pc[t] \in {"raise", "wake", "join"} => stopping
  /\ stopFlag \/ engine = "null" \/ workerDone => stopping

ContractInv == PublishedOK /\ ServiceOrderOK /\ CancelledOK /\ TeardownOK

-----------------------------------------------------------------------------
(* The order of service.                                                   *)

\* The groups of variables the actions leave alone.
USE DEF vars, queueVars, stopVars, turnVars, decoderVars, batchVars, itemVars, callVars, history

\* The steps that move neither a batch nor the queue.
LEMMA OrderKept ==
  ASSUME PublishedOK, ServiceOrderOK, UNCHANGED <<queue, published, status, batch>>
  PROVE  PublishedOK' /\ ServiceOrderOK'
BY DEF PublishedOK, ServiceOrderOK, Left

\* The head of the queue is the next batch of the publication order.
LEMMA DispatchKeepsOrder ==
  ASSUME Typed, PublishedOK, ServiceOrderOK, Dispatch
  PROVE  PublishedOK' /\ ServiceOrderOK'
<1>1. /\ queue # <<>> /\ batch' = Head(queue)
      /\ queue' = queue \/ queue' = Tail(queue)
      /\ UNCHANGED <<published, status>>
  BY DEF Dispatch, Run
<1>2. /\ queue \in Seq(Batches) /\ Len(published) \in Nat
      /\ Len(queue) \in Nat \ {0} /\ Head(queue) = queue[1]
  BY <1>1, HeadTail DEF Typed
<1>3. Len(queue) <= Len(published) /\ queue[1] = published[Left + 1] /\ Left + 1 \in 1..Len(published)
  BY <1>2 DEF ServiceOrderOK, Left
<1>4. PublishedOK'
  BY <1>1 DEF PublishedOK
<1>5. CASE queue' = queue
  BY <1>1, <1>2, <1>3, <1>4, <1>5 DEF ServiceOrderOK, Left
<1>6. CASE queue' = Tail(queue)
  <2>1. /\ Len(queue') = Len(queue) - 1
        /\ \A i \in 1..Len(queue') : queue'[i] = queue[i + 1]
    BY <1>1, <1>2, <1>6, HeadTail
  <2>2. Left' = Left + 1 /\ Left \in Nat
    BY <1>1, <1>2, <1>3, <2>1 DEF Left
  <2>3. ASSUME NEW i \in 1..Len(queue') PROVE queue'[i] = published'[Left' + i]
    <3>1. i + 1 \in 1..Len(queue)
      BY <1>2, <2>1
    <3>2. queue[i + 1] = published[Left + (i + 1)] /\ Left + (i + 1) = Left' + i
      BY <3>1, <2>2 DEF ServiceOrderOK
    <3> QED
      BY <1>1, <2>1, <3>2
  <2>4. Left + 1 \in 1..Len(published)' /\ published'[Left + 1] = batch' /\ Left + 1 <= Left' + 1
    BY <1>1, <1>2, <1>3, <2>2
  <2>5. Len(queue') <= Len(published')
    BY <1>1, <1>2, <1>3, <2>1
  <2> QED
    BY <1>4, <2>3, <2>4, <2>5 DEF ServiceOrderOK
<1> QED
  BY <1>1, <1>5, <1>6

\* A new batch goes to the end of both.
LEMMA SubmissionKeepsOrder ==
  ASSUME Typed, PublishedOK, ServiceOrderOK, NEW t \in Threads, NEW b \in Batches,
         GenerateImages(t, b)
  PROVE  PublishedOK' /\ ServiceOrderOK'
<1>1. /\ status[b] = "unused" /\ status' = [status EXCEPT ![b] = "published"]
      /\ queue' = Append(queue, b) /\ published' = Append(published, b)
      /\ UNCHANGED batch
  BY DEF GenerateImages, Begin
<1>2. /\ queue \in Seq(Batches) /\ published \in Seq(Batches)
      /\ Len(queue) \in Nat /\ Len(published) \in Nat
      /\ status \in [Batches -> {"unused", "published", "refused"}]
  BY DEF Typed
<1>3. /\ Len(queue') = Len(queue) + 1 /\ Len(published') = Len(published) + 1
      /\ queue'[Len(queue) + 1] = b /\ published'[Len(published) + 1] = b
      /\ \A i \in 1..Len(queue) : queue'[i] = queue[i]
      /\ \A i \in 1..Len(published) : published'[i] = published[i]
  BY <1>1, <1>2
<1>4. \A i \in 1..Len(published) : published[i] # b
  BY <1>1 DEF PublishedOK
<1>5. PublishedOK'
  <2>1. ASSUME NEW c \in Batches
        PROVE  status'[c] = "published" <=> \E i \in 1..Len(published') : published'[i] = c
    <3>1. CASE c = b
      <4>1. status'[c] = "published"
        BY <1>1, <1>2, <3>1
      <4>2. Len(published) + 1 \in 1..Len(published')
        BY <1>2, <1>3
      <4> QED
        BY <1>3, <3>1, <4>1, <4>2
    <3>2. CASE c # b
      <4>1. status'[c] = status[c]
        BY <1>1, <1>2, <3>2
      <4>2. (\E i \in 1..Len(published') : published'[i] = c)
              <=> \E i \in 1..Len(published) : published[i] = c
        BY <1>2, <1>3, <3>2
      <4> QED
        BY <4>1, <4>2 DEF PublishedOK
    <3> QED
      BY <3>1, <3>2
  <2>2. ASSUME NEW i \in 1..Len(published'), NEW j \in 1..Len(published'),
               published'[i] = published'[j]
        PROVE  i = j
    <3>1. /\ i \in 1..Len(published) \/ i = Len(published) + 1
          /\ j \in 1..Len(published) \/ j = Len(published) + 1
      BY <1>2, <1>3
    <3> QED
      BY <1>3, <1>4, <2>2, <3>1 DEF PublishedOK
  <2> QED
    BY <2>1, <2>2 DEF PublishedOK
<1>6. ServiceOrderOK'
  <2>1. Left' = Left /\ Left \in Nat /\ Left + Len(queue) = Len(published)
    BY <1>2, <1>3 DEF Left, ServiceOrderOK
  <2>2. ASSUME NEW i \in 1..Len(queue') PROVE queue'[i] = published'[Left' + i]
    <3>1. CASE i \in 1..Len(queue)
      <4>1. Left + i \in 1..Len(published)
        BY <1>2, <2>1, <3>1
      <4> QED
        BY <1>3, <2>1, <3>1, <4>1 DEF ServiceOrderOK
    <3>2. CASE i = Len(queue) + 1
      <4>1. Left' + i = Len(published) + 1
        BY <1>2, <2>1, <3>2
      <4> QED
        BY <1>3, <3>2, <4>1
    <3> QED
      BY <1>2, <1>3, <3>1, <3>2
  <2>3. ASSUME batch' # None
        PROVE  \E i \in 1..Len(published') : published'[i] = batch' /\ i <= Left' + 1
    <3>1. PICK i \in 1..Len(published) : published[i] = batch /\ i <= Left + 1
      BY <1>1, <2>3 DEF ServiceOrderOK
    <3>2. i \in 1..Len(published')
      BY <1>2, <1>3, <3>1
    <3> QED
      BY <1>1, <1>3, <2>1, <3>1, <3>2
  <2>4. Len(queue') <= Len(published')
    BY <1>2, <1>3 DEF ServiceOrderOK
  <2> QED
    BY <2>2, <2>3, <2>4 DEF ServiceOrderOK
<1> QED
  BY <1>5, <1>6

\* A refused batch is in neither.
LEMMA RefusalKeepsOrder ==
  ASSUME Typed, PublishedOK, ServiceOrderOK, NEW t \in Threads, NEW b \in Batches,
         GenerateNothing(t, b)
  PROVE  PublishedOK' /\ ServiceOrderOK'
<1>1. /\ status[b] = "unused" /\ status' = [status EXCEPT ![b] = "refused"]
      /\ UNCHANGED <<queue, published, batch>>
  BY DEF GenerateNothing, Begin
<1>2. \A c \in Batches : status'[c] = "published" <=> status[c] = "published"
  BY <1>1 DEF Typed
<1> QED
  BY <1>1, <1>2 DEF PublishedOK, ServiceOrderOK, Left

\* No other step touches the order of service; the worker forgets a batch in the end.
LEMMA OrderNext ==
  ASSUME Typed, PublishedOK, ServiceOrderOK, [Next]_vars
  PROVE  PublishedOK' /\ ServiceOrderOK'
<1>1. CASE Dispatch
  BY <1>1, DispatchKeepsOrder
<1>2. CASE Forget
  BY <1>2 DEF Forget, Run, PublishedOK, ServiceOrderOK, Left
<1>3. CASE WorkerStep /\ ~Dispatch /\ ~Forget
  <2>1. UNCHANGED <<queue, published, status, batch>>
    BY <1>3 DEF WorkerStep, Run, StopDeferring, DeferToSyncCallers, DeferTimeout, FindNothing,
       WaitForWork, CheckToken, TakeDecoder, Decode, ReleaseTurn, NotifyTurn, Deliver,
       HandlerReturns, Account, NotifyDone, SpinOrDrain, Exit
  <2> QED
    BY <2>1, OrderKept
<1>4. ASSUME NEW t \in Threads, BeginCall(t)
      PROVE  PublishedOK' /\ ServiceOrderOK'
  <2>1. ASSUME NEW b \in Batches, GenerateImages(t, b) PROVE PublishedOK' /\ ServiceOrderOK'
    BY <2>1, SubmissionKeepsOrder
  <2>2. ASSUME NEW b \in Batches, GenerateNothing(t, b) PROVE PublishedOK' /\ ServiceOrderOK'
    BY <2>2, RefusalKeepsOrder
  <2>3. CASE CallImageAt(t) \/ CancelAll(t) \/ Close(t) \/ \E b \in Batches : Cancel(t, b) \/ Wait(t, b)
    BY <2>3, OrderKept DEF CallImageAt, CancelAll, Close, Cancel, Wait, Begin
  <2> QED
    BY <1>4, <2>1, <2>2, <2>3 DEF BeginCall
<1>5. ASSUME NEW t \in Threads, CallStep(t) \/ WaitTimeout(t) \/ SpuriousWake(t)
      PROVE  UNCHANGED <<queue, published, status, batch>>
  BY <1>5 DEF CallStep, ImageAtStep, Move, Announce, PassTurn, ParkOnTurn, LockDecoder,
     LeaveWaiters, NotifyWorker, FinishImageAt, NotifyOne, ReturnFromWait, ParkOnDone,
     RequestStop, RaiseStopFlag, WakeAll, JoinAndReset, WaitTimeout, SpuriousWake
<1>6. CASE UNCHANGED vars
  BY <1>6, OrderKept
<1> QED
  BY <1>1, <1>2, <1>3, <1>4, <1>5, <1>6, OrderKept DEF Next, Idle

-----------------------------------------------------------------------------
(* Cancellation and teardown.                                              *)

\* A cancellation is never taken back.
LEMMA CancellationStands ==
  ASSUME Typed, [Next]_vars
  PROVE  /\ \A b \in Batches : cancelled[b] => cancelled'[b]
         /\ stopFlag => stopFlag'
         /\ stopping => stopping'
<1>1. CASE WorkerStep
  <2>1. UNCHANGED <<cancelled, stopFlag, stopping>>
    BY <1>1 DEF WorkerStep, Run, StopDeferring, DeferToSyncCallers, DeferTimeout, Dispatch,
       FindNothing, WaitForWork, CheckToken, TakeDecoder, Decode, ReleaseTurn, NotifyTurn,
       Deliver, HandlerReturns, Account, NotifyDone, Forget, SpinOrDrain, Exit
  <2> QED
    BY <2>1
<1>2. ASSUME NEW t \in Threads, BeginCall(t) \/ CallStep(t) \/ WaitTimeout(t) \/ SpuriousWake(t)
      PROVE  /\ \A b \in Batches : cancelled[b] => cancelled'[b]
             /\ stopFlag => stopFlag'
             /\ stopping => stopping'
  <2>1. CASE CancelAll(t) \/ RequestStop(t)
    BY <2>1 DEF CancelAll, RequestStop, CancelQueued, Begin, Move, Typed
  <2>2. CASE \E b \in Batches : Cancel(t, b)
    BY <2>2 DEF Cancel, Begin, Typed
  <2>3. CASE RaiseStopFlag(t)
    BY <2>3 DEF RaiseStopFlag, Move
  <2>4. CASE /\ ~CancelAll(t) /\ ~RequestStop(t) /\ ~RaiseStopFlag(t)
             /\ ~\E b \in Batches : Cancel(t, b)
    <3>1. UNCHANGED <<cancelled, stopFlag, stopping>>
      BY <1>2, <2>4 DEF BeginCall, CallStep, ImageAtStep, Begin, Move, CallImageAt, Close,
         GenerateImages, GenerateNothing, Wait, Announce, PassTurn, ParkOnTurn, LockDecoder,
         LeaveWaiters, NotifyWorker, FinishImageAt, NotifyOne, ReturnFromWait, ParkOnDone,
         WakeAll, JoinAndReset, WaitTimeout, SpuriousWake
    <3> QED
      BY <3>1
  <2> QED
    BY <2>1, <2>2, <2>3, <2>4
<1>3. CASE UNCHANGED vars
  BY <1>3
<1> QED
  BY <1>1, <1>2, <1>3 DEF Next, Idle

\* A call leaves the worker and the item in its hand alone.
LEMMA CallLeavesItem ==
  ASSUME NEW t \in Threads, BeginCall(t) \/ CallStep(t) \/ WaitTimeout(t) \/ SpuriousWake(t)
  PROVE  UNCHANGED <<wpc, batch, index, result, delivered>>
BY DEF BeginCall, CallStep, ImageAtStep, Begin, Move, CallImageAt, CancelAll, Close, Cancel,
   GenerateImages, GenerateNothing, Wait, Announce, PassTurn, ParkOnTurn, LockDecoder,
   LeaveWaiters, NotifyWorker, FinishImageAt, NotifyOne, ReturnFromWait, ParkOnDone,
   RequestStop, RaiseStopFlag, WakeAll, JoinAndReset, WaitTimeout, SpuriousWake

LEMMA CancelledNext ==
  ASSUME Typed, InHandOK, CancelledOK, [Next]_vars
  PROVE  CancelledOK'
<1>1. SUFFICES ASSUME wpc' \in {"release", "notifyTurn", "deliver"}, batch' # None,
                      result' = "cancelled"
               PROVE  TokenRequested'
  BY DEF CancelledOK
<1>2. batch' \in Batches
  BY <1>1, TypedNext DEF Typed
<1>3. ASSUME batch' = batch, TokenRequested PROVE TokenRequested'
  BY <1>2, <1>3, CancellationStands DEF TokenRequested
<1>4. CASE WorkerStep
  <2>1. CASE CheckToken \/ Decode
    BY <1>1, <1>3, <2>1 DEF CheckToken, Decode, Run
  <2>2. CASE FindNothing
    BY <1>1, <2>2 DEF FindNothing, Run, InHandOK
  <2>3. CASE ReleaseTurn \/ NotifyTurn
    BY <1>1, <1>3, <2>3 DEF ReleaseTurn, NotifyTurn, Run, CancelledOK
  <2>4. CASE ~CheckToken /\ ~Decode /\ ~FindNothing /\ ~ReleaseTurn /\ ~NotifyTurn
    BY <1>1, <1>4, <2>4 DEF WorkerStep, Run, StopDeferring, DeferToSyncCallers, DeferTimeout,
       Dispatch, WaitForWork, TakeDecoder, Deliver, HandlerReturns, Account, NotifyDone, Forget,
       SpinOrDrain, Exit
  <2> QED
    BY <2>1, <2>2, <2>3, <2>4
<1>5. CASE UNCHANGED <<wpc, batch, index, result, delivered>>
  BY <1>1, <1>3, <1>5 DEF CancelledOK
<1> QED
  BY <1>4, <1>5, CallLeavesItem DEF Next, Idle

LEMMA TeardownNext ==
  ASSUME Typed, TeardownOK, [Next]_vars
  PROVE  TeardownOK'
<1>1. stopping => stopping'
  BY CancellationStands
<1>2. CASE WorkerStep
  <2>1. /\ UNCHANGED <<pc, stopping, stopFlag, engine>>
        /\ workerDone' => workerDone \/ stopFlag
    BY <1>2 DEF WorkerStep, Run, StopDeferring, DeferToSyncCallers, DeferTimeout, Dispatch,
       FindNothing, WaitForWork, CheckToken, TakeDecoder, Decode, ReleaseTurn, NotifyTurn,
       Deliver, HandlerReturns, Account, NotifyDone, Forget, SpinOrDrain, Exit
  <2> QED
    BY <2>1 DEF TeardownOK
<1>3. ASSUME NEW t \in Threads, BeginCall(t) \/ CallStep(t) \/ WaitTimeout(t) \/ SpuriousWake(t)
      PROVE  TeardownOK'
  <2>1. CASE RequestStop(t)
    BY <2>1 DEF RequestStop, Move, TeardownOK
  <2>2. CASE RaiseStopFlag(t) \/ WakeAll(t) \/ JoinAndReset(t)
    <3>1. stopping
      BY <2>2 DEF RaiseStopFlag, WakeAll, JoinAndReset, Move, TeardownOK
    <3>2. stopping'
      BY <1>1, <3>1
    <3> QED
      BY <3>2 DEF TeardownOK
  <2>3. CASE ~RequestStop(t) /\ ~RaiseStopFlag(t) /\ ~WakeAll(t) /\ ~JoinAndReset(t)
    <3>1. /\ UNCHANGED <<stopping, stopFlag, engine, workerDone>>
          /\ \/ pc' = pc
             \/ \E to \in CallLocs \ {"raise", "wake", "join"} : pc' = [pc EXCEPT ![t] = to]
      BY <1>3, <2>3 DEF BeginCall, CallStep, ImageAtStep, Begin, Move, CallImageAt, CancelAll,
         Close, Cancel, GenerateImages, GenerateNothing, Wait, Announce, PassTurn, ParkOnTurn,
         LockDecoder, LeaveWaiters, NotifyWorker, FinishImageAt, NotifyOne, ReturnFromWait,
         ParkOnDone, WaitTimeout, SpuriousWake, CallLocs
    <3>2. ASSUME NEW u \in Threads, pc'[u] \in {"raise", "wake", "join"}
          PROVE  pc[u] \in {"raise", "wake", "join"}
      BY <3>1, <3>2 DEF Typed
    <3> QED
      BY <3>1, <3>2 DEF TeardownOK
  <2> QED
    BY <2>1, <2>2, <2>3
<1>4. CASE UNCHANGED vars
  BY <1>4 DEF TeardownOK
<1> QED
  BY <1>2, <1>3, <1>4 DEF Next, Idle

\* Everything the refinement rests on.
LEMMA ContractInvariant == Spec => [](DeliveryInv /\ ContractInv)
<1>1. Init => ContractInv
  BY DEF Init, ContractInv, PublishedOK, ServiceOrderOK, CancelledOK, TeardownOK, Left
<1>2. DeliveryInv /\ ContractInv /\ [Next]_vars => ContractInv'
  BY OrderNext, CancelledNext, TeardownNext DEF ContractInv, DeliveryInv
<1> QED
  BY <1>1, <1>2, DeliveryCorrect, PTL DEF Spec

-----------------------------------------------------------------------------
(* Steps of the worker, seen by a caller.                                  *)

Asked == IF stopFlag THEN Batches ELSE {b \in Batches : cancelled[b]}
FinishedBatches == {b \in Batches : status[b] # "unused" /\ Finished(b)}

\* What the contract's state is made of.
Seen == <<published, delivered, Asked, Started, handler, FinishedBatches, stopping>>

\* A step that changes nothing of it is a stutter of the contract.
LEMMA SeenIsContract == UNCHANGED Seen => UNCHANGED Contract!vars
BY DEF Seen, Contract!vars, Asked, FinishedBatches

\* The batch in hand is the one being served until its item is delivered.
LEMMA InHandIsServed ==
  ASSUME DeliveryInv, ContractInv, batch # None, wpc \in Undelivered
  PROVE  /\ Contract!Serving(batch)
         /\ handler[batch] = "held" /\ index = Len(delivered[batch])
<1>1. /\ batch \in Batches /\ status[batch] = "published" /\ next[batch] = index + 1
      /\ InHand(batch, Undelivered) /\ Typed
  BY DEF DeliveryInv, Typed, InHandOK, InHand
<1>2. /\ next[batch] = Len(delivered[batch]) + 1 /\ next[batch] <= Size[batch]
      /\ ~InHand(batch, Undelivered \cup {"handler"}) => FALSE
      /\ handler[batch] \in {"held", "destroyed"}
  BY <1>1 DEF DeliveryInv, AccountOK, InHand, Typed
<1>3. handler[batch] = "held"
  BY <1>1, <1>2 DEF DeliveryInv, AccountOK
<1>4. Len(delivered[batch]) \in Nat /\ index \in Nat /\ Size[batch] \in Nat
  BY <1>1, BatchesAssumption DEF Typed
<1>5. ~Contract!Complete(batch)
  BY <1>2, <1>4 DEF Contract!Complete
<1>6. PICK i \in 1..Len(published) : published[i] = batch /\ i <= Left + 1
  BY DEF ContractInv, ServiceOrderOK
<1>7. ASSUME NEW j \in 1..(i - 1) PROVE Contract!Complete(published[j])
  <2>a. Len(published) \in Nat /\ Len(queue) \in Nat /\ published \in Seq(Batches)
    BY <1>1 DEF Typed
  <2>b. j \in 1..Len(published) /\ j <= Left /\ j # i
    BY <1>6, <2>a DEF Left
  <2>1. /\ j \in 1..Len(published) /\ j <= Left /\ j # i
        /\ Len(published) \in Nat /\ Len(queue) \in Nat /\ published[j] \in Batches
    BY <2>a, <2>b
  <2>2. published[j] # batch /\ status[published[j]] = "published"
    BY <1>6, <2>1 DEF ContractInv, PublishedOK
  <2>3. ASSUME NEW k \in 1..Len(queue) PROVE queue[k] # published[j]
    <3>1. queue[k] = published[Left + k]
      BY DEF ContractInv, ServiceOrderOK
    <3>2. Left + k \in 1..Len(published) /\ Left + k # j
      BY <2>1 DEF Left, ContractInv, ServiceOrderOK
    <3> QED
      BY <2>1, <3>1, <3>2 DEF ContractInv, PublishedOK
  <2>4. ~(next[published[j]] < Size[published[j]])
    BY <2>1, <2>2, <2>3 DEF DeliveryInv, QueueOK
  <2>5. /\ next[published[j]] = Len(delivered[published[j]])
        /\ next[published[j]] <= Size[published[j]]
    BY <2>1, <2>2 DEF DeliveryInv, AccountOK, InHand
  <2>6. next[published[j]] \in Nat /\ Size[published[j]] \in Nat
    BY <1>1, <2>1, BatchesAssumption DEF Typed
  <2> QED
    BY <2>4, <2>5, <2>6 DEF Contract!Complete
<1>8. DOMAIN published = 1..Len(published)
  BY <1>1 DEF Typed
<1>9. Contract!Serving(batch)
  BY <1>5, <1>6, <1>7, <1>8 DEF Contract!Serving
<1> QED
  BY <1>1, <1>2, <1>3, <1>4, <1>9

\* What the contract calls accepted is what the engine has published.
LEMMA AcceptedIsPublished ==
  ASSUME DeliveryInv, ContractInv, NEW b \in Batches
  PROVE  Contract!Accepted(b) <=> status[b] = "published"
<1>1. DOMAIN published = 1..Len(published)
  BY DEF DeliveryInv, Typed
<1> QED
  BY <1>1 DEF Contract!Accepted, ContractInv, PublishedOK

\* The worker finds the token of its item clear: the contract starts the item.
LEMMA CheckMaps ==
  ASSUME DeliveryInv, ContractInv, CheckToken
  PROVE  Contract!Start(batch) \/ UNCHANGED Contract!vars
<1>1. /\ wpc = "check" /\ wpc' = (IF TokenRequested THEN "release" ELSE "lock")
      /\ result' = "cancelled" /\ batch \in Batches
      /\ UNCHANGED <<published, delivered, cancelled, stopFlag, handler, status, completed,
                     stopping, batch>>
  BY DEF CheckToken, Run, DeliveryInv, InHandOK, Typed
<1>2. UNCHANGED <<Asked, FinishedBatches>> /\ Started = None
  BY <1>1 DEF Asked, FinishedBatches, Finished, Started
<1>3. CASE TokenRequested
  <2>1. Started' = None
    BY <1>1, <1>3 DEF Started
  <2> QED
    BY <1>1, <1>2, <2>1, SeenIsContract DEF Seen
<1>4. CASE ~TokenRequested
  <2>1. Started' = batch /\ batch \notin Asked
    BY <1>1, <1>4 DEF Started, Asked, TokenRequested
  <2>2. Contract!Serving(batch)
    BY <1>1, InHandIsServed, BatchesAssumption DEF Undelivered
  <2> QED
    BY <1>1, <1>2, <2>1, <2>2 DEF Contract!Start, Asked, FinishedBatches
<1> QED
  BY <1>3, <1>4

\* The decode comes back: only with its cancellation requested does the item count as
\* never started.
LEMMA DecodeMaps ==
  ASSUME DeliveryInv, ContractInv, Decode
  PROVE  Contract!Abandon \/ UNCHANGED Contract!vars
<1>1. /\ wpc = "decode" /\ wpc' = "release" /\ batch \in Batches
      /\ result' = "cancelled" => TokenRequested
      /\ UNCHANGED <<published, delivered, cancelled, stopFlag, handler, status, completed,
                     stopping, batch>>
  BY DEF Decode, Run, DeliveryInv, InHandOK, Typed
<1>2. UNCHANGED <<Asked, FinishedBatches>> /\ Started = batch
  BY <1>1 DEF Asked, FinishedBatches, Finished, Started
<1>3. CASE result' = "cancelled"
  <2>1. Started' = None /\ batch \in Asked
    BY <1>1, <1>3 DEF Started, Asked, TokenRequested
  <2> QED
    BY <1>1, <1>2, <2>1 DEF Contract!Abandon, Asked, FinishedBatches
<1>4. CASE result' # "cancelled"
  <2>1. Started' = Started
    BY <1>1, <1>2, <1>4 DEF Started
  <2> QED
    BY <1>1, <1>2, <2>1, SeenIsContract DEF Seen
<1> QED
  BY <1>3, <1>4

\* The completion of the item reaches the handler.
LEMMA DeliverMaps ==
  ASSUME DeliveryInv, ContractInv, Deliver
  PROVE  Contract!Deliver(batch, result)
<1>1. /\ wpc = "deliver" /\ wpc' = "handler" /\ batch # None /\ batch \in Batches
      /\ delivered' = [delivered EXCEPT ![batch] =
                         Append(delivered[batch], [index |-> index, status |-> result])]
      /\ UNCHANGED <<published, cancelled, stopFlag, handler, status, completed, stopping>>
  BY BatchesAssumption DEF Deliver, Run, DeliveryInv, InHandOK, Typed
<1>2. UNCHANGED <<Asked, FinishedBatches>> /\ Started' = None
  BY <1>1 DEF Asked, FinishedBatches, Finished, Started
<1>3. Contract!Serving(batch) /\ handler[batch] = "held" /\ index = Len(delivered[batch])
  BY <1>1, InHandIsServed DEF Undelivered
<1>4. IF result = "cancelled" THEN Started = None /\ batch \in Asked ELSE Started = batch
  BY <1>1 DEF Started, Asked, ContractInv, CancelledOK, TokenRequested
<1> QED
  BY <1>1, <1>2, <1>3, <1>4 DEF Contract!Deliver, Asked, FinishedBatches

\* The handler goes with the last item only, and then the batch is complete.
LEMMA HandlerReturnsMaps ==
  ASSUME DeliveryInv, ContractInv, HandlerReturns
  PROVE  Contract!DropHandler(batch) \/ UNCHANGED Contract!vars
<1>1. /\ wpc = "handler" /\ wpc' = "account" /\ batch # None /\ batch \in Batches
      /\ status[batch] = "published" /\ next[batch] = index + 1
      /\ handler' = (IF IsLast THEN [handler EXCEPT ![batch] = "destroyed"] ELSE handler)
      /\ UNCHANGED <<published, delivered, cancelled, stopFlag, status, completed, stopping>>
  BY BatchesAssumption
     DEF HandlerReturns, ResetHandler, Run, DeliveryInv, InHandOK, Typed
<1>2. UNCHANGED <<Asked, FinishedBatches>> /\ Started = None /\ Started' = None
  BY <1>1 DEF Asked, FinishedBatches, Finished, Started
<1>3. CASE IsLast
  <2>1. Len(delivered[batch]) = Size[batch]
    <3>1. ~InHand(batch, Undelivered)
      BY <1>1 DEF InHand, Undelivered
    <3> QED
      BY <1>1, <1>3, <3>1 DEF DeliveryInv, AccountOK, IsLast
  <2>2. Contract!Accepted(batch)
    BY <1>1, AcceptedIsPublished
  <2> QED
    BY <1>1, <1>2, <1>3, <2>1, <2>2
       DEF Contract!DropHandler, Contract!Complete, Asked, FinishedBatches
<1>4. CASE ~IsLast
  BY <1>1, <1>2, <1>4, SeenIsContract DEF Seen
<1> QED
  BY <1>3, <1>4

\* The batch reads as finished once its last item is counted, its handler gone.
LEMMA AccountMaps ==
  ASSUME DeliveryInv, ContractInv, Account
  PROVE  Contract!Finish(batch) \/ UNCHANGED Contract!vars
<1>1. /\ wpc = "account" /\ wpc' \in {"notifyDone", "forget"} /\ batch # None /\ batch \in Batches
      /\ status[batch] = "published" /\ next[batch] = index + 1
      /\ completed' = [completed EXCEPT ![batch] = completed[batch] + 1]
      /\ UNCHANGED <<published, delivered, cancelled, stopFlag, status, handler, stopping, batch>>
  BY BatchesAssumption DEF Account, Run, DeliveryInv, InHandOK, Typed
<1>2. UNCHANGED Asked /\ Started = None /\ Started' = None
  BY <1>1 DEF Asked, Started
<1>3. /\ InHand(batch, Uncounted) /\ ~InHand(batch, Undelivered)
      /\ ~InHand(batch, Undelivered \cup {"handler"})
  BY <1>1 DEF InHand, Uncounted, Undelivered
<1>4. /\ next[batch] = completed[batch] + 1 /\ next[batch] = Len(delivered[batch])
      /\ next[batch] <= Size[batch]
      /\ handler[batch] = "destroyed" <=> next[batch] = Size[batch]
  BY <1>1, <1>3 DEF DeliveryInv, AccountOK
<1>5. /\ completed \in [Batches -> Nat] /\ Size[batch] \in Nat /\ index \in Nat
      /\ completed'[batch] = next[batch]
  BY <1>1, <1>4, BatchesAssumption DEF DeliveryInv, Typed
<1>6. \A b \in Batches \ {batch} : completed'[b] = completed[b]
  BY <1>1, <1>5
<1>7. CASE IsLast
  <2>1. next[batch] = Size[batch]
    BY <1>1, <1>7 DEF IsLast
  <2>2. FinishedBatches' = FinishedBatches \cup {batch}
    BY <1>1, <1>5, <1>6, <2>1 DEF FinishedBatches, Finished
  <2>3. Contract!Accepted(batch)
    BY <1>1, AcceptedIsPublished
  <2> QED
    BY <1>1, <1>2, <1>4, <2>1, <2>2, <2>3
       DEF Contract!Finish, Contract!Complete, Asked, FinishedBatches
<1>8. CASE ~IsLast
  <2>1. ~Finished(batch) /\ ~Finished(batch)'
    BY <1>1, <1>4, <1>5, <1>8 DEF IsLast, Finished
  <2>2. UNCHANGED FinishedBatches
    BY <1>1, <1>6, <2>1 DEF FinishedBatches, Finished
  <2> QED
    BY <1>1, <1>2, <2>2, SeenIsContract DEF Seen
<1> QED
  BY <1>7, <1>8

\* No other step of the worker is seen.
LEMMA WorkerMaps ==
  ASSUME DeliveryInv, ContractInv, WorkerStep
  PROVE  [Contract!Next]_(Contract!vars)
<1>1. CASE CheckToken
  <2>1. batch \in Batches
    BY <1>1 DEF CheckToken, Run, DeliveryInv, InHandOK, Typed
  <2> QED
    BY <1>1, <2>1, CheckMaps DEF Contract!Next
<1>2. CASE Decode
  BY <1>2, DecodeMaps DEF Contract!Next
<1>3. CASE Deliver
  <2>1. batch \in Batches /\ result \in {"succeeded", "failed", "cancelled"}
    BY <1>3 DEF Deliver, Run, DeliveryInv, InHandOK, Typed, Statuses
  <2> QED
    BY <1>3, <2>1, DeliverMaps DEF Contract!Next
<1>4. CASE HandlerReturns
  <2>1. batch \in Batches
    BY <1>4 DEF HandlerReturns, Run, DeliveryInv, InHandOK, Typed
  <2> QED
    BY <1>4, <2>1, HandlerReturnsMaps DEF Contract!Next
<1>5. CASE Account
  <2>1. batch \in Batches
    BY <1>5 DEF Account, Run, DeliveryInv, InHandOK, Typed
  <2>2. CASE Contract!Finish(batch)
    <3>1. \E b \in Batches : Contract!Finish(b)
      BY <2>1, <2>2 DEF Contract!Finish
    <3> QED
      BY <3>1 DEF Contract!Next
  <2> QED
    BY <1>5, <2>2, AccountMaps
<1>6. CASE \/ StopDeferring \/ DeferToSyncCallers \/ DeferTimeout \/ Dispatch \/ FindNothing
           \/ WaitForWork \/ TakeDecoder \/ ReleaseTurn \/ NotifyTurn \/ NotifyDone \/ Forget
           \/ SpinOrDrain \/ Exit
  <2>1. UNCHANGED <<published, delivered, cancelled, stopFlag, handler, status, completed, stopping>>
    BY <1>6 DEF Run, StopDeferring, DeferToSyncCallers, DeferTimeout, Dispatch, FindNothing,
       WaitForWork, TakeDecoder, ReleaseTurn, NotifyTurn, NotifyDone, Forget, SpinOrDrain, Exit
  <2>2. UNCHANGED Started
    <3>1. CASE ReleaseTurn \/ NotifyTurn
      <4>1. /\ wpc \in {"release", "notifyTurn"} /\ wpc' \in {"notifyTurn", AfterRelease}
            /\ UNCHANGED <<batch, result>>
        BY <3>1 DEF ReleaseTurn, NotifyTurn, Run
      <4> QED
        BY <4>1 DEF Started, AfterRelease
    <3>2. CASE TakeDecoder
      BY <3>2 DEF TakeDecoder, Run, Started
    <3>3. CASE FindNothing
      <4>1. wpc = "take" /\ wpc' = "release" /\ batch = None /\ UNCHANGED batch
        BY <3>3 DEF FindNothing, Run, DeliveryInv, InHandOK
      <4> QED
        BY <4>1 DEF Started
    <3>4. CASE \/ StopDeferring \/ DeferToSyncCallers \/ DeferTimeout \/ Dispatch
               \/ WaitForWork \/ NotifyDone \/ Forget \/ SpinOrDrain \/ Exit
      <4>1. /\ wpc \in {"defer", "take", "notifyDone", "forget", "empty"}
            /\ wpc' \in {"defer", "take", "check", "forget", "exited"}
        BY <3>4 DEF Run, StopDeferring, DeferToSyncCallers, DeferTimeout, Dispatch,
           WaitForWork, NotifyDone, Forget, SpinOrDrain, Exit
      <4> QED
        BY <4>1 DEF Started
    <3> QED
      BY <1>6, <3>1, <3>2, <3>3, <3>4
  <2>3. UNCHANGED <<Asked, FinishedBatches>>
    BY <2>1 DEF Asked, FinishedBatches, Finished
  <2> QED
    BY <2>1, <2>2, <2>3, SeenIsContract DEF Seen
<1> QED
  BY <1>1, <1>2, <1>3, <1>4, <1>5, <1>6 DEF WorkerStep

-----------------------------------------------------------------------------
(* Steps of a call, seen by a caller.                                      *)

\* A call does not touch the item in hand, nor what was delivered.
LEMMA CallFrame ==
  ASSUME NEW t \in Threads, BeginCall(t) \/ CallStep(t) \/ WaitTimeout(t) \/ SpuriousWake(t)
  PROVE  UNCHANGED <<Started, delivered>>
BY CallLeavesItem DEF Started

\* An accepted batch joins the end of the order.
LEMMA SubmitMaps ==
  ASSUME DeliveryInv, ContractInv, NEW t \in Threads, NEW b \in Batches, GenerateImages(t, b)
  PROVE  Contract!Submit(b)
<1>1. /\ status[b] = "unused" /\ Size[b] # 0
      /\ status' = [status EXCEPT ![b] = "published"] /\ published' = Append(published, b)
      /\ UNCHANGED <<cancelled, stopFlag, stopping, handler, completed>>
  BY DEF GenerateImages, Begin
<1>2. UNCHANGED <<Started, delivered, Asked>>
  BY <1>1, CallLeavesItem DEF BeginCall, Started, Asked
<1>3. ~Contract!Accepted(b)
  BY <1>1, AcceptedIsPublished
<1>4. completed[b] = 0 /\ Size[b] \in Nat
  BY <1>1, BatchesAssumption DEF DeliveryInv, AccountOK
<1>5. UNCHANGED FinishedBatches /\ b \notin FinishedBatches
  BY <1>1, <1>4 DEF FinishedBatches, Finished, DeliveryInv, Typed
<1> QED
  BY <1>1, <1>2, <1>3, <1>5 DEF Contract!Submit, Asked, FinishedBatches

\* A refused one is finished at once, its handler unused.
LEMMA RefuseMaps ==
  ASSUME DeliveryInv, ContractInv, NEW t \in Threads, NEW b \in Batches, GenerateNothing(t, b)
  PROVE  Contract!Refuse(b)
<1>1. /\ status[b] = "unused" /\ (engine = "null" \/ Size[b] = 0 \/ workerDone)
      /\ status' = [status EXCEPT ![b] = "refused"]
      /\ completed' = [completed EXCEPT ![b] = Size[b]]
      /\ handler' = [handler EXCEPT ![b] = "destroyed"]
      /\ UNCHANGED <<published, cancelled, stopFlag, stopping>>
  BY DEF GenerateNothing, Begin
<1>2. UNCHANGED <<Started, delivered, Asked>>
  BY <1>1, CallLeavesItem DEF BeginCall, Started, Asked
<1>3. ~Contract!Accepted(b)
  BY <1>1, AcceptedIsPublished
<1>4. stopping \/ Size[b] = 0
  BY <1>1 DEF ContractInv, TeardownOK
<1>5. Size[b] \in Nat /\ completed \in [Batches -> Nat]
      /\ status \in [Batches -> {"unused", "published", "refused"}]
  BY BatchesAssumption DEF DeliveryInv, Typed
<1>6. FinishedBatches' = FinishedBatches \cup {b} /\ b \notin FinishedBatches
  BY <1>1, <1>5 DEF FinishedBatches, Finished
<1> QED
  BY <1>1, <1>2, <1>3, <1>4, <1>6 DEF Contract!Refuse, Asked, FinishedBatches

\* Every flag a call sets, and the flag that covers all batches, is a request.
LEMMA RequestMaps ==
  ASSUME Typed, [Next]_vars, UNCHANGED <<published, delivered, Started, handler, FinishedBatches, stopping>>
  PROVE  Contract!RequestCancel
<1>1. Asked \subseteq Asked' /\ Asked' \subseteq Batches
  BY CancellationStands DEF Asked
<1>2. Asked' = Asked \cup Asked' /\ Asked' \in SUBSET Batches
  BY <1>1
<1> QED
  BY <1>2 DEF Contract!RequestCancel, Asked, FinishedBatches

\* requestStop() reaches every batch with an item still to deliver.
LEMMA CloseMaps ==
  ASSUME DeliveryInv, ContractInv, UndeliveredIsReachable, NEW t \in Threads, RequestStop(t)
  PROVE  Contract!BeginClose
<1>1. /\ stopping' = TRUE
      /\ cancelled' = [b \in Batches |-> cancelled[b] \/ InQueue(b) \/ b = current]
      /\ UNCHANGED <<published, delivered, stopFlag, handler, status, completed>>
  BY DEF RequestStop, Move, CancelQueued
<1>2. UNCHANGED <<Started, FinishedBatches>>
  BY <1>1, CallFrame DEF CallStep, FinishedBatches, Finished
<1>3. Asked \subseteq Asked'
  BY <1>1 DEF Asked, DeliveryInv, Typed
<1>4. ASSUME NEW b \in Batches, Contract!Accepted(b), ~Contract!Complete(b)
      PROVE  b \in Asked'
  <2>1. status[b] = "published"
    BY <1>4, AcceptedIsPublished
  <2>2. Len(delivered[b]) < Size[b]
    <3>1. /\ Len(delivered[b]) \in Nat /\ Size[b] \in Nat /\ Len(delivered[b]) <= Size[b]
      BY <1>4, Balance
    <3> QED
      BY <1>4, <3>1 DEF Contract!Complete
  <2>3. InQueue(b) \/ current = b
    BY <2>1, <2>2 DEF UndeliveredIsReachable
  <2> QED
    BY <1>1, <2>3 DEF Asked
<1> QED
  BY <1>1, <1>2, <1>3, <1>4 DEF Contract!BeginClose, Asked, FinishedBatches

LEMMA CallMaps ==
  ASSUME DeliveryInv, ContractInv, UndeliveredIsReachable, Next, NEW t \in Threads,
         BeginCall(t) \/ CallStep(t) \/ WaitTimeout(t) \/ SpuriousWake(t)
  PROVE  [Contract!Next]_(Contract!vars)
<1>1. UNCHANGED <<Started, delivered>>
  BY CallFrame
<1>2. ASSUME NEW b \in Batches, GenerateImages(t, b) PROVE Contract!Next
  BY <1>2, SubmitMaps DEF Contract!Next
<1>3. ASSUME NEW b \in Batches, GenerateNothing(t, b) PROVE Contract!Next
  BY <1>3, RefuseMaps DEF Contract!Next
<1>4. CASE RequestStop(t)
  BY <1>4, CloseMaps DEF Contract!Next
<1>5. CASE CancelAll(t) \/ RaiseStopFlag(t) \/ \E b \in Batches : Cancel(t, b)
  <2>1. UNCHANGED <<published, handler, status, completed, stopping>>
    BY <1>5 DEF CancelAll, RaiseStopFlag, Cancel, Begin, Move
  <2>2. UNCHANGED FinishedBatches
    BY <2>1 DEF FinishedBatches, Finished
  <2> QED
    BY <1>1, <2>1, <2>2, RequestMaps DEF Contract!Next, DeliveryInv
<1>6. CASE /\ ~RequestStop(t) /\ ~CancelAll(t) /\ ~RaiseStopFlag(t)
           /\ ~\E b \in Batches : GenerateImages(t, b) \/ GenerateNothing(t, b) \/ Cancel(t, b)
  <2>1. UNCHANGED <<published, cancelled, stopFlag, handler, status, completed, stopping>>
    BY <1>6 DEF BeginCall, CallStep, ImageAtStep, Begin, Move, CallImageAt, Close, Wait, Announce,
       PassTurn, ParkOnTurn, LockDecoder, LeaveWaiters, NotifyWorker, FinishImageAt, NotifyOne,
       ReturnFromWait, ParkOnDone, WakeAll, JoinAndReset, WaitTimeout, SpuriousWake
  <2>2. UNCHANGED <<Asked, FinishedBatches>>
    BY <2>1 DEF Asked, FinishedBatches, Finished
  <2> QED
    BY <1>1, <2>1, <2>2, SeenIsContract DEF Seen
<1> QED
  BY <1>2, <1>3, <1>4, <1>5, <1>6

-----------------------------------------------------------------------------

LEMMA InitMaps == Init => Contract!Init
<1> SUFFICES ASSUME Init PROVE Contract!Init
  OBVIOUS
<1>1. Asked = {} /\ FinishedBatches = {} /\ Started = None
  BY DEF Init, Asked, FinishedBatches, Started
<1> QED
  BY <1>1 DEF Init, Contract!Init, Asked, FinishedBatches

\* generateImages() keeps its promises whatever the threads do: every step of the engine
\* is a step the contract allows, or one no caller can see.
THEOREM EngineImplementsContract == Spec => ImplementsContract
<1>1. DeliveryInv /\ ContractInv /\ UndeliveredIsReachable /\ [Next]_vars
        => [Contract!Next]_(Contract!vars)
  <2>1. CASE UNCHANGED vars
    <3>1. UNCHANGED Seen
      BY <2>1 DEF Seen, Asked, Started, FinishedBatches, Finished
    <3> QED
      BY <3>1, SeenIsContract
  <2>2. CASE Next
    BY <2>1, <2>2, WorkerMaps, CallMaps DEF Next, Idle
  <2> QED
    BY <2>1, <2>2
<1> QED
  BY <1>1, InitMaps, ContractInvariant, Reachable, PTL DEF Spec, ImplementsContract, Contract!Spec
=============================================================================
