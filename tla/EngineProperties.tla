-------------------------- MODULE EngineProperties --------------------------
(***************************************************************************)
(* What the engine promises its callers, and what must hold inside it for  *)
(* the promises to hold.                                                   *)
(***************************************************************************)
EXTENDS Engine, Integers

WorkerLocs == {"defer", "take", "check", "lock", "decode", "release", "notifyTurn", "empty",
               "deliver", "handler", "account", "notifyDone", "forget", "exited"}

CallLocs == {"idle", "announce", "turn", "lock", "leave", "notify", "decode", "notifyOne",
             "wait", "stop", "raise", "wake", "join"}

CompletionRecord == [index : Nat, status : Statuses]

\* Every variable keeps its type.
TypeOK ==
  /\ queue \in Seq(Batches) /\ current \in Batches \cup {None}
  /\ workerDone \in BOOLEAN /\ stopping \in BOOLEAN /\ stopFlag \in BOOLEAN
  /\ workerTurn \in BOOLEAN /\ claimedTurn \in BOOLEAN
  /\ syncWaiters \in Int /\ decoder \in Threads \cup {None}
  /\ next \in [Batches -> Nat] /\ completed \in [Batches -> Nat]
  /\ \A b \in Batches : next[b] <= Size[b] /\ completed[b] <= Size[b]
  /\ cancelled \in [Batches -> BOOLEAN] /\ handler \in [Batches -> {"held", "destroyed"}]
  /\ status \in [Batches -> {"unused", "published", "refused"}]
  /\ batch \in Batches \cup {None} /\ index \in Nat /\ result \in Statuses
  /\ pc \in [Threads -> CallLocs] /\ arg \in [Threads -> Batches \cup {None}]
  /\ handlerOps \in 0..MaxHandlerOps /\ engine \in {"held", "null"}
  /\ wpc \in WorkerLocs /\ asleep \in SUBSET Threads
  /\ delivered \in [Batches -> Seq(CompletionRecord)] /\ published \in Seq(Batches)

-----------------------------------------------------------------------------
(* Delivery.                                                               *)

\* Exactly one completion per requested time, in request order: the k-th completion
\* of a batch is that of its k-th time, a batch that reads as finished has had them
\* all, and a batch that was refused has had none.
ExactlyOnceInOrder ==
  \A b \in Batches :
    /\ Len(delivered[b]) <= Size[b]
    /\ \A k \in DOMAIN delivered[b] : delivered[b][k].index = k - 1
    /\ status[b] = "published" /\ Finished(b) => Len(delivered[b]) = Size[b]
    /\ status[b] # "published" => delivered[b] = <<>>

\* The handler outlives every delivery of its batch and is gone before anyone can see
\* the batch finish.
HandlerDiesBeforeFinish ==
  \A b \in Batches :
    /\ status[b] # "unused" /\ Finished(b) => handler[b] = "destroyed"
    /\ status[b] = "published" /\ handler[b] = "destroyed" => Len(delivered[b]) = Size[b]

\* cancelAll() and close() look for the batches to cancel in the queue and in `current`:
\* at every instant that covers each batch with an item still to be delivered.
UndeliveredIsReachable ==
  \A b \in Batches :
    status[b] = "published" /\ Len(delivered[b]) < Size[b] => InQueue(b) \/ current = b

\* Once the worker has declared itself done, every batch it accepted is finished, and
\* close() on a client does not return before that.
NothingLeftBehind ==
  workerDone => /\ queue = <<>>
                /\ \A b \in Batches : status[b] = "published" => Finished(b)

CloseReturnsDrained ==
  [][\A t \in Clients : pc[t] = "join" /\ pc'[t] = "idle" =>
       \A b \in Batches : status[b] = "published" => Finished(b)]_vars


-----------------------------------------------------------------------------
(* Scheduling.                                                             *)

\* A claimed turn is held only from the time-out to the end of the item's decode, never
\* across a handler, and never once teardown has begun.
TurnDiscipline ==
  /\ workerTurn => claimedTurn
  /\ claimedTurn => wpc \in {"take", "check", "lock", "decode", "release"}
  /\ stopping => ~workerTurn

\* A handler that calls back in never blocks on a condition variable only the worker
\* itself could signal: not on the turn, and not on a batch.
HandlerNeverParks == wpc = "handler" => Awake(Worker)

SomeoneAt(locs) == \E t \in Threads : pc[t] \in locs

\* No wake-up is lost: whoever sleeps on a condition that has become true is about to
\* be notified.
NoLostWakeup ==
  /\ ~Awake(Worker) /\ wpc = "take" /\ (queue # <<>> \/ stopping)
       => SomeoneAt({"notifyOne", "raise", "wake"})
  /\ ~Awake(Worker) /\ wpc = "defer" /\ NoSyncWaiters => SomeoneAt({"notify", "raise", "wake"})
  /\ \A t \in asleep :
       /\ pc[t] = "turn" /\ MayPassTurn => wpc = "notifyTurn" \/ SomeoneAt({"raise", "wake"})
       /\ pc[t] = "wait" /\ Finished(arg[t]) => wpc = "notifyDone" /\ batch = arg[t]

\* Once requestStop() has run, no item gets as far as the decoder any more: the worker's
\* drain delivers everything still queued, and whatever is queued meanwhile, `cancelled`.
DrainCancelsEverything == [][stopping /\ wpc = "check" => wpc' # "lock"]_vars

\* A synchronous caller that is waiting for the decoder is served before the worker starts
\* its next item, unless the worker has claimed its turn.
WaitingCallersGoFirst ==
  [][wpc = "take" /\ wpc' = "check" => claimedTurn \/ syncWaiters = 0]_vars

\* close() leaves no call of another thread inside an engine that no longer exists.
EngineOutlivesCalls == EngineFreed => \A t \in Clients : ~InEngine(t)

-----------------------------------------------------------------------------
(* The engine implements the contract.  The item in hand counts as started *)
(* from the moment its token was found clear, unless its decode came back  *)
(* cancelled.                                                              *)

Started ==
  IF \/ wpc \in {"lock", "decode"}
     \/ wpc \in {"release", "notifyTurn", "deliver"} /\ result # "cancelled"
  THEN batch ELSE None

Contract == INSTANCE GenerationContract WITH
  order <- published,
  done <- delivered,
  asked <- IF stopFlag THEN Batches ELSE {b \in Batches : cancelled[b]},
  started <- Started,
  finished <- {b \in Batches : status[b] # "unused" /\ Finished(b)},
  closing <- stopping

\* Whatever the threads do, a caller sees what the contract allows.
ImplementsContract == Contract!Spec

-----------------------------------------------------------------------------
(* Liveness.                                                               *)

\* Every accepted batch is delivered to its end.
BatchesFinish == \A b \in Batches : status[b] = "published" ~> Finished(b)

\* It is, by a decoder mutex that lets everyone through in the end.
BatchesFinishInTurn == DecoderIsFair => BatchesFinish

\* By such a mutex every call returns: imageAt() gets the decoder, close() its worker,
\* wait() its batch.  A call that is inside the engine when close() frees it is lost.
CallsReturn ==
  DecoderIsFair =>
    \A t \in Threads : pc[t] # "idle" ~> pc[t] = "idle" \/ (EngineFreed /\ InEngine(t))

\* A turn the worker has claimed is served however many callers keep arriving, even by a
\* mutex that is not fair.
ClaimedTurnIsServed == claimedTurn ~> ~claimedTurn

\* Teardown ends the worker, joined or detached, whoever gets the decoder first.
TeardownEnds == stopping ~> wpc = "exited"

=============================================================================
