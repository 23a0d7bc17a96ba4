------------------------- MODULE GenerationContract -------------------------
(***************************************************************************)
(* What generateImages() promises, with no threads, locks or queues in     *)
(* sight: batches are served one after another in the order they were      *)
(* submitted, the items of a batch in request order, each exactly once; a  *)
(* cancelled item is delivered as cancelled unless it had been started;    *)
(* the handler dies after the last delivery and before the batch reads as  *)
(* finished; and only an empty batch, or one submitted to a generator that *)
(* is closing, finishes without its handler.                               *)
(***************************************************************************)
EXTENDS Naturals, Sequences

CONSTANTS Batches, Size, None

VARIABLES
  order,     \* batches accepted so far, in the order they are served
  done,      \* done[b]: completions handed to b's handler
  asked,     \* batches whose cancellation has been requested
  started,   \* the batch whose next item was started before any cancellation, or None
  handler,   \* whether b's handler still exists
  finished,  \* batches that read as finished
  closing    \* the generator is being torn down

vars == <<order, done, asked, started, handler, finished, closing>>

Accepted(b) == \E i \in DOMAIN order : order[i] = b

Complete(b) == Len(done[b]) = Size[b]

\* b is the batch being served: everything accepted before it is complete.
Serving(b) ==
  \E i \in DOMAIN order :
    /\ order[i] = b /\ ~Complete(b)
    /\ \A j \in 1..(i - 1) : Complete(order[j])

Init ==
  /\ order = <<>> /\ done = [b \in Batches |-> <<>>]
  /\ asked = {} /\ started = None
  /\ handler = [b \in Batches |-> "held"]
  /\ finished = {} /\ closing = FALSE

Submit(b) ==
  /\ ~Accepted(b) /\ b \notin finished /\ Size[b] # 0
  /\ order' = Append(order, b)
  /\ UNCHANGED <<done, asked, started, handler, finished, closing>>

Refuse(b) ==
  /\ ~Accepted(b) /\ b \notin finished
  /\ closing \/ Size[b] = 0
  /\ finished' = finished \cup {b} /\ handler' = [handler EXCEPT ![b] = "destroyed"]
  /\ UNCHANGED <<order, done, asked, started, closing>>

\* Cancellation reaches any set of batches that includes none already forgotten.
RequestCancel ==
  /\ \E S \in SUBSET Batches : asked' = asked \cup S
  /\ UNCHANGED <<order, done, started, handler, finished, closing>>

BeginClose ==
  /\ closing' = TRUE
  /\ \A b \in Batches : Accepted(b) /\ ~Complete(b) => b \in asked'
  /\ asked \subseteq asked'
  /\ UNCHANGED <<order, done, started, handler, finished>>

Start(b) ==
  /\ Serving(b) /\ started = None /\ b \notin asked
  /\ started' = b
  /\ UNCHANGED <<order, done, asked, handler, finished, closing>>

\* A started item sees its cancellation after all.
Abandon ==
  /\ started \in asked
  /\ started' = None
  /\ UNCHANGED <<order, done, asked, handler, finished, closing>>

Deliver(b, outcome) ==
  /\ Serving(b) /\ handler[b] = "held"
  /\ IF outcome = "cancelled" THEN started = None /\ b \in asked ELSE started = b
  /\ done' = [done EXCEPT ![b] = Append(@, [index |-> Len(@), status |-> outcome])]
  /\ started' = None
  /\ UNCHANGED <<order, asked, handler, finished, closing>>

DropHandler(b) ==
  /\ Accepted(b) /\ Complete(b)
  /\ handler' = [handler EXCEPT ![b] = "destroyed"]
  /\ UNCHANGED <<order, done, asked, started, finished, closing>>

Finish(b) ==
  /\ Accepted(b) /\ Complete(b) /\ handler[b] = "destroyed"
  /\ finished' = finished \cup {b}
  /\ UNCHANGED <<order, done, asked, started, handler, closing>>

Next ==
  \/ \E b \in Batches :
       \/ Submit(b) \/ Refuse(b) \/ Start(b) \/ DropHandler(b) \/ Finish(b)
       \/ \E outcome \in {"succeeded", "failed", "cancelled"} : Deliver(b, outcome)
  \/ RequestCancel \/ BeginClose \/ Abandon

Spec == Init /\ [][Next]_vars

=============================================================================
