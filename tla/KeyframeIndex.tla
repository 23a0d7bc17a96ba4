--------------------------- MODULE KeyframeIndex ---------------------------
(* The recorded half of detail/KeyframeIndex.h: the key frames seen on a     *)
(* container without a trusted index, where each one's GOP ends, the GOP     *)
(* length and the reorder delay learned on the way.  An index is a record:   *)
(*   next        for each recorded key frame, the end of its GOP (NoPts while *)
(*               unknown, Forever once the stream ended inside it)            *)
(*   contiguous  the last key frame recorded with no seek since, or NoPts     *)
(*   gopHint     the longest distance between key frames observed             *)
(*   reorder     a key frame's pts - dts, the smallest seen, or NoPts         *)
(* Byte positions are abstracted: a key frame is found by its pts.           *)
EXTENDS Integers, FiniteSets, FiniteSetsExt

CONSTANTS NoPts, Forever, MaxKeyEntries

ASSUME IndexAssumption ==
  /\ NoPts \in Int /\ Forever \in Nat \ {0} /\ NoPts < 0
  /\ MaxKeyEntries \in Nat \ {0}

EmptyIndex == [next |-> [k \in {} |-> NoPts], contiguous |-> NoPts, gopHint |-> 0, reorder |-> NoPts]

Recorded(ix) == DOMAIN ix.next

ReorderTicks(ix) == IF ix.reorder = NoPts THEN 0 ELSE ix.reorder

NoteKeyframeSpan(ix, from, to) ==
  IF from = NoPts \/ to <= from + ix.gopHint THEN ix ELSE [ix EXCEPT !.gopHint = to - from]

\* The key frame before pts, if every packet between the two was read.
Precedes(ix, pts) == ix.contiguous # NoPts /\ ix.contiguous < pts

IsFull(ix, pts) == pts \notin Recorded(ix) /\ Cardinality(Recorded(ix)) >= MaxKeyEntries

NextWith(ix, pts) ==
  [k \in Recorded(ix) \cup {pts} |->
     IF k = ix.contiguous /\ Precedes(ix, pts) THEN pts
     ELSE IF k \in Recorded(ix) THEN ix.next[k] ELSE NoPts]

Linked(ix, pts) == IF Precedes(ix, pts) THEN NoteKeyframeSpan(ix, ix.contiguous, pts) ELSE ix

RecordKey(ix, pts) ==
  IF IsFull(ix, pts) THEN ix
  ELSE [Linked(ix, pts) EXCEPT !.next = NextWith(ix, pts), !.contiguous = pts]

LearnReorder(ix, delay) ==
  IF delay < 0 \/ (ix.reorder # NoPts /\ ix.reorder <= delay) THEN ix ELSE [ix EXCEPT !.reorder = delay]

\* mutant: a seek does not break the chain of packets read
KeepContiguity(ix) == ix

ResetContiguity(ix) == [ix EXCEPT !.contiguous = NoPts]

NoteStreamEndedInGop(ix, pts) ==
  IF pts \in Recorded(ix) THEN [ix EXCEPT !.next[pts] = Forever] ELSE ix

RecordedUpTo(ix, target) == {k \in Recorded(ix) : k <= target}

\* mutant: the nearest recorded key frame, wherever its GOP ends
FindNearestKey(ix, target) ==
  IF RecordedUpTo(ix, target) = {} THEN NoPts ELSE Max(RecordedUpTo(ix, target))

\* The recorded key frame whose GOP is known to contain target, or NoPts.
FindCoveringKey(ix, target) ==
  IF RecordedUpTo(ix, target) = {} THEN NoPts
  ELSE LET k == Max(RecordedUpTo(ix, target))
       IN IF ix.next[k] # NoPts /\ target < ix.next[k] THEN k ELSE NoPts

=============================================================================
