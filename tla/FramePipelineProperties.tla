---------------------- MODULE FramePipelineProperties ----------------------
(* What a request may answer, against the stream itself.                    *)
EXTENDS FramePipeline

Shown == {t \in Times : t >= FirstFrameTs}
StreamEnd == Max(Shown) + FrameDuration
OnScreen(t) == Max({s \in Shown : s <= t})
KeyTimes == {Pts(i) : i \in {j \in Packets : IsKey(j)}}

Frames == [pts : Times \cup {NoPts}, key : BOOLEAN, concealed : BOOLEAN, intact : BOOLEAN]
Statuses == {"none", "ok", "cancelled", "timeOutOfRange", "endOfStream", "decodeFailed",
             "notSeekable", "seekFailed"}

\* Every record has its shape, and every counter its bound.
TypeOK ==
  /\ source.next \in 1..(Len(Stream) + 1) /\ source.failures \in 0..MaxSeekFailures
  /\ {source.sticky, source.interrupted, source.seekable} \subseteq BOOLEAN
  /\ decoder.buffer \subseteq Times /\ decoder.intact \subseteq Times
  /\ Cardinality(decoder.buffer) <= Depth + 1
  /\ {frontier.received, frontier.lastKey, frontier.fedPts} \subseteq Times \cup {NoPts}
  /\ frontier.holes \subseteq Times /\ Cardinality(frontier.holes) <= MaxHoles
  /\ {slots.held, slots.pending, slots.corruptLast} \subseteq Frames
  /\ reader.packet \in Packets \cup {0} /\ Len(reader.replay) <= MaxGopPackets
  /\ reader.errors \in 0..MaxErrors /\ mode.errors \in 0..(MaxErrors + 1)
  /\ Recorded(keys) \subseteq KeyTimes /\ Cardinality(Recorded(keys)) <= MaxKeyEntries
  /\ ladder.backoffs \in 0..MaxBackoffs
  /\ reply.status \in Statuses /\ reply.adjustment \in Adjustments /\ reply.frame \in Frames

\* A packet lost on the way, or refused by the decoder, is a picture nothing can
\* show: what is said of every frame of the stream is said of streams that
\* arrive whole.
Whole == Faults \cap {"lost", "rejected", "undecodable"} = {}

Answered == At("idle") /\ reply.status = "ok" /\ window # Probe
Unadjusted == Answered /\ reply.adjustment = "none"

\* An exact request that is answered without a note gets the frame on screen at
\* its target, or an earlier one inside the tolerance it was given, or, when
\* nothing is on screen yet, the first frame if the tolerance reaches it.
FrameAccuracy ==
  Whole /\ Unadjusted /\ ~window.keyMode =>
    \/ window.target >= FirstFrameTs /\ window.target < StreamEnd /\ reply.frame.pts = OnScreen(window.target)
    \/ window.start <= reply.frame.pts /\ reply.frame.pts <= window.target
    \/ window.target < FirstFrameTs /\ reply.frame.pts = FirstFrameTs /\ FirstFrameTs <= window.end

\* An answer that carries a note carries it for a reason: the first frame because
\* the target precedes it, the last because the target lies past it (the last
\* key frame, to the nearest-keyframe mode), or the first presented one because
\* an edit list trimmed the key frame asked for.
HonestClamps ==
  Whole /\ Answered =>
    /\ reply.adjustment = "clampedToFirst" => window.target < FirstFrameTs /\ reply.frame.pts = FirstFrameTs
    /\ reply.adjustment = "clampedToLast" =>
         window.target >= StreamEnd /\ reply.frame.pts = Max(IF window.keyMode THEN KeyTimes ELSE Shown)
    /\ reply.adjustment = "keyframeBeforeEdit" => reply.frame.pts = FirstFrameTs

\* A request is refused only when it lies past the last frame or, on a pipe,
\* before the last one decoded, and fails for no other reason unless it was
\* cancelled.
HonestFailures ==
  Whole /\ At("idle") /\ window # Probe =>
    /\ reply.status = "timeOutOfRange" => window.target >= StreamEnd
    /\ reply.status = "notSeekable" => ~IoSeekable /\ window.target < frontier.received
    /\ reply.status \in {"none", "ok", "cancelled", "timeOutOfRange", "notSeekable"}

\* Nearest-keyframe mode answers with the last key frame at or before the target
\* (where key flags mean something), unless seeking was given up on the way.
NearestKeyframe ==
  Whole /\ Unadjusted /\ window.keyMode /\ Seekable =>
    /\ reply.frame.key /\ reply.frame.pts <= window.target
    /\ KeyFlagsReliable => \A k \in KeyTimes : k <= reply.frame.pts \/ k > window.target

\* When it was, the exact frame is the answer, or the key frame all the same.
ExactWithoutSeek ==
  Unadjusted /\ window.keyMode /\ ~Seekable =>
    reply.frame.pts \in {OnScreen(window.target), Max({k \in KeyTimes : k <= window.target})}

\* A frame decoded from references that were lost is never returned unflagged.
NoSilentDamage == Answered => reply.frame.concealed \/ reply.frame.intact

\* What the recorded index says of a GOP's extent is so: no key frame lies
\* inside it, and a GOP said to reach the end is the last one, unless a read cut
\* short passed for the end of the file or the key frame itself was never read.
IndexIsTrue ==
  Faults \cap {"lost", "short"} = {} => \A k \in Recorded(keys) : keys.next[k] # NoPts =>
    /\ k < keys.next[k]
    /\ \A other \in KeyTimes : other <= k \/ keys.next[k] <= other

\* The end of the stream, once concluded, is the end of the stream, unless the
\* end of file that was read was none or the last frames were dropped as damaged.
TailIsTrue ==
  mode.tailEnd # NoPts /\ Whole /\ Faults \cap {"sticky", "short", "corrupt"} = {} => mode.tailEnd = StreamEnd

\* Every frame between the held frame and the look-ahead frame was produced, or
\* is a recorded hole.
LookAheadIsAdjacent ==
  Whole /\ IsValid(slots.held) /\ IsValid(slots.pending) =>
    /\ slots.held.pts < slots.pending.pts
    /\ \A t \in Shown : t <= slots.held.pts \/ slots.pending.pts <= t \/ t \in frontier.holes

\* A seek that failed is answered for only once re-opening the source failed too,
\* which it does not here.
FailedSeekReopens == reply.status # "seekFailed"

\* Every request ends.
Terminates == ~At("idle") ~> At("idle")

=============================================================================
