------------------------ MODULE NearestKeyframeProofs ------------------------
(* Proofs about the nearest-keyframe requests of FramePipeline, for any      *)
(* streams, any requests and any bounds.                                     *)
EXTENDS FramePipelineProofs

\* How long after it is decoded a packet is shown.
Delay(i) == Pts(i) - Stream[i].dts

KeyPackets == {i \in Packets : IsKey(i)}
KeyRequests == {w \in Requests : w.keyMode}

\* The settings in which the key frame asked for can be told: key flags mean
\* something and every packet is read; each nearest-keyframe request has a key
\* frame at or before its target; and where the container's index is trusted, one
\* reorder delay holds for all key frames and no target lies so far past the end
\* that the index gives up.  Seeks may fail, requests be cancelled and frames
\* come out corrupt; exact requests may be among them.
KeysFindable ==
  /\ KeyFlagsReliable /\ ReadsAll /\ Faults \subseteq {"cancel", "corrupt", "seek"}
  /\ \A w \in KeyRequests : \E k \in KeyTimes : k <= w.target
  /\ Trusted => \A i \in KeyPackets :
       /\ Delay(i) >= 0 /\ \A j \in KeyPackets : Delay(j) = Delay(i)
       /\ \A w \in KeyRequests : w.target - Delay(i) <= Stream[Len(Stream)].dts + Max({FrameTicks(2), 1})

\* As long as no key frame was read there is nothing to decode or to answer with.
Untaught ==
  /\ decoder.buffer = {} /\ ~decoder.synced
  /\ reader.packet = 0 /\ reader.replay = <<>>
  /\ landing.best = 0 /\ ~landing.buffering
  /\ ~IsValid(slots.held) /\ ~IsValid(slots.pending) /\ ~IsValid(slots.corruptLast)

DelayLearned ==
  Trusted => IF keys.reorder = NoPts THEN Untaught ELSE \A i \in KeyPackets : keys.reorder = Delay(i)

\* A nearest-keyframe request, as it was made: seeking was not given up, and no
\* edit list turned it into an exact one.
Wants == window.keyMode /\ window.adjustment = "none" /\ Seekable

IsNearest(pts) == pts <= window.target /\ \A k \in KeyTimes : k <= pts \/ k > window.target
IsNearestKey(i) == i \in KeyPackets /\ IsNearest(Pts(i))
RightKey(frame) == frame.key /\ IsNearest(frame.pts)

\* The landing read next, or being read, will find it, or be moved away from.
LandingFinds ==
  /\ ctl.purpose # "arm" /\ landing.target = window.target
  /\ ~IsValid(slots.held) /\ ~IsValid(slots.corruptLast)
  /\ ctl.purpose = "start" => position.atStart

WhileLanding ==
  /\ ~landing.buffering
  /\ landing.best # 0 => landing.scanning /\ Pts(landing.best) <= window.target
  /\ ctl.purpose = "covered" => ~Trusted /\ ~landing.scanning /\ landing.best = 0 /\ IsNearestKey(source.next)
  /\ ~Trusted /\ ctl.purpose # "covered" => landing.scanning
  /\ landing.scanning /\ Trusted => landing.best # 0
  /\ position.atStart /\ landing.best = 0 => \A j \in KeyPackets : source.next <= j

OnceLanded ==
  IF landing.best # 0 THEN IsNearestKey(landing.best)
  ELSE (landing.found => IsNearestKey(reader.packet)) /\ (position.atStart => landing.found)

\* The key frame alone is decoded, and whatever comes out is it.
Draining ==
  /\ mode.keyframeOnly /\ frontier.draining /\ frontier.drained /\ frontier.landingKnown
  /\ \A t \in decoder.buffer : t \in KeyTimes /\ IsNearest(t)
  /\ ~IsValid(slots.held) /\ (IsValid(slots.corruptLast) => RightKey(slots.corruptLast))

Wanted ==
  /\ window \in Requests /\ ~ctl.retrying /\ ctl.pc # "feedKey"
  /\ ctl.pc \in {"seek", "backOff"} => ctl.purpose \in {"start", "indexed", "scanned"}
  /\ ctl.pc = "byteSeek" => ctl.purpose = "covered" /\ IsNearestKey(PacketAt(ctl.aim)) /\ ~Trusted
  /\ Scanning => LandingFinds
  /\ ctl.pc = "landing" => WhileLanding
  /\ ctl.pc = "landed" => OnceLanded
  /\ ctl.pc = "arm" => ~IsValid(slots.held) /\ ~IsValid(slots.corruptLast) /\ IsNearestKey(reader.packet)
  /\ ctl.pc = "select" => Draining
  /\ ctl.pc \in {"answer", "verify"} => RightKey(ctl.frame)
  /\ ctl.pc = "idle" /\ reply.status = "ok" /\ reply.adjustment = "none" => RightKey(reply.frame)

\* A note on the request is a note on its answer.
NotesKept ==
  ctl.pc = "idle" /\ reply.status = "ok" /\ reply.adjustment = "none" => window.adjustment = "none"

KeyInv == ~source.sticky /\ NotesKept /\ DelayLearned /\ (Wants => Wanted)

-----------------------------------------------------------------------------
(* The key frame before a target, by index.                                 *)

LEMMA SameKeys ==
  ASSUME source'.setting = source.setting
  PROVE  /\ KeysFindable' <=> KeysFindable
         /\ KeyPackets' = KeyPackets /\ KeyRequests' = KeyRequests
         /\ \A i : Delay(i)' = Delay(i) /\ Pts(i)' = Pts(i) /\ IsKey(i)' = IsKey(i)
         /\ \A t : PacketAt(t)' = PacketAt(t)
<1>1. /\ Stream' = Stream /\ Packets' = Packets /\ KeyTimes' = KeyTimes /\ Requests' = Requests
      /\ KeyFlagsReliable' = KeyFlagsReliable /\ Faults' = Faults /\ Trusted' = Trusted
      /\ (ReadsAll' <=> ReadsAll)
  BY SameStream, SameReads
<1>2. \A i : Delay(i)' = Delay(i) /\ Pts(i)' = Pts(i) /\ IsKey(i)' = IsKey(i)
  BY <1>1 DEF Delay, Pts, IsKey
<1>3. KeyPackets' = KeyPackets
  BY <1>1 DEF KeyPackets, IsKey
<1>4. KeyRequests' = KeyRequests
  BY <1>1 DEF KeyRequests
<1>5. \A t : PacketAt(t)' = PacketAt(t)
  BY <1>1 DEF PacketAt, Pts
<1> QED
  BY <1>1, <1>2, <1>3, <1>4, <1>5 DEF KeysFindable, Delay, Pts, FrameTicks

\* What is nearest to the target of a request stays so.
LEMMA SameNearest ==
  ASSUME source'.setting = source.setting, window' = window
  PROVE  /\ \A t : IsNearest(t)' <=> IsNearest(t)
         /\ \A i : IsNearestKey(i)' <=> IsNearestKey(i)
         /\ \A frame : RightKey(frame)' <=> RightKey(frame)
<1>1. \A t : IsNearest(t)' <=> IsNearest(t)
  BY SameStream DEF IsNearest
<1>2. \A i : IsNearestKey(i)' <=> IsNearestKey(i)
  BY SameStream, SameKeys DEF IsNearestKey, IsNearest, Pts
<1> QED
  BY <1>1, <1>2, SameStream DEF RightKey, IsNearest

\* A key frame at or before the target that no later one is.
LEMMA LastKeyIsNearest ==
  ASSUME source \in Sources, window \in Windows, ReadsAll, NEW i \in KeyPackets, Pts(i) <= window.target,
         \A j \in KeyPackets : i < j => Pts(j) > window.target
  PROVE  IsNearestKey(i)
<1> SUFFICES ASSUME NEW k \in KeyTimes PROVE k <= Pts(i) \/ k > window.target
  BY DEF IsNearestKey, IsNearest
<1>1. PICK j \in KeyPackets : k = Pts(j)
  BY DEF KeyTimes, KeyPackets
<1>2. i \in Packets /\ j \in Packets /\ IsKey(i) /\ IsKey(j) /\ Packets \subseteq Int /\ Pts(i) \in Int
  BY StreamFacts DEF KeyPackets
<1>3. j < i => Pts(j) < Pts(i)
  BY <1>2 DEF ReadsAll
<1>4. j = i \/ j < i \/ i < j
  BY <1>2
<1>5. Pts(j) \in Int
  BY <1>2, StreamFacts
<1> QED
  BY <1>1, <1>2, <1>3, <1>4, <1>5

\* A trusted index with the delay known finds it, at its own time.
LEMMA TrustedIndexFinds ==
  ASSUME source \in Sources, KeysFindable, Trusted, window \in Requests, window.keyMode,
         NEW ix, \A i \in KeyPackets : ix.reorder = Delay(i)
  PROVE  LET i == IndexKeyBefore(ix, window.target)
         IN i # 0 /\ IsNearestKey(i) /\ IndexPts(ix, i) = Pts(i)
<1> DEFINE target == window.target
           last == Len(Stream)
<1>1. /\ last \in Nat /\ Packets = 1..last /\ target \in Int /\ window \in Windows
      /\ \A i \in Packets : Pts(i) \in Int /\ Stream[i].dts \in Int
      /\ window \in KeyRequests
  BY StreamFacts DEF Windows, KeyRequests
<1>2. PICK k \in KeyPackets : Pts(k) <= target
  BY <1>1 DEF KeysFindable, KeyTimes, KeyPackets
<1>3. k \in Packets /\ Delay(k) >= 0 /\ Delay(k) \in Int
      /\ (\A j \in KeyPackets : Delay(j) = Delay(k))
      /\ target - Delay(k) <= Stream[last].dts + Max({FrameTicks(2), 1})
  <2>1. /\ Delay(k) >= 0 /\ (\A j \in KeyPackets : Delay(j) = Delay(k))
        /\ target - Delay(k) <= Stream[last].dts + Max({FrameTicks(2), 1})
    BY <1>1, <1>2 DEF KeysFindable
  <2>2. k \in Packets /\ Delay(k) \in Int
    BY <1>1, <1>2 DEF KeyPackets, Delay
  <2> QED
    BY <2>1, <2>2
<1> DEFINE delay == Delay(k)
           shifted == target - delay
           at == {i \in Packets : Stream[i].dts <= shifted}
           keysAt == {i \in at : IsKey(i)}
<1>4. ReorderTicks(ix) = delay
  BY <1>2, <1>3, IndexAssumption DEF ReorderTicks
<1>5. \A i \in KeyPackets : i \in Packets /\ Stream[i].dts = Pts(i) - delay
  <2> SUFFICES ASSUME NEW i \in KeyPackets PROVE i \in Packets /\ Stream[i].dts = Pts(i) - delay
    OBVIOUS
  <2>1. i \in Packets /\ Pts(i) - Stream[i].dts = delay
    BY <1>3 DEF KeyPackets, Delay
  <2> HIDE DEF delay
  <2> QED
    BY <1>1, <2>1
<1>6. \A i \in KeyPackets : i \in keysAt <=> Pts(i) <= target
  <2> SUFFICES ASSUME NEW i \in KeyPackets PROVE i \in keysAt <=> Pts(i) <= target
    OBVIOUS
  <2>1. i \in keysAt <=> Stream[i].dts <= shifted
    BY <1>5 DEF KeyPackets
  <2>2. Stream[i].dts = Pts(i) - delay /\ Pts(i) \in Int /\ delay \in Int
    BY <1>1, <1>3, <1>5
  <2> HIDE DEF keysAt, delay
  <2> QED
    BY <1>1, <2>1, <2>2
<1>7. k \in keysAt /\ keysAt \subseteq KeyPackets /\ keysAt \subseteq at /\ at # {}
  BY <1>2, <1>6 DEF KeyPackets
<1>8. Max(keysAt) \in keysAt /\ \A i \in keysAt : i <= Max(keysAt)
  <2>1. keysAt \subseteq Int /\ keysAt # {} /\ \A i \in keysAt : i <= last
    BY <1>1, <1>7
  <2>2. last \in Int
    BY <1>1
  <2> HIDE DEF keysAt, last
  <2> QED
    BY <2>1, <2>2, MaxIsGreatest
<1>9. ~(Max(at) = last /\ shifted > Stream[Max(at)].dts + Max({FrameTicks(2), 1}))
  <2> DEFINE slack == Max({FrameTicks(2), 1})
             dts == Stream[last].dts
  <2>1. dts \in Int /\ shifted \in Int /\ FrameTicks(2) \in Int
    <3>1. last \in Packets
      BY <1>1, <1>3
    <3>2. shifted \in Int
      BY <1>1, <1>3
    <3> QED
      BY <1>1, <3>1, <3>2, TicksTypes
  <2>2. slack \in Int
    BY <2>1, MaxOfTwo
  <2>3. shifted <= dts + slack
    BY <1>3
  <2> HIDE DEF slack, dts, shifted, at
  <2>4. ~(shifted > dts + slack)
    BY <2>1, <2>2, <2>3
  <2> QED
    BY <2>4 DEF slack, dts
<1>10. IndexKeyBefore(ix, target) = Max(keysAt)
  BY <1>4, <1>7, <1>9 DEF IndexKeyBefore
<1> DEFINE i == Max(keysAt)
<1>11. i \in KeyPackets /\ Pts(i) <= target /\ i # 0
  BY <1>1, <1>5, <1>6, <1>7, <1>8
<1>12. \A j \in KeyPackets : i < j => Pts(j) > target
  <2> SUFFICES ASSUME NEW j \in KeyPackets, i < j PROVE Pts(j) > target
    OBVIOUS
  <2>1. i \in Int /\ j \in Int /\ Pts(j) \in Int
    BY <1>1, <1>5, <1>11
  <2> HIDE DEF keysAt
  <2>2. j \notin keysAt
    BY <1>8, <2>1
  <2> HIDE DEF i
  <2> QED
    BY <1>1, <1>6, <2>1, <2>2
<1>13. IsNearestKey(i)
  <2> HIDE DEF i
  <2> QED
    BY <1>1, <1>11, <1>12, LastKeyIsNearest DEF KeysFindable
<1>14. IndexPts(ix, i) = Pts(i)
  <2>1. IndexPts(ix, i) = (Pts(i) - delay) + delay /\ Pts(i) \in Int /\ delay \in Int
    BY <1>1, <1>3, <1>4, <1>5, <1>11 DEF IndexPts
  <2> HIDE DEF i, delay
  <2> QED
    BY <2>1
<1> QED
  BY <1>10, <1>11, <1>13, <1>14

\* A recorded key frame whose group covers the target is it.
LEMMA CoveringKeyIsNearest ==
  ASSUME source \in Sources, window \in Windows, Indexed(keys), Truthful(keys),
         FindCoveringKey(keys, window.target) # NoPts
  PROVE  /\ FindCoveringKey(keys, window.target) \in KeyTimes
         /\ IsNearest(FindCoveringKey(keys, window.target))
<1> DEFINE target == window.target
           k == FindCoveringKey(keys, target)
<1>1. target \in Int
  BY DEF Windows
<1>2. k \in Recorded(keys) /\ k \in KeyTimes /\ k <= target
  BY <1>1, CoveringKeyFacts
<1>3. keys.next[k] # NoPts /\ target < keys.next[k]
  BY DEF FindCoveringKey
<1>4. keys.next[k] \in Int /\ KeyTimes \subseteq Int
  BY <1>2, IndexShape, StreamFacts DEF Indexed
<1>5. \A other \in KeyTimes : other <= k \/ keys.next[k] <= other
  BY <1>2, <1>3 DEF Truthful
<1> HIDE DEF k
<1>6. \A other \in KeyTimes : other <= k \/ other > target
  <2> DEFINE end == keys.next[k]
  <2> SUFFICES ASSUME NEW other \in KeyTimes PROVE other <= k \/ other > target
    OBVIOUS
  <2>1. end \in Int /\ other \in Int /\ target < end /\ (other <= k \/ end <= other)
    BY <1>3, <1>4, <1>5
  <2> HIDE DEF end
  <2> QED
    BY <1>1, <2>1
<1> QED
  BY <1>2, <1>6 DEF IsNearest, k

-----------------------------------------------------------------------------
(* The delay is learned from the first key frame read, or not at all.       *)

LEMMA DelayNotes ==
  ASSUME NEW ix, Indexed(ix)
  PROVE  /\ ResetContiguity(ix).reorder = ix.reorder
         /\ \A a, b \in Int : NoteKeyframeSpan(ix, a, b).reorder = ix.reorder
         /\ \A a \in Int : /\ NoteStreamEndedInGop(ix, a).reorder = ix.reorder
                           /\ RecordKey(ix, a).reorder = ix.reorder
                           /\ LearnReorder(ix, a).reorder =
                                IF a < 0 \/ (ix.reorder # NoPts /\ ix.reorder <= a) THEN ix.reorder ELSE a
<1>1. ix.next \in [Recorded(ix) -> Int] /\ ix.reorder \in Int /\ ix \in Indices
  BY IndexShape DEF Indexed
<1>2. \A a, b \in Int : NoteKeyframeSpan(ix, a, b).reorder = ix.reorder
  BY <1>1 DEF NoteKeyframeSpan, Indices
<1>3. \A a \in Int : RecordKey(ix, a).reorder = ix.reorder
  BY <1>1, <1>2 DEF RecordKey, Linked, Indices, Precedes, NoteKeyframeSpan
<1>4. \A a \in Int : LearnReorder(ix, a).reorder =
                       IF a < 0 \/ (ix.reorder # NoPts /\ ix.reorder <= a) THEN ix.reorder ELSE a
  BY <1>1 DEF LearnReorder, Indices
<1>5. ResetContiguity(ix).reorder = ix.reorder /\ \A a \in Int : NoteStreamEndedInGop(ix, a).reorder = ix.reorder
  BY <1>1 DEF ResetContiguity, NoteStreamEndedInGop, Indices
<1> QED
  BY <1>2, <1>3, <1>4, <1>5

LEMMA PacketTeaches ==
  ASSUME Shapes, NEW i \in Packets
  PROVE  /\ LandingIndex(i).reorder = NotePacket(i).reorder
         /\ ~IsKey(i) => NotePacket(i).reorder = keys.reorder
         /\ IsKey(i) => NotePacket(i).reorder =
              IF Delay(i) < 0 \/ (keys.reorder # NoPts /\ keys.reorder <= Delay(i)) THEN keys.reorder ELSE Delay(i)
<1>1. Indexed(keys) /\ Pts(i) \in Int /\ Delay(i) \in Int /\ Begun(i).start \in Int /\ source \in Sources
  BY StreamFacts, BegunTypes DEF Shapes, Delay
<1> DEFINE learned == LearnReorder(keys, Delay(i))
           noted == NotePacket(i)
<1>2. Indexed(learned) /\ Indexed(noted)
  BY <1>1, IndexNotes, NotePacketFacts
<1>3. learned.reorder = IF Delay(i) < 0 \/ (keys.reorder # NoPts /\ keys.reorder <= Delay(i))
                        THEN keys.reorder ELSE Delay(i)
  BY <1>1, DelayNotes
<1>4. noted = IF ~IsKey(i) THEN keys ELSE IF Trusted THEN learned ELSE RecordKey(learned, Pts(i))
  BY DEF NotePacket, Delay
<1> HIDE DEF learned, noted
<1>5. RecordKey(learned, Pts(i)).reorder = learned.reorder
  BY <1>1, <1>2, DelayNotes
<1>6. NoteKeyframeSpan(noted, Begun(i).start, Pts(i)).reorder = noted.reorder
  BY <1>1, <1>2, DelayNotes
<1>7. LandingIndex(i).reorder = noted.reorder
  BY <1>6 DEF LandingIndex, noted
<1> QED
  BY <1>3, <1>4, <1>5, <1>7 DEF noted

\* A key frame read teaches the delay all key frames have.
LEMMA KeyTeaches ==
  ASSUME Shapes, KeysFindable, Trusted, DelayLearned, NEW i \in KeyPackets
  PROVE  /\ NotePacket(i).reorder # NoPts
         /\ \A j \in KeyPackets : NotePacket(i).reorder = Delay(j)
<1>1. i \in Packets /\ IsKey(i) /\ source \in Sources /\ NoPts < 0 /\ NoPts \in Int
  BY IndexAssumption DEF KeyPackets, Shapes
<1>2. Delay(i) \in Int
  BY <1>1, StreamFacts DEF Delay
<1>3. Delay(i) >= 0 /\ \A j \in KeyPackets : Delay(j) = Delay(i)
  BY DEF KeysFindable
<1>4. keys.reorder = NoPts \/ keys.reorder = Delay(i)
  BY DEF DelayLearned
<1>5. NotePacket(i).reorder = Delay(i)
  BY <1>1, <1>2, <1>3, <1>4, PacketTeaches
<1> QED
  BY <1>1, <1>2, <1>3, <1>5

\* The delay is as it was, or as the key frame just read, the next one of the
\* demuxer, teaches it.
DelayKept == keys'.reorder = keys.reorder

LEMMA ResetKeepsDelay ==
  ASSUME TypeInv, NEW f, NEW m, NEW v, ResetPosition(f, m, v)
  PROVE  DelayKept
<1>1. keys' = ResetContiguity(keys) /\ Indexed(keys)
  BY DEF ResetPosition, TypeInv, Shapes
<1> QED
  BY <1>1, DelayNotes DEF DelayKept

LEMMA ReadKeepsDelay ==
  ASSUME TypeInv, HasPacket, NEW keep, Read(keep)
  PROVE  DelayKept \/ \E i \in KeyPackets : keys'.reorder = NotePacket(i).reorder
<1>1. CASE reader.replay # <<>>
  BY <1>1 DEF Read, DelayKept
<1>2. CASE reader.replay = <<>>
  <2>1. source.next \in Packets /\ keys' = NotePacket(source.next)
    BY <1>2, NextPacket DEF TypeInv, Read, ReadFromDemuxer
  <2>2. CASE IsKey(source.next)
    BY <2>1, <2>2 DEF KeyPackets
  <2>3. CASE ~IsKey(source.next)
    BY <2>1, <2>3, PacketTeaches DEF TypeInv, DelayKept
  <2> QED
    BY <2>2, <2>3
<1> QED
  BY <1>1, <1>2

\* No step makes the delay anything else.
LEMMA DelayStep ==
  ASSUME TypeInv, Next
  PROVE  DelayKept \/ \E i \in KeyPackets : keys'.reorder = NotePacket(i).reorder
<1>0. Shapes /\ Indexed(keys)
  BY DEF TypeInv, Shapes
<1>1. CASE Starts
  <2>1. CASE Recover
    <3>1. \E f : ResetPosition(f, mode, reader.verifiedTo)
      BY <2>1 DEF Recover
    <3> QED
      BY <3>1, ResetKeepsDelay
  <2>2. CASE ~Recover
    BY <1>1, <2>2 DEF Starts, Accept, AnswerFromHeld, AnswerAtTail, Promote, Continue, Reposition, DelayKept
  <2> QED
    BY <2>1, <2>2
<1>2. CASE Moves
  <2>1. keys' = keys \/ \E f, m, v : ResetPosition(f, m, v)
    <3>1. CASE Position \/ BackOff
      BY <3>1 DEF Position, BackOff
    <3>2. CASE PositionUnseekable
      BY <3>2 DEF PositionUnseekable, Reopen
    <3>3. CASE SeekToStart \/ Seek \/ ByteSeek
      BY <3>3 DEF SeekToStart, Seek, ByteSeek, AfterSeek, Forget
    <3>4. CASE SeekFails
      <4>1. \E failures : Reopen(failures)
        BY <3>4 DEF SeekFails
      <4> QED
        BY <4>1 DEF Reopen
    <3>5. CASE ByteSeekFails
      BY <3>5 DEF ByteSeekFails, Forget
    <3> QED
      BY <1>2, <3>1, <3>2, <3>3, <3>4, <3>5 DEF Moves
  <2> QED
    BY <2>1, ResetKeepsDelay DEF DelayKept
<1>3. CASE Lands
  <2>1. CASE LandOnAnything \/ LandOnNonKey
    <3>1. HasPacket /\ \E keep : Read(keep)
      BY <2>1 DEF LandOnAnything, LandOnNonKey
    <3> QED
      BY <3>1, ReadKeepsDelay
  <2>2. CASE LandPastTarget \/ LandOnKey
    <3>1. HasPacket /\ ctl.pc = "landing" /\ IsKey(Next1) /\ keys' = LandingIndex(Next1)
      BY <2>2 DEF LandPastTarget, LandOnKey, At, ReadFromDemuxer
    <3>2. Next1 \in KeyPackets
      BY <1>0, <3>1, NextPacket DEF KeyPackets
    <3>3. keys'.reorder = NotePacket(Next1).reorder
      BY <1>0, <3>1, <3>2, PacketTeaches DEF KeyPackets
    <3> QED
      BY <3>2, <3>3
  <2>3. CASE LandAtEnd
    <3>1. keys' = IF landing.best = 0 THEN keys ELSE NoteStreamEndedInGop(keys, Pts(landing.best))
      BY <2>3 DEF LandAtEnd
    <3>2. landing.best # 0 => Pts(landing.best) \in Int
      BY <1>0, LandingParts, StreamFacts DEF Shapes
    <3> QED
      BY <1>0, <3>1, <3>2, DelayNotes DEF DelayKept
  <2>4. CASE SettleOnParked \/ SettleOnReplay \/ SettleByRewinding \/ AfterLanding
    BY <2>4 DEF SettleOnParked, SettleOnReplay, SettleByRewinding, AfterLanding, DelayKept
  <2> QED
    BY <1>3, <2>1, <2>2, <2>3, <2>4 DEF Lands
<1>4. CASE Selects
  <2>1. CASE SkipToKeyframe \/ FeedNextPacket
    <3>1. HasPacket /\ Read(FALSE)
      BY <2>1 DEF SkipToKeyframe, FeedNextPacket
    <3> QED
      BY <3>1, ReadKeepsDelay
  <2>2. CASE DemuxError
    BY <2>2 DEF DemuxError, DelayKept
  <2>3. CASE StashCorrupt \/ PlaceInKeyframeMode \/ PlaceInExactMode \/ LookAhead
             \/ BackOffFromOvershoot \/ AnswerOvershoot
    <3>1. Emits /\ keys' = NoteKeyframeSpan(keys, frontier.lastKey, Emitted)
      BY <2>3 DEF StashCorrupt, PlaceInKeyframeMode, PlaceInExactMode, LookAhead, BackOffFromOvershoot,
                  AnswerOvershoot, Overshoots, Receive
    <3>2. frontier.lastKey \in Int /\ Emitted \in Int
      <4>1. decoder.buffer # {} /\ decoder.buffer \subseteq Times /\ source \in Sources
        BY <1>0, <3>1 DEF Emits, Shapes, Decoders, DecoderRecords
      <4>2. Emitted \in Times
        BY <4>1, ExtremeTimes DEF Emitted
      <4> QED
        BY <1>0, <4>1, <4>2, FrontierParts, StreamFacts, IndexAssumption
    <3> QED
      BY <1>0, <3>1, <3>2, DelayNotes DEF DelayKept
  <2>4. CASE RetryAfterEmptyEof
    BY <2>4, ResetKeepsDelay DEF RetryAfterEmptyEof
  <2>5. CASE AnswerFirstFrame \/ FetchKeyframe \/ FeedKeyframeAndDrain \/ FeedHeldPacket \/ StartDrain
             \/ BackOffFromTail \/ EndOfStream
    BY <2>5 DEF AnswerFirstFrame, FetchKeyframe, FeedKeyframeAndDrain, FeedHeldPacket, StartDrain,
                BackOffFromTail, EndOfStream, DelayKept
  <2> QED
    BY <1>4, <2>1, <2>2, <2>3, <2>4, <2>5 DEF Selects
<1>5. CASE Ends
  <2>1. CASE VerifyPacket
    <3>1. HasPacket /\ Read(FALSE)
      BY <2>1 DEF VerifyPacket
    <3> QED
      BY <3>1, ReadKeepsDelay
  <2>2. CASE GiveAnswer \/ VerifyTail \/ VerifyEnd
    BY <2>2 DEF GiveAnswer, VerifyTail, VerifyEnd, DelayKept
  <2> QED
    BY <1>5, <2>1, <2>2 DEF Ends
<1>6. CASE Cancels
  <2>1. CASE Cancel \/ InterruptRead \/ ShortRead
    BY <2>1 DEF Cancel, InterruptRead, ShortRead, DelayKept
  <2>2. CASE InterruptSeek
    BY <2>2, ResetKeepsDelay DEF InterruptSeek, Forget
  <2> QED
    BY <1>6, <2>1, <2>2 DEF Cancels
<1>7. CASE NoGenerator
  BY <1>7 DEF NoGenerator, vars, DelayKept
<1> QED
  BY <1>1, <1>2, <1>3, <1>4, <1>5, <1>6, <1>7 DEF Next

-----------------------------------------------------------------------------
(* What is never so on such files, and who answers.                         *)

Allowed == Faults \cap {"sticky", "short", "lost", "rejected", "undecodable"} = {}

LEMMA OnlyAllowed ==
  ASSUME KeysFindable
  PROVE  Allowed /\ KeyFlagsReliable /\ ReadsAll
BY DEF KeysFindable, Allowed

\* A read that was cut short never passes for the end of the file.
LEMMA NeverSticky ==
  ASSUME TypeInv, KeysFindable, ~source.sticky, Next
  PROVE  ~source'.sticky
<1>0. Shapes /\ Allowed /\ source \in SourceRecords
  BY OnlyAllowed, SourceParts DEF TypeInv
<1>1. CASE Starts
  <2>1. source' = source \/ source' = [source EXCEPT !.interrupted = FALSE, !.sticky = FALSE]
    BY <1>1 DEF Starts, Accept, Recover, AnswerFromHeld, AnswerAtTail, Promote, Continue, Reposition
  <2> QED
    BY <1>0, <2>1 DEF SourceRecords
<1>2. CASE Moves
  <2>1. CASE Position \/ BackOff \/ ByteSeekFails
    BY <2>1 DEF Position, BackOff, ByteSeekFails
  <2>2. ASSUME NEW failures, Reopen(failures) PROVE ~source'.sticky
    <3> DEFINE able == IoSeekable /\ failures < MaxSeekFailures
    <3>1. source' = [source EXCEPT !.next = 1, !.sticky = FALSE, !.failures = failures, !.seekable = able]
      BY <2>2 DEF Reopen
    <3> HIDE DEF able
    <3> QED
      BY <1>0, <3>1 DEF SourceRecords
  <2>3. CASE PositionUnseekable \/ SeekFails
    <3>1. source' = source \/ \E failures : Reopen(failures)
      BY <2>3 DEF PositionUnseekable, SeekFails
    <3> QED
      BY <2>2, <3>1
  <2>4. CASE SeekToStart \/ Seek \/ ByteSeek
    <3>1. (\E i : source' = [source EXCEPT !.next = i]) \/ (\E i : source' = [source EXCEPT !.next = i, !.failures = 0])
      BY <2>4 DEF SeekToStart, Seek, ByteSeek
    <3> QED
      BY <1>0, <3>1 DEF SourceRecords
  <2> QED
    BY <1>2, <2>1, <2>3, <2>4 DEF Moves
<1>3. ASSUME NEW keep, NEW ix, ReadFromDemuxer(keep, ix) PROVE ~source'.sticky
  BY <1>0, <1>3 DEF ReadFromDemuxer, SourceRecords
<1>4. ASSUME NEW keep, Read(keep) PROVE ~source'.sticky
  BY <1>3, <1>4 DEF Read
<1>5. CASE Lands
  <2>1. CASE LandOnAnything \/ LandOnNonKey
    BY <1>4, <2>1 DEF LandOnAnything, LandOnNonKey
  <2>2. CASE LandPastTarget \/ LandOnKey
    <3>1. \E keep, ix : ReadFromDemuxer(keep, ix)
      BY <2>2 DEF LandPastTarget, LandOnKey
    <3> QED
      BY <1>3, <3>1
  <2>3. CASE ~(LandOnAnything \/ LandOnNonKey \/ LandPastTarget \/ LandOnKey)
    BY <1>5, <2>3 DEF Lands, LandAtEnd, SettleOnParked, SettleOnReplay, SettleByRewinding, AfterLanding
  <2> QED
    BY <2>1, <2>2, <2>3
<1>6. CASE Selects
  <2>1. CASE SkipToKeyframe \/ FeedNextPacket
    BY <1>4, <2>1 DEF SkipToKeyframe, FeedNextPacket
  <2>2. CASE DemuxError
    BY <1>0, <2>2 DEF DemuxError, Allowed
  <2>3. CASE RetryAfterEmptyEof
    <3>1. source' = [source EXCEPT !.sticky = FALSE]
      BY <2>3 DEF RetryAfterEmptyEof
    <3> QED
      BY <1>0, <3>1 DEF SourceRecords
  <2>4. CASE StashCorrupt \/ PlaceInKeyframeMode \/ PlaceInExactMode \/ LookAhead
             \/ BackOffFromOvershoot \/ AnswerOvershoot
    BY <2>4 DEF StashCorrupt, PlaceInKeyframeMode, PlaceInExactMode, LookAhead, BackOffFromOvershoot,
                AnswerOvershoot, Receive
  <2>5. CASE AnswerFirstFrame \/ FetchKeyframe \/ FeedKeyframeAndDrain \/ FeedHeldPacket \/ StartDrain
             \/ BackOffFromTail \/ EndOfStream
    BY <2>5 DEF AnswerFirstFrame, FetchKeyframe, FeedKeyframeAndDrain, FeedHeldPacket, StartDrain,
                BackOffFromTail, EndOfStream
  <2> QED
    BY <1>6, <2>1, <2>2, <2>3, <2>4, <2>5 DEF Selects
<1>7. CASE Ends
  <2>1. CASE VerifyPacket
    BY <1>4, <2>1 DEF VerifyPacket
  <2>2. CASE GiveAnswer \/ VerifyTail \/ VerifyEnd
    BY <2>2 DEF GiveAnswer, VerifyTail, VerifyEnd
  <2> QED
    BY <1>7, <2>1, <2>2 DEF Ends
<1>8. CASE Cancels
  <2>1. CASE Cancel
    BY <2>1 DEF Cancel
  <2>2. CASE InterruptRead
    <3>1. source' = [source EXCEPT !.interrupted = TRUE]
      BY <1>0, <2>2 DEF InterruptRead, Allowed
    <3> QED
      BY <1>0, <3>1 DEF SourceRecords
  <2>3. CASE ShortRead
    BY <1>0, <2>3 DEF ShortRead, Allowed
  <2>4. CASE InterruptSeek
    <3>1. \E i : source' = [source EXCEPT !.interrupted = TRUE, !.next = i]
      BY <2>4 DEF InterruptSeek
    <3> QED
      BY <1>0, <3>1 DEF SourceRecords
  <2> QED
    BY <1>8, <2>1, <2>2, <2>3, <2>4 DEF Cancels
<1>9. CASE NoGenerator
  BY <1>9 DEF NoGenerator, vars
<1> QED
  BY <1>1, <1>2, <1>5, <1>6, <1>7, <1>8, <1>9 DEF Next

\* The step gives no answer.
Silent == ctl'.pc # "idle" \/ reply'.status # "ok"

LEMMA FailsSilently ==
  ASSUME NEW status, status # "ok", Fail(status)
  PROVE  Silent /\ ctl'.pc = "idle"
BY DEF Fail, EndRequest, Silent, Idle

\* Whatever FinishAtEof chooses still has to be looked at.
LEMMA FinishesSilently ==
  ASSUME Shapes, FinishAtEof
  PROVE  Silent
<1>1. slots.held \in Frames /\ slots.corruptLast \in Frames /\ ctl \in Controls
      /\ "none" \in Adjustments /\ "clampedToLast" \in Adjustments
  BY SlotTypes, FrameTypes DEF Shapes, Adjustments
<1>2. ASSUME NEW frame \in Frames, NEW adjustment \in Adjustments, Select(frame, adjustment)
      PROVE  Silent
  BY <1>1, <1>2, GoTypes DEF Silent
<1>3. ASSUME NEW frame \in Frames, FinishWith(frame)
      PROVE  Silent
  <2>1. Select(frame, "none") \/ Select(frame, "clampedToLast") \/ Fail("timeOutOfRange")
    BY <1>3 DEF FinishWith
  <2> QED
    BY <1>1, <1>2, <2>1, FailsSilently
<1>4. CASE IsValid(slots.held)
  BY <1>1, <1>3, <1>4 DEF FinishAtEof
<1>5. CASE ~IsValid(slots.held) /\ ~IsValid(slots.corruptLast)
  <2>1. Fail("decodeFailed") \/ Fail("endOfStream")
    BY <1>5 DEF FinishAtEof, FailSelection
  <2> QED
    BY <2>1, FailsSilently
<1>6. CASE ~IsValid(slots.held) /\ IsValid(slots.corruptLast)
  <2>1. Select(slots.corruptLast, "none") \/ FinishWith(slots.corruptLast)
    BY <1>6 DEF FinishAtEof
  <2> QED
    BY <1>1, <1>2, <1>3, <2>1
<1> QED
  BY <1>4, <1>5, <1>6

\* Nobody answers but the tail check and what stands in for it.
LEMMA OnlyEndsAnswer ==
  ASSUME TypeInv, Next, ~Ends, ~NoGenerator
  PROVE  Silent
<1>0. Shapes /\ ctl \in Controls
  BY DEF TypeInv, Shapes
<1>1. ASSUME NEW pc \in Places \ {"idle"}, Go(pc) PROVE Silent
  BY <1>0, <1>1, GoTypes DEF Silent
<1>2. ASSUME ctl' = ctl, ctl.pc # "idle" PROVE Silent
  BY <1>2 DEF Silent
<1>3. {"start", "position", "select", "landed", "arm", "feedKey"} \subseteq Places \ {"idle"}
      /\ Positioned \in Places \ {"idle"}
  BY DEF Places, Positioned
<1>4. ASSUME NEW target, NEW scan, NEW purpose, BeginLanding(target, scan, purpose) PROVE Silent
  BY <1>0, <1>4 DEF BeginLanding, Silent, Controls
<1>5. ASSUME NEW seekable, AfterMove(seekable) PROVE Silent
  <2>1. \/ BeginLanding(window.target, ~Trusted, ctl.purpose)
        \/ Go(IF ctl.purpose = "select" THEN "select" ELSE Positioned)
    BY <1>5 DEF AfterMove
  <2>2. (IF ctl.purpose = "select" THEN "select" ELSE Positioned) \in Places \ {"idle"}
    BY <1>3
  <2> QED
    BY <1>1, <1>4, <2>1, <2>2
<1>6. ASSUME NEW aim, NEW purpose, SeekThen(aim, purpose) PROVE Silent
  BY <1>0, <1>6 DEF SeekThen, Silent, Controls
<1>7. ASSUME NEW frame, NEW adjustment, Select(frame, adjustment) PROVE Silent
  BY <1>0, <1>7 DEF Select, Silent, Controls
<1>8. CASE Starts
  <2>1. CASE Accept
    <3>1. \E wins \in BOOLEAN : ctl' = [Idle EXCEPT !.pc = IF source.interrupted THEN "recover" ELSE "start", !.forwardWins = wins]
      BY <2>1 DEF Accept
    <3> QED
      BY <3>1 DEF Silent, Idle
  <2>2. CASE Recover \/ Promote \/ Continue \/ Reposition
    <3>1. \E pc \in {"start", "select", "position"} : Go(pc)
      BY <2>2 DEF Recover, Promote, Continue, Reposition
    <3> QED
      BY <1>1, <1>3, <3>1
  <2>3. CASE AnswerFromHeld
    BY <1>7, <2>3 DEF AnswerFromHeld
  <2>4. CASE AnswerAtTail
    BY <1>0, <2>4, FinishesSilently DEF AnswerAtTail
  <2> QED
    BY <1>8, <2>1, <2>2, <2>3, <2>4 DEF Starts
<1>9. CASE Moves
  <2>1. CASE SeekToStart \/ Seek \/ SeekFails
    <3>1. \E seekable : AfterMove(seekable)
      BY <2>1 DEF SeekToStart, Seek, SeekFails
    <3> QED
      BY <1>5, <3>1
  <2>2. CASE ByteSeek
    <3>1. BeginLanding(window.target, FALSE, "covered") \/ Go(Positioned)
      BY <2>2 DEF ByteSeek
    <3> QED
      BY <1>1, <1>3, <1>4, <3>1
  <2>3. CASE ByteSeekFails
    BY <2>3, FailsSilently DEF ByteSeekFails
  <2>4. CASE BackOff
    <3>1. \E aim : SeekThen(aim, ctl.purpose)
      BY <2>4 DEF BackOff
    <3> QED
      BY <1>6, <3>1
  <2>5. CASE Position
    <3>1. Go(Positioned) \/ ctl'.pc = "byteSeek" \/ ctl'.pc = "seek"
      <4>1. CASE CanStay
        BY <2>5, <4>1 DEF Position
      <4>2. CASE ~CanStay
        BY <1>0, <2>5, <4>2 DEF Position, Controls
      <4> QED
        BY <4>1, <4>2
    <3> QED
      BY <1>1, <1>3, <3>1 DEF Silent
  <2>6. CASE PositionUnseekable
    <3>1. Go(Positioned) \/ Fail("notSeekable")
      BY <2>6 DEF PositionUnseekable
    <3> QED
      BY <1>1, <1>3, <3>1, FailsSilently
  <2> QED
    BY <1>9, <2>1, <2>2, <2>3, <2>4, <2>5, <2>6 DEF Moves
<1>10. CASE Lands
  <2>1. CASE LandOnAnything \/ LandPastTarget \/ LandAtEnd
    <3>1. \E l : Landed(l)
      BY <2>1 DEF LandOnAnything, LandPastTarget, LandAtEnd
    <3>2. Go("landed")
      BY <3>1 DEF Landed
    <3> QED
      BY <1>1, <1>3, <3>2
  <2>2. CASE LandOnNonKey \/ LandOnKey
    <3>1. (\E l : Landed(l)) \/ (ctl' = ctl /\ ctl.pc # "idle")
      BY <2>2 DEF LandOnNonKey, LandOnKey, At
    <3>2. Go("landed") \/ (ctl' = ctl /\ ctl.pc # "idle")
      BY <3>1 DEF Landed
    <3> QED
      BY <1>1, <1>2, <1>3, <3>2
  <2>3. CASE SettleOnParked \/ SettleOnReplay
    BY <1>2, <2>3 DEF SettleOnParked, SettleOnReplay, At
  <2>4. CASE SettleByRewinding
    <3>1. \E aim : ctl' = [ctl EXCEPT !.purpose = "found", !.pc = IF Trusted THEN "seek" ELSE "byteSeek", !.aim = aim]
      BY <2>4 DEF SettleByRewinding
    <3> QED
      BY <1>0, <3>1 DEF Silent, Controls
  <2>5. CASE AfterLanding
    <3>1. \/ \E pc \in {"feedKey", "select", Positioned} : Go(pc)
          \/ SeekThen(ScanAim, "scanned") \/ RetryAfterOvershoot \/ \E observed : Retreat(observed)
      BY <2>5 DEF AfterLanding
    <3>2. ASSUME RetryAfterOvershoot PROVE Silent
      <4>1. \E round, purpose, aim : ctl' = [ctl EXCEPT !.pc = "seek", !.round = round, !.purpose = purpose, !.aim = aim]
        BY <3>2 DEF RetryAfterOvershoot
      <4> QED
        BY <1>0, <4>1 DEF Silent, Controls
    <3>3. ASSUME NEW observed, Retreat(observed) PROVE Silent
      BY <1>0, <3>3 DEF Retreat, Silent, Controls
    <3> QED
      BY <1>1, <1>3, <1>6, <3>1, <3>2, <3>3
  <2> QED
    BY <1>10, <2>1, <2>2, <2>3, <2>4, <2>5 DEF Lands
<1>11. CASE Selects
  <2>1. CASE AnswerFirstFrame
    BY <1>1, <1>3, <2>1 DEF AnswerFirstFrame
  <2>2. CASE FetchKeyframe
    BY <1>4, <2>2 DEF FetchKeyframe
  <2>3. CASE FeedKeyframeAndDrain
    <3>1. Go("select") \/ Fail("decodeFailed")
      BY <2>3 DEF FeedKeyframeAndDrain
    <3> QED
      BY <1>1, <1>3, <3>1, FailsSilently
  <2>4. ASSUME NEW i, ctl.pc # "idle", Send(i) \/ (\E e : Reject(i, e)) \/ FailDecode(i)
        PROVE  Silent
    <3>1. ctl' = ctl \/ Fail("decodeFailed")
      BY <2>4 DEF Send, Reject, FailDecode, Lose
    <3> QED
      BY <1>2, <2>4, <3>1, FailsSilently
  <2>5. CASE FeedHeldPacket
    BY <2>4, <2>5 DEF FeedHeldPacket, NeedsInput, At
  <2>6. CASE FeedNextPacket
    BY <2>4, <2>6 DEF FeedNextPacket, NeedsInput, At
  <2>7. CASE SkipToKeyframe \/ StartDrain
    BY <1>2, <2>7 DEF SkipToKeyframe, StartDrain, NeedsInput, At
  <2>8. CASE DemuxError
    BY <1>2, <2>8 DEF DemuxError, Reading, NeedsInput, At
  <2>9. CASE StashCorrupt
    BY <1>2, <2>9 DEF StashCorrupt, Emits, At
  <2>10. CASE PlaceInKeyframeMode \/ PlaceInExactMode
    <3>1. Select(NewFrame, "none") \/ (ctl' = ctl /\ ctl.pc # "idle")
      BY <2>10 DEF PlaceInKeyframeMode, PlaceInExactMode, Emits, At
    <3> QED
      BY <1>2, <1>7, <3>1
  <2>11. CASE LookAhead \/ AnswerOvershoot
    <3>1. \E frame, adjustment : Select(frame, adjustment)
      BY <2>11 DEF LookAhead, AnswerOvershoot
    <3> QED
      BY <1>7, <3>1
  <2>12. CASE BackOffFromOvershoot \/ BackOffFromTail
    <3>1. \E observed : ctl' = [ctl EXCEPT !.pc = "backOff", !.purpose = "select", !.observed = observed]
      BY <2>12 DEF BackOffFromOvershoot, BackOffFromTail
    <3> QED
      BY <1>0, <3>1 DEF Silent, Controls
  <2>13. CASE RetryAfterEmptyEof
    BY <1>0, <2>13 DEF RetryAfterEmptyEof, Silent, Controls
  <2>14. CASE EndOfStream
    BY <1>0, <2>14, FinishesSilently DEF EndOfStream
  <2> QED
    BY <1>11, <2>1, <2>2, <2>3, <2>5, <2>6, <2>7, <2>8, <2>9, <2>10, <2>11, <2>12, <2>13, <2>14 DEF Selects
<1>12. CASE Cancels
  <2>1. CASE ShortRead
    BY <1>0, <2>1 DEF ShortRead, Silent, Controls
  <2>2. CASE Cancel \/ InterruptRead \/ InterruptSeek
    BY <2>2, FailsSilently DEF Cancel, InterruptRead, InterruptSeek
  <2> QED
    BY <1>12, <2>1, <2>2 DEF Cancels
<1> QED
  BY <1>8, <1>9, <1>10, <1>11, <1>12 DEF Next

\* They answer with the frame selected, and note what the request notes.
LEMMA EndsAnswer ==
  ASSUME TypeInv, Ends
  PROVE  /\ window' = window
         /\ ctl.pc \in {"answer", "verify"}
         /\ \/ ctl'.pc = "verify" /\ ctl'.frame = ctl.frame /\ ctl'.retrying = ctl.retrying
            \/ /\ ctl' = Idle
               /\ reply'.status # "ok" \/ reply'.adjustment = "clampedToLast"
                  \/ (reply'.frame = ctl.frame /\ (reply'.adjustment = "none" => window.adjustment = "none"))
<1>0. ctl \in Controls /\ window \in Windows
  BY DEF TypeInv, Shapes
<1>1. window' = window /\ ctl.pc \in {"answer", "verify"}
  BY DEF Ends, GiveAnswer, VerifyTail, VerifyPacket, VerifyEnd, At
<1> DEFINE Told == /\ ctl' = Idle
                   /\ reply'.status # "ok" \/ reply'.adjustment = "clampedToLast"
                      \/ (reply'.frame = ctl.frame /\ (reply'.adjustment = "none" => window.adjustment = "none"))
           Looking == ctl'.pc = "verify" /\ ctl'.frame = ctl.frame /\ ctl'.retrying = ctl.retrying
<1>2. ASSUME Answer(ctl.frame, ctl.adjustment) PROVE Told
  BY <1>2 DEF Answer, EndRequest
<1>3. ASSUME NEW tailEnd, Judge(tailEnd) PROVE Told
  <2>1. Answer(ctl.frame, ctl.adjustment) \/ EndRequest("ok", ctl.frame, "clampedToLast") \/ Fail("timeOutOfRange")
    BY <1>3 DEF Judge
  <2>2. ASSUME EndRequest("ok", ctl.frame, "clampedToLast") \/ Fail("timeOutOfRange") PROVE Told
    BY <2>2 DEF Fail, EndRequest
  <2> QED
    BY <1>2, <2>1, <2>2
<1>4. CASE GiveAnswer
  BY <1>1, <1>2, <1>4 DEF GiveAnswer
<1>5. CASE VerifyTail
  <2>1. Judge(mode.tailEnd) \/ Go("verify")
    BY <1>5 DEF VerifyTail
  <2>2. ASSUME Go("verify") PROVE Looking
    BY <1>0, <2>2 DEF Go, Controls
  <2> QED
    BY <1>1, <1>3, <2>1, <2>2
<1>6. CASE VerifyPacket
  <2>1. Answer(ctl.frame, ctl.adjustment) \/ (ctl' = ctl /\ ctl.pc = "verify")
    BY <1>6 DEF VerifyPacket, At
  <2> QED
    BY <1>1, <1>2, <2>1
<1>7. CASE VerifyEnd
  <2>1. Judge(VerifiedTail)
    BY <1>7 DEF VerifyEnd
  <2> QED
    BY <1>1, <1>3, <2>1
<1> QED
  BY <1>4, <1>5, <1>6, <1>7 DEF Ends

\* The request is the same until the next one, unless an edit list changed it.
LEMMA SameRequest ==
  ASSUME Next, ~Accept, ~AnswerFirstFrame
  PROVE  window' = window
<1>1. CASE Starts
  BY <1>1 DEF Starts, Recover, AnswerFromHeld, AnswerAtTail, Promote, Continue, Reposition
<1>2. CASE Moves
  BY <1>2 DEF Moves, Position, PositionUnseekable, SeekToStart, Seek, SeekFails, ByteSeek, ByteSeekFails, BackOff
<1>3. CASE Lands
  BY <1>3 DEF Lands, LandOnAnything, LandOnNonKey, LandPastTarget, LandOnKey, LandAtEnd, LandingUnchanged,
              SettleOnParked, SettleOnReplay, SettleByRewinding, AfterLanding
<1>4. CASE Selects
  BY <1>4 DEF Selects, FetchKeyframe, FeedKeyframeAndDrain, FeedHeldPacket, SkipToKeyframe, FeedNextPacket,
              StartDrain, DemuxError, StashCorrupt, PlaceInKeyframeMode, PlaceInExactMode, LookAhead,
              BackOffFromOvershoot, AnswerOvershoot, BackOffFromTail, RetryAfterEmptyEof, EndOfStream, Receive
<1>5. CASE Ends
  BY <1>5 DEF Ends, GiveAnswer, VerifyTail, VerifyPacket, VerifyEnd
<1>6. CASE Cancels \/ NoGenerator
  BY <1>6 DEF Cancels, Cancel, InterruptRead, ShortRead, InterruptSeek, NoGenerator, vars
<1> QED
  BY <1>1, <1>2, <1>3, <1>4, <1>5, <1>6 DEF Next

LEMMA NotesStayKept ==
  ASSUME TypeInv, NotesKept, Next
  PROVE  NotesKept'
<1>1. CASE Ends
  BY <1>1, EndsAnswer DEF NotesKept
<1>2. CASE NoGenerator
  BY <1>2 DEF NoGenerator, vars, NotesKept
<1>3. CASE ~Ends /\ ~NoGenerator
  BY <1>3, OnlyEndsAnswer DEF Silent, NotesKept
<1> QED
  BY <1>1, <1>2, <1>3

-----------------------------------------------------------------------------
(* Until a key frame is read there is nothing to answer with.               *)

NothingFed == decoder.buffer = {} /\ ~decoder.synced
NothingRead == reader.packet = 0 /\ reader.replay = <<>>
NothingChosen == landing.best = 0 /\ ~landing.buffering
NothingKept == ~IsValid(slots.held) /\ ~IsValid(slots.pending) /\ ~IsValid(slots.corruptLast)

LEMMA UntaughtParts ==
  /\ Untaught <=> NothingFed /\ NothingRead /\ NothingChosen /\ NothingKept
  /\ Untaught' <=> NothingFed' /\ NothingRead' /\ NothingChosen' /\ NothingKept'
BY DEF Untaught, NothingFed, NothingRead, NothingChosen, NothingKept

LEMMA Emptied ==
  ASSUME TypeInv
  PROVE  /\ decoder' = EmptyDecoder => NothingFed'
         /\ \A f, m, v : ResetPosition(f, m, v) => NothingRead' /\ NothingKept'
         /\ landing' = NoLanding => NothingChosen'
         /\ \A target, scan, purpose : BeginLanding(target, scan, purpose) => NothingChosen'
         /\ \A seekable : AfterMove(seekable) => NothingChosen'
<1>1. decoder' = EmptyDecoder => NothingFed'
  BY DEF EmptyDecoder, NothingFed
<1>2. ASSUME NEW f, NEW m, NEW v, ResetPosition(f, m, v) PROVE NothingRead' /\ NothingKept'
  <2>1. slots' = EmptySlots /\ reader' = [reader EXCEPT !.packet = 0, !.replay = <<>>, !.errors = 0, !.verifiedTo = v]
    BY <1>2 DEF ResetPosition
  <2>2. reader \in ReaderRecords
    BY ReaderParts DEF TypeInv
  <2>3. NothingRead'
    BY <2>1, <2>2 DEF NothingRead, ReaderRecords
  <2>4. NothingKept'
    BY <2>1 DEF NothingKept, EmptySlots, NoFrame, IsValid
  <2> QED
    BY <2>3, <2>4
<1>3. landing' = NoLanding => NothingChosen'
  BY DEF NoLanding, NothingChosen
<1>4. ASSUME NEW target, NEW scan, NEW purpose, BeginLanding(target, scan, purpose) PROVE NothingChosen'
  BY <1>4 DEF BeginLanding, NoLanding, NothingChosen
<1>5. ASSUME NEW seekable, AfterMove(seekable) PROVE NothingChosen'
  BY <1>3, <1>4, <1>5 DEF AfterMove
<1> QED
  BY <1>1, <1>2, <1>3, <1>4, <1>5

LEMMA KeptEmpty ==
  /\ decoder' = decoder /\ NothingFed => NothingFed'
  /\ reader' = reader /\ NothingRead => NothingRead'
  /\ landing' = landing /\ NothingChosen => NothingChosen'
  /\ slots' = slots /\ NothingKept => NothingKept'
BY DEF NothingFed, NothingRead, NothingChosen, NothingKept

\* Every key frame read would teach the delay.
KeysTeach == \A i \in KeyPackets : NotePacket(i).reorder # NoPts

LEMMA ReadsNothing ==
  ASSUME TypeInv, KeysTeach, NothingRead, HasPacket, Read(FALSE), keys'.reorder = NoPts
  PROVE  NothingRead' /\ Next1 \in Packets /\ ~IsKey(Next1)
<1>1. Shapes /\ FALSE \in BOOLEAN /\ reader.replay = <<>> /\ reader.packet = 0
  BY DEF TypeInv, NothingRead
<1>2. reader'.replay = <<>> /\ reader'.packet = 0
  BY <1>1, ReadTypes
<1>3. Next1 = source.next /\ source.next \in Packets /\ keys' = NotePacket(source.next)
  BY <1>1, NextPacket DEF Read, ReadFromDemuxer
<1> QED
  BY <1>2, <1>3 DEF NothingRead, KeysTeach, KeyPackets

LEMMA UntaughtStays ==
  ASSUME TypeInv, KeysFindable, KeysTeach, Untaught, Next, keys'.reorder = NoPts
  PROVE  Untaught'
<1>0. /\ Shapes /\ Phases /\ Allowed /\ KeyFlagsReliable
      /\ NothingFed /\ NothingRead /\ NothingChosen /\ NothingKept
  BY OnlyAllowed, UntaughtParts DEF TypeInv
<1>1. CASE Starts
  <2>1. CASE Recover
    <3>1. decoder' = EmptyDecoder /\ (\E f : ResetPosition(f, mode, reader.verifiedTo)) /\ landing' = landing
      BY <2>1 DEF Recover
    <3> QED
      BY <1>0, <3>1, Emptied, KeptEmpty, UntaughtParts
  <2>2. CASE Accept \/ AnswerFromHeld \/ Continue \/ Reposition
    <3>1. UNCHANGED <<decoder, reader, landing, slots>>
      BY <2>2 DEF Accept, AnswerFromHeld, Continue, Reposition
    <3> QED
      BY <1>0, <3>1, KeptEmpty, UntaughtParts
  <2>3. ~AnswerAtTail /\ ~Promote
    BY <1>0 DEF AnswerAtTail, CanAnswerAtTail, IsHeldCovering, Promote, CanPromotePending, NothingKept
  <2> QED
    BY <1>1, <2>1, <2>2, <2>3 DEF Starts
<1>2. CASE Moves
  <2>1. CASE Position \/ BackOff
    <3>1. UNCHANGED <<decoder, reader, landing, slots>>
      BY <2>1 DEF Position, BackOff
    <3> QED
      BY <1>0, <3>1, KeptEmpty, UntaughtParts
  <2>2. CASE PositionUnseekable
    <3>1. landing' = landing /\ (UNCHANGED <<decoder, reader, slots>> \/ Reopen(source.failures))
      BY <2>2 DEF PositionUnseekable
    <3> QED
      BY <1>0, <3>1, Emptied, KeptEmpty, UntaughtParts DEF Reopen
  <2>3. CASE SeekToStart \/ Seek
    <3>1. (\E target, atStart : AfterSeek(target, atStart)) /\ (\E seekable : AfterMove(seekable))
      BY <2>3 DEF SeekToStart, Seek
    <3> QED
      BY <3>1, Emptied, UntaughtParts DEF AfterSeek, Forget
  <2>4. CASE SeekFails
    <3>1. (\E failures : Reopen(failures)) /\ (\E seekable : AfterMove(seekable))
      BY <2>4 DEF SeekFails
    <3> QED
      BY <3>1, Emptied, UntaughtParts DEF Reopen
  <2>5. CASE ByteSeek
    <3>1. AfterSeek(ctl.aim, FALSE) /\ (landing' = NoLanding \/ BeginLanding(window.target, FALSE, "covered"))
      BY <2>5 DEF ByteSeek
    <3> QED
      BY <3>1, Emptied, UntaughtParts DEF AfterSeek, Forget
  <2>6. CASE ByteSeekFails
    <3>1. Forget /\ decoder' = decoder /\ landing' = landing
      BY <2>6 DEF ByteSeekFails
    <3> QED
      BY <1>0, <3>1, Emptied, KeptEmpty, UntaughtParts DEF Forget
  <2> QED
    BY <1>2, <2>1, <2>2, <2>3, <2>4, <2>5, <2>6 DEF Moves
<1>3. CASE Lands
  <2>1. ~LandOnAnything /\ ~SettleOnParked /\ ~SettleOnReplay /\ ~SettleByRewinding
    BY <1>0 DEF LandOnAnything, SettleOnParked, SettleOnReplay, SettleByRewinding, NothingChosen
  <2>2. CASE LandOnNonKey
    <3>1. /\ HasPacket /\ Read(FALSE) /\ decoder' = decoder /\ slots' = slots
          /\ landing' = Begun(Next1) \/ landing' = [Begun(Next1) EXCEPT !.done = TRUE]
      BY <1>0, <2>2 DEF LandOnNonKey, LandingUnchanged, NothingChosen, Landed
    <3>2. NothingRead' /\ Next1 \in Packets
      BY <1>0, <3>1, ReadsNothing
    <3>3. Begun(Next1) \in LandingRecords /\ Begun(Next1).best = landing.best
          /\ Begun(Next1).buffering = landing.buffering
      <4>1. Begun(Next1) \in Landings /\ Begun(Next1).best = landing.best
        BY <1>0, <3>2, BegunTypes
      <4>2. landing \in LandingRecords
        BY <1>0, LandingParts
      <4> QED
        BY <4>1, <4>2 DEF Landings, Begun, LandingRecords
    <3>4. NothingChosen'
      BY <1>0, <3>1, <3>3 DEF NothingChosen, LandingRecords
    <3> QED
      BY <1>0, <3>1, <3>2, <3>4, KeptEmpty, UntaughtParts
  <2>3. ~LandPastTarget /\ ~LandOnKey
    <3> SUFFICES ASSUME LandPastTarget \/ LandOnKey PROVE FALSE
      OBVIOUS
    <3>1. HasPacket /\ IsKey(Next1) /\ keys' = LandingIndex(Next1)
      BY DEF LandPastTarget, LandOnKey, ReadFromDemuxer
    <3>2. Next1 \in KeyPackets
      BY <1>0, <3>1, NextPacket DEF KeyPackets
    <3>3. keys'.reorder = NotePacket(Next1).reorder
      BY <1>0, <3>1, <3>2, PacketTeaches DEF KeyPackets
    <3> QED
      BY <3>2, <3>3 DEF KeysTeach
  <2>4. CASE LandAtEnd
    <3>1. UNCHANGED <<decoder, reader, slots>> /\ landing' = [landing EXCEPT !.done = TRUE] /\ landing \in LandingRecords
      BY <1>0, <2>4, LandingParts DEF LandAtEnd, LandingUnchanged, Landed
    <3>2. NothingChosen'
      BY <1>0, <3>1 DEF NothingChosen, LandingRecords
    <3> QED
      BY <1>0, <3>1, <3>2, KeptEmpty, UntaughtParts
  <2>5. CASE AfterLanding
    <3>1. UNCHANGED <<decoder, reader, slots>> /\ landing' = NoLanding
      BY <2>5 DEF AfterLanding
    <3> QED
      BY <1>0, <3>1, Emptied, KeptEmpty, UntaughtParts
  <2> QED
    BY <1>3, <2>1, <2>2, <2>3, <2>4, <2>5 DEF Lands
<1>4. CASE Selects
  <2>1. CASE AnswerFirstFrame \/ StartDrain \/ BackOffFromTail
    <3>1. UNCHANGED <<decoder, reader, landing, slots>>
      BY <2>1 DEF AnswerFirstFrame, StartDrain, BackOffFromTail
    <3> QED
      BY <1>0, <3>1, KeptEmpty, UntaughtParts
  <2>2. CASE FetchKeyframe
    <3>1. /\ BeginLanding(Forever, FALSE, "arm") /\ UNCHANGED <<decoder, slots>>
          /\ reader' = [reader EXCEPT !.replay = <<>>]
      BY <2>2 DEF FetchKeyframe
    <3>2. NothingRead'
      BY <1>0, <3>1, ReaderParts DEF NothingRead, ReaderRecords
    <3> QED
      BY <1>0, <3>1, <3>2, Emptied, KeptEmpty, UntaughtParts
  <2>3. ~FeedKeyframeAndDrain /\ ~FeedHeldPacket
    BY <1>0 DEF FeedKeyframeAndDrain, FeedingKey, At, Phases, FeedHeldPacket, NothingRead
  <2>4. CASE SkipToKeyframe
    <3>1. HasPacket /\ Read(FALSE) /\ UNCHANGED <<decoder, slots, landing>>
      BY <2>4 DEF SkipToKeyframe
    <3> QED
      BY <1>0, <3>1, ReadsNothing, KeptEmpty, UntaughtParts
  <2>5. CASE FeedNextPacket
    <3>1. HasPacket /\ Read(FALSE) /\ UNCHANGED <<slots, landing>>
      BY <2>5 DEF FeedNextPacket
    <3>2. NothingRead' /\ ~IsKey(Next1)
      BY <1>0, <3>1, ReadsNothing
    <3>3. Send(Next1)
      BY <1>0, <2>5 DEF FeedNextPacket, Reject, FailDecode, Allowed
    <3>4. decoder' = decoder
      BY <1>0, <3>2, <3>3 DEF Send, Decode, NothingFed
    <3> QED
      BY <1>0, <3>1, <3>2, <3>4, KeptEmpty, UntaughtParts
  <2>6. ~DemuxError /\ ~StashCorrupt /\ ~PlaceInKeyframeMode /\ ~PlaceInExactMode /\ ~LookAhead
        /\ ~BackOffFromOvershoot /\ ~AnswerOvershoot
    BY <1>0 DEF DemuxError, Allowed, StashCorrupt, PlaceInKeyframeMode, PlaceInExactMode, LookAhead,
                BackOffFromOvershoot, AnswerOvershoot, Overshoots, Emits, NothingFed
  <2>7. CASE RetryAfterEmptyEof
    <3>1. decoder' = EmptyDecoder /\ (\E f, m, v : ResetPosition(f, m, v)) /\ landing' = landing
      BY <2>7 DEF RetryAfterEmptyEof
    <3> QED
      BY <1>0, <3>1, Emptied, KeptEmpty, UntaughtParts
  <2>8. CASE EndOfStream
    <3>1. UNCHANGED <<decoder, reader, landing>> /\ FinishAtEof
      BY <2>8 DEF EndOfStream
    <3>2. slots' = slots
      BY <1>0, <3>1 DEF FinishAtEof, NothingKept
    <3> QED
      BY <1>0, <3>1, <3>2, KeptEmpty, UntaughtParts
  <2> QED
    BY <1>4, <2>1, <2>2, <2>3, <2>4, <2>5, <2>6, <2>7, <2>8 DEF Selects
<1>5. CASE Ends
  <2>1. CASE VerifyPacket
    <3>1. HasPacket /\ Read(FALSE) /\ UNCHANGED <<decoder, slots, landing>>
      BY <2>1 DEF VerifyPacket
    <3> QED
      BY <1>0, <3>1, ReadsNothing, KeptEmpty, UntaughtParts
  <2>2. CASE GiveAnswer \/ VerifyTail \/ VerifyEnd
    <3>1. UNCHANGED <<decoder, reader, landing, slots>>
      BY <2>2 DEF GiveAnswer, VerifyTail, VerifyEnd
    <3> QED
      BY <1>0, <3>1, KeptEmpty, UntaughtParts
  <2> QED
    BY <1>5, <2>1, <2>2 DEF Ends
<1>6. CASE Cancels
  <2>1. CASE Cancel \/ InterruptRead
    <3>1. UNCHANGED <<decoder, reader, slots>> /\ landing' = NoLanding
      BY <2>1 DEF Cancel, InterruptRead
    <3> QED
      BY <1>0, <3>1, Emptied, KeptEmpty, UntaughtParts
  <2>2. CASE ShortRead
    <3>1. UNCHANGED <<decoder, reader, landing, slots>>
      BY <2>2 DEF ShortRead
    <3> QED
      BY <1>0, <3>1, KeptEmpty, UntaughtParts
  <2>3. CASE InterruptSeek
    <3>1. Forget /\ UNCHANGED <<decoder, landing>>
      BY <2>3 DEF InterruptSeek
    <3> QED
      BY <1>0, <3>1, Emptied, KeptEmpty, UntaughtParts DEF Forget
  <2> QED
    BY <1>6, <2>1, <2>2, <2>3 DEF Cancels
<1>7. CASE NoGenerator
  <2>1. UNCHANGED <<decoder, reader, landing, slots>>
    BY <1>7 DEF NoGenerator, vars
  <2> QED
    BY <1>0, <2>1, KeptEmpty, UntaughtParts
<1> QED
  BY <1>1, <1>2, <1>3, <1>4, <1>5, <1>6, <1>7 DEF Next

\* Where the container's index is trusted, the delay is known before it is needed.
LEMMA DelayStaysLearned ==
  ASSUME TypeInv, KeysFindable, DelayLearned, Next
  PROVE  DelayLearned'
<1>1. source'.setting = source.setting /\ Shapes
  BY StepTypes DEF Reshapes, TypeInv
<1>2. Trusted' = Trusted /\ KeyPackets' = KeyPackets /\ \A i : Delay(i)' = Delay(i)
  BY <1>1, SameStream, SameKeys
<1> SUFFICES ASSUME Trusted
             PROVE  IF keys'.reorder = NoPts THEN Untaught' ELSE \A i \in KeyPackets : keys'.reorder = Delay(i)
  BY <1>2 DEF DelayLearned
<1>3. \A i \in KeyPackets : /\ NotePacket(i).reorder # NoPts
                            /\ \A j \in KeyPackets : NotePacket(i).reorder = Delay(j)
  BY <1>1, KeyTeaches
<1>4. DelayKept \/ \E i \in KeyPackets : keys'.reorder = NotePacket(i).reorder
  BY DelayStep
<1>5. CASE keys'.reorder # NoPts
  BY <1>3, <1>4, <1>5 DEF DelayKept, DelayLearned
<1>6. CASE keys'.reorder = NoPts
  <2>1. keys.reorder = NoPts
    BY <1>3, <1>4, <1>6 DEF DelayKept
  <2>2. Untaught
    BY <2>1 DEF DelayLearned
  <2> QED
    BY <1>3, <1>6, <2>2, UntaughtStays DEF KeysTeach
<1> QED
  BY <1>5, <1>6

\* Seeking is given up for good.
LEMMA SeekableBefore ==
  ASSUME TypeInv, Next, Seekable'
  PROVE  Seekable
<1>0. Shapes /\ Phases /\ source \in SourceRecords
  BY SourceParts DEF TypeInv
<1>1. CASE source'.seekable = source.seekable
  BY <1>1 DEF Seekable
<1>2. CASE Moving
  BY <1>0, <1>2 DEF Phases
<1>3. CASE PositionUnseekable
  <2>1. source' = source \/ Reopen(source.failures)
    BY <1>3 DEF PositionUnseekable
  <2>2. ASSUME Reopen(source.failures) PROVE source'.seekable <=> source.seekable
    <3>1. source.failures \in 0..MaxSeekFailures
      BY <1>0 DEF SourceRecords
    <3>2. source'.seekable = (IoSeekable /\ source.failures < MaxSeekFailures)
      BY <1>0, <2>2, <3>1, ReopenTypes
    <3> QED
      BY <1>0, <3>2 DEF Phases
  <2> QED
    BY <2>1, <2>2 DEF Seekable
<1>4. CASE ~Moving /\ ~PositionUnseekable
  <2>1. ASSUME NEW keep, HasPacket, Read(keep), keep \in BOOLEAN PROVE source'.seekable = source.seekable
    BY <1>0, <2>1, ReadTypes
  <2>2. ASSUME NEW keep, NEW ix, ReadFromDemuxer(keep, ix) PROVE source'.seekable = source.seekable
    BY <1>0, <2>2 DEF ReadFromDemuxer, SourceRecords
  <2>3. CASE Starts
    <3>1. source' = source \/ source' = [source EXCEPT !.interrupted = FALSE, !.sticky = FALSE]
      BY <2>3 DEF Starts, Accept, Recover, AnswerFromHeld, AnswerAtTail, Promote, Continue, Reposition
    <3> QED
      BY <1>0, <1>1, <3>1 DEF SourceRecords
  <2>4. CASE Moves
    <3>1. Position
      BY <1>4, <2>4 DEF Moves, Moving, SeekToStart, Seek, SeekFails, ByteSeek, ByteSeekFails, BackOff, At
    <3> QED
      BY <1>1, <3>1 DEF Position
  <2>5. CASE Lands
    <3>1. CASE LandOnAnything \/ LandOnNonKey
      BY <1>1, <2>1, <3>1 DEF LandOnAnything, LandOnNonKey
    <3>2. CASE LandPastTarget \/ LandOnKey
      <4>1. \E keep, ix : ReadFromDemuxer(keep, ix)
        BY <3>2 DEF LandPastTarget, LandOnKey
      <4> QED
        BY <1>1, <2>2, <4>1
    <3>3. CASE ~(LandOnAnything \/ LandOnNonKey \/ LandPastTarget \/ LandOnKey)
      BY <1>1, <2>5, <3>3 DEF Lands, LandAtEnd, SettleOnParked, SettleOnReplay, SettleByRewinding, AfterLanding
    <3> QED
      BY <3>1, <3>2, <3>3
  <2>6. CASE Selects
    <3>1. CASE SkipToKeyframe \/ FeedNextPacket
      BY <1>1, <2>1, <3>1 DEF SkipToKeyframe, FeedNextPacket
    <3>2. CASE DemuxError \/ RetryAfterEmptyEof
      <4>1. (\E i : source' = [source EXCEPT !.next = i]) \/ source' = [source EXCEPT !.sticky = FALSE]
        BY <3>2 DEF DemuxError, RetryAfterEmptyEof
      <4> QED
        BY <1>0, <1>1, <4>1 DEF SourceRecords
    <3>3. CASE StashCorrupt \/ PlaceInKeyframeMode \/ PlaceInExactMode \/ LookAhead
               \/ BackOffFromOvershoot \/ AnswerOvershoot
      BY <1>1, <3>3 DEF StashCorrupt, PlaceInKeyframeMode, PlaceInExactMode, LookAhead, BackOffFromOvershoot,
                  AnswerOvershoot, Receive
    <3>4. CASE AnswerFirstFrame \/ FetchKeyframe \/ FeedKeyframeAndDrain \/ FeedHeldPacket \/ StartDrain
               \/ BackOffFromTail \/ EndOfStream
      BY <1>1, <3>4 DEF AnswerFirstFrame, FetchKeyframe, FeedKeyframeAndDrain, FeedHeldPacket, StartDrain,
                  BackOffFromTail, EndOfStream
    <3> QED
      BY <2>6, <3>1, <3>2, <3>3, <3>4 DEF Selects
  <2>7. CASE Ends
    <3>1. CASE VerifyPacket
      BY <1>1, <2>1, <3>1 DEF VerifyPacket
    <3>2. CASE GiveAnswer \/ VerifyTail \/ VerifyEnd
      BY <1>1, <3>2 DEF GiveAnswer, VerifyTail, VerifyEnd
    <3> QED
      BY <2>7, <3>1, <3>2 DEF Ends
  <2>8. CASE Cancels
    <3>1. \/ source' = source \/ source' = [source EXCEPT !.interrupted = TRUE]
          \/ source' = [source EXCEPT !.sticky = TRUE] \/ source' = [source EXCEPT !.interrupted = TRUE, !.sticky = TRUE]
          \/ \E i : source' = [source EXCEPT !.interrupted = TRUE, !.next = i]
      BY <2>8 DEF Cancels, Cancel, InterruptRead, ShortRead, InterruptSeek
    <3> QED
      BY <1>0, <1>1, <3>1 DEF SourceRecords
  <2>9. CASE NoGenerator
    BY <1>1, <2>9 DEF NoGenerator, vars
  <2> QED
    BY <2>3, <2>4, <2>5, <2>6, <2>7, <2>8, <2>9 DEF Next
<1> QED
  BY <1>2, <1>3, <1>4

\* What a nearest-keyframe request wants it wanted from the start.
LEMMA WantsBefore ==
  ASSUME TypeInv, Next, ~Accept, Wants'
  PROVE  Wants /\ window' = window
<1>1. ~AnswerFirstFrame
  <2>1. window \in Windows /\ window'.adjustment = "none"
    BY DEF Wants, TypeInv, Shapes
  <2>2. ASSUME AnswerFirstFrame PROVE FALSE
    <3>1. window'.adjustment = "keyframeBeforeEdit"
      BY <2>1, <2>2 DEF AnswerFirstFrame, Windows
    <3> QED
      BY <2>1, <3>1
  <2> QED
    BY <2>2
<1> QED
  BY <1>1, SameRequest, SeekableBefore DEF Wants

-----------------------------------------------------------------------------
(* Where a nearest-keyframe request can be after a step.                    *)

\* The step belongs to the same request.
SameWish ==
  /\ source'.setting = source.setting /\ window' = window /\ window \in Requests
  /\ ~ctl'.retrying

LEMMA SameWishFacts ==
  ASSUME SameWish
  PROVE  /\ window' \in Requests' /\ Trusted' = Trusted /\ KeyTimes' = KeyTimes /\ KeyPackets' = KeyPackets
         /\ \A t : IsNearest(t)' <=> IsNearest(t)
         /\ \A i : IsNearestKey(i)' <=> IsNearestKey(i)
         /\ \A frame : RightKey(frame)' <=> RightKey(frame)
         /\ \A i : Pts(i)' = Pts(i)
         /\ \A t : PacketAt(t)' = PacketAt(t)
<1>1. source'.setting = source.setting /\ window' = window /\ window \in Requests
  BY DEF SameWish
<1> QED
  BY <1>1, SameStream, SameKeys, SameNearest

LEMMA WantedAtRest ==
  ASSUME SameWish, ctl'.pc = "idle",
         reply'.status = "ok" /\ reply'.adjustment = "none" => RightKey(reply'.frame)
  PROVE  Wanted'
BY SameWishFacts DEF SameWish, Wanted, Scanning

LEMMA WantedSilently ==
  ASSUME SameWish, ctl'.pc = "idle", Silent
  PROVE  Wanted'
BY WantedAtRest DEF Silent

LEMMA WantedWithAnswer ==
  ASSUME SameWish, ctl'.pc \in {"answer", "verify"}, RightKey(ctl'.frame)
  PROVE  Wanted'
BY SameWishFacts DEF SameWish, Wanted, Scanning

LEMMA WantedMoving ==
  ASSUME SameWish,
         \/ ctl'.pc \in {"recover", "start", "position"}
         \/ ctl'.pc \in {"seek", "backOff"} /\ ctl'.purpose \in {"start", "indexed", "scanned"}
         \/ ctl'.pc = "byteSeek" /\ ctl'.purpose = "covered" /\ IsNearestKey(PacketAt(ctl'.aim)) /\ ~Trusted
  PROVE  Wanted'
BY SameWishFacts DEF SameWish, Wanted, Scanning

LEMMA WantedLanding ==
  ASSUME SameWish, ctl'.pc = "landing", ctl'.purpose # "arm", landing'.target = window.target,
         ~IsValid(slots'.held), ~IsValid(slots'.corruptLast),
         ctl'.purpose = "start" => position'.atStart,
         ~landing'.buffering,
         landing'.best # 0 => landing'.scanning /\ Pts(landing'.best) <= window.target,
         ctl'.purpose = "covered" =>
           ~Trusted /\ ~landing'.scanning /\ landing'.best = 0 /\ IsNearestKey(source'.next),
         ~Trusted /\ ctl'.purpose # "covered" => landing'.scanning,
         landing'.scanning /\ Trusted => landing'.best # 0,
         position'.atStart /\ landing'.best = 0 => \A j \in KeyPackets : source'.next <= j
  PROVE  Wanted'
<1>1. ~IsValid(slots.held)' /\ ~IsValid(slots.corruptLast)'
  BY DEF IsValid
<1>2. LandingFinds'
  BY <1>1 DEF LandingFinds, SameWish
<1>3. (landing.best # 0 => landing.scanning /\ Pts(landing.best) <= window.target)'
  BY SameWishFacts DEF SameWish
<1>4. (ctl.purpose = "covered" => ~Trusted /\ ~landing.scanning /\ landing.best = 0 /\ IsNearestKey(source.next))'
  BY SameWishFacts
<1>5. WhileLanding'
  BY <1>3, <1>4, SameWishFacts DEF WhileLanding
<1> QED
  BY <1>2, <1>5, SameWishFacts DEF SameWish, Wanted, Scanning

LEMMA WantedLanded ==
  ASSUME SameWish, ctl'.pc = "landed", ctl'.purpose # "arm", landing'.target = window.target,
         ~IsValid(slots'.held), ~IsValid(slots'.corruptLast),
         ctl'.purpose = "start" => position'.atStart,
         IF landing'.best # 0 THEN IsNearestKey(landing'.best)
         ELSE (landing'.found => IsNearestKey(reader'.packet)) /\ (position'.atStart => landing'.found)
  PROVE  Wanted'
<1>1. ~IsValid(slots.held)' /\ ~IsValid(slots.corruptLast)'
  BY DEF IsValid
<1>2. LandingFinds'
  BY <1>1 DEF LandingFinds, SameWish
<1>3. OnceLanded'
  BY SameWishFacts DEF OnceLanded
<1> QED
  BY <1>2, <1>3, SameWishFacts DEF SameWish, Wanted, Scanning

LEMMA WantedArmed ==
  ASSUME SameWish, ctl'.pc = "arm", ~IsValid(slots'.held), ~IsValid(slots'.corruptLast), IsNearestKey(reader'.packet)
  PROVE  Wanted'
<1>1. ~IsValid(slots.held)' /\ ~IsValid(slots.corruptLast)'
  BY DEF IsValid
<1> QED
  BY <1>1, SameWishFacts DEF SameWish, Wanted, Scanning

LEMMA WantedDraining ==
  ASSUME SameWish, ctl'.pc = "select", mode'.keyframeOnly,
         frontier'.draining, frontier'.drained, frontier'.landingKnown,
         \A t \in decoder'.buffer : t \in KeyTimes /\ IsNearest(t),
         ~IsValid(slots'.held), IsValid(slots'.corruptLast) => RightKey(slots'.corruptLast)
  PROVE  Wanted'
<1>1. ~IsValid(slots.held)' /\ (IsValid(slots.corruptLast) => RightKey(slots.corruptLast))'
  BY SameWishFacts DEF IsValid
<1>2. Draining'
  BY <1>1, SameWishFacts DEF Draining
<1> QED
  BY <1>2, SameWishFacts DEF SameWish, Wanted, Scanning

\* What is assumed of the step that follows.
Wishing ==
  /\ TypeInv /\ KeysFindable /\ IndexInv /\ KeyInv /\ Wants /\ Wanted /\ Wants'
  /\ source'.setting = source.setting /\ window' = window

LEMMA WishingFacts ==
  ASSUME Wishing
  PROVE  /\ Shapes /\ Phases /\ Allowed /\ KeyFlagsReliable /\ ReadsAll /\ ~source.sticky
         /\ window.keyMode /\ Seekable /\ Seekable' /\ window \in Requests /\ window \in Windows
         /\ ~ctl.retrying /\ ctl \in Controls /\ window \in KeyRequests
         /\ Positioned = "arm"
BY OnlyAllowed DEF Wishing, TypeInv, Shapes, KeyInv, Wants, Wanted, KeyRequests, Positioned

\* The step keeps to the request if it keeps from retrying.
LEMMA WishKept ==
  ASSUME Wishing, ~ctl'.retrying
  PROVE  SameWish
BY WishingFacts DEF Wishing, SameWish

\* A key frame's time names it.
LEMMA KeyAt ==
  ASSUME source \in Sources, NEW t \in KeyTimes
  PROVE  PacketAt(t) \in KeyPackets /\ Pts(PacketAt(t)) = t
<1>1. PICK j \in Packets : IsKey(j) /\ Pts(j) = t
  BY DEF KeyTimes
<1>2. t \in Times
  BY <1>1, StreamFacts
<1>3. PacketAt(t) \in Packets /\ Pts(PacketAt(t)) = t
  BY <1>2, PacketAtFacts
<1>4. PacketAt(t) = j
  BY <1>1, <1>3, StreamFacts
<1> QED
  BY <1>1, <1>3, <1>4 DEF KeyPackets

\* Some key frame is at or before the target.
LEMMA SomeKey ==
  ASSUME Wishing
  PROVE  \E i \in KeyPackets : Pts(i) <= window.target
<1>1. PICK k \in KeyTimes : k <= window.target
  BY WishingFacts DEF Wishing, KeysFindable
<1> QED
  BY <1>1 DEF KeyTimes, KeyPackets

\* Nothing before the landing, nothing at the target or before it after.
LEMMA NotAllPast ==
  ASSUME Wishing, NEW n \in Int, \A j \in KeyPackets : n <= j,
         n \in Packets => n \in KeyPackets /\ Pts(n) > window.target,
         n \notin Packets => n > Len(Stream)
  PROVE  FALSE
<1>0. source \in Sources /\ ReadsAll
  BY WishingFacts DEF Shapes
<1>1. PICK i \in KeyPackets : Pts(i) <= window.target
  BY SomeKey
<1>2. /\ i \in Packets /\ IsKey(i) /\ i \in 1..Len(Stream) /\ Len(Stream) \in Nat /\ Pts(i) \in Int
      /\ window.target \in Int /\ n <= i
  BY <1>0, <1>1, StreamFacts, WishingFacts DEF KeyPackets, Windows
<1>3. n \in Packets
  BY <1>2
<1>4. n \in KeyPackets /\ Pts(n) > window.target /\ Pts(n) \in Int /\ IsKey(n)
  BY <1>0, <1>3, StreamFacts DEF KeyPackets
<1>5. n = i \/ n < i
  BY <1>2
<1>6. n < i => Pts(n) < Pts(i)
  BY <1>0, <1>2, <1>3, <1>4 DEF ReadsAll
<1> QED
  BY <1>1, <1>2, <1>4, <1>5, <1>6

-----------------------------------------------------------------------------
(* Starting a nearest-keyframe request.                                     *)

\* A request is made as it is, unless its mode is taken from it.
LEMMA AcceptWants ==
  ASSUME TypeInv, source'.setting = source.setting, Accept, Wants'
  PROVE  Wanted'
<1>1. PICK w \in Requests : window' = Resolve(w)
  BY DEF Accept
<1>2. w \in Windows /\ ctl \in Controls
  BY StreamFacts DEF TypeInv, Shapes
<1>3. window' = w
  BY <1>1, <1>2 DEF Wants, Resolve, Windows
<1>4. window' \in Requests'
  BY <1>1, <1>3, SameStream
<1>5. ~ctl'.retrying /\ ctl'.pc \in {"recover", "start"}
  <2>1. PICK wins \in BOOLEAN :
          ctl' = [Idle EXCEPT !.pc = IF source.interrupted THEN "recover" ELSE "start", !.forwardWins = wins]
    BY DEF Accept
  <2> QED
    BY <2>1 DEF Idle
<1> QED
  BY <1>4, <1>5 DEF Wanted, Scanning

\* The held frame answers if it is the key frame asked for.
LEMMA HeldKeyAnswers ==
  ASSUME Wishing, AnswerFromHeld
  PROVE  Wanted'
<1>1. /\ IsValid(slots.held) /\ slots.held.key /\ DoesKeyCover(slots.held.pts, window.target)
      /\ Select(slots.held, window.adjustment)
  BY WishingFacts DEF AnswerFromHeld, CanAnswerFromHeld, IsHeldCovering
<1>2. Shapes /\ source \in Sources /\ slots.held \in Frames /\ window.adjustment \in Adjustments
  BY WishingFacts, SlotTypes, FrameTypes DEF Shapes, Windows
<1>3. ctl'.pc = "answer" /\ ctl'.frame = slots.held /\ ctl'.retrying = ctl.retrying
  BY <1>1, <1>2, GoTypes, WishingFacts DEF Select, Controls
<1>4. IsNearest(slots.held.pts)
  <2>1. CASE Trusted
    <3>1. keys.reorder # NoPts
      <4>1. DelayLearned
        BY DEF Wishing, KeyInv
      <4> QED
        BY <1>1, <2>1, <4>1 DEF DelayLearned, Untaught
    <3>2. \A i \in KeyPackets : keys.reorder = Delay(i)
      BY <2>1, <3>1 DEF Wishing, KeyInv, DelayLearned
    <3> DEFINE i == IndexKeyBefore(keys, window.target)
    <3>3. i # 0 /\ IndexPts(keys, i) = slots.held.pts
      BY <1>1, <2>1 DEF DoesKeyCover
    <3>4. i # 0 /\ IsNearestKey(i) /\ IndexPts(keys, i) = Pts(i)
      BY <1>2, <2>1, <3>2, TrustedIndexFinds, WishingFacts DEF Wishing
    <3> HIDE DEF i
    <3> QED
      BY <3>3, <3>4 DEF IsNearestKey
  <2>2. CASE ~Trusted
    <3>1. FindCoveringKey(keys, window.target) = slots.held.pts /\ slots.held.pts # NoPts
      BY <1>1, <2>2 DEF DoesKeyCover, IsValid
    <3>2. Truthful(keys) /\ Indexed(keys) /\ window \in Windows
      BY WishingFacts DEF Wishing, IndexInv, Shapes
    <3>3. IsNearest(FindCoveringKey(keys, window.target))
      BY <1>2, <3>1, <3>2, CoveringKeyIsNearest
    <3> QED
      BY <3>1, <3>3
  <2> QED
    BY <2>1, <2>2
<1>5. RightKey(ctl'.frame)
  BY <1>1, <1>3, <1>4 DEF RightKey
<1> QED
  BY <1>3, <1>5, WishKept, WishingFacts, WantedWithAnswer

LEMMA StartsKeepWanting ==
  ASSUME Wishing, Starts, ~Accept
  PROVE  Wanted'
<1>1. ~AnswerAtTail /\ ~Promote /\ ~Continue
  BY WishingFacts DEF AnswerAtTail, CanAnswerAtTail, Promote, Continue
<1>2. CASE Recover \/ Reposition
  <2>1. PICK pc \in {"start", "position"} : Go(pc)
    BY <1>2 DEF Recover, Reposition
  <2>2. ctl'.pc = pc /\ ctl'.retrying = ctl.retrying
    BY <2>1, GoTypes, WishingFacts DEF Places
  <2> QED
    BY <2>2, WishKept, WishingFacts, WantedMoving
<1>3. CASE AnswerFromHeld
  BY <1>3, HeldKeyAnswers
<1> QED
  BY <1>1, <1>2, <1>3 DEF Starts

-----------------------------------------------------------------------------
(* Moving to the key frame.                                                 *)

\* A landing that starts may find it.
LEMMA LandingBegins ==
  ASSUME Wishing, NEW scan, NEW purpose \in {"start", "indexed", "scanned", "covered"},
         BeginLanding(window.target, scan, purpose), slots' = EmptySlots,
         scan <=> (~Trusted /\ purpose # "covered"),
         purpose = "start" => position'.atStart,
         position'.atStart => source'.next = 1,
         purpose = "covered" => ~Trusted /\ IsNearestKey(source'.next)
  PROVE  Wanted'
<1>1. /\ landing' = [NoLanding EXCEPT !.target = window.target, !.scanning = scan, !.horizon = Horizon(window.target)]
      /\ ctl' = [ctl EXCEPT !.pc = "landing", !.purpose = purpose]
  BY DEF BeginLanding
<1>2. landing'.target = window.target /\ landing'.scanning = scan /\ landing'.best = 0 /\ ~landing'.buffering
  BY <1>1 DEF NoLanding
<1>3. ctl'.pc = "landing" /\ ctl'.purpose = purpose /\ ctl'.retrying = ctl.retrying
  BY <1>1, WishingFacts DEF Controls
<1>4. ~IsValid(slots'.held) /\ ~IsValid(slots'.corruptLast)
  BY DEF EmptySlots, NoFrame, IsValid
<1>5. source'.next = 1 => \A j \in KeyPackets : source'.next <= j
  BY StreamFacts, WishingFacts DEF KeyPackets, Shapes
<1>6. SameWish
  BY <1>3, WishKept, WishingFacts
<1> QED
  BY <1>2, <1>3, <1>4, <1>5, <1>6, WantedLanding

\* What a seek is for, once a nearest-keyframe request makes it.
LEMMA SeekPurpose ==
  ASSUME Wishing, ctl.pc \in {"seek", "backOff"}
  PROVE  ctl.purpose \in {"start", "indexed", "scanned"}
BY DEF Wishing, Wanted

LEMMA SeekKeepsWanting ==
  ASSUME Wishing, SeekToStart \/ Seek \/ SeekFails
  PROVE  Wanted'
<1>1. ctl.pc = "seek" /\ ctl.purpose \in {"start", "indexed", "scanned"}
  BY SeekPurpose DEF SeekToStart, Seek, SeekFails, At
<1>2. Shapes /\ source \in SourceRecords /\ Phases
  BY WishingFacts, SourceParts
<1>3. ASSUME NEW seekable, AfterMove(seekable), seekable \/ ctl.purpose = "start"
      PROVE  BeginLanding(window.target, ~Trusted, ctl.purpose)
  BY <1>1, <1>3 DEF AfterMove
<1>4. CASE SeekToStart
  <2>1. AfterSeek(StartPts, TRUE) /\ source' = [source EXCEPT !.next = 1] /\ AfterMove(Seekable)
    BY <1>4 DEF SeekToStart
  <2>2. slots' = EmptySlots /\ position'.atStart /\ source'.next = 1
    BY <1>2, <2>1 DEF AfterSeek, Forget, ResetPosition, SourceRecords
  <2>3. BeginLanding(window.target, ~Trusted, ctl.purpose)
    BY <1>3, <2>1, WishingFacts
  <2> QED
    BY <1>1, <2>2, <2>3, LandingBegins
<1>5. CASE Seek
  <2>1. AfterSeek(ctl.aim, FALSE) /\ AfterMove(Seekable) /\ ctl.aim > StartPts
    BY <1>5 DEF Seek
  <2>2. slots' = EmptySlots /\ ~position'.atStart
    BY <2>1 DEF AfterSeek, Forget, ResetPosition
  <2>3. BeginLanding(window.target, ~Trusted, ctl.purpose)
    BY <1>3, <2>1, WishingFacts
  <2>4. ctl.purpose # "start"
    <3>1. ctl.purpose = "start" => ctl.aim <= StartPts
      BY <1>1, <1>2 DEF Phases
    <3>2. ctl.aim \in Int /\ StartPts \in Int
      BY WishingFacts, HorizonTypes DEF Controls
    <3> QED
      BY <2>1, <3>1, <3>2
  <2> QED
    BY <1>1, <2>2, <2>3, <2>4, LandingBegins
<1>6. CASE SeekFails
  <2> DEFINE failures == IF ctl.aim > StartPts THEN source.failures + 1 ELSE source.failures
             able == IoSeekable /\ failures < MaxSeekFailures
  <2>1. Reopen(failures) /\ AfterMove(failures < MaxSeekFailures)
    BY <1>6 DEF SeekFails
  <2>2. source' = [source EXCEPT !.next = 1, !.sticky = FALSE, !.failures = failures, !.seekable = able]
    BY <2>1 DEF Reopen
  <2>3. slots' = EmptySlots /\ position'.atStart
    BY <2>1 DEF Reopen, ResetPosition
  <2>4. source'.next = 1 /\ source'.seekable = able
    <3> HIDE DEF able, failures
    <3> QED
      BY <1>2, <2>2 DEF SourceRecords
  <2>5. failures < MaxSeekFailures
    BY <2>4, WishingFacts DEF Seekable
  <2>6. BeginLanding(window.target, ~Trusted, ctl.purpose)
    <3> HIDE DEF failures
    <3> QED
      BY <1>3, <2>1, <2>5
  <2> HIDE DEF failures, able
  <2> QED
    BY <1>1, <2>3, <2>4, <2>6, LandingBegins
<1> QED
  BY <1>4, <1>5, <1>6

\* A key frame whose group covers the target is where the reading resumes.
LEMMA PositionKeepsWanting ==
  ASSUME Wishing, Position
  PROVE  Wanted'
<1>1. ctl.pc = "position" /\ mode.keyframeOnly /\ ~CanStay
  BY WishingFacts DEF Position, At, Phases, CanStay
<1> DEFINE key == IF Trusted THEN NoPts ELSE FindCoveringKey(keys, window.target)
<1>2. IF key # NoPts
      THEN ctl' = [ctl EXCEPT !.pc = "byteSeek", !.aim = key, !.purpose = "covered"]
      ELSE \E aim : ctl' = [ctl EXCEPT !.pc = "seek", !.round = 0,
                                       !.purpose = IF Trusted THEN "indexed" ELSE "scanned", !.aim = aim]
  BY <1>1 DEF Position
<1>3. CASE key # NoPts
  <2>1. ~Trusted /\ key = FindCoveringKey(keys, window.target)
    BY <1>3
  <2>2. source \in Sources /\ Truthful(keys) /\ Indexed(keys) /\ window \in Windows
    BY WishingFacts DEF Wishing, IndexInv, Shapes
  <2>3. key \in KeyTimes /\ IsNearest(key)
    BY <1>3, <2>1, <2>2, CoveringKeyIsNearest
  <2> HIDE DEF key
  <2>4. ctl'.pc = "byteSeek" /\ ctl'.aim = key /\ ctl'.purpose = "covered" /\ ctl'.retrying = ctl.retrying
    BY <1>2, <1>3, WishingFacts DEF Controls
  <2>5. IsNearestKey(PacketAt(ctl'.aim))
    BY <2>2, <2>3, <2>4, KeyAt DEF IsNearestKey
  <2> QED
    BY <2>1, <2>4, <2>5, WishKept, WishingFacts, WantedMoving
<1>4. CASE key = NoPts
  <2> HIDE DEF key
  <2>1. ctl'.pc = "seek" /\ ctl'.purpose \in {"indexed", "scanned"} /\ ctl'.retrying = ctl.retrying
    BY <1>2, <1>4, WishingFacts DEF Controls
  <2> QED
    BY <2>1, WishKept, WishingFacts, WantedMoving
<1> QED
  BY <1>3, <1>4

LEMMA MovesKeepWanting ==
  ASSUME Wishing, Moves
  PROVE  Wanted'
<1>1. CASE Position
  BY <1>1, PositionKeepsWanting
<1>2. ~PositionUnseekable
  BY WishingFacts DEF PositionUnseekable
<1>3. CASE SeekToStart \/ Seek \/ SeekFails
  BY <1>3, SeekKeepsWanting
<1>4. CASE ByteSeek
  <2>1. /\ ctl.pc = "byteSeek" /\ AfterSeek(ctl.aim, FALSE)
        /\ source' = [source EXCEPT !.next = PacketAt(ctl.aim)]
        /\ ctl.purpose = "covered" => BeginLanding(window.target, FALSE, "covered")
    BY <1>4 DEF ByteSeek, At
  <2>2. ctl.purpose = "covered" /\ IsNearestKey(PacketAt(ctl.aim)) /\ ~Trusted
    BY <2>1 DEF Wishing, Wanted
  <2>3. slots' = EmptySlots /\ ~position'.atStart
    BY <2>1 DEF AfterSeek, Forget, ResetPosition
  <2>4. source'.next = PacketAt(ctl.aim)
    BY <2>1, WishingFacts, SourceParts DEF SourceRecords
  <2> QED
    BY <2>1, <2>2, <2>3, <2>4, LandingBegins
<1>5. CASE ByteSeekFails
  <2>1. Fail("seekFailed")
    BY <1>5 DEF ByteSeekFails
  <2>2. ~ctl'.retrying
    BY <2>1 DEF Fail, EndRequest, Idle
  <2> QED
    BY <2>1, <2>2, FailsSilently, WishKept, WantedSilently
<1>6. CASE BackOff
  <2>1. PICK aim : SeekThen(aim, ctl.purpose)
    BY <1>6 DEF BackOff
  <2>2. ctl'.pc = "seek" /\ ctl'.purpose = ctl.purpose /\ ctl'.retrying = ctl.retrying
    BY <2>1, WishingFacts DEF SeekThen, Controls
  <2>3. ctl.purpose \in {"start", "indexed", "scanned"}
    BY <1>6, SeekPurpose DEF BackOff, At
  <2> QED
    BY <2>2, <2>3, WishKept, WishingFacts, WantedMoving
<1> QED
  BY <1>1, <1>2, <1>3, <1>4, <1>5, <1>6 DEF Moves

-----------------------------------------------------------------------------
(* Reading where a seek landed.                                             *)

LEMMA LandingFacts ==
  ASSUME Wishing, ctl.pc \in {"landing", "landed"}
  PROVE  /\ mode.keyframeOnly /\ LandingFinds /\ landing.target = window.target
         /\ landing \in LandingRecords /\ landing.best \in Packets \cup {0}
         /\ ctl.purpose \in {"start", "indexed", "scanned", "covered"}
<1>1. Scanning /\ LandingFinds /\ ctl.purpose # "arm"
  BY DEF Scanning, Wishing, Wanted, LandingFinds
<1>2. mode.keyframeOnly /\ ctl.purpose \in {"start", "indexed", "scanned", "covered"}
  BY <1>1, WishingFacts DEF Phases
<1> QED
  BY <1>1, <1>2, WishingFacts, LandingParts DEF LandingFinds

LEMMA WhileLandingFacts ==
  ASSUME Wishing, ctl.pc = "landing"
  PROVE  /\ WhileLanding /\ ~landing.found /\ ScanTrue /\ reader.replay = <<>>
         /\ HasPacket => source.next \in Packets /\ Next1 = source.next
BY WishingFacts, NextPacket DEF Wishing, Wanted, Phases

\* The step is done reading, and the chosen key frame is as it was.
LEMMA LandingEnds ==
  ASSUME Wishing, ctl.pc = "landing", NEW l, Landed(l), UNCHANGED <<slots, position>>,
         l \in LandingRecords, l.target = landing.target,
         IF l.best # 0 THEN IsNearestKey(l.best)
         ELSE (l.found => IsNearestKey(reader'.packet)) /\ (position.atStart => l.found)
  PROVE  Wanted'
<1>1. landing' = [l EXCEPT !.done = TRUE] /\ Go("landed")
  BY DEF Landed
<1>2. landing'.target = landing.target /\ landing'.best = l.best /\ landing'.found = l.found
  BY <1>1 DEF LandingRecords
<1>3. ctl'.pc = "landed" /\ ctl'.purpose = ctl.purpose /\ ctl'.retrying = ctl.retrying
  BY <1>1, WishingFacts, GoTypes DEF Places
<1>4. LandingFinds
  BY LandingFacts
<1> QED
  BY <1>2, <1>3, <1>4, WishKept, WishingFacts, WantedLanded DEF LandingFinds

LEMMA LandOnNonKeyWants ==
  ASSUME Wishing, LandOnNonKey
  PROVE  Wanted'
<1> DEFINE i == Next1
           l == Begun(i)
<1>1. ctl.pc = "landing" /\ HasPacket /\ ~IsKey(i) /\ Read(FALSE) /\ UNCHANGED <<slots, position>>
  BY DEF LandOnNonKey, At, LandingUnchanged
<1>2. /\ WhileLanding /\ LandingFinds /\ landing \in LandingRecords /\ mode.keyframeOnly
      /\ i \in Packets /\ i = source.next /\ reader.replay = <<>>
  BY <1>1, LandingFacts, WhileLandingFacts
<1>3. landing' = l /\ ctl' = ctl
  BY <1>2 DEF LandOnNonKey, WhileLanding
<1>4. l.target = landing.target /\ l.best = landing.best /\ l.buffering = landing.buffering
      /\ l.scanning = landing.scanning
  BY <1>2 DEF Begun, LandingRecords
<1>5. source'.next = source.next + 1
  <2>1. ReadFromDemuxer(FALSE, NotePacket(source.next)) /\ source \in SourceRecords
    BY <1>1, <1>2, WishingFacts, SourceParts DEF Read
  <2> QED
    BY <2>1 DEF ReadFromDemuxer, SourceRecords
<1>6. ctl.purpose # "covered"
  BY <1>1, <1>2 DEF WhileLanding, IsNearestKey, KeyPackets
<1>7. (\A j \in KeyPackets : source.next <= j) => \A j \in KeyPackets : source'.next <= j
  <2>1. Packets \subseteq Int
    BY StreamFacts, WishingFacts DEF Shapes
  <2> SUFFICES ASSUME NEW j \in KeyPackets, source.next <= j PROVE source'.next <= j
    OBVIOUS
  <2>2. j \in Int /\ source.next \in Int /\ j # source.next
    BY <1>1, <1>2, <2>1 DEF KeyPackets
  <2> QED
    BY <1>5, <2>2
<1>8. SameWish
  BY <1>3, WishKept, WishingFacts
<1> HIDE DEF l, i
<1> QED
  BY <1>1, <1>2, <1>3, <1>4, <1>6, <1>7, <1>8, WantedLanding DEF WhileLanding, LandingFinds

LEMMA LandPastTargetWants ==
  ASSUME Wishing, LandPastTarget
  PROVE  Wanted'
<1> DEFINE l == IF landing.first = 0 THEN [landing EXCEPT !.first = Next1] ELSE landing
<1>1. /\ ctl.pc = "landing" /\ HasPacket /\ IsKey(Next1) /\ Pts(Next1) > landing.target
      /\ UNCHANGED <<slots, position>>
  BY DEF LandPastTarget, At, LandingUnchanged
<1>2. /\ WhileLanding /\ LandingFinds /\ landing \in LandingRecords /\ landing.best \in Packets \cup {0}
      /\ source.next \in Packets /\ Next1 = source.next /\ ~landing.found /\ ScanTrue
      /\ landing.target = window.target
  BY <1>1, LandingFacts, WhileLandingFacts
<1>3. Landed(l)
  BY <1>2 DEF LandPastTarget, WhileLanding
<1>4. l \in LandingRecords /\ l.target = landing.target /\ l.best = landing.best /\ l.found = landing.found
  BY <1>2 DEF LandingRecords
<1>5. /\ source \in Sources /\ ReadsAll /\ window \in Windows /\ source.next \in KeyPackets
      /\ Pts(source.next) > window.target /\ window.target \in Int /\ source.next \in Int
      /\ Packets \subseteq Int
  BY <1>1, <1>2, StreamFacts, WishingFacts DEF Shapes, KeyPackets, Windows
<1>6. ASSUME landing.best # 0 PROVE IsNearestKey(landing.best)
  <2>1. /\ landing.best \in KeyPackets /\ Pts(landing.best) <= window.target
        /\ \A j \in Packets : IsKey(j) /\ landing.best < j => source.next <= j
    BY <1>2, <1>5, <1>6 DEF WhileLanding, ScanTrue, KeyPackets
  <2>2. ASSUME NEW j \in KeyPackets, landing.best < j PROVE Pts(j) > window.target
    <3>1. j \in Packets /\ IsKey(j) /\ source.next <= j /\ j \in Int /\ Pts(j) \in Int /\ Pts(source.next) \in Int
      BY <1>5, <2>1, <2>2, StreamFacts DEF KeyPackets
    <3>2. j = source.next \/ source.next < j
      BY <1>5, <3>1
    <3>3. source.next < j => Pts(source.next) < Pts(j)
      BY <1>5, <3>1 DEF ReadsAll, KeyPackets
    <3> QED
      BY <1>5, <3>1, <3>2, <3>3
  <2> QED
    BY <1>5, <2>1, <2>2, LastKeyIsNearest
<1>7. ASSUME landing.best = 0, position.atStart PROVE FALSE
  <2>1. \A j \in KeyPackets : source.next <= j
    BY <1>2, <1>7 DEF WhileLanding
  <2> QED
    BY <1>2, <1>5, <2>1, NotAllPast
<1> HIDE DEF l
<1> QED
  BY <1>1, <1>2, <1>3, <1>4, <1>6, <1>7, LandingEnds

LEMMA LandOnKeyWants ==
  ASSUME Wishing, LandOnKey
  PROVE  Wanted'
<1> DEFINE i == Next1
           between == HasKeyBetween(NotePacket(i), Pts(i), landing.target)
           covers == ~landing.scanning /\ ~between
           l == IF landing.first = 0 THEN [Begun(i) EXCEPT !.first = i] ELSE landing
<1>1. /\ ctl.pc = "landing" /\ HasPacket /\ IsKey(i) /\ Pts(i) <= landing.target
      /\ ReadFromDemuxer(covers, LandingIndex(i)) /\ UNCHANGED <<slots, position>>
      /\ IF covers THEN Landed([l EXCEPT !.found = TRUE])
         ELSE /\ landing' = [l EXCEPT !.scanning = TRUE, !.best = i, !.buffering = ~mode.keyframeOnly,
                                      !.buffer = IF mode.keyframeOnly THEN <<>> ELSE <<i>>]
              /\ UNCHANGED ctl
  BY DEF LandOnKey, At, LandingUnchanged
<1>2. /\ WhileLanding /\ LandingFinds /\ landing \in LandingRecords /\ landing.best \in Packets \cup {0}
      /\ i \in Packets /\ i = source.next /\ mode.keyframeOnly
      /\ landing.target = window.target
  BY <1>1, LandingFacts, WhileLandingFacts
<1>3. /\ source \in Sources /\ window \in Windows /\ i \in KeyPackets /\ Pts(i) \in Int /\ Pts(i) \in KeyTimes
      /\ window.target \in Int /\ Pts(i) <= window.target /\ Shapes /\ covers \in BOOLEAN
  BY <1>1, <1>2, StreamFacts, WishingFacts DEF Shapes, KeyPackets, Windows, KeyTimes
<1>4. l \in LandingRecords /\ l.target = landing.target /\ l.best = landing.best
  <2>1. Begun(i) \in LandingRecords /\ Begun(i).target = landing.target /\ Begun(i).best = landing.best
    BY <1>2, <1>3, BegunTypes DEF Begun, LandingRecords, Landings
  <2> HIDE DEF i
  <2> QED
    BY <1>2, <2>1 DEF LandingRecords
<1> HIDE DEF l, between, i
<1>5. CASE covers
  <2> DEFINE m == [l EXCEPT !.found = TRUE]
  <2>1. Landed(m)
    BY <1>1, <1>5
  <2>2. m \in LandingRecords /\ m.target = landing.target /\ m.best = 0 /\ m.found
    BY <1>2, <1>4, <1>5 DEF LandingRecords, WhileLanding
  <2>3. reader'.packet = i
    BY <1>1, <1>2, <1>3, <1>5, ReaderParts DEF ReadFromDemuxer, ReaderRecords
  <2>4. IsNearestKey(i)
    <3>1. CASE Trusted
      <4> DEFINE ix == NotePacket(i)
                 k == IndexKeyBefore(ix, window.target)
      <4>1. \A j \in KeyPackets : ix.reorder = Delay(j)
        BY <1>3, <3>1, KeyTeaches DEF Wishing, KeyInv
      <4> HIDE DEF ix
      <4>2. k # 0 /\ IsNearestKey(k) /\ IndexPts(ix, k) = Pts(k)
        BY <1>3, <3>1, <4>1, TrustedIndexFinds, WishingFacts DEF Wishing
      <4>3. ~HasKeyBetween(ix, Pts(i), window.target)
        BY <1>2, <1>5 DEF between, ix
      <4>4. ~(Pts(i) < Pts(k) /\ Pts(k) <= window.target)
        BY <3>1, <4>2, <4>3 DEF HasKeyBetween
      <4> HIDE DEF k
      <4>5. Pts(k) <= window.target /\ Pts(k) \in Int /\ (Pts(i) <= Pts(k) \/ Pts(i) > window.target)
        BY <1>3, <4>2, StreamFacts DEF IsNearestKey, IsNearest, KeyPackets
      <4>6. Pts(i) = Pts(k)
        BY <1>3, <4>4, <4>5
      <4> QED
        BY <1>3, <4>2, <4>6 DEF IsNearestKey
    <3>2. CASE ~Trusted
      <4>1. ctl.purpose = "covered"
        BY <1>2, <1>5, <3>2 DEF WhileLanding
      <4> QED
        BY <1>2, <4>1 DEF WhileLanding
    <3> QED
      BY <3>1, <3>2
  <2> HIDE DEF m
  <2> QED
    BY <1>1, <2>1, <2>2, <2>3, <2>4, LandingEnds
<1>6. CASE ~covers
  <2>1. landing' = [l EXCEPT !.scanning = TRUE, !.best = i, !.buffering = FALSE, !.buffer = <<>>] /\ ctl' = ctl
    BY <1>1, <1>2, <1>6
  <2>2. landing'.target = window.target /\ landing'.scanning /\ landing'.best = i /\ ~landing'.buffering
    BY <1>2, <1>4, <2>1 DEF LandingRecords
  <2>3. ctl.purpose # "covered"
    <3>1. ASSUME ctl.purpose = "covered" PROVE FALSE
      <4>1. ~Trusted /\ ~landing.scanning
        BY <1>2, <3>1 DEF WhileLanding
      <4> QED
        BY <1>6, <4>1 DEF between, HasKeyBetween
    <3> QED
      BY <3>1
  <2>4. i # 0
    BY <1>2, <1>3, StreamFacts
  <2>5. SameWish
    BY <2>1, WishKept, WishingFacts
  <2> QED
    BY <1>1, <1>2, <1>3, <2>1, <2>2, <2>3, <2>4, <2>5, WantedLanding DEF LandingFinds
<1> QED
  BY <1>5, <1>6

LEMMA LandAtEndWants ==
  ASSUME Wishing, LandAtEnd
  PROVE  Wanted'
<1>1. ctl.pc = "landing" /\ AtEnd /\ Landed(landing) /\ UNCHANGED <<slots, position>>
  BY DEF LandAtEnd, At, LandingUnchanged
<1>2. /\ WhileLanding /\ LandingFinds /\ landing \in LandingRecords /\ landing.best \in Packets \cup {0}
      /\ ~landing.found /\ ScanTrue /\ reader.replay = <<>> /\ landing.target = window.target
  BY <1>1, LandingFacts, WhileLandingFacts
<1>3. source \in Sources /\ ReadsAll /\ window \in Windows /\ Shapes
  BY WishingFacts DEF Shapes
<1>4. source.next \notin Packets
  BY <1>1, <1>2, WishingFacts DEF AtEnd, HasPacket, Allowed
<1>5. /\ source.next \in 1..(Len(Stream) + 1) /\ Len(Stream) \in Nat /\ Packets = 1..Len(Stream)
  BY <1>3, StreamFacts, SourceParts
<1>6. source.next = Len(Stream) + 1
  BY <1>4, <1>5
<1>7. ASSUME landing.best # 0 PROVE IsNearestKey(landing.best)
  <2>1. /\ landing.best \in KeyPackets /\ Pts(landing.best) <= window.target
        /\ \A j \in Packets : IsKey(j) /\ landing.best < j => source.next <= j
    BY <1>2, <1>3, <1>7 DEF WhileLanding, ScanTrue, KeyPackets
  <2>2. \A j \in KeyPackets : ~(landing.best < j)
    BY <1>5, <1>6, <2>1 DEF KeyPackets
  <2> QED
    BY <1>3, <2>1, <2>2, LastKeyIsNearest
<1>8. ASSUME landing.best = 0, position.atStart PROVE FALSE
  <2>1. \A j \in KeyPackets : source.next <= j
    BY <1>2, <1>8 DEF WhileLanding
  <2>2. source.next \in Int /\ source.next > Len(Stream)
    BY <1>5, <1>6
  <2> QED
    BY <1>4, <2>1, <2>2, NotAllPast
<1> QED
  BY <1>1, <1>2, <1>7, <1>8, LandingEnds

LEMMA SettleOnParkedWants ==
  ASSUME Wishing, SettleOnParked
  PROVE  Wanted'
<1>1. /\ ctl.pc = "landed" /\ landing.best # 0 /\ UNCHANGED <<slots, position, ctl>>
      /\ reader' = [reader EXCEPT !.packet = landing.best]
      /\ landing' = [landing EXCEPT !.found = TRUE, !.best = 0]
  BY DEF SettleOnParked, At
<1>2. LandingFinds /\ landing \in LandingRecords /\ landing.target = window.target /\ reader \in ReaderRecords
  BY <1>1, LandingFacts, WishingFacts, ReaderParts
<1>3. IsNearestKey(landing.best)
  BY <1>1 DEF Wishing, Wanted, OnceLanded
<1>4. reader'.packet = landing.best /\ landing'.found /\ landing'.best = 0 /\ landing'.target = window.target
  BY <1>1, <1>2 DEF ReaderRecords, LandingRecords
<1>5. SameWish
  BY <1>1, WishKept, WishingFacts
<1> QED
  BY <1>1, <1>2, <1>3, <1>4, <1>5, WantedLanded DEF LandingFinds

LEMMA AfterLandingWants ==
  ASSUME Wishing, AfterLanding
  PROVE  Wanted'
<1>1. ctl.pc = "landed" /\ landing.best = 0 /\ UNCHANGED <<slots, reader>>
  BY DEF AfterLanding, At
<1>2. /\ ctl.purpose \in {"start", "indexed", "scanned", "covered"} /\ LandingFinds /\ OnceLanded
      /\ ctl \in Controls /\ KeyFlagsReliable /\ Positioned = "arm"
  BY <1>1, LandingFacts, WishingFacts DEF Wishing, Wanted
<1>3. ctl.purpose = "start" => landing.found
  BY <1>1, <1>2 DEF LandingFinds, OnceLanded
<1>4. landing.found \/ position.atStart \/ ~KeyFlagsReliable => landing.found
  BY <1>1, <1>2 DEF OnceLanded
<1>5. ASSUME Go("arm"), landing.found PROVE Wanted'
  <2>1. ctl'.pc = "arm" /\ ctl'.retrying = ctl.retrying
    BY <1>2, <1>5, GoTypes DEF Places
  <2>2. IsNearestKey(reader'.packet)
    BY <1>1, <1>2, <1>5 DEF OnceLanded
  <2> QED
    BY <1>1, <1>2, <2>1, <2>2, WishKept, WishingFacts, WantedArmed DEF LandingFinds
<1>6. ASSUME ctl'.pc \in {"seek", "backOff"}, ctl'.purpose \in {"start", "indexed", "scanned"},
             ctl'.retrying = ctl.retrying
      PROVE  Wanted'
  BY <1>6, WishKept, WishingFacts, WantedMoving
<1>7. ASSUME SeekThen(ScanAim, "scanned") PROVE Wanted'
  <2>1. ctl'.pc = "seek" /\ ctl'.purpose = "scanned" /\ ctl'.retrying = ctl.retrying
    BY <1>2, <1>7 DEF SeekThen, Controls
  <2> QED
    BY <1>6, <2>1
<1>8. ASSUME RetryAfterOvershoot PROVE Wanted'
  <2> DEFINE spent == ctl.round >= MaxRounds \/ ladder.backoffs >= MaxBackoffs
  <2>1. \E round, aim : ctl' = [ctl EXCEPT !.pc = "seek", !.round = round,
                                          !.purpose = IF spent THEN "start" ELSE "indexed", !.aim = aim]
    BY <1>8 DEF RetryAfterOvershoot
  <2> HIDE DEF spent
  <2>2. ctl'.pc = "seek" /\ ctl'.purpose \in {"start", "indexed"} /\ ctl'.retrying = ctl.retrying
    BY <1>2, <2>1 DEF Controls
  <2> QED
    BY <1>6, <2>2
<1>9. ASSUME NEW observed, Retreat(observed), ctl.purpose \in {"indexed", "scanned"} PROVE Wanted'
  <2>1. ctl'.pc = "backOff" /\ ctl'.purpose = ctl.purpose /\ ctl'.retrying = ctl.retrying
    BY <1>2, <1>9 DEF Retreat, Controls
  <2> QED
    BY <1>6, <1>9, <2>1
<1>10. \/ Go("arm") /\ landing.found
       \/ SeekThen(ScanAim, "scanned") \/ RetryAfterOvershoot
       \/ (\E observed : Retreat(observed)) /\ ctl.purpose \in {"indexed", "scanned"}
  BY <1>2, <1>3, <1>4 DEF AfterLanding
<1> QED
  BY <1>5, <1>7, <1>8, <1>9, <1>10

LEMMA LandsKeepWanting ==
  ASSUME Wishing, Lands
  PROVE  Wanted'
<1>1. ~LandOnAnything
  BY WishingFacts DEF LandOnAnything
<1>2. ~SettleOnReplay /\ ~SettleByRewinding
  BY LandingFacts DEF SettleOnReplay, SettleByRewinding, At
<1> QED
  BY <1>1, <1>2, LandOnNonKeyWants, LandPastTargetWants, LandOnKeyWants, LandAtEndWants, SettleOnParkedWants,
     AfterLandingWants DEF Lands

-----------------------------------------------------------------------------
(* Decoding the key frame.                                                  *)

LEMMA FeedKeyframeAndDrainWants ==
  ASSUME Wishing, FeedKeyframeAndDrain
  PROVE  Wanted'
<1> DEFINE key == reader.packet
           fed == [frontier EXCEPT !.fedDts = Stream[key].dts, !.fedPts = Max({@, Pts(key)})]
<1>1. ctl.pc = "arm"
  BY DEF FeedKeyframeAndDrain, FeedingKey, At, Wishing, Wanted
<1>2. /\ IsNearestKey(key) /\ ~IsValid(slots.held) /\ ~IsValid(slots.corruptLast)
      /\ mode.keyframeOnly /\ decoder.buffer = {} /\ Shapes
  BY <1>1, WishingFacts DEF Wishing, Wanted, Phases, Arming
<1>3. /\ decoder' = Decode(key, Pts(key) >= FirstFrameTs) /\ frontier' = Drained(fed)
      /\ Go("select") /\ UNCHANGED <<mode, slots>>
  BY WishingFacts DEF FeedKeyframeAndDrain, Allowed
<1>4. ctl'.pc = "select" /\ ctl'.retrying = ctl.retrying
  BY <1>3, WishingFacts, GoTypes DEF Places
<1>5. frontier'.draining /\ frontier'.drained /\ frontier'.landingKnown
  <2> DEFINE dts == Stream[key].dts
             pts == Max({frontier.fedPts, Pts(key)})
  <2>1. /\ frontier \in FrontierRecords
        /\ frontier' = [[frontier EXCEPT !.fedDts = dts, !.fedPts = pts]
                       EXCEPT !.draining = TRUE, !.drained = TRUE, !.landingKnown = TRUE]
    BY <1>2, <1>3, FrontierParts DEF Drained
  <2> HIDE DEF dts, pts
  <2> QED
    BY <2>1 DEF FrontierRecords
<1>6. decoder'.buffer \subseteq {Pts(key)}
  BY <1>2, <1>3 DEF Decode
<1>7. Pts(key) \in KeyTimes /\ IsNearest(Pts(key))
  BY <1>2 DEF IsNearestKey, KeyPackets, KeyTimes
<1>8. SameWish
  BY <1>4, WishKept, WishingFacts
<1> HIDE DEF fed, key
<1> QED
  BY <1>2, <1>3, <1>4, <1>5, <1>6, <1>7, <1>8, WantedDraining

\* The frame that comes out is the key frame.
LEMMA EmitsTheKey ==
  ASSUME Wishing, Emits
  PROVE  /\ Draining /\ Emitted \in decoder.buffer /\ Emitted \in KeyTimes /\ IsNearest(Emitted)
         /\ Emitted <= window.target /\ RightKey(NewFrame) /\ NewFrame.pts = Emitted
<1>1. Draining /\ decoder.buffer # {} /\ decoder.buffer \subseteq Times /\ source \in Sources
  BY WishingFacts DEF Emits, At, Wishing, Wanted, Shapes, Decoders, DecoderRecords
<1>2. Emitted \in decoder.buffer
  BY <1>1, ExtremeTimes DEF Emitted
<1>3. Emitted \in KeyTimes /\ IsNearest(Emitted)
  BY <1>1, <1>2 DEF Draining
<1>4. IsKey(PacketAt(Emitted))
  BY <1>1, <1>3, KeyAt DEF KeyPackets
<1>5. NewFrame.key = IsKey(PacketAt(Emitted)) /\ NewFrame.pts = Emitted
  BY DEF NewFrame
<1> QED
  BY <1>1, <1>2, <1>3, <1>4, <1>5 DEF RightKey, IsNearest

LEMMA StashCorruptWants ==
  ASSUME Wishing, StashCorrupt
  PROVE  Wanted'
<1>1. /\ Emits /\ Receive(TRUE) /\ ctl' = ctl /\ ctl.pc = "select"
      /\ slots' = [slots EXCEPT !.corruptLast = [NewFrame EXCEPT !.concealed = TRUE]]
  BY DEF StashCorrupt, Emits, At
<1>2. Draining /\ RightKey(NewFrame)
  BY <1>1, EmitsTheKey
<1>3. /\ frontier'.draining = frontier.draining /\ frontier'.drained = frontier.drained
      /\ frontier'.landingKnown = frontier.landingKnown
  <2>1. frontier' = Received(IsKey(PacketAt(Emitted)), TRUE) /\ frontier \in FrontierRecords
    BY <1>1, WishingFacts, FrontierParts DEF Receive
  <2> QED
    BY <2>1 DEF Received, FrontierRecords
<1>4. mode'.keyframeOnly = mode.keyframeOnly /\ decoder'.buffer \subseteq decoder.buffer
  BY <1>1, WishingFacts, ReceiveTypes
<1>5. slots'.held = slots.held /\ slots'.corruptLast = [NewFrame EXCEPT !.concealed = TRUE]
  BY <1>1, WishingFacts DEF Shapes, Slots
<1>6. RightKey([NewFrame EXCEPT !.concealed = TRUE])
  BY <1>2 DEF RightKey, NewFrame
<1>7. SameWish
  BY <1>1, WishKept, WishingFacts
<1> QED
  BY <1>1, <1>2, <1>3, <1>4, <1>5, <1>6, <1>7, WantedDraining DEF Draining

LEMMA EndOfStreamWants ==
  ASSUME Wishing, EndOfStream
  PROVE  Wanted'
<1>1. FinishAtEof /\ ctl.pc = "select"
  BY DEF EndOfStream, AtEndOfStream, At
<1>2. Draining /\ ~IsValid(slots.held) /\ slots.corruptLast \in Frames
  BY <1>1, WishingFacts, SlotTypes, FrameTypes DEF Wishing, Wanted, Draining, Shapes
<1>3. CASE ~IsValid(slots.corruptLast)
  <2>1. Fail("decodeFailed") \/ Fail("endOfStream")
    BY <1>1, <1>2, <1>3 DEF FinishAtEof, FailSelection
  <2>2. Silent /\ ctl'.pc = "idle"
    BY <2>1, FailsSilently
  <2>3. ~ctl'.retrying
    BY <2>1 DEF Fail, EndRequest, Idle
  <2> QED
    BY <2>2, <2>3, WishKept, WantedSilently
<1>4. CASE IsValid(slots.corruptLast)
  <2>1. RightKey(slots.corruptLast) /\ mode.keyframeOnly
    BY <1>2, <1>4 DEF Draining
  <2>2. window.target >= slots.corruptLast.pts
    <3>1. slots.corruptLast.pts <= window.target
      BY <2>1 DEF RightKey, IsNearest
    <3>2. slots.corruptLast.pts \in Int /\ window.target \in Int
      BY <1>2, WishingFacts, FrameTypes DEF Shapes, Windows
    <3> QED
      BY <3>1, <3>2
  <2>3. Select(slots.corruptLast, "none")
    BY <1>1, <1>2, <1>4, <2>1, <2>2 DEF FinishAtEof
  <2>4. ctl'.pc = "answer" /\ ctl'.frame = slots.corruptLast /\ ctl'.retrying = ctl.retrying
    BY <2>3, WishingFacts DEF Select, Controls
  <2> QED
    BY <2>1, <2>4, WishKept, WishingFacts, WantedWithAnswer
<1> QED
  BY <1>3, <1>4

LEMMA SelectsKeepWanting ==
  ASSUME Wishing, Selects, ~AnswerFirstFrame
  PROVE  Wanted'
<1>1. ~FetchKeyframe
  <2>1. ctl.pc = "arm" => reader.packet \in Packets
    BY DEF Wishing, Wanted, IsNearestKey, KeyPackets
  <2>2. 0 \notin Packets
    BY StreamFacts, WishingFacts DEF Shapes
  <2> QED
    BY <2>1, <2>2 DEF FetchKeyframe, At
<1>2. ctl.pc = "select" => Draining
  BY DEF Wishing, Wanted
<1>3. ~FeedHeldPacket /\ ~SkipToKeyframe /\ ~FeedNextPacket /\ ~StartDrain
  BY <1>2 DEF FeedHeldPacket, SkipToKeyframe, FeedNextPacket, StartDrain, NeedsInput, At, Draining
<1>4. ~DemuxError
  BY WishingFacts DEF DemuxError, Allowed
<1>5. ~PlaceInExactMode
  BY <1>2 DEF PlaceInExactMode, Emits, At, Draining
<1>6. Emits => ~(Emitted > window.target)
  <2>1. Emits => Emitted <= window.target /\ Emitted \in Int /\ window.target \in Int
    BY EmitsTheKey, StreamFacts, WishingFacts DEF Shapes, Windows
  <2> QED
    BY <2>1
<1>7. ~LookAhead /\ ~BackOffFromOvershoot /\ ~AnswerOvershoot
  BY <1>6 DEF LookAhead, BackOffFromOvershoot, AnswerOvershoot, Overshoots
<1>8. ~BackOffFromTail /\ ~RetryAfterEmptyEof
  BY <1>2 DEF BackOffFromTail, RetryAfterEmptyEof, AtEndOfStream, At, LandedInTail, EndedEmpty, NothingProduced, Draining
<1>9. CASE PlaceInKeyframeMode
  <2>1. Emits /\ Draining /\ RightKey(NewFrame)
    BY <1>9, EmitsTheKey DEF PlaceInKeyframeMode
  <2>2. Select(NewFrame, "none")
    BY <1>9, <2>1 DEF PlaceInKeyframeMode, IsKeyframeTheAnswer, Draining, RightKey
  <2>3. ctl'.pc = "answer" /\ ctl'.frame = NewFrame /\ ctl'.retrying = ctl.retrying
    BY <2>2, WishingFacts DEF Select, Controls
  <2> QED
    BY <2>1, <2>3, WishKept, WishingFacts, WantedWithAnswer
<1> QED
  BY <1>1, <1>3, <1>4, <1>5, <1>7, <1>8, <1>9, FeedKeyframeAndDrainWants, StashCorruptWants, EndOfStreamWants
     DEF Selects

LEMMA EndsKeepWanting ==
  ASSUME Wishing, Ends
  PROVE  Wanted'
<1>1. ctl.pc \in {"answer", "verify"}
  BY EndsAnswer DEF Wishing
<1>2. RightKey(ctl.frame)
  BY <1>1 DEF Wishing, Wanted
<1>3. \/ ctl'.pc = "verify" /\ ctl'.frame = ctl.frame /\ ctl'.retrying = ctl.retrying
      \/ /\ ctl' = Idle
         /\ reply'.status # "ok" \/ reply'.adjustment = "clampedToLast" \/ reply'.frame = ctl.frame
  BY EndsAnswer DEF Wishing
<1>4. ~ctl'.retrying
  BY <1>3, WishingFacts DEF Idle
<1>5. SameWish
  BY <1>4, WishKept
<1>6. CASE ctl'.pc = "verify" /\ ctl'.frame = ctl.frame
  BY <1>2, <1>5, <1>6, WantedWithAnswer
<1>7. CASE /\ ctl' = Idle
           /\ reply'.status # "ok" \/ reply'.adjustment = "clampedToLast" \/ reply'.frame = ctl.frame
  <2>1. ctl'.pc = "idle" /\ (reply'.status = "ok" /\ reply'.adjustment = "none" => reply'.frame = ctl.frame)
    BY <1>7 DEF Idle
  <2>2. reply'.status = "ok" /\ reply'.adjustment = "none" => RightKey(reply'.frame)
    BY <1>2, <2>1
  <2> QED
    BY <1>5, <2>1, <2>2, WantedAtRest
<1> QED
  BY <1>3, <1>6, <1>7

LEMMA CancelsKeepWanting ==
  ASSUME Wishing, Cancels
  PROVE  Wanted'
<1>1. ~ShortRead
  BY WishingFacts DEF ShortRead, Allowed
<1>2. Fail("cancelled")
  BY <1>1 DEF Cancels, Cancel, InterruptRead, InterruptSeek
<1>3. Silent /\ ctl'.pc = "idle" /\ ~ctl'.retrying
  BY <1>2, FailsSilently DEF Fail, EndRequest, Idle
<1> QED
  BY <1>3, WishKept, WantedSilently

-----------------------------------------------------------------------------
(* Every state, and what it promises.                                       *)

LEMMA KeyAtInit ==
  ASSUME Init
  PROVE  KeyInv
<1>1. ~source.sticky
  BY DEF Init
<1>2. /\ window = Probe /\ ctl.pc = "select" /\ keys.reorder = NoPts
      /\ decoder = EmptyDecoder /\ slots = EmptySlots /\ landing = NoLanding
      /\ reader.packet = 0 /\ reader.replay = <<>>
  BY DEF Init, EmptyIndex, Idle
<1>3. NotesKept
  BY <1>2 DEF NotesKept
<1>4. DelayLearned
  BY <1>2 DEF DelayLearned, Untaught, EmptyDecoder, EmptySlots, NoLanding, NoFrame, IsValid
<1>5. ~Wants
  BY <1>2 DEF Wants, Probe
<1> QED
  BY <1>1, <1>3, <1>4, <1>5 DEF KeyInv

LEMMA StutterKeepsKey ==
  ASSUME KeyInv, UNCHANGED vars
  PROVE  KeyInv'
<1>1. /\ UNCHANGED <<source, decoder, position, frontier, slots, mode, reader, keys, ladder, window, ctl, landing, reply>>
  BY DEF vars
<1>2. DelayLearned' <=> DelayLearned
  BY <1>1, SameKeys, SameStream DEF DelayLearned, Untaught
<1>3. (Wants' <=> Wants) /\ (NotesKept' <=> NotesKept)
  BY <1>1 DEF Wants, Seekable, NotesKept
<1>4. ASSUME Wanted PROVE Wanted'
  <2>1. Trusted' = Trusted /\ KeyTimes' = KeyTimes /\ KeyPackets' = KeyPackets /\ Requests' = Requests
        /\ (\A t : IsNearest(t)' <=> IsNearest(t)) /\ (\A i : IsNearestKey(i)' <=> IsNearestKey(i))
        /\ (\A frame : RightKey(frame)' <=> RightKey(frame)) /\ (\A i : Pts(i)' = Pts(i))
        /\ (\A t : PacketAt(t)' = PacketAt(t))
    BY <1>1, SameStream, SameKeys, SameNearest
  <2>2. (LandingFinds' <=> LandingFinds) /\ (Scanning' <=> Scanning)
    BY <1>1 DEF LandingFinds, IsValid, Scanning
  <2>3. (WhileLanding' <=> WhileLanding) /\ (OnceLanded' <=> OnceLanded) /\ (Draining' <=> Draining)
    BY <1>1, <2>1 DEF WhileLanding, OnceLanded, Draining, IsValid
  <2> QED
    BY <1>1, <1>4, <2>1, <2>2, <2>3 DEF Wanted, IsValid
<1> QED
  BY <1>1, <1>2, <1>3, <1>4 DEF KeyInv

\* The key frame asked for stays findable, whatever happened before.
LEMMA KeyStep ==
  TypeInv /\ IndexInv /\ (KeysFindable => KeyInv) /\ [Next]_vars => (KeysFindable => KeyInv)'
<1> SUFFICES ASSUME TypeInv, IndexInv, KeysFindable => KeyInv, [Next]_vars, KeysFindable' PROVE KeyInv'
  OBVIOUS
<1>1. source'.setting = source.setting
  BY StepTypes DEF Reshapes, vars
<1>2. KeysFindable /\ KeyInv
  BY <1>1, SameKeys
<1>3. CASE UNCHANGED vars
  BY <1>2, <1>3, StutterKeepsKey
<1>4. CASE Next /\ ~NoGenerator
  <2>1. ~source'.sticky /\ NotesKept' /\ DelayLearned'
    BY <1>2, <1>4, NeverSticky, NotesStayKept, DelayStaysLearned DEF KeyInv
  <2>2. ASSUME Wants' PROVE Wanted'
    <3>1. CASE Accept
      BY <1>1, <2>2, <3>1, AcceptWants
    <3>2. CASE ~Accept
      <4>1. Wants /\ window' = window
        BY <1>4, <2>2, <3>2, WantsBefore
      <4>2. Wishing
        BY <1>1, <1>2, <2>2, <4>1 DEF Wishing, KeyInv
      <4>3. ~AnswerFirstFrame
        <5>1. ASSUME AnswerFirstFrame PROVE FALSE
          <6>1. window \in Windows
            BY <4>2, WishingFacts
          <6>2. window'.adjustment = "keyframeBeforeEdit"
            BY <5>1, <6>1 DEF AnswerFirstFrame, Windows
          <6> QED
            BY <2>2, <6>2 DEF Wants
        <5> QED
          BY <5>1
      <4> QED
        BY <1>4, <3>2, <4>2, <4>3, StartsKeepWanting, MovesKeepWanting, LandsKeepWanting, SelectsKeepWanting,
           EndsKeepWanting, CancelsKeepWanting DEF Next
    <3> QED
      BY <3>1, <3>2
  <2> QED
    BY <2>1, <2>2 DEF KeyInv
<1> QED
  BY <1>3, <1>4 DEF NoGenerator

\* A nearest-keyframe request that is answered without a note gets the last key
\* frame at or before its target: FramePipeline.h's positioning in that mode
\* (trusted index, recorded index, scan and back-off), the landing it reads, the
\* one key frame it decodes and the tail check, over whatever requests, seeks
\* that failed, cancellations and corrupt frames came before.
THEOREM PipelineFindsNearestKey == Spec => [](KeysFindable => NearestKeyframe)
<1>1. Init => TypeInv /\ IndexInv /\ (KeysFindable => KeyInv)
  BY InitTypes, IndexAtInit, KeyAtInit
<1>2. TypeInv /\ IndexInv /\ (KeysFindable => KeyInv) /\ [Next]_vars
      => TypeInv' /\ IndexInv' /\ (KeysFindable => KeyInv)'
  BY TypeInvStep, IndexInvStep, KeyStep
<1>3. (KeysFindable => KeyInv) => (KeysFindable => NearestKeyframe)
  <2> SUFFICES ASSUME KeysFindable, KeyInv, Unadjusted, window.keyMode, Seekable
               PROVE  reply.frame.key /\ IsNearest(reply.frame.pts)
    BY DEF NearestKeyframe, IsNearest
  <2>1. ctl.pc = "idle" /\ reply.status = "ok" /\ reply.adjustment = "none"
    BY DEF Unadjusted, Answered, At
  <2>2. Wants
    BY <2>1 DEF KeyInv, NotesKept, Wants
  <2> QED
    BY <2>1, <2>2 DEF KeyInv, Wanted, RightKey
<1> QED
  BY <1>1, <1>2, <1>3, PTL DEF Spec

=============================================================================
