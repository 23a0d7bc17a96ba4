------------------------- MODULE FramePipelineProofs -------------------------
(* Proofs about FramePipeline, for any streams, any requests and any bounds. *)
EXTENDS FramePipelineProperties, FiniteSetTheorems, SequenceTheorems, TLAPS

-----------------------------------------------------------------------------
(* Sets of numbers.  A least element takes the place of an induction.      *)

\* Every set of natural numbers that has an element has a least one: of the
\* intervals that start at one, none is strictly below all the others for ever.
LEMMA LeastNatural ==
  ASSUME NEW S, S \subseteq Nat, S # {}
  PROVE  \E x \in S : \A y \in S : x <= y
<1> DEFINE UpTo(n) == 1..n
           intervals == {UpTo(n) : n \in S}
<1>1. intervals \subseteq FiniteSubsetsOf(Nat)
  <2>1. ASSUME NEW n \in S PROVE UpTo(n) \in SUBSET Nat /\ IsFiniteSet(UpTo(n))
    BY FS_Interval
  <2> QED
    BY <2>1 DEF FiniteSubsetsOf
<1>2. PICK m \in intervals : \A i \in intervals : ~(<<i, m>> \in StrictSubsetOrdering(Nat))
  <2>1. intervals # {}
    OBVIOUS
  <2> HIDE DEF intervals
  <2> QED
    BY <1>1, <2>1, FS_StrictSubsetOrderingWellFounded, WFMin
<1>3. PICK x \in S : m = UpTo(x)
  OBVIOUS
<1>4. ASSUME NEW y \in S, y < x PROVE FALSE
  <2>1. UpTo(y) \subseteq UpTo(x) /\ x \in UpTo(x) /\ x \notin UpTo(y) /\ UpTo(x) \subseteq Nat
    BY <1>4
  <2>2. UpTo(y) # UpTo(x)
    BY <2>1
  <2> HIDE DEF UpTo
  <2>3. <<UpTo(y), UpTo(x)>> \in StrictSubsetOrdering(Nat)
    BY <2>1, <2>2 DEF StrictSubsetOrdering
  <2>4. UpTo(y) \in intervals
    OBVIOUS
  <2> QED
    BY <1>2, <1>3, <2>3, <2>4
<1> QED
  BY <1>4

\* Min() of a set of integers bounded below is its least element, Max() of one
\* bounded above its greatest.
LEMMA MinIsLeast ==
  ASSUME NEW S, S \subseteq Int, S # {}, NEW b \in Int, \A y \in S : b <= y
  PROVE  Min(S) \in S /\ \A y \in S : Min(S) <= y
<1> DEFINE above == {y - b : y \in S}
<1>1. above \subseteq Nat /\ above # {}
  <2>1. \A y \in S : y - b \in Nat
    OBVIOUS
  <2> QED
    BY <2>1
<1>2. PICK a \in above : \A c \in above : a <= c
  <2> HIDE DEF above
  <2> QED
    BY <1>1, LeastNatural
<1>3. PICK x \in S : a = x - b
  OBVIOUS
<1>4. \A y \in S : x <= y
  BY <1>2, <1>3
<1> QED
  BY <1>4 DEF Min

LEMMA MaxIsGreatest ==
  ASSUME NEW S, S \subseteq Int, S # {}, NEW b \in Int, \A y \in S : y <= b
  PROVE  Max(S) \in S /\ \A y \in S : y <= Max(S)
<1> DEFINE below == {b - y : y \in S}
<1>1. below \subseteq Nat /\ below # {}
  <2>1. \A y \in S : b - y \in Nat
    OBVIOUS
  <2> QED
    BY <2>1
<1>2. PICK a \in below : \A c \in below : a <= c
  <2> HIDE DEF below
  <2> QED
    BY <1>1, LeastNatural
<1>3. PICK x \in S : a = b - x
  OBVIOUS
<1>4. \A y \in S : y <= x
  BY <1>2, <1>3
<1> QED
  BY <1>4 DEF Max

LEMMA MaxOfTwo ==
  ASSUME NEW a \in Int, NEW b \in Int
  PROVE  Max({a, b}) = IF a >= b THEN a ELSE b
BY DEF Max

LEMMA MinOfTwo ==
  ASSUME NEW a \in Int, NEW b \in Int
  PROVE  Min({a, b}) = IF a <= b THEN a ELSE b
BY DEF Min

LEMMA MaxOfThree ==
  ASSUME NEW a \in Int, NEW b \in Int, NEW c \in Int
  PROVE  Max({a, b, c}) = IF a >= b /\ a >= c THEN a ELSE IF b >= c THEN b ELSE c
<1> DEFINE m == IF a >= b /\ a >= c THEN a ELSE IF b >= c THEN b ELSE c
<1>1. m \in {a, b, c} /\ \A y \in {a, b, c} : m >= y
  OBVIOUS
<1>2. \A x \in {a, b, c} : (\A y \in {a, b, c} : x >= y) => x = m
  OBVIOUS
<1> QED
  BY <1>1, <1>2 DEF Max

-----------------------------------------------------------------------------
(* The values each variable takes.                                         *)

SourceRecords == [setting : Settings, next : Nat, sticky : BOOLEAN, interrupted : BOOLEAN,
                  failures : 0..MaxSeekFailures, seekable : BOOLEAN]
Sources == {s \in SourceRecords : s.next \in 1..(Len(s.setting.stream) + 1)}
DecoderRecords == [buffer : SUBSET Times, intact : SUBSET Times, synced : BOOLEAN]
Decoders == {d \in DecoderRecords : Cardinality(d.buffer) <= Depth + 1}
Positions == [positioned : BOOLEAN, atStart : BOOLEAN, awaitingKey : BOOLEAN, seekTarget : Int]
FrontierRecords == [fedDts : Int, fedPts : Times \cup {NoPts}, received : Times \cup {NoPts},
                    lastKey : Times \cup {NoPts}, lastEnd : Int, count : 0..2, eof : BOOLEAN,
                    draining : BOOLEAN, drained : BOOLEAN, landingKnown : BOOLEAN, tainted : BOOLEAN,
                    holes : SUBSET Times]
Frontiers == {f \in FrontierRecords : Cardinality(f.holes) <= MaxHoles}
Slots == [held : Frames, pending : Frames, corruptLast : Frames]
Modes == [keyframeOnly : BOOLEAN, skipBefore : Int, eofRetried : BOOLEAN, tailEnd : Int,
          errors : 0..(MaxErrors + 1), anyErrors : BOOLEAN]
ReaderRecords == [packet : Packets \cup {0}, replay : Seq(Packets), errors : 0..MaxErrors, verifiedTo : Int]
Readers == {r \in ReaderRecords : Len(r.replay) <= MaxGopPackets}
Indices == [next : UNION {[K -> Int] : K \in SUBSET KeyTimes}, contiguous : Int, gopHint : Int, reorder : Int]
Indexed(ix) == ix \in Indices /\ Cardinality(Recorded(ix)) <= MaxKeyEntries
Ladders == [backoffs : 0..MaxBackoffs, step : Int, seekBias : Int]
Windows == [target : Int, start : Int, end : Int, adjustment : Adjustments, keyMode : BOOLEAN]
Places == {"idle", "recover", "start", "position", "seek", "byteSeek", "backOff", "landing", "landed",
           "arm", "feedKey", "select", "answer", "verify"}
Purposes == {"select", "start", "indexed", "scanned", "covered", "found", "arm"}
Controls == [pc : Places, purpose : Purposes, retrying : BOOLEAN, forwardWins : BOOLEAN, cut : BOOLEAN,
             aim : Int, round : Int, observed : Int, frame : Frames, adjustment : Adjustments]
LandingRecords == [target : Int, horizon : Int, scanning : BOOLEAN, start : Int, first : Packets \cup {0},
                   best : Packets \cup {0}, buffering : BOOLEAN, buffer : Seq(Packets),
                   found : BOOLEAN, done : BOOLEAN]
Landings == {l \in LandingRecords : Len(l.buffer) <= MaxGopPackets}
Replies == [status : Statuses, frame : Frames, adjustment : Adjustments]

Shapes ==
  /\ source \in Sources /\ decoder \in Decoders /\ position \in Positions /\ frontier \in Frontiers
  /\ slots \in Slots /\ mode \in Modes /\ reader \in Readers /\ Indexed(keys) /\ ladder \in Ladders
  /\ window \in Windows /\ ctl \in Controls /\ landing \in Landings /\ reply \in Replies

(* What the place a request is at says of the rest.                        *)

Moving == ctl.pc \in {"seek", "byteSeek", "backOff"}
Scanning == ctl.pc \in {"landing", "landed"}
Arming == ctl.pc \in {"arm", "feedKey"} \/ (Scanning /\ ctl.purpose = "arm")

\* The settings in which every packet between two reads is read: nothing is
\* lost, no end of file is false, the index has room for every key frame, and
\* key frames are decoded in the order they are presented in.
ReadsAll ==
  /\ Faults \cap {"lost", "short"} = {}
  /\ Cardinality(KeyTimes) <= MaxKeyEntries
  /\ \A i, j \in Packets : IsKey(i) /\ IsKey(j) /\ i < j => Pts(i) < Pts(j)

\* While a landing is read, the best key frame so far is the last one read.
ScanTrue ==
  landing.best # 0 => /\ IsKey(landing.best)
                      /\ ReadsAll => /\ ~source.sticky /\ landing.best < source.next
                                     /\ \A j \in Packets : IsKey(j) /\ landing.best < j => source.next <= j

Phases ==
  /\ source.seekable <=> (IoSeekable /\ source.failures < MaxSeekFailures)
  /\ Moving => Seekable /\ ctl.purpose # "arm"
  /\ Scanning => /\ Seekable \/ ctl.purpose = "arm"
                 /\ ctl.purpose \in {"start", "indexed", "scanned", "covered", "arm"}
  /\ ctl.pc = "seek" /\ ctl.purpose = "start" => ctl.aim <= StartPts
  /\ ctl.pc = "byteSeek" => ctl.aim \in Times /\ ctl.purpose \in {"covered", "found"}
  /\ ctl.pc = "backOff" => ctl.purpose \in {"select", "indexed", "scanned"}
  /\ (Moving \/ Scanning) /\ ctl.purpose # "select" /\ window.keyMode /\ ~ctl.retrying => mode.keyframeOnly
  /\ ctl.pc = "position" /\ window.keyMode /\ ~ctl.retrying => mode.keyframeOnly /\ Seekable
  /\ ctl.pc \in {"recover", "start"} => ~ctl.retrying /\ (window.keyMode => Seekable)
  /\ Arming => mode.keyframeOnly
  /\ Arming \/ Scanning => decoder.buffer = {}
  /\ ctl.pc = "landing" => reader.replay = <<>> /\ ~landing.found /\ ScanTrue
  /\ Scanning /\ landing.found /\ mode.keyframeOnly => reader.packet # 0
  /\ ctl.pc = "feedKey" => reader.packet # 0

TypeInv == Shapes /\ Phases

-----------------------------------------------------------------------------
(* The stream, and what keeps it as it is.                                  *)

\* A setting's stream, packet by packet.
LEMMA StreamFacts ==
  ASSUME source \in Sources
  PROVE  /\ Len(Stream) \in Nat /\ Packets = 1..Len(Stream)
         /\ \A i \in Packets : /\ Pts(i) \in Int /\ NoPts < Pts(i) /\ Pts(i) < Forever
                               /\ Stream[i].dts \in Int /\ IsKey(i) \in BOOLEAN
                               /\ Pts(i) \in Times
         /\ \A i, j \in Packets : Pts(i) = Pts(j) => i = j
         /\ Times \subseteq Int /\ KeyTimes \subseteq Times /\ NoPts \notin Times
         /\ FirstFrameTs \in Int /\ Depth \in Nat
         /\ Requests \subseteq Windows
<1>1. source.setting \in Settings
  BY DEF Sources, SourceRecords
<1> DEFINE Shape == [pts : (NoPts + 1)..(Forever - 1), dts : Int, key : BOOLEAN, refs : SUBSET Int]
<1>2. Stream \in Seq(Shape) /\ \A i, j \in Packets : Pts(i) = Pts(j) => i = j
  BY <1>1, StreamAssumption DEF Stream, Packets, Pts
<1>3. Len(Stream) \in Nat /\ Packets = 1..Len(Stream) /\ \A i \in Packets : Stream[i] \in Shape
  <2> HIDE DEF Shape
  <2> DEFINE packets == Stream
  <2>1. packets \in Seq(Shape)
    BY <1>2
  <2> HIDE DEF packets
  <2>2. Len(packets) \in Nat /\ DOMAIN packets = 1..Len(packets) /\ \A i \in DOMAIN packets : packets[i] \in Shape
    BY <2>1
  <2> QED
    BY <2>2 DEF Packets, packets
<1>4. NoPts \in Int /\ Forever \in Int
  BY IndexAssumption
<1>5. \A i \in Packets : /\ Pts(i) \in Int /\ NoPts < Pts(i) /\ Pts(i) < Forever
                         /\ Stream[i].dts \in Int /\ IsKey(i) \in BOOLEAN
  BY <1>3, <1>4 DEF Pts, IsKey
<1>6. Times \subseteq Int /\ KeyTimes \subseteq Times /\ NoPts \notin Times /\ \A i \in Packets : Pts(i) \in Times
  BY <1>5 DEF Times, KeyTimes
<1>7. FirstFrameTs \in Int /\ Depth \in Nat /\ Requests \subseteq Windows
  BY <1>1, PipelineAssumption, StreamAssumption DEF FirstFrameTs, Depth, Requests, Windows
<1> QED
  BY <1>2, <1>3, <1>5, <1>6, <1>7

\* A time of the stream names its packet.
LEMMA PacketAtFacts ==
  ASSUME source \in Sources, NEW t \in Times
  PROVE  PacketAt(t) \in Packets /\ Pts(PacketAt(t)) = t
BY DEF PacketAt, Times

LEMMA TimesAreFinite ==
  ASSUME source \in Sources
  PROVE  /\ IsFiniteSet(Times) /\ IsFiniteSet(KeyTimes)
         /\ \A T \in SUBSET Times : IsFiniteSet(T) /\ Cardinality(T) \in Nat
<1> DEFINE f == [i \in Packets |-> Pts(i)]
<1>1. f \in Surjection(Packets, Times)
  BY DEF Times, Surjection
<1>2. IsFiniteSet(Packets)
  BY StreamFacts, FS_Interval
<1>3. IsFiniteSet(Times)
  <2> HIDE DEF f
  <2> QED
    BY <1>1, <1>2, FS_Surjection
<1>4. \A T \in SUBSET Times : IsFiniteSet(T) /\ Cardinality(T) \in Nat
  BY <1>3, FS_Subset, FS_CardinalityType
<1> QED
  BY <1>3, <1>4, StreamFacts

\* Min and Max of any times of the stream.
LEMMA ExtremeTimes ==
  ASSUME source \in Sources, NEW T \in SUBSET Times, T # {}
  PROVE  /\ Min(T) \in T /\ \A t \in T : Min(T) <= t
         /\ Max(T) \in T /\ \A t \in T : t <= Max(T)
<1>1. T \subseteq Int /\ NoPts \in Int /\ Forever \in Int /\ \A t \in T : NoPts <= t /\ t <= Forever
  BY StreamFacts, IndexAssumption DEF Times
<1> QED
  BY <1>1, MinIsLeast, MaxIsGreatest

-----------------------------------------------------------------------------
(* The key-frame index.                                                     *)

LEMMA IndexShape ==
  ASSUME NEW ix \in Indices
  PROVE  /\ ix.next \in [Recorded(ix) -> Int] /\ Recorded(ix) \subseteq KeyTimes
         /\ ix.contiguous \in Int /\ ix.gopHint \in Int /\ ix.reorder \in Int
<1>1. PICK K \in SUBSET KeyTimes : ix.next \in [K -> Int]
  BY DEF Indices
<1>2. DOMAIN ix.next = K
  BY <1>1
<1> QED
  BY <1>1, <1>2 DEF Indices, Recorded

\* A record of the right parts is an index.
LEMMA IndexFrom ==
  ASSUME NEW K \in SUBSET KeyTimes, NEW f \in [K -> Int], NEW c \in Int, NEW g \in Int, NEW r \in Int
  PROVE  /\ [next |-> f, contiguous |-> c, gopHint |-> g, reorder |-> r] \in Indices
         /\ Recorded([next |-> f, contiguous |-> c, gopHint |-> g, reorder |-> r]) = K
BY DEF Indices, Recorded

\* Neither the longest distance nor the delay nor the end of a group touch what
\* is recorded.
LEMMA IndexNotes ==
  ASSUME NEW ix, Indexed(ix), NEW a \in Int, NEW b \in Int
  PROVE  /\ Indexed(NoteKeyframeSpan(ix, a, b)) /\ Recorded(NoteKeyframeSpan(ix, a, b)) = Recorded(ix)
         /\ NoteKeyframeSpan(ix, a, b).next = ix.next
         /\ NoteKeyframeSpan(ix, a, b).contiguous = ix.contiguous
         /\ Indexed(LearnReorder(ix, a)) /\ LearnReorder(ix, a).next = ix.next
         /\ LearnReorder(ix, a).contiguous = ix.contiguous
         /\ Indexed(ResetContiguity(ix)) /\ ResetContiguity(ix).next = ix.next
         /\ ResetContiguity(ix).contiguous = NoPts
         /\ Indexed(NoteStreamEndedInGop(ix, a)) /\ NoteStreamEndedInGop(ix, a).contiguous = ix.contiguous
         /\ Recorded(NoteStreamEndedInGop(ix, a)) = Recorded(ix)
         /\ \A k \in Recorded(ix) :
              NoteStreamEndedInGop(ix, a).next[k] = IF k = a THEN Forever ELSE ix.next[k]
         /\ ReorderTicks(ix) \in Int
<1> DEFINE next == ix.next
           cont == ix.contiguous
           hint == ix.gopHint
           delay == ix.reorder
<1>1. next \in [Recorded(ix) -> Int] /\ Recorded(ix) \in SUBSET KeyTimes /\ cont \in Int /\ hint \in Int /\ delay \in Int
  BY IndexShape DEF Indexed
<1>2. ix = [next |-> next, contiguous |-> cont, gopHint |-> hint, reorder |-> delay]
  BY DEF Indexed, Indices
<1>3. NoPts \in Int /\ Forever \in Int
  BY IndexAssumption
<1>4. Cardinality(Recorded(ix)) <= MaxKeyEntries
  BY DEF Indexed
<1>10. next = ix.next /\ cont = ix.contiguous /\ hint = ix.gopHint /\ delay = ix.reorder
  OBVIOUS
<1> HIDE DEF next, cont, hint, delay
<1>5. ASSUME NEW g \in Int
      PROVE  /\ Indexed([ix EXCEPT !.gopHint = g]) /\ Recorded([ix EXCEPT !.gopHint = g]) = Recorded(ix)
             /\ [ix EXCEPT !.gopHint = g].next = next /\ [ix EXCEPT !.gopHint = g].contiguous = cont
  <2> DEFINE new == [next |-> next, contiguous |-> cont, gopHint |-> g, reorder |-> delay]
  <2>1. [ix EXCEPT !.gopHint = g] = new
    BY <1>2
  <2>2. new \in Indices /\ Recorded(new) = Recorded(ix)
    BY <1>1, IndexFrom
  <2> QED
    BY <2>1, <2>2, <1>4 DEF Indexed
<1>6. ASSUME NEW r \in Int
      PROVE  /\ Indexed([ix EXCEPT !.reorder = r]) /\ [ix EXCEPT !.reorder = r].next = next
             /\ [ix EXCEPT !.reorder = r].contiguous = cont
  <2> DEFINE new == [next |-> next, contiguous |-> cont, gopHint |-> hint, reorder |-> r]
  <2>1. [ix EXCEPT !.reorder = r] = new
    BY <1>2
  <2>2. new \in Indices /\ Recorded(new) = Recorded(ix)
    BY <1>1, IndexFrom
  <2> QED
    BY <2>1, <2>2, <1>4 DEF Indexed
<1>7. Indexed(ResetContiguity(ix)) /\ ResetContiguity(ix).next = next /\ ResetContiguity(ix).contiguous = NoPts
  <2> DEFINE new == [next |-> next, contiguous |-> NoPts, gopHint |-> hint, reorder |-> delay]
  <2>1. ResetContiguity(ix) = new
    BY <1>2 DEF ResetContiguity
  <2>2. new \in Indices /\ Recorded(new) = Recorded(ix)
    BY <1>1, <1>3, IndexFrom
  <2> QED
    BY <2>1, <2>2, <1>4 DEF Indexed
<1>8. /\ Indexed(NoteStreamEndedInGop(ix, a)) /\ NoteStreamEndedInGop(ix, a).contiguous = cont
      /\ Recorded(NoteStreamEndedInGop(ix, a)) = Recorded(ix)
      /\ \A k \in Recorded(ix) : NoteStreamEndedInGop(ix, a).next[k] = IF k = a THEN Forever ELSE next[k]
  <2>1. CASE a \in Recorded(ix)
    <3> DEFINE closed == [next EXCEPT ![a] = Forever]
               new == [next |-> closed, contiguous |-> cont, gopHint |-> hint, reorder |-> delay]
    <3>1. NoteStreamEndedInGop(ix, a) = new
      BY <1>2, <2>1 DEF NoteStreamEndedInGop
    <3>2. closed \in [Recorded(ix) -> Int]
          /\ \A k \in Recorded(ix) : closed[k] = IF k = a THEN Forever ELSE next[k]
      BY <1>1, <1>3
    <3> HIDE DEF closed
    <3>3. new \in Indices /\ Recorded(new) = Recorded(ix)
      BY <1>1, <3>2, IndexFrom
    <3> QED
      BY <3>1, <3>2, <3>3, <1>4 DEF Indexed
  <2>2. CASE a \notin Recorded(ix)
    BY <2>2, <1>10 DEF NoteStreamEndedInGop
  <2> QED
    BY <2>1, <2>2
<1>9. ReorderTicks(ix) \in Int
  BY <1>1, <1>10, <1>3 DEF ReorderTicks
<1> QED
  BY <1>1, <1>5, <1>6, <1>7, <1>8, <1>9, <1>10 DEF NoteKeyframeSpan, LearnReorder

\* Recording a key frame links the one before it; a full index is left alone.
LEMMA RecordKeyFacts ==
  ASSUME source \in Sources, NEW ix, Indexed(ix), NEW pts \in KeyTimes
  PROVE  /\ Indexed(RecordKey(ix, pts))
         /\ IsFull(ix, pts) => RecordKey(ix, pts) = ix
         /\ ~IsFull(ix, pts) => /\ RecordKey(ix, pts).next = NextWith(ix, pts)
                                /\ RecordKey(ix, pts).contiguous = pts
                                /\ Recorded(RecordKey(ix, pts)) = Recorded(ix) \cup {pts}
<1>1. CASE IsFull(ix, pts)
  BY <1>1 DEF RecordKey
<1>2. CASE ~IsFull(ix, pts)
  <2> DEFINE linked == Linked(ix, pts)
             next == NextWith(ix, pts)
             K == Recorded(ix) \cup {pts}
  <2>1. pts \in Int /\ NoPts \in Int
    BY StreamFacts, IndexAssumption
  <2>2. Recorded(ix) \subseteq KeyTimes /\ ix.next \in [Recorded(ix) -> Int] /\ ix.contiguous \in Int
    BY IndexShape DEF Indexed
  <2>3. linked \in Indices
    BY <2>1, <2>2, IndexNotes DEF Linked, Indexed
  <2>4. next \in [K -> Int] /\ K \in SUBSET KeyTimes
    BY <2>1, <2>2 DEF NextWith
  <2>5. Cardinality(K) <= MaxKeyEntries
    <3>1. IsFiniteSet(Recorded(ix)) /\ Cardinality(Recorded(ix)) \in Nat
      BY <2>2, TimesAreFinite, FS_Subset, FS_CardinalityType
    <3>2. Cardinality(K) = IF pts \in Recorded(ix) THEN Cardinality(Recorded(ix)) ELSE Cardinality(Recorded(ix)) + 1
      BY <3>1, FS_AddElement
    <3> QED
      BY <1>2, <3>1, <3>2, IndexAssumption DEF IsFull, Indexed
  <2> DEFINE hint == linked.gopHint
             delay == linked.reorder
             new == [next |-> next, contiguous |-> pts, gopHint |-> hint, reorder |-> delay]
  <2>6. hint \in Int /\ delay \in Int
    BY <2>3, IndexShape
  <2> DEFINE next0 == linked.next
             contiguous0 == linked.contiguous
  <2>7. linked = [next |-> next0, contiguous |-> contiguous0, gopHint |-> hint, reorder |-> delay]
    BY <2>3 DEF Indices
  <2>8. RecordKey(ix, pts) = [linked EXCEPT !.next = next, !.contiguous = pts]
    BY <1>2 DEF RecordKey
  <2> HIDE DEF linked, next, K, hint, delay, next0, contiguous0
  <2>9. RecordKey(ix, pts) = new
    BY <2>7, <2>8
  <2>10. new \in Indices /\ Recorded(new) = K
    BY <2>1, <2>4, <2>6, IndexFrom
  <2>11. new.next = next /\ new.contiguous = pts
    OBVIOUS
  <2> HIDE DEF new
  <2>12. Indexed(RecordKey(ix, pts)) /\ Recorded(RecordKey(ix, pts)) = K
    BY <2>5, <2>9, <2>10 DEF Indexed
  <2> QED
    BY <1>2, <2>9, <2>11, <2>12 DEF next, K
<1> QED
  BY <1>1, <1>2

\* Every packet read is noted; only a key frame is recorded, and only where the
\* container has no index of its own.
LEMMA NotePacketFacts ==
  ASSUME source \in Sources, Indexed(keys), NEW i \in Packets
  PROVE  /\ Indexed(NotePacket(i))
         /\ ~IsKey(i) => NotePacket(i) = keys
         /\ IsKey(i) /\ Trusted => NotePacket(i).next = keys.next /\ NotePacket(i).contiguous = keys.contiguous
         /\ IsKey(i) /\ ~Trusted =>
              \E ix : /\ Indexed(ix) /\ ix.next = keys.next /\ ix.contiguous = keys.contiguous
                      /\ NotePacket(i) = RecordKey(ix, Pts(i))
<1> DEFINE learned == LearnReorder(keys, Pts(i) - Stream[i].dts)
<1>1. Pts(i) \in Int /\ Stream[i].dts \in Int /\ (IsKey(i) => Pts(i) \in KeyTimes)
  BY StreamFacts DEF KeyTimes
<1>2. Indexed(learned) /\ learned.next = keys.next /\ learned.contiguous = keys.contiguous
  <2>1. Pts(i) - Stream[i].dts \in Int
    BY <1>1
  <2> QED
    BY <2>1, IndexNotes
<1> HIDE DEF learned
<1>3. NotePacket(i) = IF ~IsKey(i) THEN keys ELSE IF Trusted THEN learned ELSE RecordKey(learned, Pts(i))
  BY DEF NotePacket, learned
<1>4. IsKey(i) => Indexed(RecordKey(learned, Pts(i)))
  BY <1>1, <1>2, RecordKeyFacts
<1> QED
  BY <1>2, <1>3, <1>4

\* The key frame found to cover a time is a recorded one.
LEMMA CoveringKeyFacts ==
  ASSUME source \in Sources, NEW ix, Indexed(ix), NEW target \in Int
  PROVE  FindCoveringKey(ix, target) # NoPts =>
           /\ FindCoveringKey(ix, target) \in Recorded(ix) /\ FindCoveringKey(ix, target) \in KeyTimes
           /\ FindCoveringKey(ix, target) <= target
<1> DEFINE K == RecordedUpTo(ix, target)
<1>1. K \in SUBSET Times /\ K \subseteq Recorded(ix) /\ Recorded(ix) \subseteq KeyTimes
  BY StreamFacts, IndexShape DEF RecordedUpTo, Indexed
<1>2. K # {} => Max(K) \in K
  <2> HIDE DEF K
  <2> QED
    BY <1>1, ExtremeTimes
<1> QED
  BY <1>1, <1>2 DEF FindCoveringKey, RecordedUpTo

-----------------------------------------------------------------------------
(* The kinds of value, step by step.                                        *)

\* A step leaves the setting alone, and with it everything read from it.
Reshapes ==
  /\ source' \in Sources /\ source'.setting = source.setting
  /\ decoder' \in Decoders /\ position' \in Positions /\ frontier' \in Frontiers
  /\ slots' \in Slots /\ mode' \in Modes /\ reader' \in Readers /\ Indexed(keys') /\ ladder' \in Ladders
  /\ window' \in Windows /\ ctl' \in Controls /\ landing' \in Landings /\ reply' \in Replies

LEMMA SameStream ==
  ASSUME source'.setting = source.setting
  PROVE  /\ Stream' = Stream /\ Packets' = Packets /\ Times' = Times /\ KeyTimes' = KeyTimes
         /\ Container' = Container /\ KeyFlagsReliable' = KeyFlagsReliable /\ FirstFrameTs' = FirstFrameTs
         /\ Clamps' = Clamps /\ Requests' = Requests /\ Depth' = Depth /\ Faults' = Faults
         /\ StartPts' = StartPts /\ IoSeekable' = IoSeekable /\ Trusted' = Trusted
         /\ Frames' = Frames /\ Probe' = Probe /\ Shown' = Shown /\ StreamEnd' = StreamEnd
<1>1. Stream' = Stream /\ Container' = Container /\ KeyFlagsReliable' = KeyFlagsReliable
      /\ FirstFrameTs' = FirstFrameTs /\ Clamps' = Clamps /\ Requests' = Requests /\ Depth' = Depth
      /\ Faults' = Faults
  BY DEF Stream, Container, KeyFlagsReliable, FirstFrameTs, Clamps, Requests, Depth, Faults
<1>2. Packets' = Packets /\ Times' = Times /\ KeyTimes' = KeyTimes
  BY <1>1 DEF Packets, Times, KeyTimes, Pts, IsKey
<1>3. Shown' = Shown
  BY <1>1, <1>2 DEF Shown
<1> QED
  BY <1>1, <1>2, <1>3 DEF StartPts, IoSeekable, Trusted, Frames, Probe, StreamEnd

LEMMA SameReads ==
  ASSUME source'.setting = source.setting
  PROVE  /\ ReadsAll' <=> ReadsAll
         /\ \A i \in Packets : IsKey(i)' = IsKey(i) /\ Pts(i)' = Pts(i)
<1>1. Faults' = Faults /\ KeyTimes' = KeyTimes /\ Packets' = Packets /\ Stream' = Stream
  BY SameStream
<1>2. \A i \in Packets : IsKey(i)' = IsKey(i) /\ Pts(i)' = Pts(i)
  BY <1>1 DEF IsKey, Pts
<1> QED
  BY <1>1, <1>2 DEF ReadsAll, IsKey, Pts

LEMMA StillShaped ==
  ASSUME Shapes, Reshapes
  PROVE  Shapes'
<1>1. source'.setting = source.setting
  BY DEF Reshapes
<1>2. /\ Packets' = Packets /\ Times' = Times /\ KeyTimes' = KeyTimes /\ Depth' = Depth /\ Frames' = Frames
  BY <1>1, SameStream
<1>3. /\ Sources' = Sources /\ Decoders' = Decoders /\ Frontiers' = Frontiers /\ Slots' = Slots
      /\ Readers' = Readers /\ Controls' = Controls /\ Landings' = Landings
      /\ Replies' = Replies
  BY <1>2 DEF Sources, SourceRecords, Decoders, DecoderRecords, Frontiers, FrontierRecords, Slots, Readers, ReaderRecords, Controls, Landings, LandingRecords, Replies
<1>4. Indices' = Indices
  BY <1>2 DEF Indices
<1>5. Indexed(keys') <=> Indexed(keys)'
  BY <1>4 DEF Indexed, Recorded
<1> QED
  BY <1>3, <1>5 DEF Shapes, Reshapes, Positions, Modes, Ladders, Windows

LEMMA FrameTypes ==
  ASSUME source \in Sources
  PROVE  /\ NoFrame \in Frames /\ EmptySlots \in Slots
         /\ \A frame \in Frames : frame.pts \in Int /\ FrameEnd(frame) \in Int
                                  /\ (IsValid(frame) => frame.pts \in Times)
<1>1. NoPts \in Int /\ Times \subseteq Int /\ FrameDuration \in Int
  BY StreamFacts, IndexAssumption, PipelineAssumption
<1>2. NoFrame \in Frames
  BY <1>1 DEF NoFrame, Frames
<1>3. EmptySlots \in Slots
  BY <1>2 DEF EmptySlots, Slots
<1>4. ASSUME NEW frame \in Frames
      PROVE  frame.pts \in Int /\ FrameEnd(frame) \in Int /\ (IsValid(frame) => frame.pts \in Times)
  <2>1. frame.pts \in Times \cup {NoPts}
    BY DEF Frames
  <2>2. frame.pts \in Int /\ (frame.pts # NoPts => frame.pts \in Times)
    BY <1>1, <2>1
  <2>3. frame.pts + FrameDuration \in Int
    BY <1>1, <2>2
  <2> QED
    BY <2>2, <2>3 DEF FrameEnd, IsValid
<1> QED
  BY <1>2, <1>3, <1>4

LEMMA EmptyTypes ==
  ASSUME source \in Sources
  PROVE  EmptyDecoder \in Decoders /\ NoFrontier \in Frontiers /\ NoLanding \in Landings /\ Idle \in Controls
         /\ NoReply \in Replies
<1>1. /\ NoPts \in Int /\ Depth \in Nat /\ MaxHoles \in Nat /\ MaxGopPackets \in Nat /\ Cardinality({}) = 0
      /\ NoFrame \in Frames
  BY StreamFacts, IndexAssumption, PipelineAssumption, FS_EmptySet, FrameTypes
<1>2. EmptyDecoder \in Decoders /\ NoFrontier \in Frontiers
  BY <1>1 DEF EmptyDecoder, Decoders, DecoderRecords, NoFrontier, Frontiers, FrontierRecords
<1>3. NoLanding \in Landings
  BY <1>1 DEF NoLanding, Landings, LandingRecords
<1>4. Idle \in Controls /\ NoReply \in Replies
  BY <1>1 DEF Idle, Controls, Places, Purposes, Adjustments, NoReply, Replies, Statuses
<1> QED
  BY <1>2, <1>3, <1>4

LEMMA TicksTypes ==
  /\ NoPts \in Int /\ Forever \in Int /\ FrameDuration \in Nat \ {0} /\ OneSecond \in Nat \ {0}
  /\ \A n \in Nat : FrameTicks(n) \in Nat
  /\ MaxErrors \in Nat \ {0} /\ MaxBackoffs \in Nat \ {0} /\ MaxRounds \in Nat \ {0}
  /\ MaxHoles \in Nat \ {0} /\ MaxGopPackets \in Nat \ {0} /\ MaxSeekFailures \in Nat \ {0}
BY IndexAssumption, PipelineAssumption DEF FrameTicks

-----------------------------------------------------------------------------
(* What the steps are made of.                                              *)

LEMMA EndTypes ==
  ASSUME source \in Sources, window \in Windows
  PROVE  /\ \A status \in Statuses, frame \in Frames, adjustment \in Adjustments :
              EndRequest(status, frame, adjustment) => ctl' \in Controls /\ reply' \in Replies /\ ctl'.pc = "idle"
         /\ \A status \in Statuses : Fail(status) => ctl' \in Controls /\ reply' \in Replies /\ ctl'.pc = "idle"
         /\ \A frame \in Frames, adjustment \in Adjustments :
              Answer(frame, adjustment) => ctl' \in Controls /\ reply' \in Replies /\ ctl'.pc = "idle"
<1>1. Idle \in Controls /\ Idle.pc = "idle" /\ NoFrame \in Frames /\ "none" \in Adjustments
      /\ window.adjustment \in Adjustments /\ "ok" \in Statuses
  BY EmptyTypes, FrameTypes DEF Idle, Adjustments, Windows, Statuses
<1>2. ASSUME NEW status \in Statuses, NEW frame \in Frames, NEW adjustment \in Adjustments,
             EndRequest(status, frame, adjustment)
      PROVE  ctl' \in Controls /\ reply' \in Replies /\ ctl'.pc = "idle"
  BY <1>1, <1>2 DEF EndRequest, Replies
<1> QED
  BY <1>1, <1>2 DEF Fail, Answer

LEMMA GoTypes ==
  ASSUME ctl \in Controls
  PROVE  /\ \A pc \in Places : Go(pc) => /\ ctl' \in Controls /\ ctl'.pc = pc /\ ctl'.purpose = ctl.purpose
                                         /\ ctl'.retrying = ctl.retrying /\ ctl'.aim = ctl.aim
                                         /\ ctl'.round = ctl.round /\ ctl'.cut = ctl.cut
         /\ \A frame \in Frames, adjustment \in Adjustments :
              Select(frame, adjustment) =>
                /\ ctl' \in Controls /\ ctl'.pc = "answer" /\ ctl'.frame = frame /\ ctl'.adjustment = adjustment
         /\ \A aim \in Int, purpose \in Purposes :
              SeekThen(aim, purpose) =>
                /\ ctl' \in Controls /\ ctl'.pc = "seek" /\ ctl'.aim = aim /\ ctl'.purpose = purpose
                /\ ctl'.retrying = ctl.retrying
         /\ Positioned \in {"arm", "select"}
<1>1. \A pc \in Places : [ctl EXCEPT !.pc = pc] \in Controls
  BY DEF Controls
<1>2. \A frame \in Frames, adjustment \in Adjustments :
        [ctl EXCEPT !.pc = "answer", !.frame = frame, !.adjustment = adjustment] \in Controls
  BY DEF Controls, Places
<1>3. \A aim \in Int, purpose \in Purposes :
        [ctl EXCEPT !.pc = "seek", !.aim = aim, !.purpose = purpose] \in Controls
  BY DEF Controls, Places
<1>4. Positioned \in {"arm", "select"}
  BY DEF Positioned
<1>5. DOMAIN ctl = {"pc", "purpose", "retrying", "forwardWins", "cut", "aim", "round", "observed", "frame", "adjustment"}
  BY DEF Controls
<1>6. \A pc \in Places : Go(pc) => /\ ctl'.pc = pc /\ ctl'.purpose = ctl.purpose
                                   /\ ctl'.retrying = ctl.retrying /\ ctl'.aim = ctl.aim
                                   /\ ctl'.round = ctl.round /\ ctl'.cut = ctl.cut
  BY <1>5 DEF Go
<1>7. \A frame \in Frames, adjustment \in Adjustments :
         Select(frame, adjustment) =>
           ctl'.pc = "answer" /\ ctl'.frame = frame /\ ctl'.adjustment = adjustment
  BY <1>5 DEF Select
<1>8. \A aim \in Int, purpose \in Purposes :
         SeekThen(aim, purpose) =>
           ctl'.pc = "seek" /\ ctl'.aim = aim /\ ctl'.purpose = purpose /\ ctl'.retrying = ctl.retrying
  BY <1>5 DEF SeekThen
<1>9. \A pc \in Places : Go(pc) => ctl' \in Controls
  BY <1>1 DEF Go
<1>10. \A frame \in Frames, adjustment \in Adjustments : Select(frame, adjustment) => ctl' \in Controls
  BY <1>2 DEF Select
<1>11. \A aim \in Int, purpose \in Purposes : SeekThen(aim, purpose) => ctl' \in Controls
  BY <1>3 DEF SeekThen
<1> QED
  BY <1>4, <1>6, <1>7, <1>8, <1>9, <1>10, <1>11

LEMMA ResetTypes ==
  ASSUME Shapes, NEW f \in Frontiers, NEW m \in Modes, NEW v \in Int, ResetPosition(f, m, v)
  PROVE  /\ slots' \in Slots /\ frontier' \in Frontiers /\ mode' \in Modes /\ reader' \in Readers
         /\ Indexed(keys')
         /\ frontier' = f /\ slots' = EmptySlots /\ reader'.replay = <<>> /\ reader'.packet = 0
         /\ mode'.keyframeOnly = m.keyframeOnly
         /\ keys'.next = keys.next /\ keys'.contiguous = NoPts
<1>1. slots' = EmptySlots /\ frontier' = f /\ mode' = [m EXCEPT !.errors = 0] /\ keys' = ResetContiguity(keys)
      /\ reader' = [reader EXCEPT !.packet = 0, !.replay = <<>>, !.errors = 0, !.verifiedTo = v]
  BY DEF ResetPosition
<1>2. EmptySlots \in Slots
  BY FrameTypes DEF Shapes
<1>3. mode' \in Modes /\ mode'.keyframeOnly = m.keyframeOnly
  BY <1>1, TicksTypes DEF Modes
<1>4. reader' \in Readers /\ reader'.replay = <<>> /\ reader'.packet = 0
  <2>1. <<>> \in Seq(Packets) /\ Len(<<>>) = 0
    OBVIOUS
  <2>4. reader \in ReaderRecords
    BY DEF Readers, ReaderRecords, Shapes
  <2>5. 0 \in Packets \cup {0} /\ 0 \in 0..MaxErrors
    BY TicksTypes
  <2>2. /\ reader' \in ReaderRecords
        /\ reader'.replay = <<>> /\ reader'.packet = 0
    BY <1>1, <2>1, <2>4, <2>5 DEF ReaderRecords
  <2>3. Len(reader'.replay) <= MaxGopPackets
    BY <2>1, <2>2, TicksTypes
  <2> QED
    BY <2>2, <2>3 DEF Readers, ReaderRecords
<1>5. Indexed(keys') /\ keys'.next = keys.next /\ keys'.contiguous = NoPts
  BY <1>1, IndexNotes DEF Shapes
<1> QED
  BY <1>1, <1>2, <1>3, <1>4, <1>5

LEMMA AfterSeekTypes ==
  ASSUME Shapes, NEW target \in Int, NEW atStart \in BOOLEAN, AfterSeek(target, atStart)
  PROVE  /\ slots' \in Slots /\ frontier' \in Frontiers /\ mode' \in Modes /\ reader' \in Readers
         /\ Indexed(keys') /\ decoder' \in Decoders /\ position' \in Positions
         /\ reader'.replay = <<>> /\ reader'.packet = 0 /\ mode'.keyframeOnly = mode.keyframeOnly
         /\ decoder'.buffer = {}
         /\ keys'.next = keys.next /\ keys'.contiguous = NoPts
<1>1. NoFrontier \in Frontiers /\ EmptyDecoder \in Decoders /\ EmptyDecoder.buffer = {}
  BY EmptyTypes DEF Shapes, EmptyDecoder
<1>2. mode \in Modes /\ reader.verifiedTo \in Int
  BY DEF Shapes, Readers, ReaderRecords
<1>3. ResetPosition(NoFrontier, mode, reader.verifiedTo)
  BY DEF AfterSeek, Forget
<1> QED
  BY <1>1, <1>2, <1>3, ResetTypes DEF AfterSeek, Positions

LEMMA ReopenTypes ==
  ASSUME Shapes, NEW failures \in 0..MaxSeekFailures, Reopen(failures)
  PROVE  /\ slots' \in Slots /\ frontier' \in Frontiers /\ mode' \in Modes /\ reader' \in Readers
         /\ Indexed(keys') /\ decoder' \in Decoders /\ position' \in Positions
         /\ reader'.replay = <<>> /\ reader'.packet = 0 /\ mode'.keyframeOnly = mode.keyframeOnly
         /\ decoder'.buffer = {}
         /\ source' \in Sources /\ source'.setting = source.setting /\ source'.failures = failures
         /\ source'.seekable = (IoSeekable /\ failures < MaxSeekFailures) /\ source'.next = 1
         /\ keys'.next = keys.next /\ keys'.contiguous = NoPts
<1>1. NoFrontier \in Frontiers /\ EmptyDecoder \in Decoders /\ EmptyDecoder.buffer = {}
  BY EmptyTypes DEF Shapes, EmptyDecoder
<1>2. [mode EXCEPT !.tailEnd = NoPts] \in Modes /\ [mode EXCEPT !.tailEnd = NoPts].keyframeOnly = mode.keyframeOnly
  BY TicksTypes DEF Shapes, Modes
<1>3. ResetPosition(NoFrontier, [mode EXCEPT !.tailEnd = NoPts], NoPts)
  BY DEF Reopen
<1>4. /\ source' = [source EXCEPT !.next = 1, !.sticky = FALSE, !.failures = failures,
                                   !.seekable = IoSeekable /\ failures < MaxSeekFailures]
      /\ decoder' = EmptyDecoder
      /\ position' = [positioned |-> TRUE, atStart |-> TRUE, awaitingKey |-> TRUE, seekTarget |-> StartPts]
  BY DEF Reopen
<1>5. position' \in Positions
  BY <1>4, StreamFacts DEF Positions, StartPts, Shapes
<1>6. /\ source' \in Sources /\ source'.setting = source.setting /\ source'.failures = failures
      /\ source'.seekable = (IoSeekable /\ failures < MaxSeekFailures) /\ source'.next = 1
  <2>1. Len(source.setting.stream) \in Nat
    BY StreamFacts DEF Shapes, Stream
  <2> DEFINE able == IoSeekable /\ failures < MaxSeekFailures
  <2>2. able \in BOOLEAN
    OBVIOUS
  <2> HIDE DEF able
  <2>3. source' = [source EXCEPT !.next = 1, !.sticky = FALSE, !.failures = failures, !.seekable = able]
    BY <1>4 DEF able
  <2>4. /\ source' \in SourceRecords
        /\ source'.setting = source.setting /\ source'.failures = failures
        /\ source'.seekable = able /\ source'.next = 1
    BY <2>2, <2>3 DEF Sources, SourceRecords, Shapes
  <2>5. 1 \in 1..(Len(source.setting.stream) + 1)
    BY <2>1
  <2> QED
    BY <2>4, <2>5 DEF able, Sources, SourceRecords
<1> QED
  BY <1>1, <1>2, <1>3, <1>4, <1>5, <1>6, TicksTypes, ResetTypes

LEMMA HorizonTypes ==
  ASSUME Shapes, NEW target \in Int
  PROVE  /\ Horizon(target) \in Int /\ ReorderTicks(keys) \in Int /\ keys.gopHint \in Int /\ ScanAim \in Int
         /\ window.target \in Int /\ StartPts \in Int /\ Forever \in Int
<1>1. ReorderTicks(keys) \in Int /\ keys.gopHint \in Int
  BY IndexNotes, IndexShape DEF Shapes, Indexed
<1>2. window.target \in Int /\ StartPts \in Int
  BY StreamFacts DEF Shapes, Windows, StartPts
<1>3. FrameTicks(2) \in Int
  BY TicksTypes
<1> QED
  BY <1>1, <1>2, <1>3, TicksTypes DEF Horizon, ScanAim

LEMMA BeginLandingTypes ==
  ASSUME Shapes, NEW target \in Int, NEW scan \in BOOLEAN, NEW purpose \in Purposes,
         BeginLanding(target, scan, purpose)
  PROVE  /\ landing' \in Landings /\ ctl' \in Controls /\ ctl'.pc = "landing" /\ ctl'.purpose = purpose
         /\ ctl'.retrying = ctl.retrying /\ ~landing'.found /\ landing'.best = 0
<1>1. NoLanding \in Landings /\ Horizon(target) \in Int
  BY EmptyTypes, HorizonTypes DEF Shapes
<1>2. landing' = [NoLanding EXCEPT !.target = target, !.scanning = scan, !.horizon = Horizon(target)]
      /\ ctl' = [ctl EXCEPT !.pc = "landing", !.purpose = purpose]
  BY DEF BeginLanding
<1>3. landing' \in Landings /\ ~landing'.found /\ landing'.best = 0
  BY <1>1, <1>2 DEF Landings, LandingRecords, NoLanding
<1> QED
  BY <1>2, <1>3 DEF Controls, Places, Shapes

-----------------------------------------------------------------------------
(* The type invariant: starting a request.                                  *)

\* At these places nothing more is promised.
LEMMA QuietPhase ==
  ASSUME Phases, source'.setting = source.setting, source'.seekable = source.seekable,
         source'.failures = source.failures, ctl'.pc \in {"idle", "select", "answer", "verify"}
  PROVE  Phases'
BY SameStream DEF Phases, Moving, Scanning, Arming, Seekable

LEMMA AcceptTypes ==
  ASSUME TypeInv, Accept
  PROVE  Reshapes /\ Phases'
<1>1. PICK w \in Requests : window' = Resolve(w)
  BY DEF Accept
<1>2. PICK wins \in BOOLEAN :
        ctl' = [Idle EXCEPT !.pc = IF source.interrupted THEN "recover" ELSE "start", !.forwardWins = wins]
  BY DEF Accept
<1>3. w \in Windows
  BY <1>1, StreamFacts DEF TypeInv, Shapes
<1>4. window' \in Windows /\ (window'.keyMode => Seekable)
  BY <1>1, <1>3 DEF Resolve, Windows
<1>5. Idle \in Controls /\ NoReply \in Replies
  BY EmptyTypes DEF TypeInv, Shapes
<1>6. ctl' \in Controls /\ ctl'.pc \in {"recover", "start"} /\ ~ctl'.retrying
  BY <1>2, <1>5 DEF Controls, Places, Idle
<1>7. mode' \in Modes
  BY DEF Accept, TypeInv, Shapes, Modes
<1>8. Reshapes
  BY <1>4, <1>5, <1>6, <1>7 DEF Accept, TypeInv, Shapes, Reshapes
<1>9. Phases'
  BY <1>4, <1>6, <1>8, SameStream DEF Accept, TypeInv, Phases, Moving, Scanning, Arming, Seekable, Reshapes
<1> QED
  BY <1>8, <1>9

LEMMA RecoverTypes ==
  ASSUME TypeInv, Recover
  PROVE  Reshapes /\ Phases'
<1> DEFINE f == [NoFrontier EXCEPT !.received = IF Seekable THEN NoPts ELSE frontier.received]
<1>1. f \in Frontiers
  BY EmptyTypes DEF TypeInv, Shapes, Frontiers, FrontierRecords, NoFrontier
<1>2. mode \in Modes /\ reader.verifiedTo \in Int
  BY DEF TypeInv, Shapes, Readers, ReaderRecords
<1>3. ResetPosition(f, mode, reader.verifiedTo)
  BY DEF Recover
<1>4. /\ slots' \in Slots /\ frontier' \in Frontiers /\ mode' \in Modes /\ reader' \in Readers
      /\ Indexed(keys') /\ mode'.keyframeOnly = mode.keyframeOnly
  BY <1>1, <1>2, <1>3, ResetTypes DEF TypeInv
<1>5. source' \in Sources /\ source'.setting = source.setting /\ source'.seekable = source.seekable
      /\ source'.failures = source.failures
  BY DEF Recover, TypeInv, Shapes, Sources, SourceRecords
<1>6. decoder' \in Decoders
  BY EmptyTypes DEF Recover, TypeInv, Shapes
<1>7. position' \in Positions
  BY DEF Recover, TypeInv, Shapes, Positions
<1>8. ctl' \in Controls /\ ctl'.pc = "start" /\ ctl'.retrying = ctl.retrying
  BY GoTypes DEF Recover, TypeInv, Shapes, Places
<1>9. Reshapes
  BY <1>4, <1>5, <1>6, <1>7, <1>8 DEF Recover, TypeInv, Shapes, Reshapes
<1>10. ctl.pc = "recover" /\ window' = window
  BY DEF Recover, At
<1>11. Phases'
  BY <1>5, <1>8, <1>10, SameStream DEF TypeInv, Phases, Moving, Scanning, Arming, Seekable
<1> QED
  BY <1>9, <1>11

\* Taking the mode of a request.
LEMMA BeginRequestTypes ==
  ASSUME Shapes, BeginRequest
  PROVE  mode' \in Modes /\ mode'.keyframeOnly = window.keyMode /\ mode'.eofRetried = mode.eofRetried
         /\ mode'.tailEnd = mode.tailEnd
<1>1. SkipMargin \in Int /\ NoPts \in Int
  BY HorizonTypes, TicksTypes DEF SkipMargin
<1>2. window.start \in Int /\ window.keyMode \in BOOLEAN
  BY DEF Shapes, Windows
<1> DEFINE skip == IF window.keyMode \/ ~KeyFlagsReliable THEN NoPts ELSE window.start - SkipMargin
           nearest == window.keyMode
<1>3. skip \in Int /\ nearest \in BOOLEAN /\ mode' = [mode EXCEPT !.keyframeOnly = nearest, !.skipBefore = skip]
  BY <1>1, <1>2 DEF BeginRequest
<1> HIDE DEF skip, nearest
<1>4. mode' \in Modes /\ mode'.keyframeOnly = nearest /\ mode'.eofRetried = mode.eofRetried
      /\ mode'.tailEnd = mode.tailEnd
  BY <1>3 DEF Shapes, Modes
<1> QED
  BY <1>4 DEF nearest

\* A ladder starts over.
LEMMA LadderTypes ==
  ASSUME Shapes
  PROVE  [ladder EXCEPT !.backoffs = 0, !.step = 0] \in Ladders
<1>1. 0 \in 0..MaxBackoffs /\ 0 \in Int
  BY TicksTypes
<1> QED
  BY <1>1 DEF Shapes, Ladders

LEMMA AnswerFromHeldTypes ==
  ASSUME TypeInv, AnswerFromHeld
  PROVE  Reshapes /\ Phases'
<1>1. ctl' \in Controls /\ ctl'.pc = "answer"
  <2>1. slots.held \in Frames /\ window.adjustment \in Adjustments
    BY DEF TypeInv, Shapes, Slots, Windows
  <2> QED
    BY <2>1, GoTypes DEF AnswerFromHeld, TypeInv, Shapes
<1>2. Reshapes
  BY <1>1 DEF AnswerFromHeld, TypeInv, Shapes, Reshapes
<1> QED
  BY <1>1, <1>2, QuietPhase DEF AnswerFromHeld, TypeInv, Reshapes

LEMMA PromoteTypes ==
  ASSUME TypeInv, Promote
  PROVE  Reshapes /\ Phases'
<1>1. ctl' \in Controls /\ ctl'.pc = "select"
  BY GoTypes DEF Promote, TypeInv, Shapes, Places
<1>2. slots' \in Slots
  BY FrameTypes DEF Promote, Promoted, TypeInv, Shapes, Slots
<1>3. ladder' \in Ladders
  BY LadderTypes DEF Promote, TypeInv
<1>4. Reshapes
  BY <1>1, <1>2, <1>3, BeginRequestTypes DEF Promote, TypeInv, Shapes, Reshapes
<1> QED
  BY <1>1, <1>4, QuietPhase DEF Promote, TypeInv, Reshapes

LEMMA ContinueTypes ==
  ASSUME TypeInv, Continue
  PROVE  Reshapes /\ Phases'
<1>1. ctl' \in Controls /\ ctl'.pc = "select"
  BY GoTypes DEF Continue, TypeInv, Shapes, Places
<1>2. ladder' \in Ladders
  BY LadderTypes DEF Continue, TypeInv
<1>3. Reshapes
  BY <1>1, <1>2, BeginRequestTypes DEF Continue, TypeInv, Shapes, Reshapes
<1> QED
  BY <1>1, <1>3, QuietPhase DEF Continue, TypeInv, Reshapes

LEMMA RepositionTypes ==
  ASSUME TypeInv, Reposition
  PROVE  Reshapes /\ Phases'
<1>1. ctl' \in Controls /\ ctl'.pc = "position" /\ ctl'.retrying = ctl.retrying
  BY GoTypes DEF Reposition, TypeInv, Shapes, Places
<1>2. mode' \in Modes /\ mode'.keyframeOnly = window.keyMode
  BY BeginRequestTypes DEF Reposition, TypeInv
<1>3. Reshapes
  BY <1>1, <1>2 DEF Reposition, TypeInv, Shapes, Reshapes
<1>4. ctl.pc = "start" /\ window' = window /\ source' = source
  BY DEF Reposition, Starting, At
<1> QED
  BY <1>1, <1>2, <1>3, <1>4, SameStream DEF TypeInv, Phases, Moving, Scanning, Arming, Seekable

-----------------------------------------------------------------------------
(* The type invariant: positioning.                                         *)

\* What follows a move, once the decoder is empty.
LEMMA AfterMoveTypes ==
  ASSUME Shapes, NEW seekable \in BOOLEAN, AfterMove(seekable)
  PROVE  /\ landing' \in Landings /\ ctl' \in Controls /\ ctl'.retrying = ctl.retrying
         /\ ~landing'.found /\ landing'.best = 0
         /\ \/ ctl'.pc = "landing" /\ ctl'.purpose = ctl.purpose /\ ctl.purpose \in {"start", "indexed", "scanned"}
               /\ (ctl.purpose # "start" => seekable)
            \/ ctl'.pc = "select"
            \/ ctl'.pc = "arm" /\ ctl.purpose # "select" /\ window.keyMode /\ ~ctl.retrying
<1> DEFINE scan == ~Trusted
<1>1. window.target \in Int /\ ctl.purpose \in Purposes
  BY DEF Shapes, Controls, Windows
<1>4. scan \in BOOLEAN
  OBVIOUS
<1>2. CASE ctl.purpose = "start" \/ (ctl.purpose \in {"indexed", "scanned"} /\ seekable)
  <2>1. BeginLanding(window.target, scan, ctl.purpose)
    BY <1>2 DEF AfterMove
  <2> HIDE DEF scan
  <2> QED
    BY <1>1, <1>2, <1>4, <2>1, BeginLandingTypes
<1>3. CASE ~(ctl.purpose = "start" \/ (ctl.purpose \in {"indexed", "scanned"} /\ seekable))
  <2>1. Go(IF ctl.purpose = "select" THEN "select" ELSE Positioned) /\ landing' = NoLanding
    BY <1>3 DEF AfterMove
  <2>2. NoLanding \in Landings /\ ~NoLanding.found /\ NoLanding.best = 0
    BY EmptyTypes DEF NoLanding, Shapes
  <2>3. CASE ctl.purpose = "select"
    BY <2>1, <2>2, <2>3, GoTypes DEF Shapes, Places
  <2>4. CASE ctl.purpose # "select"
    <3>1. Go(Positioned) /\ Positioned \in Places
      BY <2>1, <2>4 DEF Positioned, Places
    <3>2. ctl' \in Controls /\ ctl'.pc = Positioned /\ ctl'.retrying = ctl.retrying
      BY <3>1, GoTypes DEF Shapes
    <3> QED
      BY <2>1, <2>2, <2>4, <3>2 DEF Positioned
  <2> QED
    BY <2>3, <2>4
<1> QED
  BY <1>2, <1>3

\* The phase after a move.
LEMMA MovedPhase ==
  ASSUME TypeInv, Moving, Reshapes, AfterMove(Seekable'), window' = window,
         source'.seekable <=> (IoSeekable /\ source'.failures < MaxSeekFailures),
         mode'.keyframeOnly = mode.keyframeOnly, decoder'.buffer = {}, reader'.replay = <<>>,
         ctl.purpose = "start" => Seekable'
  PROVE  Phases'
<1>1. Seekable' \in BOOLEAN /\ ctl.purpose # "arm"
  BY DEF Reshapes, Sources, SourceRecords, Seekable, TypeInv, Phases
<1>2. /\ ctl'.retrying = ctl.retrying /\ ~landing'.found /\ landing'.best = 0
      /\ \/ ctl'.pc = "landing" /\ ctl'.purpose = ctl.purpose /\ ctl.purpose \in {"start", "indexed", "scanned"}
            /\ (ctl.purpose # "start" => Seekable')
         \/ ctl'.pc = "select"
         \/ ctl'.pc = "arm" /\ ctl.purpose # "select" /\ window.keyMode /\ ~ctl.retrying
  BY <1>1, AfterMoveTypes DEF TypeInv
<1>3. ctl.purpose # "select" /\ window.keyMode /\ ~ctl.retrying => mode.keyframeOnly
  BY DEF TypeInv, Phases
<1>4. IoSeekable' = IoSeekable /\ Times' = Times /\ StartPts' = StartPts
  BY SameStream DEF Reshapes
<1> QED
  BY <1>1, <1>2, <1>3, <1>4 DEF Phases, Moving, Scanning, Arming, Seekable, ScanTrue

LEMMA SeekToStartTypes ==
  ASSUME TypeInv, SeekToStart
  PROVE  Reshapes /\ Phases'
<1>1. AfterSeek(StartPts, TRUE) /\ source' = [source EXCEPT !.next = 1] /\ AfterMove(Seekable)
      /\ UNCHANGED <<ladder, window, reply>> /\ ctl.pc = "seek"
  BY DEF SeekToStart, At
<1>2. StartPts \in Int /\ TRUE \in BOOLEAN
  BY HorizonTypes DEF TypeInv
<1>3. /\ slots' \in Slots /\ frontier' \in Frontiers /\ mode' \in Modes /\ reader' \in Readers
      /\ Indexed(keys') /\ decoder' \in Decoders /\ position' \in Positions
      /\ reader'.replay = <<>> /\ mode'.keyframeOnly = mode.keyframeOnly /\ decoder'.buffer = {}
  BY <1>1, <1>2, AfterSeekTypes DEF TypeInv
<1>4. source' \in Sources /\ source'.setting = source.setting /\ source'.seekable = source.seekable
      /\ source'.failures = source.failures
  BY <1>1, StreamFacts DEF Sources, SourceRecords, TypeInv, Shapes, Stream
<1>5. Seekable \in BOOLEAN
  BY DEF Seekable, TypeInv, Shapes, Sources, SourceRecords
<1>6. landing' \in Landings /\ ctl' \in Controls
  BY <1>1, <1>5, AfterMoveTypes DEF TypeInv
<1>7. Reshapes
  BY <1>1, <1>3, <1>4, <1>6 DEF Reshapes, TypeInv, Shapes
<1>8. AfterMove(Seekable') /\ Seekable
  BY <1>1, <1>4 DEF Seekable, TypeInv, Phases, Moving
<1>9. source'.seekable <=> (IoSeekable /\ source'.failures < MaxSeekFailures)
  BY <1>4 DEF TypeInv, Phases
<1> QED
  BY <1>1, <1>3, <1>4, <1>7, <1>8, <1>9, MovedPhase DEF Moving, Seekable

LEMMA SeekTypes ==
  ASSUME TypeInv, Seek
  PROVE  Reshapes /\ Phases'
<1>1. AfterSeek(ctl.aim, FALSE) /\ AfterMove(Seekable)
      /\ UNCHANGED <<ladder, window, reply>> /\ ctl.pc = "seek" /\ ctl.aim > StartPts
  BY DEF Seek, At
<1>2. PICK i \in 1..(Len(Stream) + 1) : source' = [source EXCEPT !.next = i, !.failures = 0]
  BY DEF Seek
<1>3. ctl.aim \in Int /\ FALSE \in BOOLEAN
  BY DEF TypeInv, Shapes, Controls
<1>4. /\ slots' \in Slots /\ frontier' \in Frontiers /\ mode' \in Modes /\ reader' \in Readers
      /\ Indexed(keys') /\ decoder' \in Decoders /\ position' \in Positions
      /\ reader'.replay = <<>> /\ mode'.keyframeOnly = mode.keyframeOnly /\ decoder'.buffer = {}
  BY <1>1, <1>3, AfterSeekTypes DEF TypeInv
<1>5. Len(source.setting.stream) \in Nat
  BY StreamFacts DEF TypeInv, Shapes, Stream
<1>6. source' \in Sources /\ source'.setting = source.setting /\ source'.seekable = source.seekable
      /\ source'.failures = 0
  <2>1. 0 \in 0..MaxSeekFailures /\ i \in Nat /\ i \in 1..(Len(source.setting.stream) + 1)
    BY <1>5, TicksTypes DEF Stream
  <2>2. source \in SourceRecords
    BY DEF TypeInv, Shapes, Sources, SourceRecords
  <2>3. /\ source' \in SourceRecords
        /\ source'.setting = source.setting /\ source'.seekable = source.seekable
        /\ source'.failures = 0 /\ source'.next = i
    BY <1>2, <2>1, <2>2 DEF SourceRecords
  <2> QED
    BY <2>1, <2>3 DEF Sources, SourceRecords
<1>7. Seekable \in BOOLEAN
  BY DEF Seekable, TypeInv, Shapes, Sources, SourceRecords
<1>8. landing' \in Landings /\ ctl' \in Controls
  BY <1>1, <1>7, AfterMoveTypes DEF TypeInv
<1>9. Reshapes
  BY <1>1, <1>4, <1>6, <1>8 DEF Reshapes, TypeInv, Shapes
<1>10. AfterMove(Seekable') /\ Seekable
  BY <1>1, <1>6 DEF Seekable, TypeInv, Phases, Moving
<1>11. source'.seekable <=> (IoSeekable /\ source'.failures < MaxSeekFailures)
  BY <1>6, <1>10, TicksTypes DEF TypeInv, Phases, Seekable
<1> QED
  BY <1>1, <1>4, <1>6, <1>9, <1>10, <1>11, MovedPhase DEF Moving, Seekable

LEMMA SeekFailsTypes ==
  ASSUME TypeInv, SeekFails
  PROVE  Reshapes /\ Phases'
<1> DEFINE failures == IF ctl.aim > StartPts THEN source.failures + 1 ELSE source.failures
<1>1. Reopen(failures) /\ AfterMove(failures < MaxSeekFailures)
      /\ UNCHANGED <<ladder, window, reply>> /\ ctl.pc = "seek"
  BY DEF SeekFails, At
<1>2. source.failures \in 0..MaxSeekFailures /\ source.failures < MaxSeekFailures /\ IoSeekable
  BY <1>1 DEF TypeInv, Shapes, Sources, SourceRecords, Phases, Moving, Seekable
<1>3. failures \in 0..MaxSeekFailures /\ (ctl.purpose = "start" => failures < MaxSeekFailures)
  BY <1>1, <1>2, HorizonTypes, TicksTypes DEF TypeInv, Phases, Shapes, Controls
<1> HIDE DEF failures
<1>4. /\ slots' \in Slots /\ frontier' \in Frontiers /\ mode' \in Modes /\ reader' \in Readers
      /\ Indexed(keys') /\ decoder' \in Decoders /\ position' \in Positions
      /\ reader'.replay = <<>> /\ mode'.keyframeOnly = mode.keyframeOnly /\ decoder'.buffer = {}
      /\ source' \in Sources /\ source'.setting = source.setting /\ source'.failures = failures
      /\ source'.seekable = (IoSeekable /\ failures < MaxSeekFailures)
  BY <1>1, <1>3, ReopenTypes DEF TypeInv
<1>5. landing' \in Landings /\ ctl' \in Controls
  <2> DEFINE able == failures < MaxSeekFailures
  <2>1. able \in BOOLEAN /\ AfterMove(able)
    BY <1>1
  <2> HIDE DEF able
  <2> QED
    BY <2>1, AfterMoveTypes DEF TypeInv
<1>6. Reshapes
  BY <1>1, <1>4, <1>5 DEF Reshapes, TypeInv, Shapes
<1>7. Seekable' = (failures < MaxSeekFailures)
  BY <1>2, <1>4 DEF Seekable
<1>8. AfterMove(Seekable') /\ (ctl.purpose = "start" => Seekable')
  BY <1>1, <1>3, <1>7
<1> QED
  BY <1>1, <1>4, <1>6, <1>8, MovedPhase DEF Moving


LEMMA ByteSeekTypes ==
  ASSUME TypeInv, ByteSeek
  PROVE  Reshapes /\ Phases'
<1>1. /\ AfterSeek(ctl.aim, FALSE) /\ source' = [source EXCEPT !.next = PacketAt(ctl.aim)]
      /\ UNCHANGED <<ladder, window, reply>> /\ ctl.pc = "byteSeek"
  BY DEF ByteSeek, At
<1>2. ctl.aim \in Int /\ FALSE \in BOOLEAN /\ ctl.aim \in Times /\ ctl.purpose \in {"covered", "found"}
  BY <1>1 DEF TypeInv, Shapes, Controls, Phases
<1>3. /\ slots' \in Slots /\ frontier' \in Frontiers /\ mode' \in Modes /\ reader' \in Readers
      /\ Indexed(keys') /\ decoder' \in Decoders /\ position' \in Positions
      /\ reader'.replay = <<>> /\ mode'.keyframeOnly = mode.keyframeOnly /\ decoder'.buffer = {}
  BY <1>1, <1>2, AfterSeekTypes DEF TypeInv
<1>4. source' \in Sources /\ source'.setting = source.setting /\ source'.seekable = source.seekable
      /\ source'.failures = source.failures
  <2> DEFINE i == PacketAt(ctl.aim)
  <2>1. i \in 1..Len(source.setting.stream) /\ Len(source.setting.stream) \in Nat
    BY <1>2, PacketAtFacts, StreamFacts DEF TypeInv, Shapes, Stream
  <2> HIDE DEF i
  <2>2. source \in SourceRecords
    BY DEF TypeInv, Shapes, Sources, SourceRecords
  <2>3. source' = [source EXCEPT !.next = i] /\ i \in Nat /\ i \in 1..(Len(source.setting.stream) + 1)
    BY <1>1, <2>1 DEF i
  <2>4. /\ source' \in SourceRecords
        /\ source'.setting = source.setting /\ source'.seekable = source.seekable
        /\ source'.failures = source.failures /\ source'.next = i
    BY <2>2, <2>3 DEF SourceRecords
  <2> QED
    BY <2>3, <2>4 DEF Sources, SourceRecords
<1>5. /\ landing' \in Landings /\ ctl' \in Controls /\ ctl'.retrying = ctl.retrying
      /\ \/ ctl'.pc = "landing" /\ ctl'.purpose = "covered" /\ ~landing'.found /\ landing'.best = 0
         \/ ctl'.pc = Positioned
  <2>1. CASE ctl.purpose = "covered"
    <3>1. BeginLanding(window.target, FALSE, "covered") /\ "covered" \in Purposes /\ window.target \in Int
      BY <2>1 DEF ByteSeek, Purposes, TypeInv, Shapes, Windows
    <3> QED
      BY <1>2, <3>1, BeginLandingTypes DEF TypeInv
  <2>2. CASE ctl.purpose # "covered"
    <3>1. Go(Positioned) /\ landing' = NoLanding /\ Positioned \in Places
      BY <2>2 DEF ByteSeek, Positioned, Places
    <3> QED
      BY <3>1, GoTypes, EmptyTypes DEF TypeInv, Shapes
  <2> QED
    BY <2>1, <2>2
<1>6. Reshapes
  BY <1>1, <1>3, <1>4, <1>5 DEF Reshapes, TypeInv, Shapes
<1>7. Phases'
  BY <1>1, <1>2, <1>3, <1>4, <1>5, SameStream
     DEF TypeInv, Phases, Moving, Scanning, Arming, Seekable, Positioned, ScanTrue
<1> QED
  BY <1>6, <1>7

LEMMA ByteSeekFailsTypes ==
  ASSUME TypeInv, ByteSeekFails
  PROVE  Reshapes /\ Phases'
<1>1. NoFrontier \in Frontiers /\ mode \in Modes /\ reader.verifiedTo \in Int
  BY EmptyTypes DEF TypeInv, Shapes, Readers, ReaderRecords
<1>2. /\ slots' \in Slots /\ frontier' \in Frontiers /\ mode' \in Modes /\ reader' \in Readers
      /\ Indexed(keys')
  BY <1>1, ResetTypes DEF ByteSeekFails, Forget, TypeInv
<1>3. position' \in Positions
  BY DEF ByteSeekFails, TypeInv, Shapes, Positions
<1>4. ctl' \in Controls /\ reply' \in Replies /\ ctl'.pc = "idle"
  BY EndTypes DEF ByteSeekFails, Statuses, TypeInv, Shapes
<1>5. Reshapes
  BY <1>2, <1>3, <1>4 DEF ByteSeekFails, Reshapes, TypeInv, Shapes
<1> QED
  BY <1>4, <1>5, QuietPhase DEF ByteSeekFails, TypeInv

LEMMA PositionTypes ==
  ASSUME TypeInv, Position
  PROVE  Reshapes /\ Phases'
<1>1. /\ ctl.pc = "position" /\ Seekable
      /\ ladder' = [ladder EXCEPT !.backoffs = 0, !.step = 0]
      /\ UNCHANGED <<source, decoder, position, frontier, slots, mode, reader, keys, window, landing, reply>>
  BY DEF Position, At
<1>2. window.target \in Int /\ ScanAim \in Int /\ ladder.seekBias \in Int
  BY HorizonTypes DEF TypeInv, Shapes, Ladders
<1>3. ladder' \in Ladders
  BY <1>1, LadderTypes DEF TypeInv
<1>4. window.keyMode /\ ~ctl.retrying => mode.keyframeOnly
  BY <1>1 DEF TypeInv, Phases
<1>5. /\ ctl' \in Controls /\ ctl'.retrying = ctl.retrying
      /\ \/ ctl'.pc = "select"
         \/ ctl'.pc = "byteSeek" /\ ctl'.aim \in Times /\ ctl'.purpose \in {"covered", "found"}
         \/ ctl'.pc = "seek" /\ ctl'.purpose \in {"indexed", "scanned"}
  <2>1. CASE CanStay
    <3>1. Go(Positioned) /\ ~mode.keyframeOnly
      BY <2>1 DEF Position, CanStay
    <3>2. Positioned = "select" /\ "select" \in Places
      BY <1>4, <3>1 DEF Positioned, Places
    <3> QED
      BY <3>1, <3>2, GoTypes DEF TypeInv, Shapes
  <2> DEFINE key == IF Trusted THEN NoPts ELSE FindCoveringKey(keys, window.target)
             purpose == IF mode.keyframeOnly THEN "covered" ELSE "found"
             kind == IF Trusted THEN "indexed" ELSE "scanned"
             aim == IF Trusted THEN window.target - ladder.seekBias ELSE ScanAim
  <2>2. CASE ~CanStay /\ key # NoPts
    <3>1. ctl' = [ctl EXCEPT !.pc = "byteSeek", !.aim = key, !.purpose = purpose]
      BY <2>2 DEF Position
    <3>2. key \in Times /\ key \in Int
      BY <1>2, <2>2, CoveringKeyFacts, StreamFacts DEF TypeInv, Shapes
    <3>3. purpose \in {"covered", "found"}
      OBVIOUS
    <3> HIDE DEF key, purpose
    <3>4. ctl \in Controls /\ purpose \in Purposes /\ "byteSeek" \in Places
      BY <3>3 DEF TypeInv, Shapes, Purposes, Places
    <3>5. ctl' \in Controls /\ ctl'.retrying = ctl.retrying /\ ctl'.pc = "byteSeek" /\ ctl'.aim = key
          /\ ctl'.purpose = purpose
      BY <3>1, <3>2, <3>4 DEF Controls
    <3> QED
      BY <3>2, <3>3, <3>5
  <2>3. CASE ~CanStay /\ ~(key # NoPts)
    <3>1. ctl' = [ctl EXCEPT !.pc = "seek", !.round = 0, !.purpose = kind, !.aim = aim]
      BY <2>3 DEF Position
    <3>2. aim \in Int /\ kind \in {"indexed", "scanned"}
      BY <1>2
    <3> HIDE DEF aim, kind, key
    <3>4. ctl \in Controls /\ kind \in Purposes /\ "seek" \in Places
      BY <3>2 DEF TypeInv, Shapes, Purposes, Places
    <3> DEFINE moved == [ctl EXCEPT !.pc = "seek", !.aim = aim, !.purpose = kind]
    <3>6. moved \in Controls /\ moved.retrying = ctl.retrying /\ moved.pc = "seek" /\ moved.purpose = kind
      BY <3>2, <3>4 DEF Controls
    <3>7. ctl' = [moved EXCEPT !.round = 0]
      BY <3>1
    <3> HIDE DEF moved
    <3>5. ctl' \in Controls /\ ctl'.retrying = ctl.retrying /\ ctl'.pc = "seek" /\ ctl'.purpose = kind
      BY <3>6, <3>7 DEF Controls
    <3> QED
      BY <3>2, <3>5
  <2> QED
    BY <2>1, <2>2, <2>3
<1>6. Reshapes
  BY <1>1, <1>3, <1>5 DEF Reshapes, TypeInv, Shapes
<1>7. Phases'
  BY <1>1, <1>4, <1>5, SameStream DEF TypeInv, Phases, Moving, Scanning, Arming, Seekable
<1> QED
  BY <1>6, <1>7

LEMMA PositionUnseekableTypes ==
  ASSUME TypeInv, PositionUnseekable
  PROVE  Reshapes /\ Phases'
<1>1. /\ ctl.pc = "position" /\ ~Seekable
      /\ ladder' = [ladder EXCEPT !.backoffs = 0, !.step = 0]
      /\ UNCHANGED <<window, landing>>
  BY DEF PositionUnseekable, At
<1>2. ladder' \in Ladders
  BY <1>1, LadderTypes DEF TypeInv
<1>3. Positioned = "select" /\ "select" \in Places
  BY <1>1 DEF TypeInv, Phases, Positioned, Places
<1>4. CASE CanDecodeForwardTo(window.target) \/ (UndecodedLanding /\ position.atStart)
  <2>1. Go("select") /\ UNCHANGED <<source, decoder, position, frontier, slots, mode, reader, keys, reply>>
    BY <1>3, <1>4 DEF PositionUnseekable
  <2>2. ctl' \in Controls /\ ctl'.pc = "select"
    BY <1>3, <2>1, GoTypes DEF TypeInv, Shapes
  <2>3. Reshapes
    BY <1>1, <1>2, <2>1, <2>2 DEF Reshapes, TypeInv, Shapes
  <2> QED
    BY <2>1, <2>2, <2>3, QuietPhase DEF TypeInv
<1>5. CASE ~(CanDecodeForwardTo(window.target) \/ (UndecodedLanding /\ position.atStart)) /\ IoSeekable
  <2>1. Reopen(source.failures) /\ Go("select") /\ UNCHANGED reply
    BY <1>3, <1>5 DEF PositionUnseekable
  <2>2. ctl' \in Controls /\ ctl'.pc = "select"
    BY <1>3, <2>1, GoTypes DEF TypeInv, Shapes
  <2>3. source.failures \in 0..MaxSeekFailures
    BY DEF TypeInv, Shapes, Sources, SourceRecords
  <2>4. /\ slots' \in Slots /\ frontier' \in Frontiers /\ mode' \in Modes /\ reader' \in Readers
        /\ Indexed(keys') /\ decoder' \in Decoders /\ position' \in Positions
        /\ source' \in Sources /\ source'.setting = source.setting /\ source'.failures = source.failures
        /\ source'.seekable = (IoSeekable /\ source.failures < MaxSeekFailures)
    BY <2>1, <2>3, ReopenTypes DEF TypeInv
  <2>5. Reshapes
    BY <1>1, <1>2, <2>1, <2>2, <2>4 DEF Reshapes, TypeInv, Shapes
  <2>6. source'.seekable = source.seekable
    <3>1. source.seekable \in BOOLEAN /\ (source.seekable <=> (IoSeekable /\ source.failures < MaxSeekFailures))
      BY DEF TypeInv, Shapes, Sources, SourceRecords, Phases
    <3> QED
      BY <2>4, <3>1
  <2> QED
    BY <2>2, <2>4, <2>5, <2>6, QuietPhase DEF TypeInv
<1>6. CASE ~(CanDecodeForwardTo(window.target) \/ (UndecodedLanding /\ position.atStart)) /\ ~IoSeekable
  <2>1. Fail("notSeekable") /\ UNCHANGED <<source, decoder, position, frontier, slots, mode, reader, keys>>
    BY <1>6 DEF PositionUnseekable
  <2>2. ctl' \in Controls /\ reply' \in Replies /\ ctl'.pc = "idle"
    BY <2>1, EndTypes DEF Statuses, TypeInv, Shapes
  <2>3. Reshapes
    BY <1>1, <1>2, <2>1, <2>2 DEF Reshapes, TypeInv, Shapes
  <2> QED
    BY <2>1, <2>2, <2>3, QuietPhase DEF TypeInv
<1> QED
  BY <1>4, <1>5, <1>6

LEMMA BackOffTypes ==
  ASSUME TypeInv, BackOff
  PROVE  Reshapes /\ Phases'
<1> DEFINE step == IF ladder.step > 0 THEN ladder.step ELSE Max({OneSecond, keys.gopHint, 1})
           anchor == Min({window.target, IF ctl.observed # NoPts THEN ctl.observed ELSE position.seekTarget})
           retreat == anchor - step - FrameTicks(2) - ReorderTicks(keys)
           earlier == IF retreat >= position.seekTarget THEN position.seekTarget - step ELSE retreat
           spent == ladder.backoffs + 1 >= MaxBackoffs \/ earlier <= StartPts
           aim == IF spent THEN StartPts ELSE earlier
           count == Min({ladder.backoffs + 1, MaxBackoffs})
<1>1. /\ ctl.pc = "backOff"
      /\ ladder' = [ladder EXCEPT !.step = 2 * step, !.backoffs = count]
      /\ SeekThen(aim, ctl.purpose)
      /\ UNCHANGED <<source, decoder, position, frontier, slots, mode, reader, keys, window, landing, reply>>
  BY DEF BackOff, At
<1>2. /\ window.target \in Int /\ keys.gopHint \in Int /\ ReorderTicks(keys) \in Int /\ StartPts \in Int
      /\ ladder.step \in Int /\ ctl.observed \in Int /\ position.seekTarget \in Int
      /\ ladder.backoffs \in 0..MaxBackoffs /\ ctl.purpose \in Purposes
  BY HorizonTypes DEF TypeInv, Shapes, Ladders, Controls, Positions
<1>3. step \in Int
  <2>1. Max({OneSecond, keys.gopHint, 1}) \in Int
    <3> DEFINE hint == keys.gopHint
    <3>1. hint \in Int /\ OneSecond \in Int /\ 1 \in Int
      BY <1>2, TicksTypes
    <3> HIDE DEF hint
    <3>2. Max({OneSecond, hint, 1}) \in Int
      BY <3>1, MaxOfThree
    <3> QED
      BY <3>2 DEF hint
  <2> QED
    BY <1>2, <2>1
<1>4. anchor \in Int
  <2> DEFINE other == IF ctl.observed # NoPts THEN ctl.observed ELSE position.seekTarget
  <2>1. other \in Int
    BY <1>2
  <2> HIDE DEF other
  <2>2. Min({window.target, other}) \in Int
    BY <1>2, <2>1, MinOfTwo
  <2> QED
    BY <2>2 DEF other
<1>5. count \in 0..MaxBackoffs
  <2>1. MaxBackoffs \in Nat \ {0} /\ ladder.backoffs + 1 \in Int
    BY <1>2, TicksTypes
  <2>2. Min({ladder.backoffs + 1, MaxBackoffs}) =
          IF ladder.backoffs + 1 <= MaxBackoffs THEN ladder.backoffs + 1 ELSE MaxBackoffs
    BY <2>1, MinOfTwo
  <2> QED
    BY <1>2, <2>1, <2>2
<1> HIDE DEF step, anchor, count
<1>6. FrameTicks(2) \in Int
  BY TicksTypes
<1>7. aim \in Int /\ 2 * step \in Int
  BY <1>2, <1>3, <1>4, <1>6
<1> HIDE DEF aim
<1>8. ladder' \in Ladders
  BY <1>1, <1>5, <1>7 DEF TypeInv, Shapes, Ladders
<1>9. ctl' \in Controls /\ ctl'.pc = "seek" /\ ctl'.purpose = ctl.purpose /\ ctl'.retrying = ctl.retrying
  BY <1>1, <1>2, <1>7, GoTypes DEF TypeInv, Shapes
<1>10. Reshapes
  BY <1>1, <1>8, <1>9 DEF Reshapes, TypeInv, Shapes
<1>11. Phases'
  BY <1>1, <1>9, SameStream DEF TypeInv, Phases, Moving, Scanning, Arming, Seekable
<1> QED
  BY <1>10, <1>11

-----------------------------------------------------------------------------
(* The type invariant: reading packets.                                     *)

\* The parts of a source and of a reader that a step changes.
LEMMA SourceStep ==
  ASSUME Shapes, NEW i \in 1..(Len(Stream) + 1), NEW sticky \in BOOLEAN, NEW interrupted \in BOOLEAN,
         source' = [source EXCEPT !.next = i, !.sticky = sticky, !.interrupted = interrupted]
  PROVE  /\ source' \in Sources /\ source'.setting = source.setting /\ source'.seekable = source.seekable
         /\ source'.failures = source.failures /\ source'.next = i /\ source'.sticky = sticky
         /\ source'.interrupted = interrupted
<1>1. source \in SourceRecords /\ i \in Nat
  BY StreamFacts DEF Shapes, Sources
<1>2. /\ source' \in SourceRecords
      /\ source'.setting = source.setting /\ source'.seekable = source.seekable
      /\ source'.failures = source.failures /\ source'.next = i /\ source'.sticky = sticky
      /\ source'.interrupted = interrupted
  BY <1>1 DEF SourceRecords
<1> QED
  BY <1>2 DEF Sources, Stream

LEMMA SourceParts ==
  ASSUME Shapes
  PROVE  /\ source.next \in 1..(Len(Stream) + 1) /\ source.sticky \in BOOLEAN /\ source.interrupted \in BOOLEAN
         /\ source \in SourceRecords
BY DEF Shapes, Sources, SourceRecords, Stream

LEMMA ReaderStep ==
  ASSUME Shapes, NEW p \in Packets \cup {0}, NEW q \in Seq(Packets), Len(q) <= MaxGopPackets,
         NEW e \in 0..MaxErrors, NEW v \in Int,
         reader' = [reader EXCEPT !.packet = p, !.replay = q, !.errors = e, !.verifiedTo = v]
  PROVE  /\ reader' \in Readers /\ reader'.packet = p /\ reader'.replay = q /\ reader'.errors = e
         /\ reader'.verifiedTo = v
<1>1. /\ reader' \in ReaderRecords
      /\ reader'.packet = p /\ reader'.replay = q /\ reader'.errors = e /\ reader'.verifiedTo = v
  BY DEF Shapes, Readers, ReaderRecords
<1> QED
  BY <1>1 DEF Readers

LEMMA ReaderParts ==
  ASSUME Shapes
  PROVE  /\ reader.packet \in Packets \cup {0} /\ reader.replay \in Seq(Packets)
         /\ Len(reader.replay) <= MaxGopPackets /\ reader.errors \in 0..MaxErrors /\ reader.verifiedTo \in Int
         /\ reader \in ReaderRecords
BY DEF Shapes, Readers, ReaderRecords

\* The next packet there is, and what is left of the replay.
LEMMA NextPacket ==
  ASSUME Shapes, HasPacket
  PROVE  /\ Next1 \in Packets
         /\ reader.replay # <<>> => /\ Tail(reader.replay) \in Seq(Packets)
                                    /\ Len(Tail(reader.replay)) <= MaxGopPackets
         /\ reader.replay = <<>> => source.next \in Packets /\ Next1 = source.next /\ ~source.sticky
<1> DEFINE replay == reader.replay
<1>1. replay \in Seq(Packets) /\ Len(replay) <= MaxGopPackets /\ MaxGopPackets \in Nat
  BY ReaderParts, TicksTypes
<1>2. CASE replay # <<>>
  <2> HIDE DEF replay
  <2>1. Len(replay) \in Nat /\ Len(replay) # 0 /\ Head(replay) \in Packets /\ Tail(replay) \in Seq(Packets)
        /\ Len(Tail(replay)) = Len(replay) - 1
    BY <1>1, <1>2
  <2> QED
    BY <1>1, <1>2, <2>1 DEF Next1, replay
<1>3. CASE replay = <<>>
  BY <1>3 DEF HasPacket, Next1
<1> QED
  BY <1>2, <1>3

LEMMA ReadFromDemuxerTypes ==
  ASSUME Shapes, source.next \in Packets, NEW keep \in BOOLEAN, NEW ix, Indexed(ix), ReadFromDemuxer(keep, ix)
  PROVE  /\ source' \in Sources /\ source'.setting = source.setting /\ source'.seekable = source.seekable
         /\ source'.failures = source.failures /\ source'.next = source.next + 1
         /\ source'.sticky = source.sticky
         /\ reader' \in Readers /\ reader'.replay = reader.replay
         /\ reader'.packet = (IF keep THEN source.next ELSE reader.packet)
         /\ keys' = ix
<1> DEFINE i == source.next + 1
           p == IF keep THEN source.next ELSE reader.packet
           v == Max({reader.verifiedTo, Pts(source.next)})
<1>1. i \in 1..(Len(Stream) + 1)
  BY StreamFacts DEF Shapes
<1>2. v \in Int
  <2> DEFINE a == reader.verifiedTo
             b == Pts(source.next)
  <2>1. a \in Int /\ b \in Int
    BY ReaderParts, StreamFacts DEF Shapes
  <2> HIDE DEF a, b
  <2>2. Max({a, b}) \in Int
    BY <2>1, MaxOfTwo
  <2> QED
    BY <2>2 DEF a, b
<1>3. p \in Packets \cup {0} /\ 0 \in 0..MaxErrors
  BY ReaderParts, TicksTypes
<1>4. source' = [source EXCEPT !.next = i]
      /\ reader' = [reader EXCEPT !.errors = 0, !.verifiedTo = v, !.packet = p] /\ keys' = ix
  BY DEF ReadFromDemuxer
<1> HIDE DEF i, p, v
<1>5. /\ source' \in Sources /\ source'.setting = source.setting /\ source'.seekable = source.seekable
      /\ source'.failures = source.failures /\ source'.next = i /\ source'.sticky = source.sticky
  <2>1. source' = [source EXCEPT !.next = i, !.sticky = source.sticky, !.interrupted = source.interrupted]
    BY <1>4, SourceParts DEF SourceRecords
  <2> QED
    BY <1>1, <2>1, SourceStep, SourceParts
<1>6. reader' \in Readers /\ reader'.replay = reader.replay /\ reader'.packet = p
  <2>1. reader' = [reader EXCEPT !.packet = p, !.replay = reader.replay, !.errors = 0, !.verifiedTo = v]
    BY <1>4, ReaderParts DEF ReaderRecords
  <2> QED
    BY <1>2, <1>3, <2>1, ReaderStep, ReaderParts
<1> QED
  BY <1>4, <1>5, <1>6 DEF i, p

LEMMA ReadTypes ==
  ASSUME Shapes, HasPacket, NEW keep \in BOOLEAN, Read(keep)
  PROVE  /\ source' \in Sources /\ source'.setting = source.setting /\ source'.seekable = source.seekable
         /\ source'.failures = source.failures
         /\ reader' \in Readers /\ Indexed(keys')
         /\ reader.replay = <<>> => reader'.replay = <<>>
         /\ reader'.packet = (IF keep THEN Next1 ELSE reader.packet)
<1>1. CASE reader.replay # <<>>
  <2> DEFINE q == Tail(reader.replay)
             p == IF keep THEN Next1 ELSE reader.packet
  <2>1. reader' = [reader EXCEPT !.replay = q, !.packet = p] /\ UNCHANGED <<source, keys>>
    BY <1>1 DEF Read
  <2>2. q \in Seq(Packets) /\ Len(q) <= MaxGopPackets /\ p \in Packets \cup {0}
    BY <1>1, NextPacket, ReaderParts
  <2> HIDE DEF q, p
  <2>3. reader' \in Readers /\ reader'.packet = p
    <3>1. reader' = [reader EXCEPT !.packet = p, !.replay = q, !.errors = reader.errors,
                                   !.verifiedTo = reader.verifiedTo]
      BY <2>1, ReaderParts DEF ReaderRecords
    <3> QED
      BY <2>2, <3>1, ReaderStep, ReaderParts
  <2> QED
    BY <1>1, <2>1, <2>3 DEF Shapes, p
<1>2. CASE reader.replay = <<>>
  <2>1. ReadFromDemuxer(keep, NotePacket(source.next)) /\ source.next \in Packets /\ Next1 = source.next
    BY <1>2, NextPacket DEF Read
  <2>2. Indexed(NotePacket(source.next))
    BY <2>1, NotePacketFacts DEF Shapes
  <2> QED
    BY <1>2, <2>1, <2>2, ReadFromDemuxerTypes
<1> QED
  BY <1>1, <1>2

-----------------------------------------------------------------------------
(* The type invariant: landings.                                            *)

LEMMA LandingParts ==
  ASSUME Shapes
  PROVE  /\ landing \in LandingRecords /\ landing.target \in Int /\ landing.start \in Int
         /\ landing.first \in Packets \cup {0} /\ landing.best \in Packets \cup {0}
         /\ landing.buffering \in BOOLEAN /\ landing.found \in BOOLEAN /\ landing.scanning \in BOOLEAN
BY DEF Shapes, Landings, LandingRecords

\* What a packet read adds to a landing.
LEMMA BegunTypes ==
  ASSUME Shapes, NEW i \in Packets
  PROVE  /\ Begun(i) \in Landings /\ Begun(i).found = landing.found /\ Begun(i).best = landing.best
         /\ Begun(i).start \in Int /\ Begun(i).first = landing.first
<1>1. landing \in Landings /\ landing \in LandingRecords /\ Pts(i) \in Int
  BY StreamFacts DEF Shapes, Landings
<1>2. /\ [landing EXCEPT !.start = Pts(i)] \in LandingRecords
      /\ [landing EXCEPT !.start = Pts(i)].buffer = landing.buffer
      /\ [landing EXCEPT !.start = Pts(i)].found = landing.found
      /\ [landing EXCEPT !.start = Pts(i)].best = landing.best
      /\ [landing EXCEPT !.start = Pts(i)].first = landing.first
  BY <1>1 DEF LandingRecords
<1>3. [landing EXCEPT !.start = Pts(i)] \in Landings
  BY <1>1, <1>2 DEF Landings
<1>4. Begun(i) \in Landings /\ Begun(i).found = landing.found /\ Begun(i).best = landing.best
      /\ Begun(i).first = landing.first
  BY <1>1, <1>2, <1>3 DEF Begun
<1>5. Begun(i).start \in Int
  BY <1>4 DEF Landings, LandingRecords
<1> QED
  BY <1>4, <1>5

LEMMA BufferTypes ==
  ASSUME Shapes, NEW l \in Landings, NEW i \in Packets
  PROVE  Buffer(l, i) \in Landings /\ Buffer(l, i).found = l.found /\ Buffer(l, i).best = l.best
<1>1. l \in LandingRecords /\ Len(l.buffer) <= MaxGopPackets /\ MaxGopPackets \in Nat /\ l.buffer \in Seq(Packets)
  BY TicksTypes DEF Landings, LandingRecords
<1>2. CASE Len(l.buffer) >= MaxGopPackets
  <2>1. <<>> \in Seq(Packets) /\ Len(<<>>) = 0
    OBVIOUS
  <2>2. /\ Buffer(l, i) \in LandingRecords /\ Buffer(l, i).found = l.found /\ Buffer(l, i).best = l.best
        /\ Buffer(l, i).buffer = <<>>
    BY <1>1, <1>2, <2>1 DEF Buffer, LandingRecords
  <2> QED
    BY <1>1, <2>1, <2>2 DEF Landings
<1>3. CASE ~(Len(l.buffer) >= MaxGopPackets)
  <2> DEFINE old == l.buffer
             b == Append(old, i)
  <2>1. old \in Seq(Packets) /\ Len(old) \in Nat
    BY <1>1
  <2>2. b \in Seq(Packets) /\ Len(b) = Len(old) + 1
    <3> HIDE DEF old
    <3> QED
      BY <2>1
  <2>3. Buffer(l, i) = [l EXCEPT !.buffer = b]
    BY <1>3 DEF Buffer
  <2>4. Len(b) <= MaxGopPackets
    BY <1>1, <1>3, <2>1, <2>2
  <2> HIDE DEF b
  <2>5. /\ Buffer(l, i) \in LandingRecords /\ Buffer(l, i).found = l.found /\ Buffer(l, i).best = l.best
        /\ Buffer(l, i).buffer = b
    BY <1>1, <2>2, <2>3 DEF LandingRecords
  <2> QED
    BY <2>4, <2>5 DEF Landings
<1> QED
  BY <1>2, <1>3

LEMMA LandedTypes ==
  ASSUME Shapes, NEW l \in Landings, Landed(l)
  PROVE  landing' \in Landings /\ landing'.found = l.found /\ landing'.best = l.best
         /\ ctl' \in Controls /\ ctl'.pc = "landed" /\ ctl'.purpose = ctl.purpose
         /\ ctl'.retrying = ctl.retrying /\ ctl'.cut = ctl.cut
<1>1. l \in LandingRecords
  BY DEF Landings
<1>2. /\ landing' \in LandingRecords /\ landing'.found = l.found /\ landing'.best = l.best
      /\ landing'.buffer = l.buffer
  BY <1>1 DEF Landed, LandingRecords
<1>3. landing' \in Landings
  BY <1>2 DEF Landings
<1>4. "landed" \in Places /\ Go("landed") /\ ctl \in Controls
  BY DEF Places, Landed, Shapes
<1> QED
  BY <1>2, <1>3, <1>4, GoTypes

\* The index after a packet of a landing.
LEMMA LandingIndexTypes ==
  ASSUME Shapes, NEW i \in Packets
  PROVE  Indexed(LandingIndex(i)) /\ LandingIndex(i).contiguous = NotePacket(i).contiguous
         /\ LandingIndex(i).next = NotePacket(i).next
<1> DEFINE noted == NotePacket(i)
           begun == Begun(i).start
           pts == Pts(i)
<1>1. Indexed(noted) /\ begun \in Int /\ pts \in Int
  BY NotePacketFacts, BegunTypes, StreamFacts DEF Shapes
<1>2. LandingIndex(i) = IF landing.first = 0 /\ IsKey(i) THEN NoteKeyframeSpan(noted, begun, pts) ELSE noted
  BY DEF LandingIndex
<1> HIDE DEF noted, begun, pts
<1>3. Indexed(NoteKeyframeSpan(noted, begun, pts)) /\ NoteKeyframeSpan(noted, begun, pts).next = noted.next
      /\ NoteKeyframeSpan(noted, begun, pts).contiguous = noted.contiguous
  BY <1>1, IndexNotes
<1> QED
  BY <1>1, <1>2, <1>3 DEF noted

\* Reading on, or being done with it.
LEMMA LandingPhase ==
  ASSUME TypeInv, Scanning, ctl'.pc \in {"landing", "landed"}, ctl'.purpose = ctl.purpose,
         ctl'.retrying = ctl.retrying, source'.setting = source.setting, source'.seekable = source.seekable,
         source'.failures = source.failures,
         UNCHANGED <<decoder, mode, window>>,
         ctl'.pc = "landing" => reader'.replay = <<>> /\ ~landing'.found /\ ScanTrue',
         ctl'.pc = "landed" /\ landing'.found /\ mode.keyframeOnly => reader'.packet # 0
  PROVE  Phases'
BY SameStream DEF TypeInv, Phases, Moving, Scanning, Arming, Seekable

LEMMA LandOnAnythingTypes ==
  ASSUME TypeInv, LandOnAnything
  PROVE  Reshapes /\ Phases'
<1>1. /\ ctl.pc = "landing" /\ HasPacket /\ Read(TRUE) /\ TRUE \in BOOLEAN
      /\ Landed([landing EXCEPT !.found = TRUE])
      /\ UNCHANGED <<decoder, position, frontier, slots, mode, ladder, window, reply>>
  BY DEF LandOnAnything, At, LandingUnchanged
<1>2. /\ source' \in Sources /\ source'.setting = source.setting /\ source'.seekable = source.seekable
      /\ source'.failures = source.failures /\ reader' \in Readers /\ Indexed(keys')
      /\ reader'.packet = Next1 /\ Next1 \in Packets
  BY <1>1, ReadTypes, NextPacket DEF TypeInv
<1>3. [landing EXCEPT !.found = TRUE] \in Landings
  BY DEF TypeInv, Shapes, Landings, LandingRecords
<1>4. /\ landing' \in Landings /\ ctl' \in Controls /\ ctl'.pc = "landed" /\ ctl'.purpose = ctl.purpose
      /\ ctl'.retrying = ctl.retrying
  BY <1>1, <1>3, LandedTypes DEF TypeInv
<1>5. Reshapes
  BY <1>1, <1>2, <1>4 DEF Reshapes, TypeInv, Shapes
<1>6. reader'.packet # 0
  BY <1>2, StreamFacts DEF TypeInv, Shapes
<1> QED
  BY <1>1, <1>2, <1>4, <1>5, <1>6, LandingPhase DEF Scanning

LEMMA LandOnNonKeyTypes ==
  ASSUME TypeInv, LandOnNonKey
  PROVE  Reshapes /\ Phases'
<1> DEFINE l == IF landing.buffering THEN Buffer(Begun(Next1), Next1) ELSE Begun(Next1)
<1>1. /\ ctl.pc = "landing" /\ HasPacket /\ ~IsKey(Next1) /\ Read(FALSE) /\ FALSE \in BOOLEAN
      /\ Landed(l) \/ (landing' = l /\ ctl' = ctl)
      /\ UNCHANGED <<decoder, position, frontier, slots, mode, ladder, window, reply>>
  BY DEF LandOnNonKey, At, LandingUnchanged
<1>2. reader.replay = <<>> /\ ~landing.found
  BY <1>1 DEF TypeInv, Phases
<1>3. /\ source' \in Sources /\ source'.setting = source.setting /\ source'.seekable = source.seekable
      /\ source'.failures = source.failures /\ reader' \in Readers /\ Indexed(keys')
      /\ reader'.replay = <<>> /\ Next1 \in Packets
  BY <1>1, <1>2, ReadTypes, NextPacket DEF TypeInv
<1>4. l \in Landings /\ l.found = landing.found /\ l.best = landing.best
  BY <1>3, BegunTypes, BufferTypes DEF TypeInv
<1> HIDE DEF l
<1>5. /\ landing' \in Landings /\ ctl' \in Controls /\ ctl'.pc \in {"landing", "landed"}
      /\ ctl'.purpose = ctl.purpose /\ ctl'.retrying = ctl.retrying /\ ~landing'.found
      /\ landing'.best = landing.best
  BY <1>1, <1>2, <1>4, LandedTypes DEF TypeInv, Shapes
<1>6. Reshapes
  BY <1>1, <1>3, <1>5 DEF Reshapes, TypeInv, Shapes
<1>7. ScanTrue'
  <2>1. Read(FALSE) /\ reader.replay = <<>> /\ Next1 = source.next /\ source.next \in Packets
    BY <1>1, <1>2, NextPacket DEF TypeInv
  <2>2. source'.next = source.next + 1 /\ source'.sticky = source.sticky
    <3>1. ReadFromDemuxer(FALSE, NotePacket(source.next)) /\ Indexed(NotePacket(source.next))
      BY <2>1, NotePacketFacts DEF Read, TypeInv, Shapes
    <3> QED
      BY <1>1, <2>1, <3>1, ReadFromDemuxerTypes DEF TypeInv
  <2>3. ScanTrue /\ (landing.best # 0 => landing.best \in Packets) /\ Packets \subseteq Int /\ ~IsKey(source.next)
    BY <1>1, <2>1, LandingParts, StreamFacts DEF TypeInv, Shapes, Phases
  <2>4. source.setting = source'.setting
    BY <1>3
  <2>5. \A j \in Packets : IsKey(j) /\ source.next <= j => source.next + 1 <= j
    <3>1. SUFFICES ASSUME NEW j \in Packets, IsKey(j), source.next <= j PROVE source.next + 1 <= j
      OBVIOUS
    <3>2. j # source.next /\ j \in Int /\ source.next \in Int
      BY <2>1, <2>3, <3>1
    <3> QED
      BY <3>1, <3>2
  <2> QED
    BY <1>5, <2>1, <2>2, <2>3, <2>4, <2>5, SameReads DEF ScanTrue, IsKey, Stream, Packets
<1> QED
  BY <1>1, <1>3, <1>5, <1>6, <1>7, LandingPhase DEF Scanning

LEMMA LandPastTargetTypes ==
  ASSUME TypeInv, LandPastTarget
  PROVE  Reshapes /\ Phases'
<1> DEFINE k == IF landing.first = 0 THEN [landing EXCEPT !.first = Next1] ELSE landing
           l == IF landing.buffering THEN Buffer(k, Next1) ELSE k
<1>1. /\ ctl.pc = "landing" /\ HasPacket /\ ReadFromDemuxer(FALSE, LandingIndex(Next1)) /\ FALSE \in BOOLEAN
      /\ Landed(l)
      /\ UNCHANGED <<decoder, position, frontier, slots, mode, ladder, window, reply>>
  BY DEF LandPastTarget, At, LandingUnchanged
<1>2. reader.replay = <<>> /\ ~landing.found
  BY <1>1 DEF TypeInv, Phases
<1>3. Next1 \in Packets /\ source.next \in Packets /\ Next1 = source.next
  BY <1>1, <1>2, NextPacket DEF TypeInv
<1>4. Indexed(LandingIndex(Next1))
  BY <1>3, LandingIndexTypes DEF TypeInv
<1>5. /\ source' \in Sources /\ source'.setting = source.setting /\ source'.seekable = source.seekable
      /\ source'.failures = source.failures /\ reader' \in Readers /\ Indexed(keys')
  BY <1>1, <1>3, <1>4, ReadFromDemuxerTypes DEF TypeInv
<1>6. k \in Landings /\ k.found = landing.found
  <2>1. landing \in LandingRecords /\ landing \in Landings
    BY DEF TypeInv, Shapes, Landings
  <2>2. /\ [landing EXCEPT !.first = Next1] \in LandingRecords
        /\ [landing EXCEPT !.first = Next1].buffer = landing.buffer
        /\ [landing EXCEPT !.first = Next1].found = landing.found
    BY <1>3, <2>1 DEF LandingRecords
  <2> QED
    BY <2>1, <2>2 DEF Landings
<1> HIDE DEF k
<1>7. l \in Landings /\ l.found = landing.found
  BY <1>3, <1>6, BufferTypes DEF TypeInv
<1> HIDE DEF l
<1>8. /\ landing' \in Landings /\ ctl' \in Controls /\ ctl'.pc = "landed"
      /\ ctl'.purpose = ctl.purpose /\ ctl'.retrying = ctl.retrying /\ ~landing'.found
  BY <1>1, <1>2, <1>7, LandedTypes DEF TypeInv, Shapes
<1>9. Reshapes
  BY <1>1, <1>5, <1>8 DEF Reshapes, TypeInv, Shapes
<1> QED
  BY <1>1, <1>5, <1>8, <1>9, LandingPhase DEF Scanning

LEMMA LandOnKeyTypes ==
  ASSUME TypeInv, LandOnKey
  PROVE  Reshapes /\ Phases'
<1> DEFINE i == Next1
           covers == ~landing.scanning /\ ~HasKeyBetween(NotePacket(i), Pts(i), landing.target)
           l == IF landing.first = 0 THEN [Begun(i) EXCEPT !.first = i] ELSE landing
           buffering == ~mode.keyframeOnly
           kept == IF mode.keyframeOnly THEN <<>> ELSE <<i>>
<1>1. /\ ctl.pc = "landing" /\ HasPacket /\ ReadFromDemuxer(covers, LandingIndex(i)) /\ covers \in BOOLEAN
      /\ IsKey(i)
      /\ IF covers THEN Landed([l EXCEPT !.found = TRUE])
         ELSE /\ landing' = [l EXCEPT !.scanning = TRUE, !.best = i, !.buffering = buffering, !.buffer = kept]
              /\ ctl' = ctl
      /\ UNCHANGED <<decoder, position, frontier, slots, mode, ladder, window, reply>>
  BY DEF LandOnKey, At, LandingUnchanged
<1>2. reader.replay = <<>> /\ ~landing.found
  BY <1>1 DEF TypeInv, Phases
<1>3. i \in Packets /\ source.next \in Packets /\ i = source.next /\ i # 0 /\ ~source.sticky /\ i \in Int
  BY <1>1, <1>2, NextPacket, StreamFacts DEF TypeInv, Shapes
<1>4. Indexed(LandingIndex(i))
  BY <1>3, LandingIndexTypes DEF TypeInv
<1> HIDE DEF covers, i
<1>5. /\ source' \in Sources /\ source'.setting = source.setting /\ source'.seekable = source.seekable
      /\ source'.failures = source.failures /\ reader' \in Readers /\ Indexed(keys')
      /\ reader'.replay = <<>> /\ (covers => reader'.packet = i)
      /\ source'.next = i + 1 /\ source'.sticky = source.sticky
  BY <1>1, <1>2, <1>3, <1>4, ReadFromDemuxerTypes DEF TypeInv
<1>6. l \in Landings /\ l.found = landing.found
  <2>1. landing \in Landings /\ Begun(i) \in Landings /\ Begun(i).found = landing.found
    BY <1>3, BegunTypes DEF TypeInv, Shapes
  <2> DEFINE begun == Begun(i)
  <2>2. begun \in LandingRecords /\ Len(begun.buffer) <= MaxGopPackets
    BY <2>1 DEF Landings
  <2> HIDE DEF begun
  <2>3. /\ [begun EXCEPT !.first = i] \in LandingRecords
        /\ [begun EXCEPT !.first = i].buffer = begun.buffer
        /\ [begun EXCEPT !.first = i].found = begun.found
    BY <1>3, <2>2 DEF LandingRecords
  <2>4. [begun EXCEPT !.first = i] \in Landings
    BY <2>2, <2>3 DEF Landings
  <2> QED
    BY <2>1, <2>3, <2>4 DEF begun
<1>7. buffering \in BOOLEAN /\ kept \in Seq(Packets) /\ Len(kept) <= MaxGopPackets
  <2>1. mode.keyframeOnly \in BOOLEAN /\ MaxGopPackets \in Nat \ {0}
    BY TicksTypes DEF TypeInv, Shapes, Modes
  <2>2. <<i>> \in Seq(Packets) /\ Len(<<i>>) = 1 /\ <<>> \in Seq(Packets) /\ Len(<<>>) = 0
    BY <1>3
  <2> QED
    BY <2>1, <2>2
<1> HIDE DEF l, buffering, kept
<1>8. l \in LandingRecords /\ Len(l.buffer) <= MaxGopPackets
  BY <1>6 DEF Landings
<1>9. /\ landing' \in Landings /\ ctl' \in Controls /\ ctl'.pc \in {"landing", "landed"}
      /\ ctl'.purpose = ctl.purpose /\ ctl'.retrying = ctl.retrying
      /\ (~covers => ~landing'.found) /\ (covers => ctl'.pc = "landed")
      /\ (~covers => ctl'.pc = "landing" /\ landing'.best = i)
  <2>1. CASE covers
    <3>1. [l EXCEPT !.found = TRUE] \in LandingRecords /\ [l EXCEPT !.found = TRUE].buffer = l.buffer
      BY <1>8 DEF LandingRecords
    <3>2. [l EXCEPT !.found = TRUE] \in Landings
      BY <1>8, <3>1 DEF Landings
    <3>3. Landed([l EXCEPT !.found = TRUE])
      BY <1>1, <2>1
    <3> QED
      BY <2>1, <3>2, <3>3, LandedTypes DEF TypeInv
  <2>2. CASE ~covers
    <3> DEFINE m == [l EXCEPT !.scanning = TRUE, !.best = i, !.buffering = buffering]
    <3>1. m \in LandingRecords /\ m.found = l.found /\ m.best = i
      BY <1>3, <1>7, <1>8 DEF LandingRecords
    <3>2. landing' = [m EXCEPT !.buffer = kept]
      BY <1>1, <2>2
    <3> HIDE DEF m
    <3>3. /\ landing' \in LandingRecords /\ landing'.found = m.found /\ landing'.buffer = kept
          /\ landing'.best = m.best
      BY <1>7, <3>1, <3>2 DEF LandingRecords
    <3>4. landing' \in Landings
      BY <1>7, <3>3 DEF Landings
    <3> QED
      BY <1>1, <1>2, <1>6, <2>2, <3>1, <3>3, <3>4 DEF TypeInv, Shapes
  <2> QED
    BY <2>1, <2>2
<1>10. Reshapes
  BY <1>1, <1>5, <1>9 DEF Reshapes, TypeInv, Shapes
<1>11. ctl'.pc = "landing" => ScanTrue'
  <2>1. SUFFICES ASSUME ctl'.pc = "landing" PROVE ScanTrue'
    OBVIOUS
  <2>2. landing'.best = i /\ IsKey(i) /\ Packets \subseteq Int /\ source'.setting = source.setting
    BY <1>1, <1>3, <1>5, <1>9, <2>1, StreamFacts DEF TypeInv, Shapes
  <2>3. \A j \in Packets : i < j => i + 1 <= j
    BY <1>3, <2>2
  <2> QED
    BY <1>3, <1>5, <2>2, <2>3 DEF ScanTrue, IsKey, Stream, Packets
<1> QED
  BY <1>1, <1>3, <1>5, <1>9, <1>10, <1>11, LandingPhase DEF Scanning

LEMMA LandAtEndTypes ==
  ASSUME TypeInv, LandAtEnd
  PROVE  Reshapes /\ Phases'
<1>1. /\ ctl.pc = "landing" /\ Landed(landing)
      /\ keys' = IF landing.best = 0 THEN keys ELSE NoteStreamEndedInGop(keys, Pts(landing.best))
      /\ UNCHANGED <<source, reader>>
      /\ UNCHANGED <<decoder, position, frontier, slots, mode, ladder, window, reply>>
  BY DEF LandAtEnd, At, LandingUnchanged
<1>2. ~landing.found /\ landing \in Landings
  BY <1>1 DEF TypeInv, Phases, Shapes
<1>3. Indexed(keys')
  <2>1. CASE landing.best = 0
    BY <1>1, <2>1 DEF TypeInv, Shapes
  <2>2. CASE landing.best # 0
    <3> DEFINE pts == Pts(landing.best)
    <3>1. pts \in Int /\ Indexed(keys)
      BY <2>2, LandingParts, StreamFacts DEF TypeInv, Shapes
    <3> HIDE DEF pts
    <3>2. Indexed(NoteStreamEndedInGop(keys, pts))
      BY <3>1, IndexNotes
    <3> QED
      BY <1>1, <2>2, <3>2 DEF pts
  <2> QED
    BY <2>1, <2>2
<1>4. /\ landing' \in Landings /\ ctl' \in Controls /\ ctl'.pc = "landed"
      /\ ctl'.purpose = ctl.purpose /\ ctl'.retrying = ctl.retrying /\ ~landing'.found
  BY <1>1, <1>2, LandedTypes DEF TypeInv
<1>5. Reshapes
  BY <1>1, <1>3, <1>4 DEF Reshapes, TypeInv, Shapes
<1> QED
  BY <1>1, <1>4, <1>5, LandingPhase DEF Scanning

\* A landing that is settled.
LEMMA SettledTypes ==
  ASSUME Shapes, landing' = [landing EXCEPT !.found = TRUE, !.best = 0]
  PROVE  landing' \in Landings /\ landing'.found /\ landing'.best = 0
<1>1. landing \in LandingRecords /\ Len(landing.buffer) <= MaxGopPackets /\ 0 \in Packets \cup {0}
  BY DEF Shapes, Landings
<1>2. landing' \in LandingRecords /\ landing'.found /\ landing'.best = 0 /\ landing'.buffer = landing.buffer
  BY <1>1 DEF LandingRecords
<1> QED
  BY <1>1, <1>2 DEF Landings

LEMMA SettleOnParkedTypes ==
  ASSUME TypeInv, SettleOnParked
  PROVE  Reshapes /\ Phases'
<1>1. /\ ctl.pc = "landed" /\ landing.best # 0 /\ reader' = [reader EXCEPT !.packet = landing.best]
      /\ landing' = [landing EXCEPT !.found = TRUE, !.best = 0]
      /\ UNCHANGED <<source, decoder, position, frontier, slots, mode, keys, ladder, window, ctl, reply>>
  BY DEF SettleOnParked, At
<1>2. reader' \in Readers /\ reader'.packet = landing.best
  <2> DEFINE p == landing.best
  <2>1. p \in Packets \cup {0}
    BY LandingParts DEF TypeInv
  <2> HIDE DEF p
  <2>2. reader' = [reader EXCEPT !.packet = p, !.replay = reader.replay, !.errors = reader.errors,
                                 !.verifiedTo = reader.verifiedTo]
    BY <1>1, ReaderParts DEF ReaderRecords, TypeInv, p
  <2> QED
    BY <2>1, <2>2, ReaderStep, ReaderParts DEF TypeInv, p
<1>3. landing' \in Landings
  BY <1>1, SettledTypes DEF TypeInv
<1>4. Reshapes
  BY <1>1, <1>2, <1>3 DEF Reshapes, TypeInv, Shapes
<1> QED
  BY <1>1, <1>2, <1>4, LandingPhase DEF Scanning

LEMMA SettleOnReplayTypes ==
  ASSUME TypeInv, SettleOnReplay
  PROVE  Reshapes /\ Phases'
<1>1. /\ ctl.pc = "landed" /\ ~mode.keyframeOnly /\ reader' = [reader EXCEPT !.replay = landing.buffer]
      /\ position' = [position EXCEPT !.awaitingKey = TRUE]
      /\ landing' = [landing EXCEPT !.found = TRUE, !.best = 0]
      /\ UNCHANGED <<source, decoder, frontier, slots, mode, keys, ladder, window, ctl, reply>>
  BY DEF SettleOnReplay, At
<1>2. reader' \in Readers
  <2> DEFINE q == landing.buffer
  <2>1. q \in Seq(Packets) /\ Len(q) <= MaxGopPackets
    BY DEF TypeInv, Shapes, Landings, LandingRecords
  <2> HIDE DEF q
  <2>2. reader' = [reader EXCEPT !.packet = reader.packet, !.replay = q, !.errors = reader.errors,
                                 !.verifiedTo = reader.verifiedTo]
    BY <1>1, ReaderParts DEF ReaderRecords, TypeInv, q
  <2> QED
    BY <2>1, <2>2, ReaderStep, ReaderParts DEF TypeInv
<1>3. landing' \in Landings
  BY <1>1, SettledTypes DEF TypeInv
<1>4. position' \in Positions
  BY <1>1 DEF TypeInv, Shapes, Positions
<1>5. Reshapes
  BY <1>1, <1>2, <1>3, <1>4 DEF Reshapes, TypeInv, Shapes
<1> QED
  BY <1>1, <1>5, LandingPhase DEF Scanning

LEMMA SettleByRewindingTypes ==
  ASSUME TypeInv, SettleByRewinding
  PROVE  Reshapes /\ Phases'
<1> DEFINE pts == Pts(landing.best)
           pc == IF Trusted THEN "seek" ELSE "byteSeek"
           aim == IF Trusted THEN pts - ReorderTicks(keys) ELSE pts
<1>1. /\ ctl.pc = "landed" /\ landing.best # 0 /\ ~mode.keyframeOnly
      /\ ctl' = [ctl EXCEPT !.purpose = "found", !.pc = pc, !.aim = aim]
      /\ landing' = NoLanding
      /\ UNCHANGED <<source, decoder, position, frontier, slots, mode, reader, keys, ladder, window, reply>>
  BY DEF SettleByRewinding, At
<1>2. pts \in Times /\ pts \in Int /\ ReorderTicks(keys) \in Int
  BY <1>1, LandingParts, StreamFacts, IndexNotes DEF TypeInv, Shapes
<1> HIDE DEF pts
<1>3. aim \in Int /\ pc \in {"seek", "byteSeek"} /\ (pc = "byteSeek" => aim \in Times)
  BY <1>2
<1> HIDE DEF pc, aim
<1>4. /\ ctl' \in Controls /\ ctl'.retrying = ctl.retrying /\ ctl'.pc = pc /\ ctl'.aim = aim
      /\ ctl'.purpose = "found"
  <2>1. ctl \in Controls /\ pc \in Places /\ "found" \in Purposes
    BY <1>3 DEF TypeInv, Shapes, Places, Purposes
  <2> QED
    BY <1>1, <1>3, <2>1 DEF Controls
<1>5. landing' \in Landings
  BY <1>1, EmptyTypes DEF TypeInv, Shapes
<1>6. Reshapes
  BY <1>1, <1>4, <1>5 DEF Reshapes, TypeInv, Shapes
<1>7. Phases'
  BY <1>1, <1>3, <1>4, SameStream DEF TypeInv, Phases, Moving, Scanning, Arming, Seekable
<1> QED
  BY <1>6, <1>7

LEMMA RetryAfterOvershootTypes ==
  ASSUME TypeInv, landing.first # 0, RetryAfterOvershoot
  PROVE  /\ ladder' \in Ladders /\ ctl' \in Controls /\ ctl'.pc = "seek" /\ ctl'.retrying = ctl.retrying
         /\ \/ ctl'.purpose = "start" /\ ctl'.aim <= StartPts
            \/ ctl'.purpose = "indexed"
<1> DEFINE first == landing.first
           reorder == ReorderTicks(keys)
           delay == IF Pts(first) > Stream[first].dts THEN Pts(first) - Stream[first].dts ELSE reorder
           spent == ctl.round >= MaxRounds \/ ladder.backoffs >= MaxBackoffs
           unshifted == reorder > 0 /\ Stream[first].dts > window.target - reorder /\ ladder.seekBias = 0
           gop == Max({OneSecond, keys.gopHint, 1})
           bias == IF unshifted THEN reorder ELSE ladder.seekBias
           backoffs == IF spent THEN ladder.backoffs ELSE ladder.backoffs + 1
           round == Min({ctl.round + 1, MaxRounds})
           purpose == IF spent THEN "start" ELSE "indexed"
           aim == IF spent THEN StartPts ELSE Pts(first) - 1 - delay - gop * ctl.round
<1>1. /\ ladder' = [ladder EXCEPT !.seekBias = bias, !.backoffs = backoffs]
      /\ ctl' = [ctl EXCEPT !.pc = "seek", !.round = round, !.purpose = purpose, !.aim = aim]
  BY DEF RetryAfterOvershoot
<1>2. /\ first \in Packets /\ reorder \in Int /\ Pts(first) \in Int /\ Stream[first].dts \in Int
      /\ ladder.seekBias \in Int /\ ladder.backoffs \in 0..MaxBackoffs /\ ctl.round \in Int
      /\ keys.gopHint \in Int /\ StartPts \in Int
  BY LandingParts, StreamFacts, HorizonTypes DEF TypeInv, Shapes, Ladders, Controls
<1>3. gop \in Int
  <2> DEFINE hint == keys.gopHint
  <2>1. hint \in Int /\ OneSecond \in Int /\ 1 \in Int
    BY <1>2, TicksTypes
  <2> HIDE DEF hint
  <2>2. Max({OneSecond, hint, 1}) \in Int
    BY <2>1, MaxOfThree
  <2> QED
    BY <2>2 DEF hint
<1>4. round \in Int
  <2> DEFINE a == ctl.round + 1
  <2>1. a \in Int /\ MaxRounds \in Int
    BY <1>2, TicksTypes
  <2> HIDE DEF a
  <2>2. Min({a, MaxRounds}) \in Int
    BY <2>1, MinOfTwo
  <2> QED
    BY <2>2 DEF a
<1>5. delay \in Int /\ gop * ctl.round \in Int
  BY <1>2, <1>3
<1>6. bias \in Int /\ backoffs \in 0..MaxBackoffs
  BY <1>2, TicksTypes
<1>7. aim \in Int /\ purpose \in {"start", "indexed"} /\ (purpose = "start" => aim <= StartPts)
  <2>1. Pts(first) - 1 - delay - gop * ctl.round \in Int
    BY <1>2, <1>5
  <2>2. CASE spent
    BY <1>2, <2>2
  <2>3. CASE ~spent
    BY <2>1, <2>3
  <2> QED
    BY <2>2, <2>3
<1> HIDE DEF bias, backoffs, round, purpose, aim
<1>8. ladder' \in Ladders
  BY <1>1, <1>6 DEF TypeInv, Shapes, Ladders
<1> DEFINE moved == [ctl EXCEPT !.pc = "seek", !.aim = aim, !.purpose = purpose]
<1>9. /\ moved \in Controls /\ moved.retrying = ctl.retrying /\ moved.pc = "seek" /\ moved.purpose = purpose
      /\ moved.aim = aim
  <2>1. ctl \in Controls /\ "seek" \in Places /\ purpose \in Purposes
    BY <1>7 DEF TypeInv, Shapes, Places, Purposes
  <2> QED
    BY <1>7, <2>1 DEF Controls
<1>10. ctl' = [moved EXCEPT !.round = round]
  BY <1>1
<1> HIDE DEF moved
<1>11. /\ ctl' \in Controls /\ ctl'.retrying = ctl.retrying /\ ctl'.pc = "seek" /\ ctl'.purpose = purpose
       /\ ctl'.aim = aim
  BY <1>4, <1>9, <1>10 DEF Controls
<1> QED
  BY <1>7, <1>8, <1>11

LEMMA RetreatTypes ==
  ASSUME Shapes, NEW observed \in Int, Retreat(observed)
  PROVE  ctl' \in Controls /\ ctl'.pc = "backOff" /\ ctl'.purpose = ctl.purpose /\ ctl'.retrying = ctl.retrying
<1> DEFINE a == ctl.round + 1
           round == Min({a, MaxRounds})
<1>1. a \in Int /\ MaxRounds \in Int
  BY TicksTypes DEF Shapes, Controls
<1> HIDE DEF a
<1>2. round \in Int
  BY <1>1, MinOfTwo
<1>3. ctl' = [ctl EXCEPT !.pc = "backOff", !.observed = observed, !.round = round]
  BY DEF Retreat, a
<1> HIDE DEF round
<1>4. "backOff" \in Places /\ ctl \in Controls
  BY DEF Places, Shapes
<1> QED
  BY <1>2, <1>3, <1>4 DEF Controls

LEMMA AfterLandingTypes ==
  ASSUME TypeInv, AfterLanding
  PROVE  Reshapes /\ Phases'
<1> DEFINE settled == landing.found \/ position.atStart \/ ~KeyFlagsReliable
           observed == IF landing.first = 0 THEN NoPts ELSE Pts(landing.first)
<1>1. /\ ctl.pc = "landed" /\ landing' = NoLanding
      /\ UNCHANGED <<source, decoder, position, frontier, slots, mode, reader, keys, window, reply>>
      /\ \/ ctl.purpose = "arm" /\ Go(IF landing.found THEN "feedKey" ELSE "select") /\ UNCHANGED ladder
         \/ ctl.purpose = "start" /\ Go(Positioned) /\ UNCHANGED ladder
         \/ ctl.purpose = "covered" /\ UNCHANGED ladder
            /\ IF landing.found THEN Go(Positioned) ELSE SeekThen(ScanAim, "scanned")
         \/ ctl.purpose \in {"indexed", "scanned"} /\ settled /\ Go(Positioned) /\ UNCHANGED ladder
         \/ ctl.purpose = "indexed" /\ ~settled /\ observed # NoPts /\ RetryAfterOvershoot
         \/ /\ ctl.purpose \in {"indexed", "scanned"} /\ ~settled
            /\ ctl.purpose = "scanned" \/ observed = NoPts
            /\ Retreat(observed) /\ UNCHANGED ladder
  BY DEF AfterLanding, At
<1>2. observed \in Int /\ ScanAim \in Int /\ window.target \in Int
  <2>1. ScanAim \in Int /\ window.target \in Int /\ NoPts \in Int
    BY HorizonTypes, TicksTypes DEF TypeInv, Shapes, Windows
  <2>2. landing.first # 0 => Pts(landing.first) \in Int
    BY LandingParts, StreamFacts DEF TypeInv, Shapes
  <2> QED
    BY <2>1, <2>2
<1> HIDE DEF settled
<1>3. /\ ctl' \in Controls /\ ladder' \in Ladders
      /\ \/ ctl'.pc = "feedKey" /\ ctl.purpose = "arm" /\ landing.found
         \/ ctl'.pc = "select"
         \/ ctl'.pc = "arm" /\ Positioned = "arm" /\ ctl.purpose # "arm" /\ ctl'.retrying = ctl.retrying
         \/ ctl'.pc = "seek" /\ ctl'.retrying = ctl.retrying /\ ctl.purpose # "arm"
            /\ (ctl'.purpose \in {"indexed", "scanned"} \/ (ctl'.purpose = "start" /\ ctl'.aim <= StartPts))
         \/ ctl'.pc = "backOff" /\ ctl'.retrying = ctl.retrying /\ ctl.purpose # "arm"
            /\ ctl'.purpose \in {"indexed", "scanned"}
  <2> DEFINE next == IF landing.found THEN "feedKey" ELSE "select"
  <2>0. ctl \in Controls /\ ladder \in Ladders /\ next \in Places /\ Positioned \in Places
        /\ "scanned" \in Purposes /\ Positioned \in {"arm", "select"}
    BY DEF TypeInv, Shapes, Places, Purposes, Positioned
  <2>1. CASE ctl.purpose = "arm" /\ Go(next) /\ UNCHANGED ladder
    BY <2>0, <2>1, GoTypes
  <2> HIDE DEF next
  <2>2. CASE ctl.purpose # "arm" /\ Go(Positioned) /\ UNCHANGED ladder
    BY <2>0, <2>2, GoTypes
  <2>3. CASE ctl.purpose = "covered" /\ SeekThen(ScanAim, "scanned") /\ UNCHANGED ladder
    BY <1>2, <2>0, <2>3, GoTypes
  <2>4. CASE ctl.purpose = "indexed" /\ observed # NoPts /\ RetryAfterOvershoot
    <3>1. landing.first # 0
      BY <2>4
    <3> QED
      BY <2>4, <3>1, RetryAfterOvershootTypes
  <2> HIDE DEF observed
  <2>5. CASE ctl.purpose \in {"indexed", "scanned"} /\ Retreat(observed) /\ UNCHANGED ladder
    BY <1>2, <2>0, <2>5, RetreatTypes DEF TypeInv
  <2> QED
    BY <1>1, <2>1, <2>2, <2>3, <2>4, <2>5 DEF next
<1>4. landing' \in Landings
  BY <1>1, EmptyTypes DEF TypeInv, Shapes
<1>5. Reshapes
  BY <1>1, <1>3, <1>4 DEF Reshapes, TypeInv, Shapes
<1>6. Scanning /\ (Seekable \/ ctl.purpose = "arm")
  BY <1>1 DEF TypeInv, Phases, Scanning
<1>7. /\ ctl.purpose # "select" /\ decoder.buffer = {}
      /\ window.keyMode /\ ~ctl.retrying => mode.keyframeOnly \/ ctl.purpose = "arm"
      /\ ctl.purpose = "arm" => mode.keyframeOnly
      /\ landing.found /\ mode.keyframeOnly => reader.packet # 0
  BY <1>1 DEF TypeInv, Phases, Scanning, Arming
<1>8. Phases'
  BY <1>1, <1>3, <1>6, <1>7, SameStream DEF TypeInv, Phases, Moving, Scanning, Arming, Seekable, Positioned
<1> QED
  BY <1>5, <1>8

-----------------------------------------------------------------------------
(* The type invariant: feeding the decoder.                                 *)

LEMMA AbandonedTypes ==
  ASSUME NEW p \in Positions
  PROVE  Abandoned(p) \in Positions
BY DEF Abandoned, Positions

\* What the decoder skipped stays within its bound.
LEMMA HoleTypes ==
  ASSUME source \in Sources, NEW holes \in SUBSET Times, Cardinality(holes) <= MaxHoles, NEW t \in Times
  PROVE  /\ RecordHole(holes, t) \in SUBSET Times /\ Cardinality(RecordHole(holes, t)) <= MaxHoles
         /\ holes \ {t} \in SUBSET Times /\ Cardinality(holes \ {t}) <= MaxHoles
<1>1. IsFiniteSet(holes) /\ Cardinality(holes) \in Nat /\ MaxHoles \in Nat \ {0} /\ Cardinality({}) = 0
  BY TimesAreFinite, TicksTypes, FS_EmptySet
<1>2. Cardinality(holes \cup {t}) = IF t \in holes THEN Cardinality(holes) ELSE Cardinality(holes) + 1
  BY <1>1, FS_AddElement
<1>3. Cardinality(holes \ {t}) = IF t \in holes THEN Cardinality(holes) - 1 ELSE Cardinality(holes)
  BY <1>1, FS_RemoveElement
<1>4. RecordHole(holes, t) \in SUBSET Times
  BY DEF RecordHole
<1>5. Cardinality(RecordHole(holes, t)) <= MaxHoles
  BY <1>1, <1>2 DEF RecordHole
<1>6. Cardinality(holes \ {t}) <= MaxHoles
  BY <1>1, <1>3
<1> QED
  BY <1>4, <1>5, <1>6

LEMMA FrontierParts ==
  ASSUME Shapes
  PROVE  /\ frontier \in FrontierRecords /\ frontier.fedPts \in Times \cup {NoPts}
         /\ frontier.received \in Times \cup {NoPts} /\ frontier.lastKey \in Times \cup {NoPts}
         /\ frontier.lastEnd \in Int /\ frontier.count \in 0..2 /\ frontier.tainted \in BOOLEAN
         /\ frontier.holes \in SUBSET Times /\ Cardinality(frontier.holes) <= MaxHoles
BY DEF Shapes, Frontiers, FrontierRecords

LEMMA PreparedTypes ==
  ASSUME Shapes, NEW i \in Packets
  PROVE  Prepared(i) \in Frontiers /\ Prepared(i).fedPts = frontier.fedPts
<1> DEFINE holes == IF CanSkip(i) THEN RecordHole(frontier.holes, Pts(i)) ELSE frontier.holes
<1>1. holes \in SUBSET Times /\ Cardinality(holes) <= MaxHoles
  BY FrontierParts, HoleTypes, StreamFacts DEF Shapes
<1>2. Prepared(i) = [frontier EXCEPT !.holes = holes]
  BY DEF Prepared
<1> HIDE DEF holes
<1>3. Prepared(i) \in FrontierRecords /\ Prepared(i).fedPts = frontier.fedPts /\ Prepared(i).holes = holes
  BY <1>1, <1>2, FrontierParts DEF FrontierRecords
<1> QED
  BY <1>1, <1>3 DEF Frontiers

\* The latest time that was fed.
LEMMA FedPtsTypes ==
  ASSUME Shapes, NEW i \in Packets, NEW f \in Frontiers
  PROVE  /\ [f EXCEPT !.fedDts = Stream[i].dts, !.fedPts = Max({f.fedPts, Pts(i)})] \in Frontiers
         /\ [f EXCEPT !.tainted = TRUE] \in Frontiers
<1> DEFINE a == f.fedPts
           b == Pts(i)
           m == Max({a, b})
           d == Stream[i].dts
<1>1. f \in FrontierRecords /\ a \in Times \cup {NoPts} /\ Cardinality(f.holes) <= MaxHoles
  BY DEF Frontiers, FrontierRecords
<1>2. a \in Int /\ b \in Int /\ b \in Times /\ d \in Int
  BY <1>1, StreamFacts, TicksTypes DEF Shapes
<1>3. m \in Times \cup {NoPts}
  <2> HIDE DEF a, b
  <2>1. Max({a, b}) \in {a, b}
    BY <1>2, MaxOfTwo
  <2> QED
    BY <1>1, <1>2, <2>1
<1> HIDE DEF m, d
<1>4. /\ [f EXCEPT !.fedDts = d, !.fedPts = m] \in FrontierRecords
      /\ [f EXCEPT !.fedDts = d, !.fedPts = m].holes = f.holes
      /\ [f EXCEPT !.tainted = TRUE] \in FrontierRecords
      /\ [f EXCEPT !.tainted = TRUE].holes = f.holes
  BY <1>1, <1>2, <1>3 DEF FrontierRecords
<1> QED
  BY <1>1, <1>4 DEF Frontiers, m, d

LEMMA FedTypes ==
  ASSUME Shapes, NEW i \in Packets
  PROVE  Fed(i) \in Frontiers
<1> DEFINE f == Prepared(i)
<1>1. f \in Frontiers
  BY PreparedTypes
<1>2. Fed(i) = [f EXCEPT !.fedDts = Stream[i].dts, !.fedPts = Max({f.fedPts, Pts(i)})]
  BY DEF Fed
<1> HIDE DEF f
<1> QED
  BY <1>1, <1>2, FedPtsTypes

LEMMA DecodeTypes ==
  ASSUME Shapes, NEW i \in Packets, NEW shown \in BOOLEAN, Cardinality(decoder.buffer) <= Depth
  PROVE  /\ Decode(i, shown) \in Decoders
         /\ Decode(i, shown).buffer \subseteq decoder.buffer \cup {Pts(i)}
<1>1. decoder \in DecoderRecords /\ Cardinality(decoder.buffer) <= Depth + 1 /\ Pts(i) \in Times /\ Depth \in Nat
  BY StreamFacts DEF Shapes, Decoders
<1>2. decoder.buffer \in SUBSET Times /\ decoder.intact \in SUBSET Times
  BY <1>1 DEF DecoderRecords
<1> DEFINE buffer == decoder.buffer \cup (IF shown THEN {Pts(i)} ELSE {})
           intact == decoder.intact \cup (IF Stream[i].refs \subseteq decoder.intact THEN {Pts(i)} ELSE {})
           kept == {p \in intact : p \in buffer \/ NeededAfter(i, p)}
<1>3. buffer \in SUBSET Times /\ kept \in SUBSET Times /\ buffer \subseteq decoder.buffer \cup {Pts(i)}
  BY <1>1, <1>2
<1>4. Cardinality(buffer) <= Depth + 1
  <2>1. IsFiniteSet(decoder.buffer) /\ Cardinality(decoder.buffer) \in Nat
    BY <1>2, TimesAreFinite DEF Shapes
  <2>2. /\ Cardinality(decoder.buffer \cup {Pts(i)}) <= Cardinality(decoder.buffer) + 1
        /\ Cardinality(decoder.buffer \cup {Pts(i)}) \in Nat
    <3>1. /\ Cardinality(decoder.buffer \cup {Pts(i)}) =
               IF Pts(i) \in decoder.buffer THEN Cardinality(decoder.buffer) ELSE Cardinality(decoder.buffer) + 1
      BY <2>1, FS_AddElement
    <3> QED
      BY <2>1, <3>1
  <2>5. Cardinality(buffer) \in {Cardinality(decoder.buffer \cup {Pts(i)}), Cardinality(decoder.buffer)}
    <3>1. CASE shown
      <4>1. buffer = decoder.buffer \cup {Pts(i)}
        BY <3>1
      <4> QED
        BY <4>1
    <3>2. CASE ~shown
      <4>1. buffer = decoder.buffer
        BY <3>2
      <4> QED
        BY <4>1
    <3> QED
      BY <3>1, <3>2
  <2> DEFINE n == Cardinality(decoder.buffer)
             m == Cardinality(decoder.buffer \cup {Pts(i)})
             c == Cardinality(buffer)
  <2>6. n \in Nat /\ m \in Nat /\ n <= Depth /\ m <= n + 1 /\ c \in {m, n} /\ Depth \in Nat
    BY <1>1, <2>1, <2>2, <2>5
  <2> HIDE DEF n, m, c
  <2>7. c <= Depth + 1
    BY <2>6
  <2> QED
    BY <2>7 DEF c
<1>5. Decode(i, shown) = IF ~IsKey(i) /\ ~decoder.synced THEN decoder
                         ELSE [buffer |-> buffer, synced |-> TRUE, intact |-> kept]
  BY DEF Decode
<1> HIDE DEF buffer, intact, kept
<1>6. [buffer |-> buffer, synced |-> TRUE, intact |-> kept] \in Decoders
  BY <1>3, <1>4 DEF Decoders, DecoderRecords
<1> QED
  BY <1>1, <1>3, <1>5, <1>6 DEF Shapes

LEMMA NoteKeyframeFedTypes ==
  ASSUME Shapes, NEW i \in Packets
  PROVE  NoteKeyframeFed(i) \in Positions
<1> DEFINE waiting == position.awaitingKey /\ ~IsKey(i)
<1>1. waiting \in BOOLEAN /\ NoteKeyframeFed(i) = [position EXCEPT !.awaitingKey = waiting]
  BY DEF NoteKeyframeFed
<1> HIDE DEF waiting
<1> QED
  BY <1>1 DEF Shapes, Positions

LEMMA NoteErrorTypes ==
  ASSUME Shapes, NEW errors \in Nat
  PROVE  NoteError(errors) \in Modes /\ NoteError(errors).keyframeOnly = mode.keyframeOnly
<1> DEFINE bound == MaxErrors + 1
           n == Min({errors, bound})
<1>1. bound \in Nat
  BY TicksTypes
<1>2. n \in 0..bound
  <2> HIDE DEF bound
  <2> QED
    BY <1>1, MinOfTwo
<1>3. NoteError(errors) = [mode EXCEPT !.errors = n, !.anyErrors = TRUE]
  BY DEF NoteError
<1>4. mode \in Modes /\ n \in 0..(MaxErrors + 1)
  BY <1>2 DEF Shapes
<1> HIDE DEF n, bound
<1> QED
  BY <1>3, <1>4 DEF Modes

\* A packet lost on its way into the decoder.
LEMMA LoseTypes ==
  ASSUME Shapes, NEW i \in Packets, NEW f \in Frontiers, NEW errors \in Nat, Lose(i, f, errors)
  PROVE  /\ frontier' \in Frontiers /\ mode' \in Modes /\ position' \in Positions /\ decoder' = decoder
         /\ \/ ctl' \in Controls /\ reply' \in Replies /\ ctl'.pc = "idle"
            \/ UNCHANGED <<ctl, reply>>
<1>1. frontier' \in Frontiers /\ mode' \in Modes /\ decoder' = decoder
  BY FedPtsTypes, NoteErrorTypes DEF Lose
<1>2. CASE errors > MaxErrors
  <2>1. Fail("decodeFailed") /\ position' = Abandoned(NoteKeyframeFed(i))
    BY <1>2 DEF Lose
  <2>2. ctl' \in Controls /\ reply' \in Replies /\ ctl'.pc = "idle"
    BY <2>1, EndTypes DEF Statuses, Shapes
  <2>3. position' \in Positions
    BY <2>1, NoteKeyframeFedTypes, AbandonedTypes
  <2> QED
    BY <1>1, <2>2, <2>3
<1>3. CASE ~(errors > MaxErrors)
  BY <1>1, <1>3, NoteKeyframeFedTypes DEF Lose
<1> QED
  BY <1>2, <1>3

\* A packet given to the decoder, whatever becomes of it.
LEMMA FeedTypes ==
  ASSUME Shapes, NEW i \in Packets, NEW errors \in Nat, Cardinality(decoder.buffer) <= Depth,
         Send(i) \/ Reject(i, errors) \/ FailDecode(i)
  PROVE  /\ frontier' \in Frontiers /\ mode' \in Modes /\ position' \in Positions /\ decoder' \in Decoders
         /\ \/ ctl' \in Controls /\ reply' \in Replies /\ ctl'.pc = "idle"
            \/ UNCHANGED <<ctl, reply>>
<1>1. CASE Send(i)
  <2>1. PICK dropped \in BOOLEAN : decoder' = Decode(i, ~dropped /\ Pts(i) >= FirstFrameTs)
    BY <1>1 DEF Send
  <2> DEFINE shown == ~dropped /\ Pts(i) >= FirstFrameTs
  <2>2. shown \in BOOLEAN /\ decoder' = Decode(i, shown)
    BY <2>1
  <2> HIDE DEF shown
  <2>3. decoder' \in Decoders
    BY <2>2, DecodeTypes
  <2>4. frontier' \in Frontiers /\ position' \in Positions
    BY <1>1, FedTypes, NoteKeyframeFedTypes DEF Send
  <2> QED
    BY <1>1, <2>3, <2>4 DEF Send, Shapes
<1>2. CASE Reject(i, errors)
  BY <1>2, PreparedTypes, LoseTypes DEF Reject, Shapes
<1>3. CASE FailDecode(i)
  <2>1. mode.errors + 1 \in Nat /\ Lose(i, Fed(i), mode.errors + 1)
    BY <1>3, TicksTypes DEF FailDecode, Shapes, Modes
  <2> QED
    BY <2>1, FedTypes, LoseTypes DEF Shapes
<1> QED
  BY <1>1, <1>2, <1>3

LEMMA FeedHeldPacketTypes ==
  ASSUME TypeInv, FeedHeldPacket
  PROVE  Reshapes /\ Phases'
<1>1. /\ ctl.pc = "select" /\ Cardinality(decoder.buffer) <= Depth /\ reader.packet # 0
      /\ Send(reader.packet) \/ Reject(reader.packet, mode.errors) \/ FailDecode(reader.packet)
      /\ reader' = [reader EXCEPT !.packet = 0]
      /\ UNCHANGED <<source, slots, keys, ladder, window, landing>>
  BY DEF FeedHeldPacket, NeedsInput, At
<1>2. reader.packet \in Packets /\ mode.errors \in Nat
  BY <1>1, ReaderParts, TicksTypes DEF TypeInv, Shapes, Modes
<1>3. /\ frontier' \in Frontiers /\ mode' \in Modes /\ position' \in Positions /\ decoder' \in Decoders
      /\ \/ ctl' \in Controls /\ reply' \in Replies /\ ctl'.pc = "idle"
         \/ UNCHANGED <<ctl, reply>>
  BY <1>1, <1>2, FeedTypes DEF TypeInv
<1>4. reader' \in Readers
  <2>1. reader' = [reader EXCEPT !.packet = 0, !.replay = reader.replay, !.errors = reader.errors,
                                 !.verifiedTo = reader.verifiedTo]
    BY <1>1, ReaderParts DEF ReaderRecords, TypeInv
  <2>2. 0 \in Packets \cup {0}
    OBVIOUS
  <2> QED
    BY <2>1, <2>2, ReaderStep, ReaderParts DEF TypeInv
<1>5. Reshapes
  BY <1>1, <1>3, <1>4 DEF Reshapes, TypeInv, Shapes
<1> QED
  BY <1>1, <1>3, <1>5, QuietPhase DEF TypeInv

LEMMA FeedNextPacketTypes ==
  ASSUME TypeInv, FeedNextPacket
  PROVE  Reshapes /\ Phases'
<1>1. /\ ctl.pc = "select" /\ Cardinality(decoder.buffer) <= Depth /\ HasPacket
      /\ Read(FALSE) /\ FALSE \in BOOLEAN
      /\ Send(Next1) \/ Reject(Next1, mode.errors + 1) \/ FailDecode(Next1)
      /\ UNCHANGED <<slots, ladder, window, landing>>
  BY DEF FeedNextPacket, NeedsInput, At
<1>2. Next1 \in Packets /\ mode.errors + 1 \in Nat
  <2>1. mode.errors \in 0..(MaxErrors + 1) /\ MaxErrors \in Nat
    BY TicksTypes DEF TypeInv, Shapes, Modes
  <2> QED
    BY <1>1, <2>1, NextPacket DEF TypeInv
<1>3. /\ frontier' \in Frontiers /\ mode' \in Modes /\ position' \in Positions /\ decoder' \in Decoders
      /\ \/ ctl' \in Controls /\ reply' \in Replies /\ ctl'.pc = "idle"
         \/ UNCHANGED <<ctl, reply>>
  <2> DEFINE i == Next1
             errors == mode.errors + 1
  <2>1. i \in Packets /\ errors \in Nat /\ (Send(i) \/ Reject(i, errors) \/ FailDecode(i))
    BY <1>1, <1>2
  <2> HIDE DEF i, errors
  <2> QED
    BY <1>1, <2>1, FeedTypes DEF TypeInv
<1>4. /\ source' \in Sources /\ source'.setting = source.setting /\ source'.seekable = source.seekable
      /\ source'.failures = source.failures /\ reader' \in Readers /\ Indexed(keys')
  BY <1>1, ReadTypes DEF TypeInv
<1>5. Reshapes
  BY <1>1, <1>3, <1>4 DEF Reshapes, TypeInv, Shapes
<1> QED
  BY <1>1, <1>3, <1>4, <1>5, QuietPhase DEF TypeInv

LEMMA SkipToKeyframeTypes ==
  ASSUME TypeInv, SkipToKeyframe
  PROVE  Reshapes /\ Phases'
<1>1. /\ ctl.pc = "select" /\ HasPacket /\ Read(FALSE) /\ FALSE \in BOOLEAN
      /\ UNCHANGED <<decoder, position, frontier, slots, mode, ladder, window, ctl, landing, reply>>
  BY DEF SkipToKeyframe, NeedsInput, At
<1>2. /\ source' \in Sources /\ source'.setting = source.setting /\ source'.seekable = source.seekable
      /\ source'.failures = source.failures /\ reader' \in Readers /\ Indexed(keys')
  BY <1>1, ReadTypes DEF TypeInv
<1>3. Reshapes
  BY <1>1, <1>2 DEF Reshapes, TypeInv, Shapes
<1> QED
  BY <1>1, <1>2, <1>3, QuietPhase DEF TypeInv

LEMMA StartDrainTypes ==
  ASSUME TypeInv, StartDrain
  PROVE  Reshapes /\ Phases'
<1>1. /\ ctl.pc = "select" /\ frontier' = [frontier EXCEPT !.draining = TRUE]
      /\ UNCHANGED <<source, decoder, position, slots, mode, reader, keys, ladder, window, ctl, landing, reply>>
  BY DEF StartDrain, NeedsInput, At
<1>2. frontier' \in FrontierRecords /\ frontier'.holes = frontier.holes
  BY <1>1, FrontierParts DEF TypeInv, FrontierRecords
<1>3. frontier' \in Frontiers
  BY <1>2, FrontierParts DEF TypeInv, Frontiers
<1>4. Reshapes
  BY <1>1, <1>3 DEF Reshapes, TypeInv, Shapes
<1> QED
  BY <1>1, <1>4, QuietPhase DEF TypeInv

-----------------------------------------------------------------------------
(* The type invariant: frames out of the decoder, and the end.              *)

LEMMA ReceiveTypes ==
  ASSUME Shapes, Emits, NEW damaged \in BOOLEAN, Receive(damaged)
  PROVE  /\ Emitted \in decoder.buffer /\ Emitted \in Times /\ \A t \in decoder.buffer : Emitted <= t
         /\ decoder' \in Decoders /\ mode' \in Modes /\ frontier' \in Frontiers /\ Indexed(keys')
         /\ keys'.next = keys.next /\ keys'.contiguous = keys.contiguous
         /\ decoder'.buffer = decoder.buffer \ {Emitted}
         /\ mode'.keyframeOnly = mode.keyframeOnly
         /\ frontier'.received = Emitted /\ frontier'.draining = frontier.draining
         /\ NewFrame \in Frames /\ [NewFrame EXCEPT !.concealed = TRUE] \in Frames /\ IsValid(NewFrame)
<1>1. decoder \in DecoderRecords /\ decoder.buffer \in SUBSET Times /\ decoder.buffer # {}
      /\ Cardinality(decoder.buffer) <= Depth + 1
  BY DEF Emits, Shapes, Decoders, DecoderRecords
<1>2. Emitted \in decoder.buffer /\ Emitted \in Times /\ \A t \in decoder.buffer : Emitted <= t
  <2> DEFINE buffer == decoder.buffer
  <2>1. buffer \in SUBSET Times /\ buffer # {} /\ source \in Sources
    BY <1>1 DEF Shapes
  <2> HIDE DEF buffer
  <2>2. Min(buffer) \in buffer /\ \A t \in buffer : Min(buffer) <= t
    BY <2>1, ExtremeTimes
  <2> QED
    BY <2>1, <2>2 DEF Emitted, buffer
<1>3. PacketAt(Emitted) \in Packets /\ IsKey(PacketAt(Emitted)) \in BOOLEAN /\ Emitted \in Int /\ Emitted # NoPts
  BY <1>2, PacketAtFacts, StreamFacts DEF Shapes
<1> DEFINE isKey == IsKey(PacketAt(Emitted))
           pts == Emitted
           count == Min({frontier.count + 1, 2})
           lastKey == IF isKey THEN pts ELSE frontier.lastKey
           tainted == IF damaged THEN frontier.tainted ELSE TaintAfter(isKey)
           ends == pts + FrameDuration
           lastEnd == IF damaged THEN frontier.lastEnd ELSE Max({frontier.lastEnd, ends})
           holes == IF damaged THEN RecordHole(frontier.holes, pts) ELSE frontier.holes \ {pts}
<1>4. /\ decoder' = [decoder EXCEPT !.buffer = @ \ {pts}]
      /\ mode' = [mode EXCEPT !.errors = 0]
      /\ keys' = NoteKeyframeSpan(keys, frontier.lastKey, pts)
      /\ frontier' = [frontier EXCEPT !.received = pts, !.count = count, !.lastKey = lastKey, !.tainted = tainted,
                                      !.lastEnd = lastEnd, !.holes = holes]
  BY DEF Receive, Received, Drop
<1>5. decoder' \in Decoders /\ decoder'.buffer = decoder.buffer \ {Emitted}
  <2> DEFINE left == decoder.buffer \ {pts}
  <2>1. IsFiniteSet(decoder.buffer) /\ Cardinality(decoder.buffer) \in Nat
    BY <1>1, TimesAreFinite DEF Shapes
  <2>2. Cardinality(left) = Cardinality(decoder.buffer) - 1
    BY <1>2, <2>1, FS_RemoveElement
  <2>3. left \in SUBSET Times
    BY <1>1
  <2>7. Depth \in Nat
    BY StreamFacts DEF Shapes
  <2>4. decoder' = [decoder EXCEPT !.buffer = left]
    BY <1>4
  <2>5. Cardinality(left) <= Depth + 1
    BY <1>1, <2>1, <2>2, <2>7
  <2> HIDE DEF left
  <2>6. decoder' \in DecoderRecords /\ decoder'.buffer = left
    BY <1>1, <2>3, <2>4 DEF DecoderRecords
  <2> QED
    BY <2>5, <2>6 DEF Decoders, left
<1>6. mode' \in Modes /\ mode'.keyframeOnly = mode.keyframeOnly
  BY <1>4, TicksTypes DEF Shapes, Modes
<1>7. Indexed(keys') /\ keys'.next = keys.next /\ keys'.contiguous = keys.contiguous
  <2> DEFINE from == frontier.lastKey
  <2>1. from \in Int /\ Indexed(keys)
    BY FrontierParts, StreamFacts, TicksTypes DEF Shapes
  <2> HIDE DEF from, pts
  <2>2. pts \in Int
    BY <1>3 DEF pts
  <2> QED
    BY <1>4, <2>1, <2>2, IndexNotes DEF from
<1>8. count \in 0..2 /\ lastKey \in Times \cup {NoPts} /\ tainted \in BOOLEAN /\ pts \in Times \cup {NoPts}
  <2> DEFINE c == frontier.count + 1
  <2>1. c \in 1..3
    BY FrontierParts
  <2> HIDE DEF c
  <2>2. Min({c, 2}) \in 0..2
    BY <2>1, MinOfTwo
  <2>3. count \in 0..2
    BY <2>2 DEF c
  <2>4. frontier.lastKey \in Times \cup {NoPts} /\ frontier.tainted \in BOOLEAN /\ TaintAfter(isKey) \in BOOLEAN
    BY FrontierParts DEF TaintAfter
  <2> HIDE DEF isKey
  <2> QED
    BY <1>2, <2>3, <2>4
<1>9. lastEnd \in Int
  <2> DEFINE a == frontier.lastEnd
  <2>1. a \in Int /\ ends \in Int
    BY <1>3, FrontierParts, TicksTypes
  <2> HIDE DEF a, ends
  <2>2. Max({a, ends}) \in Int
    BY <2>1, MaxOfTwo
  <2> QED
    BY <2>1, <2>2 DEF a
<1>10. holes \in SUBSET Times /\ Cardinality(holes) <= MaxHoles
  BY <1>2, FrontierParts, HoleTypes DEF Shapes
<1>11. frontier \in FrontierRecords
  BY FrontierParts
<1> HIDE DEF isKey, pts, count, lastKey, tainted, lastEnd, holes
<1> DEFINE f == [frontier EXCEPT !.received = pts, !.count = count, !.lastKey = lastKey]
<1>12. f \in FrontierRecords /\ f.received = pts /\ f.draining = frontier.draining
  BY <1>8, <1>11 DEF FrontierRecords
<1>13. frontier' = [f EXCEPT !.tainted = tainted, !.lastEnd = lastEnd, !.holes = holes]
  BY <1>4
<1> HIDE DEF f
<1>14. frontier' \in FrontierRecords /\ frontier'.holes = holes /\ frontier'.received = pts
       /\ frontier'.draining = frontier.draining
  BY <1>8, <1>9, <1>10, <1>12, <1>13 DEF FrontierRecords
<1>15. frontier' \in Frontiers /\ frontier'.received = Emitted
  BY <1>10, <1>14 DEF Frontiers, pts
<1>16. NewFrame \in Frames /\ [NewFrame EXCEPT !.concealed = TRUE] \in Frames /\ IsValid(NewFrame)
  <2> DEFINE concealed == TaintAfter(IsKey(PacketAt(Emitted)))
             intact == Emitted \in decoder.intact
             k == IsKey(PacketAt(Emitted))
             new == [pts |-> Emitted, key |-> k, concealed |-> concealed, intact |-> intact]
  <2>1. concealed \in BOOLEAN /\ intact \in BOOLEAN /\ k \in BOOLEAN
    BY <1>3 DEF TaintAfter, Shapes, Frontiers, FrontierRecords
  <2>2. NewFrame = new
    BY DEF NewFrame
  <2> HIDE DEF concealed, intact, k
  <2>3. new \in Frames /\ [new EXCEPT !.concealed = TRUE] \in Frames /\ new.pts = Emitted
    BY <1>2, <2>1 DEF Frames
  <2> QED
    BY <1>3, <2>2, <2>3 DEF IsValid
<1> QED
  BY <1>2, <1>5, <1>6, <1>7, <1>14, <1>15, <1>16

LEMMA SlotTypes ==
  ASSUME Shapes, NEW frame \in Frames
  PROVE  /\ Hold(frame) => slots' \in Slots
         /\ Pend(frame) => slots' \in Slots
         /\ [slots EXCEPT !.corruptLast = frame] \in Slots
         /\ slots.held \in Frames /\ slots.corruptLast \in Frames /\ slots.pending \in Frames
BY FrameTypes DEF Shapes, Slots, Hold, Pend

LEMMA StashCorruptTypes ==
  ASSUME TypeInv, StashCorrupt
  PROVE  Reshapes /\ Phases'
<1>1. /\ Emits /\ ctl.pc = "select" /\ Receive(TRUE) /\ TRUE \in BOOLEAN
      /\ slots' = [slots EXCEPT !.corruptLast = [NewFrame EXCEPT !.concealed = TRUE]]
      /\ UNCHANGED <<ctl, source, position, reader, ladder, window, landing, reply>>
  BY DEF StashCorrupt, Emits, At, Receive
<1>2. Reshapes
  BY <1>1, ReceiveTypes, SlotTypes DEF Reshapes, TypeInv, Shapes
<1> QED
  BY <1>1, <1>2, QuietPhase DEF TypeInv

LEMMA PlaceInKeyframeModeTypes ==
  ASSUME TypeInv, PlaceInKeyframeMode
  PROVE  Reshapes /\ Phases'
<1>1. /\ Emits /\ ctl.pc = "select" /\ Receive(FALSE) /\ FALSE \in BOOLEAN
      /\ Hold(NewFrame) \/ slots' = slots
      /\ Select(NewFrame, "none") \/ ctl' = ctl
      /\ UNCHANGED <<source, position, reader, ladder, window, landing, reply>>
  BY DEF PlaceInKeyframeMode, Emits, At, Receive
<1>2. NewFrame \in Frames /\ "none" \in Adjustments
  BY <1>1, ReceiveTypes DEF TypeInv, Adjustments
<1>3. slots' \in Slots
  BY <1>1, <1>2, SlotTypes DEF TypeInv, Shapes
<1>4. ctl' \in Controls /\ ctl'.pc \in {"select", "answer"}
  BY <1>1, <1>2, GoTypes DEF TypeInv, Shapes
<1>5. Reshapes
  BY <1>1, <1>3, <1>4, ReceiveTypes DEF Reshapes, TypeInv, Shapes
<1> QED
  BY <1>1, <1>4, <1>5, QuietPhase DEF TypeInv

LEMMA PlaceInExactModeTypes ==
  ASSUME TypeInv, PlaceInExactMode
  PROVE  Reshapes /\ Phases'
<1>1. /\ Emits /\ ctl.pc = "select" /\ Receive(FALSE) /\ FALSE \in BOOLEAN
      /\ Hold(NewFrame)
      /\ Select(NewFrame, "none") \/ ctl' = ctl
      /\ UNCHANGED <<source, position, reader, ladder, window, landing, reply>>
  BY DEF PlaceInExactMode, Emits, At, Receive
<1>2. NewFrame \in Frames /\ "none" \in Adjustments
  BY <1>1, ReceiveTypes DEF TypeInv, Adjustments
<1>3. slots' \in Slots
  BY <1>1, <1>2, SlotTypes DEF TypeInv, Shapes
<1>4. ctl' \in Controls /\ ctl'.pc \in {"select", "answer"}
  BY <1>1, <1>2, GoTypes DEF TypeInv, Shapes
<1>5. Reshapes
  BY <1>1, <1>3, <1>4, ReceiveTypes DEF Reshapes, TypeInv, Shapes
<1> QED
  BY <1>1, <1>4, <1>5, QuietPhase DEF TypeInv

LEMMA LookAheadTypes ==
  ASSUME TypeInv, LookAhead
  PROVE  Reshapes /\ Phases'
<1>1. /\ Emits /\ ctl.pc = "select" /\ Receive(FALSE) /\ FALSE \in BOOLEAN
      /\ Pend(NewFrame) /\ Select(slots.held, "none")
      /\ UNCHANGED <<source, position, reader, ladder, window, landing, reply>>
  BY DEF LookAhead, Emits, At, Receive
<1>2. NewFrame \in Frames /\ "none" \in Adjustments
  BY <1>1, ReceiveTypes DEF TypeInv, Adjustments
<1>3. slots' \in Slots /\ slots.held \in Frames
  BY <1>1, <1>2, SlotTypes DEF TypeInv, Shapes
<1>4. ctl' \in Controls /\ ctl'.pc = "answer"
  BY <1>1, <1>2, <1>3, GoTypes DEF TypeInv, Shapes
<1>5. Reshapes
  BY <1>1, <1>3, <1>4, ReceiveTypes DEF Reshapes, TypeInv, Shapes
<1> QED
  BY <1>1, <1>4, <1>5, QuietPhase DEF TypeInv

LEMMA BackOffFromOvershootTypes ==
  ASSUME TypeInv, BackOffFromOvershoot
  PROVE  Reshapes /\ Phases'
<1> DEFINE observed == IF NewFrame.key THEN Emitted ELSE NoPts
<1>1. /\ Emits /\ ctl.pc = "select" /\ Receive(FALSE) /\ FALSE \in BOOLEAN /\ Seekable
      /\ ctl' = [ctl EXCEPT !.pc = "backOff", !.purpose = "select", !.observed = observed]
      /\ UNCHANGED <<slots, source, position, reader, ladder, window, landing, reply>>
  BY DEF BackOffFromOvershoot, Overshoots, LandedLate, IsAtStart, Emits, At, Receive
<1>2. observed \in Int
  BY <1>1, ReceiveTypes, StreamFacts, TicksTypes DEF TypeInv, Shapes
<1> HIDE DEF observed
<1>3. ctl' \in Controls /\ ctl'.pc = "backOff" /\ ctl'.purpose = "select" /\ ctl'.retrying = ctl.retrying
  <2>1. ctl \in Controls /\ "backOff" \in Places /\ "select" \in Purposes
    BY DEF TypeInv, Shapes, Places, Purposes
  <2> QED
    BY <1>1, <1>2, <2>1 DEF Controls
<1>4. Reshapes
  BY <1>1, <1>3, ReceiveTypes DEF Reshapes, TypeInv, Shapes
<1>5. Phases'
  BY <1>1, <1>3, SameStream DEF TypeInv, Phases, Moving, Scanning, Arming, Seekable
<1> QED
  BY <1>4, <1>5

LEMMA AnswerOvershootTypes ==
  ASSUME TypeInv, AnswerOvershoot
  PROVE  Reshapes /\ Phases'
<1> DEFINE note == IF Emitted <= window.end THEN "none" ELSE "clampedToFirst"
<1>1. /\ Emits /\ ctl.pc = "select" /\ Receive(FALSE) /\ FALSE \in BOOLEAN
      /\ Hold(NewFrame) /\ Select(NewFrame, note)
      /\ UNCHANGED <<source, position, reader, ladder, window, landing, reply>>
  BY DEF AnswerOvershoot, Overshoots, Emits, At, Receive
<1>2. NewFrame \in Frames /\ note \in Adjustments
  BY <1>1, ReceiveTypes DEF TypeInv, Adjustments
<1> HIDE DEF note
<1>3. slots' \in Slots
  BY <1>1, <1>2, SlotTypes DEF TypeInv, Shapes
<1>4. ctl' \in Controls /\ ctl'.pc = "answer"
  BY <1>1, <1>2, GoTypes DEF TypeInv, Shapes
<1>5. Reshapes
  BY <1>1, <1>3, <1>4, ReceiveTypes DEF Reshapes, TypeInv, Shapes
<1> QED
  BY <1>1, <1>4, <1>5, QuietPhase DEF TypeInv

\* The end of the stream, with the frame it looks at.
LEMMA FinishTypes ==
  ASSUME Shapes, NEW frame \in Frames, FinishWith(frame)
  PROVE  ctl' \in Controls /\ ctl'.pc \in {"idle", "answer"} /\ reply' \in Replies /\ position' \in Positions
<1>1. "none" \in Adjustments /\ "clampedToLast" \in Adjustments /\ "timeOutOfRange" \in Statuses
      /\ ctl \in Controls /\ source \in Sources /\ window \in Windows /\ reply \in Replies /\ position \in Positions
  BY DEF Adjustments, Statuses, Shapes
<1>2. CASE Select(frame, "none") /\ UNCHANGED <<position, reply>>
  BY <1>1, <1>2, GoTypes
<1>3. CASE Select(frame, "clampedToLast") /\ UNCHANGED <<position, reply>>
  BY <1>1, <1>3, GoTypes
<1>4. CASE Fail("timeOutOfRange") /\ position' \in {position, Abandoned(position)}
  BY <1>1, <1>4, EndTypes, AbandonedTypes
<1> QED
  BY <1>2, <1>3, <1>4 DEF FinishWith

LEMMA FinishAtEofTypes ==
  ASSUME Shapes, FinishAtEof
  PROVE  /\ ctl' \in Controls /\ ctl'.pc \in {"idle", "answer"} /\ reply' \in Replies
         /\ position' \in Positions /\ slots' \in Slots
<1>1. slots.held \in Frames /\ slots.corruptLast \in Frames /\ slots \in Slots /\ NoFrame \in Frames
  BY SlotTypes, FrameTypes DEF Shapes
<1>2. CASE IsValid(slots.held)
  BY <1>1, <1>2, FinishTypes DEF FinishAtEof
<1>3. CASE ~IsValid(slots.held) /\ ~IsValid(slots.corruptLast)
  <2> DEFINE status == IF mode.anyErrors THEN "decodeFailed" ELSE "endOfStream"
  <2>1. FailSelection(status) /\ UNCHANGED slots /\ status \in Statuses
    BY <1>3 DEF FinishAtEof, Statuses
  <2> HIDE DEF status
  <2> QED
    BY <1>1, <2>1, EndTypes, AbandonedTypes DEF FailSelection, Shapes
<1>4. CASE ~IsValid(slots.held) /\ IsValid(slots.corruptLast)
  <2>1. slots' = [slots EXCEPT !.held = slots.corruptLast, !.corruptLast = NoFrame]
        /\ ((Select(slots.corruptLast, "none") /\ UNCHANGED <<position, reply>>) \/ FinishWith(slots.corruptLast))
    BY <1>4 DEF FinishAtEof
  <2>2. slots' \in Slots
    BY <1>1, <2>1 DEF Slots
  <2>3. "none" \in Adjustments /\ ctl \in Controls
    BY DEF Adjustments, Shapes
  <2>4. ctl' \in Controls /\ ctl'.pc \in {"idle", "answer"} /\ reply' \in Replies /\ position' \in Positions
    BY <1>1, <2>1, <2>3, GoTypes, FinishTypes DEF Shapes
  <2> QED
    BY <2>2, <2>4
<1> QED
  BY <1>2, <1>3, <1>4

LEMMA AnswerAtTailTypes ==
  ASSUME TypeInv, AnswerAtTail
  PROVE  Reshapes /\ Phases'
<1>1. FinishAtEof /\ UNCHANGED <<source, decoder, frontier, mode, reader, keys, ladder, window, landing>>
  BY DEF AnswerAtTail
<1>2. Reshapes /\ ctl'.pc \in {"idle", "answer"}
  BY <1>1, FinishAtEofTypes DEF Reshapes, TypeInv, Shapes
<1> QED
  BY <1>1, <1>2, QuietPhase DEF TypeInv

LEMMA EndOfStreamTypes ==
  ASSUME TypeInv, EndOfStream
  PROVE  Reshapes /\ Phases'
<1> DEFINE tailEnd == Max({mode.tailEnd, frontier.lastEnd})
<1>1. /\ FinishAtEof /\ UNCHANGED <<source, decoder, reader, keys, ladder, window, landing>>
      /\ frontier' = [frontier EXCEPT !.eof = TRUE]
      /\ mode' = [mode EXCEPT !.tailEnd = tailEnd]
  BY DEF EndOfStream
<1>2. tailEnd \in Int
  <2> DEFINE a == mode.tailEnd
             b == frontier.lastEnd
  <2>1. a \in Int /\ b \in Int
    BY FrontierParts DEF TypeInv, Shapes, Modes
  <2> HIDE DEF a, b
  <2>2. Max({a, b}) \in Int
    BY <2>1, MaxOfTwo
  <2> QED
    BY <2>2 DEF a, b
<1> HIDE DEF tailEnd
<1>3. mode' \in Modes
  BY <1>1, <1>2 DEF TypeInv, Shapes, Modes
<1>4. frontier' \in FrontierRecords /\ frontier'.holes = frontier.holes
  BY <1>1, FrontierParts DEF TypeInv, FrontierRecords
<1>5. frontier' \in Frontiers
  BY <1>4, FrontierParts DEF TypeInv, Frontiers
<1>6. Reshapes /\ ctl'.pc \in {"idle", "answer"}
  BY <1>1, <1>3, <1>5, FinishAtEofTypes DEF Reshapes, TypeInv, Shapes
<1> QED
  BY <1>1, <1>6, QuietPhase DEF TypeInv

LEMMA BackOffFromTailTypes ==
  ASSUME TypeInv, BackOffFromTail
  PROVE  Reshapes /\ Phases'
<1>1. /\ ctl.pc = "select" /\ Seekable
      /\ ctl' = [ctl EXCEPT !.pc = "backOff", !.purpose = "select", !.observed = NoPts]
      /\ UNCHANGED <<source, decoder, position, frontier, slots, mode, reader, keys, ladder, window, landing, reply>>
  BY DEF BackOffFromTail, AtEndOfStream, LandedInTail, At
<1>2. ctl' \in Controls /\ ctl'.pc = "backOff" /\ ctl'.purpose = "select" /\ ctl'.retrying = ctl.retrying
  <2>1. ctl \in Controls /\ "backOff" \in Places /\ "select" \in Purposes /\ NoPts \in Int
    BY TicksTypes DEF TypeInv, Shapes, Places, Purposes
  <2> QED
    BY <1>1, <2>1 DEF Controls
<1>3. Reshapes
  BY <1>1, <1>2 DEF Reshapes, TypeInv, Shapes
<1>4. Phases'
  BY <1>1, <1>2, SameStream DEF TypeInv, Phases, Moving, Scanning, Arming, Seekable
<1> QED
  BY <1>3, <1>4

LEMMA RetryAfterEmptyEofTypes ==
  ASSUME TypeInv, RetryAfterEmptyEof
  PROVE  Reshapes /\ Phases'
<1> DEFINE m == [mode EXCEPT !.eofRetried = TRUE]
<1>1. /\ ctl.pc = "select" /\ Seekable
      /\ source' = [source EXCEPT !.sticky = FALSE]
      /\ decoder' = EmptyDecoder
      /\ ResetPosition(NoFrontier, m, reader.verifiedTo)
      /\ position' = [position EXCEPT !.positioned = FALSE]
      /\ ctl' = [ctl EXCEPT !.pc = "position", !.retrying = TRUE]
      /\ UNCHANGED <<ladder, window, landing, reply>>
  BY DEF RetryAfterEmptyEof, AtEndOfStream, EndedEmpty, At
<1>2. m \in Modes /\ reader.verifiedTo \in Int /\ NoFrontier \in Frontiers /\ decoder' \in Decoders
  BY <1>1, EmptyTypes, ReaderParts DEF TypeInv, Shapes, Modes
<1> HIDE DEF m
<1>3. /\ slots' \in Slots /\ frontier' \in Frontiers /\ mode' \in Modes /\ reader' \in Readers
      /\ Indexed(keys')
  BY <1>1, <1>2, ResetTypes DEF TypeInv
<1>4. /\ source' \in Sources /\ source'.setting = source.setting /\ source'.seekable = source.seekable
      /\ source'.failures = source.failures
  <2>1. source' = [source EXCEPT !.next = source.next, !.sticky = FALSE, !.interrupted = source.interrupted]
    BY <1>1, SourceParts DEF TypeInv, SourceRecords
  <2>2. FALSE \in BOOLEAN
    OBVIOUS
  <2> QED
    BY <2>1, <2>2, SourceStep, SourceParts DEF TypeInv
<1>5. position' \in Positions /\ ctl' \in Controls /\ ctl'.pc = "position" /\ ctl'.retrying
  <2>1. ctl \in Controls /\ "position" \in Places /\ position \in Positions
    BY DEF TypeInv, Shapes, Places
  <2> QED
    BY <1>1, <2>1 DEF Controls, Positions
<1>6. Reshapes
  BY <1>1, <1>2, <1>3, <1>4, <1>5 DEF Reshapes, TypeInv, Shapes
<1>7. Phases'
  BY <1>1, <1>4, <1>5, SameStream DEF TypeInv, Phases, Moving, Scanning, Arming, Seekable
<1> QED
  BY <1>6, <1>7

-----------------------------------------------------------------------------
(* The type invariant: nearest-keyframe mode, the answer, cancellation.     *)

LEMMA AnswerFirstFrameTypes ==
  ASSUME TypeInv, AnswerFirstFrame
  PROVE  Reshapes /\ Phases'
<1>1. /\ mode' = [mode EXCEPT !.keyframeOnly = FALSE]
      /\ window' = [window EXCEPT !.target = FirstFrameTs, !.start = FirstFrameTs, !.end = FirstFrameTs,
                                  !.adjustment = "keyframeBeforeEdit"]
      /\ Go("select")
      /\ UNCHANGED <<source, decoder, position, frontier, slots, reader, keys, ladder, landing, reply>>
  BY DEF AnswerFirstFrame
<1>2. mode' \in Modes
  BY <1>1 DEF TypeInv, Shapes, Modes
<1>3. window' \in Windows
  <2>1. FirstFrameTs \in Int /\ "keyframeBeforeEdit" \in Adjustments /\ window \in Windows
    BY StreamFacts DEF TypeInv, Shapes, Adjustments
  <2> QED
    BY <1>1, <2>1 DEF Windows
<1>4. ctl' \in Controls /\ ctl'.pc = "select"
  BY <1>1, GoTypes DEF TypeInv, Shapes, Places
<1>5. Reshapes
  BY <1>1, <1>2, <1>3, <1>4 DEF Reshapes, TypeInv, Shapes
<1> QED
  BY <1>1, <1>4, <1>5, QuietPhase DEF TypeInv

LEMMA FetchKeyframeTypes ==
  ASSUME TypeInv, FetchKeyframe
  PROVE  Reshapes /\ Phases'
<1>1. /\ ctl.pc = "arm" /\ BeginLanding(Forever, FALSE, "arm") /\ FALSE \in BOOLEAN /\ "arm" \in Purposes
      /\ Forever \in Int
      /\ reader' = [reader EXCEPT !.replay = <<>>]
      /\ UNCHANGED <<source, decoder, position, frontier, slots, mode, keys, ladder, window, reply>>
  BY TicksTypes DEF FetchKeyframe, At, Purposes
<1>2. /\ landing' \in Landings /\ ctl' \in Controls /\ ctl'.pc = "landing" /\ ctl'.purpose = "arm"
      /\ ~landing'.found /\ landing'.best = 0
  BY <1>1, BeginLandingTypes DEF TypeInv
<1>3. reader' \in Readers /\ reader'.replay = <<>>
  <2>1. reader' = [reader EXCEPT !.packet = reader.packet, !.replay = <<>>, !.errors = reader.errors,
                                 !.verifiedTo = reader.verifiedTo]
    BY <1>1, ReaderParts DEF ReaderRecords, TypeInv
  <2>2. <<>> \in Seq(Packets) /\ Len(<<>>) <= MaxGopPackets
    BY TicksTypes
  <2> QED
    BY <2>1, <2>2, ReaderStep, ReaderParts DEF TypeInv
<1>4. Reshapes
  BY <1>1, <1>2, <1>3 DEF Reshapes, TypeInv, Shapes
<1>5. mode.keyframeOnly /\ decoder.buffer = {}
  BY <1>1 DEF TypeInv, Phases, Arming
<1>6. Phases'
  BY <1>1, <1>2, <1>3, <1>5, SameStream DEF TypeInv, Phases, Moving, Scanning, Arming, Seekable, ScanTrue
<1> QED
  BY <1>4, <1>6

LEMMA FeedKeyframeAndDrainTypes ==
  ASSUME TypeInv, FeedKeyframeAndDrain
  PROVE  Reshapes /\ Phases'
<1> DEFINE key == reader.packet
           f == [frontier EXCEPT !.fedDts = Stream[key].dts, !.fedPts = Max({@, Pts(key)})]
<1>1. ctl.pc \in {"arm", "feedKey"} /\ UNCHANGED <<source, slots, keys, ladder, window, landing>>
  BY DEF FeedKeyframeAndDrain, FeedingKey, At
<1>2. decoder.buffer = {} /\ key # 0 /\ key \in Packets
  BY ReaderParts DEF TypeInv, Phases, Arming, FeedKeyframeAndDrain, FeedingKey, At
<1>3. f \in Frontiers
  <2>1. f = [frontier EXCEPT !.fedDts = Stream[key].dts, !.fedPts = Max({frontier.fedPts, Pts(key)})]
    OBVIOUS
  <2> QED
    BY <1>2, <2>1, FedPtsTypes DEF TypeInv, Shapes
<1>4. Drained(f) \in Frontiers /\ [Drained(f) EXCEPT !.tainted = TRUE] \in Frontiers
  <2> HIDE DEF f
  <2>1. f \in FrontierRecords /\ Cardinality(f.holes) <= MaxHoles
    BY <1>3 DEF Frontiers
  <2>2. Drained(f) \in FrontierRecords /\ Drained(f).holes = f.holes
        /\ [Drained(f) EXCEPT !.tainted = TRUE] \in FrontierRecords
        /\ [Drained(f) EXCEPT !.tainted = TRUE].holes = f.holes
    BY <2>1 DEF FrontierRecords, Drained
  <2> QED
    BY <2>1, <2>2 DEF Frontiers
<1>5. CASE ~KeyFlagsReliable
  <2>1. Go("select") /\ UNCHANGED <<decoder, position, frontier, mode, reader, reply>>
    BY <1>5 DEF FeedKeyframeAndDrain
  <2>2. ctl' \in Controls /\ ctl'.pc = "select"
    BY <2>1, GoTypes DEF TypeInv, Shapes, Places
  <2>3. Reshapes
    BY <1>1, <2>1, <2>2 DEF Reshapes, TypeInv, Shapes
  <2> QED
    BY <1>1, <2>2, <2>3, QuietPhase DEF TypeInv
<1>6. CASE KeyFlagsReliable
  <2> DEFINE shown == Pts(key) >= FirstFrameTs
  <2>1. /\ reader' = [reader EXCEPT !.packet = 0]
        /\ position' = NoteKeyframeFed(key)
        /\ \/ decoder' = Decode(key, shown) /\ frontier' = Drained(f) /\ Go("select") /\ UNCHANGED <<mode, reply>>
           \/ /\ frontier' = [Drained(f) EXCEPT !.tainted = TRUE]
              /\ mode' = NoteError(mode.errors + 1)
              /\ Go("select") /\ UNCHANGED <<decoder, reply>>
           \/ Fail("decodeFailed") /\ UNCHANGED <<decoder, frontier, mode>>
    BY <1>6 DEF FeedKeyframeAndDrain
  <2>2. reader' \in Readers
    <3>1. reader' = [reader EXCEPT !.packet = 0, !.replay = reader.replay, !.errors = reader.errors,
                                   !.verifiedTo = reader.verifiedTo]
      BY <2>1, ReaderParts DEF ReaderRecords, TypeInv
    <3>2. 0 \in Packets \cup {0}
      OBVIOUS
    <3> QED
      BY <3>1, <3>2, ReaderStep, ReaderParts DEF TypeInv
  <2>3. position' \in Positions
    BY <1>2, <2>1, NoteKeyframeFedTypes DEF TypeInv
  <2>4. shown \in BOOLEAN /\ Cardinality(decoder.buffer) <= Depth
    BY <1>2, FS_EmptySet, StreamFacts DEF TypeInv, Shapes
  <2>5. Decode(key, shown) \in Decoders
    <3> HIDE DEF key, shown
    <3> QED
      BY <1>2, <2>4, DecodeTypes DEF TypeInv
  <2>6. NoteError(mode.errors + 1) \in Modes
    <3>1. mode.errors + 1 \in Nat
      BY TicksTypes DEF TypeInv, Shapes, Modes
    <3> QED
      BY <3>1, NoteErrorTypes DEF TypeInv
  <2>7. decoder \in Decoders /\ frontier \in Frontiers /\ mode \in Modes /\ "select" \in Places /\ ctl \in Controls
        /\ reply \in Replies /\ "decodeFailed" \in Statuses /\ source \in Sources /\ window \in Windows
    BY DEF TypeInv, Shapes, Places, Statuses
  <2>8. decoder' \in Decoders /\ frontier' \in Frontiers /\ mode' \in Modes
    BY <1>4, <2>1, <2>5, <2>6, <2>7
  <2>9. ctl' \in Controls /\ ctl'.pc \in {"select", "idle"} /\ reply' \in Replies
    BY <2>1, <2>7, GoTypes, EndTypes
  <2>10. Reshapes
    BY <1>1, <2>2, <2>3, <2>8, <2>9 DEF Reshapes, TypeInv, Shapes
  <2> QED
    BY <1>1, <2>9, <2>10, QuietPhase DEF TypeInv
<1> QED
  BY <1>5, <1>6

LEMMA GiveAnswerTypes ==
  ASSUME TypeInv, GiveAnswer
  PROVE  Reshapes /\ Phases'
<1>1. Answer(ctl.frame, ctl.adjustment)
      /\ UNCHANGED <<source, decoder, position, frontier, slots, mode, reader, keys, ladder, window, landing>>
  BY DEF GiveAnswer
<1>2. ctl.frame \in Frames /\ ctl.adjustment \in Adjustments
  BY DEF TypeInv, Shapes, Controls
<1>3. ctl' \in Controls /\ reply' \in Replies /\ ctl'.pc = "idle"
  BY <1>1, <1>2, EndTypes DEF TypeInv, Shapes
<1>4. Reshapes
  BY <1>1, <1>3 DEF Reshapes, TypeInv, Shapes
<1> QED
  BY <1>1, <1>3, <1>4, QuietPhase DEF TypeInv

LEMMA JudgeTypes ==
  ASSUME Shapes, NEW tailEnd, Judge(tailEnd)
  PROVE  ctl' \in Controls /\ reply' \in Replies /\ ctl'.pc = "idle"
<1>1. /\ ctl.frame \in Frames /\ ctl.adjustment \in Adjustments /\ "ok" \in Statuses /\ "timeOutOfRange" \in Statuses
      /\ "clampedToLast" \in Adjustments
  BY DEF Shapes, Controls, Statuses, Adjustments
<1>2. \/ Answer(ctl.frame, ctl.adjustment) \/ EndRequest("ok", ctl.frame, "clampedToLast")
      \/ Fail("timeOutOfRange")
  BY DEF Judge
<1> QED
  BY <1>1, <1>2, EndTypes DEF Shapes

LEMMA VerifyTailTypes ==
  ASSUME TypeInv, VerifyTail
  PROVE  Reshapes /\ Phases'
<1>1. /\ Judge(mode.tailEnd) \/ (Go("verify") /\ UNCHANGED reply)
      /\ UNCHANGED <<source, decoder, position, frontier, slots, mode, reader, keys, ladder, window, landing>>
  BY DEF VerifyTail
<1>2. ctl' \in Controls /\ reply' \in Replies /\ ctl'.pc \in {"idle", "verify"}
  <2>1. "verify" \in Places /\ ctl \in Controls /\ reply \in Replies
    BY DEF TypeInv, Shapes, Places
  <2> QED
    BY <1>1, <2>1, JudgeTypes, GoTypes DEF TypeInv
<1>3. Reshapes
  BY <1>1, <1>2 DEF Reshapes, TypeInv, Shapes
<1> QED
  BY <1>1, <1>2, <1>3, QuietPhase DEF TypeInv

LEMMA MarkInvalidTypes ==
  ASSUME Shapes, MarkInvalid
  PROVE  position' \in Positions
BY DEF Shapes, MarkInvalid, Positions

LEMMA VerifyPacketTypes ==
  ASSUME TypeInv, VerifyPacket
  PROVE  Reshapes /\ Phases'
<1>1. /\ ctl.pc = "verify" /\ HasPacket /\ Read(FALSE) /\ FALSE \in BOOLEAN
      /\ (MarkInvalid /\ Answer(ctl.frame, ctl.adjustment)) \/ UNCHANGED <<position, ctl, reply>>
      /\ UNCHANGED <<decoder, frontier, slots, mode, ladder, window, landing>>
  BY DEF VerifyPacket, At
<1>2. /\ source' \in Sources /\ source'.setting = source.setting /\ source'.seekable = source.seekable
      /\ source'.failures = source.failures /\ reader' \in Readers /\ Indexed(keys')
  BY <1>1, ReadTypes DEF TypeInv
<1>3. position' \in Positions /\ ctl' \in Controls /\ reply' \in Replies /\ ctl'.pc \in {"idle", "verify"}
  <2>1. ctl.frame \in Frames /\ ctl.adjustment \in Adjustments /\ ctl \in Controls /\ reply \in Replies
        /\ position \in Positions /\ source \in Sources /\ window \in Windows
    BY DEF TypeInv, Shapes, Controls
  <2> QED
    BY <1>1, <2>1, EndTypes, MarkInvalidTypes DEF TypeInv
<1>4. Reshapes
  BY <1>1, <1>2, <1>3 DEF Reshapes, TypeInv, Shapes
<1> QED
  BY <1>1, <1>2, <1>3, <1>4, QuietPhase DEF TypeInv

LEMMA VerifyEndTypes ==
  ASSUME TypeInv, VerifyEnd
  PROVE  Reshapes /\ Phases'
<1>1. /\ mode' = [mode EXCEPT !.tailEnd = VerifiedTail]
      /\ MarkInvalid /\ Judge(VerifiedTail)
      /\ UNCHANGED <<source, decoder, frontier, slots, reader, keys, ladder, window, landing>>
  BY DEF VerifyEnd
<1>2. VerifiedTail \in Int
  <2>1. reader.verifiedTo \in Int /\ ctl.frame \in Frames /\ FrameDuration \in Int
    BY ReaderParts, TicksTypes DEF TypeInv, Shapes, Controls
  <2>2. ctl.frame.pts \in Int
    BY <2>1, FrameTypes DEF TypeInv, Shapes
  <2> QED
    BY <2>1, <2>2 DEF VerifiedTail
<1>3. mode' \in Modes
  BY <1>1, <1>2 DEF TypeInv, Shapes, Modes
<1>4. position' \in Positions /\ ctl' \in Controls /\ reply' \in Replies /\ ctl'.pc = "idle"
  BY <1>1, JudgeTypes, MarkInvalidTypes DEF TypeInv
<1>5. Reshapes
  BY <1>1, <1>3, <1>4 DEF Reshapes, TypeInv, Shapes
<1> QED
  BY <1>1, <1>4, <1>5, QuietPhase DEF TypeInv

\* A step that leaves the request where it is.
LEMMA SamePhase ==
  ASSUME TypeInv, source'.setting = source.setting, source'.seekable = source.seekable,
         source'.failures = source.failures,
         ctl'.pc = ctl.pc, ctl'.purpose = ctl.purpose, ctl'.retrying = ctl.retrying, ctl'.aim = ctl.aim,
         reader'.packet = reader.packet, reader'.replay = reader.replay,
         UNCHANGED <<decoder, mode, window, landing>>,
         ReadsAll => source'.next = source.next /\ source'.sticky = source.sticky
  PROVE  Phases'
<1>1. ScanTrue => ScanTrue'
  BY LandingParts, SameStream, SameReads DEF ScanTrue, TypeInv
<1> QED
  BY <1>1, SameStream DEF TypeInv, Phases, Moving, Scanning, Arming, Seekable

LEMMA DemuxErrorTypes ==
  ASSUME TypeInv, DemuxError
  PROVE  Reshapes /\ Phases'
<1>1. /\ reader.replay = <<>> /\ HasPacket /\ reader.errors < MaxErrors
      /\ reader' = [reader EXCEPT !.errors = @ + 1]
      /\ frontier' = [frontier EXCEPT !.tainted = TRUE]
      /\ UNCHANGED <<decoder, position, slots, mode, keys, ladder, window, ctl, landing, reply>>
  BY DEF DemuxError
<1>2. PICK lost \in {0, 1} : source' = [source EXCEPT !.next = @ + lost]
  BY DEF DemuxError
<1>3. source.next \in Packets
  BY <1>1, NextPacket DEF TypeInv
<1>4. /\ source' \in Sources /\ source'.setting = source.setting /\ source'.seekable = source.seekable
      /\ source'.failures = source.failures
  <2> DEFINE i == source.next + lost
  <2>1. i \in 1..(Len(Stream) + 1)
    BY <1>3, StreamFacts DEF TypeInv, Shapes
  <2>2. source' = [source EXCEPT !.next = i, !.sticky = source.sticky, !.interrupted = source.interrupted]
    BY <1>2, SourceParts DEF TypeInv, SourceRecords
  <2> HIDE DEF i
  <2> QED
    BY <2>1, <2>2, SourceStep, SourceParts DEF TypeInv
<1>5. reader' \in Readers /\ reader'.packet = reader.packet /\ reader'.replay = reader.replay
  <2> DEFINE e == reader.errors + 1
  <2>1. e \in 0..MaxErrors
    BY <1>1, ReaderParts, TicksTypes DEF TypeInv
  <2>2. reader' = [reader EXCEPT !.packet = reader.packet, !.replay = reader.replay, !.errors = e,
                                 !.verifiedTo = reader.verifiedTo]
    BY <1>1, ReaderParts DEF ReaderRecords, TypeInv
  <2> HIDE DEF e
  <2> QED
    BY <2>1, <2>2, ReaderStep, ReaderParts DEF TypeInv
<1>6. frontier' \in FrontierRecords /\ frontier'.holes = frontier.holes
  BY <1>1, FrontierParts DEF TypeInv, FrontierRecords
<1>7. frontier' \in Frontiers
  BY <1>6, FrontierParts DEF TypeInv, Frontiers
<1>8. Reshapes
  BY <1>1, <1>4, <1>5, <1>7 DEF Reshapes, TypeInv, Shapes
<1>9. ~ReadsAll
  BY DEF DemuxError, ReadsAll
<1> QED
  BY <1>1, <1>4, <1>5, <1>8, <1>9, SamePhase

LEMMA CancelTypes ==
  ASSUME TypeInv, Cancel
  PROVE  Reshapes /\ Phases'
<1>1. /\ position' \in {position, Abandoned(position)} /\ Fail("cancelled") /\ landing' = NoLanding
      /\ UNCHANGED <<source, decoder, frontier, slots, mode, reader, keys, ladder, window>>
  BY DEF Cancel
<1>2. position' \in Positions /\ landing' \in Landings
  BY <1>1, AbandonedTypes, EmptyTypes DEF TypeInv, Shapes
<1>3. ctl' \in Controls /\ reply' \in Replies /\ ctl'.pc = "idle"
  BY <1>1, EndTypes DEF TypeInv, Shapes, Statuses
<1>4. Reshapes
  BY <1>1, <1>2, <1>3 DEF Reshapes, TypeInv, Shapes
<1> QED
  BY <1>1, <1>3, <1>4, QuietPhase DEF TypeInv

LEMMA InterruptReadTypes ==
  ASSUME TypeInv, InterruptRead
  PROVE  Reshapes /\ Phases'
<1>1. /\ position' \in {position, Abandoned(position)} /\ Fail("cancelled") /\ landing' = NoLanding
      /\ source' = [source EXCEPT !.interrupted = TRUE] \/ source' = [source EXCEPT !.sticky = TRUE]
      /\ UNCHANGED <<decoder, frontier, slots, mode, reader, keys, ladder, window>>
  BY DEF InterruptRead
<1>2. position' \in Positions /\ landing' \in Landings
  BY <1>1, AbandonedTypes, EmptyTypes DEF TypeInv, Shapes
<1>3. ctl' \in Controls /\ reply' \in Replies /\ ctl'.pc = "idle"
  BY <1>1, EndTypes DEF TypeInv, Shapes, Statuses
<1>4. /\ source' \in Sources /\ source'.setting = source.setting /\ source'.seekable = source.seekable
      /\ source'.failures = source.failures
  <2>1. \E sticky, interrupted \in BOOLEAN :
          source' = [source EXCEPT !.next = source.next, !.sticky = sticky, !.interrupted = interrupted]
    <3>1. CASE source' = [source EXCEPT !.interrupted = TRUE]
      <4>1. source' = [source EXCEPT !.next = source.next, !.sticky = source.sticky, !.interrupted = TRUE]
        BY <3>1, SourceParts DEF TypeInv, SourceRecords
      <4>2. source.sticky \in BOOLEAN /\ TRUE \in BOOLEAN
        BY SourceParts DEF TypeInv
      <4> QED
        BY <4>1, <4>2
    <3>2. CASE source' = [source EXCEPT !.sticky = TRUE]
      <4>1. source' = [source EXCEPT !.next = source.next, !.sticky = TRUE, !.interrupted = source.interrupted]
        BY <3>2, SourceParts DEF TypeInv, SourceRecords
      <4>2. source.interrupted \in BOOLEAN /\ TRUE \in BOOLEAN
        BY SourceParts DEF TypeInv
      <4> QED
        BY <4>1, <4>2
    <3> QED
      BY <1>1, <3>1, <3>2
  <2>2. PICK sticky \in BOOLEAN, interrupted \in BOOLEAN :
          source' = [source EXCEPT !.next = source.next, !.sticky = sticky, !.interrupted = interrupted]
    BY <2>1
  <2> QED
    BY <2>2, SourceStep, SourceParts DEF TypeInv
<1>5. Reshapes
  BY <1>1, <1>2, <1>3, <1>4 DEF Reshapes, TypeInv, Shapes
<1> QED
  BY <1>1, <1>3, <1>4, <1>5, QuietPhase DEF TypeInv

LEMMA ShortReadTypes ==
  ASSUME TypeInv, ShortRead
  PROVE  Reshapes /\ Phases'
<1>1. /\ source' = [source EXCEPT !.interrupted = TRUE, !.sticky = TRUE]
      /\ ctl' = [ctl EXCEPT !.cut = TRUE]
      /\ UNCHANGED <<decoder, position, frontier, slots, mode, reader, keys, ladder, window, landing, reply>>
  BY DEF ShortRead
<1>2. /\ ctl' \in Controls /\ ctl'.pc = ctl.pc /\ ctl'.purpose = ctl.purpose /\ ctl'.retrying = ctl.retrying
      /\ ctl'.aim = ctl.aim
  BY <1>1 DEF TypeInv, Shapes, Controls
<1>3. /\ source' \in Sources /\ source'.setting = source.setting /\ source'.seekable = source.seekable
      /\ source'.failures = source.failures
  <2>1. source' = [source EXCEPT !.next = source.next, !.sticky = TRUE, !.interrupted = TRUE]
    BY <1>1, SourceParts DEF TypeInv, SourceRecords
  <2>2. TRUE \in BOOLEAN
    OBVIOUS
  <2> QED
    BY <2>1, <2>2, SourceStep, SourceParts DEF TypeInv
<1>4. Reshapes
  BY <1>1, <1>2, <1>3 DEF Reshapes, TypeInv, Shapes
<1>5. ~ReadsAll
  BY DEF ShortRead, ReadsAll
<1> QED
  BY <1>1, <1>2, <1>3, <1>4, <1>5, SamePhase

LEMMA InterruptSeekTypes ==
  ASSUME TypeInv, InterruptSeek
  PROVE  Reshapes /\ Phases'
<1>1. Forget /\ MarkInvalid /\ Fail("cancelled") /\ UNCHANGED <<decoder, ladder, window, landing>>
  BY DEF InterruptSeek
<1>2. PICK i \in {source.next, Len(Stream) + 1} : source' = [source EXCEPT !.interrupted = TRUE, !.next = i]
  BY DEF InterruptSeek
<1>3. /\ source' \in Sources /\ source'.setting = source.setting /\ source'.seekable = source.seekable
      /\ source'.failures = source.failures
  <2>1. source' = [source EXCEPT !.next = i, !.sticky = source.sticky, !.interrupted = TRUE]
    BY <1>2, SourceParts DEF TypeInv, SourceRecords
  <2>2. TRUE \in BOOLEAN /\ i \in 1..(Len(Stream) + 1)
    BY SourceParts, StreamFacts DEF TypeInv, Shapes
  <2> QED
    BY <2>1, <2>2, SourceStep, SourceParts DEF TypeInv
<1>4. /\ slots' \in Slots /\ frontier' \in Frontiers /\ mode' \in Modes /\ reader' \in Readers /\ Indexed(keys')
  <2>1. NoFrontier \in Frontiers /\ mode \in Modes /\ reader.verifiedTo \in Int
    BY EmptyTypes, ReaderParts DEF TypeInv, Shapes
  <2> QED
    BY <1>1, <2>1, ResetTypes DEF Forget, TypeInv
<1>5. position' \in Positions /\ ctl' \in Controls /\ reply' \in Replies /\ ctl'.pc = "idle"
  BY <1>1, EndTypes, MarkInvalidTypes DEF TypeInv, Shapes, Statuses
<1>6. Reshapes
  BY <1>1, <1>3, <1>4, <1>5 DEF Reshapes, TypeInv, Shapes
<1> QED
  BY <1>3, <1>5, <1>6, QuietPhase DEF TypeInv

-----------------------------------------------------------------------------
(* The type invariant.                                                      *)

LEMMA InitTypes == Init => TypeInv
<1> SUFFICES ASSUME Init PROVE TypeInv
  OBVIOUS
<1>1. PICK s \in Settings :
        source = [setting |-> s, next |-> 1, sticky |-> FALSE, interrupted |-> FALSE, failures |-> 0,
                  seekable |-> s.container # "pipe"]
  BY DEF Init
<1>2. Len(s.stream) \in Nat
  <2> DEFINE Shape == [pts : (NoPts + 1)..(Forever - 1), dts : Int, key : BOOLEAN, refs : SUBSET Int]
             packets == s.stream
  <2>1. packets \in Seq(Shape)
    BY <1>1, StreamAssumption
  <2> HIDE DEF Shape, packets
  <2>2. Len(packets) \in Nat
    BY <2>1
  <2> QED
    BY <2>2 DEF packets
<1>3. source \in Sources
  <2>1. source \in SourceRecords
    BY <1>1, TicksTypes DEF SourceRecords
  <2>2. source.next \in 1..(Len(source.setting.stream) + 1)
    BY <1>1, <1>2
  <2> QED
    BY <2>1, <2>2 DEF Sources
<1>4. /\ decoder \in Decoders /\ decoder.buffer = {} /\ frontier \in Frontiers /\ landing \in Landings
      /\ reply \in Replies
  BY <1>3, EmptyTypes DEF Init, EmptyDecoder
<1>5. StartPts \in Int /\ NoPts \in Int /\ Forever \in Int /\ 0 \in 0..MaxErrors /\ 0 \in 0..(MaxErrors + 1)
      /\ 0 \in 0..MaxBackoffs /\ 0 \in Int
  BY <1>3, StreamFacts, TicksTypes DEF StartPts
<1>6. position \in Positions
  BY <1>5 DEF Init, Positions
<1>7. slots \in Slots
  BY <1>3, FrameTypes DEF Init
<1>8. mode \in Modes /\ ladder \in Ladders
  BY <1>5 DEF Init, Modes, Ladders
<1>9. reader \in Readers
  <2>1. <<>> \in Seq(Packets) /\ Len(<<>>) = 0
    OBVIOUS
  <2>2. reader \in ReaderRecords /\ reader.replay = <<>>
    BY <1>5, <2>1 DEF Init, ReaderRecords
  <2> QED
    BY <2>1, <2>2, TicksTypes DEF Readers
<1>10. Indexed(keys)
  <2> DEFINE empty == [k \in {} |-> NoPts]
  <2>1. {} \in SUBSET KeyTimes /\ empty \in [{} -> Int]
    BY <1>5
  <2>2. keys = [next |-> empty, contiguous |-> NoPts, gopHint |-> 0, reorder |-> NoPts]
    BY DEF Init, EmptyIndex
  <2> HIDE DEF empty
  <2>3. keys \in Indices /\ Recorded(keys) = {}
    BY <1>5, <2>1, <2>2, IndexFrom
  <2>4. Cardinality(Recorded(keys)) = 0
    BY <2>3, FS_EmptySet
  <2> QED
    BY <2>3, <2>4, IndexAssumption DEF Indexed
<1>11. window \in Windows
  <2>1. -Forever \in Int
    BY <1>5
  <2> QED
    BY <1>5, <2>1 DEF Init, Probe, Windows, Adjustments
<1>12. ctl \in Controls /\ ctl.pc = "select"
  BY <1>3, EmptyTypes DEF Init, Idle, Controls, Places
<1>13. Shapes
  BY <1>3, <1>4, <1>6, <1>7, <1>8, <1>9, <1>10, <1>11, <1>12 DEF Shapes
<1>14. source.seekable <=> (IoSeekable /\ source.failures < MaxSeekFailures)
  <2>1. source.setting = s /\ source.failures = 0 /\ source.seekable = (s.container # "pipe") /\ 0 < MaxSeekFailures
    BY <1>1, TicksTypes
  <2> QED
    BY <2>1 DEF IoSeekable, Container
<1>15. Phases
  BY <1>4, <1>12, <1>14 DEF Phases, Moving, Scanning, Arming
<1> QED
  BY <1>13, <1>15 DEF TypeInv

LEMMA StepTypes ==
  ASSUME TypeInv, Next
  PROVE  Reshapes /\ Phases'
<1>1. CASE Starts
  BY <1>1, AcceptTypes, RecoverTypes, AnswerFromHeldTypes, AnswerAtTailTypes, PromoteTypes, ContinueTypes,
     RepositionTypes DEF Starts
<1>2. CASE Moves
  BY <1>2, PositionTypes, PositionUnseekableTypes, SeekToStartTypes, SeekTypes, SeekFailsTypes, ByteSeekTypes,
     ByteSeekFailsTypes, BackOffTypes DEF Moves
<1>3. CASE Lands
  BY <1>3, LandOnAnythingTypes, LandOnNonKeyTypes, LandPastTargetTypes, LandOnKeyTypes, LandAtEndTypes,
     SettleOnParkedTypes, SettleOnReplayTypes, SettleByRewindingTypes, AfterLandingTypes DEF Lands
<1>4. CASE Selects
  BY <1>4, AnswerFirstFrameTypes, FetchKeyframeTypes, FeedKeyframeAndDrainTypes, FeedHeldPacketTypes,
     SkipToKeyframeTypes, FeedNextPacketTypes, StartDrainTypes, DemuxErrorTypes, StashCorruptTypes,
     PlaceInKeyframeModeTypes, PlaceInExactModeTypes, LookAheadTypes, BackOffFromOvershootTypes,
     AnswerOvershootTypes, BackOffFromTailTypes, RetryAfterEmptyEofTypes, EndOfStreamTypes DEF Selects
<1>5. CASE Ends
  BY <1>5, GiveAnswerTypes, VerifyTailTypes, VerifyPacketTypes, VerifyEndTypes DEF Ends
<1>6. CASE Cancels
  BY <1>6, CancelTypes, InterruptReadTypes, ShortReadTypes, InterruptSeekTypes DEF Cancels
<1>7. CASE NoGenerator
  <2>1. Reshapes
    BY <1>7 DEF NoGenerator, vars, Reshapes, TypeInv, Shapes
  <2>2. /\ UNCHANGED <<decoder, mode, window, landing, ctl, reader, source>>
    BY <1>7 DEF NoGenerator, vars
  <2> QED
    BY <2>1, <2>2, SamePhase
<1> QED
  BY <1>1, <1>2, <1>3, <1>4, <1>5, <1>6, <1>7 DEF Next

LEMMA TypeInvStep == TypeInv /\ [Next]_vars => TypeInv'
<1> SUFFICES ASSUME TypeInv, [Next]_vars PROVE TypeInv'
  OBVIOUS
<1>1. CASE Next
  BY <1>1, StepTypes, StillShaped DEF TypeInv
<1>2. CASE UNCHANGED vars
  <2>1. Reshapes
    BY <1>2 DEF vars, Reshapes, TypeInv, Shapes
  <2>2. UNCHANGED <<decoder, mode, window, landing, ctl, reader, source>>
    BY <1>2 DEF vars
  <2>3. Phases'
    BY <2>1, <2>2, SamePhase
  <2> QED
    BY <2>1, <2>3, StillShaped DEF TypeInv
<1> QED
  BY <1>1, <1>2

\* The inductive invariant: what each record can hold, and what the place a
\* request is at says of the mode, the slots of the reader and the decoder.
THEOREM PipelineKeepsItsPlace == Spec => []TypeInv
<1> QED
  BY InitTypes, TypeInvStep, PTL DEF Spec

LEMMA TypeInvImpliesTypeOK == TypeInv => TypeOK
<1> SUFFICES ASSUME TypeInv PROVE TypeOK
  OBVIOUS
<1>1. source.next \in 1..(Len(Stream) + 1) /\ source.failures \in 0..MaxSeekFailures
      /\ {source.sticky, source.interrupted, source.seekable} \subseteq BOOLEAN
  BY DEF TypeInv, Shapes, Sources, SourceRecords, Stream
<1>2. decoder.buffer \subseteq Times /\ decoder.intact \subseteq Times /\ Cardinality(decoder.buffer) <= Depth + 1
  BY DEF TypeInv, Shapes, Decoders, DecoderRecords
<1>3. {frontier.received, frontier.lastKey, frontier.fedPts} \subseteq Times \cup {NoPts}
      /\ frontier.holes \subseteq Times /\ Cardinality(frontier.holes) <= MaxHoles
  BY FrontierParts DEF TypeInv
<1>4. {slots.held, slots.pending, slots.corruptLast} \subseteq Frames
  BY SlotTypes, FrameTypes DEF TypeInv, Shapes
<1>5. /\ reader.packet \in Packets \cup {0} /\ Len(reader.replay) <= MaxGopPackets
      /\ reader.errors \in 0..MaxErrors /\ mode.errors \in 0..(MaxErrors + 1)
  BY ReaderParts DEF TypeInv, Shapes, Modes
<1>6. Recorded(keys) \subseteq KeyTimes /\ Cardinality(Recorded(keys)) <= MaxKeyEntries
  BY IndexShape DEF TypeInv, Shapes, Indexed
<1>7. ladder.backoffs \in 0..MaxBackoffs
  BY DEF TypeInv, Shapes, Ladders
<1>8. reply.status \in Statuses /\ reply.adjustment \in Adjustments /\ reply.frame \in Frames
  BY DEF TypeInv, Shapes, Replies
<1> QED
  BY <1>1, <1>2, <1>3, <1>4, <1>5, <1>6, <1>7, <1>8 DEF TypeOK

\* Every record of the pipeline has its shape and every counter its bound, the
\* decoder's pictures, the skipped frames, the replay buffer and the index of
\* FramePipeline.h, PacketReader.h and KeyframeIndex.h among them, whatever the
\* stream, the requests and the failures.
THEOREM PipelineTypeOK == Spec => []TypeOK
<1> QED
  BY PipelineKeepsItsPlace, TypeInvImpliesTypeOK, PTL

-----------------------------------------------------------------------------
(* What the recorded index says is so.                                      *)

Truthful(ix) ==
  \A k \in Recorded(ix) : ix.next[k] # NoPts =>
    k < ix.next[k] /\ \A other \in KeyTimes : other <= k \/ ix.next[k] <= other

\* The key frame the chain of packets starts from is the last one before packet n.
Chained(ix, n) ==
  ix.contiguous # NoPts =>
    \A j \in Packets : IsKey(j) => (j < n <=> Pts(j) <= ix.contiguous)

IndexInv == ReadsAll => Truthful(keys) /\ Chained(keys, source.next) /\ (Trusted => keys.contiguous = NoPts)

LEMMA RecordKeyTrue ==
  ASSUME source \in Sources, ReadsAll, NEW ix, Indexed(ix), NEW i \in Packets, IsKey(i),
         Truthful(ix), Chained(ix, i)
  PROVE  Truthful(RecordKey(ix, Pts(i))) /\ Chained(RecordKey(ix, Pts(i)), i + 1)
<1> DEFINE pts == Pts(i)
           new == RecordKey(ix, pts)
<1>1. pts \in KeyTimes /\ pts \in Int /\ KeyTimes \subseteq Int /\ Packets \subseteq Int /\ NoPts \notin KeyTimes
  BY StreamFacts DEF KeyTimes
<1>2. Recorded(ix) \subseteq KeyTimes /\ ix.contiguous \in Int
  BY IndexShape DEF Indexed
<1>3. ~IsFull(ix, pts)
  <2>1. SUFFICES ASSUME pts \notin Recorded(ix) PROVE Cardinality(Recorded(ix)) < MaxKeyEntries
    BY IndexAssumption, <1>2, TimesAreFinite, FS_Subset, FS_CardinalityType DEF IsFull
  <2>2. Recorded(ix) # KeyTimes /\ IsFiniteSet(KeyTimes)
    BY <1>1, <2>1, TimesAreFinite
  <2>3. Cardinality(Recorded(ix)) < Cardinality(KeyTimes)
    <3>1. Cardinality(Recorded(ix)) \in Nat /\ Cardinality(KeyTimes) \in Nat
      BY <1>2, <2>2, FS_Subset, FS_CardinalityType
    <3>2. Cardinality(Recorded(ix)) <= Cardinality(KeyTimes)
      BY <1>2, <2>2, FS_Subset
    <3>3. Cardinality(Recorded(ix)) # Cardinality(KeyTimes)
      BY <1>2, <2>2, FS_Subset
    <3> QED
      BY <3>1, <3>2, <3>3
  <2>4. Cardinality(KeyTimes) <= MaxKeyEntries /\ Cardinality(KeyTimes) \in Nat /\ Cardinality(Recorded(ix)) \in Nat
    BY <1>2, <2>2, FS_Subset, FS_CardinalityType DEF ReadsAll
  <2> QED
    BY <2>3, <2>4, IndexAssumption
<1>4. new.next = NextWith(ix, pts) /\ new.contiguous = pts /\ Recorded(new) = Recorded(ix) \cup {pts}
  BY <1>1, <1>3, RecordKeyFacts
<1>5. \A j \in Packets : IsKey(j) => (j < i + 1 <=> Pts(j) <= pts)
  <2> SUFFICES ASSUME NEW j \in Packets, IsKey(j) PROVE j < i + 1 <=> Pts(j) <= pts
    OBVIOUS
  <2>1. (j < i => Pts(j) < pts) /\ (i < j => pts < Pts(j)) /\ i \in Int /\ j \in Int /\ Pts(j) \in Int
    BY <1>1, StreamFacts DEF ReadsAll
  <2> QED
    BY <1>1, <2>1
<1>6. Chained(new, i + 1)
  BY <1>4, <1>5 DEF Chained
<1>7. ASSUME NEW k \in Recorded(new), new.next[k] # NoPts
      PROVE  k < new.next[k] /\ \A other \in KeyTimes : other <= k \/ new.next[k] <= other
  <2>1. new.next[k] = IF k = ix.contiguous /\ Precedes(ix, pts) THEN pts
                      ELSE IF k \in Recorded(ix) THEN ix.next[k] ELSE NoPts
    BY <1>4, <1>7 DEF NextWith
  <2>2. CASE k = ix.contiguous /\ Precedes(ix, pts)
    <3>1. k < pts /\ ix.contiguous # NoPts /\ k \in Int
      BY <1>2, <2>2 DEF Precedes
    <3>2. ASSUME NEW other \in KeyTimes PROVE other <= k \/ pts <= other
      <4>1. PICK j \in Packets : IsKey(j) /\ other = Pts(j)
        BY DEF KeyTimes
      <4>2. j < i <=> other <= k
        BY <2>2, <3>1, <4>1 DEF Chained
      <4>3. j < i + 1 <=> other <= pts
        BY <1>5, <4>1
      <4>4. j = i => other = pts
        BY <4>1
      <4> QED
        BY <1>1, <4>2, <4>3, <4>4
    <3> QED
      BY <2>1, <2>2, <3>1, <3>2
  <2>3. CASE ~(k = ix.contiguous /\ Precedes(ix, pts))
    <3>1. k \in Recorded(ix) /\ new.next[k] = ix.next[k]
      BY <1>7, <2>1, <2>3
    <3> QED
      BY <1>7, <3>1 DEF Truthful
  <2> QED
    BY <2>2, <2>3
<1> QED
  BY <1>6, <1>7 DEF Truthful

\* A packet read in its turn keeps the index true.
LEMMA ReadTrue ==
  ASSUME Shapes, IndexInv, ReadsAll, source.next \in Packets,
         NEW ix, ix.next = NotePacket(source.next).next, ix.contiguous = NotePacket(source.next).contiguous
  PROVE  /\ Truthful(ix) /\ Chained(ix, source.next + 1) /\ (Trusted => ix.contiguous = NoPts)
<1> DEFINE i == source.next
           noted == NotePacket(i)
<1>1. source \in Sources /\ Indexed(keys) /\ Truthful(keys) /\ Chained(keys, i) /\ (Trusted => keys.contiguous = NoPts)
  BY DEF IndexInv, Shapes
<1>2. Truthful(noted) /\ Chained(noted, i + 1) /\ (Trusted => noted.contiguous = NoPts)
  <2> HIDE DEF i
  <2>0. i \in Packets /\ Packets \subseteq Int
    BY <1>1, StreamFacts DEF i
  <2>1. CASE ~IsKey(i)
    <3>1. noted = keys
      BY <1>1, <2>0, <2>1, NotePacketFacts
    <3>2. \A j \in Packets : IsKey(j) => (j < i + 1 <=> j < i)
      <4> SUFFICES ASSUME NEW j \in Packets, IsKey(j) PROVE j < i + 1 <=> j < i
        OBVIOUS
      <4>1. j # i /\ j \in Int /\ i \in Int
        BY <2>0, <2>1
      <4> QED
        BY <4>1
    <3> QED
      BY <1>1, <3>1, <3>2 DEF Chained
  <2>2. CASE IsKey(i) /\ Trusted
    <3>1. noted.next = keys.next /\ noted.contiguous = keys.contiguous
      BY <1>1, <2>0, <2>2, NotePacketFacts
    <3> QED
      BY <1>1, <2>2, <3>1 DEF Truthful, Chained, Recorded
  <2>3. CASE IsKey(i) /\ ~Trusted
    <3>1. PICK learned : /\ Indexed(learned) /\ learned.next = keys.next /\ learned.contiguous = keys.contiguous
                         /\ noted = RecordKey(learned, Pts(i))
      BY <1>1, <2>0, <2>3, NotePacketFacts
    <3>2. Truthful(learned) /\ Chained(learned, i)
      BY <1>1, <3>1 DEF Truthful, Chained, Recorded
    <3> QED
      BY <1>1, <2>0, <2>3, <3>1, <3>2, RecordKeyTrue
  <2> QED
    BY <2>1, <2>2, <2>3
<1> HIDE DEF noted
<1> QED
  BY <1>2 DEF Truthful, Chained, Recorded, noted, i

\* A step that only forgets, if anything.
KeysKept ==
  /\ keys'.next = keys.next
  /\ \/ keys'.contiguous = NoPts
     \/ keys'.contiguous = keys.contiguous /\ source'.next = source.next

LEMMA KeptTrue ==
  ASSUME Shapes, IndexInv, source'.setting = source.setting, KeysKept
  PROVE  IndexInv'
<1>1. /\ ReadsAll' <=> ReadsAll
      /\ Trusted' = Trusted /\ Packets' = Packets /\ KeyTimes' = KeyTimes /\ Stream' = Stream
  BY SameReads, SameStream
<1>2. ASSUME ReadsAll PROVE Truthful(keys)' /\ Chained(keys, source.next)' /\ (Trusted => keys'.contiguous = NoPts)
  BY <1>1, <1>2 DEF KeysKept, IndexInv, Truthful, Chained, Recorded, IsKey, Pts
<1> QED
  BY <1>1, <1>2 DEF IndexInv

\* A step that reads a packet and notes it.
LEMMA ReadKeepsIndex ==
  ASSUME Shapes, IndexInv, source'.setting = source.setting, source.next \in Packets,
         source'.next = source.next + 1,
         keys'.next = NotePacket(source.next).next, keys'.contiguous = NotePacket(source.next).contiguous
  PROVE  IndexInv'
<1>1. /\ ReadsAll' <=> ReadsAll
      /\ Trusted' = Trusted /\ Packets' = Packets /\ KeyTimes' = KeyTimes /\ Stream' = Stream
  BY SameReads, SameStream
<1>2. ASSUME ReadsAll PROVE Truthful(keys)' /\ Chained(keys, source.next)' /\ (Trusted => keys'.contiguous = NoPts)
  <2> DEFINE ix == keys'
  <2>1. ix.next = NotePacket(source.next).next /\ ix.contiguous = NotePacket(source.next).contiguous
    OBVIOUS
  <2> HIDE DEF ix
  <2>2. Truthful(ix) /\ Chained(ix, source.next + 1) /\ (Trusted => ix.contiguous = NoPts)
    BY <1>2, <2>1, ReadTrue
  <2> QED
    BY <1>1, <2>2 DEF Truthful, Chained, Recorded, IsKey, Pts, ix
<1> QED
  BY <1>1, <1>2 DEF IndexInv

\* The end of the stream reached inside a group: its key frame was the last one.
LEMMA EndTrue ==
  ASSUME TypeInv, IndexInv, LandAtEnd
  PROVE  IndexInv'
<1>1. /\ ctl.pc = "landing" /\ AtEnd /\ source' = source
      /\ keys' = IF landing.best = 0 THEN keys ELSE NoteStreamEndedInGop(keys, Pts(landing.best))
  BY DEF LandAtEnd, At
<1>2. CASE landing.best = 0
  BY <1>1, <1>2, KeptTrue DEF KeysKept, TypeInv
<1>3. CASE landing.best # 0
  <2> DEFINE pts == Pts(landing.best)
             ended == NoteStreamEndedInGop(keys, pts)
  <2>1. ScanTrue /\ reader.replay = <<>> /\ landing.best \in Packets
    BY <1>1, <1>3, LandingParts DEF TypeInv, Phases
  <2>2. pts \in Int /\ pts < Forever /\ Indexed(keys) /\ source \in Sources
    BY <2>1, StreamFacts DEF TypeInv, Shapes
  <2>3. /\ ended.contiguous = keys.contiguous /\ Recorded(ended) = Recorded(keys)
        /\ \A k \in Recorded(keys) : ended.next[k] = IF k = pts THEN Forever ELSE keys.next[k]
    <3> HIDE DEF pts
    <3> QED
      BY <2>2, IndexNotes
  <2>4. ASSUME ReadsAll PROVE \A other \in KeyTimes : other <= pts
    <3> SUFFICES ASSUME NEW other \in KeyTimes PROVE other <= pts
      OBVIOUS
    <3>1. PICK j \in Packets : IsKey(j) /\ other = Pts(j)
      BY DEF KeyTimes
    <3>2. ~HasPacket /\ source.next \notin Packets
      BY <1>1, <1>3, <2>1, <2>4 DEF AtEnd, HasPacket, ReadsAll, ScanTrue
    <3>3. source.next \in 1..(Len(Stream) + 1) /\ Packets = 1..Len(Stream) /\ Len(Stream) \in Nat
      BY <2>2, SourceParts, StreamFacts DEF TypeInv
    <3>4. ~(landing.best < j)
      <4>1. landing.best < j => source.next <= j
        BY <1>3, <2>4, <3>1, <2>1 DEF ScanTrue
      <4> QED
        BY <3>2, <3>3, <4>1
    <3>5. j < landing.best => Pts(j) < pts
      BY <1>3, <2>1, <2>4, <3>1 DEF ReadsAll, ScanTrue
    <3>6. j \in Int /\ landing.best \in Int /\ Pts(j) \in Int
      BY <2>1, <2>2, <3>3, StreamFacts
    <3> QED
      BY <2>2, <3>1, <3>4, <3>5, <3>6
  <2>5. ASSUME ReadsAll PROVE Truthful(ended) /\ Chained(ended, source.next) /\ (Trusted => ended.contiguous = NoPts)
    <3>1. Truthful(keys) /\ Chained(keys, source.next) /\ (Trusted => keys.contiguous = NoPts)
      BY <2>5 DEF IndexInv
    <3>2. Truthful(ended)
      BY <2>2, <2>3, <2>4, <2>5, <3>1 DEF Truthful
    <3> QED
      BY <2>3, <3>1, <3>2 DEF Chained
  <2> HIDE DEF ended
  <2>6. keys' = ended
    BY <1>1, <1>3 DEF ended
  <2>7. /\ ReadsAll' <=> ReadsAll
        /\ Trusted' = Trusted /\ Packets' = Packets /\ KeyTimes' = KeyTimes /\ Stream' = Stream
    BY <1>1, SameReads, SameStream
  <2>8. ASSUME ReadsAll PROVE Truthful(keys)' /\ Chained(keys, source.next)' /\ (Trusted => keys'.contiguous = NoPts)
    BY <1>1, <2>5, <2>6, <2>7, <2>8 DEF Truthful, Chained, Recorded, IsKey, Pts
  <2> QED
    BY <2>7, <2>8 DEF IndexInv
<1> QED
  BY <1>2, <1>3

-----------------------------------------------------------------------------
(* The index through every step.                                            *)

LEMMA IndexAtInit == Init => IndexInv
<1> SUFFICES ASSUME Init PROVE IndexInv
  OBVIOUS
<1>1. keys = EmptyIndex
  BY DEF Init
<1>2. Recorded(keys) = {} /\ keys.contiguous = NoPts
  BY <1>1 DEF EmptyIndex, Recorded
<1> QED
  BY <1>2 DEF IndexInv, Truthful, Chained

LEMMA StartsKeepIndex ==
  ASSUME TypeInv, Starts
  PROVE  KeysKept
<1>1. CASE Recover
  <2>1. ResetPosition([NoFrontier EXCEPT !.received = IF Seekable THEN NoPts ELSE frontier.received],
                      mode, reader.verifiedTo)
    BY <1>1 DEF Recover
  <2> QED
    BY <2>1 DEF ResetPosition, ResetContiguity, KeysKept, TypeInv, Shapes, Indexed, Indices
<1>2. CASE ~Recover
  BY <1>2 DEF Starts, Accept, AnswerFromHeld, AnswerAtTail, Promote, Continue, Reposition, KeysKept
<1> QED
  BY <1>1, <1>2

LEMMA ResetKeepsIndex ==
  ASSUME TypeInv, NEW f, NEW m, NEW v, ResetPosition(f, m, v)
  PROVE  KeysKept
<1>1. keys' = [keys EXCEPT !.contiguous = NoPts]
  BY DEF ResetPosition, ResetContiguity
<1> QED
  BY <1>1 DEF KeysKept, TypeInv, Shapes, Indexed, Indices

LEMMA MovesKeepIndex ==
  ASSUME TypeInv, Moves
  PROVE  KeysKept
<1>1. CASE Position \/ BackOff
  BY <1>1 DEF Position, BackOff, KeysKept
<1>2. CASE PositionUnseekable
  <2>1. (\E failures : Reopen(failures)) \/ UNCHANGED <<source, keys>>
    BY <1>2 DEF PositionUnseekable
  <2>2. CASE \E failures : Reopen(failures)
    BY <2>2, ResetKeepsIndex DEF Reopen
  <2>3. CASE UNCHANGED <<source, keys>>
    BY <2>3 DEF KeysKept
  <2> QED
    BY <2>1, <2>2, <2>3
<1>3. CASE SeekToStart \/ Seek \/ ByteSeek
  <2>1. Forget
    BY <1>3 DEF SeekToStart, Seek, ByteSeek, AfterSeek
  <2> QED
    BY <2>1, ResetKeepsIndex DEF Forget
<1>4. CASE SeekFails
  <2>1. \E failures : Reopen(failures)
    BY <1>4 DEF SeekFails
  <2> QED
    BY <2>1, ResetKeepsIndex DEF Reopen
<1>5. CASE ByteSeekFails
  BY <1>5, ResetKeepsIndex DEF ByteSeekFails, Forget
<1> QED
  BY <1>1, <1>2, <1>3, <1>4, <1>5 DEF Moves

\* What a step that reads a packet does to the index.
LEMMA ReadsKeepIndex ==
  ASSUME TypeInv, IndexInv, source'.setting = source.setting, HasPacket, NEW keep, Read(keep)
  PROVE  IndexInv'
<1>1. CASE reader.replay # <<>>
  BY <1>1, KeptTrue DEF Read, KeysKept, TypeInv
<1>2. CASE reader.replay = <<>>
  <2>1. source.next \in Packets
    BY <1>2, NextPacket DEF TypeInv
  <2>2. source' = [source EXCEPT !.next = @ + 1] /\ keys' = NotePacket(source.next)
    BY <1>2 DEF Read, ReadFromDemuxer
  <2>3. source'.next = source.next + 1
    BY <2>2, SourceParts DEF SourceRecords, TypeInv
  <2> QED
    BY <2>1, <2>2, <2>3, ReadKeepsIndex DEF TypeInv
<1> QED
  BY <1>1, <1>2

LEMMA KeyLandingsKeepIndex ==
  ASSUME TypeInv, IndexInv, source'.setting = source.setting, LandPastTarget \/ LandOnKey
  PROVE  IndexInv'
<1>1. HasPacket /\ ctl.pc = "landing" /\ \E keep : ReadFromDemuxer(keep, LandingIndex(Next1))
  BY DEF LandPastTarget, LandOnKey, At
<1>2. reader.replay = <<>>
  BY <1>1 DEF TypeInv, Phases
<1>3. source.next \in Packets /\ Next1 = source.next
  BY <1>1, <1>2, NextPacket DEF TypeInv
<1>4. source' = [source EXCEPT !.next = @ + 1] /\ keys' = LandingIndex(source.next)
  BY <1>1, <1>3 DEF ReadFromDemuxer
<1>5. source'.next = source.next + 1
  BY <1>4, SourceParts DEF SourceRecords, TypeInv
<1>6. keys'.next = NotePacket(source.next).next /\ keys'.contiguous = NotePacket(source.next).contiguous
  BY <1>3, <1>4, LandingIndexTypes DEF TypeInv
<1> QED
  BY <1>3, <1>5, <1>6, ReadKeepsIndex DEF TypeInv

LEMMA LandsKeepIndex ==
  ASSUME TypeInv, IndexInv, source'.setting = source.setting, Lands
  PROVE  IndexInv'
<1>1. CASE LandOnAnything \/ LandOnNonKey
  <2>1. HasPacket /\ \E keep : Read(keep)
    BY <1>1 DEF LandOnAnything, LandOnNonKey
  <2> QED
    BY <2>1, ReadsKeepIndex
<1>2. CASE LandPastTarget \/ LandOnKey
  BY <1>2, KeyLandingsKeepIndex
<1>3. CASE LandAtEnd
  BY <1>3, EndTrue
<1>4. CASE SettleOnParked \/ SettleOnReplay \/ SettleByRewinding \/ AfterLanding
  <2>1. UNCHANGED <<source, keys>>
    BY <1>4 DEF SettleOnParked, SettleOnReplay, SettleByRewinding, AfterLanding
  <2> QED
    BY <2>1, KeptTrue DEF KeysKept, TypeInv
<1> QED
  BY <1>1, <1>2, <1>3, <1>4 DEF Lands

\* A received frame says how long a group is, and nothing of where key frames are.
LEMMA ReceivedKeepsIndex ==
  ASSUME TypeInv, Emits, NEW damaged \in BOOLEAN, Receive(damaged)
  PROVE  KeysKept
<1>1. keys'.next = keys.next /\ keys'.contiguous = keys.contiguous
  BY ReceiveTypes DEF TypeInv
<1> QED
  BY <1>1 DEF Receive, KeysKept

LEMMA SelectsKeepIndex ==
  ASSUME TypeInv, IndexInv, source'.setting = source.setting, Selects
  PROVE  IndexInv'
<1>1. CASE SkipToKeyframe \/ FeedNextPacket
  <2>1. HasPacket /\ Read(FALSE)
    BY <1>1 DEF SkipToKeyframe, FeedNextPacket
  <2> QED
    BY <2>1, ReadsKeepIndex
<1>2. CASE DemuxError
  <2>1. ~ReadsAll
    BY <1>2 DEF DemuxError, ReadsAll
  <2> QED
    BY <2>1, SameReads DEF IndexInv
<1>3. CASE StashCorrupt \/ PlaceInKeyframeMode \/ PlaceInExactMode \/ LookAhead
           \/ BackOffFromOvershoot \/ AnswerOvershoot
  <2>1. Emits /\ \E damaged \in BOOLEAN : Receive(damaged)
    BY <1>3 DEF StashCorrupt, PlaceInKeyframeMode, PlaceInExactMode, LookAhead, BackOffFromOvershoot,
                AnswerOvershoot, Overshoots
  <2> QED
    BY <2>1, ReceivedKeepsIndex, KeptTrue DEF TypeInv
<1>4. CASE RetryAfterEmptyEof
  <2>1. ResetPosition(NoFrontier, [mode EXCEPT !.eofRetried = TRUE], reader.verifiedTo)
    BY <1>4 DEF RetryAfterEmptyEof
  <2> QED
    BY <2>1, ResetKeepsIndex, KeptTrue DEF TypeInv
<1>5. CASE AnswerFirstFrame \/ FetchKeyframe \/ FeedKeyframeAndDrain \/ FeedHeldPacket \/ StartDrain
           \/ BackOffFromTail \/ EndOfStream
  <2>1. UNCHANGED <<source, keys>>
    BY <1>5 DEF AnswerFirstFrame, FetchKeyframe, FeedKeyframeAndDrain, FeedHeldPacket, StartDrain,
                BackOffFromTail, EndOfStream
  <2> QED
    BY <2>1, KeptTrue DEF KeysKept, TypeInv
<1> QED
  BY <1>1, <1>2, <1>3, <1>4, <1>5 DEF Selects

LEMMA EndsKeepIndex ==
  ASSUME TypeInv, IndexInv, source'.setting = source.setting, Ends
  PROVE  IndexInv'
<1>1. CASE VerifyPacket
  <2>1. HasPacket /\ Read(FALSE)
    BY <1>1 DEF VerifyPacket
  <2> QED
    BY <2>1, ReadsKeepIndex
<1>2. CASE GiveAnswer \/ VerifyTail \/ VerifyEnd
  <2>1. UNCHANGED <<source, keys>>
    BY <1>2 DEF GiveAnswer, VerifyTail, VerifyEnd
  <2> QED
    BY <2>1, KeptTrue DEF KeysKept, TypeInv
<1> QED
  BY <1>1, <1>2 DEF Ends

LEMMA CancelsKeepIndex ==
  ASSUME TypeInv, Cancels
  PROVE  KeysKept
<1>1. CASE Cancel
  BY <1>1 DEF Cancel, KeysKept
<1>2. CASE InterruptRead \/ ShortRead
  <2>1. keys' = keys
    BY <1>2 DEF InterruptRead, ShortRead
  <2>2. source'.next = source.next
    BY <1>2, SourceParts DEF InterruptRead, ShortRead, SourceRecords, TypeInv
  <2> QED
    BY <2>1, <2>2 DEF KeysKept
<1>3. CASE InterruptSeek
  BY <1>3, ResetKeepsIndex DEF InterruptSeek, Forget
<1> QED
  BY <1>1, <1>2, <1>3 DEF Cancels

LEMMA IndexInvStep == TypeInv /\ IndexInv /\ [Next]_vars => IndexInv'
<1> SUFFICES ASSUME TypeInv, IndexInv, [Next]_vars PROVE IndexInv'
  OBVIOUS
<1>1. CASE UNCHANGED vars
  BY <1>1, KeptTrue DEF vars, KeysKept, TypeInv
<1>2. ASSUME Next PROVE source'.setting = source.setting
  BY <1>2, StepTypes DEF Reshapes
<1>3. CASE Starts \/ Moves \/ Cancels
  <2>1. KeysKept
    BY <1>3, StartsKeepIndex, MovesKeepIndex, CancelsKeepIndex
  <2> QED
    BY <1>2, <1>3, <2>1, KeptTrue DEF Next, TypeInv
<1>4. CASE Lands \/ Selects \/ Ends
  BY <1>2, <1>4, LandsKeepIndex, SelectsKeepIndex, EndsKeepIndex DEF Next
<1>5. CASE NoGenerator
  BY <1>1, <1>5 DEF NoGenerator
<1> QED
  BY <1>1, <1>3, <1>4, <1>5 DEF Next

\* The links of KeyframeIndex.h (noteKeyframe, noteStreamEndedInGop) never span a
\* key frame the index does not know, whatever is requested, seeked and cancelled,
\* while no packet is lost, no end of file is false, the index has room, and key
\* frames are decoded in the order they are presented in.
THEOREM PipelineIndexIsTrue == Spec => [](ReadsAll => IndexIsTrue)
<1>1. TypeInv /\ [Next]_vars => TypeInv'
  BY TypeInvStep
<1>2. IndexInv => (ReadsAll => IndexIsTrue)
  BY DEF IndexInv, IndexIsTrue, Truthful
<1>3. Init => TypeInv /\ IndexInv
  BY InitTypes, IndexAtInit
<1> QED
  BY <1>1, <1>2, <1>3, IndexInvStep, PTL DEF Spec

-----------------------------------------------------------------------------
(* Exact requests on a file nothing disturbs.                              *)

\* The settings in question: a file that can be seeked and read whole, whose
\* first packet is a key frame shown no later than any request asks for and than
\* the first presented frame; key frames cut the stream in presentation order
\* too; no more pictures overtake another than the decoder keeps back; and only
\* exact requests are made.
Undisturbed ==
  /\ Faults = {} /\ IoSeekable
  /\ 1 \in Packets /\ IsKey(1) /\ FirstFrameTs \in Times /\ Pts(1) <= FirstFrameTs
  /\ \A w \in Requests : ~w.keyMode /\ w.adjustment = "none" /\ Pts(1) <= w.target /\ w.start <= w.target
  /\ \A k, i, j \in Packets : IsKey(k) /\ i < k /\ k <= j => Pts(i) < Pts(j)
  /\ \A i \in Packets : Cardinality({Pts(j) : j \in {n \in Packets : n < i /\ Pts(n) > Pts(i)}}) <= Depth

\* The next packet for the decoder, and the times of the packets from it on.
Unfed == IF reader.packet # 0 THEN reader.packet ELSE Next1
Ahead == {Pts(j) : j \in {n \in Packets : n >= Unfed}}

\* Packets reach the decoder in decode order, none left out.
InOrder ==
  /\ reader.packet # 0 => Next1 = reader.packet + 1
  /\ \A n \in DOMAIN reader.replay : reader.replay[n] = source.next - Len(reader.replay) + n - 1

DelayOK(ix) == ix.reorder = NoPts \/ ix.reorder >= 0

\* What no step changes.
Calm ==
  /\ Seekable /\ ~source.sticky /\ ~source.interrupted
  /\ ~ctl.cut /\ ~ctl.retrying /\ ctl.purpose \notin {"covered", "arm"}
  /\ ctl.pc \notin {"recover", "arm", "feedKey", "verify"}
  /\ ~mode.keyframeOnly /\ mode.tailEnd \in {NoPts, StreamEnd}
  /\ ~frontier.drained /\ ~IsValid(slots.corruptLast)
  /\ DelayOK(keys)
  /\ window \in Requests \/ (window = Probe /\ ctl.pc # "start")

\* The frame at t is still to come out, or one after it that is before the window.
Kept(t, skip) == t \in decoder.buffer \/ t \in Ahead \/ \E b \in decoder.buffer : t < b /\ b <= skip

\* The packet to be fed begins the stream, or a group at or before the target.
StartsRight == Unfed \in Packets /\ IsKey(Unfed) /\ (Unfed = 1 \/ Pts(Unfed) <= window.target)

\* Everything from key frame k on is still to come out.
KeptFrom(k, skip) ==
  /\ IsKey(k) /\ k < Unfed /\ (position.atStart => k = 1 \/ Pts(k) <= window.target)
  /\ \A j \in Packets : k <= j /\ FirstFrameTs <= Pts(j) => Kept(Pts(j), skip)
  /\ \A b \in decoder.buffer : \E j \in Packets : k <= j /\ b = Pts(j)

NotSynced ==
  /\ decoder.buffer = {} /\ frontier.received = NoPts
  /\ KeyFlagsReliable => frontier.fedPts = NoPts /\ (position.awaitingKey \/ Unfed = 1)
  /\ position.atStart => StartsRight

\* The decoder and what it will still be fed hold every frame that is later
\* than the last one received.
Feed(skip) ==
  /\ decoder.buffer \subseteq Shown /\ decoder.buffer \cap Ahead = {}
  /\ \A t \in decoder.buffer \cup Ahead : frontier.received < t
  /\ decoder.synced \/ NotSynced
  /\ decoder.synced => ~position.awaitingKey
  /\ decoder.synced /\ frontier.received = NoPts => \E k \in Packets : KeptFrom(k, skip)
  /\ frontier.received # NoPts => \A t \in Shown : frontier.received < t => Kept(t, skip)
  /\ frontier.draining => Ahead = {}
  /\ KeyFlagsReliable =>
       /\ reader.packet # 0 => IsKey(reader.packet)
       /\ \/ frontier.fedPts <= frontier.received \/ frontier.fedPts < FirstFrameTs
          \/ Kept(frontier.fedPts, skip) /\ frontier.fedPts \notin Ahead

SkipOK == mode.skipBefore = NoPts \/ (mode.skipBefore < window.start /\ window.start <= window.target)

EndIsReceived == frontier.lastEnd = frontier.received + FrameDuration

\* Between two requests, and while one has not moved anything yet.
Quiet ==
  /\ Feed(NoPts) /\ frontier.received # NoPts /\ EndIsReceived
  /\ IsValid(slots.held) /\ slots.held.pts \in Shown
  /\ IF IsValid(slots.pending)
     THEN /\ slots.pending.pts = frontier.received /\ slots.held.pts < slots.pending.pts /\ ~frontier.eof
          /\ \A t \in Shown : t <= slots.held.pts \/ slots.pending.pts <= t
     ELSE slots.held.pts = frontier.received
  /\ frontier.eof => Ahead = {} /\ decoder.buffer = {}

Selecting ==
  /\ Feed(mode.skipBefore) /\ ~frontier.eof /\ ~IsValid(slots.pending)
  /\ IF frontier.received = NoPts
     THEN /\ ~IsValid(slots.held) /\ frontier.count = 0 /\ frontier.lastEnd = NoPts
          /\ position.positioned
     ELSE /\ EndIsReceived /\ slots.held.pts = frontier.received /\ slots.held.pts \in Shown
          /\ slots.held.pts <= window.target

Fresh ==
  /\ decoder = EmptyDecoder /\ frontier = NoFrontier /\ slots = EmptySlots
  /\ position.positioned /\ position.awaitingKey

\* What is buffered is the chosen group, up to the packet before next.
BufferedUpTo(l, next) ==
  /\ l.best # 0 /\ Len(l.buffer) = next - l.best /\ Len(l.buffer) > 0
  /\ \A n \in DOMAIN l.buffer : l.buffer[n] = l.best + n - 1

LandingTrue ==
  /\ landing.target = window.target
  /\ landing.best # 0 => /\ KeyFlagsReliable /\ landing.scanning /\ IsKey(landing.best)
                         /\ Pts(landing.best) <= window.target /\ reader.packet = 0
                         /\ ~landing.found
  /\ landing.buffering /\ ~landing.found => BufferedUpTo(landing, source.next)
  /\ KeyFlagsReliable /\ reader.packet # 0 => IsKey(reader.packet)

LandingAtStart ==
  position.atStart => \/ landing.best # 0
                      \/ ctl.pc = "landing" /\ source.next = 1
                      \/ ctl.pc = "landed" /\ StartsRight

\* What window w may be answered with.
RightAnswer(w, frame, adjustment) ==
  /\ adjustment \in {"none", "clampedToFirst", "clampedToLast"}
  /\ adjustment = "none" =>
       \/ w.target >= FirstFrameTs /\ w.target < StreamEnd /\ frame.pts = OnScreen(w.target)
       \/ w.start <= frame.pts /\ frame.pts <= w.target
       \/ w.target < FirstFrameTs /\ frame.pts = FirstFrameTs /\ FirstFrameTs <= w.end
  /\ adjustment = "clampedToFirst" => w.target < FirstFrameTs /\ frame.pts = FirstFrameTs
  /\ adjustment = "clampedToLast" => w.target >= StreamEnd /\ frame.pts = Max(Shown)

RightReply ==
  \/ reply.status = "ok" /\ RightAnswer(window, reply.frame, reply.adjustment)
  \/ reply.status = "timeOutOfRange" /\ window.target >= StreamEnd

Exact ==
  /\ Calm /\ InOrder
  /\ ctl.pc \in {"idle", "start", "position", "answer"} => Quiet
  /\ ctl.pc \notin {"idle", "start", "answer"} => SkipOK
  /\ ctl.pc = "position" => ~CanStay
  /\ Scanning => Fresh /\ LandingTrue /\ LandingAtStart
  /\ ctl.pc = "landing" => reader.packet = 0
  /\ ctl.pc = "select" => Selecting
  /\ ctl.pc = "answer" => RightAnswer(window, ctl.frame, ctl.adjustment)
  /\ ctl.pc = "idle" => RightReply

\* The setting is the same for ever, and what is said of it and of answers.
LEMMA SameSetting ==
  ASSUME source'.setting = source.setting
  PROVE  /\ Undisturbed' <=> Undisturbed
         /\ \A w, frame, adjustment : RightAnswer(w, frame, adjustment)' <=> RightAnswer(w, frame, adjustment)
<1>1. /\ \A i \in Packets : IsKey(i)' = IsKey(i) /\ Pts(i)' = Pts(i)
      /\ Packets' = Packets /\ Requests' = Requests /\ Faults' = Faults /\ Depth' = Depth
      /\ FirstFrameTs' = FirstFrameTs /\ Times' = Times /\ IoSeekable' <=> IoSeekable
  BY SameReads, SameStream
<1>2. Undisturbed' <=> Undisturbed
  BY SameStream DEF Undisturbed, IsKey, Pts
<1>3. \A w, frame, adjustment : RightAnswer(w, frame, adjustment)' <=> RightAnswer(w, frame, adjustment)
  BY SameStream DEF RightAnswer, OnScreen
<1> QED
  BY <1>2, <1>3

\* No delay learned is negative.
LEMMA DelaysStayOK ==
  ASSUME NEW ix, Indexed(ix), DelayOK(ix)
  PROVE  /\ DelayOK(ResetContiguity(ix))
         /\ \A a, b \in Int : DelayOK(NoteKeyframeSpan(ix, a, b)) /\ DelayOK(LearnReorder(ix, a))
         /\ \A a \in Int : DelayOK(NoteStreamEndedInGop(ix, a)) /\ DelayOK(RecordKey(ix, a))
<1>1. ix.next \in [Recorded(ix) -> Int] /\ ix.reorder \in Int /\ ix \in Indices
  BY IndexShape DEF Indexed
<1>2. \A a, b \in Int : NoteKeyframeSpan(ix, a, b).reorder = ix.reorder
  BY <1>1 DEF NoteKeyframeSpan, Indices
<1>3. \A a \in Int : RecordKey(ix, a).reorder = ix.reorder
  BY <1>1, <1>2 DEF RecordKey, Linked, Indices, Precedes, NoteKeyframeSpan
<1>4. \A a \in Int : DelayOK(LearnReorder(ix, a))
  BY <1>1 DEF LearnReorder, Indices, DelayOK
<1>5. DelayOK(ResetContiguity(ix)) /\ \A a \in Int : DelayOK(NoteStreamEndedInGop(ix, a))
  BY <1>1 DEF ResetContiguity, NoteStreamEndedInGop, Indices, DelayOK
<1> QED
  BY <1>2, <1>3, <1>4, <1>5 DEF DelayOK

LEMMA PacketsKeepDelayOK ==
  ASSUME Shapes, DelayOK(keys), NEW i \in Packets
  PROVE  DelayOK(NotePacket(i)) /\ DelayOK(LandingIndex(i))
<1>1. Indexed(keys) /\ Pts(i) \in Int /\ Stream[i].dts \in Int /\ Begun(i).start \in Int /\ source \in Sources
  BY StreamFacts, BegunTypes DEF Shapes
<1>2. DelayOK(NotePacket(i))
  <2> DEFINE delay == Pts(i) - Stream[i].dts
             learned == LearnReorder(keys, delay)
  <2>1. delay \in Int
    BY <1>1
  <2> HIDE DEF delay
  <2>2. DelayOK(learned) /\ Indexed(learned)
    BY <1>1, <2>1, DelaysStayOK, IndexNotes
  <2> HIDE DEF learned
  <2>3. DelayOK(RecordKey(learned, Pts(i)))
    BY <1>1, <2>2, DelaysStayOK
  <2> QED
    BY <2>2, <2>3 DEF NotePacket, learned, delay
<1>3. Indexed(NotePacket(i))
  BY <1>1, NotePacketFacts
<1>4. DelayOK(NoteKeyframeSpan(NotePacket(i), Begun(i).start, Pts(i)))
  BY <1>1, <1>2, <1>3, DelaysStayOK
<1> QED
  BY <1>2, <1>4 DEF LandingIndex

\* Where the next packet for the decoder is.
LEMMA Feedstock ==
  Shapes /\ InOrder =>
    /\ Unfed \in 1..(Len(Stream) + 1) /\ Len(Stream) \in Nat /\ Packets = 1..Len(Stream)
    /\ Ahead \subseteq Times /\ \A i \in Packets : Pts(i) \in Ahead <=> i >= Unfed
    /\ reader.packet = 0 /\ HasPacket => Unfed = Next1 /\ Unfed \in Packets
    /\ reader.packet = 0 /\ ~HasPacket /\ ~source.sticky => Ahead = {}
    /\ reader.packet # 0 => Unfed = reader.packet /\ Unfed \in Packets
<1> SUFFICES ASSUME Shapes, InOrder
             PROVE  /\ Unfed \in 1..(Len(Stream) + 1) /\ Len(Stream) \in Nat /\ Packets = 1..Len(Stream)
                    /\ Ahead \subseteq Times /\ \A i \in Packets : Pts(i) \in Ahead <=> i >= Unfed
                    /\ reader.packet = 0 /\ HasPacket => Unfed = Next1 /\ Unfed \in Packets
                    /\ reader.packet = 0 /\ ~HasPacket /\ ~source.sticky => Ahead = {}
                    /\ reader.packet # 0 => Unfed = reader.packet /\ Unfed \in Packets
  OBVIOUS
<1>1. /\ Len(Stream) \in Nat /\ Packets = 1..Len(Stream) /\ source.next \in 1..(Len(Stream) + 1)
      /\ reader.packet \in Packets \cup {0}
      /\ \A i \in Packets : Pts(i) \in Times /\ \A j \in Packets : Pts(i) = Pts(j) => i = j
  BY StreamFacts, SourceParts, ReaderParts DEF Shapes
<1>2. HasPacket => Next1 \in Packets
  BY NextPacket
<1>3. ~HasPacket /\ ~source.sticky => reader.replay = <<>> /\ source.next = Len(Stream) + 1
  BY <1>1 DEF HasPacket
<1>4. reader.replay # <<>> => HasPacket
  BY DEF HasPacket
<1>5. Unfed \in 1..(Len(Stream) + 1)
  BY <1>1, <1>2, <1>4 DEF Unfed, Next1
<1>6. \A i \in Packets : Pts(i) \in Ahead <=> i >= Unfed
  BY <1>1 DEF Ahead
<1>7. Ahead \subseteq Times
  BY <1>1 DEF Ahead
<1>8. reader.packet = 0 /\ ~HasPacket /\ ~source.sticky => Unfed = Len(Stream) + 1
  BY <1>3 DEF Unfed, Next1
<1>9. Unfed = Len(Stream) + 1 => Ahead = {}
  BY <1>1, <1>6 DEF Ahead
<1>10. reader.packet # 0 => Unfed = reader.packet /\ Unfed \in Packets
  BY <1>1 DEF Unfed
<1> QED
  BY <1>1, <1>2, <1>5, <1>6, <1>7, <1>8, <1>9, <1>10 DEF Unfed

\* A packet read for the decoder, or past it, leaves the rest in order.
LEMMA ReadAdvances ==
  ASSUME Shapes, InOrder, reader.packet = 0, HasPacket, Read(FALSE)
  PROVE  InOrder' /\ Unfed' = Unfed + 1 /\ reader'.packet = 0
<1>1. /\ source.next \in Nat /\ reader.replay \in Seq(Packets) /\ reader'.packet = 0
      /\ source' \in Sources /\ reader' \in Readers /\ Packets \subseteq Nat
  <2>1. source.next \in 1..(Len(Stream) + 1) /\ Len(Stream) \in Nat /\ Packets = 1..Len(Stream)
    BY SourceParts, StreamFacts DEF Shapes
  <2>2. reader.replay \in Seq(Packets)
    BY ReaderParts
  <2>3. reader'.packet = (IF FALSE THEN Next1 ELSE reader.packet) /\ source' \in Sources /\ reader' \in Readers
    BY ReadTypes
  <2> QED
    BY <2>1, <2>2, <2>3
<1>2. CASE reader.replay # <<>>
  <2> DEFINE replay == reader.replay
             n == Len(replay)
             rest == Tail(replay)
  <2>1. /\ n \in Nat \ {0} /\ rest \in Seq(Packets) /\ Len(rest) = n - 1 /\ Head(replay) = replay[1]
        /\ \A k \in 1..(n - 1) : rest[k] = replay[k + 1]
        /\ DOMAIN rest = 1..(n - 1) /\ DOMAIN replay = 1..n
    BY <1>1, <1>2
  <2>2. reader'.replay = rest /\ source' = source
    BY <1>2 DEF Read, Shapes, Readers, ReaderRecords
  <2>3. \A k \in 1..n : replay[k] = source.next - n + k - 1
    BY <2>1 DEF InOrder
  <2>4. Next1 = source.next - n
    BY <1>2, <2>1, <2>3, <1>1 DEF Next1
  <2> HIDE DEF rest, n, replay
  <2>5. \A k \in 1..(n - 1) : rest[k] = source.next - (n - 1) + k - 1
    <3> TAKE k \in 1..(n - 1)
    <3>1. k + 1 \in 1..n /\ rest[k] = replay[k + 1]
      BY <2>1
    <3>2. replay[k + 1] = source.next - n + (k + 1) - 1
      BY <2>3, <3>1
    <3> QED
      BY <1>1, <2>1, <3>1, <3>2
  <2>6. InOrder'
    BY <1>1, <2>1, <2>2, <2>5 DEF InOrder
  <2>7. rest # <<>> => Head(rest) = rest[1] /\ 1 \in 1..(n - 1)
    BY <2>1
  <2>8. rest = <<>> => n = 1
    BY <2>1
  <2>9. Next1' = source.next - n + 1
    BY <1>1, <2>1, <2>2, <2>5, <2>7, <2>8 DEF Next1
  <2> QED
    BY <1>1, <2>1, <2>4, <2>6, <2>9 DEF Unfed
<1>3. CASE reader.replay = <<>>
  <2>1. source'.next = source.next + 1 /\ reader'.replay = <<>> /\ source.next \in Packets
    BY <1>3, ReadFromDemuxerTypes, NotePacketFacts, NextPacket DEF Read, Shapes
  <2> QED
    BY <1>1, <1>3, <2>1 DEF InOrder, Unfed, Next1
<1> QED
  BY <1>2, <1>3

-----------------------------------------------------------------------------
(* What a step keeps when it touches none of it.                            *)

LEMMA AheadStays ==
  ASSUME UNCHANGED <<source, reader>>
  PROVE  Unfed' = Unfed /\ Ahead' = Ahead
<1>1. Unfed' = Unfed
  BY DEF Unfed, Next1
<1> QED
  BY <1>1, SameStream DEF Ahead, Pts

\* Nothing but the control and the reply changes.
LEMMA SelectingStays ==
  ASSUME UNCHANGED <<source, decoder, position, frontier, slots, mode, reader, window>>
  PROVE  Selecting' <=> Selecting
<1>1. Unfed' = Unfed /\ Ahead' = Ahead
  BY AheadStays
<1> QED
  BY <1>1, SameStream DEF Selecting, Feed, NotSynced, KeptFrom, Kept, StartsRight, IsKey, Pts, IsValid, EndIsReceived

LEMMA QuietStays ==
  ASSUME UNCHANGED <<source, decoder, position, frontier, slots, reader>>
  PROVE  Quiet' <=> Quiet
<1>1. Unfed' = Unfed /\ Ahead' = Ahead
  BY AheadStays
<1> QED
  BY <1>1, SameStream DEF Quiet, Feed, NotSynced, KeptFrom, Kept, StartsRight, IsKey, Pts, IsValid, EndIsReceived

-----------------------------------------------------------------------------
(* Seeking.                                                                 *)

\* After a seek nothing is left of what was decoded before it.
LEMMA FreshSelects ==
  Shapes /\ InOrder /\ Fresh /\ (position.atStart => StartsRight)
  /\ (KeyFlagsReliable /\ reader.packet # 0 => IsKey(reader.packet)) => Selecting
<1> SUFFICES ASSUME Shapes, InOrder, Fresh, position.atStart => StartsRight,
                    KeyFlagsReliable /\ reader.packet # 0 => IsKey(reader.packet)
             PROVE  Selecting
  OBVIOUS
<1>1. /\ decoder.buffer = {} /\ ~decoder.synced /\ frontier.received = NoPts /\ frontier.fedPts = NoPts
      /\ ~frontier.draining /\ ~frontier.eof /\ frontier.count = 0 /\ frontier.lastEnd = NoPts
      /\ ~IsValid(slots.pending) /\ ~IsValid(slots.held) /\ position.awaitingKey /\ position.positioned
  BY DEF Fresh, EmptyDecoder, NoFrontier, EmptySlots, NoFrame, IsValid
<1>2. \A t \in Ahead : NoPts < t
  BY Feedstock, StreamFacts DEF Times, Shapes
<1>3. NoPts <= NoPts
  BY IndexAssumption
<1>4. NotSynced
  BY <1>1 DEF NotSynced
<1>5. Feed(mode.skipBefore)
  BY <1>1, <1>2, <1>3, <1>4 DEF Feed
<1> QED
  BY <1>1, <1>5 DEF Selecting

\* A seek that succeeds, wherever it lands; to the start, it lands there.
LEMMA SeekStaysExact ==
  ASSUME TypeInv, TypeInv', Undisturbed, Exact, ctl.pc \in {"seek", "byteSeek"},
         NEW i \in 1..(Len(Stream) + 1), NEW failures,
         source' = [source EXCEPT !.next = i, !.failures = failures],
         NEW target \in Int, NEW atStart \in BOOLEAN, AfterSeek(target, atStart), atStart => i = 1,
         AfterMove(Seekable), UNCHANGED <<ladder, window, reply>>
  PROVE  Exact'
<1>1. Shapes /\ Shapes' /\ Calm /\ SkipOK /\ source \in SourceRecords
  BY SourceParts DEF TypeInv, Exact
<1>2. /\ source'.setting = source.setting /\ source'.next = i /\ source'.sticky = source.sticky
      /\ source'.interrupted = source.interrupted /\ source'.seekable = source.seekable
  BY <1>1 DEF SourceRecords
<1>3. /\ frontier' = NoFrontier /\ slots' = EmptySlots /\ decoder' = EmptyDecoder
      /\ mode' = [mode EXCEPT !.errors = 0] /\ keys' = ResetContiguity(keys)
      /\ reader'.packet = 0 /\ reader'.replay = <<>>
      /\ position'.positioned /\ position'.awaitingKey /\ (position'.atStart <=> atStart)
  BY <1>1, ReaderParts DEF AfterSeek, Forget, ResetPosition, ReaderRecords
<1>4. /\ mode'.keyframeOnly = mode.keyframeOnly /\ mode'.tailEnd = mode.tailEnd /\ mode'.skipBefore = mode.skipBefore
  BY <1>1, <1>3 DEF Shapes, Modes
<1>5. DelayOK(keys') /\ window' = window
  BY <1>1, <1>3, DelaysStayOK DEF Calm, Shapes
<1>6. ~frontier'.drained /\ ~IsValid(slots'.corruptLast)
  BY <1>3 DEF NoFrontier, EmptySlots, NoFrame, IsValid
<1>7. InOrder'
  BY <1>3 DEF InOrder
<1>8. Unfed' = i
  BY <1>2, <1>3 DEF Unfed, Next1
<1>9. Fresh' /\ SkipOK'
  BY <1>1, <1>3, <1>4, <1>5 DEF Fresh, SkipOK
<1>10. /\ window.keyMode = FALSE /\ window.target \in Int /\ ctl \in Controls
       /\ "select" \in Places /\ ctl.purpose \in Purposes /\ (~Trusted) \in BOOLEAN
  BY <1>1, StreamFacts DEF Calm, Undisturbed, Probe, Shapes, Windows, Places, Controls, Trusted
<1>11. \/ BeginLanding(window.target, ~Trusted, ctl.purpose)
       \/ Go("select") /\ landing' = NoLanding
  BY <1>1, <1>10 DEF AfterMove, Positioned, Calm
<1>12. CASE BeginLanding(window.target, ~Trusted, ctl.purpose)
  <2>1. /\ ctl'.pc = "landing" /\ ctl'.purpose = ctl.purpose /\ ctl'.cut = ctl.cut /\ ctl'.retrying = ctl.retrying
        /\ landing'.target = window.target /\ landing'.best = 0 /\ ~landing'.buffering
    BY <1>10, <1>12 DEF BeginLanding, NoLanding, Controls
  <2>2. Calm'
    BY <1>1, <1>2, <1>4, <1>5, <1>6, <2>1, SameStream DEF Calm, Seekable
  <2>3. LandingTrue' /\ LandingAtStart'
    BY <1>2, <1>3, <1>5, <2>1 DEF LandingTrue, LandingAtStart
  <2> QED
    BY <1>3, <1>7, <1>9, <2>1, <2>2, <2>3 DEF Exact, Scanning
<1>13. CASE Go("select") /\ landing' = NoLanding
  <2>1. /\ ctl'.pc = "select" /\ ctl'.purpose = ctl.purpose /\ ctl'.cut = ctl.cut /\ ctl'.retrying = ctl.retrying
    BY <1>10, <1>13 DEF Go, Controls
  <2>2. Calm'
    BY <1>1, <1>2, <1>4, <1>5, <1>6, <2>1, SameStream DEF Calm, Seekable
  <2>3. position'.atStart => StartsRight'
    BY <1>2, <1>3, <1>8, SameReads, SameStream DEF StartsRight, Undisturbed
  <2>4. Selecting'
    <3>1. (Shapes /\ InOrder /\ Fresh /\ (position.atStart => StartsRight)
           /\ (KeyFlagsReliable /\ reader.packet # 0 => IsKey(reader.packet)) => Selecting)'
      BY FreshSelects, PTL
    <3> QED
      BY <1>1, <1>3, <1>7, <1>9, <2>3, <3>1
  <2> QED
    BY <1>7, <1>9, <2>1, <2>2, <2>4 DEF Exact, Scanning
<1> QED
  BY <1>11, <1>12, <1>13

LEMMA SeeksStayExact ==
  ASSUME TypeInv, TypeInv', Undisturbed, Exact, SeekToStart \/ Seek \/ ByteSeek
  PROVE  Exact'
<1>1. /\ Shapes /\ Calm /\ Len(Stream) \in Nat /\ Packets = 1..Len(Stream) /\ StartPts \in Int
      /\ ctl.aim \in Int /\ source \in SourceRecords
  BY StreamFacts, SourceParts DEF TypeInv, Shapes, Exact, StartPts, Controls
<1>2. CASE SeekToStart
  <2>1. source' = [source EXCEPT !.next = 1, !.failures = source.failures]
    BY <1>1, <1>2 DEF SeekToStart, SourceRecords
  <2>2. 1 \in 1..(Len(Stream) + 1)
    BY <1>1
  <2> QED
    BY <1>1, <1>2, <2>1, <2>2, SeekStaysExact DEF SeekToStart, At
<1>3. CASE Seek
  <2>1. PICK i \in 1..(Len(Stream) + 1) : source' = [source EXCEPT !.next = i, !.failures = 0]
    BY <1>3 DEF Seek
  <2> QED
    BY <1>1, <1>3, <2>1, SeekStaysExact DEF Seek, At
<1>4. CASE ByteSeek
  <2>1. ctl.aim \in Times /\ ctl.pc = "byteSeek"
    BY <1>4 DEF TypeInv, Phases, ByteSeek, At
  <2>2. PacketAt(ctl.aim) \in 1..(Len(Stream) + 1)
    BY <1>1, <2>1, PacketAtFacts DEF Shapes
  <2>3. source' = [source EXCEPT !.next = PacketAt(ctl.aim), !.failures = source.failures]
    BY <1>1, <1>4 DEF ByteSeek, SourceRecords
  <2>4. ctl.purpose = "found"
    BY <1>1, <2>1 DEF Calm, TypeInv, Phases
  <2>5. AfterMove(Seekable)
    BY <1>4, <2>4 DEF ByteSeek, AfterMove
  <2> QED
    BY <1>1, <1>4, <2>1, <2>2, <2>3, <2>5, SeekStaysExact DEF ByteSeek, At
<1> QED
  BY <1>2, <1>3, <1>4

-----------------------------------------------------------------------------
(* Reading a landing.                                                       *)

\* A landing step keeps all that was said of a landing but its own records.
LEMMA LandingStays ==
  ASSUME TypeInv, TypeInv', Undisturbed, Exact, Scanning,
         source'.setting = source.setting, source'.sticky = source.sticky,
         source'.interrupted = source.interrupted, source'.seekable = source.seekable,
         DelayOK(keys'), LandingUnchanged,
         ctl'.purpose = ctl.purpose, ctl'.cut = ctl.cut, ctl'.retrying = ctl.retrying, Scanning'
  PROVE  Calm' /\ SkipOK' /\ Fresh'
<1>1. Calm /\ SkipOK /\ Fresh
  BY DEF Exact, Scanning
<1>2. UNCHANGED <<decoder, position, frontier, slots, mode, window>>
  BY DEF LandingUnchanged
<1>3. ctl'.pc \in {"landing", "landed"}
  BY DEF Scanning
<1> QED
  BY <1>1, <1>2, <1>3, SameStream DEF Calm, SkipOK, Fresh, Seekable

\* Read() one packet of a landing.
LEMMA LandingReads ==
  ASSUME TypeInv, Exact, ctl.pc = "landing", HasPacket
  PROVE  /\ reader.packet = 0 /\ reader.replay = <<>> /\ Next1 = source.next /\ source.next \in Packets
         /\ Shapes /\ InOrder /\ Fresh /\ LandingTrue /\ ~landing.found
         /\ position.atStart => landing.best # 0 \/ source.next = 1
<1>1. reader.replay = <<>> /\ Shapes /\ ~landing.found
  BY DEF TypeInv, Phases
<1>2. reader.packet = 0 /\ InOrder /\ Fresh /\ LandingTrue /\ LandingAtStart
  BY DEF Exact, Scanning
<1> QED
  BY <1>1, <1>2, NextPacket DEF LandingAtStart

\* Landing on the packet the decoder starts from.
LEMMA LandingKeeps ==
  ASSUME TypeInv, TypeInv', Undisturbed, Exact, ctl.pc = "landing", HasPacket, landing.best = 0,
         NEW ix, Indexed(ix), DelayOK(ix), ReadFromDemuxer(TRUE, ix), LandingUnchanged,
         ctl'.purpose = ctl.purpose, ctl'.cut = ctl.cut, ctl'.retrying = ctl.retrying, ctl'.pc = "landed",
         landing'.target = landing.target, landing'.found, landing'.best = 0,
         KeyFlagsReliable => IsKey(source.next)
  PROVE  Exact'
<1>1. /\ reader.packet = 0 /\ reader.replay = <<>> /\ source.next \in Packets
      /\ Shapes /\ LandingTrue
      /\ position.atStart => source.next = 1
  BY LandingReads
<1>2. /\ source'.setting = source.setting /\ source'.next = source.next + 1 /\ source'.sticky = source.sticky
      /\ source'.seekable = source.seekable
      /\ reader'.packet = source.next /\ reader'.replay = <<>> /\ keys' = ix
  BY <1>1, ReadFromDemuxerTypes
<1>3. source'.interrupted = source.interrupted
  BY <1>1, SourceParts DEF ReadFromDemuxer, SourceRecords
<1>4. Scanning /\ Scanning'
  BY DEF Scanning
<1>5. Calm' /\ SkipOK' /\ Fresh'
  BY <1>2, <1>3, <1>4, LandingStays
<1>6. InOrder'
  BY <1>2 DEF InOrder, Next1
<1>7. position' = position /\ window' = window
  BY DEF LandingUnchanged
<1>9. LandingTrue'
  <2>1. landing'.target = window'.target
    BY <1>1, <1>7 DEF LandingTrue
  <2>2. (KeyFlagsReliable /\ reader.packet # 0 => IsKey(reader.packet))'
    BY <1>1, <1>2, SameStream DEF IsKey
  <2> QED
    BY <2>1, <2>2 DEF LandingTrue
<1>10. position.atStart => StartsRight'
  <2> SUFFICES ASSUME position.atStart PROVE StartsRight'
    OBVIOUS
  <2>1. Unfed' = 1 /\ source.next = 1
    BY <1>1, <1>2 DEF Unfed
  <2> QED
    BY <1>2, <2>1, SameReads, SameStream DEF StartsRight, Undisturbed
<1>11. LandingAtStart'
  BY <1>7, <1>10 DEF LandingAtStart
<1> QED
  BY <1>4, <1>5, <1>6, <1>9, <1>11 DEF Exact

LEMMA LandOnAnythingExact ==
  ASSUME TypeInv, TypeInv', Undisturbed, Exact, LandOnAnything
  PROVE  Exact'
<1>1. /\ ctl.pc = "landing" /\ HasPacket /\ ~KeyFlagsReliable /\ Read(TRUE) /\ LandingUnchanged
      /\ Landed([landing EXCEPT !.found = TRUE])
  BY DEF LandOnAnything, At
<1>2. /\ reader.replay = <<>> /\ source.next \in Packets /\ Shapes /\ LandingTrue
  BY <1>1, LandingReads
<1>3. landing.best = 0 /\ DelayOK(keys)
  BY <1>1, <1>2 DEF LandingTrue, Exact, Calm
<1>4. ReadFromDemuxer(TRUE, NotePacket(source.next)) /\ Indexed(NotePacket(source.next))
      /\ DelayOK(NotePacket(source.next))
  BY <1>1, <1>2, <1>3, PacketsKeepDelayOK, NotePacketFacts DEF Read, Shapes
<1>5. /\ landing'.target = landing.target /\ landing'.best = 0 /\ landing'.found
      /\ ctl'.pc = "landed" /\ ctl'.purpose = ctl.purpose /\ ctl'.cut = ctl.cut /\ ctl'.retrying = ctl.retrying
  BY <1>1, <1>2, <1>3, LandingParts DEF Landed, Go, LandingRecords, Shapes, Controls
<1> QED
  BY <1>1, <1>3, <1>4, <1>5, LandingKeeps

\* Landing on a packet that is not kept for the decoder: what is buffered of the
\* group chosen stays without a gap.
LEMMA LandingPasses ==
  ASSUME TypeInv, TypeInv', Undisturbed, Exact, ctl.pc = "landing", HasPacket, KeyFlagsReliable,
         NEW ix, Indexed(ix), DelayOK(ix), ReadFromDemuxer(FALSE, ix), LandingUnchanged,
         ctl'.purpose = ctl.purpose, ctl'.cut = ctl.cut, ctl'.retrying = ctl.retrying, Scanning',
         landing'.target = landing.target, landing'.found = landing.found,
         landing'.best # 0 => landing'.scanning /\ IsKey(landing'.best) /\ Pts(landing'.best) <= window.target,
         landing'.buffering => BufferedUpTo(landing', source.next + 1),
         position.atStart => landing'.best # 0
  PROVE  Exact'
<1>1. /\ reader.packet = 0 /\ reader.replay = <<>> /\ source.next \in Packets
      /\ Shapes /\ LandingTrue /\ ~landing.found
  BY LandingReads
<1>2. /\ source'.setting = source.setting /\ source'.next = source.next + 1 /\ source'.sticky = source.sticky
      /\ source'.seekable = source.seekable
      /\ reader'.packet = 0 /\ reader'.replay = <<>> /\ keys' = ix
  BY <1>1, ReadFromDemuxerTypes
<1>3. source'.interrupted = source.interrupted
  BY <1>1, SourceParts DEF ReadFromDemuxer, SourceRecords
<1>4. Scanning
  BY DEF Scanning
<1>5. Calm' /\ SkipOK' /\ Fresh'
  BY <1>2, <1>3, <1>4, LandingStays
<1>6. InOrder'
  BY <1>2 DEF InOrder
<1>7. position' = position /\ window' = window
  BY DEF LandingUnchanged
<1>8. (landing.best # 0 => IsKey(landing.best) /\ Pts(landing.best) <= window.target)'
  BY <1>2, <1>7, SameStream DEF IsKey, Pts
<1>9. LandingTrue'
  <2>1. landing'.target = window'.target
    BY <1>1, <1>7 DEF LandingTrue
  <2>2. (landing.best # 0 => /\ KeyFlagsReliable /\ landing.scanning /\ IsKey(landing.best)
                             /\ Pts(landing.best) <= window.target /\ reader.packet = 0
                             /\ ~landing.found)'
    BY <1>1, <1>2, <1>8, SameStream
  <2>3. (landing.buffering /\ ~landing.found => BufferedUpTo(landing, source.next))'
    BY <1>2
  <2>4. (KeyFlagsReliable /\ reader.packet # 0 => IsKey(reader.packet))'
    BY <1>2
  <2> QED
    BY <2>1, <2>2, <2>3, <2>4 DEF LandingTrue
<1>10. LandingAtStart'
  BY <1>7 DEF LandingAtStart
<1>11. ctl'.pc \in {"landing", "landed"}
  BY DEF Scanning
<1> QED
  BY <1>2, <1>5, <1>6, <1>9, <1>10, <1>11 DEF Exact, Scanning

\* What is kept of a packet that follows the group in the buffer.
LEMMA BufferStays ==
  ASSUME Shapes, NEW l \in Landings, source.next \in Packets,
         l.buffering => BufferedUpTo(l, source.next)
  PROVE  LET b == IF l.buffering THEN Buffer(l, source.next) ELSE l
         IN /\ b \in Landings /\ b.target = l.target /\ b.found = l.found /\ b.best = l.best
            /\ b.scanning = l.scanning
            /\ b.buffering => BufferedUpTo(b, source.next + 1)
<1> DEFINE b == IF l.buffering THEN Buffer(l, source.next) ELSE l
<1>1. /\ l \in LandingRecords /\ l.best \in Nat /\ l.buffer \in Seq(Packets)
      /\ source.next \in Nat /\ Len(l.buffer) \in Nat
  <2>1. l \in LandingRecords /\ l.best \in Packets \cup {0} /\ l.buffer \in Seq(Packets)
    BY DEF Landings, LandingRecords
  <2>2. \A n \in Packets : n \in Nat
    BY StreamFacts DEF Shapes
  <2>3. source.next \in Nat
    BY <2>2
  <2>4. Len(l.buffer) \in Nat
    BY <2>1
  <2>5. l.best \in Nat
    <3>1. 0 \in Nat
      OBVIOUS
    <3> QED
      BY <2>1, <2>2, <3>1
  <2> QED
    BY <2>1, <2>3, <2>4, <2>5
<1>2. CASE ~l.buffering
  BY <1>2
<1>3. CASE l.buffering /\ Len(l.buffer) >= MaxGopPackets
  <2>1. b = [l EXCEPT !.buffering = FALSE, !.buffer = <<>>]
    BY <1>3 DEF Buffer
  <2>2. /\ b.target = l.target /\ b.found = l.found /\ b.best = l.best /\ b.scanning = l.scanning /\ ~b.buffering
    BY <1>1, <2>1 DEF LandingRecords
  <2>3. b \in Landings
    BY <1>3, BufferTypes
  <2> QED
    BY <2>2, <2>3
<1>4. CASE l.buffering /\ ~(Len(l.buffer) >= MaxGopPackets)
  <2> DEFINE old == l.buffer
             new == Append(old, source.next)
  <2>1. /\ Len(new) = Len(old) + 1 /\ DOMAIN new = 1..(Len(old) + 1) /\ DOMAIN old = 1..Len(old)
        /\ new[Len(old) + 1] = source.next /\ \A n \in 1..Len(old) : new[n] = old[n]
    BY <1>1
  <2>2. b = [l EXCEPT !.buffer = new]
    BY <1>4 DEF Buffer
  <2> HIDE DEF new
  <2>3. /\ b.target = l.target /\ b.found = l.found /\ b.best = l.best /\ b.scanning = l.scanning
        /\ b.buffering = l.buffering /\ b.buffer = new
    BY <1>1, <2>2 DEF LandingRecords
  <2>4. b \in Landings
    BY <1>4, BufferTypes
  <2>5. /\ Len(old) = source.next - l.best /\ \A n \in 1..Len(old) : old[n] = l.best + n - 1
        /\ l.best # 0
    BY <1>4, <2>1 DEF BufferedUpTo
  <2> HIDE DEF b, old
  <2>6. Len(new) = (source.next + 1) - l.best /\ Len(new) > 0 /\ Len(old) \in Nat
    <3>1. Len(old) \in Nat
      BY <1>1 DEF old
    <3> QED
      BY <1>1, <2>1, <2>5, <3>1
  <2>7. \A n \in DOMAIN new : new[n] = l.best + n - 1
    <3> TAKE n \in DOMAIN new
    <3>1. CASE n \in 1..Len(old)
      BY <2>1, <2>5, <3>1
    <3>2. CASE n = Len(old) + 1
      BY <1>1, <2>1, <2>5, <2>6, <3>2
    <3> QED
      BY <1>1, <2>1, <2>6, <3>1, <3>2
  <2>8. b.best # 0 /\ Len(b.buffer) = (source.next + 1) - b.best /\ Len(b.buffer) > 0
    BY <2>3, <2>5, <2>6
  <2>9. \A n \in DOMAIN b.buffer : b.buffer[n] = b.best + n - 1
    BY <2>3, <2>7
  <2>10. BufferedUpTo(b, source.next + 1)
    BY <2>8, <2>9 DEF BufferedUpTo
  <2> QED
    BY <2>3, <2>4, <2>10 DEF b
<1> QED
  BY <1>2, <1>3, <1>4

LEMMA LandOnNonKeyExact ==
  ASSUME TypeInv, TypeInv', Undisturbed, Exact, LandOnNonKey
  PROVE  Exact'
<1> DEFINE i == source.next
           begun == Begun(i)
           l == IF begun.buffering THEN Buffer(begun, i) ELSE begun
<1>1. /\ ctl.pc = "landing" /\ HasPacket /\ KeyFlagsReliable /\ ~IsKey(Next1) /\ Read(FALSE) /\ LandingUnchanged
  BY DEF LandOnNonKey, At
<1>2. /\ reader.packet = 0 /\ reader.replay = <<>> /\ Next1 = i /\ i \in Packets
      /\ Shapes /\ LandingTrue /\ ~landing.found
      /\ position.atStart => landing.best # 0 \/ i = 1
  BY <1>1, LandingReads
<1>3. /\ begun \in Landings /\ begun.target = landing.target /\ begun.found = landing.found
      /\ begun.best = landing.best /\ begun.scanning = landing.scanning
      /\ begun.buffering = landing.buffering /\ begun.buffer = landing.buffer
  BY <1>2, BegunTypes, LandingParts DEF Begun, LandingRecords
<1>4. ReadFromDemuxer(FALSE, NotePacket(i)) /\ Indexed(NotePacket(i)) /\ DelayOK(NotePacket(i))
  BY <1>1, <1>2, PacketsKeepDelayOK, NotePacketFacts DEF Read, Shapes, Exact, Calm
<1>5. /\ l \in Landings /\ l.target = landing.target /\ l.found = landing.found
      /\ l.best = landing.best /\ l.scanning = landing.scanning
      /\ l.buffering => BufferedUpTo(l, i + 1)
  <2> HIDE DEF begun
  <2>1. begun.buffering => BufferedUpTo(begun, i)
    BY <1>2, <1>3 DEF LandingTrue, BufferedUpTo
  <2> QED
    BY <1>2, <1>3, <2>1, BufferStays
<1>6. Landed(l) \/ (landing' = l /\ UNCHANGED ctl)
  BY <1>1, <1>2, <1>3 DEF LandOnNonKey
<1> HIDE DEF l, begun
<1>7. /\ ctl'.purpose = ctl.purpose /\ ctl'.cut = ctl.cut /\ ctl'.retrying = ctl.retrying
      /\ ctl'.pc \in {"landing", "landed"}
      /\ landing'.target = l.target /\ landing'.found = l.found /\ landing'.best = l.best
      /\ landing'.scanning = l.scanning /\ landing'.buffering = l.buffering /\ landing'.buffer = l.buffer
  BY <1>1, <1>2, <1>5, <1>6 DEF Landed, Go, Landings, LandingRecords, Shapes, Controls
<1>8. landing.best # 0 => landing.scanning /\ IsKey(landing.best) /\ Pts(landing.best) <= window.target
  BY <1>2 DEF LandingTrue
<1>9. position.atStart => landing.best # 0
  BY <1>1, <1>2 DEF Undisturbed
<1>10. Scanning'
  BY <1>7 DEF Scanning
<1>11. landing'.buffering => BufferedUpTo(landing', i + 1)
  BY <1>5, <1>7 DEF BufferedUpTo
<1> QED
  BY <1>1, <1>4, <1>5, <1>7, <1>8, <1>9, <1>10, <1>11, LandingPasses

LEMMA LandPastTargetExact ==
  ASSUME TypeInv, TypeInv', Undisturbed, Exact, LandPastTarget
  PROVE  Exact'
<1> DEFINE i == source.next
           begun == IF landing.first = 0 THEN [landing EXCEPT !.first = i] ELSE landing
           l == IF begun.buffering THEN Buffer(begun, i) ELSE begun
<1>1. /\ ctl.pc = "landing" /\ HasPacket /\ KeyFlagsReliable /\ Pts(Next1) > landing.target
      /\ ReadFromDemuxer(FALSE, LandingIndex(Next1)) /\ LandingUnchanged
  BY DEF LandPastTarget, At
<1>2. /\ reader.packet = 0 /\ reader.replay = <<>> /\ Next1 = i /\ i \in Packets
      /\ Shapes /\ LandingTrue /\ ~landing.found
      /\ position.atStart => landing.best # 0 \/ i = 1
  BY <1>1, LandingReads
<1>3. /\ begun \in Landings /\ begun.target = landing.target /\ begun.found = landing.found
      /\ begun.best = landing.best /\ begun.scanning = landing.scanning
      /\ begun.buffering = landing.buffering /\ begun.buffer = landing.buffer
  <2>1. landing \in LandingRecords /\ landing \in Landings /\ i \in Packets
    BY <1>2, LandingParts DEF Shapes
  <2>2. begun \in LandingRecords /\ begun.buffer = landing.buffer
        /\ begun.target = landing.target /\ begun.found = landing.found /\ begun.best = landing.best
        /\ begun.scanning = landing.scanning /\ begun.buffering = landing.buffering
    BY <2>1 DEF LandingRecords
  <2> QED
    BY <2>1, <2>2 DEF Landings
<1>4. ReadFromDemuxer(FALSE, LandingIndex(i)) /\ Indexed(LandingIndex(i)) /\ DelayOK(LandingIndex(i))
  BY <1>1, <1>2, PacketsKeepDelayOK, LandingIndexTypes DEF Exact, Calm
<1>5. /\ l \in Landings /\ l.target = landing.target /\ l.found = landing.found
      /\ l.best = landing.best /\ l.scanning = landing.scanning
      /\ l.buffering => BufferedUpTo(l, i + 1)
  <2> HIDE DEF begun
  <2>1. begun.buffering => BufferedUpTo(begun, i)
    BY <1>2, <1>3 DEF LandingTrue, BufferedUpTo
  <2> QED
    BY <1>2, <1>3, <2>1, BufferStays
<1>6. Landed(l)
  BY <1>1, <1>2, <1>3 DEF LandPastTarget
<1> HIDE DEF l, begun
<1>7. /\ ctl'.purpose = ctl.purpose /\ ctl'.cut = ctl.cut /\ ctl'.retrying = ctl.retrying
      /\ ctl'.pc = "landed"
      /\ landing'.target = l.target /\ landing'.found = l.found /\ landing'.best = l.best
      /\ landing'.scanning = l.scanning /\ landing'.buffering = l.buffering /\ landing'.buffer = l.buffer
  BY <1>1, <1>2, <1>5, <1>6 DEF Landed, Go, Landings, LandingRecords, Shapes, Controls
<1>8. landing.best # 0 => landing.scanning /\ IsKey(landing.best) /\ Pts(landing.best) <= window.target
  BY <1>2 DEF LandingTrue
<1>9. position.atStart => landing.best # 0
  <2>1. Pts(1) <= window.target /\ landing.target = window.target /\ Pts(1) \in Int /\ window.target \in Int
    BY <1>2, StreamFacts DEF LandingTrue, Exact, Calm, Undisturbed, Probe, StartPts, Shapes, Windows
  <2> QED
    BY <1>1, <1>2, <2>1
<1>10. Scanning'
  BY <1>7 DEF Scanning
<1>11. landing'.buffering => BufferedUpTo(landing', i + 1)
  BY <1>5, <1>7 DEF BufferedUpTo
<1> QED
  BY <1>1, <1>4, <1>5, <1>7, <1>8, <1>9, <1>10, <1>11, LandingPasses

LEMMA LandOnKeyExact ==
  ASSUME TypeInv, TypeInv', Undisturbed, Exact, LandOnKey
  PROVE  Exact'
<1> DEFINE i == source.next
           covers == ~landing.scanning /\ ~HasKeyBetween(NotePacket(i), Pts(i), landing.target)
           l == IF landing.first = 0 THEN [Begun(i) EXCEPT !.first = i] ELSE landing
<1>1. /\ ctl.pc = "landing" /\ HasPacket /\ KeyFlagsReliable /\ IsKey(Next1) /\ Pts(Next1) <= landing.target
      /\ LandingUnchanged
  BY DEF LandOnKey, At
<1>2. /\ Next1 = i /\ i \in Packets /\ Shapes /\ LandingTrue /\ ~landing.found
  BY <1>1, LandingReads
<1>3. /\ l \in LandingRecords /\ l.target = landing.target /\ l.found = landing.found /\ l.best = landing.best
  <2>1. Begun(i) \in LandingRecords /\ landing \in LandingRecords
    BY <1>2, BegunTypes, LandingParts DEF Landings
  <2>2. Begun(i).target = landing.target /\ Begun(i).found = landing.found /\ Begun(i).best = landing.best
    BY <1>2, LandingParts DEF Begun, LandingRecords
  <2> HIDE DEF i
  <2> QED
    BY <1>2, <2>1, <2>2 DEF LandingRecords
<1>4. /\ ReadFromDemuxer(covers, LandingIndex(i))
      /\ covers => Landed([l EXCEPT !.found = TRUE])
      /\ ~covers => /\ landing' = [l EXCEPT !.scanning = TRUE, !.best = i, !.buffering = ~mode.keyframeOnly,
                                            !.buffer = IF mode.keyframeOnly THEN <<>> ELSE <<i>>]
                    /\ UNCHANGED ctl
  BY <1>2 DEF LandOnKey
<1>5. Indexed(LandingIndex(i)) /\ DelayOK(LandingIndex(i)) /\ ~mode.keyframeOnly
  BY <1>1, <1>2, PacketsKeepDelayOK, LandingIndexTypes DEF Exact, Calm
<1>6. covers => landing.best = 0
  BY <1>2 DEF LandingTrue
<1>7. landing.target = window.target /\ i \in Nat \ {0}
  BY <1>2, StreamFacts DEF LandingTrue, Shapes
<1>8. covers \in BOOLEAN
  OBVIOUS
<1> HIDE DEF l, covers
<1>9. CASE covers
  <2>1. covers = TRUE
    BY <1>8, <1>9
  <2>2. ReadFromDemuxer(TRUE, LandingIndex(i))
    BY <1>4, <2>1
  <2>3. /\ landing'.target = landing.target /\ landing'.found /\ landing'.best = 0
        /\ ctl'.purpose = ctl.purpose /\ ctl'.cut = ctl.cut /\ ctl'.retrying = ctl.retrying /\ ctl'.pc = "landed"
    BY <1>2, <1>3, <1>4, <1>6, <1>9 DEF Landed, Go, LandingRecords, Shapes, Controls
  <2> QED
    BY <1>1, <1>2, <1>5, <1>6, <1>9, <2>2, <2>3, LandingKeeps
<1>10. CASE ~covers
  <2>1. covers = FALSE
    BY <1>8, <1>10
  <2>2. ReadFromDemuxer(FALSE, LandingIndex(i))
    BY <1>4, <2>1
  <2>3. ctl' = ctl /\ Scanning'
    BY <1>1, <1>4, <1>10 DEF Scanning
  <2>4. landing' = [l EXCEPT !.scanning = TRUE, !.best = i, !.buffering = TRUE, !.buffer = <<i>>]
    BY <1>4, <1>5, <1>10
  <2>5. /\ landing'.target = landing.target /\ landing'.found = landing.found /\ landing'.scanning
        /\ landing'.best = i /\ landing'.buffer = <<i>>
    BY <1>3, <2>4 DEF LandingRecords
  <2>6. BufferedUpTo(landing', i + 1)
    <3> DEFINE buffer == <<i>>
    <3>1. Len(buffer) = 1 /\ DOMAIN buffer = 1..1 /\ buffer[1] = i
      OBVIOUS
    <3> HIDE DEF i, buffer
    <3>2. Len(buffer) = (i + 1) - i /\ Len(buffer) > 0 /\ \A n \in 1..1 : buffer[n] = i + n - 1
      BY <1>7, <3>1
    <3>3. landing'.best # 0
      BY <1>7, <2>5
    <3>4. landing'.best = i /\ landing'.buffer = buffer
      BY <2>5 DEF buffer
    <3>5. \A n \in DOMAIN buffer : buffer[n] = i + n - 1
      BY <3>1, <3>2
    <3> QED
      BY <3>2, <3>3, <3>4, <3>5 DEF BufferedUpTo
  <2>7. landing'.best # 0
    BY <1>7, <2>5
  <2>8. IsKey(landing'.best) /\ Pts(landing'.best) <= window.target
    BY <1>1, <1>2, <1>7, <2>5
  <2> QED
    BY <1>1, <1>5, <2>2, <2>3, <2>5, <2>6, <2>7, <2>8, LandingPasses
<1> QED
  BY <1>9, <1>10

LEMMA LandAtEndExact ==
  ASSUME TypeInv, TypeInv', Undisturbed, Exact, LandAtEnd
  PROVE  Exact'
<1>1. /\ ctl.pc = "landing" /\ AtEnd /\ Landed(landing) /\ UNCHANGED <<source, reader>> /\ LandingUnchanged
      /\ keys' = IF landing.best = 0 THEN keys ELSE NoteStreamEndedInGop(keys, Pts(landing.best))
  BY DEF LandAtEnd, At
<1>2. /\ Shapes /\ Calm /\ InOrder /\ SkipOK /\ Fresh /\ LandingTrue /\ LandingAtStart /\ Scanning
  BY <1>1 DEF TypeInv, Exact, Scanning
<1>3. source.next # 1
  <2>1. ~HasPacket /\ 1 \in Packets /\ ~source.sticky
    BY <1>1, <1>2 DEF AtEnd, Undisturbed, Calm
  <2> QED
    BY <2>1 DEF HasPacket
<1>4. DelayOK(keys')
  BY <1>1, <1>2, DelaysStayOK, StreamFacts, LandingParts DEF Shapes, Calm
<1>5. /\ landing'.target = landing.target /\ landing'.found = landing.found /\ landing'.best = landing.best
      /\ landing'.scanning = landing.scanning /\ landing'.buffering = landing.buffering
      /\ landing'.buffer = landing.buffer
      /\ ctl'.pc = "landed" /\ ctl'.purpose = ctl.purpose /\ ctl'.cut = ctl.cut /\ ctl'.retrying = ctl.retrying
  BY <1>1, <1>2, LandingParts DEF Landed, Go, LandingRecords, Shapes, Controls
<1>6. Scanning'
  BY <1>5 DEF Scanning
<1>7. Calm' /\ SkipOK' /\ Fresh'
  BY <1>1, <1>2, <1>4, <1>5, <1>6, LandingStays
<1>8. InOrder'
  BY <1>1, <1>2 DEF InOrder, Next1
<1>9. LandingTrue'
  <2>1. BufferedUpTo(landing', source'.next) <=> BufferedUpTo(landing, source.next)
    BY <1>1, <1>5 DEF BufferedUpTo
  <2> QED
    BY <1>1, <1>2, <1>5, <2>1, SameReads, SameStream DEF LandingTrue, LandingUnchanged, IsKey, Pts
<1>10. LandingAtStart'
  BY <1>1, <1>2, <1>3, <1>5 DEF LandingAtStart, LandingUnchanged
<1> QED
  BY <1>5, <1>6, <1>7, <1>8, <1>9, <1>10 DEF Exact

\* Only the decision was taken to move the demuxer.
LEMMA DecidesToMove ==
  ASSUME TypeInv, TypeInv', Undisturbed, Calm, InOrder, SkipOK,
         UNCHANGED <<source, decoder, position, frontier, slots, mode, reader, keys, window, reply>>,
         ctl'.pc \in {"seek", "byteSeek", "backOff"}, ctl'.purpose \notin {"covered", "arm"},
         ctl'.cut = ctl.cut, ctl'.retrying = ctl.retrying
  PROVE  Exact'
<1>1. Calm'
  BY SameStream DEF Calm, Seekable
<1>2. InOrder' /\ SkipOK'
  BY DEF InOrder, Next1, SkipOK
<1>3. ~Scanning'
  BY DEF Scanning
<1> QED
  BY <1>1, <1>2, <1>3 DEF Exact

\* What is chosen of a landing.
LEMMA SettleOnReplayExact ==
  ASSUME TypeInv, TypeInv', Undisturbed, Exact, SettleOnReplay
  PROVE  Exact'
<1> DEFINE best == landing.best
<1>1. /\ ctl.pc = "landed" /\ best # 0 /\ landing.buffering
      /\ reader' = [reader EXCEPT !.replay = landing.buffer]
      /\ position' = [position EXCEPT !.awaitingKey = TRUE]
      /\ landing' = [landing EXCEPT !.found = TRUE, !.best = 0]
      /\ UNCHANGED <<source, decoder, frontier, slots, mode, keys, ladder, window, ctl, reply>>
  BY DEF SettleOnReplay, At
<1>2. Shapes /\ Calm /\ InOrder /\ SkipOK /\ Fresh /\ LandingTrue /\ Scanning
  BY <1>1 DEF TypeInv, Exact, Scanning
<1>3. /\ reader.packet = 0 /\ KeyFlagsReliable /\ IsKey(best) /\ Pts(best) <= window.target
      /\ BufferedUpTo(landing, source.next) /\ best \in Packets /\ landing.target = window.target
  BY <1>1, <1>2, LandingParts DEF LandingTrue
<1>4. /\ reader'.packet = 0 /\ reader'.replay = landing.buffer /\ position'.awaitingKey
      /\ position'.positioned = position.positioned /\ position'.atStart = position.atStart
      /\ landing'.found /\ landing'.best = 0 /\ landing'.target = landing.target
  BY <1>1, <1>2, <1>3, ReaderParts, LandingParts DEF ReaderRecords, Shapes, Positions, LandingRecords
<1>5. Calm' /\ SkipOK' /\ Fresh'
  BY <1>1, <1>2, <1>4, SameStream DEF Calm, SkipOK, Fresh, Seekable
<1>6. best \in Nat /\ source.next \in Nat /\ landing.buffer \in Seq(Packets) /\ best \in Packets
  BY <1>2, <1>3, StreamFacts, SourceParts, LandingParts DEF Shapes, LandingRecords
<1>7. /\ Len(landing.buffer) = source.next - best /\ Len(landing.buffer) > 0
      /\ \A n \in DOMAIN landing.buffer : landing.buffer[n] = best + n - 1
  BY <1>3 DEF BufferedUpTo
<1>8. InOrder'
  <2>1. \A n \in DOMAIN landing.buffer : landing.buffer[n] = source.next - Len(landing.buffer) + n - 1
    <3> TAKE n \in DOMAIN landing.buffer
    <3>1. source.next - Len(landing.buffer) = best
      BY <1>6, <1>7
    <3> QED
      BY <1>7, <3>1
  <2> QED
    BY <1>1, <1>4, <2>1 DEF InOrder
<1>9. Unfed' = best
  <2>1. landing.buffer # <<>> /\ Head(landing.buffer) = landing.buffer[1] /\ 1 \in DOMAIN landing.buffer
    BY <1>6, <1>7
  <2>2. landing.buffer[1] = best
    BY <1>6, <1>7, <2>1
  <2> QED
    BY <1>4, <2>1, <2>2 DEF Unfed, Next1
<1>10. StartsRight'
  BY <1>1, <1>3, <1>6, <1>9, SameStream DEF StartsRight, IsKey, Pts
<1>11. LandingTrue' /\ LandingAtStart'
  BY <1>1, <1>3, <1>4, <1>10 DEF LandingTrue, LandingAtStart
<1> QED
  BY <1>1, <1>2, <1>5, <1>8, <1>11 DEF Exact, Scanning

LEMMA SettleByRewindingExact ==
  ASSUME TypeInv, TypeInv', Undisturbed, Exact, SettleByRewinding
  PROVE  Exact'
<1>1. /\ ctl.pc = "landed" /\ TypeInv /\ ctl \in Controls
      /\ UNCHANGED <<source, decoder, position, frontier, slots, mode, reader, keys, window, reply>>
  BY DEF SettleByRewinding, At, TypeInv, Shapes
<1>2. Calm /\ InOrder /\ SkipOK
  BY <1>1 DEF Exact
<1>3. ctl' = [ctl EXCEPT !.purpose = "found", !.pc = IF Trusted THEN "seek" ELSE "byteSeek",
                         !.aim = IF Trusted THEN Pts(landing.best) - ReorderTicks(keys) ELSE Pts(landing.best)]
  BY DEF SettleByRewinding
<1>4. /\ ctl'.purpose = "found" /\ ctl'.pc \in {"seek", "byteSeek"} /\ ctl'.cut = ctl.cut
      /\ ctl'.retrying = ctl.retrying
  BY <1>1, <1>3 DEF Controls
<1> QED
  BY <1>1, <1>2, <1>4, DecidesToMove

LEMMA AfterLandingExact ==
  ASSUME TypeInv, TypeInv', Undisturbed, Exact, AfterLanding
  PROVE  Exact'
<1>1. /\ ctl.pc = "landed" /\ landing.best = 0 /\ landing' = NoLanding
      /\ UNCHANGED <<source, decoder, position, frontier, slots, mode, reader, keys, window, reply>>
  BY DEF AfterLanding, At
<1>2. /\ Shapes /\ Calm /\ InOrder /\ SkipOK /\ Fresh /\ LandingTrue /\ LandingAtStart /\ ctl \in Controls
  BY <1>1 DEF TypeInv, Exact, Scanning, Shapes
<1>3. Positioned = "select"
  BY <1>2 DEF Positioned, Calm, Undisturbed, Probe
<1>4. \/ Go("select")
      \/ RetryAfterOvershoot /\ ctl.purpose = "indexed"
      \/ \E observed : Retreat(observed) /\ ctl.purpose \in {"indexed", "scanned"}
  BY <1>2, <1>3 DEF AfterLanding, Calm
<1>5. CASE Go("select")
  <2>1. /\ ctl'.pc = "select" /\ ctl'.purpose = ctl.purpose /\ ctl'.cut = ctl.cut /\ ctl'.retrying = ctl.retrying
    BY <1>2, <1>5 DEF Go, Controls
  <2>2. Calm'
    BY <1>1, <1>2, <2>1, SameStream DEF Calm, Seekable
  <2>3. InOrder' /\ SkipOK'
    BY <1>1, <1>2 DEF InOrder, Next1, SkipOK
  <2>4. Selecting
    BY <1>1, <1>2, FreshSelects DEF LandingTrue, LandingAtStart
  <2>5. Selecting'
    BY <1>1, <2>4, SelectingStays
  <2> QED
    BY <2>1, <2>2, <2>3, <2>5 DEF Exact, Scanning
<1>6. CASE RetryAfterOvershoot /\ ctl.purpose = "indexed"
  <2>1. /\ ctl'.pc = "seek" /\ ctl'.purpose \in {"start", "indexed"} /\ ctl'.cut = ctl.cut
        /\ ctl'.retrying = ctl.retrying
    BY <1>2, <1>6 DEF RetryAfterOvershoot, Controls
  <2> QED
    BY <1>1, <1>2, <2>1, DecidesToMove
<1>7. CASE \E observed : Retreat(observed) /\ ctl.purpose \in {"indexed", "scanned"}
  <2>1. /\ ctl'.pc = "backOff" /\ ctl'.purpose = ctl.purpose /\ ctl'.cut = ctl.cut
        /\ ctl'.retrying = ctl.retrying
    BY <1>2, <1>7 DEF Retreat, Controls
  <2> QED
    BY <1>1, <1>2, <1>7, <2>1, DecidesToMove
<1> QED
  BY <1>4, <1>5, <1>6, <1>7

LEMMA LandsStayExact ==
  ASSUME TypeInv, TypeInv', Undisturbed, Exact, Lands
  PROVE  Exact'
<1>1. ~SettleOnParked
  BY DEF SettleOnParked, Exact, Calm
<1> QED
  BY <1>1, LandOnAnythingExact, LandOnNonKeyExact, LandPastTargetExact, LandOnKeyExact, LandAtEndExact,
     SettleOnReplayExact, SettleByRewindingExact, AfterLandingExact DEF Lands

LEMMA MovesStayExact ==
  ASSUME TypeInv, TypeInv', Undisturbed, Exact, Moves
  PROVE  Exact'
<1>1. Calm /\ InOrder /\ ctl \in Controls
  BY DEF Exact, TypeInv, Shapes
<1>2. ~PositionUnseekable /\ ~SeekFails /\ ~ByteSeekFails
  BY <1>1 DEF PositionUnseekable, SeekFails, ByteSeekFails, Calm, Undisturbed
<1>3. CASE Position
  <2>1. /\ ctl.pc = "position" /\ ~CanStay /\ SkipOK /\ ~mode.keyframeOnly
        /\ UNCHANGED <<source, decoder, position, frontier, slots, mode, reader, keys, window, landing, reply>>
    BY <1>1, <1>3 DEF Position, At, Exact, Calm
  <2>2. \/ \E aim : ctl' = [ctl EXCEPT !.pc = "byteSeek", !.aim = aim, !.purpose = "found"]
        \/ \E aim : ctl' = [ctl EXCEPT !.pc = "seek", !.round = 0, !.purpose = IF Trusted THEN "indexed" ELSE "scanned",
                                       !.aim = aim]
    BY <1>3, <2>1 DEF Position
  <2>3. /\ ctl'.pc \in {"seek", "byteSeek"} /\ ctl'.purpose \notin {"covered", "arm"} /\ ctl'.cut = ctl.cut
        /\ ctl'.retrying = ctl.retrying
    BY <1>1, <2>2 DEF Controls
  <2> QED
    BY <1>1, <2>1, <2>3, DecidesToMove
<1>4. CASE BackOff
  <2>1. /\ ctl.pc = "backOff" /\ SkipOK
        /\ UNCHANGED <<source, decoder, position, frontier, slots, mode, reader, keys, window, landing, reply>>
    BY <1>4 DEF BackOff, At, Exact
  <2>2. \E aim : SeekThen(aim, ctl.purpose)
    BY <1>4 DEF BackOff
  <2>3. /\ ctl'.pc = "seek" /\ ctl'.purpose = ctl.purpose /\ ctl'.cut = ctl.cut
        /\ ctl'.retrying = ctl.retrying
    BY <1>1, <2>2 DEF Controls, SeekThen
  <2> QED
    BY <1>1, <2>1, <2>3, DecidesToMove DEF Calm
<1> QED
  BY <1>2, <1>3, <1>4, SeeksStayExact DEF Moves

-----------------------------------------------------------------------------
(* What is on screen.                                                       *)

LEMMA ShownFacts ==
  ASSUME Shapes, Undisturbed
  PROVE  /\ Shown \subseteq Times /\ Shown \subseteq Int /\ FirstFrameTs \in Shown /\ FirstFrameTs \in Int
         /\ \A t \in Times : t \in Int /\ NoPts < t /\ (t \in Shown <=> FirstFrameTs <= t)
         /\ Max(Shown) \in Shown /\ Max(Shown) \in Int /\ \A t \in Shown : t <= Max(Shown)
         /\ StreamEnd = Max(Shown) + FrameDuration /\ FrameDuration \in Nat \ {0} /\ NoPts \in Int
<1>1. Times \subseteq Int /\ FirstFrameTs \in Times /\ FirstFrameTs \in Int
  BY StreamFacts DEF Shapes, Undisturbed
<1>2. Shown \subseteq Times /\ FirstFrameTs \in Shown
  BY <1>1 DEF Shown
<1>3. Max(Shown) \in Shown /\ \A t \in Shown : t <= Max(Shown)
  BY <1>2, ExtremeTimes DEF Shapes
<1>4. \A t \in Times : NoPts < t
  BY StreamFacts DEF Times, Shapes
<1>5. \A t \in Times : t \in Shown <=> FirstFrameTs <= t
  BY <1>1 DEF Shown
<1> QED
  BY <1>1, <1>2, <1>3, <1>4, <1>5, TicksTypes DEF StreamEnd

LEMMA OnScreenIs ==
  ASSUME Shapes, Undisturbed, NEW target \in Int, NEW s \in Shown, s <= target,
         \A t \in Shown : t <= s \/ target < t
  PROVE  OnScreen(target) = s
<1> DEFINE upTo == {t \in Shown : t <= target}
<1>1. Shown \subseteq Times /\ \A t \in Shown : t \in Int
  BY ShownFacts
<1>2. upTo \subseteq Times /\ s \in upTo /\ \A t \in upTo : t <= s
  <2>1. \A t \in Shown : t <= target => t <= s
    BY <1>1
  <2> QED
    BY <1>1, <2>1
<1>3. Max(upTo) \in upTo /\ \A t \in upTo : t <= Max(upTo)
  <2> HIDE DEF upTo
  <2> QED
    BY <1>2, ExtremeTimes DEF Shapes
<1>4. Max(upTo) = s
  <2>1. Max(upTo) <= s /\ s <= Max(upTo) /\ Max(upTo) \in Shown
    BY <1>2, <1>3
  <2> HIDE DEF upTo
  <2> QED
    BY <1>1, <2>1
<1> QED
  BY <1>4 DEF OnScreen

\* The last frame of the stream, at a target past its beginning.
LEMMA FinishIsRight ==
  ASSUME Shapes, Undisturbed, Calm, NEW frame \in Frames, frame.pts = Max(Shown),
         frame.pts <= window.target, FinishWith(frame)
  PROVE  \/ /\ UNCHANGED <<position, reply>>
            /\ \E adjustment \in Adjustments :
                 Select(frame, adjustment) /\ RightAnswer(window, frame, adjustment)
         \/ /\ Fail("timeOutOfRange") /\ window.target >= StreamEnd
            /\ position' = IF At("start") THEN position ELSE Abandoned(position)
<1>1. /\ frame.pts \in Shown /\ frame.pts \in Int /\ FrameDuration \in Nat \ {0} /\ window.target \in Int
      /\ \A t \in Shown : t <= frame.pts /\ FirstFrameTs \in Int /\ FirstFrameTs <= frame.pts
      /\ StreamEnd = frame.pts + FrameDuration
  <2>1. window.target \in Int
    BY DEF Shapes, Windows
  <2> QED
    BY <2>1, ShownFacts
<1>2. DisplayEnd(frame) = StreamEnd
  <2>1. DisplayEnd(frame) = Max({frame.pts + FrameDuration, frame.pts})
    BY DEF DisplayEnd, FrameEnd, Calm
  <2>2. frame.pts + FrameDuration \in Int /\ frame.pts + FrameDuration >= frame.pts
    BY <1>1
  <2> QED
    BY <1>1, <2>1, <2>2, MaxOfTwo
<1>3. CASE window.target < StreamEnd
  <2>1. Select(frame, "none") /\ UNCHANGED <<position, reply>>
    BY <1>2, <1>3 DEF FinishWith
  <2>2. OnScreen(window.target) = frame.pts
    BY <1>1, OnScreenIs
  <2>3. window.target >= FirstFrameTs
    BY <1>1
  <2>4. RightAnswer(window, frame, "none")
    BY <1>3, <2>2, <2>3 DEF RightAnswer
  <2> QED
    BY <2>1, <2>4 DEF Adjustments
<1>4. CASE ~(window.target < StreamEnd)
  <2>1. window.target >= StreamEnd
    BY <1>1, <1>4
  <2>2. CASE Clamps
    <3>1. Select(frame, "clampedToLast") /\ UNCHANGED <<position, reply>>
      BY <1>2, <1>4, <2>2 DEF FinishWith
    <3>2. RightAnswer(window, frame, "clampedToLast")
      BY <2>1 DEF RightAnswer
    <3> QED
      BY <3>1, <3>2 DEF Adjustments
  <2>3. CASE ~Clamps
    BY <1>2, <1>4, <2>1, <2>3 DEF FinishWith
  <2> QED
    BY <2>2, <2>3
<1> QED
  BY <1>3, <1>4

-----------------------------------------------------------------------------
(* Starting and ending a request.                                           *)

\* A request ends, or an answer is chosen.
LEMMA EndsExactly ==
  ASSUME TypeInv, TypeInv', Undisturbed, source'.setting = source.setting, Quiet', InOrder',
         Seekable' /\ ~source'.sticky /\ ~source'.interrupted,
         ~mode'.keyframeOnly /\ mode'.tailEnd \in {NoPts, StreamEnd},
         ~frontier'.drained /\ ~IsValid(slots'.corruptLast), DelayOK(keys'), Calm,
         window' = window,
         \/ /\ ctl' = Idle
            /\ \/ reply'.status = "ok" /\ RightAnswer(window, reply'.frame, reply'.adjustment)
               \/ reply'.status = "timeOutOfRange" /\ window.target >= StreamEnd
         \/ \E frame, adjustment : Select(frame, adjustment) /\ RightAnswer(window, frame, adjustment)
  PROVE  Exact'
<1>1. StreamEnd' = StreamEnd /\ Requests' = Requests /\ Probe' = Probe
      /\ \A w, frame, adjustment : RightAnswer(w, frame, adjustment)' <=> RightAnswer(w, frame, adjustment)
  BY SameStream, SameSetting
<1>2. ctl \in Controls
  BY DEF TypeInv, Shapes
<1>3. CASE ctl' = Idle
  <2>1. ctl'.pc = "idle" /\ ctl'.purpose = "select" /\ ~ctl'.cut /\ ~ctl'.retrying
    BY <1>3 DEF Idle
  <2>2. Calm'
    BY <1>1, <2>1 DEF Calm
  <2>3. RightReply'
    <3>1. \/ reply'.status = "ok" /\ RightAnswer(window, reply'.frame, reply'.adjustment)
          \/ reply'.status = "timeOutOfRange" /\ window.target >= StreamEnd
      BY <1>2, <2>1 DEF Select, Controls
    <3> QED
      BY <1>1, <3>1, SameStream DEF RightReply, RightAnswer, OnScreen
  <2> QED
    BY <2>1, <2>2, <2>3 DEF Exact, Scanning
<1>4. CASE \E frame, adjustment : Select(frame, adjustment) /\ RightAnswer(window, frame, adjustment)
  <2>1. /\ ctl'.pc = "answer" /\ ctl'.purpose = ctl.purpose /\ ctl'.cut = ctl.cut /\ ctl'.retrying = ctl.retrying
        /\ RightAnswer(window, ctl'.frame, ctl'.adjustment)
    BY <1>2, <1>4 DEF Select, Controls
  <2>2. Calm'
    BY <1>1, <2>1 DEF Calm
  <2>3. RightAnswer(window, ctl.frame, ctl.adjustment)'
    BY <2>1, SameStream DEF RightAnswer, OnScreen
  <2> QED
    BY <2>1, <2>2, <2>3 DEF Exact, Scanning
<1> QED
  BY <1>3, <1>4

LEMMA AcceptExact ==
  ASSUME TypeInv, TypeInv', Undisturbed, Exact, Accept
  PROVE  Exact'
<1>1. /\ ctl.pc = "idle" /\ UNCHANGED <<source, decoder, position, frontier, slots, reader, keys, ladder, landing>>
      /\ mode' = [mode EXCEPT !.eofRetried = FALSE] /\ mode \in Modes
  BY DEF Accept, At, TypeInv, Shapes
<1>2. Calm /\ InOrder /\ Quiet
  BY <1>1 DEF Exact
<1>3. PICK w \in Requests : window' = Resolve(w)
  BY DEF Accept
<1>4. window' \in Requests
  BY <1>2, <1>3 DEF Resolve, Calm
<1>5. /\ ctl'.pc = "start" /\ ctl'.purpose = "select" /\ ~ctl'.cut /\ ~ctl'.retrying
  BY <1>2 DEF Accept, Idle, Calm
<1>6. mode'.keyframeOnly = mode.keyframeOnly /\ mode'.tailEnd = mode.tailEnd
  BY <1>1 DEF Modes
<1>7. Calm'
  BY <1>1, <1>2, <1>4, <1>5, <1>6, SameStream DEF Calm, Seekable
<1>8. InOrder' /\ Quiet'
  BY <1>1, <1>2, QuietStays DEF InOrder, Next1
<1> QED
  BY <1>5, <1>7, <1>8 DEF Exact, Scanning

\* What a request that starts knows.
LEMMA AtStart ==
  ASSUME TypeInv, Undisturbed, Exact, ctl.pc = "start"
  PROVE  /\ Shapes /\ Calm /\ InOrder /\ Quiet /\ window \in Requests /\ ~window.keyMode
         /\ window.adjustment = "none" /\ window.start <= window.target
         /\ window.target \in Int /\ window.start \in Int
         /\ frontier.received \in Shown /\ slots.held.pts \in Shown /\ slots.held \in Frames
         /\ IsValid(slots.held) /\ (IsValid(slots.pending) => slots.pending.pts \in Shown)
<1>1. Shapes /\ Calm /\ InOrder /\ Quiet /\ window \in Requests
  BY DEF Exact, Calm, TypeInv
<1>2. slots.held.pts \in Shown /\ IsValid(slots.held) /\ slots.held \in Frames
  BY <1>1 DEF Quiet, Shapes, Slots
<1>3. frontier.received \in Times
  BY <1>1, FrontierParts DEF Quiet
<1>4. frontier.received \in Shown
  BY <1>1, <1>2, <1>3, ShownFacts DEF Quiet
<1>5. IsValid(slots.pending) => slots.pending.pts \in Shown
  BY <1>1, <1>4 DEF Quiet
<1>6. window \in Windows
  BY <1>1 DEF Shapes
<1> QED
  BY <1>1, <1>2, <1>4, <1>5, <1>6 DEF Undisturbed, Windows

LEMMA AnswerFromHeldExact ==
  ASSUME TypeInv, TypeInv', Undisturbed, Exact, AnswerFromHeld
  PROVE  Exact'
<1>1. /\ ctl.pc = "start" /\ CanAnswerFromHeld /\ Select(slots.held, window.adjustment)
      /\ UNCHANGED <<source, decoder, position, frontier, slots, mode, reader, keys, ladder, window, landing, reply>>
  BY DEF AnswerFromHeld, At
<1>2. /\ Shapes /\ Calm /\ InOrder /\ Quiet /\ ~window.keyMode /\ window.adjustment = "none"
      /\ window.target \in Int /\ slots.held.pts \in Shown
      /\ (IsValid(slots.pending) => slots.pending.pts \in Shown)
  BY <1>1, AtStart
<1>3. /\ slots.held.pts <= window.target /\ IsValid(slots.pending) /\ window.target < slots.pending.pts
  BY <1>1, <1>2 DEF CanAnswerFromHeld, IsHeldCovering
<1>4. \A t \in Shown : t <= slots.held.pts \/ window.target < t
  BY <1>2, <1>3, ShownFacts DEF Quiet
<1>5. OnScreen(window.target) = slots.held.pts
  BY <1>2, <1>3, <1>4, OnScreenIs
<1>6. window.target >= FirstFrameTs /\ window.target < StreamEnd
  BY <1>2, <1>3, ShownFacts
<1>7. RightAnswer(window, slots.held, "none")
  BY <1>5, <1>6 DEF RightAnswer
<1>8. Quiet' /\ InOrder'
  BY <1>1, <1>2, QuietStays DEF InOrder, Next1
<1> QED
  BY <1>1, <1>2, <1>7, <1>8, EndsExactly DEF Calm, Seekable

LEMMA AnswerAtTailExact ==
  ASSUME TypeInv, TypeInv', Undisturbed, Exact, AnswerAtTail
  PROVE  Exact'
<1>1. /\ ctl.pc = "start" /\ CanAnswerAtTail /\ FinishAtEof
      /\ UNCHANGED <<source, decoder, frontier, mode, reader, keys, ladder, window, landing>>
  BY DEF AnswerAtTail, At
<1>2. /\ Shapes /\ Calm /\ InOrder /\ Quiet /\ IsValid(slots.held) /\ slots.held.pts \in Shown
      /\ slots.held \in Frames
  BY <1>1, AtStart
<1>3. /\ slots.held.pts <= window.target /\ frontier.eof /\ ~IsValid(slots.pending)
  BY <1>1 DEF CanAnswerAtTail, IsHeldCovering
<1>4. FinishWith(slots.held) /\ slots' = slots
  BY <1>1, <1>2 DEF FinishAtEof
<1>5. slots.held.pts = Max(Shown)
  <2>1. slots.held.pts = frontier.received /\ decoder.buffer = {} /\ Ahead = {}
    BY <1>2, <1>3 DEF Quiet
  <2>2. \A t \in Shown : ~(frontier.received < t)
    BY <1>2, <2>1 DEF Quiet, Feed, Kept
  <2> QED
    BY <1>2, <2>1, <2>2, ShownFacts
<1>6. \/ /\ UNCHANGED <<position, reply>>
         /\ \E adjustment \in Adjustments :
              Select(slots.held, adjustment) /\ RightAnswer(window, slots.held, adjustment)
      \/ /\ Fail("timeOutOfRange") /\ window.target >= StreamEnd
         /\ position' = IF At("start") THEN position ELSE Abandoned(position)
  BY <1>2, <1>3, <1>4, <1>5, FinishIsRight
<1>7. position' = position
  BY <1>1, <1>2, <1>6 DEF At, Calm
<1>8. Quiet' /\ InOrder'
  BY <1>1, <1>2, <1>4, <1>7, QuietStays DEF InOrder, Next1
<1>9. Fail("timeOutOfRange") => ctl' = Idle /\ reply'.status = "timeOutOfRange"
  BY DEF Fail, EndRequest
<1> QED
  BY <1>1, <1>2, <1>4, <1>6, <1>8, <1>9, EndsExactly DEF Calm, Seekable

LEMMA GiveAnswerExact ==
  ASSUME TypeInv, TypeInv', Undisturbed, Exact, GiveAnswer
  PROVE  Exact'
<1>1. /\ ctl.pc = "answer" /\ Answer(ctl.frame, ctl.adjustment)
      /\ UNCHANGED <<source, decoder, position, frontier, slots, mode, reader, keys, ladder, window, landing>>
  BY DEF GiveAnswer, At
<1>2. Calm /\ InOrder /\ Quiet /\ RightAnswer(window, ctl.frame, ctl.adjustment)
  BY <1>1 DEF Exact
<1>3. window.adjustment = "none"
  BY <1>2 DEF Calm, Undisturbed, Probe
<1>4. ctl' = Idle /\ reply'.status = "ok" /\ reply'.frame = ctl.frame /\ reply'.adjustment = ctl.adjustment
  BY <1>1, <1>3 DEF Answer, EndRequest
<1>5. Quiet' /\ InOrder'
  BY <1>1, <1>2, QuietStays DEF InOrder, Next1
<1> QED
  BY <1>1, <1>2, <1>4, <1>5, EndsExactly DEF Calm, Seekable

\* A later window, or none, asks for less.
LEMMA FeedLoosens == Shapes /\ Feed(NoPts) => \A skip : Feed(skip)
<1> SUFFICES ASSUME Shapes, Feed(NoPts), NEW skip PROVE Feed(skip)
  OBVIOUS
<1>1. \A b \in decoder.buffer : b \in Int /\ NoPts < b /\ NoPts \in Int
  <2>1. decoder.buffer \subseteq Times
    BY DEF Shapes, Decoders, DecoderRecords
  <2>2. \A t \in Times : t \in Int /\ NoPts < t
    BY StreamFacts DEF Times, Shapes
  <2> QED
    BY <2>1, <2>2, IndexAssumption
<1>2. \A t : Kept(t, NoPts) => Kept(t, skip)
  <2>1. \A b \in decoder.buffer : ~(b <= NoPts)
    BY <1>1
  <2> QED
    BY <2>1 DEF Kept
<1>3. \A k : KeptFrom(k, NoPts) => KeptFrom(k, skip)
  BY <1>2 DEF KeptFrom
<1> QED
  BY <1>2, <1>3 DEF Feed

LEMMA SkipLoosens == Shapes /\ Feed(NoPts) => Feed(mode.skipBefore)
BY FeedLoosens

LEMMA FeedNoneStays ==
  ASSUME UNCHANGED <<source, decoder, position, frontier, reader, window>>
  PROVE  Feed(NoPts)' <=> Feed(NoPts)
<1>1. Unfed' = Unfed /\ Ahead' = Ahead
  BY AheadStays
<1> QED
  BY <1>1, SameStream DEF Feed, NotSynced, KeptFrom, Kept, StartsRight, IsKey, Pts

LEMMA CheaperStays ==
  ASSUME UNCHANGED <<source, frontier, keys, window>>, ctl'.forwardWins = ctl.forwardWins
  PROVE  IsForwardCheaper(window.target)' <=> IsForwardCheaper(window.target)
BY SameStream DEF IsForwardCheaper, IndexKeyBefore, PacketAt, Pts, IsKey, ForwardScanLimit

\* The window that frames may be skipped before lies before the one asked for.
LEMMA BeginsWithSkip ==
  ASSUME TypeInv, Undisturbed, Exact, ctl.pc = "start", BeginRequest
  PROVE  /\ mode'.keyframeOnly = FALSE /\ mode'.tailEnd = mode.tailEnd
         /\ mode'.skipBefore = NoPts \/ mode'.skipBefore < window.start
<1>1. /\ Shapes /\ ~window.keyMode /\ window.start \in Int /\ mode \in Modes /\ DelayOK(keys) /\ keys \in Indices
      /\ window.keyMode \in BOOLEAN
  BY AtStart DEF Shapes, Calm, Indexed, Windows
<1>2. mode' = [mode EXCEPT !.keyframeOnly = window.keyMode,
                           !.skipBefore = IF window.keyMode \/ ~KeyFlagsReliable THEN NoPts
                                          ELSE window.start - SkipMargin]
  BY DEF BeginRequest
<1>3. SkipMargin \in Nat \ {0}
  <2>1. keys.reorder \in Int
    BY <1>1, IndexShape
  <2>2. ReorderTicks(keys) \in Nat
    BY <1>1, <2>1 DEF ReorderTicks, DelayOK
  <2>3. FrameTicks(2) \in Nat \ {0}
    BY TicksTypes DEF FrameTicks
  <2> QED
    BY <2>2, <2>3 DEF SkipMargin
<1>4. window.start - SkipMargin < window.start
  BY <1>1, <1>3
<1> QED
  BY <1>1, <1>2, <1>4 DEF Modes

\* Decoding goes on from where the last request left it.
LEMMA GoesOn ==
  ASSUME TypeInv, TypeInv', Undisturbed, Exact, ctl.pc = "start", BeginRequest, Go("select"),
         UNCHANGED <<source, decoder, position, frontier, reader, keys, window>>,
         ~frontier.eof, slots'.held.pts = frontier.received, slots'.held.pts <= window.target,
         ~IsValid(slots'.pending), slots'.corruptLast = slots.corruptLast
  PROVE  Exact'
<1>1. /\ Shapes /\ Calm /\ InOrder /\ Quiet /\ window \in Requests /\ frontier.received \in Shown /\ ctl \in Controls
      /\ window.start <= window.target /\ Shapes'
  BY AtStart DEF TypeInv, Shapes
<1>2. /\ mode'.keyframeOnly = FALSE /\ mode'.tailEnd = mode.tailEnd
      /\ mode'.skipBefore = NoPts \/ mode'.skipBefore < window.start
  BY BeginsWithSkip
<1>3. /\ ctl'.pc = "select" /\ ctl'.purpose = ctl.purpose /\ ctl'.cut = ctl.cut /\ ctl'.retrying = ctl.retrying
  BY <1>1 DEF Go, Controls
<1>4. Calm'
  BY <1>1, <1>2, <1>3, SameStream DEF Calm, Seekable, IsValid
<1>5. InOrder' /\ SkipOK'
  BY <1>1, <1>2 DEF InOrder, Next1, SkipOK
<1>6. Feed(NoPts)'
  BY <1>1, FeedNoneStays DEF Quiet
<1>7. Feed(mode.skipBefore)'
  <2>1. (Shapes /\ Feed(NoPts) => Feed(mode.skipBefore))'
    BY SkipLoosens, PTL
  <2> QED
    BY <1>1, <1>6, <2>1
<1>8. frontier.received # NoPts
  BY <1>1 DEF Quiet
<1>9. EndIsReceived' /\ Shown' = Shown
  BY <1>1, SameStream DEF Quiet, EndIsReceived
<1>10. Selecting'
  BY <1>1, <1>7, <1>8, <1>9 DEF Selecting
<1> QED
  BY <1>3, <1>4, <1>5, <1>10 DEF Exact, Scanning

LEMMA PromoteExact ==
  ASSUME TypeInv, TypeInv', Undisturbed, Exact, Promote
  PROVE  Exact'
<1>1. /\ ctl.pc = "start" /\ CanPromotePending /\ BeginRequest /\ slots' = Promoted /\ Go("select")
      /\ UNCHANGED <<source, decoder, position, frontier, reader, keys, window, landing, reply>>
  BY DEF Promote, Starting, At
<1>2. Shapes /\ Quiet /\ slots \in Slots
  BY <1>1, AtStart DEF Shapes
<1>3. slots'.held = slots.pending /\ ~IsValid(slots'.pending) /\ slots'.corruptLast = slots.corruptLast
  BY <1>1, <1>2 DEF Promoted, Slots, NoFrame, IsValid
<1>4. IsValid(slots.pending) /\ slots.pending.pts <= window.target
  BY <1>1 DEF CanPromotePending
<1>5. slots.pending.pts = frontier.received /\ ~frontier.eof
  BY <1>2, <1>4 DEF Quiet
<1> QED
  BY <1>1, <1>3, <1>4, <1>5, GoesOn

LEMMA ContinueExact ==
  ASSUME TypeInv, TypeInv', Undisturbed, Exact, Continue
  PROVE  Exact'
<1>1. /\ ctl.pc = "start" /\ CanContinueFromHeld /\ BeginRequest /\ Go("select")
      /\ UNCHANGED <<source, decoder, position, frontier, slots, reader, keys, window, landing, reply>>
  BY DEF Continue, Starting, At
<1>2. Quiet
  BY <1>1, AtStart
<1>3. slots.held.pts <= window.target /\ ~frontier.eof /\ ~IsValid(slots.pending)
  BY <1>1 DEF CanContinueFromHeld
<1>4. slots.held.pts = frontier.received
  BY <1>2, <1>3 DEF Quiet
<1> QED
  BY <1>1, <1>3, <1>4, GoesOn

LEMMA RepositionExact ==
  ASSUME TypeInv, TypeInv', Undisturbed, Exact, Reposition
  PROVE  Exact'
<1>1. /\ ctl.pc = "start" /\ BeginRequest /\ Go("position")
      /\ UNCHANGED <<source, decoder, position, frontier, slots, reader, keys, ladder, window, landing, reply>>
  BY DEF Reposition, Starting, At
<1>2. /\ Shapes /\ Calm /\ InOrder /\ Quiet /\ window \in Requests /\ ~window.keyMode /\ ctl \in Controls
      /\ window.start <= window.target
  BY <1>1, AtStart DEF Shapes
<1>3. ~CanPromotePending /\ ~CanContinueFromHeld
  BY <1>2 DEF Reposition
<1>4. /\ mode'.keyframeOnly = FALSE /\ mode'.tailEnd = mode.tailEnd
      /\ mode'.skipBefore = NoPts \/ mode'.skipBefore < window.start
  BY <1>1, BeginsWithSkip
<1>5. /\ ctl'.pc = "position" /\ ctl'.purpose = ctl.purpose /\ ctl'.cut = ctl.cut /\ ctl'.retrying = ctl.retrying
      /\ ctl'.forwardWins = ctl.forwardWins
  BY <1>1, <1>2 DEF Go, Controls
<1>6. Calm'
  BY <1>1, <1>2, <1>4, <1>5, SameStream DEF Calm, Seekable
<1>7. InOrder' /\ SkipOK' /\ Quiet'
  BY <1>1, <1>2, <1>4, QuietStays DEF InOrder, Next1, SkipOK
<1>8. ~(CanDecodeForwardTo(window.target) /\ IsForwardCheaper(window.target))
  <2> SUFFICES ASSUME CanDecodeForwardTo(window.target), IsForwardCheaper(window.target) PROVE FALSE
    OBVIOUS
  <2>1. /\ ~frontier.drained /\ ~frontier.eof /\ frontier.received <= window.target
        /\ ~HasHole(frontier.received, window.target)
    <3>1. window.target >= frontier.received
      BY DEF CanDecodeForwardTo
    <3> QED
      BY <3>1 DEF CanDecodeForwardTo
  <2>2. CASE IsValid(slots.pending)
    BY <1>2, <1>3, <2>1, <2>2 DEF Quiet, CanPromotePending
  <2>3. CASE ~IsValid(slots.pending)
    BY <1>2, <1>3, <2>1, <2>3 DEF Quiet, CanContinueFromHeld
  <2> QED
    BY <2>2, <2>3
<1>9. CanDecodeForwardTo(window.target)' <=> CanDecodeForwardTo(window.target)
  BY <1>1 DEF CanDecodeForwardTo, HasHole
<1>10. IsForwardCheaper(window.target)' <=> IsForwardCheaper(window.target)
  BY <1>1, <1>5, CheaperStays
<1>11. ~IsUndecodedLandingBefore(window.target)'
  BY <1>1, <1>2 DEF IsUndecodedLandingBefore, UndecodedLanding, Quiet
<1>12. ~CanStay'
  BY <1>8, <1>9, <1>10, <1>11 DEF CanStay
<1> QED
  BY <1>5, <1>6, <1>7, <1>12 DEF Exact, Scanning

LEMMA StartsStayExact ==
  ASSUME TypeInv, TypeInv', Undisturbed, Exact, Starts
  PROVE  Exact'
<1>1. ~Recover
  BY DEF Recover, At, Exact, Calm
<1> QED
  BY <1>1, AcceptExact, AnswerFromHeldExact, AnswerAtTailExact, PromoteExact, ContinueExact, RepositionExact DEF Starts

LEMMA EndsStayExact ==
  ASSUME TypeInv, TypeInv', Undisturbed, Exact, Ends
  PROVE  Exact'
<1>1. ~window.keyMode /\ ctl.pc # "verify"
  BY DEF Exact, Calm, Undisturbed, Probe
<1>2. ~VerifyTail /\ ~VerifyPacket /\ ~VerifyEnd
  BY <1>1 DEF VerifyTail, VerifyPacket, VerifyEnd, TailInDoubt, At
<1> QED
  BY <1>2, GiveAnswerExact DEF Ends

-----------------------------------------------------------------------------
(* Feeding the decoder.                                                     *)

LEMMA FedFields ==
  ASSUME Shapes, NEW i \in Packets
  PROVE  /\ Fed(i).received = frontier.received /\ Fed(i).eof = frontier.eof
         /\ Fed(i).draining = frontier.draining /\ Fed(i).drained = frontier.drained
         /\ Fed(i).count = frontier.count /\ Fed(i).lastEnd = frontier.lastEnd
         /\ Fed(i).fedPts = Max({frontier.fedPts, Pts(i)})
<1>1. frontier \in FrontierRecords
  BY FrontierParts
<1>2. /\ Prepared(i).received = frontier.received /\ Prepared(i).eof = frontier.eof
      /\ Prepared(i).draining = frontier.draining /\ Prepared(i).drained = frontier.drained
      /\ Prepared(i).count = frontier.count /\ Prepared(i).lastEnd = frontier.lastEnd
      /\ Prepared(i).fedPts = frontier.fedPts /\ Prepared(i) \in FrontierRecords
  <2>1. Prepared(i) \in FrontierRecords
    BY PreparedTypes DEF Frontiers
  <2>2. PICK h : Prepared(i) = [frontier EXCEPT !.holes = h]
    BY DEF Prepared
  <2> QED
    BY <1>1, <2>1, <2>2 DEF FrontierRecords
<1>3. PICK d, p : Fed(i) = [Prepared(i) EXCEPT !.fedDts = d, !.fedPts = p] /\ p = Max({Prepared(i).fedPts, Pts(i)})
  BY DEF Fed
<1> QED
  BY <1>2, <1>3 DEF FrontierRecords

\* The records a packet fed leaves alone.
LEMMA FeedSelects ==
  ASSUME TypeInv, TypeInv', Undisturbed, Exact, ctl.pc = "select", InOrder', source'.setting = source.setting,
         Seekable', ~source'.sticky, ~source'.interrupted, DelayOK(keys'),
         UNCHANGED <<slots, mode, ctl, reply, window>>,
         position'.positioned = position.positioned,
         frontier'.received = frontier.received, frontier'.eof = frontier.eof,
         frontier'.drained = frontier.drained, frontier'.count = frontier.count,
         frontier'.lastEnd = frontier.lastEnd, Feed(mode.skipBefore)'
  PROVE  Exact'
<1>1. Calm /\ SkipOK /\ Selecting
  BY DEF Exact
<1>2. Calm' /\ SkipOK'
  BY <1>1, SameStream DEF Calm, SkipOK
<1>3. Selecting'
  BY <1>1, SameStream DEF Selecting, EndIsReceived
<1> QED
  BY <1>2, <1>3 DEF Exact, Scanning

\* One packet fed: what was still to come out still is.
LEMMA FeedOneExact ==
  ASSUME TypeInv, TypeInv', Undisturbed, Exact, ctl.pc = "select", ~frontier.draining,
         NEW i \in Packets, i = Unfed, Send(i), position.awaitingKey /\ KeyFlagsReliable => IsKey(i),
         Unfed' = i + 1, InOrder', reader'.packet = 0, source'.setting = source.setting,
         Seekable', ~source'.sticky, ~source'.interrupted, DelayOK(keys'), UNCHANGED <<slots, window>>
  PROVE  Exact'
<1> DEFINE skip == mode.skipBefore
           pts == Pts(i)
           old == decoder.buffer
           new == decoder'.buffer
           received == frontier.received
<1>1. /\ Shapes /\ InOrder /\ Calm /\ Feed(skip) /\ Shapes' /\ Undisturbed
  BY DEF TypeInv, Exact, Selecting
<1>2. /\ frontier' = Fed(i) /\ position' = NoteKeyframeFed(i) /\ UNCHANGED <<mode, ctl, reply>>
  BY DEF Send
<1>3. PICK dropped \in BOOLEAN : /\ decoder' = Decode(i, ~dropped /\ pts >= FirstFrameTs)
                                 /\ dropped => CanSkip(i)
  BY DEF Send
<1>4. /\ frontier'.received = received /\ frontier'.eof = frontier.eof /\ frontier'.draining = frontier.draining
      /\ frontier'.drained = frontier.drained /\ frontier'.count = frontier.count
      /\ frontier'.lastEnd = frontier.lastEnd /\ frontier'.fedPts = Max({frontier.fedPts, pts})
  BY <1>1, <1>2, FedFields
<1>5. /\ position'.positioned = position.positioned /\ position'.atStart = position.atStart
      /\ position'.awaitingKey <=> position.awaitingKey /\ ~IsKey(i)
  BY <1>1, <1>2 DEF NoteKeyframeFed, Shapes, Positions
<1>6. /\ pts \in Ahead /\ Ahead \subseteq Times /\ Ahead' = Ahead \ {pts} /\ pts \in Times /\ pts \in Int
      /\ i \in Nat /\ Times \subseteq Int /\ FirstFrameTs \in Int /\ old \subseteq Shown /\ received \in Int
      /\ frontier.fedPts \in Int /\ \A t \in Times : t \in Shown <=> FirstFrameTs <= t
  <2>1. pts \in Ahead /\ Ahead \subseteq Times
    BY <1>1, Feedstock
  <2>2. /\ pts \in Times /\ pts \in Int /\ Times \subseteq Int /\ FirstFrameTs \in Int /\ i \in Nat
        /\ Packets \subseteq Nat /\ \A j, k \in Packets : Pts(j) = Pts(k) => j = k
    BY <1>1, StreamFacts DEF Shapes
  <2>3. Ahead' = {Pts(j) : j \in {n \in Packets : n >= i + 1}}
    BY SameStream DEF Ahead, Pts
  <2>4. \A j \in Packets : j >= i + 1 <=> j >= i /\ j # i
    BY <2>2
  <2>5. Ahead' = Ahead \ {pts}
    BY <2>2, <2>3, <2>4 DEF Ahead
  <2>6. old \subseteq Shown
    BY <1>1 DEF Feed
  <2>7. received \in Int /\ frontier.fedPts \in Int
    BY <1>1, <2>2, FrontierParts, IndexAssumption
  <2>8. \A t \in Times : t \in Shown <=> FirstFrameTs <= t
    BY DEF Shown
  <2> QED
    BY <2>1, <2>2, <2>5, <2>6, <2>7, <2>8
<1>7. /\ Packets' = Packets /\ FirstFrameTs' = FirstFrameTs /\ Shown' = Shown /\ mode'.skipBefore = skip
      /\ (KeyFlagsReliable' <=> KeyFlagsReliable) /\ \A j \in Packets : (IsKey(j)' <=> IsKey(j)) /\ Pts(j)' = Pts(j)
  BY <1>2, SameStream, SameReads
<1> HIDE DEF skip, pts, old, new, received
<1>8. CASE ~IsKey(i) /\ ~decoder.synced
  <2>1. decoder' = decoder
    BY <1>3, <1>8 DEF Decode
  <2>2. NotSynced /\ ~position.atStart /\ ~KeyFlagsReliable
    <3>1. NotSynced
      BY <1>1, <1>8 DEF Feed
    <3>2. i # 1
      BY <1>1, <1>8 DEF Undisturbed
    <3> QED
      BY <1>8, <3>1, <3>2 DEF NotSynced, StartsRight
  <2>3. NotSynced'
    BY <1>4, <1>5, <1>7, <2>1, <2>2 DEF NotSynced, received
  <2>4. \A t \in decoder'.buffer \cup Ahead' : frontier'.received < t
    BY <1>1, <1>4, <1>6, <2>1 DEF Feed, received
  <2>5. decoder'.buffer = {} /\ ~decoder'.synced /\ frontier'.received = NoPts /\ ~frontier'.draining
    BY <1>4, <1>8, <2>1, <2>2 DEF NotSynced, received
  <2>6. Feed(mode.skipBefore)'
    BY <1>7, <2>2, <2>3, <2>4, <2>5 DEF Feed
  <2> QED
    BY <1>2, <1>4, <1>5, <2>6, FeedSelects DEF received
<1>9. CASE IsKey(i) \/ decoder.synced
  <2> DEFINE Still(t) == t \in new \/ t \in Ahead' \/ \E b \in new : t < b /\ b <= skip
  <2>1. /\ new = old \cup (IF ~dropped /\ pts >= FirstFrameTs THEN {pts} ELSE {})
        /\ decoder'.synced
    BY <1>3, <1>9 DEF Decode, old, new, pts
  <2>2. \A b \in old : b \in new
    BY <2>1
  <2>3. ASSUME NEW t \in Times, FirstFrameTs <= t, Kept(t, skip)
        PROVE  Still(t)
    <3>1. CASE t \in old \/ (t \in Ahead /\ t # pts) \/ \E b \in old : t < b /\ b <= skip
      BY <1>6, <2>2, <3>1
    <3>2. CASE t = pts /\ ~dropped
      <4>1. pts >= FirstFrameTs
        BY <1>6, <2>3, <3>2
      <4> QED
        BY <2>1, <3>2, <4>1
    <3>3. CASE t = pts /\ dropped
      <4>1. /\ KeyFlagsReliable /\ pts < frontier.fedPts /\ frontier.fedPts <= skip
        BY <1>3, <3>3 DEF CanSkip, skip, pts
      <4>2. \/ frontier.fedPts <= received \/ frontier.fedPts < FirstFrameTs
            \/ Kept(frontier.fedPts, skip) /\ frontier.fedPts \notin Ahead
        BY <1>1, <4>1 DEF Feed, received
      <4>3. received < pts
        BY <1>1, <1>6 DEF Feed, received
      <4>4. Kept(frontier.fedPts, skip) /\ frontier.fedPts \notin Ahead
        BY <1>6, <2>3, <3>3, <4>1, <4>2, <4>3
      <4>5. PICK b \in old : b = frontier.fedPts \/ (frontier.fedPts < b /\ b <= skip)
        BY <4>4 DEF Kept, old
      <4>6. b \in Int
        BY <1>6, <4>5 DEF Shown
      <4>7. t < b /\ b <= skip
        BY <1>6, <3>3, <4>1, <4>5, <4>6
      <4> QED
        BY <2>2, <4>7
    <3>4. t \in old \/ t \in Ahead \/ \E b \in old : t < b /\ b <= skip
      BY <2>3 DEF Kept, old
    <3> QED
      BY <1>3, <3>1, <3>2, <3>3, <3>4
  <2> HIDE DEF Still
  <2>4. new \subseteq Shown /\ new \cap Ahead' = {} /\ \A t \in new \cup Ahead' : received < t
    <3>1. old \cap Ahead = {} /\ \A t \in old \cup Ahead : received < t
      BY <1>1 DEF Feed, old, received
    <3>2. pts \notin Ahead' /\ (pts >= FirstFrameTs => pts \in Shown)
      BY <1>6
    <3>3. new \subseteq old \cup {pts} /\ (pts \in new => pts \in old \/ pts >= FirstFrameTs)
      BY <2>1
    <3> QED
      BY <1>6, <3>1, <3>2, <3>3
  <2>5. ~position'.awaitingKey
    BY <1>1, <1>5, <1>9 DEF Feed
  <2>6. received = NoPts => \E k \in Packets : KeptFrom(k, skip)'
    <3> SUFFICES ASSUME received = NoPts PROVE \E k \in Packets : KeptFrom(k, skip)'
      OBVIOUS
    <3>1. \E k \in Packets :
            /\ IsKey(k) /\ k <= i /\ (position.atStart => k = 1 \/ Pts(k) <= window.target)
            /\ \A j \in Packets : k <= j /\ FirstFrameTs <= Pts(j) => Kept(Pts(j), skip)
            /\ \A b \in old : \E j \in Packets : k <= j /\ b = Pts(j)
      <4>1. CASE decoder.synced
        <5>1. PICK k \in Packets : KeptFrom(k, skip)
          BY <1>1, <4>1 DEF Feed, received
        <5>2. k <= i
          <6>1. k < i /\ k \in Nat
            BY <1>1, <5>1, StreamFacts DEF KeptFrom, Shapes
          <6> QED
            BY <1>6, <6>1
        <5> QED
          BY <5>1, <5>2 DEF KeptFrom, old
      <4>2. CASE ~decoder.synced
        <5>1. NotSynced /\ IsKey(i)
          BY <1>1, <1>9, <4>2 DEF Feed
        <5>2. old = {} /\ (position.atStart => i = 1 \/ Pts(i) <= window.target)
          BY <5>1 DEF NotSynced, StartsRight, old
        <5>3. \A j \in Packets : i <= j => Pts(j) \in Ahead
          BY <1>1, <1>6, Feedstock
        <5>4. \A j \in Packets : i <= j /\ FirstFrameTs <= Pts(j) => Kept(Pts(j), skip)
          BY <5>3 DEF Kept
        <5>5. i <= i
          BY <1>6
        <5> QED
          BY <5>1, <5>2, <5>4, <5>5
      <4> QED
        BY <4>1, <4>2
    <3>2. PICK k \in Packets :
            /\ IsKey(k) /\ k <= i /\ (position.atStart => k = 1 \/ Pts(k) <= window.target)
            /\ \A j \in Packets : k <= j /\ FirstFrameTs <= Pts(j) => Kept(Pts(j), skip)
            /\ \A b \in old : \E j \in Packets : k <= j /\ b = Pts(j)
      BY <3>1
    <3>3. \A j \in Packets : k <= j /\ FirstFrameTs <= Pts(j) => Still(Pts(j))
      BY <1>1, <2>3, <3>2 DEF Times
    <3>4. \A b \in new : \E j \in Packets : k <= j /\ b = Pts(j)
      <4> TAKE b \in new
      <4>1. b \in old \/ b = Pts(i)
        BY <2>1 DEF pts
      <4> QED
        BY <3>2, <4>1
    <3>5. k < i + 1
      BY <1>1, <1>6, <3>2, StreamFacts DEF Shapes
    <3>6. /\ IsKey(k)' /\ (k < Unfed)' /\ (position.atStart => k = 1 \/ Pts(k) <= window.target)'
          /\ \A j \in Packets : k <= j /\ FirstFrameTs <= Pts(j)' => Still(Pts(j)')
          /\ \A b \in new : \E j \in Packets : k <= j /\ b = Pts(j)'
      BY <1>5, <1>7, <3>2, <3>3, <3>4, <3>5
    <3>7. KeptFrom(k, skip)'
      BY <1>2, <1>7, <3>6 DEF KeptFrom, Kept, Still, new, skip
    <3> QED
      BY <3>7
  <2>7. received # NoPts => \A t \in Shown : received < t => Still(t)
    BY <1>1, <1>6, <2>3 DEF Feed, received, Shown
  <2>8. KeyFlagsReliable => \/ frontier'.fedPts <= received \/ frontier'.fedPts < FirstFrameTs
                            \/ Still(frontier'.fedPts) /\ frontier'.fedPts \notin Ahead'
    <3> SUFFICES ASSUME KeyFlagsReliable
                 PROVE  \/ frontier'.fedPts <= received \/ frontier'.fedPts < FirstFrameTs
                        \/ Still(frontier'.fedPts) /\ frontier'.fedPts \notin Ahead'
      OBVIOUS
    <3>1. frontier'.fedPts = IF frontier.fedPts >= pts THEN frontier.fedPts ELSE pts
      BY <1>4, <1>6, MaxOfTwo
    <3>2. CASE frontier.fedPts > pts
      <4>1. frontier'.fedPts = frontier.fedPts
        BY <1>6, <3>1, <3>2
      <4>2. \/ frontier.fedPts <= received \/ frontier.fedPts < FirstFrameTs
            \/ Kept(frontier.fedPts, skip) /\ frontier.fedPts \notin Ahead
        BY <1>1 DEF Feed, received
      <4>3. frontier.fedPts \in Times
        <5>1. NoPts < pts /\ NoPts \in Int
          BY <1>1, StreamFacts, IndexAssumption DEF pts, Shapes
        <5>2. frontier.fedPts # NoPts
          BY <1>6, <3>2, <5>1
        <5> QED
          BY <1>1, <5>2, FrontierParts
      <4>4. frontier.fedPts < FirstFrameTs \/ FirstFrameTs <= frontier.fedPts
        BY <1>6
      <4> QED
        BY <1>6, <2>3, <4>1, <4>2, <4>3, <4>4
    <3>3. CASE ~(frontier.fedPts > pts)
      <4>1. frontier'.fedPts = pts
        BY <1>6, <3>1, <3>3
      <4>2. ~dropped
        BY <1>3, <1>6, <3>3 DEF CanSkip, pts
      <4>3. pts \notin Ahead'
        BY <1>6
      <4>4. pts < FirstFrameTs \/ pts \in new
        BY <1>6, <2>1, <4>2
      <4> QED
        BY <4>1, <4>3, <4>4 DEF Still
    <3> QED
      BY <3>2, <3>3
  <2>9. Feed(mode.skipBefore)'
    <3>1. \A t : Kept(t, mode.skipBefore)' <=> Still(t)
      BY <1>7 DEF Kept, Still, new
    <3>2. (received = NoPts => \E k \in Packets : KeptFrom(k, mode.skipBefore))'
      BY <1>2, <1>4, <1>7, <2>6 DEF received, skip
    <3> QED
      BY <1>4, <1>7, <2>1, <2>4, <2>5, <2>7, <2>8, <3>1, <3>2 DEF Feed, new, received
  <2> QED
    BY <1>2, <1>4, <1>5, <2>9, FeedSelects DEF received
<1> QED
  BY <1>8, <1>9

LEMMA FeedHeldPacketExact ==
  ASSUME TypeInv, TypeInv', Undisturbed, Exact, FeedHeldPacket
  PROVE  Exact'
<1> DEFINE i == reader.packet
<1>1. /\ ctl.pc = "select" /\ ~frontier.draining /\ i # 0 /\ reader' = [reader EXCEPT !.packet = 0]
      /\ UNCHANGED <<source, slots, keys, ladder, window, landing>>
  BY DEF FeedHeldPacket, NeedsInput, At
<1>2. /\ Shapes /\ Calm /\ InOrder /\ Feed(mode.skipBefore)
  BY <1>1 DEF TypeInv, Exact, Selecting
<1>3. Send(i)
  BY DEF FeedHeldPacket, Reject, FailDecode, Undisturbed
<1>4. i \in Packets /\ Unfed = i
  BY <1>1, <1>2, Feedstock
<1>5. reader'.packet = 0 /\ reader'.replay = reader.replay
  BY <1>1, <1>2, ReaderParts DEF ReaderRecords
<1>6. InOrder' /\ Unfed' = i + 1
  BY <1>1, <1>2, <1>5 DEF InOrder, Unfed, Next1
<1>7. KeyFlagsReliable => IsKey(i)
  BY <1>1, <1>2 DEF Feed
<1> QED
  BY <1>1, <1>2, <1>3, <1>4, <1>5, <1>6, <1>7, FeedOneExact DEF Calm, Seekable

\* Reading leaves what is said of the source.
LEMMA ReadsCalmly ==
  ASSUME Shapes, Calm, HasPacket, reader.packet = 0, Read(FALSE)
  PROVE  source'.setting = source.setting /\ Seekable' /\ ~source'.sticky /\ ~source'.interrupted /\ DelayOK(keys')
<1>1. CASE reader.replay # <<>>
  BY <1>1 DEF Read, Calm, Seekable
<1>2. CASE reader.replay = <<>>
  <2>1. source.next \in Packets /\ ReadFromDemuxer(FALSE, NotePacket(source.next))
    BY <1>2, NextPacket DEF Read
  <2>2. Indexed(NotePacket(source.next)) /\ DelayOK(NotePacket(source.next))
    BY <2>1, PacketsKeepDelayOK, NotePacketFacts DEF Shapes, Calm
  <2>3. /\ source'.setting = source.setting /\ source'.seekable = source.seekable
        /\ source'.sticky = source.sticky /\ keys' = NotePacket(source.next)
    BY <2>1, <2>2, ReadFromDemuxerTypes
  <2>4. source'.interrupted = source.interrupted
    BY <2>1, SourceParts DEF ReadFromDemuxer, SourceRecords
  <2> QED
    BY <2>2, <2>3, <2>4 DEF Calm, Seekable
<1> QED
  BY <1>1, <1>2

LEMMA FeedNextPacketExact ==
  ASSUME TypeInv, TypeInv', Undisturbed, Exact, FeedNextPacket
  PROVE  Exact'
<1>1. /\ ctl.pc = "select" /\ ~frontier.draining /\ reader.packet = 0 /\ HasPacket /\ ~MidGop(Next1)
      /\ Read(FALSE) /\ UNCHANGED <<slots, ladder, window, landing>>
  BY DEF FeedNextPacket, NeedsInput, At
<1>2. /\ Shapes /\ Calm /\ InOrder
  BY <1>1 DEF TypeInv, Exact
<1>3. Send(Next1)
  BY DEF FeedNextPacket, Reject, FailDecode, Undisturbed
<1>4. Next1 \in Packets /\ Unfed = Next1
  BY <1>1, <1>2, Feedstock
<1>5. InOrder' /\ Unfed' = Next1 + 1 /\ reader'.packet = 0
  BY <1>1, <1>2, <1>4, ReadAdvances
<1>6. source'.setting = source.setting /\ Seekable' /\ ~source'.sticky /\ ~source'.interrupted /\ DelayOK(keys')
  BY <1>1, <1>2, ReadsCalmly
<1>7. position.awaitingKey /\ KeyFlagsReliable => IsKey(Next1)
  BY <1>1 DEF MidGop
<1> QED
  BY <1>1, <1>2, <1>3, <1>4, <1>5, <1>6, <1>7, FeedOneExact

LEMMA SkipToKeyframeExact ==
  ASSUME TypeInv, TypeInv', Undisturbed, Exact, SkipToKeyframe
  PROVE  Exact'
<1>1. /\ ctl.pc = "select" /\ ~frontier.draining /\ reader.packet = 0 /\ HasPacket /\ MidGop(Next1)
      /\ Read(FALSE) /\ UNCHANGED <<decoder, position, frontier, slots, mode, ladder, window, ctl, landing, reply>>
  BY DEF SkipToKeyframe, NeedsInput, At
<1>2. /\ Shapes /\ Calm /\ InOrder /\ Feed(mode.skipBefore)
  BY <1>1 DEF TypeInv, Exact, Selecting
<1>3. Next1 \in Packets /\ Unfed = Next1
  BY <1>1, <1>2, Feedstock
<1>4. InOrder' /\ Unfed' = Next1 + 1 /\ reader'.packet = 0
  BY <1>1, <1>2, <1>3, ReadAdvances
<1>5. source'.setting = source.setting /\ Seekable' /\ ~source'.sticky /\ ~source'.interrupted /\ DelayOK(keys')
  BY <1>1, <1>2, ReadsCalmly
<1>6. position.awaitingKey /\ KeyFlagsReliable /\ ~IsKey(Next1)
  BY <1>1 DEF MidGop
<1>7. NotSynced /\ ~decoder.synced
  BY <1>2, <1>6 DEF Feed
<1>8. ~position.atStart
  BY <1>3, <1>6, <1>7 DEF NotSynced, StartsRight
<1>9. Ahead' \subseteq Ahead
  <2>1. Ahead' = {Pts(j) : j \in {n \in Packets : n >= Next1 + 1}}
    BY <1>4, <1>5, SameStream DEF Ahead, Pts
  <2>2. \A j \in Packets : j >= Next1 + 1 => j >= Next1
    BY <1>2, <1>3, StreamFacts DEF Shapes
  <2> QED
    BY <1>3, <2>1, <2>2 DEF Ahead
<1>10. NotSynced'
  BY <1>1, <1>5, <1>6, <1>7, <1>8, SameStream DEF NotSynced
<1>11. Feed(mode.skipBefore)'
  <2>1. decoder.buffer = {} /\ frontier.received = NoPts /\ frontier.fedPts = NoPts /\ NoPts <= NoPts
    BY <1>6, <1>7, IndexAssumption DEF NotSynced
  <2>2. \A t \in decoder'.buffer \cup Ahead' : frontier'.received < t
    BY <1>1, <1>2, <1>9 DEF Feed
  <2> QED
    BY <1>1, <1>4, <1>7, <1>10, <2>1, <2>2 DEF Feed
<1> QED
  BY <1>1, <1>4, <1>5, <1>11, FeedSelects

LEMMA StartDrainExact ==
  ASSUME TypeInv, TypeInv', Undisturbed, Exact, StartDrain
  PROVE  Exact'
<1>1. /\ ctl.pc = "select" /\ reader.packet = 0 /\ AtEnd
      /\ frontier' = [frontier EXCEPT !.draining = TRUE]
      /\ UNCHANGED <<source, decoder, position, slots, mode, reader, keys, ladder, window, ctl, landing, reply>>
  BY DEF StartDrain, NeedsInput, At
<1>2. /\ Shapes /\ Calm /\ InOrder /\ Feed(mode.skipBefore) /\ frontier \in FrontierRecords
  BY <1>1, FrontierParts DEF TypeInv, Exact, Selecting
<1>3. Ahead = {}
  <2>1. ~HasPacket /\ ~source.sticky
    BY <1>1, <1>2 DEF AtEnd, Undisturbed, Calm
  <2> QED
    BY <1>1, <1>2, <2>1, Feedstock
<1>4. Ahead' = Ahead /\ Unfed' = Unfed
  BY <1>1, AheadStays
<1>5. /\ frontier'.received = frontier.received /\ frontier'.eof = frontier.eof
      /\ frontier'.drained = frontier.drained /\ frontier'.count = frontier.count
      /\ frontier'.lastEnd = frontier.lastEnd /\ frontier'.fedPts = frontier.fedPts
  BY <1>1, <1>2 DEF FrontierRecords
<1>6. Feed(mode.skipBefore)'
  BY <1>1, <1>2, <1>3, <1>4, <1>5, SameStream DEF Feed, NotSynced, KeptFrom, Kept, StartsRight, IsKey, Pts
<1>7. InOrder'
  BY <1>1, <1>2 DEF InOrder, Next1
<1> QED
  BY <1>1, <1>2, <1>5, <1>6, <1>7, FeedSelects DEF Calm, Seekable

-----------------------------------------------------------------------------
(* A frame out of the decoder.                                              *)

\* The next frame to come out is the earliest there is: what would come before
\* it and is not in the decoder yet cannot have been overtaken by so many.
LEMMA NextToCome ==
  ASSUME TypeInv, Undisturbed, Exact, Emits
  PROVE  /\ Shapes /\ Calm /\ InOrder /\ SkipOK /\ Selecting /\ Feed(mode.skipBefore)
         /\ Emitted \in decoder.buffer /\ Emitted \in Shown /\ Emitted \in Int
         /\ \A t \in decoder.buffer : t \in Shown /\ t \in Int /\ Emitted <= t
         /\ \A t \in Ahead : t \in Int /\ Emitted < t
         /\ frontier.received \in Int /\ frontier.received < Emitted /\ NoPts < Emitted /\ NoPts \in Int
         /\ decoder.synced
<1>1. /\ Shapes /\ Calm /\ InOrder /\ SkipOK /\ Selecting /\ Feed(mode.skipBefore)
      /\ decoder.buffer # {} /\ (frontier.draining \/ Cardinality(decoder.buffer) > Depth)
  BY DEF TypeInv, Exact, Selecting, Emits, At
<1>2. /\ decoder.buffer \subseteq Shown /\ decoder.buffer \cap Ahead = {}
      /\ \A t \in decoder.buffer \cup Ahead : frontier.received < t
      /\ decoder.synced \/ NotSynced
      /\ frontier.draining => Ahead = {}
  BY <1>1 DEF Feed
<1>3. /\ Shown \subseteq Times /\ \A t \in Times : t \in Int /\ NoPts < t
      /\ NoPts \in Int /\ Ahead \subseteq Times /\ frontier.received \in Times \cup {NoPts}
  BY <1>1, ShownFacts, Feedstock, FrontierParts
<1>4. Emitted \in decoder.buffer /\ \A t \in decoder.buffer : Emitted <= t
  BY <1>1, <1>2, <1>3, ExtremeTimes DEF Emitted, Shapes
<1>5. decoder.synced
  BY <1>1, <1>2 DEF NotSynced
<1>6. ASSUME NEW t \in Ahead PROVE Emitted < t
  <2> SUFFICES ASSUME t <= Emitted PROVE FALSE
    BY <1>2, <1>3, <1>4, <1>6
  <2>1. PICK i \in Packets : i >= Unfed /\ t = Pts(i)
    BY <1>6 DEF Ahead
  <2>2. t < Emitted
    BY <1>2, <1>3, <1>4, <1>6
  <2> DEFINE over == {Pts(j) : j \in {n \in Packets : n < i /\ Pts(n) > Pts(i)}}
  <2>3. decoder.buffer \subseteq over
    <3> SUFFICES ASSUME NEW b \in decoder.buffer PROVE b \in over
      OBVIOUS
    <3>1. PICK j \in Packets : b = Pts(j)
      BY <1>2, <1>3 DEF Times
    <3>2. ~(j >= Unfed)
      BY <1>2, <3>1 DEF Ahead
    <3>3. j < i
      BY <1>1, <2>1, <3>2, Feedstock
    <3>4. Pts(j) > Pts(i)
      BY <1>2, <1>3, <1>4, <1>6, <2>1, <2>2, <3>1
    <3> QED
      BY <3>1, <3>3, <3>4
  <2>4. over \subseteq Times
    BY DEF Times
  <2>5. Cardinality(over) <= Depth
    BY DEF Undisturbed
  <2>6. IsFiniteSet(over) /\ Cardinality(over) \in Nat /\ Cardinality(decoder.buffer) \in Nat
    BY <1>1, <1>2, <1>3, <2>4, TimesAreFinite DEF Shapes
  <2>7. Cardinality(decoder.buffer) <= Cardinality(over)
    <3> HIDE DEF over
    <3> QED
      BY <2>3, <2>6, FS_Subset
  <2>8. Depth \in Nat
    BY <1>1, StreamFacts DEF Shapes
  <2>9. Cardinality(decoder.buffer) > Depth
    BY <1>1, <1>2, <1>6
  <2> HIDE DEF over
  <2> QED
    BY <2>5, <2>6, <2>7, <2>8, <2>9
<1> QED
  BY <1>1, <1>2, <1>3, <1>4, <1>5, <1>6

\* A frame after the one that comes out comes out later.
LEMMA LaterFramesFollow ==
  ASSUME TypeInv, Undisturbed, Exact, Emits, NEW t \in Shown, Emitted < t
  PROVE  Kept(t, mode.skipBefore)
<1>1. /\ Shapes /\ Feed(mode.skipBefore) /\ Emitted \in decoder.buffer /\ Emitted \in Int
      /\ frontier.received \in Int /\ frontier.received < Emitted /\ decoder.synced
  BY NextToCome
<1>2. t \in Times /\ t \in Int /\ FirstFrameTs <= t
  BY <1>1, ShownFacts
<1>3. CASE frontier.received # NoPts
  <2>1. frontier.received < t
    BY <1>1, <1>2
  <2> QED
    BY <1>1, <1>3, <2>1 DEF Feed
<1>4. CASE frontier.received = NoPts
  <2>1. PICK k \in Packets : KeptFrom(k, mode.skipBefore)
    BY <1>1, <1>4 DEF Feed
  <2>2. PICK e \in Packets : k <= e /\ Emitted = Pts(e)
    BY <1>1, <2>1 DEF KeptFrom
  <2>3. PICK j \in Packets : t = Pts(j)
    BY <1>2 DEF Times
  <2>4. k <= j
    <3>1. k \in Nat /\ j \in Nat
      BY <1>1, StreamFacts DEF Shapes
    <3>2. ~(j < k)
      <4>1. j < k => Pts(j) < Pts(e)
        BY <2>1, <2>2 DEF KeptFrom, Undisturbed
      <4> QED
        BY <1>1, <1>2, <2>2, <2>3, <4>1
    <3> QED
      BY <3>1, <3>2
  <2> QED
    BY <1>2, <2>1, <2>3, <2>4 DEF KeptFrom
<1> QED
  BY <1>3, <1>4

\* What a frame that comes out leaves behind.
LEMMA ReceivesExact ==
  ASSUME TypeInv, TypeInv', Undisturbed, Exact, Emits, Receive(FALSE)
  PROVE  /\ Feed(mode.skipBefore)'
         /\ (mode.skipBefore = NoPts \/ mode.skipBefore < Emitted) => Feed(NoPts)'
         /\ frontier'.received = Emitted /\ EndIsReceived' /\ ~frontier'.eof /\ ~frontier'.drained
         /\ InOrder' /\ source' = source /\ window' = window /\ reply' = reply
         /\ mode'.keyframeOnly = mode.keyframeOnly /\ mode'.tailEnd = mode.tailEnd
         /\ mode'.skipBefore = mode.skipBefore /\ DelayOK(keys')
         /\ NewFrame \in Frames /\ NewFrame.pts = Emitted /\ IsValid(NewFrame)
<1> DEFINE skip == mode.skipBefore
           old == decoder.buffer
           new == decoder'.buffer
           e == Emitted
<1>1. /\ Shapes /\ Calm /\ InOrder /\ SkipOK /\ Selecting /\ Feed(skip)
      /\ e \in old /\ e \in Shown /\ e \in Int
      /\ \A t \in old : t \in Shown /\ t \in Int /\ e <= t
      /\ \A t \in Ahead : t \in Int /\ e < t
      /\ frontier.received \in Int /\ frontier.received < e /\ NoPts < e /\ NoPts \in Int
      /\ decoder.synced
  BY NextToCome
<1>2. /\ UNCHANGED <<source, position, reader, ladder, window, landing, reply>>
      /\ decoder' = Drop(e) /\ mode' = [mode EXCEPT !.errors = 0]
      /\ keys' = NoteKeyframeSpan(keys, frontier.lastKey, e)
      /\ frontier' = Received(IsKey(PacketAt(e)), FALSE)
  BY DEF Receive
<1>3. /\ frontier \in FrontierRecords /\ mode \in Modes /\ decoder \in DecoderRecords
      /\ frontier.lastKey \in Int /\ frontier.lastEnd \in Int
  BY <1>1, FrontierParts, StreamFacts, TicksTypes DEF Shapes, Decoders
<1>4. /\ frontier'.received = e /\ frontier'.eof = frontier.eof /\ frontier'.drained = frontier.drained
      /\ frontier'.draining = frontier.draining /\ frontier'.fedPts = frontier.fedPts
      /\ frontier'.lastEnd = Max({frontier.lastEnd, e + FrameDuration})
  BY <1>2, <1>3 DEF Received, FrontierRecords
<1>5. /\ mode'.keyframeOnly = mode.keyframeOnly /\ mode'.tailEnd = mode.tailEnd /\ mode'.skipBefore = skip
  BY <1>2, <1>3 DEF Modes
<1>6. new = old \ {e} /\ decoder'.synced
  BY <1>1, <1>2, <1>3 DEF Drop, DecoderRecords
<1>7. DelayOK(keys')
  BY <1>1, <1>2, <1>3, DelaysStayOK DEF Calm, Shapes
<1>8. Unfed' = Unfed /\ Ahead' = Ahead /\ InOrder'
  BY <1>1, <1>2, AheadStays DEF InOrder, Next1
<1>9. EndIsReceived'
  <2>1. FrameDuration \in Nat \ {0}
    BY TicksTypes
  <2>2. frontier.lastEnd < e + FrameDuration
    <3>1. frontier.lastEnd = NoPts \/ frontier.lastEnd = frontier.received + FrameDuration
      BY <1>1 DEF Selecting, EndIsReceived
    <3> QED
      BY <1>1, <2>1, <3>1
  <2>3. frontier'.lastEnd = e + FrameDuration
    <3>1. e + FrameDuration \in Int
      BY <1>1, <2>1
    <3> HIDE DEF e
    <3> QED
      BY <1>1, <1>3, <1>4, <2>1, <2>2, <3>1, MaxOfTwo
  <2> QED
    BY <1>4, <2>3 DEF EndIsReceived
<1>10. NewFrame \in Frames /\ NewFrame.pts = e /\ IsValid(NewFrame)
  <2>1. NewFrame.pts = e
    BY DEF NewFrame
  <2> QED
    BY <1>1, <2>1, ReceiveTypes
<1>11. /\ Shown' = Shown /\ FirstFrameTs' = FirstFrameTs /\ KeyFlagsReliable' = KeyFlagsReliable
       /\ \A j \in Packets : IsKey(j)' = IsKey(j)
  BY <1>2, SameStream, SameReads
<1>12. \A s : Kept(e, s) <=> TRUE
  BY <1>1 DEF Kept
<1> DEFINE Still(t, s) == t \in new \/ t \in Ahead \/ \E b \in new : t < b /\ b <= s
<1> HIDE DEF e, old, new, skip
<1>13. ASSUME NEW t \in Int, e < t, Kept(t, skip)
       PROVE  /\ Still(t, skip)
              /\ (skip = NoPts \/ skip < e) => Still(t, NoPts)
  <2>1. t \in old \/ t \in Ahead \/ \E b \in old : t < b /\ b <= skip
    BY <1>13 DEF Kept, old
  <2>2. t \in old => t \in new
    BY <1>1, <1>6, <1>13
  <2>3. ASSUME NEW b \in old, t < b, b <= skip
        PROVE  /\ b \in new
               /\ ~(skip = NoPts \/ skip < e)
    <3>1. b \in Int /\ e < b /\ e # b
      BY <1>1, <1>13, <2>3
    <3>2. skip \in Int
      BY <1>3 DEF skip, Modes
    <3> QED
      BY <1>1, <1>6, <2>3, <3>1, <3>2
  <2> QED
    BY <2>1, <2>2, <2>3
<1>14. \A t \in Shown : e < t => Kept(t, skip)
  BY LaterFramesFollow DEF e, skip
<1>15. \A t \in Shown : t \in Int
  BY <1>1, ShownFacts
<1> DEFINE Rest(s) ==
             /\ new \subseteq Shown /\ new \cap Ahead = {}
             /\ \A t \in new \cup Ahead : e < t
             /\ ~position.awaitingKey
             /\ \A t \in Shown : e < t => Still(t, s)
             /\ frontier.draining => Ahead = {}
             /\ KeyFlagsReliable =>
                  /\ reader.packet # 0 => IsKey(reader.packet)
                  /\ \/ frontier.fedPts <= e \/ frontier.fedPts < FirstFrameTs
                     \/ Still(frontier.fedPts, s) /\ frontier.fedPts \notin Ahead
<1>16. ASSUME NEW s, s = skip \/ (s = NoPts /\ (skip = NoPts \/ skip < e))
       PROVE  Rest(s)
  <2>1. \A t \in Int : e < t /\ Kept(t, skip) => Still(t, s)
    BY <1>13, <1>16
  <2> HIDE DEF Still
  <2>2. new \subseteq Shown /\ new \cap Ahead = {} /\ ~position.awaitingKey /\ (frontier.draining => Ahead = {})
    BY <1>1, <1>6 DEF Feed, old
  <2>3. \A t \in new \cup Ahead : e < t
    BY <1>1, <1>6
  <2>4. \A t \in Shown : e < t => Still(t, s)
    BY <1>14, <1>15, <2>1
  <2>5. KeyFlagsReliable =>
          /\ reader.packet # 0 => IsKey(reader.packet)
          /\ \/ frontier.fedPts <= e \/ frontier.fedPts < FirstFrameTs
             \/ Still(frontier.fedPts, s) /\ frontier.fedPts \notin Ahead
    <3> SUFFICES ASSUME KeyFlagsReliable
                 PROVE  /\ reader.packet # 0 => IsKey(reader.packet)
                        /\ \/ frontier.fedPts <= e \/ frontier.fedPts < FirstFrameTs
                           \/ Still(frontier.fedPts, s) /\ frontier.fedPts \notin Ahead
      OBVIOUS
    <3>1. /\ reader.packet # 0 => IsKey(reader.packet)
          /\ \/ frontier.fedPts <= frontier.received \/ frontier.fedPts < FirstFrameTs
             \/ Kept(frontier.fedPts, skip) /\ frontier.fedPts \notin Ahead
      BY <1>1 DEF Feed
    <3>2. frontier.fedPts \in Int
      BY <1>1, FrontierParts, ShownFacts
    <3> QED
      BY <1>1, <2>1, <3>1, <3>2
  <2> QED
    BY <2>2, <2>3, <2>4, <2>5
<1>17. /\ (KeyFlagsReliable' <=> KeyFlagsReliable) /\ reader' = reader /\ position' = position
       /\ \A j \in Packets : IsKey(j)' <=> IsKey(j)
       /\ reader.packet # 0 => reader.packet \in Packets
       /\ frontier'.received # NoPts
  <2>1. reader.packet # 0 => reader.packet \in Packets
    BY <1>1 DEF Shapes, Readers, ReaderRecords
  <2>2. frontier'.received # NoPts
    BY <1>1, <1>4
  <2>3. (KeyFlagsReliable' <=> KeyFlagsReliable) /\ reader' = reader /\ position' = position
    BY <1>2, <1>11
  <2>4. \A j \in Packets : IsKey(j)' <=> IsKey(j)
    BY <1>11
  <2> QED
    BY <2>1, <2>2, <2>3, <2>4
<1>18. Feed(mode.skipBefore)'
  <2>1. Rest(skip)
    BY <1>16
  <2>2. \A t : Kept(t, mode.skipBefore)' <=> Still(t, skip)
    BY <1>5, <1>8 DEF Kept, new
  <2> HIDE DEF Still
  <2> QED
    BY <1>4, <1>6, <1>8, <1>11, <1>17, <2>1, <2>2 DEF Feed, new
<1>19. (skip = NoPts \/ skip < e) => Feed(NoPts)'
  <2> SUFFICES ASSUME skip = NoPts \/ skip < e PROVE Feed(NoPts)'
    OBVIOUS
  <2>1. Rest(NoPts)
    BY <1>16
  <2>2. \A t : Kept(t, NoPts)' <=> Still(t, NoPts)
    BY <1>8 DEF Kept, new
  <2> HIDE DEF Still
  <2> QED
    BY <1>4, <1>6, <1>8, <1>11, <1>17, <2>1, <2>2 DEF Feed, new
<1> QED
  BY <1>1, <1>2, <1>4, <1>5, <1>7, <1>8, <1>9, <1>10, <1>18, <1>19 DEF e, skip, Selecting, Calm

\* What a request whose decode is under way knows.
LEMMA WhileSelecting ==
  ASSUME TypeInv, Undisturbed, Exact, ctl.pc = "select"
  PROVE  /\ Shapes /\ Calm /\ InOrder /\ SkipOK /\ Selecting /\ Feed(mode.skipBefore)
         /\ window.target \in Int /\ window.start \in Int /\ mode.skipBefore \in Int
         /\ mode.skipBefore = NoPts \/ mode.skipBefore < window.start
         /\ mode.skipBefore # NoPts => window.start <= window.target
         /\ source \in SourceRecords /\ slots \in Slots /\ ctl \in Controls /\ frontier \in FrontierRecords
         /\ mode \in Modes /\ \A frame \in Frames : frame.pts \in Int
<1>1. Shapes /\ Calm /\ InOrder /\ SkipOK /\ Selecting /\ Feed(mode.skipBefore)
  BY DEF Exact, Selecting, TypeInv
<1>2. source \in SourceRecords /\ slots \in Slots /\ ctl \in Controls /\ frontier \in FrontierRecords
      /\ mode \in Modes
  BY <1>1, SourceParts, FrontierParts DEF Shapes
<1>3. window.target \in Int /\ window.start \in Int /\ mode.skipBefore \in Int
  BY <1>1 DEF Shapes, Windows, Modes
<1>4. \A frame \in Frames : frame.pts \in Int
  BY <1>1, StreamFacts, TicksTypes DEF Frames, Shapes
<1> QED
  BY <1>1, <1>2, <1>3, <1>4 DEF SkipOK

\* A group that began the stream, or before the target, has something to show
\* before the first frame or before the target.
LEMMA FirstIsKept ==
  ASSUME TypeInv, Undisturbed, Exact, ctl.pc = "select", NEW k \in Packets, KeptFrom(k, mode.skipBefore),
         position.atStart
  PROVE  \E t \in Shown : Kept(t, mode.skipBefore) /\ (t = FirstFrameTs \/ t <= window.target)
<1>1. Shapes
  BY DEF TypeInv
<1>2. /\ FirstFrameTs \in Shown /\ FirstFrameTs \in Int /\ Times \subseteq Int /\ Packets \subseteq Nat
      /\ \A t \in Times : t \in Shown <=> FirstFrameTs <= t
      /\ \A j \in Packets : Pts(j) \in Times
  BY <1>1, ShownFacts, StreamFacts DEF Shapes
<1>3. PICK f \in Packets : FirstFrameTs = Pts(f)
  BY DEF Undisturbed, Times
<1>4. CASE k <= f
  <2>1. FirstFrameTs <= Pts(f)
    BY <1>2, <1>3
  <2>2. Kept(FirstFrameTs, mode.skipBefore)
    BY <1>3, <1>4, <2>1 DEF KeptFrom
  <2> QED
    BY <1>2, <2>2
<1>5. CASE ~(k <= f)
  <2>1. f < k /\ k <= k /\ k # 1
    <3>1. Packets = 1..Len(Stream) /\ Len(Stream) \in Nat
      BY <1>1, StreamFacts DEF Shapes
    <3> QED
      BY <1>2, <1>3, <1>5, <3>1
  <2>2. Pts(f) < Pts(k) /\ Pts(k) <= window.target
    BY <2>1 DEF KeptFrom, Undisturbed
  <2>3. FirstFrameTs <= Pts(k) /\ Pts(k) \in Shown
    <3>1. Pts(k) \in Times /\ Pts(k) \in Int /\ Pts(f) \in Int
      BY <1>2
    <3>2. FirstFrameTs <= Pts(k)
      BY <1>3, <2>2, <3>1
    <3> QED
      BY <1>2, <3>1, <3>2
  <2>4. Kept(Pts(k), mode.skipBefore)
    BY <2>1, <2>3 DEF KeptFrom
  <2> QED
    BY <2>2, <2>3, <2>4
<1> QED
  BY <1>4, <1>5

\* Nothing earlier than the frame that comes out is still to come, unless it is
\* before the window.
LEMMA NothingBefore ==
  ASSUME TypeInv, Undisturbed, Exact, Emits, NEW t \in Shown, Kept(t, mode.skipBefore)
  PROVE  Emitted <= t \/ (mode.skipBefore # NoPts /\ Emitted <= mode.skipBefore)
<1>1. /\ Emitted \in Int /\ NoPts < Emitted /\ NoPts \in Int
      /\ \A b \in decoder.buffer : b \in Int /\ Emitted <= b
      /\ \A a \in Ahead : a \in Int /\ Emitted < a
  BY NextToCome
<1>2. mode.skipBefore \in Int
  BY WhileSelecting DEF Emits, At
<1>3. t \in decoder.buffer \/ t \in Ahead \/ \E b \in decoder.buffer : t < b /\ b <= mode.skipBefore
  BY DEF Kept
<1>4. CASE \E b \in decoder.buffer : b <= mode.skipBefore
  <2>1. Emitted <= mode.skipBefore
    BY <1>1, <1>2, <1>4
  <2> QED
    BY <1>1, <1>2, <2>1
<1> QED
  BY <1>1, <1>3, <1>4

\* A frame that comes out and leaves the request where it is.
LEMMA StaysSelecting ==
  ASSUME TypeInv, TypeInv', Undisturbed, Exact, Emits, Receive(FALSE)
  PROVE  /\ source'.setting = source.setting /\ Seekable' /\ ~source'.sticky /\ ~source'.interrupted
         /\ ~mode'.keyframeOnly /\ mode'.tailEnd \in {NoPts, StreamEnd} /\ ~frontier'.drained
         /\ SkipOK' /\ window' = window /\ window \in Windows
         /\ Shown' = Shown
<1>1. Calm /\ SkipOK /\ window \in Windows
  BY WhileSelecting DEF Emits, At, Shapes
<1>2. /\ source' = source /\ window' = window /\ mode'.keyframeOnly = mode.keyframeOnly
      /\ mode'.tailEnd = mode.tailEnd /\ mode'.skipBefore = mode.skipBefore /\ ~frontier'.drained
  BY ReceivesExact
<1>3. Shown' = Shown
  BY <1>2, SameStream
<1> QED
  BY <1>1, <1>2, <1>3 DEF Calm, SkipOK, Seekable

-----------------------------------------------------------------------------
(* What is done with it.                                                    *)

LEMMA PlaceInExactModeExact ==
  ASSUME TypeInv, TypeInv', Undisturbed, Exact, PlaceInExactMode
  PROVE  Exact'
<1>1. /\ Emits /\ ctl.pc = "select" /\ Emitted <= window.target /\ Receive(FALSE) /\ Hold(NewFrame)
      /\ IF Emitted = window.target \/ Emitted >= window.start
         THEN Select(NewFrame, "none") ELSE UNCHANGED ctl
  BY DEF PlaceInExactMode, Emits, At
<1>2. /\ Feed(mode.skipBefore)'
      /\ (mode.skipBefore = NoPts \/ mode.skipBefore < Emitted) => Feed(NoPts)'
      /\ frontier'.received = Emitted /\ EndIsReceived' /\ ~frontier'.eof
      /\ InOrder' /\ DelayOK(keys') /\ NewFrame \in Frames /\ NewFrame.pts = Emitted /\ IsValid(NewFrame)
  BY <1>1, ReceivesExact
<1>3. /\ source'.setting = source.setting /\ Seekable' /\ ~source'.sticky /\ ~source'.interrupted
      /\ ~mode'.keyframeOnly /\ mode'.tailEnd \in {NoPts, StreamEnd} /\ ~frontier'.drained
      /\ SkipOK' /\ window' = window /\ Shown' = Shown
  BY <1>1, StaysSelecting
<1>4. Emitted \in Shown /\ Emitted \in Int /\ NoPts < Emitted /\ NoPts \in Int
  BY <1>1, NextToCome
<1>5. /\ Calm /\ slots \in Slots /\ window.target \in Int /\ window.start \in Int /\ mode.skipBefore \in Int
      /\ mode.skipBefore = NoPts \/ mode.skipBefore < window.start
      /\ mode.skipBefore # NoPts => window.start <= window.target
  BY <1>1, WhileSelecting
<1>6. /\ slots'.held = NewFrame /\ ~IsValid(slots'.pending) /\ ~IsValid(slots'.corruptLast)
  BY <1>1, <1>5 DEF Hold, Slots, NoFrame, IsValid, Calm
<1>7. frontier'.received # NoPts
  BY <1>2, <1>4
<1>8. CASE Emitted = window.target \/ Emitted >= window.start
  <2>1. mode.skipBefore = NoPts \/ mode.skipBefore < Emitted
    BY <1>4, <1>5, <1>8
  <2>2. Quiet'
    BY <1>2, <1>3, <1>4, <1>6, <1>7, <2>1 DEF Quiet, IsValid
  <2>3. ASSUME Emitted = window.target PROVE RightAnswer(window, NewFrame, "none")
    <3>1. \A t \in Shown : t \in Int /\ (t <= Emitted \/ window.target < t)
      BY <1>1, <1>4, <2>3, WhileSelecting, ShownFacts
    <3>2. OnScreen(window.target) = Emitted
      BY <1>1, <1>4, <1>5, <2>3, <3>1, WhileSelecting, OnScreenIs
    <3>3. FirstFrameTs <= Emitted /\ Emitted < StreamEnd
      BY <1>1, <1>4, WhileSelecting, ShownFacts
    <3> QED
      BY <1>2, <1>4, <2>3, <3>2, <3>3 DEF RightAnswer
  <2>4. ASSUME Emitted >= window.start PROVE RightAnswer(window, NewFrame, "none")
    BY <1>1, <1>2, <1>4, <1>5, <2>4 DEF RightAnswer
  <2>5. Select(NewFrame, "none")
    BY <1>1, <1>8
  <2> QED
    BY <1>2, <1>3, <1>5, <1>6, <1>8, <2>2, <2>3, <2>4, <2>5, EndsExactly
<1>9. CASE ~(Emitted = window.target \/ Emitted >= window.start)
  <2>1. UNCHANGED ctl
    BY <1>1, <1>9
  <2>2. Selecting'
    BY <1>1, <1>2, <1>3, <1>4, <1>6, <1>7 DEF Selecting, IsValid
  <2>3. Calm'
    BY <1>2, <1>3, <1>5, <1>6, <2>1, SameStream DEF Calm
  <2> QED
    BY <1>1, <1>2, <1>3, <2>1, <2>2, <2>3 DEF Exact, Scanning
<1> QED
  BY <1>8, <1>9

LEMMA LookAheadExact ==
  ASSUME TypeInv, TypeInv', Undisturbed, Exact, LookAhead
  PROVE  Exact'
<1>1. /\ Emits /\ ctl.pc = "select" /\ Emitted > window.target /\ IsValid(slots.held) /\ Receive(FALSE)
      /\ Pend(NewFrame) /\ Select(slots.held, "none")
  BY DEF LookAhead, Emits, At
<1>2. /\ (mode.skipBefore = NoPts \/ mode.skipBefore < Emitted) => Feed(NoPts)'
      /\ frontier'.received = Emitted /\ EndIsReceived' /\ ~frontier'.eof
      /\ InOrder' /\ DelayOK(keys') /\ NewFrame \in Frames /\ NewFrame.pts = Emitted /\ IsValid(NewFrame)
  BY <1>1, ReceivesExact
<1>3. /\ source'.setting = source.setting /\ Seekable' /\ ~source'.sticky /\ ~source'.interrupted
      /\ ~mode'.keyframeOnly /\ mode'.tailEnd \in {NoPts, StreamEnd} /\ ~frontier'.drained
      /\ window' = window /\ Shown' = Shown
  BY <1>1, StaysSelecting
<1>4. /\ Emitted \in Shown /\ Emitted \in Int /\ NoPts < Emitted /\ NoPts \in Int
      /\ frontier.received \in Int /\ frontier.received < Emitted
  BY <1>1, NextToCome
<1>5. /\ Shapes /\ Calm /\ Selecting /\ Feed(mode.skipBefore) /\ slots \in Slots
      /\ window.target \in Int /\ window.start \in Int /\ mode.skipBefore \in Int
      /\ mode.skipBefore = NoPts \/ mode.skipBefore < window.start
      /\ mode.skipBefore # NoPts => window.start <= window.target
  BY <1>1, WhileSelecting
<1>6. /\ slots'.held = slots.held /\ slots'.pending = NewFrame /\ ~IsValid(slots'.corruptLast)
  BY <1>1, <1>5 DEF Pend, Slots, IsValid, Calm
<1>7. frontier.received # NoPts /\ slots.held.pts = frontier.received /\ slots.held.pts \in Shown
      /\ slots.held.pts <= window.target
  BY <1>1, <1>5 DEF Selecting
<1>8. mode.skipBefore = NoPts \/ mode.skipBefore < Emitted
  BY <1>1, <1>4, <1>5
<1>9. \A t \in Shown : t \in Int /\ FirstFrameTs \in Int /\ FirstFrameTs <= t /\ t < StreamEnd /\ StreamEnd \in Int
  BY <1>5, ShownFacts
<1>10. ASSUME NEW t \in Shown
       PROVE  t <= slots.held.pts \/ Emitted <= t
  <2>0. t <= slots.held.pts \/ frontier.received < t
    <3>1. t \in Int
      BY <1>9
    <3> QED
      BY <1>4, <1>7, <3>1
  <2> SUFFICES ASSUME frontier.received < t PROVE Emitted <= t
    BY <2>0
  <2>1. Kept(t, mode.skipBefore)
    BY <1>5, <1>7 DEF Feed
  <2>2. Emitted <= t \/ (mode.skipBefore # NoPts /\ Emitted <= mode.skipBefore)
    BY <1>1, <2>1, NothingBefore
  <2> QED
    BY <1>4, <1>5, <1>8, <2>2
<1>11. Quiet'
  <2>1. slots'.held.pts < slots'.pending.pts /\ slots'.pending.pts = frontier'.received /\ frontier'.received # NoPts
    BY <1>2, <1>4, <1>6, <1>7
  <2>2. \A t \in Shown' : t <= slots'.held.pts \/ slots'.pending.pts <= t
    BY <1>2, <1>3, <1>6, <1>10
  <2> QED
    BY <1>1, <1>2, <1>3, <1>6, <1>7, <1>8, <2>1, <2>2 DEF Quiet, IsValid
<1>12. RightAnswer(window, slots.held, "none")
  <2>1. \A t \in Shown : t <= slots.held.pts \/ window.target < t
    <3> TAKE t \in Shown
    <3>1. t <= slots.held.pts \/ Emitted <= t
      BY <1>10
    <3>2. t \in Int
      BY <1>9
    <3> QED
      BY <1>1, <1>4, <1>5, <3>1, <3>2
  <2>2. OnScreen(window.target) = slots.held.pts
    BY <1>5, <1>7, <2>1, OnScreenIs
  <2>3. window.target >= FirstFrameTs /\ window.target < StreamEnd
    BY <1>1, <1>4, <1>5, <1>7, <1>9
  <2> QED
    BY <2>2, <2>3 DEF RightAnswer
<1> QED
  BY <1>1, <1>2, <1>3, <1>5, <1>6, <1>11, <1>12, EndsExactly

LEMMA BackOffFromOvershootExact ==
  ASSUME TypeInv, TypeInv', Undisturbed, Exact, BackOffFromOvershoot
  PROVE  Exact'
<1>1. /\ Emits /\ ctl.pc = "select" /\ Receive(FALSE) /\ slots' = slots
      /\ \E observed : ctl' = [ctl EXCEPT !.pc = "backOff", !.purpose = "select", !.observed = observed]
  BY DEF BackOffFromOvershoot, Overshoots, Emits, At
<1>2. InOrder' /\ DelayOK(keys')
  BY <1>1, ReceivesExact
<1>3. /\ source'.setting = source.setting /\ Seekable' /\ ~source'.sticky /\ ~source'.interrupted
      /\ ~mode'.keyframeOnly /\ mode'.tailEnd \in {NoPts, StreamEnd} /\ ~frontier'.drained
      /\ SkipOK' /\ window' = window
  BY <1>1, StaysSelecting
<1>4. Calm /\ ctl \in Controls
  BY <1>1, WhileSelecting
<1>5. ctl'.pc = "backOff" /\ ctl'.purpose = "select" /\ ctl'.cut = ctl.cut /\ ctl'.retrying = ctl.retrying
  BY <1>1, <1>4 DEF Controls
<1>6. Calm'
  BY <1>1, <1>2, <1>3, <1>4, <1>5, SameStream DEF Calm, IsValid
<1> QED
  BY <1>2, <1>3, <1>5, <1>6 DEF Exact, Scanning

LEMMA BackOffFromTailExact ==
  ASSUME TypeInv, TypeInv', Undisturbed, Exact, BackOffFromTail
  PROVE  Exact'
<1>1. /\ ctl.pc = "select"
      /\ ctl' = [ctl EXCEPT !.pc = "backOff", !.purpose = "select", !.observed = NoPts]
      /\ UNCHANGED <<source, decoder, position, frontier, slots, mode, reader, keys, ladder, window, landing, reply>>
  BY DEF BackOffFromTail, AtEndOfStream, At
<1>2. Calm /\ InOrder /\ SkipOK /\ ctl \in Controls
  BY <1>1, WhileSelecting
<1>3. ctl'.pc = "backOff" /\ ctl'.purpose = "select" /\ ctl'.cut = ctl.cut /\ ctl'.retrying = ctl.retrying
  BY <1>1, <1>2 DEF Controls
<1>4. Calm'
  BY <1>1, <1>2, <1>3, SameStream DEF Calm, Seekable, IsValid
<1>5. InOrder' /\ SkipOK'
  BY <1>1, <1>2 DEF InOrder, Next1, SkipOK
<1> QED
  BY <1>3, <1>4, <1>5 DEF Exact, Scanning

LEMMA AnswerOvershootExact ==
  ASSUME TypeInv, TypeInv', Undisturbed, Exact, AnswerOvershoot
  PROVE  Exact'
<1>1. /\ Emits /\ ctl.pc = "select" /\ Emitted > window.target /\ ~IsValid(slots.held) /\ ~LandedLate
      /\ Receive(FALSE) /\ Hold(NewFrame)
      /\ Select(NewFrame, IF Emitted <= window.end THEN "none" ELSE "clampedToFirst")
  BY DEF AnswerOvershoot, Overshoots, Emits, At
<1>2. /\ (mode.skipBefore = NoPts \/ mode.skipBefore < Emitted) => Feed(NoPts)'
      /\ frontier'.received = Emitted /\ EndIsReceived' /\ ~frontier'.eof
      /\ InOrder' /\ DelayOK(keys') /\ NewFrame \in Frames /\ NewFrame.pts = Emitted /\ IsValid(NewFrame)
  BY <1>1, ReceivesExact
<1>3. /\ source'.setting = source.setting /\ Seekable' /\ ~source'.sticky /\ ~source'.interrupted
      /\ ~mode'.keyframeOnly /\ mode'.tailEnd \in {NoPts, StreamEnd} /\ ~frontier'.drained
      /\ window' = window /\ Shown' = Shown
  BY <1>1, StaysSelecting
<1>4. Emitted \in Shown /\ Emitted \in Int /\ NoPts < Emitted /\ NoPts \in Int /\ decoder.synced
  BY <1>1, NextToCome
<1>5. /\ Shapes /\ Calm /\ Selecting /\ Feed(mode.skipBefore) /\ slots \in Slots
      /\ window.target \in Int /\ window.start \in Int /\ mode.skipBefore \in Int
      /\ mode.skipBefore = NoPts \/ mode.skipBefore < window.start
      /\ mode.skipBefore # NoPts => window.start <= window.target
  BY <1>1, WhileSelecting
<1>6. /\ slots'.held = NewFrame /\ ~IsValid(slots'.pending) /\ ~IsValid(slots'.corruptLast)
  BY <1>1, <1>5 DEF Hold, Slots, NoFrame, IsValid, Calm
<1>7. frontier.received = NoPts /\ frontier.count = 0
  <2>1. frontier.received # NoPts => slots.held.pts = NoPts /\ slots.held.pts = frontier.received
    BY <1>1, <1>5 DEF Selecting, IsValid
  <2> QED
    BY <1>5, <2>1 DEF Selecting
<1>8. mode.skipBefore = NoPts \/ mode.skipBefore < Emitted
  BY <1>1, <1>4, <1>5
<1>9. \A t \in Shown : t \in Int /\ FirstFrameTs \in Int /\ FirstFrameTs <= t
  BY <1>5, ShownFacts
<1>10. Emitted = FirstFrameTs
  <2>1. position.atStart \/ Emitted <= FirstFrameTs
    BY <1>1, <1>5, <1>7 DEF LandedLate, IsAtStart, Calm
  <2>2. ASSUME position.atStart PROVE Emitted <= FirstFrameTs
    <3>1. PICK k \in Packets : KeptFrom(k, mode.skipBefore)
      BY <1>4, <1>5, <1>7 DEF Feed
    <3>2. PICK t \in Shown : Kept(t, mode.skipBefore) /\ (t = FirstFrameTs \/ t <= window.target)
      BY <1>1, <2>2, <3>1, FirstIsKept
    <3>3. Emitted <= t \/ (mode.skipBefore # NoPts /\ Emitted <= mode.skipBefore)
      BY <1>1, <3>2, NothingBefore
    <3>4. Emitted <= t
      BY <1>4, <1>5, <1>8, <3>3
    <3> QED
      BY <1>1, <1>4, <1>5, <1>9, <3>2, <3>4
  <2> QED
    BY <1>4, <1>9, <2>1, <2>2
<1>11. Quiet'
  BY <1>2, <1>3, <1>4, <1>6, <1>8 DEF Quiet, IsValid
<1>12. window.target < FirstFrameTs
  BY <1>1, <1>4, <1>5, <1>10
<1>13. CASE Emitted <= window.end
  <2>1. RightAnswer(window, NewFrame, "none")
    BY <1>2, <1>10, <1>12, <1>13 DEF RightAnswer
  <2>2. Select(NewFrame, "none")
    BY <1>1, <1>13
  <2> QED
    BY <1>2, <1>3, <1>5, <1>6, <1>11, <2>1, <2>2, EndsExactly
<1>14. CASE ~(Emitted <= window.end)
  <2>1. RightAnswer(window, NewFrame, "clampedToFirst")
    BY <1>2, <1>10, <1>12 DEF RightAnswer
  <2>2. Select(NewFrame, "clampedToFirst")
    BY <1>1, <1>14
  <2> QED
    BY <1>2, <1>3, <1>5, <1>6, <1>11, <2>1, <2>2, EndsExactly
<1> QED
  BY <1>13, <1>14

-----------------------------------------------------------------------------
(* The end of the stream.                                                   *)

\* The end is not reached with nothing received, unless a seek landed there.
LEMMA NeverEmpty ==
  ASSUME TypeInv, Undisturbed, Exact, AtEndOfStream, ~LandedInTail
  PROVE  /\ frontier.received # NoPts /\ IsValid(slots.held)
         /\ \A t \in Shown : \A skip : ~Kept(t, skip)
<1>1. /\ ctl.pc = "select" /\ frontier.draining /\ decoder.buffer = {}
  BY DEF AtEndOfStream, At
<1>2. Shapes /\ Calm /\ InOrder /\ Selecting /\ Feed(mode.skipBefore)
  BY <1>1, WhileSelecting
<1>3. Ahead = {}
  BY <1>1, <1>2 DEF Feed
<1>4. \A t \in Shown : \A skip : ~Kept(t, skip)
  BY <1>1, <1>3 DEF Kept
<1>5. ASSUME frontier.received = NoPts PROVE FALSE
  <2>1. position.atStart
    <3>1. ~IsValid(slots.held) /\ position.positioned
      BY <1>2, <1>5 DEF Selecting
    <3> QED
      BY <1>2, <3>1 DEF LandedInTail, NothingProduced, Calm
  <2>2. CASE decoder.synced
    <3>1. PICK k \in Packets : KeptFrom(k, mode.skipBefore)
      BY <1>2, <1>5, <2>2 DEF Feed
    <3> QED
      BY <1>1, <1>4, <2>1, <3>1, FirstIsKept
  <2>3. CASE ~decoder.synced
    <3>1. Unfed \in Packets
      BY <1>2, <2>1, <2>3 DEF Feed, NotSynced, StartsRight
    <3>2. Unfed >= Unfed
      BY <1>2, <3>1, StreamFacts DEF Shapes
    <3> QED
      BY <1>3, <3>1, <3>2 DEF Ahead
  <2> QED
    BY <2>2, <2>3
<1>6. IsValid(slots.held)
  <2>1. slots.held.pts = frontier.received
    BY <1>2, <1>5 DEF Selecting
  <2> QED
    BY <1>5, <2>1 DEF IsValid
<1> QED
  BY <1>4, <1>5, <1>6

LEMMA EndOfStreamExact ==
  ASSUME TypeInv, TypeInv', Undisturbed, Exact, EndOfStream
  PROVE  Exact'
<1>1. /\ AtEndOfStream /\ ~LandedInTail /\ FinishAtEof /\ ctl.pc = "select"
      /\ frontier.draining /\ decoder.buffer = {}
      /\ frontier' = [frontier EXCEPT !.eof = TRUE]
      /\ mode' = [mode EXCEPT !.tailEnd = Max({@, frontier.lastEnd})]
      /\ UNCHANGED <<source, decoder, reader, keys, ladder, window, landing>>
  BY DEF EndOfStream, AtEndOfStream, At
<1>2. /\ Shapes /\ Calm /\ InOrder /\ Selecting /\ Feed(mode.skipBefore) /\ frontier \in FrontierRecords
      /\ mode \in Modes /\ slots \in Slots /\ window.target \in Int
  BY <1>1, WhileSelecting
<1>3. /\ frontier.received # NoPts /\ IsValid(slots.held) /\ \A t \in Shown : \A skip : ~Kept(t, skip)
  BY <1>1, NeverEmpty
<1>4. /\ EndIsReceived /\ slots.held.pts = frontier.received /\ slots.held.pts \in Shown
      /\ slots.held.pts <= window.target /\ ~IsValid(slots.pending)
  BY <1>2, <1>3 DEF Selecting
<1>5. /\ \A t \in Shown : t \in Int /\ t <= Max(Shown)
      /\ Max(Shown) \in Shown /\ StreamEnd = Max(Shown) + FrameDuration /\ StreamEnd \in Int
      /\ FrameDuration \in Nat /\ NoPts \in Int /\ NoPts < Max(Shown)
  <2>1. Max(Shown) \in Times /\ \A t \in Times : NoPts < t
    BY <1>2, ShownFacts
  <2> QED
    BY <1>2, <2>1, ShownFacts
<1>6. slots.held.pts = Max(Shown)
  <2>1. \A t \in Shown : ~(frontier.received < t)
    BY <1>2, <1>3 DEF Feed
  <2> QED
    BY <1>4, <1>5, <2>1
<1>7. frontier.lastEnd = StreamEnd
  BY <1>4, <1>5, <1>6 DEF EndIsReceived
<1>8. FinishWith(slots.held) /\ slots' = slots
  BY <1>1, <1>3 DEF FinishAtEof
<1>9. slots.held \in Frames
  BY <1>2 DEF Slots
<1>10. \/ /\ UNCHANGED <<position, reply>>
          /\ \E adjustment \in Adjustments :
               Select(slots.held, adjustment) /\ RightAnswer(window, slots.held, adjustment)
       \/ /\ Fail("timeOutOfRange") /\ window.target >= StreamEnd
          /\ position' = IF At("start") THEN position ELSE Abandoned(position)
  BY <1>2, <1>4, <1>6, <1>8, <1>9, FinishIsRight
<1>11. position'.awaitingKey = position.awaitingKey
  <2>1. position \in Positions
    BY <1>2 DEF Shapes
  <2>2. Abandoned(position).awaitingKey = position.awaitingKey
    BY <2>1 DEF Abandoned, Positions
  <2> QED
    BY <1>10, <2>2
<1>12. /\ frontier'.received = frontier.received /\ frontier'.draining = frontier.draining
       /\ frontier'.fedPts = frontier.fedPts /\ frontier'.lastEnd = frontier.lastEnd
       /\ frontier'.drained = frontier.drained /\ frontier'.eof
  BY <1>1, <1>2 DEF FrontierRecords
<1>13. mode'.tailEnd = StreamEnd /\ mode'.keyframeOnly = mode.keyframeOnly
  <2>1. mode.tailEnd \in {NoPts, StreamEnd}
    BY <1>2 DEF Calm
  <2>2. StreamEnd >= NoPts
    BY <1>5
  <2>3. Max({mode.tailEnd, StreamEnd}) = StreamEnd
    BY <1>5, <2>1, <2>2, MaxOfTwo
  <2> QED
    BY <1>1, <1>2, <1>7, <2>3 DEF Modes
<1>14. Unfed' = Unfed /\ Ahead' = Ahead /\ Shown' = Shown /\ InOrder'
  BY <1>1, <1>2, AheadStays, SameStream DEF InOrder, Next1
<1>15. Feed(NoPts)'
  <2>1. /\ Ahead = {} /\ decoder.synced
    <3>1. decoder.synced
      BY <1>2, <1>3 DEF Feed, NotSynced
    <3> QED
      BY <1>1, <1>2, <3>1 DEF Feed
  <2>2. ~position.awaitingKey
    BY <1>2, <2>1 DEF Feed
  <2>3. \A t \in Shown : ~(frontier.received < t)
    BY <1>2, <1>3 DEF Feed
  <2>4. KeyFlagsReliable => /\ reader.packet # 0 => IsKey(reader.packet)
                            /\ frontier.fedPts <= frontier.received \/ frontier.fedPts < FirstFrameTs
    <3>1. KeyFlagsReliable => /\ reader.packet # 0 => IsKey(reader.packet)
                              /\ \/ frontier.fedPts <= frontier.received \/ frontier.fedPts < FirstFrameTs
                                 \/ Kept(frontier.fedPts, mode.skipBefore)
      BY <1>2 DEF Feed
    <3>2. ~Kept(frontier.fedPts, mode.skipBefore)
      BY <1>1, <2>1 DEF Kept
    <3> QED
      BY <3>1, <3>2
  <2>5. /\ decoder' = decoder /\ reader' = reader /\ (KeyFlagsReliable' <=> KeyFlagsReliable)
        /\ FirstFrameTs' = FirstFrameTs
        /\ reader.packet # 0 => (IsKey(reader.packet)' <=> IsKey(reader.packet))
    BY <1>1, SameStream DEF IsKey
  <2> QED
    BY <1>1, <1>3, <1>11, <1>12, <1>14, <2>1, <2>2, <2>3, <2>4, <2>5 DEF Feed
<1>16. Quiet'
  <2>1. Ahead = {}
    BY <1>1, <1>2 DEF Feed
  <2>2. EndIsReceived'
    BY <1>4, <1>12 DEF EndIsReceived
  <2> QED
    BY <1>1, <1>3, <1>4, <1>8, <1>12, <1>14, <1>15, <2>1, <2>2 DEF Quiet, IsValid
<1>17. /\ Seekable' /\ ~source'.sticky /\ ~source'.interrupted /\ ~mode'.keyframeOnly
       /\ mode'.tailEnd \in {NoPts, StreamEnd} /\ ~frontier'.drained /\ ~IsValid(slots'.corruptLast)
       /\ DelayOK(keys') /\ window' = window /\ source'.setting = source.setting
  BY <1>1, <1>2, <1>8, <1>12, <1>13 DEF Calm, Seekable
<1>18. \/ /\ ctl' = Idle
          /\ \/ reply'.status = "ok" /\ RightAnswer(window, reply'.frame, reply'.adjustment)
             \/ reply'.status = "timeOutOfRange" /\ window.target >= StreamEnd
       \/ \E frame, adjustment : Select(frame, adjustment) /\ RightAnswer(window, frame, adjustment)
  <2>1. Fail("timeOutOfRange") => ctl' = Idle /\ reply'.status = "timeOutOfRange"
    BY DEF Fail, EndRequest
  <2> QED
    BY <1>10, <2>1
<1> QED
  BY <1>2, <1>14, <1>16, <1>17, <1>18, EndsExactly

LEMMA SelectsStayExact ==
  ASSUME TypeInv, TypeInv', Undisturbed, Exact, Selects
  PROVE  Exact'
<1>1. ctl.pc \notin {"arm", "feedKey"} /\ ~mode.keyframeOnly /\ Faults = {}
  BY DEF Exact, Calm, Undisturbed
<1>2. ~AnswerFirstFrame /\ ~FetchKeyframe /\ ~FeedKeyframeAndDrain
  BY <1>1 DEF AnswerFirstFrame, FetchKeyframe, FeedKeyframeAndDrain, FeedingKey, At
<1>3. ~DemuxError /\ ~StashCorrupt /\ ~PlaceInKeyframeMode
  BY <1>1 DEF DemuxError, StashCorrupt, PlaceInKeyframeMode
<1>4. ~RetryAfterEmptyEof
  BY NeverEmpty DEF RetryAfterEmptyEof, EndedEmpty, NothingProduced
<1> QED
  BY <1>2, <1>3, <1>4, FeedHeldPacketExact, SkipToKeyframeExact, FeedNextPacketExact, StartDrainExact,
     PlaceInExactModeExact, LookAheadExact, BackOffFromOvershootExact, AnswerOvershootExact,
     BackOffFromTailExact, EndOfStreamExact DEF Selects

LEMMA NothingIsCancelled ==
  ASSUME Undisturbed, Cancels
  PROVE  FALSE
BY DEF Undisturbed, Cancels, Cancel, InterruptRead, ShortRead, InterruptSeek, Cancellable

LEMMA StutterStaysExact ==
  ASSUME Exact, UNCHANGED vars
  PROVE  Exact'
<1>1. /\ UNCHANGED <<source, decoder, position, frontier, slots, mode, reader, keys, ladder, window, ctl, landing, reply>>
  BY DEF vars
<1>2. (Quiet' <=> Quiet) /\ (Selecting' <=> Selecting) /\ Unfed' = Unfed
  BY <1>1, QuietStays, SelectingStays, AheadStays
<1>3. Calm' /\ InOrder' /\ (SkipOK' <=> SkipOK) /\ (Fresh' <=> Fresh) /\ (Scanning' <=> Scanning)
  BY <1>1, SameStream DEF Exact, Calm, InOrder, SkipOK, Fresh, Scanning, Next1, Seekable, IsValid
<1>4. CanStay' <=> CanStay
  <2>1. IsForwardCheaper(window.target)' <=> IsForwardCheaper(window.target)
    BY <1>1, CheaperStays
  <2>2. CanDecodeForwardTo(window.target)' <=> CanDecodeForwardTo(window.target)
    BY <1>1 DEF CanDecodeForwardTo, HasHole
  <2>3. IsUndecodedLandingBefore(window.target)' <=> IsUndecodedLandingBefore(window.target)
    BY <1>1 DEF IsUndecodedLandingBefore, UndecodedLanding, ForwardScanLimit
  <2> QED
    BY <1>1, <2>1, <2>2, <2>3 DEF CanStay
<1>5. (LandingTrue' <=> LandingTrue) /\ (LandingAtStart' <=> LandingAtStart)
  BY <1>1, <1>2, SameStream DEF LandingTrue, LandingAtStart, StartsRight, BufferedUpTo, IsKey, Pts
<1>6. (RightReply' <=> RightReply)
      /\ (RightAnswer(window, ctl.frame, ctl.adjustment)' <=> RightAnswer(window, ctl.frame, ctl.adjustment))
  BY <1>1, SameStream DEF RightReply, RightAnswer, OnScreen
<1> QED
  BY <1>1, <1>2, <1>3, <1>4, <1>5, <1>6 DEF Exact

-----------------------------------------------------------------------------
(* Every state, and what it promises.                                       *)

LEMMA ExactAtInit ==
  ASSUME Init, Undisturbed
  PROVE  Exact
<1>1. TypeInv /\ Shapes
  BY InitTypes DEF TypeInv
<1>2. /\ source.next = 1 /\ ~source.sticky /\ ~source.interrupted /\ Seekable
  <2>1. PICK s \in Settings :
          source = [setting |-> s, next |-> 1, sticky |-> FALSE, interrupted |-> FALSE, failures |-> 0,
                    seekable |-> s.container # "pipe"]
    BY DEF Init
  <2>2. source.next = 1 /\ ~source.sticky /\ ~source.interrupted
    BY <2>1
  <2>3. Seekable
    <3>1. source.failures = 0
      BY <2>1
    <3> QED
      BY <1>1, <3>1, TicksTypes DEF TypeInv, Phases, Seekable, Undisturbed
  <2> QED
    BY <2>2, <2>3
<1>3. /\ decoder.buffer = {} /\ ~decoder.synced /\ position.positioned /\ ~position.awaitingKey
      /\ frontier.received = NoPts /\ frontier.fedPts = NoPts /\ ~frontier.draining /\ ~frontier.eof
      /\ ~frontier.drained /\ frontier.count = 0 /\ frontier.lastEnd = NoPts
      /\ ~IsValid(slots.held) /\ ~IsValid(slots.pending) /\ ~IsValid(slots.corruptLast)
      /\ ~mode.keyframeOnly /\ mode.skipBefore = NoPts /\ mode.tailEnd = NoPts
      /\ reader.packet = 0 /\ reader.replay = <<>> /\ keys.reorder = NoPts /\ window = Probe
      /\ ctl.pc = "select" /\ ctl.purpose = "select" /\ ~ctl.cut /\ ~ctl.retrying
  BY DEF Init, EmptyDecoder, NoFrontier, EmptySlots, NoFrame, IsValid, EmptyIndex, Idle
<1>4. Unfed = 1
  BY <1>2, <1>3 DEF Unfed, Next1
<1>5. Calm /\ InOrder /\ SkipOK
  BY <1>2, <1>3 DEF Calm, InOrder, SkipOK, DelayOK
<1>6. StartsRight /\ NotSynced
  BY <1>3, <1>4 DEF StartsRight, NotSynced, Undisturbed
<1>7. \A t \in Ahead : NoPts < t
  BY <1>1, <1>5, Feedstock, StreamFacts DEF Times, Shapes
<1>8. NoPts <= NoPts
  BY IndexAssumption
<1>9. Feed(mode.skipBefore)
  BY <1>3, <1>6, <1>7, <1>8 DEF Feed
<1>10. Selecting
  BY <1>3, <1>9 DEF Selecting
<1> QED
  BY <1>3, <1>5, <1>10 DEF Exact, Scanning

\* Nothing disturbs a file that nothing disturbs, and every step keeps to it.
LEMMA ExactStep == TypeInv /\ (Undisturbed => Exact) /\ [Next]_vars => (Undisturbed => Exact)'
<1> SUFFICES ASSUME TypeInv, Undisturbed => Exact, [Next]_vars, Undisturbed' PROVE Exact'
  OBVIOUS
<1>1. TypeInv'
  BY TypeInvStep
<1>2. source'.setting = source.setting
  BY StepTypes DEF Reshapes, vars
<1>3. Undisturbed /\ Exact
  BY <1>2, SameSetting
<1>4. CASE Starts
  BY <1>1, <1>3, <1>4, StartsStayExact
<1>5. CASE Moves
  BY <1>1, <1>3, <1>5, MovesStayExact
<1>6. CASE Lands
  BY <1>1, <1>3, <1>6, LandsStayExact
<1>7. CASE Selects
  BY <1>1, <1>3, <1>7, SelectsStayExact
<1>8. CASE Ends
  BY <1>1, <1>3, <1>8, EndsStayExact
<1>9. CASE Cancels
  BY <1>3, <1>9, NothingIsCancelled
<1>10. CASE UNCHANGED vars
  BY <1>3, <1>10, StutterStaysExact
<1> QED
  BY <1>4, <1>5, <1>6, <1>7, <1>8, <1>9, <1>10 DEF Next, NoGenerator

LEMMA StaysExact == Spec => [](TypeInv /\ (Undisturbed => Exact))
<1>1. Init => TypeInv /\ (Undisturbed => Exact)
  BY InitTypes, ExactAtInit
<1>2. TypeInv /\ (Undisturbed => Exact) /\ [Next]_vars => TypeInv' /\ (Undisturbed => Exact)'
  BY TypeInvStep, ExactStep
<1> QED
  BY <1>1, <1>2, PTL DEF Spec

\* What a request that has ended was told.
LEMMA ToldExactly ==
  ASSUME Undisturbed, Exact, At("idle"), window # Probe
  PROVE  RightReply /\ ~window.keyMode
BY DEF Exact, At, Calm, Undisturbed

\* On a file that nothing disturbs, every exact request that is answered without
\* a note gets the frame on screen at its target, or an earlier one its tolerance
\* admits: FrameSelector::select() over whatever requests came before it.
THEOREM PipelineAnswersExactly == Spec => [](Undisturbed => FrameAccuracy)
<1>1. Undisturbed /\ Exact => FrameAccuracy
  BY ToldExactly DEF FrameAccuracy, Unadjusted, Answered, RightReply, RightAnswer
<1> QED
  BY <1>1, StaysExact, PTL

\* A clamped answer is clamped for a reason: FrameSelector's OutOfRangePolicy and
\* its overshoot before the first frame.
THEOREM PipelineClampsHonestly == Spec => [](Undisturbed => HonestClamps)
<1>1. Undisturbed /\ Exact => HonestClamps
  BY ToldExactly DEF HonestClamps, Answered, RightReply, RightAnswer
<1> QED
  BY <1>1, StaysExact, PTL

\* A request fails only when its target lies past the end of the stream: nothing
\* that back-offs, retries and repositioning do makes one fail for another reason.
THEOREM PipelineFailsHonestly == Spec => [](Undisturbed => HonestFailures)
<1>1. Undisturbed /\ Exact => HonestFailures
  BY ToldExactly DEF HonestFailures, RightReply
<1> QED
  BY <1>1, StaysExact, PTL

\* The end of the stream, once FrameSelector::finishAtEof() has concluded it, is
\* the end of the stream.
THEOREM PipelineTailIsTrue == Spec => [](Undisturbed => TailIsTrue)
<1>1. Exact => TailIsTrue
  BY DEF Exact, Calm, TailIsTrue
<1> QED
  BY <1>1, StaysExact, PTL

-----------------------------------------------------------------------------
(* The look-ahead frame.                                                    *)

Adjacent ==
  IsValid(slots.held) /\ IsValid(slots.pending) =>
    /\ slots.held.pts < slots.pending.pts
    /\ \A t \in Shown : t <= slots.held.pts \/ slots.pending.pts <= t

\* Only an answer brings a look-ahead frame in; anything else keeps the slots, or
\* empties that one.
LEMMA PendingComesWithAnswer ==
  ASSUME TypeInv, Undisturbed, Exact, Next
  PROVE  slots' = slots \/ ~IsValid(slots'.pending) \/ ctl'.pc \notin {"seek", "byteSeek", "backOff"}
<1>1. slots \in Slots /\ ctl \in Controls /\ Calm /\ (ctl.pc = "select" => Selecting) /\ Faults = {}
  BY DEF TypeInv, Shapes, Exact, Undisturbed
<1>2. ~IsValid(EmptySlots.pending) /\ ~IsValid(NoFrame)
  BY DEF EmptySlots, NoFrame, IsValid
<1>3. CASE Starts
  <2>1. CASE Accept \/ Recover \/ AnswerFromHeld \/ Continue \/ Reposition
    BY <1>1, <1>2, <2>1 DEF Accept, Recover, ResetPosition, AnswerFromHeld, Continue, Reposition
  <2>2. CASE AnswerAtTail
    BY <1>1, <2>2 DEF AnswerAtTail, CanAnswerAtTail, IsHeldCovering, FinishAtEof
  <2>3. CASE Promote
    BY <1>1, <1>2, <2>3 DEF Promote, Promoted, Slots
  <2> QED
    BY <1>3, <2>1, <2>2, <2>3 DEF Starts
<1>4. CASE Moves
  BY <1>2, <1>4 DEF Moves, Position, PositionUnseekable, SeekToStart, Seek, SeekFails, ByteSeek, ByteSeekFails,
     BackOff, Reopen, AfterSeek, Forget, ResetPosition
<1>5. CASE Lands
  BY <1>5 DEF Lands, LandOnAnything, LandOnNonKey, LandPastTarget, LandOnKey, LandAtEnd, LandingUnchanged,
     SettleOnParked, SettleOnReplay, SettleByRewinding, AfterLanding
<1>6. CASE Selects
  <2>1. CASE AnswerFirstFrame \/ FetchKeyframe \/ FeedKeyframeAndDrain \/ FeedHeldPacket \/ SkipToKeyframe
             \/ FeedNextPacket \/ StartDrain \/ BackOffFromOvershoot \/ BackOffFromTail
    BY <2>1 DEF AnswerFirstFrame, FetchKeyframe, FeedKeyframeAndDrain, FeedHeldPacket, SkipToKeyframe,
       FeedNextPacket, StartDrain, BackOffFromOvershoot, BackOffFromTail
  <2>2. ~DemuxError /\ ~StashCorrupt /\ ~PlaceInKeyframeMode
    BY <1>1 DEF DemuxError, StashCorrupt, PlaceInKeyframeMode, Calm
  <2>3. CASE PlaceInExactMode \/ AnswerOvershoot
    BY <1>1, <1>2, <2>3 DEF PlaceInExactMode, AnswerOvershoot, Hold, Slots
  <2>4. CASE LookAhead
    BY <1>1, <2>4 DEF LookAhead, Select, Controls
  <2>5. CASE RetryAfterEmptyEof
    BY <1>2, <2>5 DEF RetryAfterEmptyEof, ResetPosition
  <2>6. CASE EndOfStream
    <3>1. ~IsValid(slots.pending) /\ ~IsValid(slots.corruptLast)
      BY <1>1, <2>6 DEF EndOfStream, AtEndOfStream, At, Selecting, Calm
    <3> QED
      BY <2>6, <3>1 DEF EndOfStream, FinishAtEof
  <2> QED
    BY <1>6, <2>1, <2>2, <2>3, <2>4, <2>5, <2>6 DEF Selects
<1>7. CASE Ends
  BY <1>7 DEF Ends, GiveAnswer, VerifyTail, VerifyPacket, VerifyEnd
<1>8. CASE Cancels
  BY <1>8, NothingIsCancelled
<1>9. CASE NoGenerator
  BY <1>9 DEF NoGenerator, vars
<1> QED
  BY <1>3, <1>4, <1>5, <1>6, <1>7, <1>8, <1>9 DEF Next

LEMMA AdjacentStep ==
  ASSUME TypeInv, TypeInv', Undisturbed, Exact, Exact', Adjacent, [Next]_vars
  PROVE  Adjacent'
<1>1. Shown' = Shown
  BY StepTypes, SameStream DEF Reshapes, vars
<1>2. CASE ctl'.pc \in {"seek", "byteSeek", "backOff"}
  <2>1. slots' = slots \/ ~IsValid(slots'.pending)
    BY <1>2, PendingComesWithAnswer DEF vars
  <2> QED
    BY <1>1, <2>1 DEF Adjacent, IsValid
<1>3. CASE ctl'.pc \in {"idle", "start", "position", "answer"}
  BY <1>3 DEF Exact, Quiet, Adjacent
<1>4. CASE ctl'.pc = "select"
  BY <1>4 DEF Exact, Selecting, Adjacent
<1>5. CASE ctl'.pc \in {"landing", "landed"}
  BY <1>5 DEF Exact, Scanning, Fresh, EmptySlots, NoFrame, IsValid, Adjacent
<1>6. ctl'.pc \in Places /\ ctl'.pc \notin {"recover", "arm", "feedKey", "verify"}
  BY DEF TypeInv, Shapes, Controls, Exact, Calm
<1> QED
  BY <1>2, <1>3, <1>4, <1>5, <1>6 DEF Places

\* Every frame between the held frame and the look-ahead frame was produced, so
\* that both may answer the next request: FrameSlot.h and acceptFrame().
THEOREM PipelineLooksOneAhead == Spec => [](Undisturbed => LookAheadIsAdjacent)
<1>1. Init => (Undisturbed => Adjacent)
  BY DEF Init, EmptySlots, NoFrame, IsValid, Adjacent
<1>2. TypeInv /\ TypeInv' /\ (Undisturbed => Exact) /\ (Undisturbed => Exact)' /\ (Undisturbed => Adjacent)
        /\ [Next]_vars => (Undisturbed => Adjacent)'
  <2> SUFFICES ASSUME TypeInv, TypeInv', Undisturbed => Exact, (Undisturbed => Exact)', Undisturbed => Adjacent,
                      [Next]_vars, Undisturbed'
               PROVE  Adjacent'
    OBVIOUS
  <2>1. source'.setting = source.setting
    BY StepTypes DEF Reshapes, vars
  <2>2. Undisturbed
    BY <2>1, SameSetting
  <2> QED
    BY <2>2, AdjacentStep
<1>3. Adjacent => LookAheadIsAdjacent
  BY DEF Adjacent, LookAheadIsAdjacent
<1> QED
  BY <1>1, <1>2, <1>3, StaysExact, PTL DEF Spec

-----------------------------------------------------------------------------
(* What every picture was decoded from.                                     *)

\* No picture depends on a later one, or on one before its own group.
ClosedGroups ==
  \A i \in Packets : \A r \in Stream[i].refs :
    \E j \in Packets : j < i /\ r = Pts(j) /\ \A k \in Packets : IsKey(k) => k <= j \/ i < k

\* From some key frame on, the decoder has what the packets to come refer to.
DecoderSound ==
  decoder.synced =>
    /\ decoder.buffer \subseteq decoder.intact
    /\ \E k \in Packets :
         /\ IsKey(k) /\ k < Unfed
         /\ \A j, n \in Packets : k <= j /\ j < Unfed /\ Unfed <= n /\ Pts(j) \in Stream[n].refs
                                  => Pts(j) \in decoder.intact

FramesSound ==
  /\ IsValid(slots.held) => slots.held.intact
  /\ IsValid(slots.pending) => slots.pending.intact
  /\ ctl.pc = "answer" => ctl.frame.intact
  /\ ctl.pc = "idle" /\ reply.status = "ok" => reply.frame.intact

LEMMA SameGroups ==
  ASSUME source'.setting = source.setting
  PROVE  ClosedGroups' <=> ClosedGroups
BY SameStream, SameReads DEF ClosedGroups, IsKey, Pts

LEMMA DecoderSoundStays ==
  ASSUME DecoderSound, UNCHANGED <<decoder, source, reader>>
  PROVE  DecoderSound'
<1>1. Unfed' = Unfed
  BY AheadStays
<1> QED
  BY <1>1, SameStream DEF DecoderSound, IsKey, Pts

LEMMA FeedSound ==
  ASSUME TypeInv, ClosedGroups, DecoderSound, decoder.synced \/ decoder.buffer = {},
         NEW i \in Packets, i = Unfed, Send(i), Unfed' = i + 1, source'.setting = source.setting
  PROVE  DecoderSound'
<1>1. PICK shown \in BOOLEAN : decoder' = Decode(i, shown)
  BY DEF Send
<1>2. /\ Packets \subseteq Nat /\ Stream' = Stream /\ Packets' = Packets
      /\ \A j, n \in Packets : Pts(j) = Pts(n) => j = n
  BY StreamFacts, SameStream DEF TypeInv, Shapes
<1>3. CASE ~IsKey(i) /\ ~decoder.synced
  BY <1>1, <1>3 DEF Decode, DecoderSound
<1>4. CASE IsKey(i) \/ decoder.synced
  <2>1. PICK k \in Packets :
          /\ IsKey(k) /\ k <= i /\ (~decoder.synced => k = i)
          /\ \A j, n \in Packets : k <= j /\ j < i /\ i <= n /\ Pts(j) \in Stream[n].refs
                                   => Pts(j) \in decoder.intact
    <3>1. CASE decoder.synced
      <4>1. PICK k \in Packets :
              /\ IsKey(k) /\ k < i
              /\ \A j, n \in Packets : k <= j /\ j < i /\ i <= n /\ Pts(j) \in Stream[n].refs
                                       => Pts(j) \in decoder.intact
        BY <3>1 DEF DecoderSound
      <4>2. k <= i
        BY <1>2, <4>1
      <4> QED
        BY <3>1, <4>1, <4>2
    <3>2. CASE ~decoder.synced
      <4>1. \A j \in Packets : ~(i <= j /\ j < i)
        BY <1>2
      <4>2. i <= i
        BY <1>2
      <4> QED
        BY <1>4, <3>2, <4>1, <4>2
    <3> QED
      BY <3>1, <3>2
  <2>2. Stream[i].refs \subseteq decoder.intact
    <3> SUFFICES ASSUME NEW r \in Stream[i].refs PROVE r \in decoder.intact
      OBVIOUS
    <3>1. PICK j \in Packets : j < i /\ r = Pts(j) /\ \A m \in Packets : IsKey(m) => m <= j \/ i < m
      BY DEF ClosedGroups
    <3>2. k <= j
      BY <1>2, <2>1, <3>1
    <3>3. i <= i
      BY <1>2
    <3> QED
      BY <2>1, <3>1, <3>2, <3>3
  <2> DEFINE buffer == decoder.buffer \cup (IF shown THEN {Pts(i)} ELSE {})
  <2>3. /\ decoder'.buffer = buffer /\ decoder'.synced
        /\ decoder'.intact = {p \in decoder.intact \cup {Pts(i)} : p \in buffer \/ NeededAfter(i, p)}
    BY <1>1, <1>4, <2>2 DEF Decode
  <2>4. decoder.buffer \subseteq decoder.intact
    BY DEF DecoderSound
  <2>5. decoder'.buffer \subseteq decoder'.intact
    BY <2>3, <2>4
  <2>6. ASSUME NEW j \in Packets, NEW n \in Packets, k <= j, j < i + 1, i + 1 <= n, Pts(j) \in Stream[n].refs
        PROVE  Pts(j) \in decoder'.intact
    <3>1. n > i /\ i <= n /\ (j < i \/ j = i)
      BY <1>2, <2>6
    <3>2. NeededAfter(i, Pts(j))
      BY <2>6, <3>1 DEF NeededAfter
    <3>3. Pts(j) \in decoder.intact \cup {Pts(i)}
      BY <2>1, <2>6, <3>1
    <3> QED
      BY <2>3, <3>2, <3>3
  <2>7. k < i + 1 /\ (IsKey(k)' <=> IsKey(k)) /\ \A j \in Packets : Pts(j)' = Pts(j)
    BY <1>2, <2>1 DEF IsKey, Pts
  <2>8. ASSUME NEW j \in Packets', NEW n \in Packets', k <= j, j < Unfed', Unfed' <= n, Pts(j)' \in (Stream[n].refs)'
        PROVE  Pts(j)' \in decoder'.intact
    BY <1>2, <2>6, <2>7, <2>8
  <2>9. k \in Packets' /\ IsKey(k)' /\ k < Unfed'
    BY <1>2, <2>1, <2>7
  <2> HIDE DEF buffer
  <2> QED
    BY <2>5, <2>8, <2>9 DEF DecoderSound
<1> QED
  BY <1>3, <1>4

LEMMA ReceiveSound ==
  ASSUME TypeInv, Undisturbed, Exact, DecoderSound, Emits, Receive(FALSE)
  PROVE  DecoderSound' /\ NewFrame.intact
<1>1. decoder.synced /\ Emitted \in decoder.buffer
  BY NextToCome
<1>2. Emitted \in decoder.intact
  BY <1>1 DEF DecoderSound
<1>3. decoder \in DecoderRecords
  BY DEF TypeInv, Shapes, Decoders
<1>4. /\ decoder'.buffer = decoder.buffer \ {Emitted} /\ decoder'.intact = decoder.intact
      /\ decoder'.synced = decoder.synced
  BY <1>3 DEF Receive, Drop, DecoderRecords
<1>5. Unfed' = Unfed /\ Stream' = Stream /\ Packets' = Packets
  BY AheadStays, SameStream DEF Receive
<1>6. DecoderSound'
  BY <1>4, <1>5 DEF DecoderSound, IsKey, Pts
<1>7. NewFrame.intact
  BY <1>2 DEF NewFrame
<1> QED
  BY <1>6, <1>7

LEMMA DecoderSoundStep ==
  ASSUME TypeInv, Undisturbed, ClosedGroups, Exact, DecoderSound, Next
  PROVE  DecoderSound'
<1>1. /\ Shapes /\ Calm /\ InOrder /\ Faults = {} /\ ctl.pc \notin {"recover", "arm", "feedKey", "verify"}
      /\ ctl.pc = "select" => Feed(mode.skipBefore)
      /\ source'.setting = source.setting
  BY StepTypes DEF Exact, Selecting, Calm, TypeInv, Undisturbed, Reshapes
<1>2. ~EmptyDecoder.synced
  BY DEF EmptyDecoder
<1>3. ~decoder'.synced => DecoderSound'
  BY DEF DecoderSound
<1>4. CASE Starts
  <2>1. UNCHANGED <<decoder, source, reader>>
    BY <1>1, <1>4 DEF Starts, Accept, Recover, AnswerFromHeld, AnswerAtTail, Promote, Continue, Reposition, At
  <2> QED
    BY <2>1, DecoderSoundStays
<1>5. CASE Moves
  <2>1. ~PositionUnseekable /\ ~SeekFails /\ ~ByteSeekFails
    BY <1>1 DEF PositionUnseekable, SeekFails, ByteSeekFails, Calm
  <2>2. UNCHANGED <<decoder, source, reader>> \/ decoder' = EmptyDecoder
    BY <1>5, <2>1 DEF Moves, Position, BackOff, SeekToStart, Seek, ByteSeek, AfterSeek
  <2> QED
    BY <1>2, <1>3, <2>2, DecoderSoundStays
<1>6. CASE Lands
  <2>1. decoder' = decoder /\ ctl.pc \in {"landing", "landed"}
    BY <1>6 DEF Lands, LandOnAnything, LandOnNonKey, LandPastTarget, LandOnKey, LandAtEnd, LandingUnchanged,
       SettleOnParked, SettleOnReplay, SettleByRewinding, AfterLanding, At
  <2>2. decoder = EmptyDecoder
    BY <2>1 DEF Exact, Scanning, Fresh
  <2> QED
    BY <1>2, <1>3, <2>1, <2>2
<1>7. CASE Selects
  <2>1. ~AnswerFirstFrame /\ ~FetchKeyframe /\ ~FeedKeyframeAndDrain /\ ~DemuxError /\ ~StashCorrupt
        /\ ~PlaceInKeyframeMode
    BY <1>1 DEF AnswerFirstFrame, FetchKeyframe, FeedKeyframeAndDrain, FeedingKey, At, DemuxError, StashCorrupt,
       PlaceInKeyframeMode, Calm
  <2>2. CASE FeedHeldPacket
    <3>1. /\ ctl.pc = "select" /\ reader.packet # 0 /\ reader' = [reader EXCEPT !.packet = 0] /\ source' = source
      BY <2>2 DEF FeedHeldPacket, NeedsInput, At
    <3>2. Send(reader.packet)
      BY <1>1, <2>2 DEF FeedHeldPacket, Reject, FailDecode
    <3>3. reader.packet \in Packets /\ Unfed = reader.packet
      BY <1>1, <3>1, Feedstock
    <3>4. reader'.packet = 0 /\ reader'.replay = reader.replay
      BY <1>1, <3>1, ReaderParts DEF ReaderRecords
    <3>5. Unfed' = reader.packet + 1
      BY <1>1, <3>1, <3>4 DEF InOrder, Unfed, Next1
    <3>6. decoder.synced \/ decoder.buffer = {}
      BY <1>1, <3>1 DEF Feed, NotSynced
    <3> QED
      BY <1>1, <3>2, <3>3, <3>5, <3>6, FeedSound
  <2>3. CASE FeedNextPacket
    <3>1. ctl.pc = "select" /\ reader.packet = 0 /\ HasPacket /\ Read(FALSE)
      BY <2>3 DEF FeedNextPacket, NeedsInput, At
    <3>2. Send(Next1)
      BY <1>1, <2>3 DEF FeedNextPacket, Reject, FailDecode
    <3>3. Next1 \in Packets /\ Unfed = Next1
      BY <1>1, <3>1, Feedstock
    <3>4. Unfed' = Next1 + 1
      BY <1>1, <3>1, <3>3, ReadAdvances
    <3>5. decoder.synced \/ decoder.buffer = {}
      BY <1>1, <3>1 DEF Feed, NotSynced
    <3> QED
      BY <1>1, <3>2, <3>3, <3>4, <3>5, FeedSound
  <2>4. CASE SkipToKeyframe
    <3>1. ctl.pc = "select" /\ position.awaitingKey /\ decoder' = decoder
      BY <2>4 DEF SkipToKeyframe, NeedsInput, At, MidGop
    <3>2. ~decoder.synced
      BY <1>1, <3>1 DEF Feed
    <3> QED
      BY <1>3, <3>1, <3>2
  <2>5. CASE StartDrain \/ BackOffFromTail \/ EndOfStream
    <3>1. UNCHANGED <<decoder, source, reader>>
      BY <2>5 DEF StartDrain, BackOffFromTail, EndOfStream
    <3> QED
      BY <3>1, DecoderSoundStays
  <2>6. CASE PlaceInExactMode \/ LookAhead \/ BackOffFromOvershoot \/ AnswerOvershoot
    <3>1. Emits /\ Receive(FALSE)
      BY <2>6 DEF PlaceInExactMode, LookAhead, BackOffFromOvershoot, AnswerOvershoot, Overshoots
    <3> QED
      BY <3>1, ReceiveSound
  <2>7. CASE RetryAfterEmptyEof
    BY <1>2, <1>3, <2>7 DEF RetryAfterEmptyEof
  <2> QED
    BY <1>7, <2>1, <2>2, <2>3, <2>4, <2>5, <2>6, <2>7 DEF Selects
<1>8. CASE Ends
  <2>1. UNCHANGED <<decoder, source, reader>>
    BY <1>1, <1>8 DEF Ends, GiveAnswer, VerifyTail, VerifyPacket, VerifyEnd, At
  <2> QED
    BY <2>1, DecoderSoundStays
<1>9. CASE Cancels
  BY <1>9, NothingIsCancelled
<1>10. CASE NoGenerator
  BY <1>10, DecoderSoundStays DEF NoGenerator, vars
<1> QED
  BY <1>4, <1>5, <1>6, <1>7, <1>8, <1>9, <1>10 DEF Next

\* What is kept, chosen and told is kept.
LEMMA FramesSoundStep ==
  ASSUME TypeInv, Undisturbed, Exact, DecoderSound, FramesSound, Next
  PROVE  FramesSound'
<1>1. /\ Calm /\ Faults = {} /\ ctl.pc \notin {"recover", "arm", "feedKey", "verify"}
      /\ slots \in Slots /\ ctl \in Controls /\ ctl.pc \in Places
      /\ ctl.pc = "select" => Selecting
  BY DEF Exact, Calm, TypeInv, Shapes, Undisturbed, Controls
<1>2. ~IsValid(NoFrame) /\ ~IsValid(EmptySlots.held) /\ ~IsValid(EmptySlots.pending)
  BY DEF EmptySlots, NoFrame, IsValid
<1>3. ASSUME slots' = slots \/ slots' = EmptySlots, ctl'.pc \notin {"answer", "idle"} PROVE FramesSound'
  BY <1>2, <1>3 DEF FramesSound, IsValid
<1>4. ASSUME UNCHANGED <<slots, ctl, reply>> PROVE FramesSound'
  BY <1>4 DEF FramesSound, IsValid
<1>5. ASSUME NEW frame, NEW adjustment, Select(frame, adjustment), frame.intact,
             IsValid(slots'.held) => slots'.held.intact, IsValid(slots'.pending) => slots'.pending.intact
      PROVE  FramesSound'
  <2>1. ctl'.pc = "answer" /\ ctl'.frame = frame
    BY <1>1, <1>5 DEF Select, Controls
  <2> QED
    BY <1>5, <2>1 DEF FramesSound, IsValid
<1>6. ASSUME NEW status, Fail(status), status # "ok", slots' = slots PROVE FramesSound'
  <2>1. ctl'.pc = "idle" /\ reply'.status = status
    BY <1>6 DEF Fail, EndRequest, Idle
  <2> QED
    BY <1>6, <2>1 DEF FramesSound, IsValid
<1>7. ASSUME NEW frame, FinishWith(frame), frame.intact, slots' = slots PROVE FramesSound'
  <2>1. (\E adjustment : Select(frame, adjustment)) \/ Fail("timeOutOfRange")
    BY <1>7 DEF FinishWith
  <2> QED
    BY <1>5, <1>6, <1>7, <2>1 DEF FramesSound
<1>8. CASE Starts
  <2>1. CASE Accept
    <3>1. slots' = slots /\ ctl'.pc = "start"
      BY <1>1, <2>1 DEF Accept, Calm, Idle
    <3> QED
      BY <1>3, <3>1
  <2>2. CASE AnswerFromHeld
    <3>1. IsValid(slots.held) /\ slots' = slots /\ Select(slots.held, window.adjustment)
      BY <2>2 DEF AnswerFromHeld, CanAnswerFromHeld, IsHeldCovering
    <3> QED
      BY <1>5, <3>1 DEF FramesSound
  <2>3. CASE AnswerAtTail
    <3>1. IsValid(slots.held) /\ slots' = slots /\ FinishWith(slots.held)
      BY <2>3 DEF AnswerAtTail, CanAnswerAtTail, IsHeldCovering, FinishAtEof
    <3> QED
      BY <1>7, <3>1 DEF FramesSound
  <2>4. CASE Promote
    <3>1. IsValid(slots.pending) /\ slots' = Promoted /\ Go("select")
      BY <2>4 DEF Promote, CanPromotePending
    <3>2. ctl'.pc = "select" /\ slots'.held = slots.pending /\ slots'.pending = NoFrame
      BY <1>1, <3>1 DEF Go, Controls, Promoted, Slots
    <3> QED
      BY <1>2, <3>1, <3>2 DEF FramesSound, IsValid
  <2>5. CASE Continue \/ Reposition
    <3>1. slots' = slots /\ ctl'.pc \in {"select", "position"}
      BY <1>1, <2>5 DEF Continue, Reposition, Go, Controls
    <3> QED
      BY <1>3, <3>1
  <2> QED
    BY <1>1, <1>8, <2>1, <2>2, <2>3, <2>4, <2>5 DEF Starts, Recover, At
<1>9. CASE Moves
  <2>1. ~PositionUnseekable /\ ~SeekFails /\ ~ByteSeekFails
    BY <1>1 DEF PositionUnseekable, SeekFails, ByteSeekFails, Calm
  <2>2. CASE Position
    <3>1. slots' = slots /\ ctl'.pc \in {"arm", "select", "byteSeek", "seek"}
      BY <1>1, <2>2 DEF Position, Go, Positioned, Controls
    <3> QED
      BY <1>3, <3>1
  <2>3. CASE BackOff
    <3>1. slots' = slots /\ ctl'.pc = "seek"
      BY <1>1, <2>3 DEF BackOff, SeekThen, Controls
    <3> QED
      BY <1>3, <3>1
  <2>4. CASE SeekToStart \/ Seek \/ ByteSeek
    <3>1. slots' = EmptySlots
      BY <2>4 DEF SeekToStart, Seek, ByteSeek, AfterSeek, Forget, ResetPosition
    <3>2. ctl'.pc \in {"landing", "select", "arm"}
      BY <1>1, <2>4 DEF SeekToStart, Seek, ByteSeek, AfterMove, BeginLanding, Go, Positioned, Controls
    <3> QED
      BY <1>3, <3>1, <3>2
  <2> QED
    BY <1>9, <2>1, <2>2, <2>3, <2>4 DEF Moves
<1>10. CASE Lands
  <2>1. slots' = slots
    BY <1>10 DEF Lands, LandOnAnything, LandOnNonKey, LandPastTarget, LandOnKey, LandAtEnd, LandingUnchanged,
       SettleOnParked, SettleOnReplay, SettleByRewinding, AfterLanding
  <2>2. CASE LandOnAnything \/ LandOnNonKey \/ LandPastTarget \/ LandOnKey \/ LandAtEnd
    <3>1. ctl.pc = "landing" /\ (Go("landed") \/ ctl' = ctl)
      BY <2>2 DEF LandOnAnything, LandOnNonKey, LandPastTarget, LandOnKey, LandAtEnd, Landed, At
    <3>2. ctl'.pc \in {"landing", "landed"}
      BY <1>1, <3>1 DEF Go, Controls
    <3> QED
      BY <1>3, <2>1, <3>2
  <2>3. CASE SettleOnParked \/ SettleOnReplay \/ SettleByRewinding
    <3>1. ctl'.pc \in {"landed", "seek", "byteSeek"}
      BY <1>1, <2>3 DEF SettleOnParked, SettleOnReplay, SettleByRewinding, At, Controls
    <3> QED
      BY <1>3, <2>1, <3>1
  <2>4. CASE AfterLanding
    <3>1. ctl'.pc \in {"feedKey", "select", "arm", "seek", "backOff"}
      BY <1>1, <2>4 DEF AfterLanding, Go, Positioned, SeekThen, RetryAfterOvershoot, Retreat, Controls
    <3> QED
      BY <1>3, <2>1, <3>1
  <2> QED
    BY <1>10, <2>2, <2>3, <2>4 DEF Lands
<1>11. CASE Selects
  <2>1. ~AnswerFirstFrame /\ ~FetchKeyframe /\ ~FeedKeyframeAndDrain /\ ~DemuxError /\ ~StashCorrupt
        /\ ~PlaceInKeyframeMode
    BY <1>1 DEF AnswerFirstFrame, FetchKeyframe, FeedKeyframeAndDrain, FeedingKey, At, DemuxError, StashCorrupt,
       PlaceInKeyframeMode, Calm
  <2>2. CASE FeedHeldPacket \/ FeedNextPacket \/ SkipToKeyframe \/ StartDrain
    <3>1. UNCHANGED <<slots, ctl, reply>>
      BY <1>1, <2>2 DEF FeedHeldPacket, FeedNextPacket, SkipToKeyframe, StartDrain, Send, Reject, FailDecode
    <3> QED
      BY <1>4, <3>1
  <2>3. CASE PlaceInExactMode
    <3>1. Emits /\ Receive(FALSE) /\ Hold(NewFrame) /\ UNCHANGED reply /\ ctl.pc = "select"
          /\ (Select(NewFrame, "none") \/ UNCHANGED ctl)
      BY <2>3 DEF PlaceInExactMode, Receive, Emits, At
    <3>2. NewFrame.intact
      BY <3>1, ReceiveSound
    <3>3. slots'.held = NewFrame /\ slots'.pending = NoFrame
      BY <1>1, <3>1 DEF Hold, Slots
    <3>4. ~IsValid(slots'.pending)
      BY <1>2, <3>3 DEF IsValid
    <3>5. CASE UNCHANGED ctl
      BY <3>1, <3>2, <3>3, <3>4, <3>5 DEF FramesSound
    <3> QED
      BY <1>5, <3>1, <3>2, <3>3, <3>4, <3>5
  <2>4. CASE LookAhead
    <3>1. Emits /\ Receive(FALSE) /\ Pend(NewFrame) /\ Select(slots.held, "none") /\ IsValid(slots.held)
      BY <2>4 DEF LookAhead
    <3>2. NewFrame.intact
      BY <3>1, ReceiveSound
    <3>3. slots'.held = slots.held /\ slots'.pending = NewFrame /\ slots.held.intact
      BY <1>1, <3>1 DEF Pend, Slots, FramesSound
    <3> QED
      BY <1>5, <3>1, <3>2, <3>3
  <2>5. CASE BackOffFromOvershoot \/ BackOffFromTail
    <3>1. slots' = slots /\ ctl'.pc = "backOff"
      BY <1>1, <2>5 DEF BackOffFromOvershoot, BackOffFromTail, Controls
    <3> QED
      BY <1>3, <3>1
  <2>6. CASE AnswerOvershoot
    <3>1. Emits /\ Receive(FALSE) /\ Hold(NewFrame) /\ \E adjustment : Select(NewFrame, adjustment)
      BY <2>6 DEF AnswerOvershoot, Overshoots
    <3>2. NewFrame.intact
      BY <3>1, ReceiveSound
    <3>3. slots'.held = NewFrame /\ slots'.pending = NoFrame
      BY <1>1, <3>1 DEF Hold, Slots
    <3>4. ~IsValid(slots'.pending)
      BY <1>2, <3>3 DEF IsValid
    <3> QED
      BY <1>5, <3>1, <3>2, <3>3, <3>4
  <2>7. CASE EndOfStream
    <3>1. AtEndOfStream /\ ~LandedInTail /\ FinishAtEof
      BY <2>7 DEF EndOfStream
    <3>2. IsValid(slots.held)
      BY <3>1, NeverEmpty
    <3>3. FinishWith(slots.held) /\ slots' = slots
      BY <3>1, <3>2 DEF FinishAtEof
    <3> QED
      BY <1>7, <3>2, <3>3 DEF FramesSound
  <2>8. CASE RetryAfterEmptyEof
    <3>1. slots' = EmptySlots /\ ctl'.pc = "position"
      BY <1>1, <2>8 DEF RetryAfterEmptyEof, ResetPosition, Controls
    <3> QED
      BY <1>3, <3>1
  <2> QED
    BY <1>11, <2>1, <2>2, <2>3, <2>4, <2>5, <2>6, <2>7, <2>8 DEF Selects
<1>12. CASE Ends
  <2>1. ~window.keyMode
    BY <1>1 DEF Calm, Undisturbed, Probe
  <2>2. GiveAnswer
    BY <1>1, <1>12, <2>1 DEF Ends, VerifyTail, VerifyPacket, VerifyEnd, TailInDoubt, At
  <2>3. slots' = slots /\ ctl.pc = "answer" /\ ctl' = Idle /\ reply'.frame = ctl.frame
    BY <2>2 DEF GiveAnswer, Answer, EndRequest, At
  <2> QED
    BY <2>3 DEF FramesSound, Idle, IsValid
<1>13. CASE Cancels
  BY <1>13, NothingIsCancelled
<1>14. CASE NoGenerator
  BY <1>4, <1>14 DEF NoGenerator, vars
<1> QED
  BY <1>8, <1>9, <1>10, <1>11, <1>12, <1>13, <1>14 DEF Next

\* A frame is never answered with that was decoded from a picture the decoder
\* does not have, where groups are closed: nothing a seek, a skip or a replayed
\* group leaves out is ever missed.
THEOREM PipelineDecodesFromWhatItHas == Spec => [](Undisturbed /\ ClosedGroups => NoSilentDamage)
<1> DEFINE Sound == Undisturbed /\ ClosedGroups => DecoderSound /\ FramesSound
<1>1. Init => Sound
  BY DEF Init, EmptyDecoder, EmptySlots, NoFrame, IsValid, Idle, DecoderSound, FramesSound
<1>2. TypeInv /\ (Undisturbed => Exact) /\ Sound /\ [Next]_vars => Sound'
  <2> SUFFICES ASSUME TypeInv, Undisturbed => Exact, Sound, [Next]_vars, Undisturbed', ClosedGroups'
               PROVE  DecoderSound' /\ FramesSound'
    OBVIOUS
  <2>1. source'.setting = source.setting
    BY StepTypes DEF Reshapes, vars
  <2>2. Undisturbed /\ ClosedGroups /\ Exact /\ DecoderSound /\ FramesSound
    BY <2>1, SameSetting, SameGroups
  <2>3. CASE Next
    BY <2>2, <2>3, DecoderSoundStep, FramesSoundStep
  <2>4. CASE UNCHANGED vars
    BY <2>2, <2>4, DecoderSoundStays DEF vars, FramesSound, IsValid
  <2> QED
    BY <2>3, <2>4
<1>3. Undisturbed /\ Sound => (ClosedGroups => NoSilentDamage)
  BY DEF FramesSound, NoSilentDamage, Answered, At
<1> HIDE DEF Sound
<1> QED
  BY <1>1, <1>2, <1>3, StaysExact, PTL DEF Spec

==============================================================================
