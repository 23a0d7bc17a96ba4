----------------------------- MODULE MCPipeline -----------------------------
EXTENDS FramePipelineProperties

Packet(pts, dts, key, refs) == [pts |-> pts, dts |-> dts, key |-> key, refs |-> refs]

\* Closed groups of three pictures, I P b, two ticks a frame.
Gop(n) == LET t == 6 * n IN
  <<Packet(t, t - 2, TRUE, {}), Packet(t + 4, t, FALSE, {t}), Packet(t + 2, t + 2, FALSE, {t, t + 4})>>

Stream2 == Gop(0) \o Gop(1)
Stream3 == Gop(0) \o Gop(1) \o Gop(2)

\* A group of one picture between two of three.
StreamShort == Gop(0) \o <<Packet(6, 4, TRUE, {})>> \o
  <<Packet(8, 6, TRUE, {}), Packet(12, 8, FALSE, {8}), Packet(10, 10, FALSE, {8, 12})>>

\* No reordering: I P P, each picture from the one before.
Plain(n) == LET t == 6 * n IN
  <<Packet(t, t, TRUE, {}), Packet(t + 2, t + 2, FALSE, {t}), Packet(t + 4, t + 4, FALSE, {t + 2})>>
StreamPlain == Plain(0) \o Plain(1)

Exactly(t, before, after) ==
  [target |-> t, start |-> t - before, end |-> t + after, adjustment |-> "none", keyMode |-> FALSE]
Nearest(t) ==
  [target |-> t, start |-> -Forever, end |-> t, adjustment |-> "none", keyMode |-> TRUE]

Setting(stream, container, requests) ==
  [stream |-> stream, container |-> container, requests |-> requests,
   keyFlags |-> TRUE, first |-> 0, clamps |-> FALSE, depth |-> 1, faults |-> {}]

\* On, between and past the frames of Stream3, and a tolerance that reaches both ways.
Requests3 == {Exactly(t, 0, 0) : t \in {0, 3, 4, 7, 11, 14, 17, 18}} \cup {Exactly(8, 3, 3)}
             \cup {Nearest(t) : t \in {1, 8, 17}}
RequestsExact == {Exactly(t, 0, 0) : t \in {0, 3, 4, 9, 11, 12}} \cup {Exactly(5, 3, 3)}

\* Against StreamShort.  No exact answer of RequestsApart is an undrained key
\* frame that a nearest-keyframe request then verifies the tail of.
RequestsApart == {Exactly(t, 0, 0) : t \in {3, 7, 11, 14}} \cup {Exactly(10, 1, 1)} \cup {Nearest(t) : t \in {5, 7, 13}}
RequestsShort == {Exactly(t, 0, 0) : t \in {3, 7, 11, 14}} \cup {Exactly(9, 3, 3)} \cup {Nearest(t) : t \in {5, 7, 13}}
RequestsCut == {Exactly(3, 0, 0), Nearest(7), Nearest(13)}
Requests2 == {Exactly(t, 0, 0) : t \in {0, 3, 9}} \cup {Nearest(t) : t \in {1, 8}}
RequestsFew == {Exactly(9, 0, 0), Nearest(8)}

With(faults, setting) == [setting EXCEPT !.faults = faults]

\* An index, none, a pipe, an edit list with clamping, a demuxer whose key flags
\* mean nothing, and seeks that fail.
Settled == {
  Setting(Stream3, "indexed", Requests3),
  Setting(StreamShort, "scanned", RequestsApart),
  Setting(Stream3, "pipe", Requests3),
  [Setting(Stream3, "indexed", Requests3) EXCEPT !.first = 2, !.clamps = TRUE],
  [Setting(Stream2, "indexed", RequestsExact) EXCEPT !.keyFlags = FALSE],
  With({"seek"}, Setting(Stream3, "indexed", Requests3))}

Cut == {With({"cancel"}, Setting(StreamShort, "scanned", RequestsCut)),
        With({"cancel", "sticky", "seek"}, Setting(Stream2, "scanned", RequestsFew)),
        With({"cancel", "short"}, Setting(Stream2, "scanned", RequestsFew))}
CutShort == {With({"cancel", "short"}, Setting(Stream3, "scanned", {Nearest(7), Nearest(13)}))}
Damaged == {[With({"lost", "rejected", "undecodable", "corrupt"}, Setting(StreamPlain, "pipe", Requests2))
              EXCEPT !.depth = 0]}
SettledOrDamaged == Settled \cup Damaged

FullIndex == {Setting(StreamShort, "scanned", {Exactly(0, 0, 0), Exactly(7, 0, 0), Nearest(7)})}

StaleLanding == {With({"cancel"}, Setting(Stream2, "scanned", Requests2))}
LostTail == {Setting(StreamShort, "scanned", RequestsShort)}
GivenUp == {With({"seek"}, Setting(Stream3, "scanned", Requests3))}
Tainted == {With({"rejected"}, Setting(Stream2, "indexed", Requests2))}
ScanDamaged == {With({"lost"}, Setting(StreamPlain, "indexed", Requests2))}
Stranded == {With({"corrupt"}, Setting(Stream2, "indexed", Requests2))}

\* A demuxer whose key flags mean nothing, asked both ways.
Unflagged == {[Setting(Stream2, "indexed", {Nearest(3), Exactly(2, 0, 0)}) EXCEPT !.keyFlags = FALSE]}

\* A pipe with a picture shown for much longer than the ones before it.
StreamGap == <<Packet(0, 0, TRUE, {}), Packet(2, 2, FALSE, {0}), Packet(4, 4, FALSE, {2}),
               Packet(20, 20, FALSE, {4}), Packet(22, 22, FALSE, {20})>>
Gapped == {[Setting(StreamGap, "pipe", {Exactly(3, 0, 0), Exactly(15, 0, 0)}) EXCEPT !.depth = 0]}

\* The first key frame is preceded on screen by a picture decoded after it.
StreamLeading == <<Packet(2, 0, TRUE, {}), Packet(0, 2, FALSE, {2}), Packet(4, 4, FALSE, {2})>> \o Gop(1)
Leading == {Setting(StreamLeading, "indexed", {Exactly(0, 0, 0), Exactly(9, 0, 0)})}

\* A time stamp below all others.
Min1000 == -1000
=============================================================================
