--------------------------- MODULE FramePipeline ---------------------------
(* How one request finds its frame: detail/FramePipeline.h (extract,        *)
(* positioning as an action), FrameSelector.h, PacketReader.h, Positioner.h, *)
(* DecodeFrontier.h and FrameSlot.h.  One thread runs it; a step is a        *)
(* packet read, a frame received, a seek, or the decision between two of     *)
(* them.  The state that outlives a request is what makes it hard.           *)
(*                                                                           *)
(* External, modelled from how the code uses them: the demuxer (a seek is a  *)
(* hint and lands on any packet), the decoder (keeps back Depth pictures     *)
(* and emits them in presentation order), cancellation (any check may see    *)
(* it), and the clock of the cost model (either outcome).                    *)
EXTENDS KeyframeIndex, Sequences

CONSTANTS
  Settings,          \* the files, options and environments to open a pipeline in
  FrameDuration, OneSecond,  \* ticks
  MaxErrors, MaxBackoffs, MaxRounds, MaxHoles, MaxGopPackets, MaxSeekFailures

(* A setting is a record:                                                   *)
(*   stream     packets in decode order: [pts, dts, key, refs]              *)
(*   container  "indexed" (mov), "scanned" (MPEG-TS) or "pipe"              *)
(*   keyFlags   the demuxer flags key-frame packets                         *)
(*   first      first presented frame; an edit list trims earlier ones      *)
(*   clamps     OutOfRangePolicy::clampToLastFrame                          *)
(*   requests   the windows requests may resolve to                         *)
(*   depth      pictures the decoder keeps back                             *)
(*   faults     which failures the environment may inject                   *)
Kinds == {"cancel", "sticky", "short", "lost", "rejected", "undecodable", "corrupt", "seek"}

ASSUME PipelineAssumption ==
  /\ FrameDuration \in Nat \ {0} /\ OneSecond \in Nat \ {0}
  /\ \A s \in Settings :
       /\ s.container \in {"indexed", "scanned", "pipe"} /\ s.first \in Int /\ s.depth \in Nat
       /\ {s.keyFlags, s.clamps} \subseteq BOOLEAN /\ s.faults \subseteq Kinds
  /\ {MaxErrors, MaxBackoffs, MaxRounds, MaxHoles, MaxGopPackets, MaxSeekFailures} \subseteq Nat \ {0}

Adjustments == {"none", "clampedToFirst", "clampedToLast", "keyframeBeforeEdit"}

\* Every packet has its own presentation time, and no time is one of the two
\* sentinels.
ASSUME StreamAssumption ==
  \A s \in Settings :
    /\ s.stream \in Seq([pts : (NoPts + 1)..(Forever - 1), dts : Int, key : BOOLEAN, refs : SUBSET Int])
    /\ \A i, j \in DOMAIN s.stream : s.stream[i].pts = s.stream[j].pts => i = j
    /\ s.requests \subseteq [target : Int, start : Int, end : Int, adjustment : Adjustments, keyMode : BOOLEAN]

VARIABLES
  source,    \* the setting; demuxer and its I/O: next packet, sticky end, failed seeks
  decoder,   \* pictures inside it, and which of them decode from intact references
  position,  \* where the demuxer was put (Positioner.h, class Position)
  frontier,  \* where the decoder is (DecodeFrontier.h)
  slots,     \* held, pending and corruptLast (FrameSlot.h)
  mode,      \* the selector's own members
  reader,    \* the packet reader's
  keys,      \* the recorded key-frame index
  ladder,    \* the back-off ladder
  window,    \* the request in progress, or the last one
  ctl,       \* the program counter and what the step is for
  landing,   \* readLanding()'s locals
  reply      \* what the last request returned

vars == <<source, decoder, position, frontier, slots, mode, reader, keys, ladder,
          window, ctl, landing, reply>>

-----------------------------------------------------------------------------
(* The stream.                                                             *)

Stream == source.setting.stream
Container == source.setting.container
KeyFlagsReliable == source.setting.keyFlags
FirstFrameTs == source.setting.first
Clamps == source.setting.clamps
Requests == source.setting.requests
Depth == source.setting.depth
Faults == source.setting.faults

Packets == DOMAIN Stream
Pts(i) == Stream[i].pts
IsKey(i) == Stream[i].key
Times == {Pts(i) : i \in Packets}
PacketAt(pts) == CHOOSE i \in Packets : Pts(i) = pts
StartPts == FirstFrameTs
Seekable == source.seekable
IoSeekable == Container # "pipe"
Trusted == Container = "indexed"
FrameTicks(n) == n * FrameDuration

\* libavformat's own index on a trusted container: every sample, in dts order.
IndexKeyBefore(ix, target) ==
  LET shifted == target - ReorderTicks(ix)
      at == {i \in Packets : Stream[i].dts <= shifted}
      last == Max(at)
      keysAt == {i \in at : IsKey(i)}
  IN IF \/ at = {} \/ keysAt = {}
        \/ last = Len(Stream) /\ shifted > Stream[last].dts + Max({FrameTicks(2), 1})
     THEN 0 ELSE Max(keysAt)

\* The presentation time the index gives for its entry i.
IndexPts(ix, i) == Stream[i].dts + ReorderTicks(ix)

HasKeyBetween(ix, pts, target) ==
  /\ Trusted /\ IndexKeyBefore(ix, target) # 0
  /\ pts < IndexPts(ix, IndexKeyBefore(ix, target)) /\ IndexPts(ix, IndexKeyBefore(ix, target)) <= target

DoesKeyCover(pts, target) ==
  /\ pts <= target
  /\ IF Trusted THEN LET i == IndexKeyBefore(keys, target) IN i # 0 /\ IndexPts(keys, i) = pts
     ELSE FindCoveringKey(keys, target) = pts

NotePacket(i) ==
  IF ~IsKey(i) THEN keys
  ELSE LET learned == LearnReorder(keys, Pts(i) - Stream[i].dts)
       IN IF Trusted THEN learned ELSE RecordKey(learned, Pts(i))

-----------------------------------------------------------------------------
(* The frames and what is known of them.                                   *)

NoFrame == [pts |-> NoPts, key |-> FALSE, concealed |-> FALSE, intact |-> FALSE]
IsValid(frame) == frame.pts # NoPts
EmptySlots == [held |-> NoFrame, pending |-> NoFrame, corruptLast |-> NoFrame]
FrameEnd(frame) == frame.pts + FrameDuration

NoFrontier == [fedDts |-> NoPts, fedPts |-> NoPts, received |-> NoPts, lastKey |-> NoPts,
               lastEnd |-> NoPts, count |-> 0, eof |-> FALSE, draining |-> FALSE,
               drained |-> FALSE, landingKnown |-> FALSE, tainted |-> FALSE, holes |-> {}]

\* SkippedFrames::record: at the bound everything is forgotten.
RecordHole(holes, pts) ==
  IF pts \in holes THEN holes
  ELSE IF Cardinality(holes) >= MaxHoles THEN {} ELSE holes \cup {pts}

HasHole(after, upTo) == \E h \in frontier.holes : after < h /\ h <= upTo

EmptyDecoder == [buffer |-> {}, intact |-> {}, synced |-> FALSE]

\* A reference some packet after i still needs.
NeededAfter(i, pts) == \E j \in Packets : j > i /\ pts \in Stream[j].refs

NoLanding == [target |-> NoPts, horizon |-> NoPts, scanning |-> FALSE, start |-> NoPts, first |-> 0,
              best |-> 0, buffering |-> FALSE, buffer |-> <<>>, found |-> FALSE, done |-> FALSE]

HasSkipWindow == mode.skipBefore # NoPts

-----------------------------------------------------------------------------
(* Moving on, and ending a request.                                        *)

\* A step at pc; once the token was set under a read, the decode loop and every
\* seek see it before they do anything.
At(pc) == ctl.pc = pc /\ (ctl.cut => pc \notin {"select", "seek", "byteSeek"})
Go(pc) == ctl' = [ctl EXCEPT !.pc = pc]

\* The answer the selector chose; extract() still has to look at it.
Select(frame, adjustment) ==
  ctl' = [ctl EXCEPT !.pc = "answer", !.frame = frame, !.adjustment = adjustment]

Idle == [pc |-> "idle", purpose |-> "select", retrying |-> FALSE, forwardWins |-> FALSE, cut |-> FALSE, aim |-> 0,
         round |-> 0, observed |-> NoPts, frame |-> NoFrame, adjustment |-> "none"]

NoReply == [status |-> "none", frame |-> NoFrame, adjustment |-> "none"]

EndRequest(status, frame, adjustment) ==
  /\ ctl' = Idle
  /\ reply' = [status |-> status, frame |-> frame, adjustment |-> adjustment]

Fail(status) == EndRequest(status, NoFrame, "none")

Answer(frame, adjustment) ==
  EndRequest("ok", frame, IF adjustment = "none" THEN window.adjustment ELSE adjustment)

\* What extract() does with a selection that failed: a skip window leaves gaps
\* only this request knows of, so the next one repositions.
Abandoned(p) == IF HasSkipWindow /\ Seekable THEN [p EXCEPT !.positioned = FALSE] ELSE p

FailSelection(status) == Fail(status) /\ position' = Abandoned(position)

-----------------------------------------------------------------------------
(* Positioning as an action.                                               *)

\* FramePipeline::resetPosition: everything concluded since the last reposition;
\* f, m and verified are what the caller leaves of the three records.
ResetPosition(f, m, verified) ==
  /\ slots' = EmptySlots /\ frontier' = f
  /\ mode' = [m EXCEPT !.errors = 0]
  /\ keys' = ResetContiguity(keys)
  /\ reader' = [reader EXCEPT !.packet = 0, !.replay = <<>>, !.errors = 0, !.verifiedTo = verified]

Forget == ResetPosition(NoFrontier, mode, reader.verifiedTo)

\* mutant: a landing is still taken for the start of the stream
AfterSeekStillAtStart(target, atStart) ==
  /\ Forget /\ decoder' = EmptyDecoder
  /\ position' = [position EXCEPT !.positioned = TRUE, !.awaitingKey = TRUE, !.seekTarget = target]

AfterSeek(target, atStart) ==
  /\ Forget /\ decoder' = EmptyDecoder
  /\ position' = [positioned |-> TRUE, atStart |-> atStart, awaitingKey |-> TRUE, seekTarget |-> target]

\* The source from scratch, and a decoder on top of it.
Reopen(failures) ==
  /\ ResetPosition(NoFrontier, [mode EXCEPT !.tailEnd = NoPts], NoPts)
  /\ decoder' = EmptyDecoder
  /\ source' = [source EXCEPT !.next = 1, !.sticky = FALSE, !.failures = failures,
                              !.seekable = IoSeekable /\ failures < MaxSeekFailures]
  /\ position' = [positioned |-> TRUE, atStart |-> TRUE, awaitingKey |-> TRUE, seekTarget |-> StartPts]

SeekThen(aim, purpose) == ctl' = [ctl EXCEPT !.pc = "seek", !.aim = aim, !.purpose = purpose]

\* positionFor() is done: keyframe mode arms its decode, unless the selection
\* loop was what asked.
Positioned == IF window.keyMode /\ ~ctl.retrying THEN "arm" ELSE "select"

Horizon(target) ==
  IF target = Forever THEN Forever ELSE target + ReorderTicks(keys) + FrameDuration

BeginLanding(target, scan, purpose) ==
  /\ landing' = [NoLanding EXCEPT !.target = target, !.scanning = scan, !.horizon = Horizon(target)]
  /\ ctl' = [ctl EXCEPT !.pc = "landing", !.purpose = purpose]

\* What follows a seek: its landing is read, except where it is known, where
\* select() verifies it, or where seeking was given up.
AfterMove(seekable) ==
  IF ctl.purpose = "start" \/ (ctl.purpose \in {"indexed", "scanned"} /\ seekable)
  THEN BeginLanding(window.target, ~Trusted, ctl.purpose)
  ELSE /\ Go(IF ctl.purpose = "select" THEN "select" ELSE Positioned)
       /\ landing' = NoLanding

SeekToStart ==
  /\ At("seek") /\ ctl.aim <= StartPts
  /\ AfterSeek(StartPts, TRUE) /\ source' = [source EXCEPT !.next = 1]
  /\ AfterMove(Seekable)
  /\ UNCHANGED <<ladder, window, reply>>

\* A seek is a hint: it may land on any packet.
Seek ==
  /\ At("seek") /\ ctl.aim > StartPts
  /\ \E i \in 1..(Len(Stream) + 1) : source' = [source EXCEPT !.next = i, !.failures = 0]
  /\ AfterSeek(ctl.aim, FALSE)
  /\ AfterMove(Seekable)
  /\ UNCHANGED <<ladder, window, reply>>

\* A seek that failed is never continued from: the source is re-opened.
SeekFails ==
  /\ At("seek") /\ "seek" \in Faults
  /\ LET failures == IF ctl.aim > StartPts THEN source.failures + 1 ELSE source.failures
     IN Reopen(failures) /\ AfterMove(failures < MaxSeekFailures)
  /\ UNCHANGED <<ladder, window, reply>>

\* Back to a recorded key frame by its byte position: exact.
ByteSeek ==
  /\ At("byteSeek")
  /\ AfterSeek(ctl.aim, FALSE) /\ source' = [source EXCEPT !.next = PacketAt(ctl.aim)]
  /\ IF ctl.purpose = "covered" THEN BeginLanding(window.target, FALSE, "covered")
     ELSE Go(Positioned) /\ landing' = NoLanding
  /\ UNCHANGED <<ladder, window, reply>>

ByteSeekFails ==
  /\ At("byteSeek") /\ "seek" \in Faults
  /\ Forget /\ position' = [position EXCEPT !.positioned = FALSE]
  /\ Fail("seekFailed")
  /\ UNCHANGED <<source, decoder, ladder, window, landing>>

CanDecodeForwardTo(target) ==
  /\ position.positioned /\ ~frontier.drained /\ ~frontier.eof
  /\ frontier.received # NoPts /\ target >= frontier.received
  /\ ~HasHole(frontier.received, target)

UndecodedLanding ==
  position.positioned /\ ~frontier.drained /\ ~frontier.eof /\ frontier.received = NoPts

ForwardScanLimit == Max({3 * OneSecond, keys.gopHint})

IsUndecodedLandingBefore(target) ==
  UndecodedLanding /\ position.seekTarget <= target /\ target - position.seekTarget <= ForwardScanLimit

\* Whether decoding on beats a seek: the covering key frame was fed, or lies
\* ahead and the measured costs favour it, or the distance is short.
IsForwardCheaper(target) ==
  LET key == IF Trusted THEN IndexKeyBefore(keys, target)
             ELSE IF FindCoveringKey(keys, target) = NoPts THEN 0
             ELSE PacketAt(FindCoveringKey(keys, target))
  IN IF key # 0 /\ frontier.fedDts # NoPts
     THEN Stream[key].dts <= frontier.fedDts + FrameDuration \/ ctl.forwardWins
     ELSE target - frontier.received <= (IF Trusted THEN FrameTicks(4) ELSE ForwardScanLimit)

ScanAim == window.target - FrameTicks(2) - ReorderTicks(keys) - keys.gopHint

\* Exact mode may not need to move at all.
CanStay ==
  /\ ~mode.keyframeOnly
  /\ \/ CanDecodeForwardTo(window.target) /\ IsForwardCheaper(window.target)
     \/ IsUndecodedLandingBefore(window.target)

Position ==
  /\ At("position") /\ Seekable
  /\ ladder' = [ladder EXCEPT !.backoffs = 0, !.step = 0]
  /\ IF CanStay THEN Go(Positioned)
     ELSE LET key == IF Trusted THEN NoPts ELSE FindCoveringKey(keys, window.target)
          IN IF key # NoPts
             THEN ctl' = [ctl EXCEPT !.pc = "byteSeek", !.aim = key,
                                     !.purpose = IF mode.keyframeOnly THEN "covered" ELSE "found"]
             ELSE ctl' = [ctl EXCEPT !.pc = "seek", !.round = 0,
                           !.purpose = IF Trusted THEN "indexed" ELSE "scanned",
                           !.aim = IF Trusted THEN window.target - ladder.seekBias ELSE ScanAim]
  /\ UNCHANGED <<source, decoder, position, frontier, slots, mode, reader, keys, window, landing, reply>>

\* A source that cannot seek decodes on, or starts over, or gives up.
PositionUnseekable ==
  /\ At("position") /\ ~Seekable
  /\ ladder' = [ladder EXCEPT !.backoffs = 0, !.step = 0]
  /\ IF CanDecodeForwardTo(window.target) \/ (UndecodedLanding /\ position.atStart)
     THEN Go(Positioned) /\ UNCHANGED <<source, decoder, position, frontier, slots, mode, reader, keys, reply>>
     ELSE IF IoSeekable
     THEN Reopen(source.failures) /\ Go(Positioned) /\ UNCHANGED reply
     ELSE Fail("notSeekable") /\ UNCHANGED <<source, decoder, position, frontier, slots, mode, reader, keys>>
  /\ UNCHANGED <<window, landing>>

\* mutant: neither widened nor counted
BackOffInPlace ==
  /\ At("backOff")
  /\ SeekThen(window.target - OneSecond, ctl.purpose)
  /\ UNCHANGED <<source, decoder, position, frontier, slots, mode, reader, keys, ladder, window, landing, reply>>

\* FramePipeline::backOff with Positioner::nextBackoff.
BackOff ==
  /\ At("backOff")
  /\ LET step == IF ladder.step > 0 THEN ladder.step ELSE Max({OneSecond, keys.gopHint, 1})
         anchor == Min({window.target, IF ctl.observed # NoPts THEN ctl.observed ELSE position.seekTarget})
         retreat == anchor - step - FrameTicks(2) - ReorderTicks(keys)
         earlier == IF retreat >= position.seekTarget THEN position.seekTarget - step ELSE retreat
         spent == ladder.backoffs + 1 >= MaxBackoffs \/ earlier <= StartPts
     IN /\ ladder' = [ladder EXCEPT !.step = 2 * step, !.backoffs = Min({@ + 1, MaxBackoffs})]
        /\ SeekThen(IF spent THEN StartPts ELSE earlier, ctl.purpose)
  /\ UNCHANGED <<source, decoder, position, frontier, slots, mode, reader, keys, window, landing, reply>>

-----------------------------------------------------------------------------
(* Reading packets.                                                        *)

\* The packet a read returns: from the replay buffer, else from the demuxer.
Next1 == IF reader.replay # <<>> THEN Head(reader.replay) ELSE source.next

HasPacket == (reader.replay # <<>>) \/ (source.next \in Packets /\ ~source.sticky)

ReadFromDemuxer(keep, ix) ==
  /\ source' = [source EXCEPT !.next = @ + 1]
  /\ reader' = [reader EXCEPT !.errors = 0, !.verifiedTo = Max({@, Pts(source.next)}),
                              !.packet = IF keep THEN source.next ELSE @]
  /\ keys' = ix

\* readVideoPacket() returns Next1, left as the reader's live packet when kept.
Read(keep) ==
  IF reader.replay # <<>>
  THEN /\ reader' = [reader EXCEPT !.replay = Tail(@), !.packet = IF keep THEN Next1 ELSE @]
       /\ UNCHANGED <<source, keys>>
  ELSE ReadFromDemuxer(keep, NotePacket(source.next))

\* The decoder wants a packet and none is held for it.
NeedsInput ==
  At("select") /\ ~frontier.draining /\ Cardinality(decoder.buffer) <= Depth

Reading == ctl.pc \in {"landing", "verify"} \/ (NeedsInput /\ reader.packet = 0)

\* A transient demux error: a packet may be lost, what follows is suspect.
DemuxError ==
  /\ Reading /\ "lost" \in Faults
  /\ reader.replay = <<>> /\ HasPacket /\ reader.errors < MaxErrors
  /\ reader' = [reader EXCEPT !.errors = @ + 1]
  /\ \E lost \in {0, 1} : source' = [source EXCEPT !.next = @ + lost]
  /\ frontier' = [frontier EXCEPT !.tainted = TRUE]
  /\ UNCHANGED <<decoder, position, slots, mode, keys, ladder, window, ctl, landing, reply>>

\* The end of the stream, or one demux error too many.
AtEnd ==
  \/ ~HasPacket
  \/ ("lost" \in Faults /\ reader.replay = <<>> /\ reader.errors = MaxErrors)

-----------------------------------------------------------------------------
(* readLanding(): where the seek landed, one packet a step.                *)

Landed(l) == landing' = [l EXCEPT !.done = TRUE] /\ Go("landed")

\* mutant: no cap
BufferAll(l, i) == [l EXCEPT !.buffer = Append(@, i)]

\* Keeps a packet of the chosen GOP for replay; beyond the cap, keeps none.
Buffer(l, i) ==
  IF Len(l.buffer) >= MaxGopPackets THEN [l EXCEPT !.buffering = FALSE, !.buffer = <<>>]
  ELSE [l EXCEPT !.buffer = Append(@, i)]

PastHorizon(i) == landing.scanning /\ landing.best # 0 /\ Pts(i) > landing.horizon

Begun(i) == IF landing.start = NoPts THEN [landing EXCEPT !.start = Pts(i)] ELSE landing

\* The index once packet i, the first key frame of the landing or a later one, is read.
LandingIndex(i) ==
  IF landing.first = 0 /\ IsKey(i) THEN NoteKeyframeSpan(NotePacket(i), Begun(i).start, Pts(i))
  ELSE NotePacket(i)

LandingUnchanged == UNCHANGED <<decoder, position, frontier, slots, mode, ladder, window, reply>>

LandOnAnything ==
  /\ At("landing") /\ HasPacket /\ ~KeyFlagsReliable
  /\ Read(TRUE)
  /\ Landed([landing EXCEPT !.found = TRUE])
  /\ LandingUnchanged

LandOnNonKey ==
  /\ At("landing") /\ HasPacket /\ KeyFlagsReliable /\ ~IsKey(Next1)
  /\ Read(FALSE)
  /\ LET l == IF landing.buffering THEN Buffer(Begun(Next1), Next1) ELSE Begun(Next1)
     IN IF PastHorizon(Next1) /\ (landing.buffering \/ ~mode.keyframeOnly)
        THEN Landed(l) ELSE landing' = l /\ UNCHANGED ctl
  /\ LandingUnchanged

\* A key frame past the target ends the scan: the one before it, if any, is chosen.
LandPastTarget ==
  /\ At("landing") /\ HasPacket /\ KeyFlagsReliable /\ IsKey(Next1) /\ Pts(Next1) > landing.target
  /\ ReadFromDemuxer(FALSE, LandingIndex(Next1))
  /\ LET l == IF landing.first = 0 THEN [landing EXCEPT !.first = Next1] ELSE landing
     IN Landed(IF landing.buffering THEN Buffer(l, Next1) ELSE l)
  /\ LandingUnchanged

\* A key frame at or before the target: the landing itself when nothing says
\* there is a later one, else the best so far.
LandOnKey ==
  /\ At("landing") /\ HasPacket /\ KeyFlagsReliable /\ IsKey(Next1) /\ Pts(Next1) <= landing.target
  /\ LET i == Next1
         covers == ~landing.scanning /\ ~HasKeyBetween(NotePacket(i), Pts(i), landing.target)
         l == IF landing.first = 0 THEN [Begun(i) EXCEPT !.first = i] ELSE landing
     IN /\ ReadFromDemuxer(covers, LandingIndex(i))
        /\ IF covers THEN Landed([l EXCEPT !.found = TRUE])
           ELSE /\ landing' = [l EXCEPT !.scanning = TRUE, !.best = i, !.buffering = ~mode.keyframeOnly,
                                        !.buffer = IF mode.keyframeOnly THEN <<>> ELSE <<i>>]
                /\ UNCHANGED ctl
  /\ LandingUnchanged

LandAtEnd ==
  /\ At("landing") /\ AtEnd
  /\ Landed(landing)
  /\ keys' = IF landing.best = 0 THEN keys ELSE NoteStreamEndedInGop(keys, Pts(landing.best))
  /\ UNCHANGED <<source, reader>> /\ LandingUnchanged

\* How to get back to the chosen key frame, which the scan has read past.
SettleOnParked ==
  /\ At("landed") /\ landing.best # 0 /\ mode.keyframeOnly
  /\ reader' = [reader EXCEPT !.packet = landing.best]
  /\ landing' = [landing EXCEPT !.found = TRUE, !.best = 0]
  /\ UNCHANGED <<source, decoder, position, frontier, slots, mode, keys, ladder, window, ctl, reply>>

SettleOnReplay ==
  /\ At("landed") /\ landing.best # 0 /\ ~mode.keyframeOnly /\ landing.buffering
  /\ reader' = [reader EXCEPT !.replay = landing.buffer]
  /\ position' = [position EXCEPT !.awaitingKey = TRUE]
  /\ landing' = [landing EXCEPT !.found = TRUE, !.best = 0]
  /\ UNCHANGED <<source, decoder, frontier, slots, mode, keys, ladder, window, ctl, reply>>

SettleByRewinding ==
  /\ At("landed") /\ landing.best # 0 /\ ~mode.keyframeOnly /\ ~landing.buffering
  /\ LET pts == Pts(landing.best)
     IN ctl' = [ctl EXCEPT !.purpose = "found", !.pc = IF Trusted THEN "seek" ELSE "byteSeek",
                           !.aim = IF Trusted THEN pts - ReorderTicks(keys) ELSE pts]
  /\ landing' = NoLanding
  /\ UNCHANGED <<source, decoder, position, frontier, slots, mode, reader, keys, ladder, window, reply>>

\* Positioner::retryAfterOvershoot.
RetryAfterOvershoot ==
  LET first == landing.first
      reorder == ReorderTicks(keys)
      delay == IF Pts(first) > Stream[first].dts THEN Pts(first) - Stream[first].dts ELSE reorder
      spent == ctl.round >= MaxRounds \/ ladder.backoffs >= MaxBackoffs
      unshifted == reorder > 0 /\ Stream[first].dts > window.target - reorder /\ ladder.seekBias = 0
      gop == Max({OneSecond, keys.gopHint, 1})
  IN /\ ladder' = [ladder EXCEPT !.seekBias = IF unshifted THEN reorder ELSE @,
                                 !.backoffs = IF spent THEN @ ELSE @ + 1]
     /\ ctl' = [ctl EXCEPT !.pc = "seek", !.round = Min({@ + 1, MaxRounds}),
                           !.purpose = IF spent THEN "start" ELSE "indexed",
                           !.aim = IF spent THEN StartPts ELSE Pts(first) - 1 - delay - gop * ctl.round]

Retreat(observed) ==
  ctl' = [ctl EXCEPT !.pc = "backOff", !.observed = observed, !.round = Min({@ + 1, MaxRounds})]

\* What each caller of readLanding() does with it.
AfterLanding ==
  /\ At("landed") /\ landing.best = 0
  /\ LET settled == landing.found \/ position.atStart \/ ~KeyFlagsReliable
         observed == IF landing.first = 0 THEN NoPts ELSE Pts(landing.first)
     IN \/ ctl.purpose = "arm" /\ Go(IF landing.found THEN "feedKey" ELSE "select") /\ UNCHANGED ladder
        \/ ctl.purpose = "start" /\ Go(Positioned) /\ UNCHANGED ladder
        \/ ctl.purpose = "covered" /\ UNCHANGED ladder
           /\ IF landing.found THEN Go(Positioned) ELSE SeekThen(ScanAim, "scanned")
        \/ ctl.purpose \in {"indexed", "scanned"} /\ settled /\ Go(Positioned) /\ UNCHANGED ladder
        \/ ctl.purpose = "indexed" /\ ~settled /\ observed # NoPts /\ RetryAfterOvershoot
        \/ /\ ctl.purpose \in {"indexed", "scanned"} /\ ~settled
           /\ ctl.purpose = "scanned" \/ observed = NoPts
           /\ Retreat(observed) /\ UNCHANGED ladder
  /\ landing' = NoLanding
  /\ UNCHANGED <<source, decoder, position, frontier, slots, mode, reader, keys, window, reply>>

-----------------------------------------------------------------------------
(* Starting a request: what is held may answer it.                         *)

\* RequestWindow::resolve: without a usable seek, nearest-keyframe mode falls
\* back to exact selection.
Resolve(w) ==
  IF w.keyMode /\ ~Seekable THEN [w EXCEPT !.start = w.target, !.keyMode = FALSE] ELSE w

\* The open-time probe decodes the first frame, whatever its time; when it
\* fails, open() fails and there is no generator.
Probe == [target |-> StartPts, start |-> -Forever, end |-> Forever,
          adjustment |-> "none", keyMode |-> FALSE]

Opened == window = Probe => reply.status = "ok"

\* The clock decides which of decoding on and seeking measured cheaper.
Accept ==
  /\ At("idle") /\ Opened
  /\ \E w \in Requests : window' = Resolve(w)
  /\ \E wins \in BOOLEAN :
       ctl' = [Idle EXCEPT !.pc = IF source.interrupted THEN "recover" ELSE "start", !.forwardWins = wins]
  /\ mode' = [mode EXCEPT !.eofRetried = FALSE]
  /\ reply' = NoReply
  /\ UNCHANGED <<source, decoder, position, frontier, slots, reader, keys, ladder, landing>>

\* An interrupted read: on a pipe only the last time received is carried across.
Recover ==
  /\ At("recover") /\ Go("start")
  /\ source' = [source EXCEPT !.interrupted = FALSE, !.sticky = FALSE]
  /\ decoder' = EmptyDecoder
  /\ ResetPosition([NoFrontier EXCEPT !.received = IF Seekable THEN NoPts ELSE frontier.received],
                   mode, reader.verifiedTo)
  /\ position' = IF Seekable THEN [position EXCEPT !.positioned = FALSE]
                 ELSE [position EXCEPT !.positioned = TRUE, !.atStart = FALSE]
  /\ UNCHANGED <<ladder, window, landing, reply>>

IsHeldCovering(target) ==
  IsValid(slots.held) /\ slots.held.pts <= target /\ ~HasHole(slots.held.pts, target)

IsHeldFrameAtTail == IsValid(slots.held) /\ FrameEnd(slots.held) >= frontier.lastEnd

CanAnswerFromHeld ==
  /\ IsHeldCovering(window.target)
  /\ IF window.keyMode
     THEN slots.held.key /\ DoesKeyCover(slots.held.pts, window.target)
     ELSE IsValid(slots.pending) /\ window.target < slots.pending.pts

CanAnswerAtTail ==
  /\ IsHeldCovering(window.target) /\ ~window.keyMode
  /\ frontier.eof /\ ~IsValid(slots.pending) /\ IsHeldFrameAtTail

SkipMargin == ReorderTicks(keys) + FrameTicks(2)

BeginRequest ==
  mode' = [mode EXCEPT !.keyframeOnly = window.keyMode,
                       !.skipBefore = IF window.keyMode \/ ~KeyFlagsReliable THEN NoPts
                                      ELSE window.start - SkipMargin]

CanPromotePending ==
  /\ IsValid(slots.pending) /\ ~frontier.drained
  /\ slots.pending.pts <= window.target /\ ~HasHole(slots.pending.pts, window.target)
  /\ IsForwardCheaper(window.target)

\* mutant: the look-ahead frame is forgotten
ContinuesPastPending ==
  /\ IsValid(slots.held) /\ ~frontier.eof /\ ~frontier.drained
  /\ slots.held.pts <= window.target /\ ~HasHole(slots.held.pts, window.target)
  /\ IsForwardCheaper(window.target)

CanContinueFromHeld ==
  /\ IsValid(slots.held) /\ ~IsValid(slots.pending) /\ ~frontier.eof /\ ~frontier.drained
  /\ slots.held.pts <= window.target /\ ~HasHole(slots.held.pts, window.target)
  /\ IsForwardCheaper(window.target)

Starting == At("start") /\ ~CanAnswerFromHeld /\ ~CanAnswerAtTail

AnswerFromHeld ==
  /\ At("start") /\ CanAnswerFromHeld
  /\ Select(slots.held, window.adjustment)
  /\ UNCHANGED <<source, decoder, position, frontier, slots, mode, reader, keys, ladder, window, landing, reply>>

\* mutant: the look-ahead frame is copied
PromotedCopy == [slots EXCEPT !.held = slots.pending]

Promoted == [slots EXCEPT !.held = slots.pending, !.pending = NoFrame]

Promote ==
  /\ Starting /\ ~window.keyMode /\ CanPromotePending
  /\ BeginRequest
  /\ slots' = Promoted
  /\ ladder' = [ladder EXCEPT !.backoffs = 0, !.step = 0]
  /\ Go("select")
  /\ UNCHANGED <<source, decoder, position, frontier, reader, keys, window, landing, reply>>

Continue ==
  /\ Starting /\ ~window.keyMode /\ CanContinueFromHeld
  /\ BeginRequest
  /\ ladder' = [ladder EXCEPT !.backoffs = 0, !.step = 0]
  /\ Go("select")
  /\ UNCHANGED <<source, decoder, position, frontier, slots, reader, keys, window, landing, reply>>

Reposition ==
  /\ Starting /\ (window.keyMode \/ (~CanPromotePending /\ ~CanContinueFromHeld))
  /\ BeginRequest /\ Go("position")
  /\ UNCHANGED <<source, decoder, position, frontier, slots, reader, keys, ladder, window, landing, reply>>

-----------------------------------------------------------------------------
(* The end of the stream.                                                  *)

\* mutant: the last frame is over when it begins
DisplayBegin(frame) == frame.pts

\* finishAtEof() with the frame it looks at: the end of its display interval.
DisplayEnd(frame) ==
  Max({FrameEnd(frame), IF mode.keyframeOnly THEN frontier.lastEnd ELSE frame.pts})

FinishWith(frame) ==
  IF window.target < DisplayEnd(frame) THEN Select(frame, "none") /\ UNCHANGED <<position, reply>>
  ELSE IF Clamps THEN Select(frame, "clampedToLast") /\ UNCHANGED <<position, reply>>
  ELSE Fail("timeOutOfRange") /\ position' = IF At("start") THEN position ELSE Abandoned(position)

FinishAtEof ==
  IF IsValid(slots.held) THEN FinishWith(slots.held) /\ UNCHANGED slots
  ELSE IF ~IsValid(slots.corruptLast)
  THEN FailSelection(IF mode.anyErrors THEN "decodeFailed" ELSE "endOfStream") /\ UNCHANGED slots
  ELSE /\ slots' = [slots EXCEPT !.held = slots.corruptLast, !.corruptLast = NoFrame]
       /\ IF mode.keyframeOnly /\ window.target >= slots.corruptLast.pts
          THEN Select(slots.corruptLast, "none") /\ UNCHANGED <<position, reply>>
          ELSE FinishWith(slots.corruptLast)

AnswerAtTail ==
  /\ At("start") /\ CanAnswerAtTail
  /\ FinishAtEof
  /\ UNCHANGED <<source, decoder, frontier, mode, reader, keys, ladder, window, landing>>

NothingProduced == ~IsValid(slots.held) /\ ~IsValid(slots.corruptLast) /\ ~frontier.drained

AtEndOfStream == At("select") /\ frontier.draining /\ decoder.buffer = {}

LandedInTail == NothingProduced /\ Seekable /\ position.positioned /\ ~position.atStart

\* The end came before any frame: after a cancellation the I/O may only think so.
EndedEmpty ==
  NothingProduced /\ ~LandedInTail /\ ~mode.eofRetried /\ Seekable /\ frontier.count = 0

BackOffFromTail ==
  /\ AtEndOfStream /\ LandedInTail
  /\ ctl' = [ctl EXCEPT !.pc = "backOff", !.purpose = "select", !.observed = NoPts]
  /\ UNCHANGED <<source, decoder, position, frontier, slots, mode, reader, keys, ladder, window, landing, reply>>

RetryAfterEmptyEof ==
  /\ AtEndOfStream /\ EndedEmpty
  /\ source' = [source EXCEPT !.sticky = FALSE]
  /\ decoder' = EmptyDecoder
  /\ ResetPosition(NoFrontier, [mode EXCEPT !.eofRetried = TRUE], reader.verifiedTo)
  /\ position' = [position EXCEPT !.positioned = FALSE]
  /\ ctl' = [ctl EXCEPT !.pc = "position", !.retrying = TRUE]
  /\ UNCHANGED <<ladder, window, landing, reply>>

EndOfStream ==
  /\ AtEndOfStream /\ ~LandedInTail /\ ~EndedEmpty
  /\ frontier' = [frontier EXCEPT !.eof = TRUE]
  /\ mode' = [mode EXCEPT !.tailEnd = Max({@, frontier.lastEnd})]
  /\ FinishAtEof
  /\ UNCHANGED <<source, decoder, reader, keys, ladder, window, landing>>

-----------------------------------------------------------------------------
(* Nearest-keyframe mode.                                                  *)

IsPreEditKeyframe == reader.packet # 0 /\ Pts(reader.packet) < FirstFrameTs

\* The key frame was trimmed by an edit list: the first presented frame, exactly.
AnswerFirstFrame ==
  /\ At("arm") /\ IsPreEditKeyframe
  /\ mode' = [mode EXCEPT !.keyframeOnly = FALSE]
  /\ window' = [window EXCEPT !.target = FirstFrameTs, !.start = FirstFrameTs, !.end = FirstFrameTs,
                              !.adjustment = "keyframeBeforeEdit"]
  /\ Go("select")
  /\ UNCHANGED <<source, decoder, position, frontier, slots, reader, keys, ladder, landing, reply>>

FetchKeyframe ==
  /\ At("arm") /\ reader.packet = 0
  /\ BeginLanding(Forever, FALSE, "arm")
  /\ reader' = [reader EXCEPT !.replay = <<>>]
  /\ UNCHANGED <<source, decoder, position, frontier, slots, mode, keys, ladder, window, reply>>

FeedingKey == At("feedKey") \/ (At("arm") /\ reader.packet # 0 /\ ~IsPreEditKeyframe)

-----------------------------------------------------------------------------
(* Feeding the decoder.                                                    *)

\* Skipped at the decoder: provably off screen before the window, and recorded
\* as a hole in case the decoder obliges.
CanSkip(i) ==
  /\ mode.skipBefore # NoPts /\ KeyFlagsReliable /\ ~IsKey(i)
  /\ Pts(i) < frontier.fedPts /\ frontier.fedPts <= mode.skipBefore

IsReferenced(i) == \E j \in Packets : Pts(i) \in Stream[j].refs

\* The decoder once i is in it; nothing comes out of it before a key frame.
Decode(i, shown) ==
  IF ~IsKey(i) /\ ~decoder.synced THEN decoder
  ELSE LET buffer == decoder.buffer \cup (IF shown THEN {Pts(i)} ELSE {})
           intact == decoder.intact \cup (IF Stream[i].refs \subseteq decoder.intact THEN {Pts(i)} ELSE {})
       IN [buffer |-> buffer, synced |-> TRUE,
           intact |-> {p \in intact : p \in buffer \/ NeededAfter(i, p)}]

\* prepareSend() and the position's note of a key frame, whatever the send returns.
Prepared(i) ==
  [frontier EXCEPT !.holes = IF CanSkip(i) THEN RecordHole(@, Pts(i)) ELSE @]

NoteKeyframeFed(i) == [position EXCEPT !.awaitingKey = @ /\ ~IsKey(i)]

Fed(i) == [Prepared(i) EXCEPT !.fedDts = Stream[i].dts, !.fedPts = Max({@, Pts(i)})]

Send(i) ==
  /\ \E dropped \in IF CanSkip(i) /\ ~IsReferenced(i) THEN BOOLEAN ELSE {FALSE} :
       decoder' = Decode(i, ~dropped /\ Pts(i) >= FirstFrameTs)
  /\ frontier' = Fed(i) /\ position' = NoteKeyframeFed(i)
  /\ UNCHANGED <<mode, ctl, reply>>

NoteError(errors) == [mode EXCEPT !.errors = Min({errors, MaxErrors + 1}), !.anyErrors = TRUE]

\* The picture of packet i is lost: what follows is suspect, and too many in a
\* row end the request.
Lose(i, f, errors) ==
  /\ frontier' = [f EXCEPT !.tainted = TRUE]
  /\ mode' = NoteError(errors)
  /\ IF errors > MaxErrors
     THEN Fail("decodeFailed") /\ position' = Abandoned(NoteKeyframeFed(i))
     ELSE position' = NoteKeyframeFed(i) /\ UNCHANGED <<ctl, reply>>
  /\ UNCHANGED decoder

\* avcodec_send_packet() refuses it as invalid.
Reject(i, errors) == "rejected" \in Faults /\ Lose(i, Prepared(i), errors)

\* It is taken, and the receive that follows reports that it did not decode.
FailDecode(i) == "undecodable" \in Faults /\ Lose(i, Fed(i), mode.errors + 1)

FeedHeldPacket ==
  /\ NeedsInput /\ reader.packet # 0
  /\ Send(reader.packet) \/ Reject(reader.packet, mode.errors) \/ FailDecode(reader.packet)
  /\ reader' = [reader EXCEPT !.packet = 0]
  /\ UNCHANGED <<source, slots, keys, ladder, window, landing>>

\* Mid-GOP after a seek: not worth decoding.
MidGop(i) == position.awaitingKey /\ KeyFlagsReliable /\ ~IsKey(i)

SkipToKeyframe ==
  /\ NeedsInput /\ reader.packet = 0 /\ HasPacket /\ MidGop(Next1)
  /\ Read(FALSE)
  /\ UNCHANGED <<decoder, position, frontier, slots, mode, ladder, window, ctl, landing, reply>>

FeedNextPacket ==
  /\ NeedsInput /\ reader.packet = 0 /\ HasPacket /\ ~MidGop(Next1)
  /\ Read(FALSE)
  /\ Send(Next1) \/ Reject(Next1, mode.errors + 1) \/ FailDecode(Next1)
  /\ UNCHANGED <<slots, ladder, window, landing>>

StartDrain ==
  /\ NeedsInput /\ reader.packet = 0 /\ AtEnd
  /\ frontier' = [frontier EXCEPT !.draining = TRUE]
  /\ UNCHANGED <<source, decoder, position, slots, mode, reader, keys, ladder, window, ctl, landing, reply>>

Drained(f) == [f EXCEPT !.draining = TRUE, !.drained = TRUE, !.landingKnown = TRUE]

\* The chosen key frame alone, and a drain, so that it comes out at once.  A
\* packet that cannot be told to be a key frame is left to the normal decode.
FeedKeyframeAndDrain ==
  /\ FeedingKey
  /\ LET key == reader.packet
         fed == [frontier EXCEPT !.fedDts = Stream[key].dts, !.fedPts = Max({@, Pts(key)})]
     IN IF ~KeyFlagsReliable
        THEN Go("select") /\ UNCHANGED <<decoder, position, frontier, mode, reader, reply>>
        ELSE /\ reader' = [reader EXCEPT !.packet = 0]
             /\ position' = NoteKeyframeFed(key)
             /\ \/ /\ decoder' = Decode(key, Pts(key) >= FirstFrameTs)
                   /\ frontier' = Drained(fed)
                   /\ Go("select") /\ UNCHANGED <<mode, reply>>
                \/ /\ "undecodable" \in Faults
                   /\ frontier' = [Drained(fed) EXCEPT !.tainted = TRUE]
                   /\ mode' = NoteError(mode.errors + 1)
                   /\ Go("select") /\ UNCHANGED <<decoder, reply>>
                \/ /\ "rejected" \in Faults
                   /\ Fail("decodeFailed") /\ UNCHANGED <<decoder, frontier, mode>>
  /\ UNCHANGED <<source, slots, keys, ladder, window, landing>>

-----------------------------------------------------------------------------
(* A frame out of the decoder.                                             *)

Emits == At("select") /\ decoder.buffer # {} /\ (frontier.draining \/ Cardinality(decoder.buffer) > Depth)

Emitted == Min(decoder.buffer)

\* What it leaves behind; pts stays a usable reference if intact.
Drop(pts) == [decoder EXCEPT !.buffer = @ \ {pts}]

\* mutant: what was lost is forgotten at once
Untainted(isKey) == FALSE

TaintAfter(isKey) == frontier.tainted /\ ~isKey

Received(isKey, damaged) ==
  [frontier EXCEPT !.received = Emitted, !.count = Min({@ + 1, 2}),
                   !.lastKey = IF isKey THEN Emitted ELSE @,
                   !.tainted = IF damaged THEN @ ELSE TaintAfter(isKey),
                   !.lastEnd = IF damaged THEN @ ELSE Max({@, Emitted + FrameDuration}),
                   !.holes = IF damaged THEN RecordHole(@, Emitted) ELSE @ \ {Emitted}]

\* What every received frame does to the rest of the state.
Receive(damaged) ==
  /\ decoder' = Drop(Emitted)
  /\ mode' = [mode EXCEPT !.errors = 0]
  /\ keys' = NoteKeyframeSpan(keys, frontier.lastKey, Emitted)
  /\ frontier' = Received(IsKey(PacketAt(Emitted)), damaged)
  /\ UNCHANGED <<source, position, reader, ladder, window, landing, reply>>

NewFrame ==
  LET isKey == IsKey(PacketAt(Emitted))
  IN [pts |-> Emitted, key |-> isKey, concealed |-> TaintAfter(isKey),
      intact |-> Emitted \in decoder.intact]

\* A frame the decoder marks corrupt is a hole, stashed as a last resort.
StashCorrupt ==
  /\ Emits /\ "corrupt" \in Faults
  /\ Receive(TRUE)
  /\ slots' = [slots EXCEPT !.corruptLast = [NewFrame EXCEPT !.concealed = TRUE]]
  /\ UNCHANGED ctl

Hold(frame) == slots' = [slots EXCEPT !.held = frame, !.pending = NoFrame]
Pend(frame) == slots' = [slots EXCEPT !.pending = frame]

\* Nearest-keyframe mode: the key frame was fed alone, is the target itself, or
\* is the first frame after a seek aimed at the target.
IsKeyframeTheAnswer ==
  \/ frontier.landingKnown \/ Emitted = window.target
  \/ frontier.count = 0 /\ position.seekTarget = window.target

PlaceInKeyframeMode ==
  /\ Emits /\ mode.keyframeOnly /\ Emitted <= window.target
  /\ Receive(FALSE)
  /\ IF NewFrame.key \/ ~IsValid(slots.held) THEN Hold(NewFrame) ELSE UNCHANGED slots
  /\ IF NewFrame.key /\ IsKeyframeTheAnswer THEN Select(NewFrame, "none") ELSE UNCHANGED ctl

\* Exact mode: held until one inside the window, or at the target, comes out.
PlaceInExactMode ==
  /\ Emits /\ ~mode.keyframeOnly /\ Emitted <= window.target
  /\ Receive(FALSE)
  /\ Hold(NewFrame)
  /\ IF Emitted = window.target \/ Emitted >= window.start
     THEN Select(NewFrame, "none") ELSE UNCHANGED ctl

\* The first frame past the target proves the held one covers it.
LookAhead ==
  /\ Emits /\ Emitted > window.target /\ IsValid(slots.held)
  /\ Receive(FALSE)
  /\ Pend(NewFrame) /\ Select(slots.held, "none")

Overshoots == Emits /\ Emitted > window.target /\ ~IsValid(slots.held)

IsAtStart ==
  position.atStart \/ ~Seekable \/ Emitted <= FirstFrameTs

LandedLate ==
  \/ frontier.count = 0 /\ ~IsAtStart
  \/ Emitted > window.end /\ ~IsAtStart

BackOffFromOvershoot ==
  /\ Overshoots /\ LandedLate /\ Receive(FALSE)
  /\ ctl' = [ctl EXCEPT !.pc = "backOff", !.purpose = "select",
                        !.observed = IF NewFrame.key THEN Emitted ELSE NoPts]
  /\ UNCHANGED slots

AnswerOvershoot ==
  /\ Overshoots /\ ~LandedLate /\ Receive(FALSE)
  /\ Hold(NewFrame)
  /\ Select(NewFrame, IF Emitted <= window.end THEN "none" ELSE "clampedToFirst")

-----------------------------------------------------------------------------
(* The answer, and the tail check of nearest-keyframe mode.                *)

GopTicks == Max({keys.gopHint, FrameTicks(2), 1})

TailInDoubt ==
  /\ window.keyMode
  /\ window.target > ctl.frame.pts + GopTicks /\ window.target > reader.verifiedTo

GiveAnswer ==
  /\ At("answer") /\ ~TailInDoubt
  /\ Answer(ctl.frame, ctl.adjustment)
  /\ UNCHANGED <<source, decoder, position, frontier, slots, mode, reader, keys, ladder, window, landing>>

\* tailEnd says where the stream ends.
Judge(tailEnd) ==
  IF tailEnd = NoPts \/ window.target < tailEnd THEN Answer(ctl.frame, ctl.adjustment)
  ELSE IF Clamps THEN EndRequest("ok", ctl.frame, "clampedToLast")
  ELSE Fail("timeOutOfRange")

VerifyTail ==
  /\ At("answer") /\ TailInDoubt
  /\ IF mode.tailEnd # NoPts THEN Judge(mode.tailEnd) ELSE Go("verify") /\ UNCHANGED reply
  /\ UNCHANGED <<source, decoder, position, frontier, slots, mode, reader, keys, ladder, window, landing>>

MarkInvalid == position' = [position EXCEPT !.positioned = FALSE]

\* Packets are read, and dropped, until one proves the stream reaches the target.
VerifyPacket ==
  /\ At("verify") /\ HasPacket
  /\ Read(FALSE)
  /\ IF reader'.verifiedTo > window.target
     THEN MarkInvalid /\ Answer(ctl.frame, ctl.adjustment)
     ELSE UNCHANGED <<position, ctl, reply>>
  /\ UNCHANGED <<decoder, frontier, slots, mode, ladder, window, landing>>

\* mutant: the last packet takes no time
VerifiedLast == IF reader.verifiedTo # NoPts THEN reader.verifiedTo ELSE ctl.frame.pts

VerifiedTail ==
  (IF reader.verifiedTo # NoPts THEN reader.verifiedTo ELSE ctl.frame.pts) + FrameDuration

VerifyEnd ==
  /\ At("verify") /\ AtEnd
  /\ mode' = [mode EXCEPT !.tailEnd = VerifiedTail]
  /\ MarkInvalid /\ Judge(VerifiedTail)
  /\ UNCHANGED <<source, decoder, frontier, slots, reader, keys, ladder, window, landing>>

-----------------------------------------------------------------------------
(* Cancellation.                                                           *)

\* Any request may be cancelled; the probe has a token of its own.
Cancellable == "cancel" \in Faults /\ window # Probe

\* The token is found set between two steps: only a selection that was under
\* way takes the position back.
Cancel ==
  /\ ctl.pc \in {"landing", "select", "verify"} /\ Cancellable
  /\ position' = IF ctl.pc = "select" THEN Abandoned(position) ELSE position
  /\ Fail("cancelled")
  /\ landing' = NoLanding
  /\ UNCHANGED <<source, decoder, frontier, slots, mode, reader, keys, ladder, window>>

\* It is set while libavformat reads: the I/O layer is left unusable, or at a
\* sticky end of file that goes unnoticed.
InterruptRead ==
  /\ Reading /\ HasPacket /\ reader.replay = <<>> /\ Cancellable
  /\ \/ source' = [source EXCEPT !.interrupted = TRUE]
     \/ /\ "sticky" \in Faults
        /\ source' = [source EXCEPT !.sticky = TRUE]
  /\ position' = IF ctl.pc = "select" THEN Abandoned(position) ELSE position
  /\ Fail("cancelled")
  /\ landing' = NoLanding
  /\ UNCHANGED <<decoder, frontier, slots, mode, reader, keys, ladder, window>>

\* The demuxer may report the read cut short as an end of file: readLanding() and
\* the tail check then conclude from it before the token is looked at again.
ShortRead ==
  /\ ctl.pc \in {"landing", "verify"} /\ HasPacket /\ reader.replay = <<>>
  /\ Cancellable /\ "short" \in Faults
  /\ source' = [source EXCEPT !.interrupted = TRUE, !.sticky = TRUE]
  /\ ctl' = [ctl EXCEPT !.cut = TRUE]
  /\ UNCHANGED <<decoder, position, frontier, slots, mode, reader, keys, ladder, window, landing, reply>>

\* A seek interrupted: the demuxer may have moved.
InterruptSeek ==
  /\ ctl.pc \in {"seek", "byteSeek"} /\ Cancellable
  /\ \E i \in {source.next, Len(Stream) + 1} : source' = [source EXCEPT !.interrupted = TRUE, !.next = i]
  /\ Forget /\ MarkInvalid
  /\ Fail("cancelled")
  /\ UNCHANGED <<decoder, ladder, window, landing>>

-----------------------------------------------------------------------------

Init ==
  /\ \E s \in Settings :
       source = [setting |-> s, next |-> 1, sticky |-> FALSE, interrupted |-> FALSE, failures |-> 0,
                 seekable |-> s.container # "pipe"]
  /\ decoder = EmptyDecoder
  /\ position = [positioned |-> TRUE, atStart |-> TRUE, awaitingKey |-> FALSE, seekTarget |-> StartPts]
  /\ frontier = NoFrontier
  /\ slots = EmptySlots
  /\ mode = [keyframeOnly |-> FALSE, skipBefore |-> NoPts, eofRetried |-> FALSE, tailEnd |-> NoPts,
             errors |-> 0, anyErrors |-> FALSE]
  /\ reader = [packet |-> 0, replay |-> <<>>, errors |-> 0, verifiedTo |-> NoPts]
  /\ keys = EmptyIndex
  /\ ladder = [backoffs |-> 0, step |-> 0, seekBias |-> 0]
  /\ window = Probe
  /\ ctl = [Idle EXCEPT !.pc = "select"]
  /\ landing = NoLanding
  /\ reply = NoReply

Starts == Accept \/ Recover \/ AnswerFromHeld \/ AnswerAtTail \/ Promote \/ Continue \/ Reposition

Moves ==
  \/ Position \/ PositionUnseekable \/ SeekToStart \/ Seek \/ SeekFails
  \/ ByteSeek \/ ByteSeekFails \/ BackOff

Lands ==
  \/ LandOnAnything \/ LandOnNonKey \/ LandPastTarget \/ LandOnKey \/ LandAtEnd
  \/ SettleOnParked \/ SettleOnReplay \/ SettleByRewinding \/ AfterLanding

Selects ==
  \/ AnswerFirstFrame \/ FetchKeyframe \/ FeedKeyframeAndDrain
  \/ FeedHeldPacket \/ SkipToKeyframe \/ FeedNextPacket \/ StartDrain
  \/ DemuxError \/ StashCorrupt
  \/ PlaceInKeyframeMode \/ PlaceInExactMode \/ LookAhead
  \/ BackOffFromOvershoot \/ AnswerOvershoot
  \/ BackOffFromTail \/ RetryAfterEmptyEof \/ EndOfStream

Ends == GiveAnswer \/ VerifyTail \/ VerifyPacket \/ VerifyEnd

Cancels == Cancel \/ InterruptRead \/ ShortRead \/ InterruptSeek

\* open() has failed: there is nobody to ask.
NoGenerator == At("idle") /\ ~Opened /\ UNCHANGED vars

Next == Starts \/ Moves \/ Lands \/ Selects \/ Ends \/ Cancels \/ NoGenerator

Spec == Init /\ [][Next]_vars

\* The pipeline's thread keeps running once a request is accepted.
FairSpec == Spec /\ WF_vars(Moves \/ Lands \/ Selects \/ Ends \/ Cancels \/ (Starts /\ ~At("idle")))

=============================================================================
