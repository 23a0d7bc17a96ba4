---------------------------- MODULE MediaSource ----------------------------
(* The container behind the pipeline: detail/MediaSource.h, with the parts  *)
(* of detail/FramePipeline.h that seek, read, recover and re-open it.  What *)
(* outlives a request: libavio's sticky state after an interrupt, the run   *)
(* of failed seeks, what was learned of the asset when it was opened, and   *)
(* the frames held from the last answer, which the recovery drops.          *)
(* Frames are numbered from 0; frame i is presented at origin + i.          *)
(*                                                                           *)
(* External: the file, libavformat's I/O layer, the decoder (the first      *)
(* frame out after a flush is a key frame), and whoever sets the token.      *)
EXTENDS Integers, FiniteSetsExt

CONSTANTS
  Settings,          \* what may be opened, and what may happen to it
  KeyFrames,         \* the frames a flushed decoder can begin with
  RequestTimes, MaxLength, MaxSeekFailures, None

(* A setting is a record:                                                   *)
(*   rewinds    the I/O can go back: a file, not a pipe                     *)
(*   stamped    the container carries time stamps; without them it cannot be *)
(*              sought, and the pipeline counts the frames from 0           *)
(*   declares   it declares a duration                                      *)
(*   origin     the time stamp of its first frame                           *)
(*   verified   tryResetIoState() knows this major of libavformat           *)
(*   faults     what the environment may do                                 *)
Kinds == {"cancel", "seek", "open", "grow", "memory"}

ASSUME MediaAssumption ==
  /\ MaxLength \in Nat \ {0} /\ MaxSeekFailures \in Nat \ {0} /\ None \notin Nat
  /\ RequestTimes \subseteq Nat /\ 0 \in KeyFrames /\ KeyFrames \subseteq Nat
  /\ \A s \in Settings :
       /\ {s.rewinds, s.stamped, s.declares, s.verified} \subseteq BOOLEAN /\ s.faults \subseteq Kinds
       /\ s.origin \in Nat /\ (~s.stamped => s.origin = 0)

VARIABLES
  file,      \* the setting, its frames now, when opened and when its end was last read, seeks refused in a row
  source,    \* MediaSource: open, interruptFired, seekFailures; whether it was ever left closed
  io,        \* AVIOContext, as an interrupt leaves it: error is AVERROR_EXIT, eof_reached
  at,        \* the next frame the demuxer yields
  info,      \* StreamInfo: startPts, durationPts, seekable
  position,  \* Position, the frontier's lastReceivedTs and eof, the held and the pending frame
  request,   \* the request in progress
  reply      \* what the last one returned

vars == <<file, source, io, at, info, position, request, reply>>

Setting == file.setting
May(fault) == fault \in Setting.faults

-----------------------------------------------------------------------------
(* The pieces.                                                             *)

CleanIo == [error |-> FALSE, eof |-> FALSE]

Nowhere == [positioned |-> FALSE, atStart |-> FALSE, received |-> None, ended |-> FALSE,
            held |-> None, pending |-> None]
Landed(atStart) == [Nowhere EXCEPT !.positioned = TRUE, !.atStart = atStart]

\* The time stamp of the held frame: a pending frame is the one after it.
HeldStamp == IF position.pending = None THEN position.received ELSE position.received - 1

\* What an undisturbed open() learns.
Probed == [start |-> Setting.origin, duration |-> IF Setting.declares THEN file.length ELSE None]

\* An interrupted probe keeps what it managed to read.
CutShort ==
  {p \in [start : {Setting.origin, 0}, duration : 0..file.length \cup {None}] :
     p.duration = None \/ (Setting.declares /\ p.duration < file.length)}

CanSeek(failures) == Setting.rewinds /\ Setting.stamped /\ failures < MaxSeekFailures

Opened(p, failures) == [start |-> p.start, duration |-> p.duration, seekable |-> CanSeek(failures)]

\* mutant: the last probe is believed
Believed(p) == p

\* reopen() carries the origin and the longer duration across, if a stream was open.
Carried(p) ==
  IF ~source.open THEN p
  ELSE [start |-> info.start,
        duration |-> IF info.duration # None /\ (p.duration = None \/ p.duration < info.duration)
                     THEN info.duration ELSE p.duration]

\* The frame the request is for, as this source numbers it.
Wanted == Max({request.time + info.start - Setting.origin, 0})

At(pc) == request.pc = pc
Go(pc) == request' = [request EXCEPT !.pc = pc]

Idle == [pc |-> "idle", time |-> 0, cancelled |-> FALSE, faulted |-> FALSE,
         retried |-> FALSE, toStart |-> FALSE, after |-> "recover"]

End(status, frame) ==
  /\ request' = Idle
  /\ reply' = [status |-> status, time |-> request.time, frame |-> frame,
               faulted |-> request.faulted \/ status \in {"cancelled", "unusable", "outOfMemory"}]

Fail(status) == End(status, None)

\* imageAtImpl(): AVERROR_EXIT is the cancellation if the token is set.
Interrupted == Fail("cancelled")

-----------------------------------------------------------------------------
(* A request begins.                                                       *)

\* RequestWindow::resolve: one frame of slack past the declared duration.
BeyondDuration(t) == info.duration # None /\ t > info.duration + 1

\* mutant: whether the source is open is not asked
RecoverFirst == "recover"

\* A source left closed is opened again before anything else.
FirstStep == IF source.open THEN "recover" ELSE "reopen"

Accept ==
  /\ At("idle")
  /\ \E t \in RequestTimes :
       IF BeyondDuration(t)
       THEN /\ reply' = [reply EXCEPT !.status = "refused", !.time = t, !.faulted = FALSE]
            /\ UNCHANGED request
       ELSE /\ request' = [Idle EXCEPT !.pc = FirstStep, !.time = t]
            /\ reply' = [reply EXCEPT !.status = "none"]
  /\ UNCHANGED <<file, source, io, at, info, position>>

Dirty == io.error \/ (source.interrupted /\ io.eof)

\* MediaSource::recoverAfterInterrupt with the pipeline's own.
RecoverClean ==
  /\ At("recover") /\ ~Dirty
  /\ source' = [source EXCEPT !.interrupted = FALSE]
  /\ Go("position")
  /\ UNCHANGED <<file, io, at, info, position, reply>>

\* mutant: the frames of the flushed decoder are kept
StillHeld == [position EXCEPT !.positioned = TRUE, !.atStart = FALSE]

\* Of a source that cannot seek it is still true how far it came, and only that.
CarriedForward == [Landed(FALSE) EXCEPT !.received = position.received]

\* Whatever was held is dropped, and the flushed demuxer may lose what it had read ahead.
Recover ==
  /\ At("recover") /\ Dirty
  /\ source' = [source EXCEPT !.interrupted = FALSE]
  /\ io' = IF Setting.verified THEN CleanIo ELSE io
  /\ IF ~Setting.verified /\ Setting.rewinds
     THEN request' = [request EXCEPT !.pc = "reopen", !.after = "position"] /\ position' = Nowhere /\ UNCHANGED at
     ELSE /\ Go("position")
          /\ IF info.seekable THEN position' = Nowhere /\ UNCHANGED at
             ELSE position' = CarriedForward /\ at' \in at..file.length
  /\ UNCHANGED <<file, info, reply>>

-----------------------------------------------------------------------------
(* Opening it again.                                                       *)

ReopenCancelled ==
  /\ At("reopen") /\ request.cancelled
  /\ Interrupted
  /\ UNCHANGED <<file, source, io, at, info, position>>

ReopenWith(p, sticky) ==
  /\ info' = Opened(Carried(p), source.failures)
  /\ source' = [source EXCEPT !.open = TRUE, !.interrupted = @ \/ sticky # CleanIo]
  /\ io' = sticky /\ at' = 0 /\ position' = Landed(TRUE)
  /\ UNCHANGED <<file, reply>>

Reopen ==
  /\ At("reopen") /\ ~request.cancelled
  /\ ReopenWith(Probed, CleanIo)
  /\ Go(request.after)

\* The token is set during the probe, which goes on with what it has.
ReopenCutShort ==
  /\ At("reopen") /\ ~request.cancelled /\ May("cancel")
  /\ \E p \in CutShort, error \in BOOLEAN : ReopenWith(p, [error |-> error, eof |-> TRUE])
  /\ request' = [request EXCEPT !.pc = request.after, !.cancelled = TRUE, !.faulted = TRUE]

\* Refused or interrupted before there is a stream: nothing is left of the
\* container, and StreamInfo stays as it was.  "unusable" stands for seekFailed
\* too, which is what a request already under way reports.
ReopenFails ==
  /\ At("reopen") /\ ~request.cancelled
  /\ \/ May("open") /\ Fail("unusable") /\ source' = [source EXCEPT !.open = FALSE, !.lost = TRUE]
     \/ May("cancel") /\ Fail("cancelled")
        /\ source' = [source EXCEPT !.open = FALSE, !.lost = TRUE, !.interrupted = TRUE]
  /\ io' = CleanIo /\ at' = 0 /\ position' = Nowhere
  /\ UNCHANGED <<file, info>>

-----------------------------------------------------------------------------
(* Positioning.                                                            *)

\* finishAtEof(), with a frame held: each is on screen until the next.
AnswerAtEnd ==
  IF Wanted = HeldStamp THEN End("ok", position.held) ELSE Fail("timeOutOfRange")

IsHeldFrameCovering == position.held # None /\ Wanted >= HeldStamp

AnswersFromHeld ==
  /\ IsHeldFrameCovering
  /\ IF position.pending # None THEN Wanted < position.received ELSE position.ended

\* The pending frame, or the end of the stream, rules out a later one.
AnswerFromHeld ==
  /\ At("position") /\ AnswersFromHeld
  /\ IF position.pending # None THEN End("ok", position.held) ELSE AnswerAtEnd
  /\ UNCHANGED <<file, source, io, at, info, position>>

CanPromotePending == position.pending # None /\ Wanted >= position.received
CanContinueFromHeld == IsHeldFrameCovering /\ position.pending = None /\ ~position.ended

CanDecodeForward ==
  /\ position.positioned /\ ~position.ended
  /\ position.received # None /\ Wanted >= position.received

AtUnreadStart ==
  position.positioned /\ ~position.ended /\ position.received = None /\ position.atStart

CanGoForward == CanPromotePending \/ CanContinueFromHeld \/ CanDecodeForward \/ AtUnreadStart

\* A pending frame becomes the held one.
GoForward ==
  /\ CanGoForward /\ Go("read")
  /\ position' = IF CanPromotePending THEN [position EXCEPT !.held = @ + 1, !.pending = None] ELSE position

\* Whichever of decoding on and seeking measured cheaper.
Position ==
  /\ At("position") /\ ~AnswersFromHeld /\ info.seekable
  /\ \/ GoForward
     \/ request' = [request EXCEPT !.pc = "seek", !.toStart = (request.time = 0)] /\ UNCHANGED position
  /\ UNCHANGED <<file, source, io, at, info, reply>>

PositionUnseekable ==
  /\ At("position") /\ ~AnswersFromHeld /\ ~info.seekable
  /\ \/ GoForward /\ UNCHANGED reply
     \/ /\ ~CanGoForward /\ Setting.rewinds
        /\ request' = [request EXCEPT !.pc = "reopen", !.after = "read"] /\ UNCHANGED <<position, reply>>
     \/ ~CanGoForward /\ ~Setting.rewinds /\ Fail("notSeekable") /\ UNCHANGED position
  /\ UNCHANGED <<file, source, io, at, info>>

\* A seek is a hint: it may land anywhere, and clears at most one of the two sticky flags.
Seek ==
  /\ At("seek")
  /\ at' \in (IF request.toStart THEN {0} ELSE 0..file.length)
  /\ io' \in {io, [io EXCEPT !.error = FALSE], [io EXCEPT !.eof = FALSE]}
  /\ source' = [source EXCEPT !.failures = IF request.toStart THEN @ ELSE 0]
  /\ file' = [file EXCEPT !.refused = IF request.toStart THEN @ ELSE 0]
  /\ position' = Landed(request.toStart)
  /\ Go("read")
  /\ UNCHANGED <<info, reply>>

\* noteSeekFailed() counts all but the seeks to the start; both re-open.
SeekFails ==
  /\ At("seek") /\ May("seek")
  /\ LET failures == IF request.toStart THEN source.failures ELSE source.failures + 1
     IN /\ source' = [source EXCEPT !.failures = failures]
        /\ info' = [info EXCEPT !.seekable = @ /\ failures < MaxSeekFailures]
        /\ file' = [file EXCEPT !.refused = IF request.toStart THEN @ ELSE @ + 1]
  /\ position' = Nowhere
  /\ request' = [request EXCEPT !.pc = "reopen", !.after = "read"]
  /\ UNCHANGED <<io, at, reply>>

\* mutant: an interrupted seek counts as a failed one
CountedInterrupt == [source EXCEPT !.interrupted = TRUE, !.failures = @ + 1]
InterruptedSource == [source EXCEPT !.interrupted = TRUE]

\* The demuxer may have moved, which is why the next request positions; nothing is counted.
SeekInterrupted ==
  /\ At("seek") /\ (May("cancel") \/ request.cancelled)
  /\ source' = InterruptedSource
  /\ info' = [info EXCEPT !.seekable = @ /\ source'.failures < MaxSeekFailures]
  /\ io' = [error |-> TRUE, eof |-> TRUE]
  /\ position' = Nowhere
  /\ Interrupted
  /\ UNCHANGED <<file, at>>

-----------------------------------------------------------------------------
(* Reading.                                                                *)

\* A selection given up under its skip window repositions on a source that can.
GivenUp == IF info.seekable THEN [position EXCEPT !.positioned = FALSE] ELSE position

ReadCancelled ==
  /\ At("read") /\ request.cancelled
  /\ Interrupted /\ position' = GivenUp
  /\ UNCHANGED <<file, source, io, at, info>>

CanRead == At("read") /\ ~request.cancelled
PacketRead == CanRead /\ io = CleanIo /\ at < file.length

\* Time stamps are the container's, or counted from the last frame that came out.
NextStamp ==
  IF Setting.stamped THEN at
  ELSE IF position.held = None THEN 0
  ELSE position.received + 1

FrameRead == PacketRead /\ (position.held # None \/ at \in KeyFrames)

\* Nothing a flushed decoder can make a frame of.
SkipToKeyFrame ==
  /\ PacketRead /\ ~FrameRead
  /\ at' = at + 1
  /\ UNCHANGED <<file, source, io, info, position, request, reply>>

HoldReceived ==
  /\ at' = at + 1
  /\ position' = [position EXCEPT !.received = NextStamp, !.held = at]
  /\ UNCHANGED <<file, source, io, info>>

ReadFrame ==
  /\ FrameRead /\ NextStamp < Wanted
  /\ HoldReceived
  /\ UNCHANGED <<request, reply>>

AnswerRead ==
  /\ FrameRead /\ NextStamp = Wanted
  /\ HoldReceived
  /\ End("ok", at)

\* The first frame past the target proves that the held one covers it.
AnswerHeld ==
  /\ FrameRead /\ NextStamp > Wanted /\ position.held # None
  /\ at' = at + 1
  /\ position' = [position EXCEPT !.received = NextStamp, !.pending = at]
  /\ End("ok", position.held)
  /\ UNCHANGED <<file, source, io, info>>

\* With none held, the target comes before what this source can still yield.
Overshot == FrameRead /\ NextStamp > Wanted /\ position.held = None

AnswerFirst ==
  /\ Overshot /\ (position.atStart \/ ~info.seekable)
  /\ HoldReceived
  /\ End("clampedToFirst", at)

\* avio_read() returns its old error: an interruption without a cancellation.
ReadStaleError ==
  /\ CanRead /\ io.error
  /\ Fail("stale") /\ position' = GivenUp
  /\ UNCHANGED <<file, source, io, at, info>>

\* The demuxer passes the interrupt on, or makes an end of file of it; the decode
\* loop looks at the token before it concludes anything from that.
ReadInterrupted ==
  /\ CanRead /\ May("cancel")
  /\ source' = [source EXCEPT !.interrupted = TRUE]
  /\ \E error \in BOOLEAN : io' = [error |-> error, eof |-> TRUE]
  /\ Interrupted /\ position' = GivenUp
  /\ UNCHANGED <<file, at, info>>

EndRead == CanRead /\ ~io.error /\ (io.eof \/ at >= file.length)

\* The stream ends at the target or before it, or no frame of it can be had any more.
EndOfStream ==
  /\ EndRead /\ (position.held # None \/ ~info.seekable \/ (position.atStart /\ request.retried))
  /\ position' = [position EXCEPT !.ended = TRUE]
  /\ file' = [file EXCEPT !.ended = file.length]
  /\ IF position.held # None THEN AnswerAtEnd ELSE Fail("endOfStream")
  /\ UNCHANGED <<source, io, at, info>>

\* mutant: it seeks for the target again
RetreatInPlace == [request EXCEPT !.pc = "seek"]
Retreat == [request EXCEPT !.pc = "seek", !.toStart = TRUE]

\* The landing was past the target, or in the tail, as far as anyone can tell.
BackOff ==
  /\ Overshot \/ (EndRead /\ position.held = None)
  /\ info.seekable /\ ~position.atStart
  /\ request' = Retreat
  /\ UNCHANGED <<file, source, io, at, info, position, reply>>

\* retryAfterEmptyEof(): not even from the start; cleared and tried once more.
RetryAfterEmptyEof ==
  /\ EndRead /\ position.held = None /\ info.seekable /\ position.atStart /\ ~request.retried
  /\ io' = IF Setting.verified THEN CleanIo ELSE io
  /\ position' = Nowhere
  /\ request' = [request EXCEPT !.retried = TRUE, !.after = "position",
                                !.pc = IF Setting.verified THEN "position" ELSE "reopen"]
  /\ UNCHANGED <<file, source, at, info, reply>>

-----------------------------------------------------------------------------
(* The environment.                                                        *)

\* The token is set between two steps.
Cancel ==
  /\ ~At("idle") /\ ~request.cancelled /\ May("cancel")
  /\ request' = [request EXCEPT !.cancelled = TRUE, !.faulted = TRUE]
  /\ UNCHANGED <<file, source, io, at, info, position, reply>>

\* A file still being written.
Grow ==
  /\ May("grow") /\ file.length < MaxLength
  /\ file' = [file EXCEPT !.length = @ + 1]
  /\ UNCHANGED <<source, io, at, info, position, request, reply>>

\* std::bad_alloc, caught by imageAt(): the next request repositions.
Unwind ==
  /\ request.pc \in {"position", "seek", "read"} /\ May("memory")
  /\ position' = Nowhere
  /\ Fail("outOfMemory")
  /\ UNCHANGED <<file, source, io, at, info>>

-----------------------------------------------------------------------------

\* open() has decoded the first frame.
Init ==
  /\ \E s \in Settings, n \in 1..MaxLength :
       /\ n = MaxLength \/ "grow" \in s.faults
       /\ file = [setting |-> s, length |-> n, opened |-> n, ended |-> 0, refused |-> 0]
  /\ source = [open |-> TRUE, interrupted |-> FALSE, failures |-> 0, lost |-> FALSE]
  /\ io = CleanIo /\ at = 1
  /\ info = Opened(Probed, 0)
  /\ position = [Landed(TRUE) EXCEPT !.received = 0, !.held = 0]
  /\ request = Idle
  /\ reply = [status |-> "none", time |-> 0, frame |-> None, faulted |-> FALSE]

Recovers == RecoverClean \/ Recover \/ ReopenCancelled \/ Reopen \/ ReopenCutShort \/ ReopenFails
Moves == AnswerFromHeld \/ Position \/ PositionUnseekable \/ Seek \/ SeekFails \/ SeekInterrupted
Reads ==
  \/ ReadCancelled \/ ReadStaleError \/ ReadInterrupted
  \/ SkipToKeyFrame \/ ReadFrame \/ AnswerRead \/ AnswerHeld \/ AnswerFirst
Ends == EndOfStream \/ BackOff \/ RetryAfterEmptyEof
Environment == Cancel \/ Grow \/ Unwind

Next == Accept \/ Recovers \/ Moves \/ Reads \/ Ends \/ Environment

Spec == Init /\ [][Next]_vars

\* The thread that runs a request keeps running.
FairSpec == Spec /\ WF_vars(Recovers \/ Moves \/ Reads \/ Ends)

=============================================================================
