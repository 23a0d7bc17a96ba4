--------------------------- MODULE HardwareLadder ---------------------------
(* How the pipeline chooses a decoder at open, what it does when a hardware  *)
(* decoder fails afterwards, and what it publishes about both: the ladder of *)
(* stills_FramePipeline.h over stills_VideoDecoder.h.  Which frame answers a *)
(* request is FramePipeline's subject; here a request yields a frame, a      *)
(* hardware fault or another failure, and moves the demuxer off the start.   *)
EXTENDS Integers, Sequences

CONSTANT Settings   \* options, machine and container, and what may fail

VARIABLES
  setting,     \* the one of Settings the pipeline lives in
  source,      \* open, where the demuxer stands, whether brokenReason is set
  codec,       \* the VideoDecoder
  positioned,  \* Position::positioned
  firstFrame,  \* what firstFrameTs was taken from: "unknown", "first", "inside"
  published,   \* the ActiveDecoder snapshot
  ctl,         \* the step of open() or imageAt() under way
  reply,       \* how the last request ended
  history      \* rebuilds in this run of failures; a failure that is not hardware's

\* A source seeks, or can at least be opened again, or is a pipe; "none" is no
\* device type's name.
ASSUME SettingsAssumption ==
  \A s \in Settings :
    /\ s.io \in {"seekable", "reopenable", "pipe"}
    /\ \A i \in DOMAIN s.configs : s.configs[i].type # "none"

vars == <<setting, source, codec, positioned, firstFrame, published, ctl, reply, history>>
decoding == <<source, codec, positioned>>

None == "none"
Fails(fault) == fault \in setting.faults
Strict == setting.policy = "requireHardware"
Seekable == setting.io = "seekable"

-----------------------------------------------------------------------------
(* The candidates. *)

Preference == <<"videotoolbox", "vaapi", "d3d11va", "dxva2", "qsv", "vdpau",
                "cuda", "vulkan", "opencl", "drm", "mediacodec">>

Rank(type) == IF \E i \in DOMAIN Preference : Preference[i] = type
              THEN CHOOSE i \in DOMAIN Preference : Preference[i] = type
              ELSE Len(Preference) + 1

IsHardwareWorthwhile ==
  setting.codec \in {"hevc", "av1", "vp9", "vvc"} /\ setting.pixels >= 1280 * 720

Policy == IF setting.policy # "automatic" THEN setting.policy
          ELSE IF IsHardwareWorthwhile THEN "preferHardware" ELSE "softwareOnly"

TypeOf(i) == setting.configs[i].type

\* The decoder's configurations that run on a device, the first of each type.
Candidates ==
  LET usable == {i \in DOMAIN setting.configs :
                   setting.configs[i].deviceContext /\ setting.wanted \in {"any", TypeOf(i)}}
  IN IF Policy = "softwareOnly" THEN {}
     ELSE {i \in usable : \A j \in usable : j < i => TypeOf(j) # TypeOf(i)}

\* By preference; among types of no known preference libavcodec's order stands.
Before(i, j) == Rank(TypeOf(i)) < Rank(TypeOf(j)) \/ (Rank(TypeOf(i)) = Rank(TypeOf(j)) /\ i < j)
IsBest(i, tries) == \A j \in tries : ~Before(j, i)

\* mutant: on a pipe too
TriesAlways == Candidates

\* A pipe cannot be rewound after a rejected candidate, so none is tried.
Tries == IF setting.io = "pipe" THEN {} ELSE Candidates

WhyNone == IF Policy = "softwareOnly" THEN "policy"
           ELSE IF Candidates = {} THEN "unsupported" ELSE "pipe"

-----------------------------------------------------------------------------
(* The decoder. *)

NoCodec == [built |-> None, active |-> FALSE, device |-> None, got |-> FALSE, declined |-> FALSE,
            seen |-> FALSE, fault |-> FALSE, retried |-> FALSE]

\* build() first gives up everything but what is known of the previous decoder.
Dropped(c) == [c EXCEPT !.built = None, !.device = None, !.got = FALSE, !.declined = FALSE, !.fault = FALSE]

\* mutant: a software context leaves hardwareActive set
OpenedStillActive(c, candidate) ==
  [Dropped(c) EXCEPT !.built = IF candidate = None THEN "software" ELSE "hardware",
                     !.active = c.active \/ candidate # None, !.device = candidate, !.seen = FALSE]

Opened(c, candidate) ==
  [Dropped(c) EXCEPT !.built = IF candidate = None THEN "software" ELSE "hardware",
                     !.active = candidate # None, !.device = candidate, !.seen = FALSE]

\* What build() may leave behind when it fails: without a device, or with one
\* the context could not be opened on.
Unopened(c, candidate) ==
  (IF candidate = None /\ Fails("software") THEN {Dropped(c)} ELSE {})
  \cup (IF candidate # None /\ Fails("device") THEN {Dropped(c)} ELSE {})
  \cup (IF candidate # None /\ Fails("open") THEN {[Dropped(c) EXCEPT !.device = candidate]} ELSE {})

\* mutant: the most preferred one
FirstCandidate(c) == IF c.active THEN TypeOf(CHOOSE i \in Tries : IsBest(i, Tries)) ELSE None
\* mutant: the ladder is climbed again
CandidateAnew(c) == IF c.active THEN c.device ELSE IF Tries = {} THEN None ELSE TypeOf(CHOOSE i \in Tries : IsBest(i, Tries))

Candidate(c) == IF c.active THEN c.device ELSE None

DidAccept(c) == c.got /\ ~c.declined

\* A frame out of decoder c: hwGetFormat() took the hardware format or not.
Surface(c) == [c EXCEPT !.seen = TRUE, !.got = TRUE]
Declined(c) == [c EXCEPT !.seen = TRUE, !.declined = TRUE]

\* A first frame, as it should be; the formats may have been offered twice.
FirstFrames ==
  IF codec.built = "software" THEN {[codec EXCEPT !.seen = TRUE]}
  ELSE {Surface(codec)} \cup (IF Fails("decline") THEN {Surface(Declined(codec))} ELSE {})

-----------------------------------------------------------------------------
(* The container.  An outcome is what the step leaves of source, codec and   *)
(* positioned, whether it succeeded, and if not whether something other than *)
(* hardware is to blame.                                                     *)

Outcome(ok, src, c, at, harm) ==
  [ok |-> ok, source |-> src, codec |-> c, positioned |-> at, harm |-> harm]

\* reopen(): the decoder goes first, then the container, then the decoder again.
ReopenOutcomes ==
  LET released == [codec EXCEPT !.built = None]
      candidate == Candidate(codec)
      lost == [source EXCEPT !.open = FALSE, !.broken = TRUE]
      again == [source EXCEPT !.open = TRUE, !.place = "start"]
  IN {Outcome(TRUE, again, Opened(released, candidate), TRUE, FALSE)}
     \cup (IF Fails("reopen") THEN {Outcome(FALSE, lost, released, FALSE, TRUE)} ELSE {})
     \cup {Outcome(FALSE, lost, c, FALSE, candidate = None) : c \in Unopened(released, candidate)}

\* seekToStart(): re-opens what cannot seek, and what failed to.
StartOutcomes ==
  CASE setting.io = "pipe" -> {Outcome(FALSE, source, codec, positioned, FALSE)}
    [] setting.io = "reopenable" -> ReopenOutcomes
    [] Seekable -> {Outcome(TRUE, [source EXCEPT !.place = "start"], codec, TRUE, FALSE)}
                   \cup (IF Fails("seek") THEN ReopenOutcomes ELSE {})

\* mutant: every probe starts from where the demuxer stands
AsItStands == {Outcome(TRUE, source, codec, TRUE, FALSE)}

\* probeFirstFrame() trusts a demuxer of no known position to stand at the start.
ProbePositions == IF positioned THEN StartOutcomes ELSE AsItStands

Leave(outcome) ==
  /\ source' = outcome.source /\ codec' = outcome.codec /\ positioned' = outcome.positioned

-----------------------------------------------------------------------------
(* The ladder.  ctl.why is the rung the decoder under construction is for:   *)
(* "candidate" and "software" at open, "rebuild" and "fallback" after it.    *)

Step(pc) == ctl' = [ctl EXCEPT !.pc = pc]
Build(why, candidate) == ctl' = [ctl EXCEPT !.pc = "build", !.why = why, !.candidate = candidate]
NextRung == ctl' = [ctl EXCEPT !.pc = "ladder", !.reason = "attempts"]
Close(failed) == ctl' = [ctl EXCEPT !.pc = "closed", !.result = failed]
Publish(reason) == published' = [hardware |-> FALSE, type |-> None, reason |-> reason]
Harmed(harmful) == history' = [history EXCEPT !.harm = @ \/ harmful]
Fail == reply' = "failed" /\ Step("idle")

Init ==
  /\ setting \in Settings
  /\ source = [open |-> TRUE, place |-> "start", broken |-> FALSE]
  /\ codec = NoCodec
  /\ positioned = FALSE
  /\ firstFrame = "unknown"
  /\ published = [hardware |-> FALSE, type |-> None, reason |-> None]
  /\ ctl = [pc |-> "ladder", why |-> "candidate", candidate |-> None, queue |-> Tries,
            reason |-> WhyNone, result |-> None]
  /\ reply = None
  /\ history = [rebuilds |-> 0, harm |-> FALSE]

TryCandidate ==
  /\ ctl.pc = "ladder"
  /\ \E i \in ctl.queue :
       /\ IsBest(i, ctl.queue)
       /\ ctl' = [ctl EXCEPT !.pc = "build", !.candidate = TypeOf(i), !.queue = @ \ {i}]
  /\ UNCHANGED <<setting, decoding, firstFrame, published, reply, history>>

NoHardwareLeft ==
  /\ ctl.pc = "ladder" /\ ctl.queue = {}
  /\ IF Strict THEN Close("hardwareUnavailable") ELSE Build("software", None)
  /\ UNCHANGED <<setting, decoding, firstFrame, published, reply, history>>

\* rebuildSoftware() publishes before it probes.
Report == IF ctl.why = "fallback" THEN Publish("died") ELSE UNCHANGED published

BuildSucceeds ==
  /\ ctl.pc = "build" /\ source.open
  /\ codec' = Opened(codec, ctl.candidate)
  /\ Report
  /\ Step("probe")
  /\ UNCHANGED <<setting, source, positioned, firstFrame, reply, history>>

BuildFails ==
  /\ ctl.pc = "build" /\ source.open
  /\ \E c \in Unopened(codec, ctl.candidate) :
       codec' = IF ctl.why = "rebuild" THEN [c EXCEPT !.fault = TRUE] ELSE c
  /\ CASE ctl.why = "candidate" -> NextRung /\ UNCHANGED <<source, reply>>
       [] ctl.why = "software" -> Close("decoderOpenFailed") /\ UNCHANGED <<source, reply>>
       [] ctl.why = "rebuild" -> Step("second") /\ UNCHANGED <<source, reply>>
       [] ctl.why = "fallback" -> Fail /\ source' = [source EXCEPT !.broken = TRUE]
  /\ Harmed(ctl.candidate = None)
  /\ UNCHANGED <<setting, positioned, firstFrame, published>>

\* Where each rung goes when the probe failed, decoder c left behind.
ProbeFailed(c, harmful) ==
  /\ codec' = IF ctl.why = "rebuild" THEN [c EXCEPT !.fault = TRUE] ELSE c
  /\ CASE ctl.why = "candidate" -> NextRung /\ UNCHANGED <<published, reply>>
       [] ctl.why = "software" -> Close("probe") /\ UNCHANGED <<published, reply>>
       [] ctl.why = "rebuild" -> Step("second") /\ UNCHANGED <<published, reply>>
       [] ctl.why = "fallback" -> Publish("probe") /\ Fail
  /\ Harmed(harmful)

PositionProbe ==
  /\ ctl.pc = "probe"
  /\ \E outcome \in ProbePositions :
       /\ source' = outcome.source /\ positioned' = outcome.positioned
       /\ IF outcome.ok
          THEN codec' = outcome.codec /\ Step("probing") /\ UNCHANGED <<published, reply, history>>
          ELSE ProbeFailed(outcome.codec, outcome.harm)
  /\ UNCHANGED <<setting, firstFrame>>

\* What follows the first frame out of c.  Hardware that was ever offered no
\* format of ours is not what was asked for, whatever its frame is.
Probed(c) ==
  \/ /\ ctl.why = "candidate"
     /\ \/ ~DidAccept(c) /\ NextRung /\ UNCHANGED published
        \/ DidAccept(c) /\ Step("idle") /\ published' = [hardware |-> TRUE, type |-> c.device, reason |-> None]
  \/ ctl.why = "software" /\ Step("idle") /\ Publish(ctl.reason)
  \/ ctl.why = "rebuild" /\ Step(IF DidAccept(c) THEN "extract" ELSE "second") /\ UNCHANGED published
  \/ ctl.why = "fallback" /\ Step("extract") /\ UNCHANGED published

\* The first frame came: a surface from hardware, a picture from software.
ProbeDecodes ==
  /\ ctl.pc = "probing"
  /\ firstFrame' = IF source.place = "start" THEN "first" ELSE "inside"
  /\ source' = [source EXCEPT !.place = "inside"]
  /\ \E c \in FirstFrames :
       /\ Probed(c)
       /\ codec' = IF ctl.why = "rebuild" /\ ~DidAccept(c) THEN [c EXCEPT !.fault = TRUE] ELSE c
  /\ UNCHANGED <<setting, positioned, reply, history>>

\* Hardware gave a software frame, or an error, which before its first frame is
\* always a fault; or the stream gave none.
ProbeFails ==
  /\ ctl.pc = "probing"
  /\ source' = [source EXCEPT !.place = "inside"]
  /\ \/ codec.built = "hardware" /\ Fails("decline") /\ ProbeFailed(Declined(codec), FALSE)
     \/ codec.built = "hardware" /\ Fails("fault") /\ ProbeFailed([codec EXCEPT !.fault = TRUE], FALSE)
     \/ Fails("error") /\ ProbeFailed(codec, TRUE)
  /\ UNCHANGED <<setting, positioned, firstFrame>>

-----------------------------------------------------------------------------
(* A request. *)

\* The steps after an attempt: the same hardware once, then software, then the
\* answer.  An attempt is never followed by a rung above its own.
AfterAttempt == CASE ctl.why = "request" -> "first"
                  [] ctl.why = "rebuild" -> "second"
                  [] ctl.why = "fallback" -> "finish"

Attempted(result) ==
  ctl' = [ctl EXCEPT !.pc = IF result = "surface" THEN "convert" ELSE AfterAttempt, !.result = result]

Request ==
  /\ ctl.pc = "idle"
  /\ ctl' = [ctl EXCEPT !.pc = "start", !.why = "request", !.result = None]
  /\ codec' = [codec EXCEPT !.fault = FALSE]
  /\ history' = [history EXCEPT !.harm = FALSE]
  /\ UNCHANGED <<setting, source, positioned, firstFrame, published, reply>>

Usable == source.open /\ codec.built # None

StartOrRevive ==
  /\ ctl.pc = "start"
  /\ \/ Usable /\ Step("extract") /\ UNCHANGED <<decoding, history>>
     \/ /\ ~Usable
        /\ \E outcome \in ReopenOutcomes :
             /\ Leave(outcome)
             /\ IF outcome.ok THEN Step("extract") /\ UNCHANGED history
                ELSE Harmed(outcome.harm) /\ Attempted("failed")
  /\ UNCHANGED <<setting, firstFrame, published, reply>>

\* Positioning had to re-open the source (positionFor(), seekOrReopen()).
Rewind ==
  /\ ctl.pc = "extract"
  /\ setting.io = "reopenable" \/ (Seekable /\ Fails("seek"))
  /\ \E outcome \in ReopenOutcomes :
       /\ Leave(outcome)
       /\ IF outcome.ok THEN UNCHANGED <<ctl, history>>
          ELSE Harmed(outcome.harm) /\ Attempted("failed")
  /\ UNCHANGED <<setting, firstFrame, published, reply>>

Select ==
  /\ ctl.pc = "extract"
  /\ source' = [source EXCEPT !.place = "inside"]
  /\ positioned' \in {positioned, TRUE}
  /\ \/ codec.built = "hardware" /\ codec' = Surface(codec) /\ Attempted("surface")
     \/ codec.built = "hardware" /\ Fails("decline") /\ codec' = Declined(codec) /\ Attempted("picture")
     \/ codec.built = "software" /\ codec' = [codec EXCEPT !.seen = TRUE] /\ Attempted("picture")
  /\ UNCHANGED <<setting, firstFrame, published, reply, history>>

\* A failed selection under a skip window forgets the position, on any source
\* that could get it back.
SelectFails ==
  /\ ctl.pc = "extract"
  /\ source' = [source EXCEPT !.place = "inside"]
  /\ positioned' \in (IF Seekable THEN BOOLEAN ELSE {positioned})
  /\ \/ codec.built = "hardware" /\ Fails("fault") /\ codec' = [codec EXCEPT !.fault = TRUE] /\ UNCHANGED history
     \/ Fails("error") /\ UNCHANGED codec /\ Harmed(TRUE)
  /\ Attempted("failed")
  /\ UNCHANGED <<setting, firstFrame, published, reply>>

Convert ==
  /\ ctl.pc = "convert"
  /\ \/ Attempted("picture") /\ UNCHANGED codec
     \/ Fails("download") /\ Attempted("failed") /\ codec' = [codec EXCEPT !.fault = TRUE]
  /\ UNCHANGED <<setting, source, positioned, firstFrame, published, reply, history>>

Failed == ctl.result = "failed"
\* mutant: as often as it fails
RebuildsAlways == Failed /\ codec.fault /\ codec.active

ShouldRebuild == Failed /\ codec.fault /\ codec.active /\ ~codec.retried

RebuildHardware ==
  /\ ctl.pc = "first"
  /\ IF ShouldRebuild
     THEN /\ codec' = [codec EXCEPT !.fault = (Candidate(codec) = None), !.retried = TRUE]
          /\ IF Candidate(codec) = None THEN Step("second") ELSE Build("rebuild", Candidate(codec))
          /\ history' = [history EXCEPT !.rebuilds = @ + 1]
     ELSE Step("second") /\ UNCHANGED <<codec, history>>
  /\ UNCHANGED <<setting, source, positioned, firstFrame, published, reply>>

FallBackToSoftware ==
  /\ ctl.pc = "second"
  /\ IF codec.fault /\ Failed
     THEN /\ codec' = [codec EXCEPT !.fault = FALSE]
          /\ IF Strict THEN Fail ELSE Build("fallback", None) /\ UNCHANGED reply
     ELSE Step("finish") /\ UNCHANGED <<codec, reply>>
  /\ UNCHANGED <<setting, source, positioned, firstFrame, published, history>>

Finish ==
  /\ ctl.pc = "finish"
  /\ codec' = IF ~Failed /\ codec.active THEN [codec EXCEPT !.retried = FALSE] ELSE codec
  /\ history' = IF ~Failed /\ codec.active THEN [history EXCEPT !.rebuilds = 0] ELSE history
  /\ reply' = IF Failed THEN "failed" ELSE "image"
  /\ Step("idle")
  /\ UNCHANGED <<setting, source, positioned, firstFrame, published>>

Next ==
  \/ TryCandidate \/ NoHardwareLeft \/ BuildSucceeds \/ BuildFails
  \/ PositionProbe \/ ProbeDecodes \/ ProbeFails
  \/ Request \/ StartOrRevive \/ Rewind \/ Select \/ SelectFails \/ Convert
  \/ RebuildHardware \/ FallBackToSoftware \/ Finish

Spec == Init /\ [][Next]_vars

=============================================================================
