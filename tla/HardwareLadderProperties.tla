---------------------- MODULE HardwareLadderProperties ----------------------
(* What the decoder ladder promises: of the frame it remembers as the first, *)
(* of a request that meets a hardware fault, and of what it publishes.       *)
EXTENDS HardwareLadder

Idle == ctl.pc = "idle"
Types == {setting.configs[i].type : i \in DOMAIN setting.configs}

\* Every variable has its type, and the decoder's own members agree: a hardware
\* context has its device, and a software one was built as such.
TypeOK ==
  /\ setting \in Settings
  /\ source \in [open : BOOLEAN, place : {"start", "inside"}, broken : BOOLEAN]
  /\ codec \in [built : {None, "hardware", "software"}, active : BOOLEAN, device : Types \cup {None},
                got : BOOLEAN, declined : BOOLEAN, seen : BOOLEAN, fault : BOOLEAN, retried : BOOLEAN]
  /\ codec.built = "hardware" => codec.active /\ codec.device # None
  /\ codec.built = "software" => ~codec.active /\ codec.device = None
  /\ positioned \in BOOLEAN
  /\ firstFrame \in {"unknown", "first", "inside"}
  /\ published \in [hardware : BOOLEAN, type : Types \cup {None},
                    reason : {None, "policy", "unsupported", "pipe", "attempts", "died", "probe"}]
  /\ ctl \in [pc : {"ladder", "build", "probe", "probing", "idle", "start", "extract", "convert",
                    "first", "second", "finish", "closed"},
              why : {"candidate", "software", "request", "rebuild", "fallback"},
              candidate : Types \cup {None}, queue : SUBSET DOMAIN setting.configs,
              reason : {"policy", "unsupported", "pipe", "attempts"},
              result : {None, "surface", "picture", "failed", "hardwareUnavailable", "decoderOpenFailed", "probe"}]
  /\ reply \in {None, "image", "failed"}
  /\ history \in [rebuilds : Nat, harm : BOOLEAN]

\* Whatever candidates were tried and rejected on the way, the frame open()
\* remembers as the first of the stream is the first (probeFirstFrame()'s comment).
FirstFrameAtOpen == Idle /\ reply = None => firstFrame = "first"

\* The same for every later probe too: a rebuilt decoder's first frame, from which
\* firstFrameTs is taken again, is the stream's.
FirstFrameIsFirst == firstFrame # "inside"

\* Hardware alone never fails a caller: open() and a request fail only if
\* hardware was required, or something other than hardware failed as well.
FaultsAreAbsorbed ==
  ctl.pc = "closed" \/ (Idle /\ reply = "failed") => Strict \/ history.harm

\* Between two frames served by hardware the hardware decoder is rebuilt at most
\* once, over however many requests (shouldRebuildHardwareOnce()).
OneRebuildPerRun == history.rebuilds <= 1

\* What the snapshot tells other threads between requests is the path in use: while
\* it names a device the hardware decoder runs on that one, a rebuild or a re-open
\* never having moved to another candidate; and a software decoder is published as
\* one, with its reason, unless a rebuild broke the generator or hardware was required.
PublishedPathIsInUse ==
  Idle =>
    /\ published.hardware /\ codec.built = "hardware" => published.type = codec.device
    /\ codec.built = "software" /\ ~source.broken /\ ~Strict =>
         ~published.hardware /\ published.reason # None

\* Once the ladder has come down to software it never climbs back.
SoftwareIsFinal == [][codec.built = "software" => codec'.built # "hardware"]_vars

\* A decoder is only ever built for the stream of an open source: a re-open that
\* fails while a probe positions must not be followed by another build.
BuildsOnAnOpenSource == ctl.pc = "build" => source.open

\* Between requests the snapshot tells the path in use (getActiveDecoder()).
SnapshotIsTrue ==
  Idle /\ codec.built # None => (published.hardware <=> codec.built = "hardware")

=============================================================================
