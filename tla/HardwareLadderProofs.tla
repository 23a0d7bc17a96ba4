------------------------ MODULE HardwareLadderProofs ------------------------
(* Proofs about HardwareLadder, for any settings: any devices, in any order, *)
(* failing in any way, and any number of requests.                           *)
EXTENDS HardwareLadderProperties, TLAPS

Sources == [open : BOOLEAN, place : {"start", "inside"}, broken : BOOLEAN]
Codecs == [built : {None, "hardware", "software"}, active : BOOLEAN, device : Types \cup {None},
           got : BOOLEAN, declined : BOOLEAN, seen : BOOLEAN, fault : BOOLEAN, retried : BOOLEAN]

\* The conjuncts of TypeOK about one decoder.
Sane(c) ==
  /\ c \in Codecs
  /\ c.built = "hardware" => c.active /\ c.device # None
  /\ c.built = "software" => ~c.active /\ c.device = None

\* At each step of the ladder, the decoder at hand is the one of its rung.
Rungs ==
  /\ ctl.pc = "ladder" => ctl.why = "candidate" /\ codec.built # "software"
  /\ ctl.pc = "build" =>
       /\ ctl.why # "request"
       /\ ctl.why \in {"candidate", "rebuild"} => ctl.candidate # None /\ codec.built # "software"
       /\ ctl.why \in {"software", "fallback"} => ctl.candidate = None
  /\ ctl.pc \in {"probe", "probing"} =>
       /\ ctl.why # "request"
       /\ codec.built = IF ctl.why \in {"candidate", "rebuild"} THEN "hardware" ELSE "software"
  /\ ctl.pc \in {"start", "extract", "convert"} => ctl.why \in {"request", "rebuild", "fallback"}

\* A rebuild that no frame has followed yet is remembered by the decoder.
RetryNoted == history.rebuilds <= 1 /\ (history.rebuilds = 1 => codec.retried)

-----------------------------------------------------------------------------
(* What building, re-opening and positioning leave behind.                   *)

\* Giving up the decoder forgets the device and the fault, not the retry.
LEMMA DroppedFacts ==
  ASSUME NEW c \in Codecs
  PROVE  /\ Sane(Dropped(c)) /\ Dropped(c).built = None
         /\ Dropped(c).retried = c.retried /\ Dropped(c).device = None
BY DEF Dropped, Sane, Codecs, None

\* A decoder that was built is of the kind that was asked for.
LEMMA OpenedFacts ==
  ASSUME NEW c \in Codecs, NEW candidate \in Types \cup {None}
  PROVE  /\ Sane(Opened(c, candidate))
         /\ Opened(c, candidate).built = IF candidate = None THEN "software" ELSE "hardware"
         /\ Opened(c, candidate).retried = c.retried
BY DEF Opened, Dropped, Sane, Codecs, None

\* A decoder that was not built is none.
LEMMA UnopenedFacts ==
  ASSUME NEW c \in Codecs, NEW candidate \in Types \cup {None}, NEW d \in Unopened(c, candidate)
  PROVE  Sane(d) /\ d.built = None /\ d.retried = c.retried
<1>1. CASE d = Dropped(c)
  BY <1>1, DroppedFacts
<1>2. CASE d = [Dropped(c) EXCEPT !.device = candidate]
  BY <1>2 DEF Dropped, Sane, Codecs, None
<1> QED
  BY <1>1, <1>2 DEF Unopened

\* What an outcome promises of the decoder it leaves: nothing is retried or
\* forgotten, hardware comes only from hardware, and success builds the same kind.
Lawful(o) ==
  /\ o.ok \in BOOLEAN /\ o.harm \in BOOLEAN /\ o.positioned \in BOOLEAN
  /\ o.source \in Sources
  /\ Sane(o.codec)
  /\ o.codec.retried = codec.retried
  /\ o.codec.built = "hardware" => codec.active
  /\ o.ok /\ codec.built # None => o.codec.built = codec.built
  /\ ~o.ok => o.codec.built \in {None, codec.built}

\* Re-opening keeps the law.
LEMMA ReopenFacts ==
  ASSUME TypeOK, NEW o \in ReopenOutcomes
  PROVE  Lawful(o)
<1> DEFINE released == [codec EXCEPT !.built = None]
           candidate == Candidate(codec)
           lost == [source EXCEPT !.open = FALSE, !.broken = TRUE]
           again == [source EXCEPT !.open = TRUE, !.place = "start"]
<1>1. codec \in Codecs /\ Sane(codec)
  BY DEF TypeOK, Codecs, Sane
<1>2. released \in Codecs /\ Sane(released) /\ released.retried = codec.retried /\ released.built = None
  BY <1>1 DEF Codecs, Sane, None
<1>3. candidate \in Types \cup {None} /\ (candidate # None => codec.active)
  BY <1>1 DEF Candidate, Codecs
<1>4. lost \in Sources /\ again \in Sources
  BY DEF TypeOK, Sources
<1>5. codec.built = "hardware" => candidate # None
  BY <1>1 DEF Candidate, Sane
<1>6. codec.built = "software" => candidate = None
  BY <1>1 DEF Candidate, Sane
<1>7. CASE o = Outcome(TRUE, again, Opened(released, candidate), TRUE, FALSE)
  <2>1. /\ Sane(Opened(released, candidate))
        /\ Opened(released, candidate).built = IF candidate = None THEN "software" ELSE "hardware"
        /\ Opened(released, candidate).retried = codec.retried
    BY <1>2, <1>3, OpenedFacts
  <2>2. codec.built \in {None, "hardware", "software"}
    BY <1>1 DEF Codecs
  <2>3. codec.built # None => Opened(released, candidate).built = codec.built
    BY <2>1, <2>2, <1>5, <1>6
  <2> HIDE DEF released, candidate, again
  <2> QED
    BY <1>7, <2>1, <2>3, <1>3, <1>4 DEF Lawful, Outcome, None
<1>8. CASE o = Outcome(FALSE, lost, released, FALSE, TRUE)
  <2> HIDE DEF released, lost
  <2> QED
    BY <1>8, <1>2, <1>4 DEF Lawful, Outcome, None
<1>9. ASSUME NEW c \in Unopened(released, candidate),
             o = Outcome(FALSE, lost, c, FALSE, candidate = None)
      PROVE  Lawful(o)
  <2>1. Sane(c) /\ c.built = None /\ c.retried = codec.retried
    BY <1>2, <1>3, UnopenedFacts
  <2> HIDE DEF released, candidate, lost
  <2> QED
    BY <1>9, <2>1, <1>4 DEF Lawful, Outcome, None
<1> QED
  BY <1>7, <1>8, <1>9 DEF ReopenOutcomes

\* So does whatever a probe does to start from the first packet.
LEMMA ProbePositionsFacts ==
  ASSUME TypeOK, NEW o \in ProbePositions
  PROVE  Lawful(o)
<1>1. Sane(codec) /\ source \in Sources /\ [source EXCEPT !.place = "start"] \in Sources
  BY DEF TypeOK, Sane, Codecs, Sources
<1>2. codec.built = "hardware" => codec.active
  BY DEF TypeOK
<1>3. setting.io \in {"seekable", "reopenable", "pipe"}
  BY SettingsAssumption DEF TypeOK
<1>4. CASE o \in ReopenOutcomes
  BY <1>4, ReopenFacts
<1>5. CASE o = Outcome(FALSE, source, codec, positioned, FALSE)
  BY <1>5, <1>1, <1>2 DEF Lawful, Outcome, TypeOK
<1>6. CASE o = Outcome(TRUE, [source EXCEPT !.place = "start"], codec, TRUE, FALSE)
  BY <1>6, <1>1, <1>2 DEF Lawful, Outcome
<1>7. CASE o = Outcome(TRUE, source, codec, TRUE, FALSE)
  BY <1>7, <1>1, <1>2 DEF Lawful, Outcome
<1> QED
  BY <1>3, <1>4, <1>5, <1>6, <1>7 DEF ProbePositions, StartOutcomes, AsItStands, Seekable

-----------------------------------------------------------------------------
(* The inductive invariant.                                                  *)

Pcs == {"ladder", "build", "probe", "probing", "idle", "start", "extract", "convert",
        "first", "second", "finish", "closed"}
Whys == {"candidate", "software", "request", "rebuild", "fallback"}
Reasons == {"policy", "unsupported", "pipe", "attempts"}
Results == {None, "surface", "picture", "failed", "hardwareUnavailable", "decoderOpenFailed", "probe"}
Ctls == [pc : Pcs, why : Whys, candidate : Types \cup {None}, queue : SUBSET DOMAIN setting.configs,
         reason : Reasons, result : Results]
Snapshots == [hardware : BOOLEAN, type : Types \cup {None},
              reason : {None, "policy", "unsupported", "pipe", "attempts", "died", "probe"}]
Histories == [rebuilds : Nat, harm : BOOLEAN]

\* TypeOK, by its parts.
Typed ==
  /\ setting \in Settings /\ source \in Sources /\ Sane(codec) /\ positioned \in BOOLEAN
  /\ firstFrame \in {"unknown", "first", "inside"} /\ published \in Snapshots
  /\ ctl \in Ctls /\ reply \in {None, "image", "failed"} /\ history \in Histories

Good == Typed /\ Rungs /\ RetryNoted

LEMMA TypeParts == Typed <=> TypeOK
BY DEF Typed, TypeOK, Sources, Codecs, Sane, Snapshots, Ctls, Pcs, Whys, Reasons, Results, Histories

\* A device type is not "none".
LEMMA TypesAreNamed ==
  ASSUME setting \in Settings, NEW i \in DOMAIN setting.configs
  PROVE  TypeOf(i) \in Types /\ TypeOf(i) # None
BY SettingsAssumption DEF TypeOf, Types, None

\* The ladder starts with no decoder, no rebuild and a queue of configurations.
LEMMA InitGood == Init => Good
<1> SUFFICES ASSUME Init PROVE Good
  OBVIOUS
<1>1. Sane(codec) /\ codec.built = None
  BY DEF Init, NoCodec, Sane, Codecs, None
<1>2. Tries \in SUBSET DOMAIN setting.configs
  BY DEF Tries, Candidates
<1>3. WhyNone \in Reasons
  BY DEF WhyNone, Reasons
<1>4. ctl \in Ctls
  BY <1>2, <1>3 DEF Init, Ctls, Pcs, Whys, Results
<1>5. Typed
  BY <1>1, <1>4 DEF Typed, Init, Sources, Snapshots, Histories
<1>6. Rungs
  BY <1>1 DEF Init, Rungs, None
<1> QED
  BY <1>5, <1>6 DEF Good, RetryNoted, Init

\* What the actions share: the parts of the invariant before the step, and types
\* that the step cannot change.
LEMMA Before1 ==
  ASSUME Good, setting' = setting
  PROVE  /\ Types' = Types /\ Codecs' = Codecs /\ Ctls' = Ctls /\ Snapshots' = Snapshots
         /\ setting' \in Settings
BY DEF Good, Typed, Types, Codecs, Ctls, Snapshots

\* What moving the ladder on does to ctl.
LEMMA StepFacts ==
  ASSUME ctl \in Ctls, NEW pc \in Pcs, Step(pc)
  PROVE  ctl' \in Ctls /\ ctl'.pc = pc /\ ctl'.why = ctl.why
BY DEF Step, Ctls

LEMMA BuildFacts ==
  ASSUME ctl \in Ctls, NEW why \in Whys, NEW candidate \in Types \cup {None}, Build(why, candidate)
  PROVE  ctl' \in Ctls /\ ctl'.pc = "build" /\ ctl'.why = why /\ ctl'.candidate = candidate
BY DEF Build, Ctls, Pcs

LEMMA NextRungFacts ==
  ASSUME ctl \in Ctls, NextRung
  PROVE  ctl' \in Ctls /\ ctl'.pc = "ladder" /\ ctl'.why = ctl.why
BY DEF NextRung, Ctls, Pcs, Reasons

LEMMA CloseFacts ==
  ASSUME ctl \in Ctls, NEW failed \in Results, Close(failed)
  PROVE  ctl' \in Ctls /\ ctl'.pc = "closed"
BY DEF Close, Ctls, Pcs

LEMMA PublishFacts ==
  ASSUME NEW reason \in Reasons \cup {"died", "probe"}, Publish(reason)
  PROVE  published' \in Snapshots
BY DEF Publish, Snapshots, Reasons

LEMMA TryCandidateGood == ASSUME Good, TryCandidate PROVE Good'
<1>1. PICK i \in ctl.queue :
        ctl' = [ctl EXCEPT !.pc = "build", !.candidate = TypeOf(i), !.queue = @ \ {i}]
  BY DEF TryCandidate
<1>2. /\ UNCHANGED <<setting, source, codec, positioned, firstFrame, published, reply, history>>
      /\ ctl.pc = "ladder"
  BY DEF TryCandidate, decoding
<1>3. TypeOf(i) \in Types /\ TypeOf(i) # None
  BY TypesAreNamed DEF Good, Typed, Ctls
<1>4. ctl' \in Ctls /\ ctl'.pc = "build" /\ ctl'.why = ctl.why /\ ctl'.candidate = TypeOf(i)
  BY <1>1, <1>3 DEF Good, Typed, Ctls, Pcs
<1>5. Typed'
  BY <1>2, <1>4, Before1 DEF Good, Typed, Sane
<1>6. Rungs'
  BY <1>2, <1>3, <1>4 DEF Good, Rungs
<1> QED
  BY <1>2, <1>5, <1>6 DEF Good, RetryNoted

LEMMA NoHardwareLeftGood == ASSUME Good, NoHardwareLeft PROVE Good'
<1>1. /\ UNCHANGED <<setting, source, codec, positioned, firstFrame, published, reply, history>>
      /\ ctl.pc = "ladder"
  BY DEF NoHardwareLeft, decoding
<1>2. /\ ctl' \in Ctls
      /\ ctl'.pc = "closed" \/ (ctl'.pc = "build" /\ ctl'.why = "software" /\ ctl'.candidate = None)
  <2>1. ctl \in Ctls /\ "software" \in Whys /\ "hardwareUnavailable" \in Results
    BY DEF Good, Typed, Whys, Results
  <2>2. CASE Strict
    BY <2>1, <2>2, CloseFacts DEF NoHardwareLeft
  <2>3. CASE ~Strict
    BY <2>1, <2>3, BuildFacts DEF NoHardwareLeft
  <2> QED
    BY <2>2, <2>3
<1>3. Typed'
  BY <1>1, <1>2, Before1 DEF Good, Typed, Sane
<1>4. Rungs'
  BY <1>1, <1>2 DEF Rungs
<1> QED
  BY <1>1, <1>3, <1>4 DEF Good, RetryNoted

LEMMA BuildSucceedsGood == ASSUME Good, BuildSucceeds PROVE Good'
<1>1. /\ UNCHANGED <<setting, source, positioned, firstFrame, reply, history>>
      /\ ctl.pc = "build" /\ codec' = Opened(codec, ctl.candidate)
  BY DEF BuildSucceeds
<1>2. ctl' \in Ctls /\ ctl'.pc = "probe" /\ ctl'.why = ctl.why
  BY StepFacts DEF BuildSucceeds, Good, Typed, Pcs
<1>3. published' \in Snapshots
  <2>1. CASE Publish("died")
    BY <2>1, PublishFacts
  <2>2. CASE UNCHANGED published
    BY <2>2, <1>1, Before1 DEF Good, Typed
  <2> QED
    BY <2>1, <2>2 DEF BuildSucceeds, Report
<1>4. /\ Sane(codec') /\ codec'.retried = codec.retried
      /\ codec'.built = IF ctl.candidate = None THEN "software" ELSE "hardware"
  BY <1>1, OpenedFacts DEF Good, Typed, Sane, Ctls
<1>5. Typed'
  BY <1>1, <1>2, <1>3, <1>4, Before1 DEF Good, Typed, Sane
<1>6. Rungs'
  BY <1>1, <1>2, <1>4 DEF Good, Rungs, Typed, Ctls, Whys
<1> QED
  BY <1>1, <1>4, <1>5, <1>6 DEF Good, RetryNoted

\* The flags of the ladder's three verbs leave the rest of the decoder alone.
LEMMA FaultFacts ==
  ASSUME NEW c, Sane(c), NEW fault \in BOOLEAN
  PROVE  LET d == [c EXCEPT !.fault = fault] IN
         Sane(d) /\ d.built = c.built /\ d.active = c.active /\ d.retried = c.retried
BY DEF Sane, Codecs

LEMMA RetryFacts ==
  ASSUME NEW c, Sane(c), NEW fault \in BOOLEAN, NEW retried \in BOOLEAN
  PROVE  LET d == [c EXCEPT !.fault = fault, !.retried = retried] IN
         Sane(d) /\ d.built = c.built /\ d.retried = retried
BY DEF Sane, Codecs

\* A frame leaves the decoder what it is.
LEMMA FrameFacts ==
  ASSUME NEW c, Sane(c)
  PROVE  /\ Sane(Surface(c)) /\ Surface(c).built = c.built /\ Surface(c).retried = c.retried
         /\ Sane(Declined(c)) /\ Declined(c).built = c.built /\ Declined(c).retried = c.retried
         /\ LET d == [c EXCEPT !.seen = TRUE] IN
              Sane(d) /\ d.built = c.built /\ d.retried = c.retried
BY DEF Surface, Declined, Sane, Codecs

LEMMA HarmFacts ==
  ASSUME history \in Histories, NEW harmful \in BOOLEAN, Harmed(harmful)
  PROVE  history' \in Histories /\ history'.rebuilds = history.rebuilds
BY DEF Harmed, Histories

\* A failed rung leads to the next candidate, to the next rung, to an answer or
\* to a closed pipeline; only at open can it lead back to the candidates.
Descends ==
  /\ ctl' \in Ctls
  /\ ctl'.pc \in {"ladder", "closed", "second", "idle"}
  /\ ctl'.pc = "ladder" => ctl.why = "candidate" /\ ctl'.why = "candidate"

LEMMA ProbeFailedFacts ==
  ASSUME Good, setting' = setting, ctl.why # "request",
         NEW c, Sane(c), NEW harmful \in BOOLEAN, ProbeFailed(c, harmful)
  PROVE  /\ Descends
         /\ Sane(codec') /\ codec'.built = c.built /\ codec'.retried = c.retried
         /\ published' \in Snapshots /\ reply' \in {None, "image", "failed"}
         /\ history' \in Histories /\ history'.rebuilds = history.rebuilds
<1>1. ctl \in Ctls /\ ctl.why \in Whys /\ history \in Histories /\ published \in Snapshots
      /\ reply \in {None, "image", "failed"}
  BY DEF Good, Typed, Ctls
<1>2. Sane(codec') /\ codec'.built = c.built /\ codec'.retried = c.retried
  BY FaultFacts DEF ProbeFailed
<1>3. history' \in Histories /\ history'.rebuilds = history.rebuilds
  BY <1>1, HarmFacts DEF ProbeFailed
<1>4. CASE ctl.why = "candidate"
  <2>1. NextRung /\ UNCHANGED <<published, reply>>
    BY <1>4 DEF ProbeFailed
  <2> QED
    BY <1>1, <1>2, <1>3, <1>4, <2>1, NextRungFacts DEF Descends
<1>5. CASE ctl.why = "software"
  <2>1. Close("probe") /\ UNCHANGED <<published, reply>>
    BY <1>5 DEF ProbeFailed
  <2>2. "probe" \in Results
    BY DEF Results
  <2> QED
    BY <1>1, <1>2, <1>3, <2>1, <2>2, CloseFacts DEF Descends
<1>6. CASE ctl.why = "rebuild"
  <2>1. Step("second") /\ UNCHANGED <<published, reply>>
    BY <1>6 DEF ProbeFailed
  <2>2. "second" \in Pcs
    BY DEF Pcs
  <2> QED
    BY <1>1, <1>2, <1>3, <2>1, <2>2, StepFacts DEF Descends
<1>7. CASE ctl.why = "fallback"
  <2>1. Publish("probe") /\ reply' = "failed" /\ Step("idle")
    BY <1>7 DEF ProbeFailed, Fail
  <2>2. "idle" \in Pcs
    BY DEF Pcs
  <2> QED
    BY <1>1, <1>2, <1>3, <2>1, <2>2, StepFacts, PublishFacts DEF Descends
<1> QED
  BY <1>1, <1>4, <1>5, <1>6, <1>7 DEF Whys

LEMMA BuildFailsGood == ASSUME Good, BuildFails PROVE Good'
<1>1. /\ UNCHANGED <<setting, positioned, firstFrame, published>>
      /\ ctl.pc = "build" /\ Harmed(ctl.candidate = None)
  BY DEF BuildFails
<1>2. ctl \in Ctls /\ ctl.why \in Whys \ {"request"} /\ history \in Histories
      /\ ctl.candidate \in Types \cup {None} /\ codec \in Codecs
  BY <1>1 DEF Good, Typed, Ctls, Rungs, Sane
<1>3. Sane(codec') /\ codec'.built = None /\ codec'.retried = codec.retried
  <2>1. PICK c \in Unopened(codec, ctl.candidate) :
          codec' = IF ctl.why = "rebuild" THEN [c EXCEPT !.fault = TRUE] ELSE c
    BY DEF BuildFails
  <2>2. Sane(c) /\ c.built = None /\ c.retried = codec.retried
    BY <1>2, UnopenedFacts
  <2> QED
    BY <2>1, <2>2, FaultFacts
<1>4. history' \in Histories /\ history'.rebuilds = history.rebuilds
  BY <1>1, <1>2, HarmFacts
<1>5. Descends /\ source' \in Sources /\ reply' \in {None, "image", "failed"}
  <2>1. source \in Sources /\ [source EXCEPT !.broken = TRUE] \in Sources
        /\ reply \in {None, "image", "failed"}
    BY DEF Good, Typed, Sources
  <2>2. "second" \in Pcs /\ "idle" \in Pcs /\ "decoderOpenFailed" \in Results
    BY DEF Pcs, Results
  <2>3. CASE ctl.why = "candidate"
    <3>1. NextRung /\ UNCHANGED <<source, reply>>
      BY <2>3 DEF BuildFails
    <3> QED
      BY <1>2, <2>1, <2>3, <3>1, NextRungFacts DEF Descends
  <2>4. CASE ctl.why = "software"
    <3>1. Close("decoderOpenFailed") /\ UNCHANGED <<source, reply>>
      BY <2>4 DEF BuildFails
    <3> QED
      BY <1>2, <2>1, <2>2, <3>1, CloseFacts DEF Descends
  <2>5. CASE ctl.why = "rebuild"
    <3>1. Step("second") /\ UNCHANGED <<source, reply>>
      BY <2>5 DEF BuildFails
    <3> QED
      BY <1>2, <2>1, <2>2, <3>1, StepFacts DEF Descends
  <2>6. CASE ctl.why = "fallback"
    <3>1. reply' = "failed" /\ Step("idle") /\ source' = [source EXCEPT !.broken = TRUE]
      BY <2>6 DEF BuildFails, Fail
    <3> QED
      BY <1>2, <2>1, <2>2, <3>1, StepFacts DEF Descends
  <2> QED
    BY <1>2, <2>3, <2>4, <2>5, <2>6 DEF Whys
<1>6. Typed'
  BY <1>1, <1>3, <1>4, <1>5, Before1 DEF Good, Typed, Sane, Descends
<1>7. Rungs'
  BY <1>3, <1>5 DEF Rungs, Descends, None
<1> QED
  BY <1>3, <1>4, <1>6, <1>7 DEF Good, RetryNoted

LEMMA PositionProbeGood == ASSUME Good, PositionProbe PROVE Good'
<1>1. PICK o \in ProbePositions :
        /\ source' = o.source /\ positioned' = o.positioned
        /\ IF o.ok
           THEN codec' = o.codec /\ Step("probing") /\ UNCHANGED <<published, reply, history>>
           ELSE ProbeFailed(o.codec, o.harm)
  BY DEF PositionProbe
<1>2. UNCHANGED <<setting, firstFrame>> /\ ctl.pc = "probe"
  BY DEF PositionProbe
<1>3. TypeOK
  BY TypeParts DEF Good
<1>4. Lawful(o)
  BY <1>3, ProbePositionsFacts
<1>5. /\ ctl.why \in Whys \ {"request"} /\ ctl \in Ctls /\ codec.built # None
      /\ codec.built = IF ctl.why \in {"candidate", "rebuild"} THEN "hardware" ELSE "software"
  BY <1>2 DEF Good, Typed, Ctls, Rungs, None
<1>6. CASE o.ok
  <2>1. codec' = o.codec /\ Step("probing") /\ UNCHANGED <<published, reply, history>>
    BY <1>1, <1>6
  <2>2. ctl' \in Ctls /\ ctl'.pc = "probing" /\ ctl'.why = ctl.why
    BY <1>5, <2>1, StepFacts DEF Pcs
  <2>3. Sane(codec') /\ codec'.built = codec.built /\ codec'.retried = codec.retried
    BY <1>4, <1>5, <1>6, <2>1 DEF Lawful
  <2>4. Typed'
    BY <1>1, <1>2, <1>4, <2>1, <2>2, <2>3, Before1 DEF Good, Typed, Sane, Lawful
  <2>5. Rungs'
    BY <1>5, <2>2, <2>3 DEF Rungs
  <2> QED
    BY <2>1, <2>3, <2>4, <2>5 DEF Good, RetryNoted
<1>7. CASE ~o.ok
  <2>1. ProbeFailed(o.codec, o.harm) /\ Sane(o.codec) /\ o.harm \in BOOLEAN /\ o.codec.retried = codec.retried
    BY <1>1, <1>4, <1>7 DEF Lawful
  <2>2. /\ Descends /\ Sane(codec') /\ codec'.built = o.codec.built /\ codec'.retried = codec.retried
        /\ published' \in Snapshots /\ reply' \in {None, "image", "failed"}
        /\ history' \in Histories /\ history'.rebuilds = history.rebuilds
    BY <1>2, <1>5, <2>1, ProbeFailedFacts
  <2>3. ctl.why = "candidate" => o.codec.built # "software"
    BY <1>4, <1>5, <1>7 DEF Lawful, None
  <2>4. Typed'
    BY <1>1, <1>2, <1>4, <2>2, Before1 DEF Good, Typed, Sane, Lawful, Descends
  <2>5. Rungs'
    BY <2>2, <2>3 DEF Rungs, Descends
  <2> QED
    BY <2>2, <2>4, <2>5 DEF Good, RetryNoted
<1> QED
  BY <1>6, <1>7, <1>4 DEF Lawful

LEMMA ProbeDecodesGood == ASSUME Good, ProbeDecodes PROVE Good'
<1>1. PICK c \in FirstFrames :
        /\ Probed(c)
        /\ codec' = IF ctl.why = "rebuild" /\ ~DidAccept(c) THEN [c EXCEPT !.fault = TRUE] ELSE c
  BY DEF ProbeDecodes
<1>2. /\ UNCHANGED <<setting, positioned, reply, history>> /\ ctl.pc = "probing"
      /\ firstFrame' \in {"unknown", "first", "inside"}
      /\ source' \in Sources
  BY DEF ProbeDecodes, Good, Typed, Sources
<1>3. /\ ctl.why \in Whys \ {"request"} /\ ctl \in Ctls /\ published \in Snapshots /\ Sane(codec)
      /\ codec.built = IF ctl.why \in {"candidate", "rebuild"} THEN "hardware" ELSE "software"
  BY <1>2 DEF Good, Typed, Ctls, Rungs
<1>4. Sane(c) /\ c.built = codec.built /\ c.retried = codec.retried
  <2>1. Sane(Declined(codec)) /\ Declined(codec).built = codec.built /\ Declined(codec).retried = codec.retried
    BY <1>3, FrameFacts
  <2>2. c \in {[codec EXCEPT !.seen = TRUE], Surface(codec), Surface(Declined(codec))}
    BY DEF FirstFrames
  <2> QED
    BY <1>3, <2>1, <2>2, FrameFacts
<1>5. Sane(codec') /\ codec'.built = codec.built /\ codec'.retried = codec.retried
  BY <1>1, <1>4, FaultFacts
<1>6. /\ ctl' \in Ctls /\ ctl'.pc \in {"ladder", "idle", "extract", "second"}
      /\ ctl'.pc = "ladder" => ctl.why = "candidate" /\ ctl'.why = "candidate"
      /\ ctl'.pc = "extract" => ctl'.why \in {"rebuild", "fallback"}
      /\ published' \in Snapshots
  <2>1. "idle" \in Pcs /\ "extract" \in Pcs /\ "second" \in Pcs
    BY DEF Pcs
  <2>2. CASE ctl.why = "candidate" /\ NextRung /\ UNCHANGED published
    BY <1>3, <2>2, NextRungFacts
  <2>3. CASE ctl.why = "candidate" /\ Step("idle") /\ published' = [hardware |-> TRUE, type |-> c.device, reason |-> None]
    <3>1. published' \in Snapshots
      BY <1>4, <2>3 DEF Snapshots, Sane, Codecs
    <3> QED
      BY <1>3, <2>1, <2>3, <3>1, StepFacts
  <2>4. CASE ctl.why = "software" /\ Step("idle") /\ Publish(ctl.reason)
    <3>1. ctl.reason \in Reasons
      BY <1>3 DEF Ctls
    <3> QED
      BY <1>3, <2>1, <2>4, <3>1, StepFacts, PublishFacts
  <2>5. CASE /\ ctl.why \in {"rebuild", "fallback"}
             /\ Step("extract") \/ Step("second")
             /\ UNCHANGED published
    BY <1>3, <2>1, <2>5, StepFacts
  <2> QED
    BY <1>1, <2>2, <2>3, <2>4, <2>5 DEF Probed
<1>7. Typed'
  BY <1>2, <1>5, <1>6, Before1 DEF Good, Typed, Sane
<1>8. Rungs'
  BY <1>3, <1>5, <1>6 DEF Rungs
<1> QED
  BY <1>2, <1>5, <1>7, <1>8 DEF Good, RetryNoted

LEMMA ProbeFailsGood == ASSUME Good, ProbeFails PROVE Good'
<1>1. /\ UNCHANGED <<setting, positioned, firstFrame>> /\ ctl.pc = "probing" /\ source' \in Sources
  BY DEF ProbeFails, Good, Typed, Sources
<1>2. /\ ctl.why \in Whys \ {"request"} /\ Sane(codec)
      /\ codec.built = IF ctl.why \in {"candidate", "rebuild"} THEN "hardware" ELSE "software"
  BY <1>1 DEF Good, Typed, Ctls, Rungs
<1>3. PICK c, harmful : /\ ProbeFailed(c, harmful) /\ harmful \in BOOLEAN
                        /\ c \in {codec, Declined(codec), [codec EXCEPT !.fault = TRUE]}
  BY DEF ProbeFails
<1>4. Sane(c) /\ c.built = codec.built /\ c.retried = codec.retried
  BY <1>2, <1>3, FrameFacts, FaultFacts
<1>5. /\ Descends /\ Sane(codec') /\ codec'.built = c.built /\ codec'.retried = codec.retried
      /\ published' \in Snapshots /\ reply' \in {None, "image", "failed"}
      /\ history' \in Histories /\ history'.rebuilds = history.rebuilds
  BY <1>1, <1>2, <1>3, <1>4, ProbeFailedFacts
<1>6. Typed'
  BY <1>1, <1>5, Before1 DEF Good, Typed, Sane, Descends
<1>7. Rungs'
  BY <1>2, <1>4, <1>5 DEF Rungs, Descends
<1> QED
  BY <1>5, <1>6, <1>7 DEF Good, RetryNoted

\* An attempt ends in the step its rung prescribes.
LEMMA AttemptedFacts ==
  ASSUME ctl \in Ctls, ctl.why \in {"request", "rebuild", "fallback"},
         NEW result \in {"surface", "picture", "failed"}, Attempted(result)
  PROVE  ctl' \in Ctls /\ ctl'.pc \in {"convert", "first", "second", "finish"} /\ ctl'.why = ctl.why
<1>1. AfterAttempt \in {"first", "second", "finish"}
  BY DEF AfterAttempt
<1>2. PICK pc \in {"convert", "first", "second", "finish"} : ctl' = [ctl EXCEPT !.pc = pc, !.result = result]
  BY <1>1 DEF Attempted
<1> QED
  BY <1>2 DEF Ctls, Pcs, Results

LEMMA RequestGood == ASSUME Good, Request PROVE Good'
<1>1. /\ UNCHANGED <<setting, source, positioned, firstFrame, published, reply>>
      /\ codec' = [codec EXCEPT !.fault = FALSE]
  BY DEF Request
<1>2. ctl' \in Ctls /\ ctl'.pc = "start" /\ ctl'.why = "request"
  BY DEF Request, Good, Typed, Ctls, Pcs, Whys, Results
<1>3. history' \in Histories /\ history'.rebuilds = history.rebuilds
  BY DEF Request, Good, Typed, Histories
<1>4. Sane(codec') /\ codec'.retried = codec.retried
  BY <1>1, FaultFacts DEF Good, Typed
<1>5. Typed'
  BY <1>1, <1>2, <1>3, <1>4, Before1 DEF Good, Typed, Sane
<1>6. Rungs'
  BY <1>2 DEF Rungs
<1> QED
  BY <1>3, <1>4, <1>5, <1>6 DEF Good, RetryNoted

\* A request that had to re-open, and whatever came of it.
LEMMA ReopenedGood ==
  ASSUME Good, ctl.pc \in {"start", "extract"}, UNCHANGED <<setting, firstFrame, published, reply>>,
         NEW o \in ReopenOutcomes, Leave(o),
         \/ (ctl' = ctl \/ Step("extract")) /\ UNCHANGED history
         \/ Harmed(o.harm) /\ Attempted("failed")
  PROVE  Good'
<1>1. Lawful(o)
  BY TypeParts, ReopenFacts DEF Good
<1>2. ctl \in Ctls /\ ctl.why \in {"request", "rebuild", "fallback"} /\ history \in Histories
  BY DEF Good, Typed, Rungs
<1>3. source' \in Sources /\ Sane(codec') /\ positioned' \in BOOLEAN /\ codec'.retried = codec.retried
  BY <1>1 DEF Lawful, Leave
<1>4. history' \in Histories /\ history'.rebuilds = history.rebuilds
  BY <1>1, <1>2, HarmFacts DEF Lawful
<1>5. ctl' \in Ctls /\ ctl'.pc \in {"start", "extract", "convert", "first", "second", "finish"} /\ ctl'.why = ctl.why
  BY <1>2, StepFacts, AttemptedFacts DEF Pcs
<1>6. Typed'
  BY <1>3, <1>4, <1>5, Before1 DEF Good, Typed, Sane
<1>7. Rungs'
  BY <1>2, <1>5 DEF Rungs
<1> QED
  BY <1>3, <1>4, <1>6, <1>7 DEF Good, RetryNoted

LEMMA StartOrReviveGood == ASSUME Good, StartOrRevive PROVE Good'
<1>1. ctl.pc = "start" /\ UNCHANGED <<setting, firstFrame, published, reply>>
  BY DEF StartOrRevive
<1>2. CASE Usable /\ Step("extract") /\ UNCHANGED <<decoding, history>>
  <2>1. UNCHANGED <<source, codec, positioned, history>>
    BY <1>2 DEF decoding
  <2>2. ctl' \in Ctls /\ ctl'.pc = "extract" /\ ctl'.why = ctl.why
    BY <1>2, StepFacts DEF Good, Typed, Pcs
  <2>3. Typed'
    BY <1>1, <2>1, <2>2, Before1 DEF Good, Typed, Sane
  <2>4. Rungs'
    BY <1>1, <2>2 DEF Good, Rungs
  <2> QED
    BY <2>1, <2>3, <2>4 DEF Good, RetryNoted
<1>3. CASE \E o \in ReopenOutcomes :
             /\ Leave(o)
             /\ IF o.ok THEN Step("extract") /\ UNCHANGED history
                ELSE Harmed(o.harm) /\ Attempted("failed")
  BY <1>1, <1>3, ReopenedGood
<1> QED
  BY <1>2, <1>3 DEF StartOrRevive

LEMMA RewindGood == ASSUME Good, Rewind PROVE Good'
<1>1. ctl.pc = "extract" /\ UNCHANGED <<setting, firstFrame, published, reply>>
  BY DEF Rewind
<1>2. PICK o \in ReopenOutcomes :
        /\ Leave(o)
        /\ IF o.ok THEN UNCHANGED <<ctl, history>> ELSE Harmed(o.harm) /\ Attempted("failed")
  BY DEF Rewind
<1> QED
  BY <1>1, <1>2, ReopenedGood

\* The steps of an attempt that neither re-open nor build.
LEMMA AttemptGood ==
  ASSUME Good, ctl.pc \in {"extract", "convert"}, UNCHANGED <<setting, firstFrame, published, reply>>,
         source' \in Sources, positioned' \in BOOLEAN,
         Sane(codec'), codec'.built = codec.built, codec'.retried = codec.retried,
         history' \in Histories, history'.rebuilds = history.rebuilds,
         NEW result \in {"surface", "picture", "failed"}, Attempted(result)
  PROVE  Good'
<1>1. ctl \in Ctls /\ ctl.why \in {"request", "rebuild", "fallback"}
  BY DEF Good, Typed, Rungs
<1>2. ctl' \in Ctls /\ ctl'.pc \in {"convert", "first", "second", "finish"} /\ ctl'.why = ctl.why
  BY <1>1, AttemptedFacts
<1>3. Typed'
  BY <1>2, Before1 DEF Good, Typed, Sane
<1>4. Rungs'
  BY <1>1, <1>2 DEF Rungs
<1> QED
  BY <1>3, <1>4 DEF Good, RetryNoted

LEMMA SelectGood == ASSUME Good, Select PROVE Good'
<1>1. /\ ctl.pc = "extract" /\ UNCHANGED <<setting, firstFrame, published, reply, history>>
      /\ source' \in Sources /\ positioned' \in BOOLEAN /\ history \in Histories /\ Sane(codec)
  BY DEF Select, Good, Typed, Sources
<1>2. PICK result \in {"surface", "picture", "failed"} : Attempted(result)
  BY DEF Select
<1>3. codec' \in {Surface(codec), Declined(codec), [codec EXCEPT !.seen = TRUE]}
  BY DEF Select
<1>4. Sane(codec') /\ codec'.built = codec.built /\ codec'.retried = codec.retried
  BY <1>1, <1>3, FrameFacts
<1> QED
  BY <1>1, <1>2, <1>4, AttemptGood

LEMMA SelectFailsGood == ASSUME Good, SelectFails PROVE Good'
<1>1. /\ ctl.pc = "extract" /\ UNCHANGED <<setting, firstFrame, published, reply>>
      /\ source' \in Sources /\ positioned' \in BOOLEAN /\ history \in Histories /\ Sane(codec)
      /\ Attempted("failed")
  BY DEF SelectFails, Good, Typed, Sources
<1>2. codec' \in {codec, [codec EXCEPT !.fault = TRUE]} /\ (history' = history \/ Harmed(TRUE))
  BY DEF SelectFails
<1>3. Sane(codec') /\ codec'.built = codec.built /\ codec'.retried = codec.retried
  BY <1>1, <1>2, FaultFacts
<1>4. history' \in Histories /\ history'.rebuilds = history.rebuilds
  BY <1>1, <1>2, HarmFacts
<1> QED
  BY <1>1, <1>3, <1>4, AttemptGood

LEMMA ConvertGood == ASSUME Good, Convert PROVE Good'
<1>1. /\ ctl.pc = "convert" /\ UNCHANGED <<setting, source, positioned, firstFrame, published, reply, history>>
      /\ source \in Sources /\ positioned \in BOOLEAN /\ history \in Histories /\ Sane(codec)
  BY DEF Convert, Good, Typed
<1>2. PICK result \in {"surface", "picture", "failed"} : Attempted(result)
  BY DEF Convert
<1>3. codec' \in {codec, [codec EXCEPT !.fault = TRUE]}
  BY DEF Convert
<1>4. Sane(codec') /\ codec'.built = codec.built /\ codec'.retried = codec.retried
  BY <1>1, <1>3, FaultFacts
<1> QED
  BY <1>1, <1>2, <1>4, AttemptGood

LEMMA RebuildHardwareGood == ASSUME Good, RebuildHardware PROVE Good'
<1>1. ctl.pc = "first" /\ UNCHANGED <<setting, source, positioned, firstFrame, published, reply>>
  BY DEF RebuildHardware
<1>2. ctl \in Ctls /\ Sane(codec) /\ history \in Histories
  BY DEF Good, Typed
<1>3. CASE ShouldRebuild
  <2>1. /\ codec' = [codec EXCEPT !.fault = (Candidate(codec) = None), !.retried = TRUE]
        /\ IF Candidate(codec) = None THEN Step("second") ELSE Build("rebuild", Candidate(codec))
        /\ history' = [history EXCEPT !.rebuilds = @ + 1]
    BY <1>3 DEF RebuildHardware
  <2>2. Candidate(codec) \in Types \cup {None} /\ codec.built # "software"
    BY <1>2, <1>3 DEF Candidate, Sane, Codecs, ShouldRebuild
  <2>3. Sane(codec') /\ codec'.built = codec.built /\ codec'.retried
    BY <1>2, <2>1, RetryFacts
  <2>4. /\ ctl' \in Ctls
        /\ \/ ctl'.pc = "second"
           \/ ctl'.pc = "build" /\ ctl'.why = "rebuild" /\ ctl'.candidate # None
    BY <1>2, <2>1, <2>2, StepFacts, BuildFacts DEF Pcs, Whys
  <2>5. history.rebuilds = 0
    BY <1>2, <1>3 DEF Good, RetryNoted, ShouldRebuild, Histories
  <2>6. history' \in Histories /\ history'.rebuilds = 1
    BY <1>2, <2>1, <2>5 DEF Histories
  <2>7. Typed'
    BY <1>1, <2>3, <2>4, <2>6, Before1 DEF Good, Typed, Sane
  <2>8. Rungs'
    BY <2>2, <2>3, <2>4 DEF Rungs
  <2> QED
    BY <2>3, <2>6, <2>7, <2>8 DEF Good, RetryNoted
<1>4. CASE ~ShouldRebuild
  <2>1. Step("second") /\ UNCHANGED <<codec, history>>
    BY <1>4 DEF RebuildHardware
  <2>2. ctl' \in Ctls /\ ctl'.pc = "second"
    BY <1>2, <2>1, StepFacts DEF Pcs
  <2>3. Typed'
    BY <1>1, <2>1, <2>2, Before1 DEF Good, Typed, Sane
  <2>4. Rungs'
    BY <2>2 DEF Rungs
  <2> QED
    BY <2>1, <2>3, <2>4 DEF Good, RetryNoted
<1> QED
  BY <1>3, <1>4

LEMMA FallBackToSoftwareGood == ASSUME Good, FallBackToSoftware PROVE Good'
<1>1. /\ UNCHANGED <<setting, source, positioned, firstFrame, published, history>>
      /\ ctl \in Ctls /\ Sane(codec) /\ reply \in {None, "image", "failed"}
  BY DEF FallBackToSoftware, Good, Typed
<1>2. codec' \in {codec, [codec EXCEPT !.fault = FALSE]}
  BY DEF FallBackToSoftware
<1>3. Sane(codec') /\ codec'.retried = codec.retried
  BY <1>1, <1>2, FaultFacts
<1>4. /\ ctl' \in Ctls /\ reply' \in {None, "image", "failed"}
      /\ \/ ctl'.pc \in {"idle", "finish"}
         \/ ctl'.pc = "build" /\ ctl'.why = "fallback" /\ ctl'.candidate = None
  <2>1. CASE Fail
    BY <1>1, <2>1, StepFacts DEF Fail, Pcs
  <2>2. CASE Build("fallback", None) /\ UNCHANGED reply
    BY <1>1, <2>2, BuildFacts DEF Whys
  <2>3. CASE Step("finish") /\ UNCHANGED reply
    BY <1>1, <2>3, StepFacts DEF Pcs
  <2> QED
    BY <2>1, <2>2, <2>3 DEF FallBackToSoftware
<1>5. Typed'
  BY <1>1, <1>3, <1>4, Before1 DEF Good, Typed, Sane
<1>6. Rungs'
  BY <1>4 DEF Rungs
<1> QED
  BY <1>1, <1>3, <1>5, <1>6 DEF Good, RetryNoted

LEMMA FinishGood == ASSUME Good, Finish PROVE Good'
<1>1. /\ UNCHANGED <<setting, source, positioned, firstFrame, published>>
      /\ ctl \in Ctls /\ Sane(codec) /\ history \in Histories
      /\ reply' \in {None, "image", "failed"}
  BY DEF Finish, Good, Typed
<1>2. ctl' \in Ctls /\ ctl'.pc = "idle"
  BY <1>1, StepFacts DEF Finish, Pcs
<1>3. CASE ~Failed /\ codec.active
  <2>1. Sane(codec')
    BY <1>1, <1>3 DEF Finish, Sane, Codecs
  <2>2. history' \in Histories /\ history'.rebuilds = 0
    BY <1>1, <1>3 DEF Finish, Histories
  <2>3. Typed'
    BY <1>1, <1>2, <2>1, <2>2, Before1 DEF Good, Typed, Sane
  <2>4. Rungs'
    BY <1>2 DEF Rungs
  <2> QED
    BY <2>2, <2>3, <2>4 DEF Good, RetryNoted
<1>4. CASE ~(~Failed /\ codec.active)
  <2>1. UNCHANGED <<codec, history>>
    BY <1>4 DEF Finish
  <2>2. Typed'
    BY <1>1, <1>2, <2>1, Before1 DEF Good, Typed, Sane
  <2>3. Rungs'
    BY <1>2 DEF Rungs
  <2> QED
    BY <2>1, <2>2, <2>3 DEF Good, RetryNoted
<1> QED
  BY <1>3, <1>4

\* Good is inductive.
LEMMA NextGood == Good /\ [Next]_vars => Good'
<1> SUFFICES ASSUME Good, [Next]_vars PROVE Good'
  OBVIOUS
<1>1. CASE UNCHANGED vars
  <2>1. UNCHANGED <<setting, source, codec, positioned, firstFrame, published, ctl, reply, history>>
    BY <1>1 DEF vars
  <2>2. Typed'
    BY <2>1, Before1 DEF Good, Typed, Sane
  <2>3. Rungs' /\ RetryNoted'
    BY <2>1 DEF Good, Rungs, RetryNoted
  <2> QED
    BY <2>2, <2>3 DEF Good
<1>2. CASE Next
  BY <1>2, TryCandidateGood, NoHardwareLeftGood, BuildSucceedsGood, BuildFailsGood, PositionProbeGood,
     ProbeDecodesGood, ProbeFailsGood, RequestGood, StartOrReviveGood, RewindGood, SelectGood,
     SelectFailsGood, ConvertGood, RebuildHardwareGood, FallBackToSoftwareGood, FinishGood DEF Next
<1> QED
  BY <1>1, <1>2

LEMMA AlwaysGood == Spec => []Good
BY InitGood, NextGood, PTL DEF Spec

-----------------------------------------------------------------------------
(* What follows from it.                                                     *)

\* The types, and with them that a hardware context is never without its device
\* and a software one never taken for hardware (VideoDecoder::build()).
THEOREM TypeCorrect == Spec => []TypeOK
<1>1. Good => TypeOK
  BY TypeParts DEF Good
<1> QED
  BY <1>1, AlwaysGood, PTL

\* However often hardware fails, and however the rebuilds end, there is at most
\* one between two frames it serves (imageAtImpl()).
THEOREM RebuildsOnce == Spec => []OneRebuildPerRun
<1>1. Good => OneRebuildPerRun
  BY DEF Good, RetryNoted, OneRebuildPerRun
<1> QED
  BY <1>1, AlwaysGood, PTL

\* A pipeline that decodes in software decodes in software for good: neither a
\* rebuild nor a re-open brings hardware back.
THEOREM SoftwareStays == Spec => SoftwareIsFinal
<1>1. Good /\ Good' /\ [Next]_vars => [codec.built = "software" => codec'.built # "hardware"]_vars
  <2> SUFFICES ASSUME Good, Next, codec.built = "software" PROVE codec'.built # "hardware"
    BY DEF vars
  <2> Sane(codec) /\ ~codec.active /\ codec \in Codecs /\ ctl \in Ctls
    BY DEF Good, Typed, Sane
  <2>1. CASE BuildSucceeds
    <3>1. ctl.candidate = None
      BY <2>1 DEF BuildSucceeds, Good, Rungs, Ctls, Whys
    <3> QED
      BY <2>1, <3>1, OpenedFacts DEF BuildSucceeds
  <2>2. CASE BuildFails
    <3>1. PICK c \in Unopened(codec, ctl.candidate) :
            codec' = IF ctl.why = "rebuild" THEN [c EXCEPT !.fault = TRUE] ELSE c
      BY <2>2 DEF BuildFails
    <3>2. Sane(c) /\ c.built = None
      BY UnopenedFacts DEF Ctls
    <3> QED
      BY <3>1, <3>2, FaultFacts DEF None
  <2>3. ASSUME NEW o \in ReopenOutcomes \cup ProbePositions PROVE o.codec.built # "hardware"
    BY TypeParts, ReopenFacts, ProbePositionsFacts DEF Good, Lawful
  <2>4. CASE PositionProbe
    <3>1. PICK o \in ProbePositions : codec' \in {o.codec, [o.codec EXCEPT !.fault = TRUE]}
      BY <2>4 DEF PositionProbe, ProbeFailed
    <3>2. Sane(o.codec)
      BY TypeParts, ProbePositionsFacts DEF Good, Lawful
    <3>3. o.codec.built # "hardware"
      BY <2>3
    <3>4. [o.codec EXCEPT !.fault = TRUE].built = o.codec.built
      BY <3>2, FaultFacts
    <3> QED
      BY <3>1, <3>3, <3>4
  <2>5. CASE StartOrRevive \/ Rewind
    BY <2>3, <2>5 DEF StartOrRevive, Rewind, Leave, decoding
  <2>6. CASE ProbeDecodes \/ ProbeFails \/ Select
    <3>1. PICK c \in {codec, [codec EXCEPT !.seen = TRUE], Surface(codec), Surface(Declined(codec)), Declined(codec)} :
            codec' \in {c, [c EXCEPT !.fault = TRUE], [[c EXCEPT !.fault = TRUE] EXCEPT !.fault = TRUE]}
      BY <2>6 DEF ProbeDecodes, ProbeFails, ProbeFailed, FirstFrames, Select
    <3>2. Sane(c) /\ c.built = "software"
      BY FrameFacts
    <3>3. LET d == [c EXCEPT !.fault = TRUE] IN
            Sane(d) /\ d.built = "software" /\ [d EXCEPT !.fault = TRUE].built = "software"
      BY <3>2, FaultFacts
    <3> QED
      BY <3>1, <3>2, <3>3
  <2>7. CASE TryCandidate \/ NoHardwareLeft
    BY <2>7 DEF TryCandidate, NoHardwareLeft, decoding
  <2>8. CASE Request \/ SelectFails \/ Convert \/ FallBackToSoftware
    BY <2>8, FaultFacts DEF Request, SelectFails, Convert, FallBackToSoftware
  <2>9. CASE RebuildHardware
    BY <2>9 DEF RebuildHardware, ShouldRebuild
  <2>10. CASE Finish
    BY <2>10 DEF Finish
  <2> QED
    BY <2>1, <2>2, <2>4, <2>5, <2>6, <2>7, <2>8, <2>9, <2>10 DEF Next
<1> QED
  BY <1>1, AlwaysGood, PTL DEF Spec, SoftwareIsFinal

-----------------------------------------------------------------------------
(* What open() and a request end in: the invariant behind the other promises. *)

\* The rungs of open().
Opening == ctl.why \in {"candidate", "software"}

\* A probe of open() starts from the first packet: no candidate before it moved the
\* demuxer without being positioned first.
StartOK ==
  /\ ctl.pc \in {"ladder", "build", "probe"} /\ Opening /\ ~positioned /\ source.open
       => source.place = "start"
  /\ ctl.pc = "probe" => source.open
  /\ ctl.pc \in {"ladder", "build", "probe", "probing"} /\ Opening => reply = None
  /\ ctl.pc = "probing" /\ Opening => positioned /\ source.place = "start"
  /\ Idle /\ reply = None => firstFrame = "first"

\* While the snapshot names a device, no other one is used or under construction.
DeviceKept ==
  published.hardware =>
    /\ codec.device \in {None, published.type}
    /\ ctl.pc = "build" => ctl.candidate \in {None, published.type}
    /\ ctl.pc \in {"build", "probe", "probing"} => ~Opening
    /\ ctl.pc # "ladder"

\* What excuses the snapshot: hardware was required, or a rebuild broke the generator.
Excused == Strict \/ source.broken

\* A software decoder in use has been told of.
SoftwareTold ==
  /\ ctl.pc = "build" /\ ctl.why = "software" => codec.built # "software"
  /\ codec.built = "software" /\ ctl.pc # "closed"
       /\ ~(ctl.pc \in {"probe", "probing"} /\ ctl.why = "software")
       => Excused \/ (~published.hardware /\ published.reason # None)

\* A request starts below the rungs; it decodes with a decoder, and leaves one behind unless it may not or could
\* not build one; a decoder that is rebuilt answers a failure.
DecoderAtHand ==
  /\ ctl.pc = "start" => ctl.why = "request"
  /\ ctl.pc = "convert" => codec.built = "hardware"
  /\ ctl.pc \in {"build", "probe", "probing"} /\ ctl.why = "rebuild" => Failed
  /\ ctl.pc \in {"extract", "convert"} => codec.built # None
  /\ ctl.pc \in {"idle", "start", "first", "finish"} /\ codec.built = None => Excused
  /\ ctl.pc = "second" /\ codec.built = None => Excused \/ (codec.fault /\ Failed)

\* Sources that are re-opened while their hardware decoder is in use.
ReopensInUse == setting.io = "reopenable" \/ (Seekable /\ Fails("seek"))

\* A re-open never meets a device that cannot be had again.
Sheltered == ReopensInUse => ~Fails("device") /\ ~Fails("open")

\* A pipe is decoded in software from the start, and probed once.
PipeOK ==
  setting.io = "pipe" =>
    /\ ctl.queue = {} /\ ~codec.active /\ ~codec.fault
    /\ ctl.pc = "ladder" => ~positioned
    /\ ctl.pc \in {"build", "probe"} => ctl.why = "software" /\ ~positioned

\* A source that is not re-opened in use stays open, and only a software decoder is
\* ever missing at a request.
InUseOK ==
  ~ReopensInUse /\ ~Strict =>
    /\ ctl.pc \in {"probe", "probing", "extract", "convert"} => source.open
    /\ ctl.pc \in {"idle", "start", "first", "finish"} /\ ~Usable => Candidate(codec) = None
    /\ ctl.pc = "second" /\ ~Usable => Candidate(codec) = None \/ (codec.fault /\ Failed)

\* A failure on its way to the caller is a hardware fault the ladder still absorbs, or
\* something else is to blame.
BlameOK ==
  Sheltered /\ ~Strict =>
    /\ ctl.pc \in {"first", "second"} /\ Failed => history.harm \/ codec.fault
    /\ ctl.pc = "finish" /\ Failed => history.harm
    /\ ctl.pc = "closed" \/ (Idle /\ reply = "failed") => history.harm
    /\ ctl.pc \in {"extract", "convert"} /\ ctl.why = "fallback" => codec.built = "software"

Told == StartOK /\ DeviceKept /\ SoftwareTold /\ DecoderAtHand
Absorbed == PipeOK /\ InUseOK /\ BlameOK

-----------------------------------------------------------------------------

\* What the setting decides does not change.
LEMMA SettingStands ==
  ASSUME setting' = setting
  PROVE  /\ Strict' = Strict /\ ReopensInUse' = ReopensInUse /\ Sheltered' = Sheltered
         /\ Seekable' = Seekable
BY DEF Strict, ReopensInUse, Sheltered, Seekable, Fails

\* What the verbs of the ladder do to it.
LEMMA StepMoves ==
  ASSUME ctl \in Ctls, NEW pc \in Pcs, Step(pc)
  PROVE  ctl'.pc = pc /\ ctl'.why = ctl.why /\ ctl'.result = ctl.result
         /\ ctl'.candidate = ctl.candidate /\ ctl'.queue = ctl.queue
BY DEF Step, Ctls

LEMMA BuildMoves ==
  ASSUME ctl \in Ctls, NEW why \in Whys, NEW candidate \in Types \cup {None}, Build(why, candidate)
  PROVE  ctl'.pc = "build" /\ ctl'.why = why /\ ctl'.result = ctl.result
         /\ ctl'.candidate = candidate /\ ctl'.queue = ctl.queue
BY DEF Build, Ctls

LEMMA NextRungMoves ==
  ASSUME ctl \in Ctls, NextRung
  PROVE  ctl'.pc = "ladder" /\ ctl'.why = ctl.why /\ ctl'.queue = ctl.queue
BY DEF NextRung, Ctls

LEMMA CloseMoves ==
  ASSUME ctl \in Ctls, NEW failed, Close(failed)
  PROVE  ctl'.pc = "closed" /\ ctl'.why = ctl.why /\ ctl'.queue = ctl.queue
BY DEF Close, Ctls

LEMMA AttemptMoves ==
  ASSUME ctl \in Ctls, ctl.why \in {"request", "rebuild", "fallback"},
         NEW result \in {"surface", "picture", "failed"}, Attempted(result)
  PROVE  /\ ctl'.why = ctl.why /\ ctl'.result = result /\ ctl'.queue = ctl.queue
         /\ ctl'.pc = IF result = "surface" THEN "convert"
                      ELSE IF ctl.why = "request" THEN "first"
                      ELSE IF ctl.why = "rebuild" THEN "second" ELSE "finish"
<1>1. AfterAttempt = IF ctl.why = "request" THEN "first"
                     ELSE IF ctl.why = "rebuild" THEN "second" ELSE "finish"
  BY DEF AfterAttempt
<1> QED
  BY <1>1 DEF Attempted, Ctls

LEMMA HarmGrows ==
  ASSUME history \in Histories, NEW harmful \in BOOLEAN, Harmed(harmful)
  PROVE  history'.harm = (history.harm \/ harmful)
BY DEF Harmed, Histories

\* A decoder's members, as building it sets them.
LEMMA OpenedMembers ==
  ASSUME NEW c \in Codecs, NEW candidate \in Types \cup {None}
  PROVE  /\ Opened(c, candidate).active = (candidate # None)
         /\ Opened(c, candidate).device = candidate /\ ~Opened(c, candidate).fault
BY DEF Opened, Dropped, Codecs, None

LEMMA UnopenedMembers ==
  ASSUME NEW c \in Codecs, NEW candidate \in Types \cup {None}, NEW d \in Unopened(c, candidate)
  PROVE  /\ d.active = c.active /\ d.device \in {None, candidate} /\ ~d.fault
         /\ candidate # None => Fails("device") \/ Fails("open")
<1>1. CASE d = Dropped(c)
  <2>1. d.active = c.active /\ d.device \in {None, candidate} /\ ~d.fault
    BY <1>1 DEF Dropped, Codecs, None
  <2> QED
    BY <2>1 DEF Unopened
<1>2. CASE d = [Dropped(c) EXCEPT !.device = candidate]
  <2>1. d.active = c.active /\ d.device \in {None, candidate} /\ ~d.fault
    BY <1>2 DEF Dropped, Codecs, None
  <2> QED
    BY <2>1 DEF Unopened
<1>3. d = Dropped(c) \/ d = [Dropped(c) EXCEPT !.device = candidate]
  BY DEF Unopened
<1> QED
  BY <1>1, <1>2, <1>3

\* A re-open either restores the decoder it found at the start of the stream, or leaves
\* none and the source broken; without hardware it is to blame for that itself.
LEMMA ReopenEffects ==
  ASSUME TypeOK, NEW o \in ReopenOutcomes
  PROVE  /\ source.broken => o.source.broken
         /\ o.ok =>
              /\ o.source.open /\ o.source.place = "start" /\ o.positioned
              /\ o.source.broken = source.broken
              /\ o.codec.built = IF Candidate(codec) = None THEN "software" ELSE "hardware"
              /\ o.codec.device = Candidate(codec)
              /\ o.codec.active = (Candidate(codec) # None) /\ ~o.codec.fault
         /\ ~o.ok =>
              /\ o.source.broken /\ ~o.source.open /\ ~o.positioned
              /\ o.codec.built = None /\ o.codec.device \in {None, codec.device}
              /\ o.codec.active = codec.active /\ (o.codec.fault => codec.fault)
              /\ Candidate(codec) = None => o.harm /\ Candidate(o.codec) = None
              /\ o.harm \/ Fails("device") \/ Fails("open")
<1> DEFINE released == [codec EXCEPT !.built = None]
           candidate == Candidate(codec)
           lost == [source EXCEPT !.open = FALSE, !.broken = TRUE]
           again == [source EXCEPT !.open = TRUE, !.place = "start"]
<1>1. codec \in Codecs /\ source \in Sources
  BY DEF TypeOK, Codecs, Sources
<1>2. /\ released \in Codecs /\ released.built = None /\ released.active = codec.active
      /\ released.device = codec.device /\ released.fault = codec.fault
  BY <1>1 DEF Codecs, None
<1>3. candidate \in Types \cup {None} /\ candidate \in {None, codec.device}
  BY <1>1 DEF Candidate, Codecs
<1>4. /\ ~lost.open /\ lost.broken
      /\ again.open /\ again.place = "start" /\ again.broken = source.broken
  BY <1>1 DEF Sources
<1>5. CASE o = Outcome(TRUE, again, Opened(released, candidate), TRUE, FALSE)
  <2>1. /\ o.ok /\ o.source = again /\ o.codec = Opened(released, candidate) /\ o.positioned
    BY <1>5 DEF Outcome
  <2>2. /\ o.codec.built = IF candidate = None THEN "software" ELSE "hardware"
        /\ o.codec.active = (candidate # None) /\ o.codec.device = candidate /\ ~o.codec.fault
    BY <1>2, <1>3, <2>1, OpenedFacts, OpenedMembers
  <2> QED
    BY <1>4, <2>1, <2>2
<1>6. CASE o = Outcome(FALSE, lost, released, FALSE, TRUE)
  <2>1. /\ ~o.ok /\ o.source = lost /\ o.codec = released /\ ~o.positioned /\ o.harm
    BY <1>6 DEF Outcome
  <2>2. Candidate(o.codec) = candidate
    BY <1>2, <2>1 DEF Candidate
  <2> QED
    BY <1>2, <1>4, <2>1, <2>2
<1>7. ASSUME NEW c \in Unopened(released, candidate),
             o = Outcome(FALSE, lost, c, FALSE, candidate = None)
      PROVE  /\ ~o.ok /\ o.source = lost /\ o.codec = c /\ ~o.positioned
             /\ c.built = None /\ c.active = codec.active /\ c.device \in {None, codec.device}
             /\ ~c.fault /\ o.harm = (candidate = None)
             /\ candidate # None => Fails("device") \/ Fails("open")
             /\ candidate = None => Candidate(c) = None
  <2>1. /\ ~o.ok /\ o.source = lost /\ o.codec = c /\ ~o.positioned
        /\ o.harm = (candidate = None)
    BY <1>7 DEF Outcome
  <2>2. /\ c.built = None /\ c.active = codec.active /\ c.device \in {None, candidate} /\ ~c.fault
        /\ candidate # None => Fails("device") \/ Fails("open")
    <3> HIDE DEF released, candidate
    <3> QED
      BY <1>2, <1>3, UnopenedFacts, UnopenedMembers
  <2>3. candidate = None => Candidate(c) = None
    BY <2>2 DEF Candidate
  <2> HIDE DEF candidate, lost, released
  <2> QED
    BY <1>3, <2>1, <2>2, <2>3
<1>8. \/ o = Outcome(TRUE, again, Opened(released, candidate), TRUE, FALSE)
      \/ o = Outcome(FALSE, lost, released, FALSE, TRUE)
      \/ \E c \in Unopened(released, candidate) : o = Outcome(FALSE, lost, c, FALSE, candidate = None)
  BY DEF ReopenOutcomes
<1> HIDE DEF released, candidate, lost, again
<1> QED
  BY <1>4, <1>5, <1>6, <1>7, <1>8 DEF candidate

\* A probe re-opens only a source that is re-opened in use; otherwise it leaves the
\* decoder alone and, but for a pipe that has been read, stands where it should.
LEMMA ProbePositionsEffects ==
  ASSUME TypeOK, NEW o \in ProbePositions
  PROVE  \/ ReopensInUse /\ o \in ReopenOutcomes
         \/ /\ o.codec = codec /\ o.source.open = source.open /\ o.source.broken = source.broken
            /\ o.ok => o.positioned /\ (positioned \/ source.place = "start" => o.source.place = "start")
            /\ ~o.ok => setting.io = "pipe" /\ positioned
<1>1. setting.io \in {"seekable", "reopenable", "pipe"} /\ source \in Sources
  BY SettingsAssumption DEF TypeOK, Sources
<1>2. CASE o = Outcome(FALSE, source, codec, positioned, FALSE) /\ setting.io = "pipe" /\ positioned
  BY <1>2 DEF Outcome
<1>3. CASE o = Outcome(TRUE, [source EXCEPT !.place = "start"], codec, TRUE, FALSE)
  BY <1>1, <1>3 DEF Outcome, Sources
<1>4. CASE o = Outcome(TRUE, source, codec, TRUE, FALSE) /\ ~positioned
  BY <1>4 DEF Outcome
<1>5. CASE o \in ReopenOutcomes /\ ReopensInUse
  BY <1>5
<1> QED
  BY <1>1, <1>2, <1>3, <1>4, <1>5 DEF ProbePositions, StartOutcomes, AsItStands, Seekable, ReopensInUse

\* What setting a decoder's flags leaves of it.
SameDecoder(c, d) == d.built = c.built /\ d.active = c.active /\ d.device = c.device

LEMMA FlagMembers ==
  ASSUME NEW c, Sane(c), NEW fault \in BOOLEAN, NEW retried \in BOOLEAN
  PROVE  /\ SameDecoder(c, [c EXCEPT !.fault = fault]) /\ [c EXCEPT !.fault = fault].fault = fault
         /\ SameDecoder(c, [c EXCEPT !.fault = fault, !.retried = retried])
         /\ [c EXCEPT !.fault = fault, !.retried = retried].fault = fault
         /\ SameDecoder(c, [c EXCEPT !.retried = retried])
         /\ [c EXCEPT !.retried = retried].fault = c.fault
BY DEF SameDecoder, Sane, Codecs

LEMMA FrameMembers ==
  ASSUME NEW c, Sane(c)
  PROVE  /\ SameDecoder(c, Surface(c)) /\ Surface(c).fault = c.fault
         /\ SameDecoder(c, Declined(c)) /\ Declined(c).fault = c.fault
         /\ SameDecoder(c, [c EXCEPT !.seen = TRUE]) /\ [c EXCEPT !.seen = TRUE].fault = c.fault
BY DEF SameDecoder, Surface, Declined, Sane, Codecs

-----------------------------------------------------------------------------
(* The two halves of the invariant hold at first, and through open().        *)

LEMMA InitHolds == Init => Told /\ Absorbed
<1> SUFFICES ASSUME Init PROVE Told /\ Absorbed
  OBVIOUS
<1>1. /\ codec.built = None /\ ~codec.active /\ codec.device = None /\ ~codec.fault
      /\ source.open /\ source.place = "start" /\ ~positioned
      /\ ~published.hardware /\ ctl.pc = "ladder" /\ ctl.why = "candidate" /\ ctl.queue = Tries
      /\ ctl.result = None /\ reply = None
  BY DEF Init, NoCodec
<1>2. setting.io = "pipe" => Tries = {}
  BY DEF Tries
<1>3. Told
  BY <1>1 DEF Told, StartOK, DeviceKept, SoftwareTold, DecoderAtHand, Opening, Idle, None
<1>4. Absorbed
  BY <1>1, <1>2 DEF Absorbed, PipeOK, InUseOK, BlameOK, Idle
<1> QED
  BY <1>3, <1>4

LEMMA TryCandidateHolds == ASSUME Good, Told, Absorbed, TryCandidate PROVE Told' /\ Absorbed'
<1>1. PICK i \in ctl.queue :
        ctl' = [ctl EXCEPT !.pc = "build", !.candidate = TypeOf(i), !.queue = @ \ {i}]
  BY DEF TryCandidate
<1>2. /\ UNCHANGED <<setting, source, codec, positioned, firstFrame, published, reply, history>>
      /\ ctl.pc = "ladder" /\ ctl.why = "candidate" /\ codec.built # "software"
  BY DEF TryCandidate, decoding, Good, Rungs
<1>3. ctl'.pc = "build" /\ ctl'.why = ctl.why /\ ctl'.result = ctl.result
  BY <1>1 DEF Good, Typed, Ctls
<1>4. setting.io # "pipe"
  BY <1>1, <1>2 DEF Absorbed, PipeOK
<1>5. Told'
  BY <1>2, <1>3 DEF Told, StartOK, DeviceKept, SoftwareTold, DecoderAtHand, Opening, Idle
<1>6. Absorbed'
  BY <1>2, <1>3, <1>4 DEF Absorbed, PipeOK, InUseOK, BlameOK, Idle
<1> QED
  BY <1>5, <1>6

LEMMA NoHardwareLeftHolds == ASSUME Good, Told, Absorbed, NoHardwareLeft PROVE Told' /\ Absorbed'
<1>1. /\ UNCHANGED <<setting, source, codec, positioned, firstFrame, published, reply, history>>
      /\ ctl.pc = "ladder" /\ ctl.why = "candidate" /\ codec.built # "software" /\ ctl.queue = {}
  BY DEF NoHardwareLeft, decoding, Good, Rungs
<1>2. Strict' = Strict
  BY <1>1, SettingStands
<1>3. ctl \in Ctls /\ "software" \in Whys
  BY DEF Good, Typed, Whys
<1>4. CASE Strict
  <2>1. ctl'.pc = "closed" /\ ctl'.why = ctl.why /\ ctl'.queue = ctl.queue
    BY <1>3, <1>4, CloseMoves DEF NoHardwareLeft
  <2>2. Told'
    BY <1>1, <2>1 DEF Told, StartOK, DeviceKept, SoftwareTold, DecoderAtHand, Opening, Idle
  <2>3. Absorbed'
    BY <1>1, <1>2, <1>4, <2>1 DEF Absorbed, PipeOK, InUseOK, BlameOK, Idle
  <2> QED
    BY <2>2, <2>3
<1>5. CASE ~Strict
  <2>1. ctl'.pc = "build" /\ ctl'.why = "software" /\ ctl'.queue = ctl.queue
    BY <1>3, <1>5, BuildMoves DEF NoHardwareLeft
  <2>2. Told'
    BY <1>1, <2>1 DEF Told, StartOK, DeviceKept, SoftwareTold, DecoderAtHand, Opening, Idle
  <2>3. Absorbed'
    BY <1>1, <1>2, <2>1 DEF Absorbed, PipeOK, InUseOK, BlameOK, Idle
  <2> QED
    BY <2>2, <2>3
<1> QED
  BY <1>4, <1>5

LEMMA BuildSucceedsHolds == ASSUME Good, Told, Absorbed, BuildSucceeds PROVE Told' /\ Absorbed'
<1>1. /\ UNCHANGED <<setting, source, positioned, firstFrame, reply, history>>
      /\ ctl.pc = "build" /\ source.open /\ codec' = Opened(codec, ctl.candidate)
      /\ ctl \in Ctls /\ codec \in Codecs /\ ctl.candidate \in Types \cup {None}
  BY DEF BuildSucceeds, Good, Typed, Ctls, Sane
<1>2. ctl'.pc = "probe" /\ ctl'.why = ctl.why /\ ctl'.result = ctl.result /\ ctl'.queue = ctl.queue
  BY <1>1, StepMoves DEF BuildSucceeds, Pcs
<1>3. /\ codec'.built = IF ctl.candidate = None THEN "software" ELSE "hardware"
      /\ codec'.device = ctl.candidate /\ codec'.active = (ctl.candidate # None) /\ ~codec'.fault
  BY <1>1, OpenedFacts, OpenedMembers
<1>4. /\ ctl.why \in Whys \ {"request"}
      /\ ctl.candidate = None <=> ctl.why \in {"software", "fallback"}
  BY <1>1 DEF Good, Rungs, Ctls, Whys
<1>5. IF ctl.why = "fallback" THEN ~published'.hardware /\ published'.reason # None
                              ELSE published' = published
  BY DEF BuildSucceeds, Report, Publish, None
<1>6. StartOK'
  BY <1>1, <1>2 DEF Told, StartOK, Opening, Idle
<1>7. DeviceKept'
  BY <1>1, <1>2, <1>3, <1>4, <1>5 DEF Told, DeviceKept, Opening
<1>8. SoftwareTold' /\ DecoderAtHand'
  <2>1. SoftwareTold'
    BY <1>2, <1>3, <1>4, <1>5 DEF SoftwareTold
  <2>2. DecoderAtHand'
    BY <1>1, <1>2 DEF Told, DecoderAtHand, Failed
  <2> QED
    BY <2>1, <2>2
<1>9. Absorbed'
  BY <1>1, <1>2, <1>3, <1>4 DEF Absorbed, PipeOK, InUseOK, BlameOK, Idle
<1> QED
  BY <1>6, <1>7, <1>8, <1>9 DEF Told

LEMMA BuildFailsHolds == ASSUME Good, Told, Absorbed, BuildFails PROVE Told' /\ Absorbed'
<1>1. /\ UNCHANGED <<setting, positioned, firstFrame, published>>
      /\ ctl.pc = "build" /\ source.open /\ Harmed(ctl.candidate = None)
      /\ ctl \in Ctls /\ codec \in Codecs /\ ctl.candidate \in Types \cup {None}
      /\ history \in Histories /\ source \in Sources
  BY DEF BuildFails, Good, Typed, Ctls, Sane
<1>2. /\ ctl.why \in Whys \ {"request"}
      /\ ctl.candidate = None <=> ctl.why \in {"software", "fallback"}
  BY <1>1 DEF Good, Rungs, Ctls, Whys
<1>3. PICK c \in Unopened(codec, ctl.candidate) :
        codec' = IF ctl.why = "rebuild" THEN [c EXCEPT !.fault = TRUE] ELSE c
  BY DEF BuildFails
<1>4. /\ Sane(c) /\ c.built = None /\ c.active = codec.active /\ c.device \in {None, ctl.candidate}
      /\ ~c.fault
  BY <1>1, UnopenedFacts, UnopenedMembers
<1>5. /\ codec'.built = None /\ codec'.active = codec.active /\ codec'.device \in {None, ctl.candidate}
      /\ ctl.why = "rebuild" <=> codec'.fault
  <2>1. CASE ctl.why = "rebuild"
    BY <1>3, <1>4, <2>1, FlagMembers DEF SameDecoder
  <2>2. CASE ctl.why # "rebuild"
    BY <1>3, <1>4, <2>2
  <2> QED
    BY <2>1, <2>2
<1>6. history'.harm = (history.harm \/ ctl.candidate = None)
  BY <1>1, HarmGrows
<1>7. Strict' = Strict /\ Failed' = (ctl'.result = "failed")
  BY <1>1, SettingStands DEF Failed
<1>8. \/ /\ ctl.why = "candidate" /\ ctl'.pc = "ladder" /\ ctl'.why = ctl.why /\ ctl'.queue = ctl.queue
         /\ UNCHANGED <<source, reply>>
      \/ /\ ctl.why = "software" /\ ctl'.pc = "closed" /\ ctl'.why = ctl.why /\ ctl'.queue = ctl.queue
         /\ UNCHANGED <<source, reply>>
      \/ /\ ctl.why = "rebuild" /\ ctl'.pc = "second" /\ ctl'.why = ctl.why /\ ctl'.queue = ctl.queue
         /\ ctl'.result = ctl.result /\ UNCHANGED <<source, reply>>
      \/ /\ ctl.why = "fallback" /\ ctl'.pc = "idle" /\ ctl'.why = ctl.why /\ ctl'.queue = ctl.queue
         /\ reply' = "failed" /\ source'.broken
  <2>1. "second" \in Pcs /\ "idle" \in Pcs
    BY DEF Pcs
  <2>2. CASE ctl.why = "candidate"
    BY <1>1, <2>2, NextRungMoves DEF BuildFails
  <2>3. CASE ctl.why = "software"
    BY <1>1, <2>3, CloseMoves DEF BuildFails
  <2>4. CASE ctl.why = "rebuild"
    BY <1>1, <2>1, <2>4, StepMoves DEF BuildFails
  <2>5. CASE ctl.why = "fallback"
    <3>1. reply' = "failed" /\ Step("idle") /\ source' = [source EXCEPT !.broken = TRUE]
      BY <2>5 DEF BuildFails, Fail
    <3> QED
      BY <1>1, <2>1, <2>5, <3>1, StepMoves DEF Sources
  <2> QED
    BY <1>2, <2>2, <2>3, <2>4, <2>5 DEF Whys
<1>9. Told'
  <2>1. StartOK'
    BY <1>1, <1>8 DEF Told, StartOK, Opening, Idle, None
  <2>2. DeviceKept'
    BY <1>1, <1>2, <1>5, <1>8 DEF Told, DeviceKept, Opening
  <2>3. SoftwareTold' /\ DecoderAtHand'
    BY <1>1, <1>5, <1>7, <1>8 DEF Told, SoftwareTold, DecoderAtHand, Excused, Failed, None
  <2> QED
    BY <2>1, <2>2, <2>3 DEF Told
<1>10. Absorbed'
  <2>1. PipeOK'
    BY <1>1, <1>5, <1>8 DEF Absorbed, PipeOK
  <2>2. InUseOK'
    BY <1>1, <1>2, <1>5, <1>8, <1>7, SettingStands
       DEF Absorbed, InUseOK, Told, DecoderAtHand, Failed, Candidate, Usable
  <2>3. BlameOK'
    BY <1>1, <1>2, <1>5, <1>6, <1>7, <1>8, SettingStands DEF Absorbed, BlameOK, Idle, Failed
  <2> QED
    BY <2>1, <2>2, <2>3 DEF Absorbed
<1> QED
  BY <1>9, <1>10

\* Where a failed probe leads, rung by rung.
LEMMA ProbeFailedMoves ==
  ASSUME Good, ctl.why # "request", NEW c, Sane(c), NEW harmful \in BOOLEAN, ProbeFailed(c, harmful)
  PROVE  /\ SameDecoder(c, codec') /\ (codec'.fault <=> c.fault \/ ctl.why = "rebuild")
         /\ history'.harm = (history.harm \/ harmful)
         /\ ctl'.why = ctl.why /\ ctl'.queue = ctl.queue
         /\ \/ ctl.why = "candidate" /\ ctl'.pc = "ladder" /\ UNCHANGED <<published, reply>>
            \/ ctl.why = "software" /\ ctl'.pc = "closed" /\ UNCHANGED <<published, reply>>
            \/ ctl.why = "rebuild" /\ ctl'.pc = "second" /\ ctl'.result = ctl.result
               /\ UNCHANGED <<published, reply>>
            \/ ctl.why = "fallback" /\ ctl'.pc = "idle" /\ reply' = "failed"
               /\ ~published'.hardware /\ published'.reason # None
<1>1. ctl \in Ctls /\ ctl.why \in Whys \ {"request"} /\ history \in Histories
  BY DEF Good, Typed, Ctls
<1>2. SameDecoder(c, codec') /\ (codec'.fault <=> c.fault \/ ctl.why = "rebuild")
  <2>1. CASE ctl.why = "rebuild"
    BY <2>1, FlagMembers DEF ProbeFailed
  <2>2. CASE ctl.why # "rebuild"
    BY <2>2 DEF ProbeFailed, SameDecoder
  <2> QED
    BY <2>1, <2>2
<1>3. history'.harm = (history.harm \/ harmful)
  BY <1>1, HarmGrows DEF ProbeFailed
<1>4. "second" \in Pcs /\ "idle" \in Pcs
  BY DEF Pcs
<1>5. CASE ctl.why = "candidate"
  BY <1>1, <1>2, <1>3, <1>5, NextRungMoves DEF ProbeFailed
<1>6. CASE ctl.why = "software"
  BY <1>1, <1>2, <1>3, <1>6, CloseMoves DEF ProbeFailed
<1>7. CASE ctl.why = "rebuild"
  BY <1>1, <1>2, <1>3, <1>4, <1>7, StepMoves DEF ProbeFailed
<1>8. CASE ctl.why = "fallback"
  <2>1. Publish("probe") /\ reply' = "failed" /\ Step("idle")
    BY <1>8 DEF ProbeFailed, Fail
  <2>2. ~published'.hardware /\ published'.reason # None
    BY <2>1 DEF Publish, None
  <2> QED
    BY <1>1, <1>2, <1>3, <1>4, <1>8, <2>1, <2>2, StepMoves
<1> QED
  BY <1>1, <1>5, <1>6, <1>7, <1>8 DEF Whys

LEMMA PositionProbeHolds == ASSUME Good, Told, Absorbed, PositionProbe PROVE Told' /\ Absorbed'
<1>1. PICK o \in ProbePositions :
        /\ source' = o.source /\ positioned' = o.positioned
        /\ IF o.ok
           THEN codec' = o.codec /\ Step("probing") /\ UNCHANGED <<published, reply, history>>
           ELSE ProbeFailed(o.codec, o.harm)
  BY DEF PositionProbe
<1>2. UNCHANGED <<setting, firstFrame>> /\ ctl.pc = "probe" /\ source.open
  BY DEF PositionProbe, Told, StartOK
<1>3. TypeOK /\ ctl \in Ctls /\ ctl.why \in Whys \ {"request"}
      /\ codec.built = (IF ctl.why \in {"candidate", "rebuild"} THEN "hardware" ELSE "software")
      /\ Sane(codec) /\ codec \in Codecs
  BY <1>2, TypeParts DEF Good, Typed, Rungs, Ctls, Sane
<1>4. Lawful(o)
  BY <1>3, ProbePositionsFacts
<1>5. Sane(o.codec) /\ o.harm \in BOOLEAN /\ o.ok \in BOOLEAN
  BY <1>4 DEF Lawful
<1>6. /\ Candidate(codec) = IF codec.built = "hardware" THEN codec.device ELSE None
      /\ Candidate(codec) = None <=> codec.built = "software"
  BY <1>3 DEF Sane, Candidate, None
<1>7. /\ Strict' = Strict /\ ReopensInUse' = ReopensInUse /\ Sheltered' = Sheltered
  BY <1>2, SettingStands
<1>8. ReopensInUse => setting.io # "pipe"
  BY DEF ReopensInUse, Seekable
<1>9. CASE ReopensInUse /\ o \in ReopenOutcomes /\ o.ok
  <2>1. /\ source'.open /\ source'.place = "start" /\ positioned' /\ source'.broken = source.broken
        /\ codec'.built = codec.built /\ codec'.device \in {None, codec.device}
        /\ UNCHANGED <<published, reply, history>>
    BY <1>1, <1>3, <1>6, <1>9, ReopenEffects
  <2>2. ctl'.pc = "probing" /\ ctl'.why = ctl.why /\ ctl'.result = ctl.result
    BY <1>1, <1>3, <1>9, StepMoves DEF Pcs
  <2>3. Told'
    BY <1>2, <1>3, <1>7, <2>1, <2>2
       DEF Told, StartOK, DeviceKept, SoftwareTold, DecoderAtHand, Opening, Idle, Excused, Failed
  <2>4. Absorbed'
    BY <1>2, <1>7, <1>8, <1>9, <2>2 DEF Absorbed, PipeOK, InUseOK, BlameOK, Idle
  <2> QED
    BY <2>3, <2>4
<1>10. CASE ReopensInUse /\ o \in ReopenOutcomes /\ ~o.ok
  <2>1. /\ source'.broken /\ ~source'.open
        /\ o.codec.built = None /\ o.codec.device \in {None, codec.device}
        /\ o.harm \/ Fails("device") \/ Fails("open")
    BY <1>1, <1>3, <1>10, ReopenEffects
  <2>2. ProbeFailed(o.codec, o.harm)
    BY <1>1, <1>10
  <2>3. /\ SameDecoder(o.codec, codec') /\ (codec'.fault <=> o.codec.fault \/ ctl.why = "rebuild")
        /\ history'.harm = (history.harm \/ o.harm) /\ ctl'.why = ctl.why
        /\ \/ ctl.why = "candidate" /\ ctl'.pc = "ladder" /\ UNCHANGED <<published, reply>>
           \/ ctl.why = "software" /\ ctl'.pc = "closed" /\ UNCHANGED <<published, reply>>
           \/ ctl.why = "rebuild" /\ ctl'.pc = "second" /\ ctl'.result = ctl.result
              /\ UNCHANGED <<published, reply>>
           \/ ctl.why = "fallback" /\ ctl'.pc = "idle" /\ reply' = "failed"
              /\ ~published'.hardware /\ published'.reason # None
    BY <1>3, <1>5, <2>2, ProbeFailedMoves
  <2>4. codec'.built = None /\ codec'.device \in {None, codec.device}
    BY <2>1, <2>3 DEF SameDecoder
  <2>5. Excused'
    BY <2>1 DEF Excused
  <2>6. StartOK' /\ DeviceKept'
    BY <1>2, <2>1, <2>3, <2>4 DEF Told, StartOK, DeviceKept, Opening, Idle, None
  <2>7. SoftwareTold' /\ DecoderAtHand'
    BY <2>3, <2>4, <2>5 DEF SoftwareTold, DecoderAtHand, None
  <2>8. Absorbed'
    BY <1>2, <1>7, <1>8, <1>10, <2>1, <2>3
       DEF Absorbed, PipeOK, InUseOK, BlameOK, Idle, Sheltered
  <2> QED
    BY <2>6, <2>7, <2>8 DEF Told
<1>11. CASE /\ o.codec = codec /\ o.source.open = source.open /\ o.source.broken = source.broken
            /\ o.ok => o.positioned /\ (positioned \/ source.place = "start" => o.source.place = "start")
            /\ ~o.ok => setting.io = "pipe" /\ positioned
  <2>1. o.ok
    BY <1>2, <1>11 DEF Absorbed, PipeOK
  <2>2. /\ UNCHANGED <<codec, published, reply, history>> /\ positioned' /\ source'.open
        /\ source'.broken = source.broken
        /\ positioned \/ source.place = "start" => source'.place = "start"
    BY <1>1, <1>2, <1>11, <2>1
  <2>3. ctl'.pc = "probing" /\ ctl'.why = ctl.why /\ ctl'.result = ctl.result /\ ctl'.queue = ctl.queue
    BY <1>1, <1>3, <2>1, StepMoves DEF Pcs
  <2>4. Told'
    BY <1>2, <1>7, <2>2, <2>3
       DEF Told, StartOK, DeviceKept, SoftwareTold, DecoderAtHand, Opening, Idle, Excused, Failed
  <2>5. Absorbed'
    BY <1>2, <1>7, <2>2, <2>3 DEF Absorbed, PipeOK, InUseOK, BlameOK, Idle
  <2> QED
    BY <2>4, <2>5
<1> QED
  BY <1>3, <1>5, <1>9, <1>10, <1>11, ProbePositionsEffects

LEMMA ProbeDecodesHolds == ASSUME Good, Told, Absorbed, ProbeDecodes PROVE Told' /\ Absorbed'
<1>1. PICK c \in FirstFrames :
        /\ Probed(c)
        /\ codec' = IF ctl.why = "rebuild" /\ ~DidAccept(c) THEN [c EXCEPT !.fault = TRUE] ELSE c
  BY DEF ProbeDecodes
<1>2. /\ UNCHANGED <<setting, positioned, reply, history>> /\ ctl.pc = "probing"
      /\ source.place = "start" => firstFrame' = "first"
      /\ source'.open = source.open /\ source'.broken = source.broken
  BY DEF ProbeDecodes, Good, Typed, Sources
<1>3. /\ ctl.why \in Whys \ {"request"} /\ ctl \in Ctls /\ Sane(codec) /\ codec.built # None
      /\ codec.built = IF ctl.why \in {"candidate", "rebuild"} THEN "hardware" ELSE "software"
  BY <1>2 DEF Good, Typed, Ctls, Rungs, None
<1>4. Sane(c) /\ SameDecoder(codec, c) /\ c.fault = codec.fault
  <2>1. Sane(Declined(codec)) /\ SameDecoder(codec, Declined(codec)) /\ Declined(codec).fault = codec.fault
    BY <1>3, FrameFacts, FrameMembers
  <2>2. c \in {[codec EXCEPT !.seen = TRUE], Surface(codec), Surface(Declined(codec))}
    BY DEF FirstFrames
  <2>3. CASE c = Surface(Declined(codec))
    BY <2>1, <2>3, FrameFacts, FrameMembers DEF SameDecoder
  <2>4. CASE c \in {[codec EXCEPT !.seen = TRUE], Surface(codec)}
    BY <1>3, <2>4, FrameFacts, FrameMembers
  <2> QED
    BY <2>2, <2>3, <2>4
<1>5. /\ SameDecoder(codec, codec')
      /\ ctl.why = "rebuild" /\ ~DidAccept(c) => codec'.fault
      /\ ctl.why # "rebuild" => codec'.fault = codec.fault
  <2>1. CASE ctl.why = "rebuild" /\ ~DidAccept(c)
    BY <1>1, <1>4, <2>1, FlagMembers DEF SameDecoder
  <2>2. CASE ~(ctl.why = "rebuild" /\ ~DidAccept(c))
    BY <1>1, <1>4, <2>2
  <2> QED
    BY <2>1, <2>2
<1>6. /\ codec'.built = codec.built /\ codec'.active = codec.active /\ codec'.device = codec.device
  BY <1>5 DEF SameDecoder
<1>7. /\ ctl'.why = ctl.why /\ ctl'.queue = ctl.queue
      /\ \/ ctl.why = "candidate" /\ ctl'.pc = "ladder" /\ UNCHANGED published
         \/ ctl.why = "candidate" /\ ctl'.pc = "idle" /\ published'.hardware /\ published'.type = codec.device
         \/ ctl.why = "software" /\ ctl'.pc = "idle" /\ ~published'.hardware /\ published'.reason # None
         \/ ctl.why = "rebuild" /\ ctl'.pc = "extract" /\ UNCHANGED published
         \/ ctl.why = "rebuild" /\ ctl'.pc = "second" /\ ctl'.result = ctl.result /\ codec'.fault
            /\ UNCHANGED published
         \/ ctl.why = "fallback" /\ ctl'.pc = "extract" /\ UNCHANGED published
  <2>1. "idle" \in Pcs /\ "extract" \in Pcs /\ "second" \in Pcs
    BY DEF Pcs
  <2>2. CASE ctl.why = "candidate" /\ NextRung /\ UNCHANGED published
    BY <1>3, <2>2, NextRungMoves
  <2>3. CASE ctl.why = "candidate" /\ Step("idle") /\ published' = [hardware |-> TRUE, type |-> c.device, reason |-> None]
    BY <1>3, <1>4, <2>1, <2>3, StepMoves DEF SameDecoder
  <2>4. CASE ctl.why = "software" /\ Step("idle") /\ Publish(ctl.reason)
    <3>1. ctl.reason \in Reasons
      BY <1>3 DEF Ctls
    <3>2. ~published'.hardware /\ published'.reason # None
      BY <2>4, <3>1 DEF Publish, Reasons, None
    <3> QED
      BY <1>3, <2>1, <2>4, <3>2, StepMoves
  <2>5. CASE ctl.why = "rebuild" /\ DidAccept(c) /\ Step("extract") /\ UNCHANGED published
    BY <1>3, <2>1, <2>5, StepMoves
  <2>6. CASE ctl.why = "rebuild" /\ ~DidAccept(c) /\ Step("second") /\ UNCHANGED published
    BY <1>3, <1>5, <2>1, <2>6, StepMoves
  <2>7. CASE ctl.why = "fallback" /\ Step("extract") /\ UNCHANGED published
    BY <1>3, <2>1, <2>7, StepMoves
  <2> QED
    BY <1>1, <2>2, <2>3, <2>4, <2>5, <2>6, <2>7 DEF Probed
<1>8. Strict' = Strict /\ ReopensInUse' = ReopensInUse /\ Sheltered' = Sheltered
  BY <1>2, SettingStands
<1>9. StartOK' /\ DeviceKept'
  BY <1>2, <1>6, <1>7 DEF Told, StartOK, DeviceKept, Opening, Idle
<1>10. SoftwareTold' /\ DecoderAtHand'
  BY <1>2, <1>3, <1>6, <1>7, <1>8 DEF Told, SoftwareTold, DecoderAtHand, Excused, Failed
<1>11. PipeOK'
  <2>1. setting.io = "pipe" => codec.built = "software"
    BY <1>3 DEF Sane, Absorbed, PipeOK
  <2> QED
    BY <1>2, <1>3, <1>5, <1>6, <1>7, <2>1 DEF Absorbed, PipeOK
<1>12. InUseOK'
  BY <1>2, <1>3, <1>6, <1>7, <1>8 DEF Absorbed, InUseOK, Usable
<1>13. BlameOK'
  BY <1>2, <1>3, <1>6, <1>7, <1>8 DEF Absorbed, BlameOK, Idle, Failed, Told, StartOK, Opening, None
<1> QED
  BY <1>9, <1>10, <1>11, <1>12, <1>13 DEF Told, Absorbed

LEMMA ProbeFailsHolds == ASSUME Good, Told, Absorbed, ProbeFails PROVE Told' /\ Absorbed'
<1>1. /\ UNCHANGED <<setting, positioned, firstFrame>> /\ ctl.pc = "probing"
      /\ source'.open = source.open /\ source'.broken = source.broken
  BY DEF ProbeFails, Good, Typed, Sources
<1>2. /\ ctl.why \in Whys \ {"request"} /\ Sane(codec) /\ codec.built # None
      /\ codec.built = IF ctl.why \in {"candidate", "rebuild"} THEN "hardware" ELSE "software"
  BY <1>1 DEF Good, Typed, Ctls, Rungs, None
<1>3. PICK c, harmful : /\ ProbeFailed(c, harmful) /\ harmful \in BOOLEAN
                        /\ codec.built = "software" => harmful /\ c = codec
                        /\ c \in {codec, Declined(codec), [codec EXCEPT !.fault = TRUE]}
  <2>1. CASE codec.built = "hardware" /\ Fails("decline") /\ ProbeFailed(Declined(codec), FALSE)
    BY <2>1
  <2>2. CASE codec.built = "hardware" /\ Fails("fault") /\ ProbeFailed([codec EXCEPT !.fault = TRUE], FALSE)
    BY <2>2
  <2>3. CASE Fails("error") /\ ProbeFailed(codec, TRUE)
    BY <2>3
  <2> QED
    BY <2>1, <2>2, <2>3 DEF ProbeFails
<1>4. Sane(c) /\ SameDecoder(codec, c)
  <2>1. CASE c = codec
    BY <1>2, <2>1 DEF SameDecoder
  <2>2. CASE c = Declined(codec)
    BY <1>2, <2>2, FrameFacts, FrameMembers
  <2>3. CASE c = [codec EXCEPT !.fault = TRUE]
    BY <1>2, <2>3, FaultFacts, FlagMembers
  <2> QED
    BY <1>3, <2>1, <2>2, <2>3
<1>5. /\ SameDecoder(c, codec') /\ (codec'.fault <=> c.fault \/ ctl.why = "rebuild")
      /\ history'.harm = (history.harm \/ harmful)
      /\ ctl'.why = ctl.why /\ ctl'.queue = ctl.queue
      /\ \/ ctl.why = "candidate" /\ ctl'.pc = "ladder" /\ UNCHANGED <<published, reply>>
         \/ ctl.why = "software" /\ ctl'.pc = "closed" /\ UNCHANGED <<published, reply>>
         \/ ctl.why = "rebuild" /\ ctl'.pc = "second" /\ ctl'.result = ctl.result
            /\ UNCHANGED <<published, reply>>
         \/ ctl.why = "fallback" /\ ctl'.pc = "idle" /\ reply' = "failed"
            /\ ~published'.hardware /\ published'.reason # None
  BY <1>2, <1>3, <1>4, ProbeFailedMoves
<1>6. /\ codec'.built = codec.built /\ codec'.active = codec.active /\ codec'.device = codec.device
  BY <1>4, <1>5 DEF SameDecoder
<1>7. Strict' = Strict /\ ReopensInUse' = ReopensInUse /\ Sheltered' = Sheltered
  BY <1>1, SettingStands
<1>8. StartOK' /\ DeviceKept'
  BY <1>1, <1>5, <1>6 DEF Told, StartOK, DeviceKept, Opening, Idle, None
<1>9. SoftwareTold' /\ DecoderAtHand'
  BY <1>1, <1>2, <1>5, <1>6, <1>7 DEF Told, SoftwareTold, DecoderAtHand, Excused, Failed
<1>10. PipeOK'
  <2>1. setting.io = "pipe" => codec.built = "software"
    BY <1>2 DEF Sane, Absorbed, PipeOK
  <2> QED
    BY <1>1, <1>2, <1>3, <1>5, <1>6, <2>1 DEF Absorbed, PipeOK
<1>11. InUseOK'
  BY <1>1, <1>2, <1>5, <1>6, <1>7 DEF Absorbed, InUseOK, Usable
<1>12. BlameOK'
  BY <1>1, <1>2, <1>3, <1>5, <1>6, <1>7 DEF Absorbed, BlameOK, Idle, Failed
<1> QED
  BY <1>8, <1>9, <1>10, <1>11, <1>12 DEF Told, Absorbed

-----------------------------------------------------------------------------
(* ... and through a request.                                                *)

LEMMA RequestHolds == ASSUME Good, Told, Absorbed, Request PROVE Told' /\ Absorbed'
<1>1. /\ UNCHANGED <<setting, source, positioned, firstFrame, published, reply>>
      /\ ctl.pc = "idle" /\ Sane(codec)
  BY DEF Request, Good, Typed
<1>2. ctl'.pc = "start" /\ ctl'.why = "request" /\ ctl'.queue = ctl.queue
  BY DEF Request, Good, Typed, Ctls
<1>3. /\ codec'.built = codec.built /\ codec'.active = codec.active /\ codec'.device = codec.device
      /\ ~codec'.fault
  BY <1>1, FlagMembers DEF Request, SameDecoder
<1>4. Strict' = Strict /\ ReopensInUse' = ReopensInUse /\ Sheltered' = Sheltered
  BY <1>1, SettingStands
<1>5. StartOK' /\ DeviceKept'
  BY <1>1, <1>2, <1>3 DEF Told, StartOK, DeviceKept, Opening, Idle
<1>6. SoftwareTold' /\ DecoderAtHand'
  BY <1>1, <1>2, <1>3, <1>4 DEF Told, SoftwareTold, DecoderAtHand, Excused
<1>7. PipeOK'
  BY <1>1, <1>2, <1>3 DEF Absorbed, PipeOK
<1>8. InUseOK'
  BY <1>1, <1>2, <1>3, <1>4 DEF Absorbed, InUseOK, Usable, Candidate
<1>9. BlameOK'
  BY <1>2 DEF BlameOK, Idle
<1> QED
  BY <1>5, <1>6, <1>7, <1>8, <1>9 DEF Told, Absorbed

\* A request that re-opens the source, because nothing is usable or because it cannot
\* be positioned otherwise, decodes on or counts as a failed attempt.
LEMMA ReopenedHolds ==
  ASSUME Good, Told, Absorbed, UNCHANGED <<setting, firstFrame, published, reply>>,
         \/ ctl.pc = "start" /\ ~Usable
         \/ ctl.pc = "extract" /\ ReopensInUse,
         NEW o \in ReopenOutcomes, Leave(o),
         IF o.ok THEN ctl'.pc = "extract" /\ ctl'.why = ctl.why /\ ctl'.queue = ctl.queue
                 ELSE Harmed(o.harm) /\ Attempted("failed")
  PROVE  Told' /\ Absorbed'
<1>1. /\ TypeOK /\ ctl \in Ctls /\ history \in Histories /\ Sane(codec)
      /\ ctl.why \in {"request", "rebuild", "fallback"}
  BY TypeParts DEF Good, Typed, Rungs
<1>2. Lawful(o) /\ source' = o.source /\ codec' = o.codec /\ positioned' = o.positioned
  BY <1>1, ReopenFacts DEF Leave
<1>3. o.ok \in BOOLEAN /\ o.harm \in BOOLEAN
  BY <1>2 DEF Lawful
<1>4. Strict' = Strict /\ ReopensInUse' = ReopensInUse /\ Sheltered' = Sheltered
  BY SettingStands
<1>5. Candidate(codec) \in {None, codec.device} /\ (~codec.active => Candidate(codec) = None)
  BY DEF Candidate
<1>6. /\ codec.built = "hardware" => Candidate(codec) # None
      /\ codec.built = "software" => Candidate(codec) = None
  BY <1>1 DEF Candidate, Sane
<1>7. ReopensInUse => setting.io # "pipe"
  BY DEF ReopensInUse, Seekable
<1>8. codec.built \in {None, "hardware", "software"}
  BY <1>1 DEF Sane, Codecs
<1>9. CASE o.ok
  <2>1. ctl'.pc = "extract" /\ ctl'.why = ctl.why /\ ctl'.queue = ctl.queue
    BY <1>9
  <2>2. /\ source'.open /\ source'.broken = source.broken
        /\ codec'.built = (IF Candidate(codec) = None THEN "software" ELSE "hardware")
        /\ codec'.device = Candidate(codec)
        /\ codec'.active = (Candidate(codec) # None) /\ ~codec'.fault
    BY <1>1, <1>2, <1>9, ReopenEffects
  <2>3. codec'.built # None
    BY <2>2 DEF None
  <2>4. StartOK' /\ DeviceKept' /\ DecoderAtHand'
    BY <1>5, <2>1, <2>2, <2>3 DEF Told, StartOK, DeviceKept, DecoderAtHand, Opening, Idle
  <2>5. SoftwareTold'
    BY <1>4, <1>6, <1>8, <2>1, <2>2 DEF Told, SoftwareTold, DecoderAtHand, Excused
  <2>6. PipeOK'
    BY <1>5, <2>1, <2>2 DEF Absorbed, PipeOK
  <2>7. InUseOK'
    BY <2>1, <2>2 DEF InUseOK
  <2>8. BlameOK'
    BY <1>4, <1>6, <2>1, <2>2 DEF Absorbed, BlameOK, Told, DecoderAtHand, Idle
  <2> QED
    BY <2>4, <2>5, <2>6, <2>7, <2>8 DEF Told, Absorbed
<1>10. CASE ~o.ok
  <2>1. /\ ctl'.why = ctl.why /\ ctl'.result = "failed" /\ ctl'.queue = ctl.queue
        /\ ctl'.pc \in {"first", "second", "finish"}
    BY <1>1, <1>10, AttemptMoves
  <2>2. /\ source'.broken /\ codec'.built = None /\ codec'.device \in {None, codec.device}
        /\ codec'.active = codec.active /\ (codec'.fault => codec.fault)
        /\ Candidate(codec) = None => o.harm /\ Candidate(codec') = None
        /\ o.harm \/ Fails("device") \/ Fails("open")
    BY <1>1, <1>2, <1>10, ReopenEffects
  <2>3. history'.harm = (history.harm \/ o.harm)
    BY <1>1, <1>3, <1>10, HarmGrows
  <2>4. ~ReopensInUse /\ ~Strict => Candidate(codec) = None
    BY DEF Absorbed, InUseOK
  <2>5. Candidate(codec)' = Candidate(codec')
    BY DEF Candidate
  <2>6. StartOK' /\ DeviceKept'
    BY <2>1, <2>2 DEF Told, StartOK, DeviceKept, Opening, Idle
  <2>7. SoftwareTold' /\ DecoderAtHand'
    BY <2>1, <2>2 DEF SoftwareTold, DecoderAtHand, Excused, None
  <2>8. PipeOK'
    BY <2>1, <2>2 DEF Absorbed, PipeOK
  <2>9. InUseOK'
    BY <1>4, <2>1, <2>2, <2>4, <2>5 DEF InUseOK
  <2>10. Sheltered /\ ~Strict => o.harm
    BY <2>2, <2>4 DEF Sheltered
  <2>11. BlameOK'
    BY <1>4, <2>1, <2>3, <2>10 DEF BlameOK, Idle
  <2> QED
    BY <2>6, <2>7, <2>8, <2>9, <2>11 DEF Told, Absorbed
<1> QED
  BY <1>3, <1>9, <1>10

LEMMA StartOrReviveHolds == ASSUME Good, Told, Absorbed, StartOrRevive PROVE Told' /\ Absorbed'
<1>1. UNCHANGED <<setting, firstFrame, published, reply>> /\ ctl.pc = "start" /\ ctl \in Ctls
  BY DEF StartOrRevive, Good, Typed
<1>2. Step("extract") => ctl'.pc = "extract" /\ ctl'.why = ctl.why /\ ctl'.queue = ctl.queue
  BY <1>1, StepMoves DEF Pcs
<1>3. CASE Usable /\ Step("extract") /\ UNCHANGED <<decoding, history>>
  <2>1. UNCHANGED <<source, codec, positioned, history>>
    BY <1>3 DEF decoding
  <2>2. Strict' = Strict /\ ReopensInUse' = ReopensInUse /\ Sheltered' = Sheltered
    BY <1>1, SettingStands
  <2>3. StartOK' /\ DeviceKept'
    BY <1>1, <1>2, <1>3, <2>1 DEF Told, StartOK, DeviceKept, Opening, Idle
  <2>4. SoftwareTold' /\ DecoderAtHand'
    BY <1>1, <1>2, <1>3, <2>1, <2>2 DEF Told, SoftwareTold, DecoderAtHand, Excused, Usable
  <2>5. PipeOK' /\ InUseOK'
    BY <1>1, <1>2, <1>3, <2>1, <2>2 DEF Absorbed, PipeOK, InUseOK, Usable
  <2>6. BlameOK'
    BY <1>1, <1>2, <1>3 DEF BlameOK, Idle, Told, DecoderAtHand
  <2> QED
    BY <2>3, <2>4, <2>5, <2>6 DEF Told, Absorbed
<1>4. CASE ~Usable
  <2>1. PICK o \in ReopenOutcomes :
          /\ Leave(o)
          /\ IF o.ok THEN Step("extract") /\ UNCHANGED history
                     ELSE Harmed(o.harm) /\ Attempted("failed")
    BY <1>4 DEF StartOrRevive
  <2> QED
    BY <1>1, <1>2, <1>4, <2>1, ReopenedHolds
<1> QED
  BY <1>3, <1>4 DEF StartOrRevive

LEMMA RewindHolds == ASSUME Good, Told, Absorbed, Rewind PROVE Told' /\ Absorbed'
<1>1. UNCHANGED <<setting, firstFrame, published, reply>> /\ ctl.pc = "extract" /\ ReopensInUse
  BY DEF Rewind, ReopensInUse
<1>2. PICK o \in ReopenOutcomes :
        /\ Leave(o)
        /\ IF o.ok THEN UNCHANGED <<ctl, history>> ELSE Harmed(o.harm) /\ Attempted("failed")
  BY DEF Rewind
<1> QED
  BY <1>1, <1>2, ReopenedHolds

\* An attempt that leaves the decoder and the source what they were goes on to the
\* conversion of a surface, or to the rung below with its result.
LEMMA AttemptHolds ==
  ASSUME Good, Told, Absorbed, UNCHANGED <<setting, firstFrame, published, reply>>,
         ctl.pc \in {"extract", "convert"}, NEW result \in {"surface", "picture", "failed"},
         Attempted(result), SameDecoder(codec, codec'),
         source'.open = source.open, source'.broken = source.broken,
         codec'.fault => codec.fault \/ codec.built = "hardware",
         result = "surface" => codec.built = "hardware",
         result = "failed" => history'.harm \/ (codec'.fault /\ codec.built = "hardware")
  PROVE  Told' /\ Absorbed'
<1>1. /\ ctl \in Ctls /\ ctl.why \in {"request", "rebuild", "fallback"} /\ Sane(codec)
      /\ codec.built # None
  BY DEF Good, Typed, Rungs, Told, DecoderAtHand
<1>2. /\ codec'.built = codec.built /\ codec'.active = codec.active /\ codec'.device = codec.device
  BY DEF SameDecoder
<1>3. /\ ctl'.why = ctl.why /\ ctl'.result = result /\ ctl'.queue = ctl.queue
      /\ ctl'.pc = IF result = "surface" THEN "convert"
                   ELSE IF ctl.why = "request" THEN "first"
                   ELSE IF ctl.why = "rebuild" THEN "second" ELSE "finish"
  BY <1>1, AttemptMoves
<1>4. Strict' = Strict /\ ReopensInUse' = ReopensInUse /\ Sheltered' = Sheltered
  BY SettingStands
<1>5. StartOK' /\ DeviceKept'
  BY <1>2, <1>3 DEF Told, StartOK, DeviceKept, Opening, Idle
<1>6. SoftwareTold' /\ DecoderAtHand'
  BY <1>1, <1>2, <1>3, <1>4 DEF Told, SoftwareTold, DecoderAtHand, Excused
<1>7. PipeOK'
  BY <1>1, <1>2, <1>3 DEF Absorbed, PipeOK, Sane
<1>8. InUseOK'
  BY <1>1, <1>2, <1>3, <1>4 DEF Absorbed, InUseOK, Usable
<1>9. BlameOK'
  BY <1>1, <1>2, <1>3, <1>4 DEF Absorbed, BlameOK, Idle, Failed
<1> QED
  BY <1>5, <1>6, <1>7, <1>8, <1>9 DEF Told, Absorbed

LEMMA SelectHolds == ASSUME Good, Told, Absorbed, Select PROVE Told' /\ Absorbed'
<1>1. /\ UNCHANGED <<setting, firstFrame, published, reply>> /\ ctl.pc = "extract" /\ Sane(codec)
      /\ source'.open = source.open /\ source'.broken = source.broken
  BY DEF Select, Good, Typed, Sources
<1>2. CASE codec.built = "hardware" /\ codec' = Surface(codec) /\ Attempted("surface")
  BY <1>1, <1>2, FrameMembers, AttemptHolds
<1>3. CASE codec.built = "hardware" /\ codec' = Declined(codec) /\ Attempted("picture")
  BY <1>1, <1>3, FrameMembers, AttemptHolds
<1>4. CASE codec.built = "software" /\ codec' = [codec EXCEPT !.seen = TRUE] /\ Attempted("picture")
  BY <1>1, <1>4, FrameMembers, AttemptHolds
<1> QED
  BY <1>2, <1>3, <1>4 DEF Select

LEMMA SelectFailsHolds == ASSUME Good, Told, Absorbed, SelectFails PROVE Told' /\ Absorbed'
<1>1. /\ UNCHANGED <<setting, firstFrame, published, reply>> /\ ctl.pc = "extract" /\ Sane(codec)
      /\ source'.open = source.open /\ source'.broken = source.broken
      /\ Attempted("failed") /\ history \in Histories
  BY DEF SelectFails, Good, Typed, Sources
<1>2. CASE codec.built = "hardware" /\ codec' = [codec EXCEPT !.fault = TRUE] /\ UNCHANGED history
  BY <1>1, <1>2, FlagMembers, AttemptHolds
<1>3. CASE UNCHANGED codec /\ Harmed(TRUE)
  <2>1. history'.harm
    BY <1>1, <1>3, HarmGrows
  <2> QED
    BY <1>1, <1>3, <2>1, AttemptHolds DEF SameDecoder
<1> QED
  BY <1>2, <1>3 DEF SelectFails

LEMMA ConvertHolds == ASSUME Good, Told, Absorbed, Convert PROVE Told' /\ Absorbed'
<1>1. /\ UNCHANGED <<setting, source, positioned, firstFrame, published, reply, history>>
      /\ ctl.pc = "convert" /\ Sane(codec)
  BY DEF Convert, Good, Typed
<1>2. CASE Attempted("picture") /\ UNCHANGED codec
  BY <1>1, <1>2, AttemptHolds DEF SameDecoder
<1>3. CASE Attempted("failed") /\ codec' = [codec EXCEPT !.fault = TRUE]
  BY <1>1, <1>3, FlagMembers, AttemptHolds DEF Told, DecoderAtHand
<1> QED
  BY <1>2, <1>3 DEF Convert

LEMMA RebuildHardwareHolds == ASSUME Good, Told, Absorbed, RebuildHardware PROVE Told' /\ Absorbed'
<1>1. /\ UNCHANGED <<setting, source, positioned, firstFrame, published, reply>> /\ ctl.pc = "first"
      /\ Sane(codec) /\ ctl \in Ctls /\ history \in Histories
  BY DEF RebuildHardware, Good, Typed
<1>2. /\ codec'.built = codec.built /\ codec'.active = codec.active /\ codec'.device = codec.device
      /\ history'.harm = history.harm
      /\ ShouldRebuild => (codec'.fault <=> Candidate(codec) = None)
      /\ ~ShouldRebuild => codec' = codec
  <2>1. CASE ShouldRebuild
    <3>1. /\ codec' = [codec EXCEPT !.fault = (Candidate(codec) = None), !.retried = TRUE]
          /\ history' = [history EXCEPT !.rebuilds = @ + 1]
      BY <2>1 DEF RebuildHardware
    <3>2. history'.harm = history.harm
      BY <1>1, <3>1 DEF Histories
    <3>3. CASE Candidate(codec) = None
      <4>1. codec' = [codec EXCEPT !.fault = TRUE, !.retried = TRUE]
        BY <3>1, <3>3
      <4> QED
        BY <1>1, <2>1, <3>2, <3>3, <4>1, FlagMembers DEF SameDecoder
    <3>4. CASE Candidate(codec) # None
      <4>1. codec' = [codec EXCEPT !.fault = FALSE, !.retried = TRUE]
        BY <3>1, <3>4
      <4> QED
        BY <1>1, <2>1, <3>2, <3>4, <4>1, FlagMembers DEF SameDecoder
    <3> QED
      BY <3>3, <3>4
  <2>2. CASE ~ShouldRebuild
    BY <2>2 DEF RebuildHardware
  <2> QED
    BY <2>1, <2>2
<1>3. Strict' = Strict /\ ReopensInUse' = ReopensInUse /\ Sheltered' = Sheltered
  BY <1>1, SettingStands
<1>4. ShouldRebuild => setting.io # "pipe" /\ Failed
  BY DEF ShouldRebuild, Absorbed, PipeOK
<1>5. Candidate(codec) \in Types \cup {None} /\ Candidate(codec) \in {None, codec.device}
  BY <1>1 DEF Candidate, Sane, Codecs
<1>6. CASE ShouldRebuild /\ Candidate(codec) # None
  <2>1. /\ ctl'.pc = "build" /\ ctl'.why = "rebuild" /\ ctl'.result = ctl.result
        /\ ctl'.candidate = Candidate(codec) /\ ctl'.queue = ctl.queue
    BY <1>1, <1>5, <1>6, BuildMoves DEF RebuildHardware, Whys
  <2>2. StartOK' /\ DeviceKept'
    BY <1>1, <1>2, <1>5, <2>1 DEF Told, StartOK, DeviceKept, Opening, Idle
  <2>3. SoftwareTold' /\ DecoderAtHand'
    BY <1>1, <1>2, <1>3, <1>4, <1>6, <2>1 DEF Told, SoftwareTold, DecoderAtHand, Excused, Failed
  <2>4. Absorbed'
    BY <1>1, <1>4, <1>6, <2>1 DEF Absorbed, PipeOK, InUseOK, BlameOK, Idle
  <2> QED
    BY <2>2, <2>3, <2>4 DEF Told
<1>7. CASE ~(ShouldRebuild /\ Candidate(codec) # None)
  <2>1. ctl'.pc = "second" /\ ctl'.why = ctl.why /\ ctl'.result = ctl.result /\ ctl'.queue = ctl.queue
    BY <1>1, <1>7, StepMoves DEF RebuildHardware, Pcs
  <2>2. StartOK' /\ DeviceKept'
    BY <1>1, <1>2, <2>1 DEF Told, StartOK, DeviceKept, Opening, Idle
  <2>3. SoftwareTold' /\ DecoderAtHand'
    BY <1>1, <1>2, <1>3, <2>1 DEF Told, SoftwareTold, DecoderAtHand, Excused, Failed
  <2>4. PipeOK'
    BY <1>1, <1>2, <1>4, <2>1 DEF Absorbed, PipeOK
  <2>5. InUseOK'
    BY <1>1, <1>2, <1>3, <2>1 DEF Absorbed, InUseOK, Usable, Candidate
  <2>6. BlameOK'
    BY <1>1, <1>2, <1>3, <1>7, <2>1 DEF Absorbed, BlameOK, Idle, Failed
  <2> QED
    BY <2>2, <2>3, <2>4, <2>5, <2>6 DEF Told, Absorbed
<1> QED
  BY <1>6, <1>7

LEMMA FallBackToSoftwareHolds ==
  ASSUME Good, Told, Absorbed, FallBackToSoftware PROVE Told' /\ Absorbed'
<1>1. /\ UNCHANGED <<setting, source, positioned, firstFrame, published, history>> /\ ctl.pc = "second"
      /\ Sane(codec) /\ ctl \in Ctls /\ "idle" \in Pcs /\ "finish" \in Pcs
  BY DEF FallBackToSoftware, Good, Typed, Pcs
<1>2. Strict' = Strict /\ ReopensInUse' = ReopensInUse /\ Sheltered' = Sheltered
  BY <1>1, SettingStands
<1>3. CASE codec.fault /\ Failed
  <2>1. /\ codec'.built = codec.built /\ codec'.active = codec.active /\ codec'.device = codec.device
        /\ ~codec'.fault
    <3>1. codec' = [codec EXCEPT !.fault = FALSE]
      BY <1>3 DEF FallBackToSoftware
    <3> QED
      BY <1>1, <3>1, FlagMembers DEF SameDecoder
  <2>2. setting.io # "pipe"
    BY <1>3 DEF Absorbed, PipeOK
  <2>3. CASE Strict
    <3>1. reply' = "failed" /\ ctl'.pc = "idle" /\ ctl'.why = ctl.why
      BY <1>1, <1>3, <2>3, StepMoves DEF FallBackToSoftware, Fail
    <3>2. StartOK' /\ DeviceKept'
      BY <1>1, <2>1, <3>1 DEF Told, StartOK, DeviceKept, Opening, Idle, None
    <3>3. SoftwareTold' /\ DecoderAtHand'
      BY <1>2, <2>3, <3>1 DEF SoftwareTold, DecoderAtHand, Excused
    <3>4. Absorbed'
      BY <1>1, <1>2, <2>2, <2>3 DEF Absorbed, PipeOK, InUseOK, BlameOK
    <3> QED
      BY <3>2, <3>3, <3>4 DEF Told
  <2>4. CASE ~Strict
    <3>1. /\ ctl'.pc = "build" /\ ctl'.why = "fallback" /\ ctl'.candidate = None
          /\ UNCHANGED reply
      BY <1>1, <1>3, <2>4, BuildMoves DEF FallBackToSoftware, Whys
    <3>2. StartOK' /\ DeviceKept'
      BY <1>1, <2>1, <3>1 DEF Told, StartOK, DeviceKept, Opening, Idle
    <3>3. SoftwareTold' /\ DecoderAtHand'
      BY <1>1, <1>2, <2>1, <3>1 DEF Told, SoftwareTold, DecoderAtHand, Excused
    <3>4. Absorbed'
      BY <1>1, <2>2, <3>1 DEF Absorbed, PipeOK, InUseOK, BlameOK, Idle
    <3> QED
      BY <3>2, <3>3, <3>4 DEF Told
  <2> QED
    BY <2>3, <2>4
<1>4. CASE ~(codec.fault /\ Failed)
  <2>1. /\ ctl'.pc = "finish" /\ ctl'.why = ctl.why /\ ctl'.result = ctl.result /\ ctl'.queue = ctl.queue
        /\ UNCHANGED <<codec, reply>>
    BY <1>1, <1>4, StepMoves DEF FallBackToSoftware
  <2>2. StartOK' /\ DeviceKept'
    BY <1>1, <2>1 DEF Told, StartOK, DeviceKept, Opening, Idle
  <2>3. SoftwareTold' /\ DecoderAtHand'
    BY <1>1, <1>2, <1>4, <2>1 DEF Told, SoftwareTold, DecoderAtHand, Excused
  <2>4. PipeOK'
    BY <1>1, <2>1 DEF Absorbed, PipeOK
  <2>5. InUseOK'
    BY <1>1, <1>2, <1>4, <2>1 DEF Absorbed, InUseOK, Usable
  <2>6. BlameOK'
    BY <1>1, <1>2, <1>4, <2>1 DEF Absorbed, BlameOK, Idle, Failed
  <2> QED
    BY <2>2, <2>3, <2>4, <2>5, <2>6 DEF Told, Absorbed
<1> QED
  BY <1>3, <1>4

LEMMA FinishHolds == ASSUME Good, Told, Absorbed, Finish PROVE Told' /\ Absorbed'
<1>1. /\ UNCHANGED <<setting, source, positioned, firstFrame, published>> /\ ctl.pc = "finish"
      /\ Sane(codec) /\ ctl \in Ctls /\ history \in Histories
  BY DEF Finish, Good, Typed
<1>2. /\ codec'.built = codec.built /\ codec'.active = codec.active /\ codec'.device = codec.device
      /\ codec'.fault = codec.fault /\ history'.harm = history.harm
  <2>1. CASE ~Failed /\ codec.active
    BY <1>1, <2>1, FlagMembers DEF Finish, SameDecoder, Histories
  <2>2. CASE ~(~Failed /\ codec.active)
    BY <2>2 DEF Finish
  <2> QED
    BY <2>1, <2>2
<1>3. /\ ctl'.pc = "idle" /\ ctl'.why = ctl.why /\ ctl'.queue = ctl.queue
      /\ reply' # None /\ (reply' = "failed" <=> Failed)
  BY <1>1, StepMoves DEF Finish, Pcs, None
<1>4. Strict' = Strict /\ ReopensInUse' = ReopensInUse /\ Sheltered' = Sheltered
  BY <1>1, SettingStands
<1>5. StartOK' /\ DeviceKept'
  BY <1>1, <1>2, <1>3 DEF Told, StartOK, DeviceKept, Opening, Idle
<1>6. SoftwareTold' /\ DecoderAtHand'
  BY <1>1, <1>2, <1>3, <1>4 DEF Told, SoftwareTold, DecoderAtHand, Excused
<1>7. PipeOK'
  BY <1>1, <1>2, <1>3 DEF Absorbed, PipeOK
<1>8. InUseOK'
  BY <1>1, <1>2, <1>3, <1>4 DEF Absorbed, InUseOK, Usable, Candidate
<1>9. BlameOK'
  BY <1>1, <1>2, <1>3, <1>4 DEF Absorbed, BlameOK, Idle
<1> QED
  BY <1>5, <1>6, <1>7, <1>8, <1>9 DEF Told, Absorbed

-----------------------------------------------------------------------------

\* Every step keeps both halves.
LEMMA NextHolds == ASSUME Good, Told, Absorbed, [Next]_vars PROVE Told' /\ Absorbed'
<1>1. CASE TryCandidate \/ NoHardwareLeft \/ BuildSucceeds \/ BuildFails
  BY <1>1, TryCandidateHolds, NoHardwareLeftHolds, BuildSucceedsHolds, BuildFailsHolds
<1>2. CASE PositionProbe \/ ProbeDecodes \/ ProbeFails
  BY <1>2, PositionProbeHolds, ProbeDecodesHolds, ProbeFailsHolds
<1>3. CASE Request \/ StartOrRevive \/ Rewind
  BY <1>3, RequestHolds, StartOrReviveHolds, RewindHolds
<1>4. CASE Select \/ SelectFails \/ Convert
  BY <1>4, SelectHolds, SelectFailsHolds, ConvertHolds
<1>5. CASE RebuildHardware \/ FallBackToSoftware \/ Finish
  BY <1>5, RebuildHardwareHolds, FallBackToSoftwareHolds, FinishHolds
<1>6. CASE UNCHANGED vars
  <2>1. UNCHANGED <<setting, source, codec, positioned, firstFrame, published, ctl, reply, history>>
    BY <1>6 DEF vars
  <2>2. Strict' = Strict /\ ReopensInUse' = ReopensInUse /\ Sheltered' = Sheltered
    BY <2>1, SettingStands
  <2>3. Told'
    BY <2>1, <2>2
       DEF Told, StartOK, DeviceKept, SoftwareTold, DecoderAtHand, Opening, Idle, Excused, Failed
  <2>4. Absorbed'
    BY <2>1, <2>2 DEF Absorbed, PipeOK, InUseOK, BlameOK, Idle, Usable, Candidate, Failed
  <2> QED
    BY <2>3, <2>4
<1> QED
  BY <1>1, <1>2, <1>3, <1>4, <1>5, <1>6 DEF Next

LEMMA AlwaysHolds == Spec => [](Told /\ Absorbed)
<1>1. Init => Told /\ Absorbed
  BY InitHolds
<1>2. Good /\ Told /\ Absorbed /\ [Next]_vars => (Told /\ Absorbed)'
  BY NextHolds
<1> QED
  BY <1>1, <1>2, AlwaysGood, PTL DEF Spec

\* Whatever candidates were tried and rejected at open, on whatever container, the frame
\* open() remembers as the first of the stream is the first.
THEOREM OpenStartsAtFirst == Spec => []FirstFrameAtOpen
<1>1. Told => FirstFrameAtOpen
  BY DEF Told, StartOK, FirstFrameAtOpen
<1> QED
  BY <1>1, AlwaysHolds, PTL

\* Unless a re-open in use meets a device that cannot be had again, hardware that fails,
\* in whatever way and however often, is absorbed by the rungs below it: nothing but a
\* failure of something else reaches the caller of open() or of imageAt().
THEOREM HardwareIsAbsorbed == Spec => [](Sheltered => FaultsAreAbsorbed)
<1>1. Absorbed => (Sheltered => FaultsAreAbsorbed)
  BY DEF Absorbed, BlameOK, FaultsAreAbsorbed
<1> QED
  BY <1>1, AlwaysHolds, PTL

\* Between requests the snapshot names the device in use, if it names one at all, and
\* has told of every software decoder it was not excused from telling of.
THEOREM SnapshotNamesThePath == Spec => []PublishedPathIsInUse
<1>1. ASSUME Good, Told PROVE PublishedPathIsInUse
  <2>1. codec.built = "hardware" => codec.device # None
    BY <1>1 DEF Good, Typed, Sane
  <2> QED
    BY <1>1, <2>1 DEF Told, DeviceKept, SoftwareTold, PublishedPathIsInUse, Idle, Excused
<1> QED
  BY <1>1, AlwaysGood, AlwaysHolds, PTL

=============================================================================
