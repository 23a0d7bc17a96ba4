-------------------------- MODULE RequestPathProofs --------------------------
(* Proofs about RequestPath, for every source, every request, and words and   *)
(* caches of any size.                                                        *)
EXTENDS RequestPathProperties, RequestValueProofs

-----------------------------------------------------------------------------
(* What every state is like.                                               *)

Statuses == {"closed", "open", "invalidOptions", "oversized", "noVideoStream", "decoderNotFound",
             "invalidArgument", "unsupportedFormat"}

\* The generator has one setting all along, and is open only with valid options.
GeneratorOK ==
  /\ generator = [setting |-> Setting, status |-> generator.status, stream |-> generator.stream,
                  transform |-> generator.transform]
  /\ Setting \in Settings /\ generator.status \in Statuses
  /\ generator.status = "open" => AreOptions(Setting) /\ generator.transform = Transform(Setting)

CallerOK ==
  caller = [time |-> caller.time, steps |-> caller.steps] /\ IsTime(caller.time) /\ caller.steps \in Nat


\* Only opening touches more of a generator than nothing.
LEMMA GeneratorKept ==
  ASSUME [Next]_vars
  PROVE  generator' = generator \/ Open
BY DEF Next, vars, Rest, Step, Refuse, Ask, TakePooledFrame, PooledFrameFails, ScaleFrame, ScaleFails,
       Reattach, Proceed, Fail

\* What opening leads to.
LEMMA Opens ==
  ASSUME GeneratorOK, Open
  PROVE  /\ GeneratorOK' /\ Setting' = Setting
         /\ \/ generator'.status = "invalidOptions"
            \/ /\ AreOptions(Setting)
               /\ \E o \in Outcomes(Setting.streams, Setting.wishes) :
                    generator'.status = o.status /\ generator'.stream = o.stream
<1>1. PICK o \in IF AreOptions(Setting) THEN Outcomes(Setting.streams, Setting.wishes)
                 ELSE {No("invalidOptions")} :
        generator' = [generator EXCEPT !.status = o.status, !.stream = o.stream, !.transform = Transform(Setting)]
  BY DEF Open
<1>2. generator' = [setting |-> Setting, status |-> o.status, stream |-> o.stream,
                    transform |-> Transform(Setting)]
  <2> DEFINE transform == Transform(Setting)
  <2>1. generator' = [generator EXCEPT !.status = o.status, !.stream = o.stream, !.transform = transform]
    BY <1>1
  <2> HIDE DEF transform
  <2>2. generator' = [setting |-> Setting, status |-> o.status, stream |-> o.stream, transform |-> transform]
    BY <2>1 DEF GeneratorOK, Setting
  <2> QED
    BY <2>2 DEF transform
<1>3. Setting' = Setting
  BY <1>2 DEF Setting
<1>4. CASE ~AreOptions(Setting)
  <2>1. o = No("invalidOptions")
    BY <1>1, <1>4
  <2>2. generator'.status = "invalidOptions" /\ generator'.setting = Setting
    BY <1>2, <2>1 DEF No
  <2>3. generator' = [setting |-> generator'.setting, status |-> generator'.status,
                      stream |-> generator'.stream, transform |-> generator'.transform]
    BY <1>2
  <2>4. GeneratorOK'
    BY <1>3, <2>2, <2>3 DEF GeneratorOK, Statuses, Setting
  <2> QED
    BY <1>3, <2>2, <2>4
<1>5. CASE AreOptions(Setting)
  <2>1. o \in Outcomes(Setting.streams, Setting.wishes)
    BY <1>1, <1>5
  <2>2. o.status \in Statuses
    BY <2>1 DEF Outcomes, Chosen, No, Admit, Statuses
  <2>3. generator'.status = o.status /\ generator'.stream = o.stream /\ generator'.transform = Transform(Setting)
    BY <1>2
  <2>4. AreOptions(Setting)' /\ Transform(Setting)' = Transform(Setting)
    BY <1>3, <1>5 DEF AreOptions, Transform
  <2>5. GeneratorOK'
    BY <1>2, <1>3, <2>2, <2>3, <2>4 DEF GeneratorOK, Setting
  <2> QED
    BY <1>3, <1>5, <2>1, <2>3, <2>5
<1> QED
  BY <1>4, <1>5

\* A request under way is a valid one, of an open generator, and its window is what it
\* was resolved to.
RequestOK ==
  /\ request = [pc |-> request.pc, tolerance |-> request.tolerance, box |-> request.box,
                frame |-> request.frame, ts |-> request.ts]
  /\ request.pc \in {"idle", "download", "output", "replane", "scale", "transform"}

UnderWay ==
  /\ generator.status = "open"
  /\ request.frame \in Setting.frames /\ request.ts \in Setting.ticks
  /\ request.box \in Setting.boxes /\ IsBox(request.box, Subsampled)
  /\ IsSides(request.tolerance) /\ IsTolerance(request.tolerance)
  /\ window = ResolveTime(caller.time, request.tolerance, Stream, Setting.clamps)
  /\ window.status = "ok"

Base ==
  /\ GeneratorOK /\ CallerOK /\ RequestOK /\ IsConverter(converter)
  /\ ~At("idle") => UnderWay

LEMMA SettingKept ==
  ASSUME GeneratorOK, [Next]_vars
  PROVE  Setting' = Setting /\ GeneratorOK'
BY GeneratorKept, Opens DEF GeneratorOK, Setting

\* What a stage of a conversion does to the request, and to what it stands on.
LEMMA Proceeds ==
  ASSUME Base, ~At("idle"), UnderWay, NEW scaled, Proceed(scaled), IsConverter(converter')
  PROVE  Base'
<1>1. generator' = generator /\ caller' = caller /\ window' = window
  BY DEF Proceed
<1>2. request' = IF After(request.pc) = "idle" THEN Idle ELSE [request EXCEPT !.pc = After(request.pc)]
  BY DEF Proceed
<1>3. CASE After(request.pc) = "idle"
  <2>1. RequestOK' /\ At("idle")'
    BY <1>2, <1>3 DEF RequestOK, Idle, At
  <2> QED
    BY <1>1, <2>1 DEF Base, GeneratorOK, CallerOK, Setting
<1>4. CASE After(request.pc) # "idle"
  <2> DEFINE pc == After(request.pc)
  <2>1. request' = [pc |-> pc, tolerance |-> request.tolerance, box |-> request.box,
                    frame |-> request.frame, ts |-> request.ts]
    BY <1>2, <1>4 DEF Base, RequestOK
  <2>2. pc \in {"idle", "download", "output", "replane", "scale", "transform"}
    <3>1. \/ request.pc \in {"download", "output", "replane", "scale", "transform"}
          \/ request.pc = "idle"
      BY DEF Base, RequestOK
    <3>2. request.pc # "idle"
      BY DEF At
    <3> QED
      BY <3>1, <3>2 DEF After
  <2> HIDE DEF pc
  <2>3. RequestOK' /\ UnderWay'
    BY <1>1, <2>1, <2>2 DEF RequestOK, UnderWay, Setting, Stream, Subsampled
  <2> QED
    BY <1>1, <2>3 DEF Base, GeneratorOK, CallerOK, Setting
<1> QED
  BY <1>3, <1>4

LEMMA Asks ==
  ASSUME Base, Ask
  PROVE  Base'
<1>1. PICK t \in Setting.tolerances, b \in Setting.boxes, f \in Setting.frames, ts \in Setting.ticks :
       /\ b # NoBox => IsBox(b, Subsampled)
       /\ t # None => IsTolerance(t)
       /\ window' = ResolveTime(caller.time, Tolerances(t), Setting.stream, Setting.clamps)
       /\ window'.status = "ok"
       /\ request' = [pc |-> FirstStage(f), tolerance |-> Tolerances(t), box |-> b, frame |-> f, ts |-> ts]
  BY DEF Ask
<1>2. generator' = generator /\ caller' = caller /\ generator.status = "open"
  BY DEF Ask
<1>3. IsSides(Tolerances(t)) /\ IsTolerance(Tolerances(t))
  <2>1. IsSides(Setting.tolerance) /\ (t = None \/ IsSides(t))
    BY SettingsAssumption DEF Base, GeneratorOK
  <2>2. IsTolerance(Setting.tolerance)
    BY <1>2 DEF Base, GeneratorOK, AreOptions
  <2> QED
    BY <1>1, <2>1, <2>2 DEF Tolerances
<1>4. FirstStage(f) \in {"download", "output"}
  BY DEF FirstStage
<1>5. IsBox(b, Subsampled)
  BY <1>1 DEF IsBox
<1>6. IsConverter(converter')
  <2>1. converter' = [clock |-> converter.clock, pools |-> converter.pools, scalers |-> converter.scalers,
                       replaner |-> converter.replaner, built |-> {}]
    BY DEF Ask, Base, IsConverter
  <2> QED
    BY <2>1 DEF Base, IsConverter
<1> HIDE DEF Tolerances, FirstStage
<1>7. RequestOK' /\ UnderWay'
  BY <1>1, <1>2, <1>3, <1>4, <1>5 DEF RequestOK, UnderWay, Setting, Stream, Subsampled
<1> QED
  BY <1>2, <1>6, <1>7 DEF Base, GeneratorOK, CallerOK, Setting

LEMMA Steps ==
  ASSUME Base, Step
  PROVE  Base'
<1>1. IsTime(Plus(caller.time, Setting.step))
  BY PlusIsTime, SettingsAssumption DEF Base, GeneratorOK, CallerOK
<1>2. CallerOK'
  <2> DEFINE time == Plus(caller.time, Setting.step)
  <2>1. caller' = [time |-> time, steps |-> caller.steps + 1]
    BY DEF Step, Base, CallerOK
  <2> HIDE DEF time
  <2> QED
    BY <1>1, <2>1 DEF Base, CallerOK, time
<1>3. UNCHANGED <<generator, request, converter>> /\ At("idle")
  BY DEF Step
<1> QED
  BY <1>2, <1>3 DEF Base, GeneratorOK, RequestOK, At, Setting

\* Filling a frame, or not, leaves both of the caches as they are.
LEMMA Fills ==
  ASSUME NEW c, IsConverter(c)
  PROVE  /\ LET d == Filled(c)
            IN /\ IsConverter(d) /\ d.clock = c.clock /\ d.pools = c.pools /\ d.scalers = c.scalers
               /\ IF At("replane")
                  THEN /\ d.replaner = ReplanerKey
                       /\ d.built = IF c.replaner = ReplanerKey THEN c.built ELSE c.built \cup {"replaner"}
                  ELSE d = c
         /\ LET d == ReplanerLost(c)
            IN IsConverter(d) /\ d.clock = c.clock /\ d.pools = c.pools /\ d.scalers = c.scalers
<1>1. CASE At("replane")
  BY <1>1, AfterReplaned DEF Filled
<1>2. CASE ~At("replane")
  BY <1>2, AfterReplaned DEF Filled
<1> QED
  BY <1>1, <1>2

\* The converter stays one, whatever is looked up in it.
LEMMA StagesKeepConverter ==
  ASSUME Base
  PROVE  /\ TakePooledFrame \/ PooledFrameFails => IsConverter(converter')
         /\ ScaleFrame \/ ScaleFails => IsConverter(converter')
<1>1. \A key : IsConverter(Pooled(converter, key)) /\ IsConverter(PoolFailed(converter, key))
  BY AfterPooled, AfterPoolFailed DEF Base
<1>2. \A key, colours : IsConverter(Coloured(Scaler(converter, key), key, colours))
  BY AfterScaled DEF Base
<1>3. IsConverter(Tick(converter))
  <2>1. Tick(converter) = [clock |-> converter.clock + 1, pools |-> converter.pools,
                           scalers |-> converter.scalers, replaner |-> converter.replaner,
                           built |-> converter.built]
    BY DEF Base, IsConverter, Tick
  <2> QED
    BY <2>1 DEF Base, IsConverter
<1>4. TakePooledFrame \/ PooledFrameFails => IsConverter(converter')
  <2> DEFINE taken == Pooled(converter, PoolKey(request.pc))
  <2>1. IsConverter(taken) /\ IsConverter(Filled(taken)) /\ IsConverter(ReplanerLost(taken))
    BY <1>1, Fills
  <2>2. TakePooledFrame \/ PooledFrameFails =>
          converter' \in {PoolFailed(converter, PoolKey(request.pc)), taken, Filled(taken), ReplanerLost(taken)}
    BY DEF TakePooledFrame, PooledFrameFails
  <2> QED
    BY <1>1, <2>1, <2>2
<1>5. ScaleFrame \/ ScaleFails => IsConverter(converter')
  BY <1>2, <1>3 DEF ScaleFrame, ScaleFails
<1> QED
  BY <1>4, <1>5

LEMMA BaseHolds ==
  Spec => []Base
<1>1. Init => Base
  <2>1. SUFFICES ASSUME Init PROVE Base
    OBVIOUS
  <2>2. PICK s \in Settings :
          /\ generator = [setting |-> s, status |-> "closed", stream |-> 0,
                          transform |-> [rotation |-> 0, mirrored |-> FALSE]]
          /\ caller = [time |-> s.first, steps |-> 0]
    BY <2>1 DEF Init
  <2>3. GeneratorOK
    BY <2>2 DEF GeneratorOK, Setting, Statuses
  <2>4. CallerOK
    BY <2>2, SettingsAssumption DEF CallerOK
  <2>5. RequestOK /\ At("idle")
    BY <2>1 DEF Init, RequestOK, Idle, At
  <2> QED
    BY <2>1, <2>3, <2>4, <2>5, NewConverterIsOne DEF Base, Init
<1>2. Base /\ [Next]_vars => Base'
  <2>1. SUFFICES ASSUME Base, [Next]_vars PROVE Base'
    OBVIOUS
  <2>2. GeneratorOK' /\ Setting' = Setting
    BY <2>1, SettingKept DEF Base
  <2>3. CASE Open
    BY <2>1, <2>2, <2>3 DEF Open, Base, CallerOK, RequestOK, UnderWay, At
  <2>4. CASE Rest \/ UNCHANGED vars
    BY <2>1, <2>2, <2>4
       DEF Rest, vars, Base, CallerOK, RequestOK, UnderWay, At, Stream, Subsampled
  <2>5. CASE Refuse \/ Reattach
    <3>1. At("idle") /\ UNCHANGED <<generator, caller, request>> /\ IsConverter(converter')
      BY <2>1, <2>5, NewConverterIsOne DEF Refuse, Reattach, Base
    <3> QED
      BY <2>1, <2>2, <3>1 DEF Base, CallerOK, RequestOK, At
  <2>6. CASE TakePooledFrame \/ ScaleFrame
    <3>1. ~At("idle") /\ UnderWay /\ IsConverter(converter')
      BY <2>1, <2>6, StagesKeepConverter DEF TakePooledFrame, ScaleFrame, PoolStages, Base, At
    <3>2. \E scaled : Proceed(scaled)
      BY <2>6 DEF TakePooledFrame, ScaleFrame
    <3> QED
      BY <2>1, <3>1, <3>2, Proceeds
  <2>7. CASE PooledFrameFails \/ ScaleFails
    <3>1. IsConverter(converter')
      BY <2>1, <2>7, StagesKeepConverter
    <3>2. request' = Idle /\ caller' = caller
      BY <2>7 DEF PooledFrameFails, ScaleFails, Fail
    <3>3. RequestOK' /\ At("idle")'
      BY <3>2 DEF RequestOK, Idle, At
    <3> QED
      BY <2>1, <2>2, <3>1, <3>2, <3>3 DEF Base, CallerOK
  <2> QED
    BY <2>1, <2>3, <2>4, <2>5, <2>6, <2>7, Asks, Steps DEF Next
<1> QED
  BY <1>1, <1>2, PTL DEF Spec

-----------------------------------------------------------------------------
(* The colours of a scaling context.                                       *)

\* Between the two stages that come last, a frame keeps what it was scaled with.
ScaledOK == At("transform") => reply.scaled = Colours(frame)

\* detail/Converter.h, scalerFor() and applyColorspace(): whichever of the contexts scales a
\* picture, and whatever it scaled before, it is told the colours of this one.
THEOREM ContextsAreToldTheirColours ==
  Spec => []ScaledWithItsOwnColours
<1> DEFINE Inv == ScaledOK /\ ScaledWithItsOwnColours
<1>1. Init => Inv
  BY DEF Init, ScaledOK, ScaledWithItsOwnColours, At, Idle, IsImage, NoReply
<1>2. Base /\ Inv /\ [Next]_vars => Inv'
  <2>1. SUFFICES ASSUME Base, Inv, [Next]_vars PROVE Inv'
    OBVIOUS
  <2>2. Setting' = Setting
    BY <2>1, SettingKept DEF Base
  <2>3. \A f : Colours(f)' = Colours(f)
    BY <2>2 DEF Colours, IsFullRange
  <2>4. CASE Open \/ Rest \/ Step \/ UNCHANGED vars
    <3>1. request' = request /\ reply' = reply
      BY <2>4 DEF Open, Rest, Step, vars
    <3> QED
      BY <2>1, <2>2, <3>1 DEF ScaledOK, ScaledWithItsOwnColours, At, IsImage, Colours, IsFullRange, frame
  <2>5. CASE Refuse \/ Reattach \/ Ask \/ PooledFrameFails \/ ScaleFails
    <3>1. reply'.status # "image"
      <4>1. reply'.status \in {"none", "failed", "invalidArgument"} \/ Refuse
        BY <2>5 DEF Reattach, Ask, PooledFrameFails, ScaleFails, Fail, NoReply
      <4>2. CASE Refuse
        <5>1. \A t, r : ResolveTime(r, t, Setting.stream, Setting.clamps).status
                          \in {"ok", "invalidArgument", "timeOutOfRange"}
          BY DEF ResolveTime, Refused, Window
        <5> QED
          BY <4>2, <5>1 DEF Refuse, NoReply
      <4> QED
        BY <4>1, <4>2
    <3>2. ~At("transform")'
      BY <2>1, <2>5 DEF Refuse, Reattach, Ask, PooledFrameFails, ScaleFails, Fail, Idle, At, FirstStage
    <3> QED
      BY <3>1, <3>2 DEF ScaledOK, ScaledWithItsOwnColours, IsImage
  <2>6. ASSUME NEW scaled, Proceed(scaled), ~At("idle"),
               After(request.pc) \in {"idle", "transform"} => scaled = Colours(frame)
        PROVE  Inv'
    <3>1. /\ reply'.status = IF After(request.pc) = "idle" THEN "image" ELSE "none"
          /\ reply'.frame = frame /\ reply'.scaled = scaled
      BY <2>6 DEF Proceed
    <3>2. request' = IF After(request.pc) = "idle" THEN Idle ELSE [request EXCEPT !.pc = After(request.pc)]
      BY <2>6 DEF Proceed
    <3>3. CASE After(request.pc) = "idle"
      <4>1. ~At("transform")'
        BY <3>2, <3>3 DEF At, Idle
      <4> QED
        BY <2>3, <2>6, <3>1, <3>3, <4>1 DEF ScaledOK, ScaledWithItsOwnColours
    <3>4. CASE After(request.pc) # "idle"
      <4>1. request'.pc = After(request.pc) /\ frame' = frame
        BY <2>1, <3>2, <3>4 DEF Base, RequestOK, frame
      <4>2. reply'.status # "image"
        BY <3>1, <3>4
      <4> QED
        BY <2>3, <2>6, <3>1, <4>1, <4>2 DEF ScaledOK, ScaledWithItsOwnColours, IsImage, At
    <3> QED
      BY <3>3, <3>4
  <2>7. CASE TakePooledFrame
    <3>1. Proceed(reply.scaled) /\ request.pc \in PoolStages
      BY <2>7 DEF TakePooledFrame
    <3>2. After(request.pc) \in {"idle", "transform"} => At("transform")
      BY <3>1 DEF After, PoolStages, At
    <3> QED
      BY <2>1, <2>6, <3>1, <3>2 DEF ScaledOK, At, PoolStages
  <2>8. CASE ScaleFrame
    <3>1. converter'.scalers[Slot(converter'.scalers, ScalerKey)].colours = Colours(frame)
      <4>1. converter' = Coloured(Scaler(converter, ScalerKey), ScalerKey, Colours(frame))
        BY <2>8 DEF ScaleFrame
      <4>2. IsConverter(converter)
        BY <2>1 DEF Base
      <4> DEFINE key == ScalerKey
                 colours == Colours(frame)
                 d == Coloured(Scaler(converter, key), key, colours)
      <4> HIDE DEF key, colours
      <4>3. d.scalers[Slot(d.scalers, key)].colours = colours
        BY <4>2, ScaledIsColoured
      <4> QED
        BY <4>1, <4>3 DEF key, colours
    <3> QED
      BY <2>6, <2>8, <3>1 DEF ScaleFrame, At
  <2> QED
    BY <2>1, <2>4, <2>5, <2>7, <2>8 DEF Next
<1> QED
  BY <1>1, <1>2, BaseHolds, PTL DEF Spec

-----------------------------------------------------------------------------
(* Windows.                                                                *)

\* The window of a request under way is as tight as its tolerance.
LEMMA WindowIsTightUnderWay ==
  ASSUME Base, ~At("idle")
  PROVE  WindowIsTight
<1> DEFINE w == window
           t == request.tolerance
           time == caller.time
           relative == ToTimestamp(time, Stream.base, "nearest")
<1>1. /\ IsSource(Stream) /\ IsSides(t) /\ IsTolerance(t) /\ IsTime(time)
      /\ w = ResolveTime(time, t, Stream, Setting.clamps) /\ w.status = "ok"
  BY SettingsAssumption DEF Base, GeneratorOK, CallerOK, UnderWay, Stream
<1>2. /\ IsNumber(time) /\ time.value >= 0 /\ relative # MaxValue
      /\ \/ ~IsPastDuration(relative, Stream) /\ w = Window(Stream.start + relative, t, Stream, FALSE)
         \/ IsPastDuration(relative, Stream) /\ w = Window(Stream.start + Stream.duration, t, Stream, TRUE)
  <2>1. w.status = "ok" => ~(~IsFinite(time) \/ time.value < 0)
    BY <1>1 DEF ResolveTime, Refused
  <2>2. ~(~IsFinite(time) \/ time.value < 0)
    BY <1>1, <2>1
  <2>3. ~(relative = MaxValue \/ ~Fits(Stream.start + relative))
    BY <1>1, <2>2 DEF ResolveTime, Refused
  <2>4. IsNumber(time) /\ time.value >= 0
    BY <1>1, <2>2 DEF IsNumber, IsTime
  <2>5. CASE ~IsPastDuration(relative, Stream)
    <3>1. w = Window(Stream.start + relative, t, Stream, FALSE)
      BY <1>1, <2>2, <2>3, <2>5 DEF ResolveTime
    <3> QED
      BY <2>3, <2>4, <2>5, <3>1
  <2>6. CASE IsPastDuration(relative, Stream)
    <3>1. Setting.clamps
      BY <1>1, <2>2, <2>3, <2>6 DEF ResolveTime, Refused
    <3>2. w = Window(Stream.start + Stream.duration, t, Stream, TRUE)
      BY <1>1, <2>2, <2>3, <2>6, <3>1 DEF ResolveTime
    <3> QED
      BY <2>3, <2>4, <2>6, <3>2
  <2> QED
    BY <2>5, <2>6
<1>3. Stream.base.num \in Nat \ {0} /\ Stream.base.den \in Nat \ {0} /\ time.scale \in Nat \ {0} /\ time.value \in Nat
  BY <1>1, <1>2 DEF IsSource, IsTimeBase, IsNumber
<1> DEFINE off(n) == 2 * time.value * Stream.base.den - 2 * n * Stream.base.num * time.scale
           tick == Stream.base.num * time.scale
<1>4. relative \in Nat /\ -tick <= off(relative) /\ off(relative) <= tick
  BY <1>1, <1>2, TickIsNearest DEF IsSource
<1> HIDE DEF w, time, relative
<1>5. PICK target \in Int, clamped \in BOOLEAN :
        /\ w = Window(target, t, Stream, clamped) /\ MinValue < target
        /\ IF clamped THEN target - Stream.start = Stream.duration /\ off(target - Stream.start) > 0
           ELSE -tick <= off(target - Stream.start) /\ off(target - Stream.start) <= tick
  <2>1. Stream.start \in Int /\ MinValue < Stream.start /\ MinValue \in Int
    BY <1>1, TimeAssumption DEF IsSource, MinValue
  <2>2. CASE ~IsPastDuration(relative, Stream)
    <3>1. Stream.start + relative \in Int /\ MinValue < Stream.start + relative
          /\ (Stream.start + relative) - Stream.start = relative
      BY <1>4, <2>1
    <3> QED
      BY <1>2, <1>4, <2>2, <3>1
  <2>3. CASE IsPastDuration(relative, Stream)
    <3>1. Stream.duration \in Nat /\ relative >= Stream.duration + 1
      BY <1>1, <1>4, <2>3 DEF IsPastDuration, IsSource
    <3>2. off(Stream.duration) > 0
      <4> DEFINE d == Stream.base.num * time.scale
                 n == Stream.duration
      <4>1. \A x \in Nat : 2 * x * Stream.base.num * time.scale = 2 * (x * d)
        BY <1>3
      <4>2. d \in Nat \ {0} /\ n \in Nat /\ 2 * time.value * Stream.base.den \in Int
        BY <1>3, <3>1
      <4>3. 2 * time.value * Stream.base.den - 2 * (relative * d) >= -d
        BY <1>4, <4>1
      <4> HIDE DEF d, n
      <4>4. relative * d >= (n + 1) * d
        BY <1>4, <3>1, <4>2 DEF n
      <4>5. relative * d >= n * d + d
        BY <1>4, <4>2, <4>4
      <4>6. 2 * time.value * Stream.base.den - 2 * (n * d) > 0
        BY <1>4, <4>2, <4>3, <4>5
      <4> QED
        BY <3>1, <4>1, <4>6 DEF n
    <3>3. Stream.start + Stream.duration \in Int /\ MinValue < Stream.start + Stream.duration
          /\ (Stream.start + Stream.duration) - Stream.start = Stream.duration
      BY <2>1, <3>1
    <3> QED
      BY <1>2, <2>3, <3>2, <3>3
  <2> QED
    BY <2>2, <2>3
<1> DEFINE before == t.before
           after == t.after
           early == Earliest(target, before, Stream.base)
           late == Latest(target, after, Stream.base)
<1>6. IsSide(before) /\ IsSide(after)
  BY <1>1 DEF IsTolerance, IsSides, IsTime, IsNumber, IsSide
<1>7. /\ w.target = target /\ w.clamped = clamped
      /\ w.start = IF early = MinValue /\ ~Stream.seekable THEN target ELSE early
      /\ w.end = IF early = MinValue /\ ~Stream.seekable THEN target ELSE late
      /\ w.keyframe <=> early = MinValue /\ Stream.seekable
  BY <1>5 DEF Window
<1>8. /\ Half(MinValue) \in Int /\ MinValue \in Int /\ MinValue < Half(MinValue)
      /\ Half(MaxValue) \in Int /\ MaxValue \in Nat /\ Half(MaxValue) < MaxValue
  <2>1. MaxValue \in Nat /\ 1 <= MaxValue /\ MinValue = -(MaxValue + 1)
    BY TimeAssumption DEF MinValue
  <2>2. (MaxValue + 1) \div 2 \in Nat /\ (MaxValue + 1) \div 2 < MaxValue + 1
    BY <2>1
  <2>3. MaxValue \div 2 \in Nat /\ MaxValue \div 2 < MaxValue
    BY <2>1
  <2> QED
    BY <2>1, <2>2, <2>3 DEF Half
<1>9. ASSUME NEW side, IsSide(side), side # PositiveInfinity, NEW n \in Int
      PROVE  /\ Ticks(side, Stream.base) \in Nat
             /\ n <= Ticks(side, Stream.base) <=> n <= MaxValue /\ Within(n, side)
  BY <1>1, <1>9, TicksReach, TicksArePositive DEF IsSide, IsSource, Within
<1> HIDE DEF t, before, after, early, late, off, tick
\* Before the target.
<1>10. IsOpenBefore(w, t) <=> early = MinValue
  <2>1. CASE before = PositiveInfinity
    BY <2>1 DEF IsOpenBefore, Passes, early, before, Earliest
  <2>2. CASE before # PositiveInfinity
    <3>1. Passes(target - Half(MinValue) + 1, before)
            <=> target - Half(MinValue) + 1 <= Ticks(before, Stream.base)
      BY <1>5, <1>6, <1>8, <1>9, <2>2 DEF Passes
    <3>2. early = MinValue <=> target - Ticks(before, Stream.base) < Half(MinValue)
      BY <1>5, <1>6, <1>8, <1>9, <2>2 DEF early, Earliest
    <3> QED
      BY <1>5, <1>6, <1>7, <1>8, <1>9, <2>2, <3>1, <3>2 DEF IsOpenBefore, before
  <2> QED
    BY <2>1, <2>2
<1>11. early # MinValue => Reaches(target - early, before)
  <2>1. SUFFICES ASSUME early # MinValue PROVE Reaches(target - early, before)
    OBVIOUS
  <2>2. before # PositiveInfinity /\ early = target - Ticks(before, Stream.base)
    BY <2>1 DEF early, Earliest
  <2> DEFINE n == Ticks(before, Stream.base)
  <2>3. n \in Nat /\ n + 1 \in Int /\ target - early = n
    BY <1>5, <1>6, <1>9, <2>2
  <2>4. n <= n <=> n <= MaxValue /\ Within(n, before)
    BY <1>6, <1>9, <2>2, <2>3
  <2>5. n + 1 <= n <=> n + 1 <= MaxValue /\ Within(n + 1, before)
    BY <1>6, <1>9, <2>2, <2>3
  <2> HIDE DEF n
  <2> QED
    BY <1>8, <2>3, <2>4, <2>5 DEF Reaches
\* After it.
<1>12. IsOpenAfter(w, t) => late = MaxValue
  <2>1. CASE after = PositiveInfinity
    BY <2>1 DEF late, Latest
  <2>2. CASE after # PositiveInfinity
    <3>1. Passes(Half(MaxValue) + 1 - target, after)
            <=> Half(MaxValue) + 1 - target <= Ticks(after, Stream.base)
      BY <1>5, <1>6, <1>8, <1>9, <2>2 DEF Passes
    <3>2. target + Ticks(after, Stream.base) > Half(MaxValue) => late = MaxValue
      BY DEF late, Latest
    <3> QED
      BY <1>5, <1>6, <1>7, <1>8, <1>9, <2>2, <3>1, <3>2 DEF IsOpenAfter, after
  <2> QED
    BY <2>1, <2>2
<1>13. ~IsOpenAfter(w, t) => Reaches(late - target, after)
  <2>1. SUFFICES ASSUME ~IsOpenAfter(w, t) PROVE Reaches(late - target, after)
    OBVIOUS
  <2>2. ~Passes(Half(MaxValue) + 1 - target, after)
    BY <1>7, <2>1 DEF IsOpenAfter, after
  <2>3. after # PositiveInfinity
    BY <2>2 DEF Passes
  <2> DEFINE n == Ticks(after, Stream.base)
  <2>4. n \in Nat /\ n + 1 \in Int
    BY <1>6, <1>9, <2>3
  <2>5. ~(Half(MaxValue) + 1 - target <= n)
    BY <1>5, <1>6, <1>8, <1>9, <2>2, <2>3 DEF Passes
  <2>6. late = target + n
    BY <1>5, <1>8, <2>3, <2>4, <2>5 DEF late, Latest
  <2>7. n <= n <=> n <= MaxValue /\ Within(n, after)
    BY <1>6, <1>9, <2>3, <2>4
  <2>8. n + 1 <= n <=> n + 1 <= MaxValue /\ Within(n + 1, after)
    BY <1>6, <1>9, <2>3, <2>4
  <2> HIDE DEF n
  <2>9. late - target = n
    BY <1>5, <2>4, <2>6
  <2> QED
    BY <1>8, <2>4, <2>7, <2>8, <2>9 DEF Reaches
<1>14. /\ IF w.clamped THEN w.target - Stream.start = Stream.duration /\ off(w.target - Stream.start) > 0
          ELSE -tick <= off(w.target - Stream.start) /\ off(w.target - Stream.start) <= tick
       /\ w.keyframe <=> IsOpenBefore(w, t) /\ Stream.seekable
       /\ IF IsOpenBefore(w, t) /\ ~Stream.seekable THEN w.start = w.target /\ w.end = w.target
          ELSE /\ IF IsOpenBefore(w, t) THEN w.start = MinValue ELSE Reaches(w.target - w.start, t.before)
               /\ IF IsOpenAfter(w, t) THEN w.end = MaxValue ELSE Reaches(w.end - w.target, t.after)
  BY <1>5, <1>7, <1>10, <1>11, <1>12, <1>13 DEF before, after
<1> QED
  BY <1>14 DEF WindowIsTight, w, t, off, tick, time

\* detail/RequestWindow.h, resolve() and windowEdge(): the window of every request is as
\* wide as its tolerance, and no tick wider, around the tick nearest to its time.
THEOREM WindowsAreTight ==
  Spec => []WindowIsTight
<1>1. Base => WindowIsTight
  BY WindowIsTightUnderWay DEF WindowIsTight
<1> QED
  BY <1>1, BaseHolds, PTL

-----------------------------------------------------------------------------
(* The stream taken.                                                       *)

\* What choosing among the streams of a container can come to.
LEMMA ChosenIsAcceptable ==
  ASSUME GeneratorOK, NEW o \in Chosen(Setting.streams, Wishes)
  PROVE  /\ o.status \in {"open", "noVideoStream", "decoderNotFound", "invalidArgument", "unsupportedFormat"}
         /\ o.status = "open" => Acceptable(o.stream) /\ ~IsOver(Setting.streams[o.stream].size, Wishes)
         /\ o.status \in {"noVideoStream", "decoderNotFound", "invalidArgument"} =>
              \A i \in DOMAIN Setting.streams : ~Acceptable(i)
<1> DEFINE streams == Setting.streams
           best == Candidates(Decodable(streams), Wishes)
<1>1. /\ DOMAIN streams \subseteq Nat /\ \A i \in DOMAIN streams : IsStream(streams[i])
      /\ IsWishes(Wishes) /\ Unset \notin Int
  <2>1. Setting \in Settings
    BY DEF GeneratorOK
  <2>2. DOMAIN streams = 1..Len(streams) /\ \A i \in DOMAIN streams : IsStream(streams[i])
    BY <2>1, SettingsAssumption
  <2>3. IsWishes(Wishes)
    BY <2>1, SettingsAssumption DEF Wishes
  <2> QED
    BY <2>2, <2>3, UnsetAssumption
<1>2. \A i : i \in best <=> i \in DOMAIN streams /\ streams[i].video /\ streams[i].decoder
                            /\ Wishes.index \in {Unset, i}
  BY DEF Candidates, Decodable, Video
<1>3. CASE best = {}
  <2>1. \A i \in DOMAIN streams : ~Acceptable(i)
    BY <1>2, <1>3 DEF Acceptable
  <2>2. \E status \in {"noVideoStream", "decoderNotFound", "invalidArgument"} : o = No(status)
    BY <1>3 DEF Chosen
  <2> QED
    BY <2>1, <2>2 DEF No
<1>4. CASE best # {}
  <2>1. PICK i \in best :
          o = IF ~IsUnwantedArt(i, streams, Wishes) THEN Admit(i, streams, Wishes)
              ELSE IF Pictures(streams) = {} THEN No("noVideoStream")
              ELSE Admit(Min(Pictures(streams)), streams, Wishes)
    BY <1>4 DEF Chosen
  <2>2. ASSUME NEW k, o = Admit(k, streams, Wishes), Acceptable(k)
        PROVE  /\ o.status \in {"open", "unsupportedFormat"}
               /\ o.status = "open" => Acceptable(o.stream) /\ ~IsOver(streams[o.stream].size, Wishes)
    BY <2>2 DEF Admit, No
  <2>3. CASE ~IsUnwantedArt(i, streams, Wishes)
    <3>1. Acceptable(i)
      BY <1>1, <1>2, <2>3 DEF Acceptable, IsUnwantedArt, IsWishes
    <3> QED
      BY <2>1, <2>2, <2>3, <3>1
  <2>4. CASE IsUnwantedArt(i, streams, Wishes) /\ Pictures(streams) = {}
    <3>1. \A k \in DOMAIN streams : ~Acceptable(k)
      BY <1>1, <2>4 DEF Acceptable, IsUnwantedArt, Pictures, Decodable, Video
    <3> QED
      BY <2>1, <2>4, <3>1 DEF No
  <2>5. CASE IsUnwantedArt(i, streams, Wishes) /\ Pictures(streams) # {}
    <3>1. Pictures(streams) \subseteq Nat
      BY <1>1 DEF Pictures, Decodable, Video
    <3>2. Min(Pictures(streams)) \in Pictures(streams)
      BY <2>5, <3>1, MinIsLeast
    <3>3. Acceptable(Min(Pictures(streams)))
      BY <2>5, <3>2 DEF Acceptable, IsUnwantedArt, Pictures, Decodable, Video
    <3> QED
      BY <2>1, <2>2, <2>5, <3>3
  <2> QED
    BY <2>3, <2>4, <2>5
<1> QED
  BY <1>3, <1>4

\* checkDeclaredSize() refuses nothing that the check after it would let pass.
LEMMA DeclaredOversizedIsOversized ==
  ASSUME GeneratorOK, AreOptions(Setting), IsDeclaredOversized(Setting.streams, Wishes),
         NEW o \in Chosen(Setting.streams, Wishes)
  PROVE  o.status # "open"
<1>1. SUFFICES ASSUME o.status = "open" PROVE FALSE
  OBVIOUS
<1> DEFINE taken == Setting.streams[o.stream]
<1>2. Acceptable(o.stream) /\ ~IsOver(taken.size, Wishes)
  BY <1>1, ChosenIsAcceptable
<1>3. o.stream \in DOMAIN Setting.streams
  <2>1. SUFFICES ASSUME NEW k, k \in Candidates(Decodable(Setting.streams), Wishes) \cup Pictures(Setting.streams),
                        o = Admit(k, Setting.streams, Wishes)
                 PROVE  o.stream \in DOMAIN Setting.streams
    <3>1. DOMAIN Setting.streams \subseteq Nat
      BY SettingsAssumption DEF GeneratorOK
    <3>2. Pictures(Setting.streams) # {} => Min(Pictures(Setting.streams)) \in Pictures(Setting.streams)
      BY <3>1, MinIsLeast DEF Pictures, Decodable, Video
    <3> QED
      BY <1>1, <3>2 DEF Chosen, No
  <2> QED
    BY <1>1, <2>1 DEF Admit, No, Candidates, Pictures, Decodable, Video
<1>4. IsOver(taken.declared, Wishes) /\ IsStream(taken)
  BY <1>2, <1>3, SettingsAssumption DEF IsDeclaredOversized, Video, Acceptable, GeneratorOK
<1>5. Wishes.cap # Unset => Wishes.cap >= 1 /\ Wishes.cap \in Int
  <2>1. IsWishes(Wishes)
    BY SettingsAssumption DEF GeneratorOK, Wishes
  <2> QED
    BY <2>1 DEF AreOptions, Wishes, IsWishes
<1> QED
  BY <1>2, <1>4, <1>5 DEF IsOver, IsStream

\* detail/MediaSource.h, open(): the stream taken is usable, and none is refused that is.
THEOREM StreamTakenIsUsable ==
  Spec => []AdmittedStreamIsUsable
<1>1. Init => AdmittedStreamIsUsable
  BY DEF Init, AdmittedStreamIsUsable
<1>2. ASSUME Base, AdmittedStreamIsUsable, [Next]_vars
      PROVE  AdmittedStreamIsUsable'
  <2> GeneratorOK
    BY <1>2 DEF Base
  <2>1. CASE generator' = generator
    BY <1>2, <2>1 DEF AdmittedStreamIsUsable, Admitted, Acceptable, Wishes, Setting
  <2>2. CASE Open
    <3>1. Setting' = Setting
      BY <1>2, <2>2, Opens
    <3>2. CASE generator'.status = "invalidOptions"
      BY <3>2 DEF AdmittedStreamIsUsable
    <3>3. CASE /\ AreOptions(Setting)
               /\ \E o \in Outcomes(Setting.streams, Setting.wishes) :
                    generator'.status = o.status /\ generator'.stream = o.stream
      <4>1. PICK o \in Outcomes(Setting.streams, Wishes) :
              generator'.status = o.status /\ generator'.stream = o.stream
        BY <3>3 DEF Wishes
      <4>2. CASE IsDeclaredOversized(Setting.streams, Wishes)
        <5>1. generator'.status = "oversized"
          BY <4>1, <4>2 DEF Outcomes, No
        <5>2. \A q \in Chosen(Setting.streams, Wishes) : q.status # "open"
          BY <1>2, <3>3, <4>2, DeclaredOversizedIsOversized
        <5> QED
          BY <3>1, <5>1, <5>2 DEF AdmittedStreamIsUsable, Wishes
      <4>3. CASE ~IsDeclaredOversized(Setting.streams, Wishes)
        <5>1. o \in Chosen(Setting.streams, Wishes)
          BY <4>1, <4>3 DEF Outcomes
        <5> QED
          BY <1>2, <3>1, <4>1, <5>1, ChosenIsAcceptable
             DEF AdmittedStreamIsUsable, Admitted, Acceptable, Wishes
      <4> QED
        BY <4>2, <4>3
    <3> QED
      BY <1>2, <2>2, <3>2, <3>3, Opens
  <2> QED
    BY <1>2, <2>1, <2>2, GeneratorKept
<1> QED
  BY <1>1, <1>2, BaseHolds, PTL DEF Spec

-----------------------------------------------------------------------------
(* The caches.                                                             *)

\* The shapes of requests, and what each of them takes from the caches.
Shapes ==
  {<<>>} \cup {<<f.width, f.height, f.format, f.hardware, Turned(OutputSize(f, b))>> :
                 f \in Setting.frames, b \in Setting.boxes}

IsTurned == Rotation # 0 \/ generator.transform.mirrored

StagesOf(shape) ==
  {stage \in PoolStages : /\ stage = "download" => shape[4]
                          /\ stage = "replane" => IsReplaned(shape)
                          /\ stage = "transform" => IsTurned}

PoolKeyOf(shape, stage) ==
  CASE stage = "download" -> <<shape[3], shape[1], shape[2]>>
    [] stage = "output" -> <<Setting.format, shape[5].width, shape[5].height>>
    [] stage = "replane" -> <<"yuv420p", shape[1], shape[2]>>
    [] stage = "transform" -> <<Setting.format, Turned(shape[5]).width, Turned(shape[5]).height>>

ScalerKeyOf(shape) ==
  <<shape[1], shape[2], IF IsReplaned(shape) THEN "yuv420p" ELSE shape[3], shape[5].width, shape[5].height>>

\* The lookups of a request before a stage, and the pools it has taken a frame from.
Position(stage) ==
  LET first == IF frame.hardware THEN 1 ELSE 0
      replaned == IF NeedsReplaning THEN 1 ELSE 0
  IN CASE stage = "download" -> 0
       [] stage = "output" -> first
       [] stage = "replane" -> first + 1
       [] stage = "scale" -> first + 1 + replaned
       [] stage = "transform" -> first + 2 + replaned

Passed(stage) == {s \in StagesOf(Shape) : Position(s) < Position(stage)}

\* The clock when the request was asked.
Since == converter.clock - Position(request.pc)

\* No stamp is ahead of the clock, no two pools have the same, and a scaling context is
\* never taken away without another in its place.
StampsOK(c) ==
  /\ \A i \in 1..Slots : c.pools[i].used <= c.clock /\ c.scalers[i].used <= c.clock
  /\ \A i, j \in 1..Slots : i # j /\ c.pools[i].used = c.pools[j].used => c.pools[i].used = 0
  /\ \A i \in 1..Slots : ~c.scalers[i].live => c.scalers[i].used = 0

\* The pools of these stages were all used since the request was asked.
Taken(c, stages) ==
  /\ \A i \in 1..Slots : c.pools[i].used > Since => c.pools[i].live
  /\ \A stage \in stages : \E i \in 1..Slots :
       c.pools[i].live /\ c.pools[i].key = PoolKey(stage) /\ c.pools[i].used > Since

IsReady(c, shape) == \A stage \in StagesOf(shape) : Hits(c.pools, PoolKeyOf(shape, stage)) # {}

IsNewestScaler(c, key) ==
  \E i \in 1..Slots : /\ c.scalers[i].live /\ c.scalers[i].key = key
                      /\ \A j \in 1..Slots : j # i => c.scalers[j].used < c.scalers[i].used
HasScaler(c, key) == Hits(c.scalers, key) # {}

\* The request n before this one, or before the last one, got its image.
Succeeded(n) == Len(recent) >= n /\ recent[n] # <<>>

RecentOK == recent \in Seq(Shapes) /\ Len(recent) <= 3 /\ (generator.status # "open" => recent = <<>>)

\* The request under way keeps to its stages and loses none of the pools it has taken.
StageOK ==
  ~At("idle") =>
    /\ request.pc \in {"scale"} \cup StagesOf(Shape) /\ Since \in Nat
    /\ Taken(converter, Passed(request.pc))
    /\ At("transform") => \A i \in 1..Slots : converter.pools[i].used < converter.clock

\* The context of the last image is the newest, and that of the last but one still there.
ScalersOK ==
  /\ ~At("transform") /\ Succeeded(1) =>
       /\ IsNewestScaler(converter, ScalerKeyOf(recent[1]))
       /\ Succeeded(2) => HasScaler(converter, ScalerKeyOf(recent[2]))
  /\ At("transform") =>
       /\ IsNewestScaler(converter, ScalerKey)
       /\ Succeeded(1) => HasScaler(converter, ScalerKeyOf(recent[1]))

\* All that the last image took is still there for another one like it.
PoolsOK == Succeeded(1) /\ (At("idle") \/ recent[1] = Shape) => IsReady(converter, recent[1])

IsRepeat == Succeeded(1) /\ recent[1] = Shape
IsReturn == Succeeded(1) /\ Succeeded(2) /\ recent[2] = Shape

BuiltOK(c) ==
  /\ c.built \subseteq {"pool", "scaler", "replaner"}
  /\ IsRepeat => "pool" \notin c.built /\ "scaler" \notin c.built
  /\ IsReturn => "scaler" \notin c.built

CachesOK ==
  /\ RecentOK /\ StampsOK(converter) /\ StageOK /\ ScalersOK /\ PoolsOK
  /\ ~At("idle") => BuiltOK(converter)

\* What SteadyStreamBuildsNothing says of the two caches.
CachesBuildNothing ==
  IsImage =>
    /\ reply.built \subseteq {"pool", "scaler", "replaner"}
    /\ Len(recent) >= 2 /\ recent[1] = recent[2] => "pool" \notin reply.built /\ "scaler" \notin reply.built
    /\ Len(recent) = 3 /\ recent[1] = recent[3] /\ recent[2] # <<>> => "scaler" \notin reply.built

\* What these say goes by the generator's setting and its transform alone.
LEMMA ShapesKept ==
  ASSUME generator' = generator
  PROVE  /\ Shapes' = Shapes
         /\ \A shape : StagesOf(shape)' = StagesOf(shape) /\ ScalerKeyOf(shape)' = ScalerKeyOf(shape)
         /\ \A shape : \A stage \in PoolStages : PoolKeyOf(shape, stage)' = PoolKeyOf(shape, stage)
<1>1. Setting' = Setting /\ Rotation' = Rotation /\ IsTurned' = IsTurned
  BY DEF Setting, Rotation, IsTurned
<1>2. \A f, b : OutputSize(f, b)' = OutputSize(f, b)
  BY <1>1 DEF OutputSize, Sar, Box, Subsampled
<1>3. \A size : Turned(size)' = Turned(size)
  BY <1>1 DEF Turned
<1>4. Shapes' = Shapes
  BY <1>1, <1>2, <1>3 DEF Shapes
<1>5. \A shape : IsReplaned(shape)' = IsReplaned(shape)
  BY <1>1 DEF IsReplaned, IsFullRange
<1>6. \A shape : StagesOf(shape)' = StagesOf(shape)
  BY <1>1, <1>5 DEF StagesOf
<1>7. \A shape : ScalerKeyOf(shape)' = ScalerKeyOf(shape)
  BY <1>5 DEF ScalerKeyOf
<1>8. \A shape : \A stage \in PoolStages : PoolKeyOf(shape, stage)' = PoolKeyOf(shape, stage)
  BY <1>1, <1>3 DEF PoolKeyOf, PoolStages
<1> QED
  BY <1>4, <1>6, <1>7, <1>8

\* The shapes of the last three requests, the last first.
LEMMA ShapeRemembered ==
  ASSUME RecentOK, NEW shape \in Shapes, Remember(shape)
  PROVE  /\ recent' \in Seq(Shapes) /\ 1 <= Len(recent') /\ Len(recent') <= 3 /\ recent'[1] = shape
         /\ Len(recent') >= 2 => Len(recent) >= 1 /\ recent'[2] = recent[1]
         /\ Len(recent') >= 3 => Len(recent) >= 2 /\ recent'[3] = recent[2]
<1> DEFINE S == Shapes
           past == recent
           last == SubSeq(<<shape>> \o past, 1, Min({3, Len(past) + 1}))
<1>1. past \in Seq(S) /\ Len(past) <= 3 /\ shape \in S
  BY DEF RecentOK
<1>2. recent' = last
  BY DEF Remember
<1> HIDE DEF S, past
<1>3. /\ last \in Seq(S) /\ 1 <= Len(last) /\ Len(last) <= 3 /\ last[1] = shape
      /\ Len(last) >= 2 => Len(past) >= 1 /\ last[2] = past[1]
      /\ Len(last) >= 3 => Len(past) >= 2 /\ last[3] = past[2]
  BY <1>1, LastThree
<1> HIDE DEF last
<1> QED
  BY <1>2, <1>3 DEF S, past

\* The same of the request under way.
LEMMA RequestKept ==
  ASSUME generator' = generator, frame' = frame, request'.box = request.box
  PROVE  /\ Shape' = Shape /\ ScalerKey' = ScalerKey
         /\ \A stage \in PoolStages : PoolKey(stage)' = PoolKey(stage)
         /\ \A stage : Position(stage)' = Position(stage)
<1>1. Setting' = Setting /\ Rotation' = Rotation
  BY DEF Setting, Rotation
<1>2. OutputSize(frame, request.box)' = OutputSize(frame, request.box)
  BY <1>1 DEF OutputSize, Sar, Box, Subsampled
<1>3. Target' = Target /\ NeedsReplaning' = NeedsReplaning
  BY <1>1, <1>2 DEF Target, Turned, NeedsReplaning, IsFullRange
<1>4. Shape' = Shape
  BY <1>3 DEF Shape
<1>5. ScalerKey' = ScalerKey
  BY <1>3 DEF ScalerKey, InputFormat
<1>6. \A stage \in PoolStages : PoolKey(stage)' = PoolKey(stage)
  BY <1>1, <1>2, <1>3 DEF PoolKey, PoolStages
<1>7. \A stage : Position(stage)' = Position(stage)
  BY <1>3 DEF Position
<1> QED
  BY <1>4, <1>5, <1>6, <1>7

\* A request takes what its shape says.
LEMMA KeysGoByShape ==
  ASSUME Base, ~At("idle")
  PROVE  /\ Shape \in Shapes /\ Shape # <<>>
         /\ ScalerKey = ScalerKeyOf(Shape)
         /\ \A stage \in PoolStages : PoolKey(stage) = PoolKeyOf(Shape, stage)
<1> DEFINE output == OutputSize(frame, request.box)
<1>1. Shape = <<frame.width, frame.height, frame.format, frame.hardware, Turned(output)>>
  BY DEF Shape, Target
<1>2. frame \in Setting.frames /\ request.box \in Setting.boxes
  BY DEF Base, UnderWay, frame
<1>3. Shape \in Shapes
  BY <1>1, <1>2 DEF Shapes
<1>4. Turned(Turned(output)).width = output.width /\ Turned(Turned(output)).height = output.height
  <2> HIDE DEF output
  <2> QED
    BY DEF Turned, Transposed, Size
<1> HIDE DEF output
<1>5. /\ Shape[1] = frame.width /\ Shape[2] = frame.height /\ Shape[3] = frame.format
      /\ Shape[4] = frame.hardware /\ Shape[5] = Target /\ Target = Turned(output)
  BY DEF Shape, Target, output
<1>6. Shape # <<>>
  BY <1>1
<1>7. IsReplaned(Shape) <=> NeedsReplaning
  BY <1>5 DEF IsReplaned, NeedsReplaning
<1>8. ScalerKey = ScalerKeyOf(Shape)
  BY <1>5, <1>7 DEF ScalerKey, ScalerKeyOf, InputFormat
<1>9. \A stage \in PoolStages : PoolKey(stage) = PoolKeyOf(Shape, stage)
  BY <1>4, <1>5 DEF PoolKey, PoolKeyOf, PoolStages, output
<1> QED
  BY <1>3, <1>6, <1>8, <1>9

\* The stages of a request come one after the other, and all of them before its image.
LEMMA StagesInOrder ==
  ASSUME Base, ~At("idle"), request.pc \in {"scale"} \cup StagesOf(Shape)
  PROVE  LET pc == request.pc
             passed == Passed(pc) \cup ({pc} \ {"scale"})
         IN /\ Position(pc) \in 0..4 /\ (pc \notin {"scale", "transform"} => Position(pc) <= 2)
            /\ IF After(pc) = "idle" THEN passed = StagesOf(Shape) /\ pc \in {"scale", "transform"}
               ELSE /\ After(pc) \in {"scale"} \cup StagesOf(Shape)
                    /\ Position(After(pc)) = Position(pc) + 1 /\ Passed(After(pc)) = passed
                    /\ pc # "transform" /\ (After(pc) = "transform" <=> pc = "scale")
<1> DEFINE h == frame.hardware
           r == NeedsReplaning
           pc == request.pc
<1>1. Shape[4] = h /\ (IsReplaned(Shape) <=> r)
  BY DEF Shape, IsReplaned, NeedsReplaning
<1>2. \A stage : stage \in StagesOf(Shape)
                   <=> \/ stage = "download" /\ h
                       \/ stage = "output"
                       \/ stage = "replane" /\ r
                       \/ stage = "transform" /\ IsTurned
  BY <1>1 DEF StagesOf, PoolStages
<1>3. /\ Position("download") = 0
      /\ Position("output") = IF h THEN 1 ELSE 0
      /\ Position("replane") = (IF h THEN 1 ELSE 0) + 1
      /\ Position("scale") = (IF h THEN 1 ELSE 0) + 1 + (IF r THEN 1 ELSE 0)
      /\ Position("transform") = (IF h THEN 1 ELSE 0) + 2 + (IF r THEN 1 ELSE 0)
  BY DEF Position
<1>4. /\ After("download") = "output" /\ After("output") = (IF r THEN "replane" ELSE "scale")
      /\ After("replane") = "scale" /\ After("scale") = (IF IsTurned THEN "transform" ELSE "idle")
      /\ After("transform") = "idle"
  BY DEF After, IsTurned
<1>5. \A s, stage : s \in Passed(stage) <=> s \in StagesOf(Shape) /\ Position(s) < Position(stage)
  BY DEF Passed
<1> HIDE DEF h, r
<1>6. pc \in {"download", "output", "replane", "scale", "transform"}
  BY <1>2
<1>7. /\ Position(pc) \in 0..4 /\ (pc \notin {"scale", "transform"} => Position(pc) <= 2)
  BY <1>3, <1>6
<1>8. CASE After(pc) = "idle"
  <2>1. pc \in {"scale", "transform"}
    BY <1>4, <1>6, <1>8
  <2>2. pc = "scale" => ~IsTurned
    BY <1>4, <1>8
  <2>3. \A s : s \in Passed(pc) \cup ({pc} \ {"scale"}) <=> s \in StagesOf(Shape)
    BY <1>2, <1>3, <1>5, <2>1, <2>2
  <2> QED
    BY <1>7, <1>8, <2>1, <2>3
<1>9. CASE After(pc) # "idle"
  <2>1. pc # "transform" /\ (After(pc) = "transform" <=> pc = "scale")
    BY <1>4, <1>6, <1>9
  <2>2. After(pc) \in {"scale"} \cup StagesOf(Shape)
    BY <1>2, <1>4, <1>6, <1>9
  <2>3. /\ pc = "download" => h
        /\ pc = "replane" => r
    BY <1>2
  <2>4. Position(After(pc)) = Position(pc) + 1
    BY <1>3, <1>4, <1>6, <1>9, <2>1, <2>3
  <2>5. \A s : s \in Passed(After(pc)) <=> s \in Passed(pc) \cup ({pc} \ {"scale"})
    <3>1. CASE pc = "download"
      BY <1>2, <1>3, <1>4, <1>5, <2>3, <3>1
    <3>2. CASE pc = "output"
      BY <1>2, <1>3, <1>4, <1>5, <3>2
    <3>3. CASE pc = "replane"
      BY <1>2, <1>3, <1>4, <1>5, <2>3, <3>3
    <3>4. CASE pc = "scale"
      BY <1>2, <1>3, <1>4, <1>5, <1>9, <3>4
    <3> QED
      BY <1>6, <2>1, <3>1, <3>2, <3>3, <3>4
  <2> QED
    BY <1>7, <1>9, <2>1, <2>2, <2>4, <2>5
<1> QED
  BY <1>8, <1>9

\* Lookups leave the stamps in order, whether or not they fail.
LEMMA StampsStayOK ==
  ASSUME NEW c, IsConverter(c), StampsOK(c), NEW key, NEW colours
  PROVE  /\ StampsOK(Pooled(c, key)) /\ StampsOK(PoolFailed(c, key))
         /\ StampsOK(Tick(c)) /\ StampsOK(Coloured(Scaler(c, key), key, colours))
<1>1. /\ c.clock \in Nat
      /\ \A i \in 1..Slots : /\ c.pools[i].used \in Nat /\ c.pools[i].used <= c.clock
                             /\ c.scalers[i].used \in Nat /\ c.scalers[i].used <= c.clock
                             /\ ~c.scalers[i].live => c.scalers[i].used = 0
      /\ \A i, j \in 1..Slots : i # j /\ c.pools[i].used = c.pools[j].used => c.pools[i].used = 0
  BY DEF IsConverter, IsCache, IsSlot, StampsOK
<1>2. StampsOK(Pooled(c, key))
  <2> DEFINE d == Pooled(c, key)
             slot == Slot(c.pools, key)
  <2>1. /\ d.clock = c.clock + 1 /\ d.scalers = c.scalers
        /\ OthersKept(slot, c.pools, d.pools) /\ IsNewest(d.pools[slot], key, c.clock + 1)
    BY AfterPooled
  <2> HIDE DEF d, slot
  <2>2. \A i \in 1..Slots : \/ d.pools[i] = c.pools[i]
                            \/ i = slot /\ d.pools[i].used = c.clock + 1
    BY <2>1 DEF OthersKept, IsNewest
  <2>3. \A i \in 1..Slots : d.pools[i].used <= d.clock /\ d.scalers[i].used <= d.clock
    BY <1>1, <2>1, <2>2
  <2>4. \A i, j \in 1..Slots : i # j /\ d.pools[i].used = d.pools[j].used => d.pools[i].used = 0
    BY <1>1, <2>2
  <2>5. \A i \in 1..Slots : ~d.scalers[i].live => d.scalers[i].used = 0
    BY <1>1, <2>1
  <2> QED
    BY <2>3, <2>4, <2>5 DEF StampsOK, d
<1>3. StampsOK(PoolFailed(c, key))
  <2> DEFINE d == PoolFailed(c, key)
             slot == Slot(c.pools, key)
  <2>1. CASE Hits(c.pools, key) # {}
    BY <1>2, <2>1, AfterPoolFailed
  <2>2. CASE Hits(c.pools, key) = {}
    <3>1. /\ d.clock = c.clock + 1 /\ d.scalers = c.scalers
          /\ OthersKept(slot, c.pools, d.pools) /\ d.pools[slot].used = c.pools[slot].used
      BY <2>2, AfterPoolFailed
    <3> HIDE DEF d, slot
    <3>2. \A i \in 1..Slots : d.pools[i].used = c.pools[i].used
      BY <3>1 DEF OthersKept
    <3>3. \A i \in 1..Slots : d.pools[i].used <= d.clock /\ d.scalers[i].used <= d.clock
      BY <1>1, <3>1, <3>2
    <3>4. \A i, j \in 1..Slots : i # j /\ d.pools[i].used = d.pools[j].used => d.pools[i].used = 0
      BY <1>1, <3>2
    <3>5. \A i \in 1..Slots : ~d.scalers[i].live => d.scalers[i].used = 0
      BY <1>1, <3>1
    <3> QED
      BY <3>3, <3>4, <3>5 DEF StampsOK, d
  <2> QED
    BY <2>1, <2>2
<1>4. StampsOK(Tick(c))
  <2> DEFINE d == Tick(c)
  <2>1. d.clock = c.clock + 1 /\ d.scalers = c.scalers /\ d.pools = c.pools
    BY DEF Tick, IsConverter
  <2> HIDE DEF d
  <2>2. StampsOK(d)
    BY <1>1, <2>1 DEF StampsOK
  <2> QED
    BY <2>2 DEF d
<1>5. StampsOK(Coloured(Scaler(c, key), key, colours))
  <2> DEFINE d == Coloured(Scaler(c, key), key, colours)
             slot == Slot(c.scalers, key)
  <2>1. d.clock = c.clock + 1 /\ d.pools = c.pools
    BY AfterScaled
  <2>2. PICK scalers : /\ OthersKept(slot, c.scalers, scalers) /\ SameStamps(scalers, d.scalers)
                       /\ IsNewest(scalers[slot], key, c.clock + 1)
    BY AfterScaled
  <2> HIDE DEF d, slot
  <2>3. \A i \in 1..Slots : \/ d.scalers[i].used = c.scalers[i].used /\ (d.scalers[i].live <=> c.scalers[i].live)
                            \/ d.scalers[i].used = c.clock + 1 /\ d.scalers[i].live
    BY <2>2 DEF OthersKept, SameStamps, IsNewest
  <2>4. \A i \in 1..Slots : d.pools[i].used <= d.clock /\ d.scalers[i].used <= d.clock
    BY <1>1, <2>1, <2>3
  <2>5. \A i, j \in 1..Slots : i # j /\ d.pools[i].used = d.pools[j].used => d.pools[i].used = 0
    BY <1>1, <2>1
  <2>6. \A i \in 1..Slots : ~d.scalers[i].live => d.scalers[i].used = 0
    BY <1>1, <2>3
  <2> QED
    BY <2>4, <2>5, <2>6 DEF StampsOK, d
<1> QED
  BY <1>2, <1>3, <1>4, <1>5

\* What a stage of the request leaves of the converter.
LookedUp(c) ==
  /\ c.clock = converter.clock + 1 /\ StampsOK(c) /\ BuiltOK(c)
  /\ IsRepeat => IsReady(c, Shape)
  /\ Taken(c, Passed(request.pc) \cup ({request.pc} \ {"scale"}))
  /\ IF request.pc \in {"scale", "transform"}
     THEN /\ IsNewestScaler(c, ScalerKey)
          /\ Succeeded(1) => HasScaler(c, ScalerKeyOf(recent[1]))
     ELSE c.scalers = converter.scalers
  /\ At("scale") => \A i \in 1..Slots : c.pools[i].used < c.clock

\* A pool is built in the slot of none that this request has taken a frame from.
LEMMA PoolStage ==
  ASSUME Base, CachesOK, request.pc \in PoolStages
  PROVE  LookedUp(Pooled(converter, PoolKey(request.pc)))
<1> DEFINE c == converter
           key == PoolKey(request.pc)
           d == Pooled(c, key)
           slot == Slot(c.pools, key)
           passed == Passed(request.pc)
<1>1. ~At("idle") /\ IsConverter(c) /\ request.pc # "scale"
  BY DEF PoolStages, At, Base
<1>2. /\ StampsOK(c) /\ StageOK /\ ScalersOK /\ PoolsOK /\ BuiltOK(c)
      /\ request.pc \in StagesOf(Shape) /\ Since \in Nat /\ Taken(c, passed)
  BY <1>1 DEF CachesOK, StageOK
<1>3. /\ Position(request.pc) \in 0..4
      /\ request.pc \notin {"scale", "transform"} => Position(request.pc) <= 2
  BY <1>1, <1>2, StagesInOrder
<1>4. /\ slot \in 1..Slots
      /\ Hits(c.pools, key) # {} => slot \in Hits(c.pools, key)
      /\ Hits(c.pools, key) = {} => slot = LeastRecentlyUsed(c.pools)
  BY <1>1, SlotOfKey DEF IsConverter
<1>5. /\ d.clock = c.clock + 1 /\ d.scalers = c.scalers
      /\ d.built = IF Hits(c.pools, key) = {} THEN c.built \cup {"pool"} ELSE c.built
      /\ OthersKept(slot, c.pools, d.pools) /\ IsNewest(d.pools[slot], key, c.clock + 1)
  BY <1>1, AfterPooled
<1>6. StampsOK(d)
  BY <1>1, <1>2, StampsStayOK
<1> HIDE DEF d, slot, key, passed
<1>7. /\ c.clock \in Nat /\ c.clock = Since + Position(request.pc)
      /\ \A i \in 1..Slots : c.pools[i].used \in Nat /\ c.pools[i].used <= c.clock
  <2>1. c.clock \in Nat /\ Since = c.clock - Position(request.pc)
    BY <1>1 DEF IsConverter, Since
  <2>2. \A i \in 1..Slots : c.pools[i].used \in Nat
    BY <1>1 DEF IsConverter, IsCache, IsSlot
  <2>3. \A i \in 1..Slots : c.pools[i].used <= c.clock
    BY <1>2 DEF StampsOK
  <2>4. c.clock = Since + Position(request.pc)
    BY <1>3, <2>1
  <2> QED
    BY <2>1, <2>2, <2>3, <2>4
<1>8. Hits(c.pools, key) = {} => c.pools[slot].used <= Since
  <2>1. \A i \in 1..Slots : c.pools[i].used > Since => c.pools[i].live
    BY <1>2 DEF Taken
  <2>2. \A i \in 1..Slots : c.pools[i].used <= Since + 3
    <3>1. CASE At("transform")
      <4>1. \A i \in 1..Slots : c.pools[i].used < c.clock
        BY <1>1, <1>2, <3>1 DEF StageOK
      <4> QED
        BY <1>2, <1>3, <1>7, <4>1
    <3>2. CASE ~At("transform")
      <4>1. Position(request.pc) <= 2
        BY <1>1, <1>3, <3>2 DEF At
      <4> QED
        BY <1>2, <1>3, <1>7, <4>1
    <3> QED
      BY <3>1, <3>2
  <2>3. IsCache(c.pools)
    BY <1>1 DEF IsConverter
  <2>4. \A i, j \in 1..Slots : i # j /\ c.pools[i].used = c.pools[j].used => c.pools[i].used = 0
    BY <1>2 DEF StampsOK
  <2>5. c.pools[LeastRecentlyUsed(c.pools)].used <= Since
    BY <1>2, <2>1, <2>2, <2>3, <2>4, OneOfThreeIsNotGivenUp
  <2> QED
    BY <1>4, <2>5
<1>9. Taken(d, passed \cup {request.pc})
  <2>1. \A i \in 1..Slots : d.pools[i].used > Since => d.pools[i].live
    BY <1>2, <1>5 DEF Taken, OthersKept, IsNewest
  <2>2. d.pools[slot].live /\ d.pools[slot].key = key /\ d.pools[slot].used > Since
    BY <1>2, <1>3, <1>5, <1>7 DEF IsNewest
  <2>3. ASSUME NEW stage \in passed
        PROVE  \E i \in 1..Slots : d.pools[i].live /\ d.pools[i].key = PoolKey(stage) /\ d.pools[i].used > Since
    <3>1. PICK i \in 1..Slots : c.pools[i].live /\ c.pools[i].key = PoolKey(stage) /\ c.pools[i].used > Since
      BY <1>2, <2>3 DEF Taken
    <3>2. CASE i # slot
      BY <1>5, <3>1, <3>2 DEF OthersKept
    <3>3. CASE i = slot
      <4>1. slot \in Hits(c.pools, key)
        BY <1>2, <1>4, <1>7, <1>8, <3>1, <3>3
      <4>2. key = PoolKey(stage)
        BY <3>1, <3>3, <4>1 DEF Hits
      <4> QED
        BY <1>4, <2>2, <4>2
    <3> QED
      BY <3>2, <3>3
  <2>4. \A stage \in {request.pc} : \E i \in 1..Slots :
          d.pools[i].live /\ d.pools[i].key = PoolKey(stage) /\ d.pools[i].used > Since
    BY <1>4, <2>2 DEF key
  <2> QED
    BY <2>1, <2>3, <2>4 DEF Taken
<1>10. IsRepeat => Hits(c.pools, key) # {} /\ IsReady(c, Shape)
  <2>1. SUFFICES ASSUME IsRepeat PROVE Hits(c.pools, key) # {} /\ IsReady(c, Shape)
    OBVIOUS
  <2>2. IsReady(c, Shape)
    BY <1>2, <2>1 DEF PoolsOK, IsRepeat
  <2>3. key = PoolKeyOf(Shape, request.pc)
    BY <1>1, KeysGoByShape DEF key
  <2> QED
    BY <1>2, <2>2, <2>3 DEF IsReady
<1>11. IsRepeat => IsReady(d, Shape)
  <2>1. SUFFICES ASSUME IsRepeat PROVE IsReady(d, Shape)
    OBVIOUS
  <2>2. slot \in Hits(c.pools, key)
    BY <1>4, <1>10, <2>1
  <2>3. ASSUME NEW other PROVE Hits(d.pools, other) = Hits(c.pools, other)
    <3>1. OthersKept(slot, c.pools, d.pools) /\ IsNewest(d.pools[slot], key, c.clock + 1)
      BY <1>5
    <3> QED
      BY <2>2, <3>1 DEF Hits, OthersKept, IsNewest
  <2> QED
    BY <1>10, <2>1, <2>3 DEF IsReady
<1>12. BuiltOK(d)
  BY <1>2, <1>5, <1>10 DEF BuiltOK
<1>13. IF request.pc \in {"scale", "transform"}
       THEN IsNewestScaler(d, ScalerKey) /\ (Succeeded(1) => HasScaler(d, ScalerKeyOf(recent[1])))
       ELSE d.scalers = c.scalers
  BY <1>1, <1>2, <1>5 DEF ScalersOK, At, IsNewestScaler, HasScaler
<1>14. ~At("scale") /\ {request.pc} \ {"scale"} = {request.pc}
  BY <1>1 DEF At
<1>15. LookedUp(d)
  BY <1>5, <1>6, <1>9, <1>11, <1>12, <1>13, <1>14 DEF LookedUp, passed
<1> QED
  BY <1>15 DEF d, key

\* And nothing of that is lost when the frame is filled.
LEMMA PoolStageFilled ==
  ASSUME Base, CachesOK, request.pc \in PoolStages
  PROVE  LookedUp(Filled(Pooled(converter, PoolKey(request.pc))))
<1> DEFINE c == Pooled(converter, PoolKey(request.pc))
           d == Filled(c)
<1>1. LookedUp(c) /\ IsConverter(c)
  BY PoolStage, AfterPooled DEF Base
<1> HIDE DEF c
<1>2. /\ d.clock = c.clock /\ d.pools = c.pools /\ d.scalers = c.scalers
      /\ d.built \in {c.built, c.built \cup {"replaner"}}
  BY <1>1, Fills
<1> HIDE DEF d
<1>3. StampsOK(d) /\ BuiltOK(d)
  BY <1>1, <1>2 DEF LookedUp, StampsOK, BuiltOK
<1>4. LookedUp(d)
  BY <1>1, <1>2, <1>3 DEF LookedUp, IsReady, Taken, IsNewestScaler, HasScaler
<1> QED
  BY <1>4 DEF c, d

\* A context is built in the slot of none but one older than that of the last image.
LEMMA ScaleStage ==
  ASSUME Base, CachesOK, At("scale"), NEW colours
  PROVE  LookedUp(Coloured(Scaler(converter, ScalerKey), ScalerKey, colours))
<1> DEFINE c == converter
           key == ScalerKey
           d == Coloured(Scaler(c, key), key, colours)
           slot == Slot(c.scalers, key)
<1>1. ~At("idle") /\ ~At("transform") /\ IsConverter(c) /\ request.pc = "scale"
  BY DEF At, Base
<1>2. /\ StampsOK(c) /\ ScalersOK /\ PoolsOK /\ BuiltOK(c) /\ Taken(c, Passed(request.pc))
  BY <1>1 DEF CachesOK, StageOK
<1>3. key = ScalerKeyOf(Shape)
  BY <1>1, KeysGoByShape
<1>4. /\ slot \in 1..Slots
      /\ Hits(c.scalers, key) # {} => slot \in Hits(c.scalers, key)
      /\ Hits(c.scalers, key) = {} => slot = LeastRecentlyUsed(c.scalers)
  BY <1>1, SlotOfKey DEF IsConverter
<1>5. /\ d.clock = c.clock + 1 /\ d.pools = c.pools
      /\ d.built = IF Hits(c.scalers, key) = {} THEN c.built \cup {"scaler"} ELSE c.built
  BY <1>1, AfterScaled
<1>6. PICK scalers : /\ OthersKept(slot, c.scalers, scalers) /\ SameStamps(scalers, d.scalers)
                     /\ IsNewest(scalers[slot], key, c.clock + 1)
  BY <1>1, AfterScaled
<1>7. StampsOK(d)
  BY <1>1, <1>2, StampsStayOK
<1> HIDE DEF d, slot, key
<1>8. /\ c.clock \in Nat
      /\ \A i \in 1..Slots : /\ c.scalers[i].used \in Nat /\ c.scalers[i].used <= c.clock
                             /\ c.pools[i].used \in Nat /\ c.pools[i].used <= c.clock
  BY <1>1, <1>2 DEF IsConverter, IsCache, IsSlot, StampsOK
<1>9. /\ d.scalers[slot].live /\ d.scalers[slot].key = key /\ d.scalers[slot].used = c.clock + 1
      /\ \A i \in 1..Slots : i # slot => /\ d.scalers[i].live <=> c.scalers[i].live
                                         /\ d.scalers[i].key = c.scalers[i].key
                                         /\ d.scalers[i].used = c.scalers[i].used
  BY <1>4, <1>6 DEF OthersKept, SameStamps, IsNewest
<1>10. IsNewestScaler(d, key)
  BY <1>4, <1>8, <1>9 DEF IsNewestScaler
<1>11. Succeeded(1) => HasScaler(d, ScalerKeyOf(recent[1]))
  <2>1. SUFFICES ASSUME Succeeded(1) PROVE HasScaler(d, ScalerKeyOf(recent[1]))
    OBVIOUS
  <2> DEFINE last == ScalerKeyOf(recent[1])
  <2>2. PICK i \in 1..Slots : /\ c.scalers[i].live /\ c.scalers[i].key = last
                              /\ \A j \in 1..Slots : j # i => c.scalers[j].used < c.scalers[i].used
    BY <1>1, <1>2, <2>1 DEF ScalersOK, IsNewestScaler
  <2> HIDE DEF last
  <2>3. CASE i # slot
    BY <1>9, <2>2, <2>3 DEF HasScaler, Hits, last
  <2>4. CASE i = slot
    <3>1. IsCache(c.scalers)
      BY <1>1 DEF IsConverter
    <3>2. LeastRecentlyUsed(c.scalers) # i
      BY <2>2, <3>1, NewestIsNotGivenUp
    <3>3. slot \in Hits(c.scalers, key)
      BY <1>4, <2>4, <3>2
    <3>4. last = key
      BY <2>2, <2>4, <3>3 DEF Hits
    <3> QED
      BY <1>4, <1>9, <3>4 DEF HasScaler, Hits, last
  <2> QED
    BY <2>3, <2>4
<1>12. IsRepeat \/ IsReturn => Hits(c.scalers, key) # {}
  BY <1>1, <1>2, <1>3 DEF IsRepeat, IsReturn, ScalersOK, IsNewestScaler, HasScaler, Hits
<1>13. BuiltOK(d)
  BY <1>2, <1>5, <1>12 DEF BuiltOK
<1>14. IsRepeat => IsReady(d, Shape)
  BY <1>2, <1>5 DEF PoolsOK, IsRepeat, IsReady
<1>15. Taken(d, Passed(request.pc) \cup ({request.pc} \ {"scale"}))
  <2>1. Passed(request.pc) \cup ({request.pc} \ {"scale"}) = Passed(request.pc)
    BY <1>1
  <2> QED
    BY <1>2, <1>5, <2>1 DEF Taken
<1>16. \A i \in 1..Slots : d.pools[i].used < d.clock
  BY <1>5, <1>8
<1>17. LookedUp(d)
  BY <1>1, <1>5, <1>7, <1>10, <1>11, <1>13, <1>14, <1>15, <1>16 DEF LookedUp, key
<1> QED
  BY <1>17 DEF d, key

\* What follows a lookup: the next stage, or the image.
LEMMA StageFollows ==
  ASSUME Base, CachesOK, ~At("idle"), LookedUp(converter'), IsConverter(converter'),
         NEW scaled, Proceed(scaled)
  PROVE  CachesOK' /\ CachesBuildNothing'
<1> DEFINE pc == request.pc
           next == After(pc)
           passed == Passed(pc) \cup ({pc} \ {"scale"})
<1>1. /\ generator' = generator /\ generator.status = "open"
      /\ request' = IF next = "idle" THEN Idle ELSE [request EXCEPT !.pc = next]
      /\ reply'.status = (IF next = "idle" THEN "image" ELSE "none") /\ reply'.built = converter'.built
  BY DEF Proceed, Base, UnderWay
<1>2. RecentOK /\ StageOK /\ ScalersOK /\ PoolsOK /\ pc \in {"scale"} \cup StagesOf(Shape) /\ Since \in Nat
  BY DEF CachesOK, StageOK
<1>3. /\ Position(pc) \in 0..4
      /\ IF next = "idle" THEN passed = StagesOf(Shape) /\ pc \in {"scale", "transform"}
         ELSE /\ next \in {"scale"} \cup StagesOf(Shape)
              /\ Position(next) = Position(pc) + 1 /\ Passed(next) = passed
              /\ pc # "transform" /\ (next = "transform" <=> pc = "scale")
  BY <1>2, StagesInOrder
<1>4. /\ converter'.clock = converter.clock + 1 /\ StampsOK(converter') /\ BuiltOK(converter')
      /\ IsRepeat => IsReady(converter', Shape)
      /\ Taken(converter', passed)
      /\ IF pc \in {"scale", "transform"}
         THEN /\ IsNewestScaler(converter', ScalerKey)
              /\ Succeeded(1) => HasScaler(converter', ScalerKeyOf(recent[1]))
         ELSE converter'.scalers = converter.scalers
      /\ pc = "scale" => \A i \in 1..Slots : converter'.pools[i].used < converter'.clock
  BY DEF LookedUp, At
<1>5. /\ Shape \in Shapes /\ Shape # <<>> /\ ScalerKey = ScalerKeyOf(Shape)
      /\ \A stage \in PoolStages : PoolKey(stage) = PoolKeyOf(Shape, stage)
  BY KeysGoByShape
<1>6. /\ Shapes' = Shapes
      /\ \A shape : StagesOf(shape)' = StagesOf(shape) /\ ScalerKeyOf(shape)' = ScalerKeyOf(shape)
      /\ \A shape : \A stage \in PoolStages : PoolKeyOf(shape, stage)' = PoolKeyOf(shape, stage)
  BY <1>1, ShapesKept
<1>7. \A shape : StagesOf(shape) \subseteq PoolStages
  BY DEF StagesOf
<1>8. StampsOK(converter)'
  BY <1>4 DEF StampsOK
<1>9. CASE next = "idle"
  <2>1. At("idle")' /\ ~At("transform")'
    BY <1>1, <1>9 DEF At, Idle
  <2>2. Remember(Shape)
    BY <1>9 DEF Proceed
  <2>3. /\ recent' \in Seq(Shapes) /\ 1 <= Len(recent') /\ Len(recent') <= 3 /\ recent'[1] = Shape
        /\ Len(recent') >= 2 => Len(recent) >= 1 /\ recent'[2] = recent[1]
        /\ Len(recent') >= 3 => Len(recent) >= 2 /\ recent'[3] = recent[2]
    BY <1>2, <1>5, <2>2, ShapeRemembered
  <2>4. RecentOK'
    BY <1>1, <1>6, <2>3 DEF RecentOK
  <2>5. Succeeded(2)' => Succeeded(1)
    BY <2>3 DEF Succeeded
  <2>6. ScalersOK'
    <3>1. IsNewestScaler(converter', ScalerKeyOf(Shape))
      BY <1>3, <1>4, <1>5, <1>9
    <3>2. Succeeded(2)' => HasScaler(converter', ScalerKeyOf(recent[1])) /\ recent'[2] = recent[1]
      BY <1>3, <1>4, <1>9, <2>3, <2>5 DEF Succeeded
    <3>3. ScalerKeyOf(recent[1])' = ScalerKeyOf(Shape)
      BY <1>6, <2>3
    <3>4. Succeeded(2)' => ScalerKeyOf(recent[2])' = ScalerKeyOf(recent[1])
      BY <1>6, <3>2
    <3> QED
      BY <2>1, <3>1, <3>2, <3>3, <3>4 DEF ScalersOK, IsNewestScaler, HasScaler, Hits
  <2>7. PoolsOK'
    <3>1. \A stage \in StagesOf(Shape) : Hits(converter'.pools, PoolKeyOf(Shape, stage)) # {}
      BY <1>3, <1>4, <1>5, <1>7, <1>9 DEF Taken, Hits
    <3>2. IsReady(converter, recent[1])'
      BY <1>6, <1>7, <2>3, <3>1 DEF IsReady, Hits
    <3> QED
      BY <3>2 DEF PoolsOK
  <2>8. CachesBuildNothing'
    <3>1. Len(recent') >= 2 /\ recent'[1] = recent'[2] => "pool" \notin reply'.built /\ "scaler" \notin reply'.built
      BY <1>1, <1>4, <1>5, <2>3 DEF BuiltOK, IsRepeat, Succeeded
    <3>2. Len(recent') = 3 /\ recent'[1] = recent'[3] /\ recent'[2] # <<>> => "scaler" \notin reply'.built
      BY <1>1, <1>4, <1>5, <2>3 DEF BuiltOK, IsReturn, Succeeded
    <3>3. reply'.built \subseteq {"pool", "scaler", "replaner"}
      BY <1>1, <1>4 DEF BuiltOK
    <3> QED
      BY <3>1, <3>2, <3>3 DEF CachesBuildNothing
  <2> QED
    BY <1>8, <2>1, <2>4, <2>6, <2>7, <2>8 DEF CachesOK, StageOK
<1>10. CASE next # "idle"
  <2>1. request'.pc = next /\ frame' = frame /\ request'.box = request.box
    BY <1>1, <1>10 DEF Base, RequestOK, frame
  <2>2. recent' = recent
    BY <1>10 DEF Proceed
  <2>3. /\ Shape' = Shape /\ ScalerKey' = ScalerKey
        /\ \A stage \in PoolStages : PoolKey(stage)' = PoolKey(stage)
        /\ \A stage : Position(stage)' = Position(stage)
    BY <1>1, <2>1, RequestKept
  <2>4. Position(request.pc)' = Position(next)
    BY <2>1, <2>3
  <2>5. Since' = Since
    BY <1>2, <1>3, <1>4, <1>10, <2>4 DEF Since, Base, IsConverter
  <2>6. StagesOf(Shape)' = StagesOf(Shape)
    BY <1>6, <2>3
  <2>7. Passed(request.pc)' = passed
    <3>1. Passed(request.pc)' = {s \in StagesOf(Shape) : Position(s) < Position(next)}
      BY <2>3, <2>4, <2>6 DEF Passed
    <3> QED
      BY <1>3, <1>10, <3>1 DEF Passed
  <2>8. passed \subseteq PoolStages
    BY <1>2, <1>7 DEF Passed
  <2>9. Taken(converter, Passed(request.pc))'
    BY <1>4, <2>3, <2>5, <2>7, <2>8 DEF Taken
  <2>10. StageOK'
    <3>1. At("transform")' => pc = "scale"
      BY <1>3, <1>10, <2>1 DEF At
    <3>2. (request.pc \in {"scale"} \cup StagesOf(Shape))'
      BY <1>3, <1>10, <2>1, <2>6
    <3> QED
      BY <1>2, <1>4, <2>5, <2>9, <3>1, <3>2 DEF StageOK
  <2>11. \A n : Succeeded(n)' <=> Succeeded(n)
    BY <2>2 DEF Succeeded
  <2>12. ScalerKeyOf(recent[1])' = ScalerKeyOf(recent[1]) /\ ScalerKeyOf(recent[2])' = ScalerKeyOf(recent[2])
    BY <1>6, <2>2
  <2>13. ScalersOK'
    <3>1. CASE pc = "scale"
      <4>1. At("transform")'
        BY <1>3, <1>10, <2>1, <3>1 DEF At
      <4> QED
        BY <1>4, <2>3, <2>11, <2>12, <3>1, <4>1 DEF ScalersOK, IsNewestScaler, HasScaler, Hits
    <3>2. CASE pc # "scale"
      <4>1. ~At("transform")' /\ ~At("transform") /\ converter'.scalers = converter.scalers
        BY <1>3, <1>4, <1>10, <2>1, <3>2 DEF At
      <4> QED
        BY <1>2, <2>11, <2>12, <4>1 DEF ScalersOK, IsNewestScaler, HasScaler, Hits
    <3> QED
      BY <3>1, <3>2
  <2>14. IsRepeat' <=> IsRepeat
    BY <2>2, <2>3, <2>11 DEF IsRepeat
  <2>15. IsReturn' <=> IsReturn
    BY <2>2, <2>3, <2>11 DEF IsReturn
  <2>16. PoolsOK'
    <3>1. SUFFICES ASSUME IsRepeat' PROVE IsReady(converter, recent[1])'
      BY <1>3, <1>10, <2>1 DEF PoolsOK, IsRepeat, At, StagesOf, PoolStages
    <3>2. IsReady(converter', Shape) /\ recent[1] = Shape
      BY <1>4, <2>14, <3>1 DEF IsRepeat
    <3>3. \A stage \in StagesOf(Shape) : Hits(converter'.pools, PoolKeyOf(Shape, stage)) # {}
      BY <3>2 DEF IsReady
    <3> QED
      BY <1>6, <1>7, <2>2, <3>2, <3>3 DEF IsReady, Hits
  <2>17. BuiltOK(converter)'
    BY <1>4, <2>14, <2>15 DEF BuiltOK
  <2>18. RecentOK'
    BY <1>1, <1>2, <1>6, <2>2 DEF RecentOK
  <2>19. CachesBuildNothing'
    BY <1>1, <1>10 DEF CachesBuildNothing, IsImage
  <2> QED
    BY <1>8, <2>10, <2>13, <2>16, <2>17, <2>18, <2>19 DEF CachesOK
<1> QED
  BY <1>9, <1>10

\* A request that fails is one that no other is like.
LEMMA FailureFollows ==
  ASSUME Base, CachesOK, ~At("idle"), StampsOK(converter'), Fail
  PROVE  CachesOK' /\ CachesBuildNothing'
<1>1. generator' = generator /\ generator.status = "open" /\ At("idle")' /\ ~At("transform")'
  BY DEF Fail, Base, UnderWay, At, Idle
<1>2. reply'.status = "failed"
  BY DEF Fail, NoReply
<1>3. recent' \in Seq(Shapes) /\ Len(recent') <= 3 /\ recent'[1] = <<>>
  <2>1. <<>> \in Shapes /\ Remember(<<>>) /\ RecentOK
    BY DEF Fail, Shapes, CachesOK
  <2> QED
    BY <2>1, ShapeRemembered
<1>4. ~Succeeded(1)'
  BY <1>3 DEF Succeeded
<1>5. Shapes' = Shapes
  BY <1>1, ShapesKept
<1>6. StampsOK(converter)'
  BY DEF StampsOK
<1>7. RecentOK'
  BY <1>1, <1>3, <1>5 DEF RecentOK
<1> QED
  BY <1>1, <1>2, <1>4, <1>6, <1>7
     DEF CachesOK, StageOK, ScalersOK, PoolsOK, CachesBuildNothing, IsImage

\* A request begins with nothing taken and nothing built.
LEMMA AskBegins ==
  ASSUME Base, Base', CachesOK, Ask
  PROVE  CachesOK' /\ CachesBuildNothing'
<1>1. PICK f \in Setting.frames :
        frame' = f /\ request'.pc = FirstStage(f)
  BY DEF Ask, frame
<1>2. /\ generator' = generator /\ recent' = recent /\ reply'.status = "none" /\ At("idle")
      /\ converter' = [converter EXCEPT !.built = {}]
  BY DEF Ask, NoReply
<1>3. /\ converter'.clock = converter.clock /\ converter'.pools = converter.pools
      /\ converter'.scalers = converter.scalers /\ converter'.built = {}
      /\ converter.clock \in Nat
  BY <1>2 DEF Base, IsConverter
<1>4. StampsOK(converter) /\ RecentOK /\ ScalersOK /\ PoolsOK
  BY DEF CachesOK
<1>5. StampsOK(converter)'
  BY <1>3, <1>4 DEF StampsOK
<1>6. ~At("idle")' /\ ~At("transform")' /\ ~At("transform")
  BY <1>1, <1>2 DEF At, FirstStage
<1>7. /\ Shapes' = Shapes
      /\ \A shape : StagesOf(shape)' = StagesOf(shape) /\ ScalerKeyOf(shape)' = ScalerKeyOf(shape)
      /\ \A shape : \A stage \in PoolStages : PoolKeyOf(shape, stage)' = PoolKeyOf(shape, stage)
  BY <1>2, ShapesKept
<1>8. (request.pc \in StagesOf(Shape))'
  BY <1>1 DEF StagesOf, PoolStages, FirstStage, Shape
<1>9. Position(request.pc)' = 0
  BY <1>1 DEF Position, FirstStage
<1>10. Passed(request.pc)' = {}
  <2>1. \A stage : Position(stage)' >= 0 \/ stage \notin PoolStages
    BY DEF Position, PoolStages
  <2> QED
    BY <1>1, <2>1 DEF Passed, StagesOf, PoolStages, Position, FirstStage
<1>11. Since' = converter.clock
  BY <1>3, <1>9 DEF Since
<1>12. Taken(converter, Passed(request.pc))'
  <2>1. \A i \in 1..Slots : converter.pools[i].used \in Nat /\ converter.pools[i].used <= converter.clock
    BY <1>4 DEF StampsOK, Base, IsConverter, IsCache, IsSlot
  <2> QED
    BY <1>3, <1>10, <1>11, <2>1 DEF Taken
<1>13. StageOK'
  BY <1>3, <1>6, <1>8, <1>11, <1>12 DEF StageOK
<1>14. \A n : Succeeded(n)' <=> Succeeded(n)
  BY <1>2 DEF Succeeded
<1>15. ScalersOK'
  <2>1. ScalerKeyOf(recent[1])' = ScalerKeyOf(recent[1]) /\ ScalerKeyOf(recent[2])' = ScalerKeyOf(recent[2])
    BY <1>2, <1>7
  <2> QED
    BY <1>3, <1>4, <1>6, <1>14, <2>1 DEF ScalersOK, IsNewestScaler, HasScaler, Hits
<1>16. PoolsOK'
  <2>1. SUFFICES ASSUME Succeeded(1) PROVE IsReady(converter, recent[1])'
    BY <1>14 DEF PoolsOK
  <2>2. \A stage \in StagesOf(recent[1]) : Hits(converter.pools, PoolKeyOf(recent[1], stage)) # {}
    BY <1>2, <1>4, <2>1 DEF PoolsOK, IsReady
  <2>3. StagesOf(recent[1]) \subseteq PoolStages
    BY DEF StagesOf
  <2> QED
    BY <1>2, <1>3, <1>7, <2>2, <2>3 DEF IsReady, Hits
<1>17. RecentOK'
  BY <1>2, <1>4, <1>7 DEF RecentOK
<1> QED
  BY <1>2, <1>3, <1>5, <1>13, <1>15, <1>16, <1>17
     DEF CachesOK, BuiltOK, CachesBuildNothing, IsImage

\* A lookup that fails leaves the stamps in order, too.
LEMMA FailuresKeepStamps ==
  ASSUME Base, CachesOK, PooledFrameFails \/ ScaleFails
  PROVE  StampsOK(converter') /\ ~At("idle") /\ Fail
<1>1. /\ \A key : StampsOK(Pooled(converter, key)) /\ StampsOK(PoolFailed(converter, key))
      /\ StampsOK(Tick(converter))
      /\ \A key, colours : StampsOK(Coloured(Scaler(converter, key), key, colours))
  BY StampsStayOK DEF Base, CachesOK
<1>2. CASE PooledFrameFails
  <2> DEFINE taken == Pooled(converter, PoolKey(request.pc))
  <2>1. IsConverter(taken) /\ StampsOK(taken)
    BY <1>1, AfterPooled DEF Base
  <2> HIDE DEF taken
  <2>2. StampsOK(Filled(taken)) /\ StampsOK(ReplanerLost(taken))
    BY <2>1, Fills DEF StampsOK
  <2>3. converter' \in {PoolFailed(converter, PoolKey(request.pc)), taken, Filled(taken), ReplanerLost(taken)}
    BY <1>2 DEF PooledFrameFails, taken
  <2> QED
    BY <1>1, <1>2, <2>1, <2>2, <2>3 DEF PooledFrameFails, PoolStages, At
<1>3. CASE ScaleFails
  BY <1>1, <1>3 DEF ScaleFails, At
<1> QED
  BY <1>2, <1>3

\* What is left alone stays true.
LEMMA CachesUnchanged ==
  ASSUME CachesOK, UNCHANGED <<generator, request, converter, recent>>
  PROVE  CachesOK'
<1>1. /\ Shapes' = Shapes
      /\ \A shape : StagesOf(shape)' = StagesOf(shape) /\ ScalerKeyOf(shape)' = ScalerKeyOf(shape)
      /\ \A shape : \A stage \in PoolStages : PoolKeyOf(shape, stage)' = PoolKeyOf(shape, stage)
  BY ShapesKept
<1>2. /\ Shape' = Shape /\ ScalerKey' = ScalerKey
      /\ \A stage \in PoolStages : PoolKey(stage)' = PoolKey(stage)
      /\ \A stage : Position(stage)' = Position(stage)
  BY RequestKept DEF frame
<1>3. StagesOf(Shape)' = StagesOf(Shape) /\ StagesOf(Shape) \subseteq PoolStages
  BY <1>1, <1>2 DEF StagesOf
<1>4. Position(request.pc)' = Position(request.pc)
  BY <1>2
<1>5. Since' = Since
  BY <1>4 DEF Since
<1>6. Passed(request.pc)' = Passed(request.pc) /\ Passed(request.pc) \subseteq PoolStages
  BY <1>2, <1>3, <1>4 DEF Passed
<1>7. StageOK'
  <2>1. Taken(converter, Passed(request.pc))' <=> Taken(converter, Passed(request.pc))
    BY <1>2, <1>5, <1>6 DEF Taken
  <2> QED
    BY <1>3, <1>5, <2>1 DEF CachesOK, StageOK, At
<1>8. \A n : Succeeded(n)' <=> Succeeded(n)
  BY DEF Succeeded
<1>9. ScalersOK'
  <2>1. ScalerKeyOf(recent[1])' = ScalerKeyOf(recent[1]) /\ ScalerKeyOf(recent[2])' = ScalerKeyOf(recent[2])
    BY <1>1
  <2> QED
    BY <1>2, <1>8, <2>1 DEF CachesOK, ScalersOK, At, IsNewestScaler, HasScaler, Hits
<1>10. PoolsOK'
  <2>1. IsReady(converter, recent[1])' <=> IsReady(converter, recent[1])
    <3>1. StagesOf(recent[1])' = StagesOf(recent[1]) /\ StagesOf(recent[1]) \subseteq PoolStages
      BY <1>1 DEF StagesOf
    <3> QED
      BY <1>1, <3>1 DEF IsReady, Hits
  <2> QED
    BY <1>2, <1>8, <2>1 DEF CachesOK, PoolsOK, At
<1>11. BuiltOK(converter)' <=> BuiltOK(converter)
  BY <1>2, <1>8 DEF BuiltOK, IsRepeat, IsReturn
<1>12. RecentOK' /\ StampsOK(converter)'
  BY <1>1 DEF CachesOK, RecentOK, StampsOK
<1> QED
  BY <1>7, <1>9, <1>10, <1>11, <1>12 DEF CachesOK, At

\* So the caches are in order between any two requests, whatever became of them.
LEMMA CachesHold ==
  Spec => [](CachesOK /\ CachesBuildNothing)
<1> DEFINE Inv == CachesOK /\ CachesBuildNothing
<1>1. Init => Inv
  <2>1. SUFFICES ASSUME Init PROVE Inv
    OBVIOUS
  <2>2. recent = <<>> /\ At("idle") /\ ~IsImage /\ converter = NewConverter
    BY <2>1 DEF Init, At, Idle, IsImage, NoReply
  <2>3. ~Succeeded(1) /\ RecentOK
    BY <2>2 DEF Succeeded, RecentOK
  <2>4. StampsOK(converter)
    BY <2>2 DEF StampsOK, NewConverter, EmptySlot
  <2> QED
    BY <2>2, <2>3, <2>4 DEF CachesOK, StageOK, ScalersOK, PoolsOK, At, CachesBuildNothing
<1>2. Base /\ Base' /\ Inv /\ [Next]_vars => Inv'
  <2>1. SUFFICES ASSUME Base, Base', Inv, [Next]_vars PROVE Inv'
    OBVIOUS
  <2>2. CASE Open
    <3>1. UNCHANGED <<request, converter, recent, reply>> /\ generator.status = "closed"
      BY <2>2 DEF Open
    <3>2. recent = <<>> /\ At("idle")
      BY <2>1, <3>1 DEF CachesOK, RecentOK, Base, UnderWay
    <3>3. ~Succeeded(1)' /\ RecentOK' /\ At("idle")'
      BY <3>1, <3>2 DEF Succeeded, RecentOK, At
    <3>4. StampsOK(converter)'
      BY <2>1, <3>1 DEF CachesOK, StampsOK
    <3>5. CachesBuildNothing'
      BY <3>1, <2>1 DEF CachesBuildNothing, IsImage
    <3> QED
      BY <3>3, <3>4, <3>5 DEF CachesOK, StageOK, ScalersOK, PoolsOK, At
  <2>3. CASE Reattach
    <3>1. recent' = <<>> /\ At("idle")' /\ ~IsImage' /\ converter' = NewConverter
      BY <2>3 DEF Reattach, At, IsImage, NoReply
    <3>2. ~Succeeded(1)' /\ RecentOK'
      BY <3>1 DEF Succeeded, RecentOK
    <3>3. StampsOK(converter)'
      BY <3>1 DEF StampsOK, NewConverter, EmptySlot
    <3> QED
      BY <3>1, <3>2, <3>3 DEF CachesOK, StageOK, ScalersOK, PoolsOK, At, CachesBuildNothing
  <2>4. CASE Rest \/ Step \/ Refuse \/ UNCHANGED vars
    <3>1. UNCHANGED <<generator, request, converter, recent>>
      BY <2>4 DEF Rest, Step, Refuse, vars
    <3>2. reply' = reply \/ ~IsImage'
      <4>1. \A t, r : ResolveTime(r, t, Setting.stream, Setting.clamps).status
                        \in {"ok", "invalidArgument", "timeOutOfRange"}
        BY DEF ResolveTime, Refused, Window
      <4> QED
        BY <2>4, <4>1 DEF Rest, Step, Refuse, vars, NoReply, IsImage
    <3>3. CachesBuildNothing'
      BY <2>1, <3>1, <3>2 DEF CachesBuildNothing, IsImage
    <3>4. CachesOK'
      BY <2>1, <3>1, CachesUnchanged
    <3> QED
      BY <3>3, <3>4
  <2>5. CASE TakePooledFrame
    <3>1. request.pc \in PoolStages /\ ~At("idle") /\ IsConverter(converter')
      BY <2>1, <2>5 DEF TakePooledFrame, PoolStages, At, Base
    <3>2. LookedUp(converter')
      BY <2>1, <2>5, <3>1, PoolStageFilled DEF TakePooledFrame
    <3> QED
      BY <2>1, <2>5, <3>1, <3>2, StageFollows DEF TakePooledFrame
  <2>6. CASE ScaleFrame
    <3>1. ~At("idle") /\ IsConverter(converter')
      BY <2>1, <2>6 DEF ScaleFrame, At, Base
    <3>2. LookedUp(converter')
      BY <2>1, <2>6, ScaleStage DEF ScaleFrame
    <3> QED
      BY <2>1, <2>6, <3>1, <3>2, StageFollows DEF ScaleFrame
  <2>7. CASE PooledFrameFails \/ ScaleFails
    BY <2>1, <2>7, FailuresKeepStamps, FailureFollows
  <2> QED
    BY <2>1, <2>2, <2>3, <2>4, <2>5, <2>6, <2>7, AskBegins DEF Next
<1> QED
  BY <1>1, <1>2, BaseHolds, PTL DEF Spec

\* The request n before was rearranged; and what the last one that was came from, among
\* the requests that got their image since any failed.
Rearranged(n) == Succeeded(n) /\ IsReplaned(recent[n])
IsLastSource(key) ==
  \/ Rearranged(1) /\ key = Source(recent[1])
  \/ Succeeded(1) /\ ~IsReplaned(recent[1]) /\ Rearranged(2) /\ key = Source(recent[2])

\* The context for rearranging planes is the one the last such request left, until it
\* is this request's, which had to build it exactly if it was another one.
ReplanerOK ==
  IF request.pc \in {"scale", "transform"} /\ NeedsReplaning
  THEN /\ converter.replaner = ReplanerKey
       /\ \A key : IsLastSource(key) => ("replaner" \in converter.built <=> key # ReplanerKey)
  ELSE /\ \A key : IsLastSource(key) => converter.replaner = key
       /\ ~At("idle") => "replaner" \notin converter.built

\* What SteadyStreamBuildsNothing says of that context.
ReplanerIsRebuilt ==
  IsImage =>
    /\ Len(recent) >= 2 /\ recent[1] = recent[2] => "replaner" \notin reply.built
    /\ Len(recent) = 3 /\ recent[1] = recent[3] /\ recent[2] # <<>> =>
         ("replaner" \in reply.built
            <=> IsReplaned(recent[1]) /\ IsReplaned(recent[2]) /\ Source(recent[1]) # Source(recent[2]))

\* A stage leaves the context alone, but for that of rearranging.
StageReplans ==
  IF At("replane")
  THEN /\ converter'.replaner = ReplanerKey
       /\ "replaner" \in converter'.built
            <=> "replaner" \in converter.built \/ converter.replaner # ReplanerKey
  ELSE /\ converter'.replaner = converter.replaner
       /\ "replaner" \in converter'.built <=> "replaner" \in converter.built

LEMMA StagesReplan ==
  ASSUME Base, TakePooledFrame \/ ScaleFrame
  PROVE  StageReplans
<1>1. CASE TakePooledFrame
  <2> DEFINE c == Pooled(converter, PoolKey(request.pc))
  <2>1. /\ IsConverter(c) /\ c.replaner = converter.replaner
        /\ c.built \in {converter.built, converter.built \cup {"pool"}}
    BY AfterPooled DEF Base
  <2>2. converter' = Filled(c)
    BY <1>1 DEF TakePooledFrame
  <2> HIDE DEF c
  <2>3. CASE At("replane")
    <3>1. /\ converter'.replaner = ReplanerKey
          /\ converter'.built = IF c.replaner = ReplanerKey THEN c.built ELSE c.built \cup {"replaner"}
      BY <2>1, <2>2, <2>3, Fills
    <3>2. "replaner" \in c.built <=> "replaner" \in converter.built
      BY <2>1
    <3> QED
      BY <2>1, <2>3, <3>1, <3>2 DEF StageReplans
  <2>4. CASE ~At("replane")
    <3>1. converter' = c
      BY <2>1, <2>2, <2>4, Fills
    <3> QED
      BY <2>1, <2>4, <3>1 DEF StageReplans
  <2> QED
    BY <2>3, <2>4
<1>2. CASE ScaleFrame
  <2> DEFINE d == Coloured(Scaler(converter, ScalerKey), ScalerKey, Colours(frame))
  <2>1. /\ d.replaner = converter.replaner
        /\ d.built \in {converter.built, converter.built \cup {"scaler"}}
    <3>1. IsConverter(converter)
      BY DEF Base
    <3> QED
      BY <3>1, ScaledKeepsReplaner
  <2>2. converter' = d /\ ~At("replane")
    BY <1>2 DEF ScaleFrame, At
  <2> HIDE DEF d
  <2> QED
    BY <2>1, <2>2 DEF StageReplans
<1> QED
  BY <1>1, <1>2

\* What the context was last used for goes by the setting, too.
LEMMA SourcesKept ==
  ASSUME generator' = generator
  PROVE  /\ \A shape : IsReplaned(shape)' <=> IsReplaned(shape)
         /\ recent' = recent => \A key : IsLastSource(key)' <=> IsLastSource(key)
<1>1. \A shape : IsReplaned(shape)' <=> IsReplaned(shape)
  BY DEF IsReplaned, IsFullRange, Setting
<1>2. ASSUME recent' = recent PROVE \A key : IsLastSource(key)' <=> IsLastSource(key)
  BY <1>1, <1>2 DEF IsLastSource, Rearranged, Succeeded, IsReplaned, IsFullRange, Setting
<1> QED
  BY <1>1, <1>2

\* What follows a stage, as far as that context goes.
LEMMA ReplanerFollows ==
  ASSUME Base, CachesOK, ReplanerOK, ~At("idle"), StageReplans, NEW scaled, Proceed(scaled)
  PROVE  ReplanerOK' /\ ReplanerIsRebuilt'
<1> DEFINE pc == request.pc
           next == After(pc)
<1>1. /\ generator' = generator
      /\ request' = IF next = "idle" THEN Idle ELSE [request EXCEPT !.pc = next]
      /\ reply'.status = (IF next = "idle" THEN "image" ELSE "none") /\ reply'.built = converter'.built
  BY DEF Proceed
<1>2. pc \in {"download", "output", "replane", "scale", "transform"} /\ (pc = "replane" => NeedsReplaning)
  BY DEF Base, RequestOK, At, CachesOK, StageOK, StagesOf, IsReplaned, NeedsReplaning, Shape
<1>3. /\ next = "idle" => pc \in {"scale", "transform"}
      /\ next = "scale" => pc = "replane" \/ (pc = "output" /\ ~NeedsReplaning)
      /\ next = "transform" => pc = "scale"
      /\ pc = "replane" => next = "scale"
      /\ pc = "scale" => next \in {"idle", "transform"}
      /\ pc = "transform" => next = "idle"
  <2>1. CASE NeedsReplaning
    BY <1>2, <2>1 DEF After
  <2>2. CASE ~NeedsReplaning
    BY <1>2, <2>2 DEF After
  <2> QED
    BY <2>1, <2>2
<1>4. \A shape : IsReplaned(shape)' <=> IsReplaned(shape)
  BY <1>1, SourcesKept
<1>5. /\ Shape # <<>> /\ Shape \in Shapes /\ (IsReplaned(Shape) <=> NeedsReplaning) /\ Source(Shape) = ReplanerKey
  BY KeysGoByShape DEF Shape, IsReplaned, NeedsReplaning, Source, ReplanerKey
<1>6. IF pc \in {"replane", "scale", "transform"} /\ NeedsReplaning
      THEN /\ converter'.replaner = ReplanerKey
           /\ \A key : IsLastSource(key) => ("replaner" \in converter'.built <=> key # ReplanerKey)
      ELSE /\ \A key : IsLastSource(key) => converter'.replaner = key
           /\ "replaner" \notin converter'.built
  BY <1>2 DEF ReplanerOK, StageReplans, At
<1>7. CASE next = "idle"
  <2>1. At("idle")' /\ ~(request.pc \in {"scale", "transform"})'
    BY <1>1, <1>7 DEF At, Idle
  <2>2. /\ recent'[1] = Shape /\ 1 <= Len(recent')
        /\ Len(recent') >= 2 => Len(recent) >= 1 /\ recent'[2] = recent[1]
        /\ Len(recent') >= 3 => Len(recent) >= 2 /\ recent'[3] = recent[2]
    <3>1. RecentOK /\ Remember(Shape)
      BY <1>7 DEF CachesOK, Proceed
    <3> QED
      BY <1>5, <3>1, ShapeRemembered
  <2>3. pc \in {"scale", "transform"}
    BY <1>3, <1>7
  <2>4. ReplanerOK'
    <3>1. ASSUME NEW key, IsLastSource(key)' PROVE converter'.replaner = key
      <4>1. CASE NeedsReplaning
        <5>1. key = ReplanerKey
          BY <1>4, <1>5, <2>2, <3>1, <4>1 DEF IsLastSource, Rearranged, Succeeded, Source
        <5> QED
          BY <1>6, <2>3, <4>1, <5>1
      <4>2. CASE ~NeedsReplaning
        <5>1. Rearranged(1) /\ key = Source(recent[1])
          BY <1>4, <1>5, <2>2, <3>1, <4>2 DEF IsLastSource, Rearranged, Succeeded, Source
        <5>2. IsLastSource(key)
          BY <5>1 DEF IsLastSource
        <5> QED
          BY <1>6, <4>2, <5>2
      <4> QED
        BY <4>1, <4>2
    <3> QED
      BY <2>1, <3>1 DEF ReplanerOK
  <2>5. ReplanerIsRebuilt'
    <3>1. ASSUME Len(recent') >= 2, recent'[1] = recent'[2] PROVE "replaner" \notin reply'.built
      <4>1. CASE NeedsReplaning
        <5>1. IsLastSource(ReplanerKey)
          BY <1>5, <2>2, <3>1, <4>1 DEF IsLastSource, Rearranged, Succeeded
        <5> QED
          BY <1>1, <1>6, <2>3, <4>1, <5>1
      <4> QED
        BY <1>1, <1>6, <4>1
    <3>2. ASSUME Len(recent') = 3, recent'[1] = recent'[3], recent'[2] # <<>>
          PROVE  "replaner" \in reply'.built
                   <=> IsReplaned(Shape) /\ IsReplaned(recent[1]) /\ ReplanerKey # Source(recent[1])
      <4>1. Succeeded(1) /\ Succeeded(2) /\ recent[2] = Shape
        BY <1>5, <2>2, <3>2 DEF Succeeded
      <4>2. CASE NeedsReplaning /\ IsReplaned(recent[1])
        <5>1. IsLastSource(Source(recent[1]))
          BY <4>1, <4>2 DEF IsLastSource, Rearranged
        <5> QED
          BY <1>1, <1>5, <1>6, <2>3, <4>2, <5>1
      <4>3. CASE NeedsReplaning /\ ~IsReplaned(recent[1])
        <5>1. IsLastSource(ReplanerKey)
          BY <1>5, <4>1, <4>3 DEF IsLastSource, Rearranged
        <5> QED
          BY <1>1, <1>6, <2>3, <4>3, <5>1
      <4>4. CASE ~NeedsReplaning
        BY <1>1, <1>5, <1>6, <4>4
      <4> QED
        BY <4>2, <4>3, <4>4
    <3> QED
      BY <1>4, <1>5, <2>2, <3>1, <3>2 DEF ReplanerIsRebuilt, Source
  <2> QED
    BY <2>4, <2>5
<1>8. CASE next # "idle"
  <2>1. request'.pc = next /\ frame' = frame /\ recent' = recent
    BY <1>1, <1>8 DEF Base, RequestOK, frame, Proceed
  <2>2. (NeedsReplaning' <=> NeedsReplaning) /\ ReplanerKey' = ReplanerKey
    BY <1>1, <2>1 DEF NeedsReplaning, IsFullRange, ReplanerKey, Setting
  <2>3. \A key : IsLastSource(key)' <=> IsLastSource(key)
    BY <1>1, <2>1, SourcesKept
  <2>4. ReplanerOK'
    <3>1. CASE next \in {"scale", "transform"} /\ NeedsReplaning
      BY <1>3, <1>6, <1>8, <2>1, <2>2, <2>3, <3>1 DEF ReplanerOK
    <3>2. CASE ~(next \in {"scale", "transform"} /\ NeedsReplaning)
      <4>1. ~(pc \in {"replane", "scale", "transform"} /\ NeedsReplaning)
        BY <1>3, <1>8, <3>2
      <4> QED
        BY <1>6, <2>1, <2>2, <2>3, <3>2, <4>1 DEF ReplanerOK
    <3> QED
      BY <3>1, <3>2
  <2>5. ReplanerIsRebuilt'
    BY <1>1, <1>8 DEF ReplanerIsRebuilt, IsImage
  <2> QED
    BY <2>4, <2>5
<1> QED
  BY <1>7, <1>8

\* No failed request says anything about the context.
LEMMA NoSourceLeft ==
  ASSUME ~Succeeded(1)', At("idle")', ~IsImage'
  PROVE  ReplanerOK' /\ ReplanerIsRebuilt'
<1>1. \A key : ~IsLastSource(key)'
  BY DEF IsLastSource, Rearranged
<1>2. ~(request.pc \in {"scale", "transform"})'
  BY DEF At
<1> QED
  BY <1>1, <1>2 DEF ReplanerOK, ReplanerIsRebuilt

LEMMA ReplanerHolds ==
  Spec => [](ReplanerOK /\ ReplanerIsRebuilt)
<1> DEFINE Inv == ReplanerOK /\ ReplanerIsRebuilt
<1>1. Init => Inv
  <2>1. SUFFICES ASSUME Init PROVE Inv
    OBVIOUS
  <2>2. recent = <<>> /\ At("idle") /\ ~IsImage
    BY <2>1 DEF Init, At, Idle, IsImage, NoReply
  <2>3. \A key : ~IsLastSource(key)
    BY <2>2 DEF IsLastSource, Rearranged, Succeeded
  <2> QED
    BY <2>2, <2>3 DEF ReplanerOK, ReplanerIsRebuilt, At
<1>2. Base /\ CachesOK /\ Inv /\ [Next]_vars => Inv'
  <2>1. SUFFICES ASSUME Base, CachesOK, Inv, [Next]_vars PROVE Inv'
    OBVIOUS
  <2>2. CASE Open
    <3>1. UNCHANGED <<request, converter, recent, reply>> /\ generator.status = "closed"
      BY <2>2 DEF Open
    <3>2. recent' = <<>> /\ At("idle")' /\ Setting' = Setting
      BY <2>1, <3>1, SettingKept DEF CachesOK, RecentOK, Base, UnderWay, At
    <3>3. \A key : ~IsLastSource(key)'
      BY <3>2 DEF IsLastSource, Rearranged, Succeeded
    <3>4. ReplanerIsRebuilt'
      BY <3>2 DEF ReplanerIsRebuilt
    <3>5. ~(request.pc \in {"scale", "transform"})'
      BY <3>2 DEF At
    <3> QED
      BY <3>2, <3>3, <3>4, <3>5 DEF ReplanerOK
  <2>3. CASE Reattach
    <3>1. recent' = <<>> /\ At("idle")' /\ ~IsImage'
      BY <2>3 DEF Reattach, At, IsImage, NoReply
    <3>2. ~Succeeded(1)'
      BY <3>1 DEF Succeeded
    <3> QED
      BY <3>1, <3>2, NoSourceLeft
  <2>4. CASE Rest \/ Step \/ Refuse \/ UNCHANGED vars
    <3>1. UNCHANGED <<generator, request, converter, recent>>
      BY <2>4 DEF Rest, Step, Refuse, vars
    <3>2. reply' = reply \/ ~IsImage'
      <4>1. \A t, r : ResolveTime(r, t, Setting.stream, Setting.clamps).status
                        \in {"ok", "invalidArgument", "timeOutOfRange"}
        BY DEF ResolveTime, Refused, Window
      <4> QED
        BY <2>4, <4>1 DEF Rest, Step, Refuse, vars, NoReply, IsImage
    <3>3. \A key : IsLastSource(key)' <=> IsLastSource(key)
      BY <3>1, SourcesKept
    <3>4. (NeedsReplaning' <=> NeedsReplaning) /\ ReplanerKey' = ReplanerKey
      BY <3>1 DEF NeedsReplaning, IsFullRange, ReplanerKey, Setting, frame
    <3>5. ReplanerOK'
      BY <2>1, <3>1, <3>3, <3>4 DEF ReplanerOK, At
    <3>6. ReplanerIsRebuilt'
      BY <2>1, <3>1, <3>2 DEF ReplanerIsRebuilt, IsImage, IsReplaned, IsFullRange, Setting
    <3> QED
      BY <3>5, <3>6
  <2>5. CASE TakePooledFrame \/ ScaleFrame
    <3>1. ~At("idle") /\ \E scaled : Proceed(scaled)
      BY <2>5 DEF TakePooledFrame, ScaleFrame, PoolStages, At
    <3>2. StageReplans
      BY <2>1, <2>5, StagesReplan
    <3> QED
      BY <2>1, <3>1, <3>2, ReplanerFollows
  <2>6. CASE PooledFrameFails \/ ScaleFails
    <3>1. Fail
      BY <2>6 DEF PooledFrameFails, ScaleFails
    <3>2. At("idle")' /\ ~IsImage'
      BY <3>1 DEF Fail, Idle, At, IsImage, NoReply
    <3>3. <<>> \in Shapes /\ Remember(<<>>) /\ RecentOK
      BY <2>1, <3>1 DEF Fail, Shapes, CachesOK
    <3>4. ~Succeeded(1)'
      BY <3>3, ShapeRemembered DEF Succeeded
    <3> QED
      BY <3>2, <3>4, NoSourceLeft
  <2>7. CASE Ask
    <3>1. /\ generator' = generator /\ recent' = recent /\ At("idle") /\ ~IsImage'
          /\ converter' = [converter EXCEPT !.built = {}]
      BY <2>7 DEF Ask, NoReply, IsImage
    <3>2. converter'.replaner = converter.replaner /\ converter'.built = {}
      BY <2>1, <3>1 DEF Base, IsConverter
    <3>3. \A key : IsLastSource(key)' <=> IsLastSource(key)
      BY <3>1, SourcesKept
    <3>4. (request.pc)' \in {"download", "output"}
      BY <2>7 DEF Ask, FirstStage
    <3>5. ~(request.pc \in {"scale", "transform"}) /\ ~(request.pc \in {"scale", "transform"})'
      BY <3>1, <3>4 DEF At
    <3>6. ReplanerOK'
      BY <2>1, <3>2, <3>3, <3>5 DEF ReplanerOK
    <3> QED
      BY <3>1, <3>6 DEF ReplanerIsRebuilt
  <2> QED
    BY <2>1, <2>2, <2>3, <2>4, <2>5, <2>6, <2>7 DEF Next
<1> QED
  BY <1>1, <1>2, BaseHolds, CachesHold, PTL DEF Spec

\* detail/Converter.h, pooledFrame(), scalerFor() and replane(): whatever requests came
\* before, and whichever of them failed, two alike need nothing built for the second, and
\* two that alternate need no scaling context but the one for rearranging planes, which
\* there is one of, for one size.
THEOREM SteadyStreamsBuildNothing ==
  Spec => []SteadyStreamBuildsNothing
<1>1. CachesBuildNothing /\ ReplanerIsRebuilt => SteadyStreamBuildsNothing
  BY DEF CachesBuildNothing, ReplanerIsRebuilt, SteadyStreamBuildsNothing
<1> QED
  BY <1>1, CachesHold, ReplanerHolds, PTL

-----------------------------------------------------------------------------
(* The times of a caller who steps, and of the images it gets.             *)

Common == CommonScale(Setting.first.scale, Setting.step.scale)
Beginning == Setting.first.value * (Common \div Setting.first.scale)
Pace == Setting.step.value * (Common \div Setting.step.scale)

IsWalk == IsFinite(Setting.first) /\ IsFinite(Setting.step) /\ IsExactScale

\* A walk is over when one of its terms, or their sum, does not fit.
IsWalkOver(n) == ~Fits(Beginning) \/ ~Fits(Pace) \/ ~Fits(Beginning + n * Pace)

WalkOK ==
  IsWalk =>
    IF caller.steps = 0 THEN caller.time = Setting.first
    ELSE \/ /\ caller.time = Finite(Beginning + caller.steps * Pace, Common)
            /\ Fits(Beginning + caller.steps * Pace)
         \/ caller.time = Invalid /\ IsWalkOver(caller.steps)

ReplyOK == IsImage => Fits(reply.ts) /\ reply.ts \in Int /\ reply.time = ActualTime(reply.ts, Stream)

\* The scale of a walk is a multiple of both of its scales, and stays the common one.
LEMMA WalkScale ==
  ASSUME GeneratorOK, IsWalk
  PROVE  /\ IsNumber(Setting.first) /\ IsNumber(Setting.step)
         /\ Common \in Nat \ {0} /\ Beginning \in Int /\ Pace \in Int
         /\ \E p, q \in Nat \ {0} :
              /\ Common = p * Setting.first.scale /\ Common = q * Setting.step.scale
              /\ Beginning = Setting.first.value * p /\ Pace = Setting.step.value * q
              /\ CommonScale(Common, Setting.step.scale) = Common
<1> DEFINE a == Setting.first.scale
           b == Setting.step.scale
<1>1. /\ IsNumber(Setting.first) /\ IsNumber(Setting.step)
      /\ a \in Nat \ {0} /\ b \in Nat \ {0} /\ Setting.first.value \in Int /\ Setting.step.value \in Int
  BY SettingsAssumption DEF GeneratorOK, IsWalk, IsNumber, IsTime
<1>2. (a \div Gcd(a, b)) * b <= MaxScale
  BY DEF IsWalk, IsExactScale
<1>3. PICK p \in Nat \ {0}, q \in Nat \ {0} :
        /\ Common = p * a /\ Common = q * b /\ CommonScale(Common, b) = Common
  <2> HIDE DEF a, b
  <2>1. \E p, q \in Nat \ {0} :
          /\ CommonScale(a, b) = p * a /\ CommonScale(a, b) = q * b
          /\ CommonScale(CommonScale(a, b), b) = CommonScale(a, b)
    BY <1>1, <1>2, ExactCommonScale
  <2> QED
    BY <2>1 DEF Common, a, b
<1>4. Common \in Nat \ {0}
  BY <1>1, CommonScaleIsScale DEF Common
<1>5. Common \div a = p /\ Common \div b = q
  <2>1. Common = a * p /\ Common = b * q
    BY <1>1, <1>3
  <2> HIDE DEF a, b
  <2> QED
    BY <1>1, <1>3, <1>4, <2>1, Divides
<1>6. Beginning = Setting.first.value * p /\ Pace = Setting.step.value * q
  BY <1>5 DEF Beginning, Pace
<1>7. Beginning \in Int /\ Pace \in Int
  BY <1>1, <1>3, <1>6
<1> QED
  BY <1>1, <1>3, <1>4, <1>6, <1>7

\* One that is over goes on being so.
LEMMA WalkStaysOver ==
  ASSUME NEW f \in Int, NEW g \in Int, NEW n \in Nat \ {0}, Fits(f), ~Fits(f + n * g)
  PROVE  ~Fits(f + (n + 1) * g)
<1> DEFINE d == n * g
<1>1. d \in Int /\ (n + 1) * g = d + g
  OBVIOUS
<1>2. g >= 0 => d >= 0
  OBVIOUS
<1>3. g <= 0 => d <= 0
  OBVIOUS
<1> HIDE DEF d
<1>4. ~Fits(f + d) => ~Fits(f + (d + g))
  BY <1>1, <1>2, <1>3, TimeAssumption DEF Fits, MinValue
<1> QED
  BY <1>1, <1>4 DEF d

\* Each step of it is exact.
LEMMA WalkGoesOn ==
  ASSUME Base, WalkOK, Step
  PROVE  WalkOK'
<1> DEFINE n == caller.steps
           t == caller.time
           step == Setting.step
<1>1. Setting' = Setting /\ GeneratorOK
  BY DEF Step, Setting, Base
<1>2. /\ Common' = Common /\ Beginning' = Beginning /\ Pace' = Pace /\ (IsWalk' <=> IsWalk)
  BY <1>1 DEF Common, Beginning, Pace, IsWalk, IsExactScale
<1>3. caller' = [time |-> Plus(t, step), steps |-> n + 1] /\ n \in Nat
  <2> DEFINE next == Plus(t, step)
  <2>1. caller' = [caller EXCEPT !.time = next, !.steps = n + 1]
    BY DEF Step
  <2> HIDE DEF next
  <2>2. caller' = [time |-> next, steps |-> n + 1]
    BY <2>1 DEF Base, CallerOK
  <2> QED
    BY <2>2 DEF Base, CallerOK, next
<1>4. caller'.time = Plus(t, step) /\ caller'.steps = n + 1
  BY <1>3
<1>5. SUFFICES ASSUME IsWalk
               PROVE  \/ /\ Plus(t, step) = Finite(Beginning + (n + 1) * Pace, Common)
                         /\ Fits(Beginning + (n + 1) * Pace)
                      \/ Plus(t, step) = Invalid /\ IsWalkOver(n + 1)
  <2>1. \A k : IsWalkOver(k)' <=> IsWalkOver(k)
    BY <1>2 DEF IsWalkOver
  <2>2. n + 1 # 0
    BY <1>3
  <2> HIDE DEF n, t, step
  <2> QED
    BY <1>2, <1>4, <2>1, <2>2 DEF WalkOK
<1>6. PICK p \in Nat \ {0}, q \in Nat \ {0} :
        /\ Common = p * Setting.first.scale /\ Common = q * step.scale
        /\ Beginning = Setting.first.value * p /\ Pace = step.value * q
        /\ CommonScale(Common, step.scale) = Common
  BY <1>1, <1>5, WalkScale
<1>7. IsNumber(Setting.first) /\ IsNumber(step) /\ Common \in Nat \ {0} /\ Beginning \in Int /\ Pace \in Int
  BY <1>1, <1>5, WalkScale
<1>8. CASE n = 0
  <2>1. t = Setting.first
    BY <1>5, <1>8 DEF WalkOK
  <2>2. Plus(Setting.first, step) =
          IF Fits(Setting.first.value * p) /\ Fits(step.value * q) /\ Fits(Setting.first.value * p + step.value * q)
          THEN Finite(Setting.first.value * p + step.value * q, Common) ELSE Invalid
    BY <1>6, <1>7, SumIsExact DEF Common
  <2>3. Beginning + (n + 1) * Pace = Beginning + Pace
    BY <1>7, <1>8
  <2> QED
    BY <1>6, <2>1, <2>2, <2>3 DEF IsWalkOver
<1>9. CASE n # 0 /\ t = Finite(Beginning + n * Pace, Common) /\ Fits(Beginning + n * Pace)
  <2> DEFINE v == Beginning + n * Pace
  <2>1. v \in Int
    BY <1>3, <1>7
  <2>2. v + Pace = Beginning + (n + 1) * Pace
    BY <1>3, <1>7
  <2> HIDE DEF v
  <2>3. t = Finite(v, Common) /\ Fits(v)
    BY <1>9 DEF v
  <2>4. IsNumber(t) /\ t.value = v /\ t.scale = Common
    BY <1>7, <2>1, <2>3 DEF Finite, IsNumber, IsFinite
  <2> HIDE DEF t
  <2>5. CommonScale(t.scale, step.scale) = 1 * t.scale /\ CommonScale(t.scale, step.scale) = q * step.scale
    BY <1>6, <1>7, <2>4
  <2>6. Plus(t, step) = IF Fits(t.value * 1) /\ Fits(step.value * q) /\ Fits(t.value * 1 + step.value * q)
                        THEN Finite(t.value * 1 + step.value * q, CommonScale(t.scale, step.scale)) ELSE Invalid
    BY <1>6, <1>7, <2>4, <2>5, SumIsExact
  <2>7. t.value * 1 = v
    BY <2>1, <2>4
  <2>8. Plus(t, step) = IF Fits(v) /\ Fits(Pace) /\ Fits(v + Pace) THEN Finite(v + Pace, Common) ELSE Invalid
    BY <1>6, <2>4, <2>6, <2>7
  <2> QED
    BY <2>2, <2>3, <2>8 DEF IsWalkOver
<1>10. CASE n # 0 /\ t = Invalid /\ IsWalkOver(n)
  <2>1. Plus(t, step) = Invalid
    BY <1>10 DEF Plus, Invalid, Of, IsFinite
  <2>2. IsWalkOver(n + 1)
    BY <1>3, <1>7, <1>10, WalkStaysOver DEF IsWalkOver
  <2> QED
    BY <2>1, <2>2
<1> QED
  BY <1>5, <1>8, <1>9, <1>10 DEF WalkOK

\* Two fractions of the same value, one of them a time.
LEMMA HashedAsLowest ==
  ASSUME NEW v \in Int, NEW scale \in Nat \ {0}, NEW m \in Int, NEW den \in Nat \ {0},
         v * den = m * scale, v # MinValue
  PROVE  Hashed(Finite(v, scale)) = Lowest([num |-> m, den |-> den])
<1> DEFINE f == [num |-> m, den |-> den]
           a == IF v < 0 THEN -v ELSE v
           c == IF m < 0 THEN -m ELSE m
           g == Gcd(a, scale)
           h == Gcd(c, den)
<1>1. a \in Nat /\ c \in Nat /\ a * den = c * scale /\ (v < 0 <=> m < 0)
  <2>1. CASE v < 0
    <3>1. v * den < 0
      BY <2>1
    <3>2. m < 0
      BY <3>1
    <3> QED
      BY <2>1, <3>2
  <2>2. CASE v >= 0
    <3>1. v * den >= 0
      BY <2>2
    <3>2. m >= 0
      <4>1. SUFFICES ASSUME m <= -1 PROVE FALSE
        OBVIOUS
      <4>2. m * scale <= (-1) * scale
        BY <4>1
      <4> QED
        BY <3>1, <4>2
    <3> QED
      BY <2>2, <3>2
  <2> QED
    BY <2>1, <2>2
<1>2. a \div g = c \div h /\ scale \div g = den \div h
  BY <1>1, LowestTermsAreUnique
<1>3. /\ scale \div g \in Nat \ {0} /\ den \div h \in Nat \ {0} /\ h \in Nat \ {0}
      /\ c \div h \in Nat /\ c = h * (c \div h)
  <2>1. scale \div g \in Nat \ {0}
    BY <1>1, LowestIsLeast
  <2>2. c \div h \in Nat /\ den \div h \in Nat \ {0} /\ c = h * (c \div h)
    BY <1>1, LowestIsLeast
  <2>3. h \in 1..den
    BY <1>1, GcdIsGreatest
  <2> HIDE DEF g, h
  <2> QED
    BY <2>1, <2>2, <2>3
<1>4. Hashed(Finite(v, scale)) = Finite(IF v < 0 THEN -(a \div g) ELSE a \div g, scale \div g)
  BY DEF Hashed, Finite, IsFinite
<1>5. Lowest(f) = Finite(m \div h, den \div h)
  BY DEF Lowest
<1> HIDE DEF g, h
<1>6. m \div h = IF v < 0 THEN -(a \div g) ELSE a \div g
  <2> DEFINE k == c \div h
  <2>1. k \in Nat /\ c = h * k
    BY <1>3
  <2>2. CASE m < 0
    <3>1. m = h * (-k)
      BY <1>3, <2>1, <2>2
    <3> HIDE DEF k
    <3>2. m \div h = -k
      BY <1>3, <2>1, <3>1, Quotient
    <3> QED
      BY <1>1, <1>2, <2>2, <3>2 DEF k
  <2>3. CASE m >= 0
    BY <1>1, <1>2, <2>3
  <2> QED
    BY <2>2, <2>3
<1> QED
  BY <1>2, <1>4, <1>5, <1>6

\* A walk that goes on is where it is meant to be.
LEMMA WalkIsMeant ==
  ASSUME Base, IsWalk
  PROVE  LET far == Beginning + caller.steps * Pace
         IN /\ Meant.num \in Int /\ Meant.den \in Nat \ {0} /\ far \in Int
            /\ far * Meant.den = Meant.num * Common
            /\ (Meant.num * Common) \div Meant.den = far
            /\ (Setting.first.value * Common) \div Setting.first.scale = Beginning
            /\ (Setting.step.value * Common) \div Setting.step.scale = Pace
<1> DEFINE n == caller.steps
           a == Setting.first.value
           r == Setting.first.scale
           b == Setting.step.value
           u == Setting.step.scale
           far == Beginning + n * Pace
           num == a * u + n * b * r
<1>1. PICK p \in Nat \ {0}, q \in Nat \ {0} :
        Common = p * r /\ Common = q * u /\ Beginning = a * p /\ Pace = b * q
  BY WalkScale DEF Base
<1>2. /\ a \in Int /\ b \in Int /\ r \in Nat \ {0} /\ u \in Nat \ {0} /\ n \in Nat
      /\ Common \in Nat \ {0} /\ Beginning \in Int /\ Pace \in Int
  <2>1. IsNumber(Setting.first) /\ IsNumber(Setting.step) /\ Common \in Nat \ {0} /\ Beginning \in Int /\ Pace \in Int
    BY WalkScale DEF Base
  <2>2. n \in Nat
    BY DEF Base, CallerOK
  <2> QED
    BY <2>1, <2>2 DEF IsNumber
<1>3. Meant.num = num /\ Meant.den = r * u
  BY DEF Meant
<1> HIDE DEF n, a, r, b, u
<1>4. r * u \in Nat \ {0} /\ num \in Int /\ far \in Int
  <2>1. n * b \in Int /\ n * Pace \in Int /\ a * u \in Int
    BY <1>2
  <2>2. (n * b) * r \in Int
    BY <1>2, <2>1
  <2> QED
    BY <1>2, <2>1, <2>2
<1>5. far * (r * u) = num * Common
  <2>1. (a * p) * (r * u) = (a * u) * (p * r)
    BY <1>1, <1>2
  <2>2. (n * (b * q)) * (r * u) = (n * b * r) * (q * u)
    BY <1>1, <1>2
  <2>3. far * (r * u) = (a * p) * (r * u) + (n * (b * q)) * (r * u)
    BY <1>1, <1>2
  <2>4. num * Common = (a * u) * Common + (n * b * r) * Common
    BY <1>2
  <2> QED
    BY <1>1, <2>1, <2>2, <2>3, <2>4
<1>6. (a * Common) \div r = Beginning /\ (b * Common) \div u = Pace
  <2>1. a * Common = r * Beginning /\ b * Common = u * Pace
    BY <1>1, <1>2
  <2> QED
    BY <1>2, <2>1, Quotient
<1>7. (num * Common) \div (r * u) = far
  <2> DEFINE d == r * u
  <2> HIDE DEF d, num, far
  <2>1. num * Common = d * far
    BY <1>4, <1>5 DEF d
  <2>2. d \in Nat \ {0} /\ far \in Int
    BY <1>4 DEF d
  <2>3. (d * far) \div d = far
    BY <2>2, Quotient
  <2> QED
    BY <2>1, <2>3 DEF d
<1> HIDE DEF num, far
<1>8. /\ Meant.num \in Int /\ Meant.den \in Nat \ {0} /\ far \in Int
      /\ far * Meant.den = Meant.num * Common /\ (Meant.num * Common) \div Meant.den = far
      /\ (a * Common) \div r = Beginning /\ (b * Common) \div u = Pace
  BY <1>3, <1>4, <1>5, <1>6, <1>7
<1> QED
  BY <1>8 DEF far, n, a, r, b, u

\* So much for the steps.
LEMMA WalkDoesNotDrift ==
  ASSUME Base, WalkOK
  PROVE  StepsDoNotDrift
<1> DEFINE t == caller.time
           far == Beginning + caller.steps * Pace
<1>1. SUFFICES ASSUME caller.steps > 0, IsWalk
               PROVE  IF IsFinite(t)
                      THEN /\ t.value * Meant.den = Meant.num * t.scale
                           /\ t.value # MinValue => Hashed(t) = Lowest(Meant)
                      ELSE \/ ~Fits((Meant.num * Common) \div Meant.den)
                           \/ ~Fits((Setting.first.value * Common) \div Setting.first.scale)
                           \/ ~Fits((Setting.step.value * Common) \div Setting.step.scale)
  BY DEF StepsDoNotDrift, IsWalk, Common
<1>2. /\ Meant.num \in Int /\ Meant.den \in Nat \ {0} /\ far \in Int
      /\ far * Meant.den = Meant.num * Common
      /\ (Meant.num * Common) \div Meant.den = far
      /\ (Setting.first.value * Common) \div Setting.first.scale = Beginning
      /\ (Setting.step.value * Common) \div Setting.step.scale = Pace
  BY <1>1, WalkIsMeant
<1>3. Common \in Nat \ {0} /\ caller.steps # 0
  BY <1>1, WalkScale DEF Base, CallerOK
<1>4. CASE t = Finite(far, Common)
  <2>1. IsFinite(t) /\ t.value = far /\ t.scale = Common
    BY <1>3, <1>4 DEF Finite, IsFinite
  <2>2. Meant = [num |-> Meant.num, den |-> Meant.den]
    BY DEF Meant
  <2>3. far # MinValue => Hashed(Finite(far, Common)) = Lowest([num |-> Meant.num, den |-> Meant.den])
    <3> DEFINE v == far
               m == Meant.num
               d == Meant.den
    <3>1. v \in Int /\ m \in Int /\ d \in Nat \ {0} /\ v * d = m * Common
      BY <1>2
    <3> HIDE DEF v, m, d
    <3>2. v # MinValue => Hashed(Finite(v, Common)) = Lowest([num |-> m, den |-> d])
      BY <1>3, <3>1, HashedAsLowest
    <3> QED
      BY <3>2 DEF v, m, d
  <2> HIDE DEF far
  <2> QED
    BY <1>2, <1>4, <2>1, <2>2, <2>3
<1>5. CASE t = Invalid /\ IsWalkOver(caller.steps)
  <2>1. ~IsFinite(t)
    BY <1>5 DEF IsFinite, Invalid, Of
  <2>2. ~Fits(Beginning) \/ ~Fits(Pace) \/ ~Fits(far)
    BY <1>5 DEF IsWalkOver
  <2> HIDE DEF far
  <2> QED
    BY <1>2, <2>1, <2>2
<1> QED
  BY <1>1, <1>3, <1>4, <1>5 DEF WalkOK

\* And for those taken at once.
LEMMA WalkAddsUp ==
  ASSUME Base, WalkOK
  PROVE  StepsAddUp
<1> DEFINE t == caller.time
           n == caller.steps
           step == Setting.step
           far == Times(step, n)
           there == Plus(Setting.first, far)
           back == Plus(t, Negated(far))
           v == Beginning + n * Pace
           w == step.value * n
<1>1. SUFFICES ASSUME n > 0, IsWalk
               PROVE  /\ IsFinite(t) /\ IsFinite(there) => Equal(there, t)
                      /\ IsFinite(back) => Equal(back, Setting.first)
  BY DEF StepsAddUp, IsWalk
<1>2. PICK p \in Nat \ {0}, q \in Nat \ {0} :
        /\ Common = p * Setting.first.scale /\ Common = q * step.scale
        /\ Beginning = Setting.first.value * p /\ Pace = step.value * q
        /\ CommonScale(Common, step.scale) = Common
  BY <1>1, WalkScale DEF Base
<1>3. /\ IsNumber(Setting.first) /\ IsNumber(step) /\ Common \in Nat \ {0} /\ Beginning \in Int /\ Pace \in Int
      /\ n \in Nat \ {0}
  BY <1>1, WalkScale DEF Base, CallerOK
<1>4. w \in Int /\ w * q = n * Pace
  BY <1>2, <1>3 DEF IsNumber
<1>5. far = IF n <= MaxValue /\ Fits(w) THEN Finite(w, step.scale) ELSE Invalid
  <2>1. Rounded(w, 1, "zero") = w
    BY <1>4 DEF Rounded
  <2>2. Rescale(step.value, n, 1, "zero") = IF Fits(w) THEN w ELSE None
    BY <2>1 DEF Rescale
  <2> DEFINE scaled == Rescale(step.value, n, 1, "zero")
  <2> HIDE DEF w, scaled
  <2>3. IsFinite(step) /\ step.kind \notin {"positiveInfinity", "negativeInfinity"}
    BY <1>3 DEF IsNumber, IsFinite
  <2>4. Times(step, n) = IF n <= MaxValue THEN FiniteOrInvalid(scaled, step.scale) ELSE Invalid
    BY <2>3 DEF Times, scaled
  <2> HIDE DEF n
  <2>5. FiniteOrInvalid(scaled, step.scale) = IF Fits(w) THEN Finite(w, step.scale) ELSE Invalid
    BY <1>4, <2>2, TimeAssumption DEF FiniteOrInvalid, scaled
  <2> QED
    BY <2>4, <2>5
<1>6. t = Finite(v, Common) \/ t = Invalid
  BY <1>1, <1>3 DEF WalkOK
<1>7. v \in Int
  BY <1>3
<1>8. IsFinite(there) => there = Finite(v, Common)
  <2>1. CASE far = Invalid
    BY <2>1 DEF Plus, Invalid, Of, IsFinite
  <2>2. CASE far = Finite(w, step.scale)
    <3>1. IsNumber(far) /\ far.value = w /\ far.scale = step.scale
      BY <1>3, <1>4, <2>2 DEF Finite, IsNumber, IsFinite
    <3> HIDE DEF far, w
    <3>2. there = IF Fits(Setting.first.value * p) /\ Fits(far.value * q) /\ Fits(Setting.first.value * p + far.value * q)
                  THEN Finite(Setting.first.value * p + far.value * q, CommonScale(Setting.first.scale, far.scale))
                  ELSE Invalid
      BY <1>2, <1>3, <3>1, SumIsExact DEF Common
    <3>3. Setting.first.value * p + far.value * q = v
      BY <1>2, <1>4, <3>1
    <3> HIDE DEF there, v
    <3> QED
      BY <3>1, <3>2, <3>3 DEF Common, Invalid, Of, IsFinite
  <2> QED
    BY <1>5, <2>1, <2>2
<1>9. IsFinite(back) => back = Finite(Beginning, Common)
  <2>1. CASE t = Invalid
    BY <2>1 DEF Plus, Invalid, Of, IsFinite
  <2>2. CASE Negated(far) = Invalid
    BY <2>2 DEF Plus, Invalid, Of, IsFinite
  <2>3. CASE t = Finite(v, Common) /\ Negated(far) = Finite(-w, step.scale)
    <3> DEFINE less == Negated(far)
    <3>1. IsNumber(less) /\ less.value = -w /\ less.scale = step.scale
      BY <1>3, <1>4, <2>3 DEF Finite, IsNumber, IsFinite
    <3>2. IsNumber(t) /\ t.value = v /\ t.scale = Common
      BY <1>3, <1>7, <2>3 DEF Finite, IsNumber, IsFinite
    <3> HIDE DEF less, t, w, v
    <3>3. CommonScale(t.scale, less.scale) = 1 * t.scale /\ CommonScale(t.scale, less.scale) = q * less.scale
      BY <1>2, <1>3, <3>1, <3>2
    <3>4. Plus(t, less) = IF Fits(t.value * 1) /\ Fits(less.value * q) /\ Fits(t.value * 1 + less.value * q)
                          THEN Finite(t.value * 1 + less.value * q, CommonScale(t.scale, less.scale)) ELSE Invalid
      BY <1>2, <3>1, <3>2, <3>3, SumIsExact
    <3>5. t.value * 1 + less.value * q = Beginning
      <4>1. (-w) * q = -(n * Pace)
        BY <1>2, <1>4
      <4>2. v - n * Pace = Beginning /\ n * Pace \in Int
        BY <1>3 DEF v
      <4> QED
        BY <1>7, <3>1, <3>2, <4>1, <4>2
    <3>6. CommonScale(t.scale, less.scale) = Common
      BY <1>2, <3>1, <3>2
    <3>7. Plus(t, less) = Finite(Beginning, Common) \/ Plus(t, less) = Invalid
      BY <3>4, <3>5, <3>6
    <3> QED
      BY <3>7 DEF less, Invalid, Of, IsFinite
  <2>4. Negated(far) = Invalid \/ Negated(far) = Finite(-w, step.scale)
    <3> HIDE DEF n, w
    <3> QED
      BY <1>3, <1>5 DEF Negated, Finite, IsNumber, Invalid, Of
  <2> QED
    BY <1>6, <2>1, <2>2, <2>3, <2>4
<1>10. Equal(Finite(v, Common), Finite(v, Common))
  <2> HIDE DEF v
  <2>1. v * Common \in Int
    BY <1>3, <1>7
  <2> QED
    BY <1>3, <2>1 DEF Equal, Less, Finite, IsFinite, Rank
<1>11. Equal(Finite(Beginning, Common), Setting.first)
  <2> DEFINE f == Setting.first
  <2>1. f.kind = "finite" /\ f.value \in Int /\ f.scale \in Nat \ {0}
    BY <1>3 DEF IsNumber, IsFinite
  <2>2. Beginning * f.scale = f.value * Common
    BY <1>2, <2>1
  <2>3. Beginning * f.scale \in Int
    BY <1>3, <2>1
  <2> HIDE DEF f
  <2>4. Equal(Finite(Beginning, Common), f)
    BY <1>3, <2>1, <2>2, <2>3 DEF Equal, Less, Finite, IsFinite, Rank
  <2> QED
    BY <2>4 DEF f
<1>12. ~IsFinite(Invalid)
  BY DEF IsFinite, Invalid, Of
<1> HIDE DEF t, there, back, v
<1> QED
  BY <1>6, <1>8, <1>9, <1>10, <1>11, <1>12

\* The tick of an image is that of the time it reports.
LEMMA TimeResolvesToItsTick ==
  ASSUME Base, ReplyOK
  PROVE  ImagesAreFoundAgain
<1> DEFINE n == reply.ts - Stream.start
           base == Stream.base
           time == FromTimestamp(n, base)
           again == ResolveTime(reply.time, Exact, Stream, FALSE)
<1>1. SUFFICES ASSUME IsImage, reply.ts >= Stream.start, ~IsPastDuration(n, Stream),
                      Fits(n * base.num), n < MaxValue
               PROVE  again.status = "ok" /\ again.target = reply.ts /\ ~again.clamped
  BY DEF ImagesAreFoundAgain, IsImage
<1>2. /\ IsSource(Stream) /\ Stream.start \in Int /\ IsTimeBase(base)
      /\ base.num \in Nat \ {0} /\ base.den \in Nat \ {0}
  BY SettingsAssumption DEF Base, GeneratorOK, Stream, IsSource, IsTimeBase
<1>3. reply.ts \in Int /\ Fits(reply.ts) /\ reply.time = ActualTime(reply.ts, Stream)
  BY <1>1 DEF ReplyOK
<1>4. n \in Nat /\ Fits(n) /\ n # MinValue /\ Stream.start + n = reply.ts
  BY <1>1, <1>2, <1>3, TimeAssumption DEF Fits, MinValue
<1> DEFINE value == n * base.num
<1>5. value \in Nat /\ value \in Int /\ Fits(value)
  BY <1>1, <1>2, <1>4
<1> HIDE DEF n, value, base
<1>6. time = Finite(value, base.den)
  <2>1. Rounded(value, 1, "nearest") = value
    <3>1. Rounded(value * 1, 1, "nearest") = value
      BY <1>5, ExactIsNotRounded
    <3> QED
      BY <1>5, <3>1
  <2>2. Rescale(n, base.num, 1, "nearest") = value
    BY <1>5, <2>1 DEF Rescale, value
  <2> QED
    BY <1>2, <1>4, <1>5, <2>2, TimeAssumption DEF FromTimestamp, FiniteOrInvalid
<1>7. IsFinite(time) /\ time.value = value /\ time # Invalid
  BY <1>2, <1>6 DEF IsFinite, Finite, Invalid, Of
<1>8. ToTimestamp(time, base, "nearest") = n
  BY <1>2, <1>4, <1>7, TicksComeBack
<1> HIDE DEF time
<1>9. reply.time = time
  BY <1>1, <1>2, <1>3, <1>7 DEF ActualTime, time, n, base
<1>10. again = Window(Stream.start + n, Exact, Stream, FALSE)
  <2>1. ~(~IsFinite(time) \/ time.value < 0)
    BY <1>5, <1>7
  <2>2. ~(n = MaxValue \/ ~Fits(Stream.start + n))
    BY <1>1, <1>3, <1>4, TimeAssumption
  <2>3. ToTimestamp(reply.time, Stream.base, "nearest") = n
    BY <1>8, <1>9 DEF base
  <2> QED
    BY <1>1, <1>9, <2>1, <2>2, <2>3 DEF ResolveTime
<1>11. again.status = "ok" /\ again.target = Stream.start + n /\ ~again.clamped
  <2>1. \A target, t, s : /\ Window(target, t, s, FALSE).status = "ok"
                          /\ Window(target, t, s, FALSE).target = target
                          /\ ~Window(target, t, s, FALSE).clamped
    BY DEF Window
  <2> HIDE DEF again
  <2> QED
    BY <1>10, <2>1
<1> QED
  BY <1>4, <1>11

\* A reply with an image has the time of its tick.
LEMMA RepliesKeepTheirTime ==
  ASSUME Base, ReplyOK, [Next]_vars
  PROVE  ReplyOK'
<1>1. Stream' = Stream
  BY SettingKept DEF Base, Stream
<1>2. \A ts : ActualTime(ts, Stream)' = ActualTime(ts, Stream)
  BY <1>1 DEF ActualTime
<1>3. CASE reply' = reply
  BY <1>2, <1>3 DEF ReplyOK, IsImage
<1>4. ASSUME NEW scaled, Proceed(scaled), ~At("idle") PROVE ReplyOK'
  <2>1. reply'.ts = request.ts /\ reply'.time = ActualTime(request.ts, Stream)
    BY <1>4 DEF Proceed, Stream
  <2>2. request.ts \in MinValue..MaxValue /\ MaxValue \in Int /\ MinValue \in Int
    BY <1>4, SettingsAssumption, TimeAssumption DEF Base, UnderWay, GeneratorOK, MinValue
  <2>3. request.ts \in Int /\ Fits(request.ts)
    BY <2>2 DEF Fits
  <2> QED
    BY <1>2, <2>1, <2>3 DEF ReplyOK
<1>5. CASE TakePooledFrame \/ ScaleFrame
  BY <1>4, <1>5 DEF TakePooledFrame, ScaleFrame, PoolStages, At
<1>6. CASE Refuse \/ Reattach \/ Ask \/ PooledFrameFails \/ ScaleFails
  <2>1. \A t, r : ResolveTime(r, t, Setting.stream, Setting.clamps).status
                    \in {"ok", "invalidArgument", "timeOutOfRange"}
    BY DEF ResolveTime, Refused, Window
  <2>2. reply'.status # "image"
    BY <1>6, <2>1 DEF Refuse, Reattach, Ask, PooledFrameFails, ScaleFails, Fail, NoReply
  <2> QED
    BY <2>2 DEF ReplyOK, IsImage
<1>7. CASE Open \/ Rest \/ Step \/ UNCHANGED vars
  BY <1>3, <1>7 DEF Open, Rest, Step, vars
<1> QED
  BY <1>5, <1>6, <1>7 DEF Next

\* stills_Time.h, operator+, operator*, hash(), fromTimestamp() and toTimestamp(): a caller who
\* steps along the timeline is where it means to be or is told that it is nowhere, however
\* far it steps, and the time of an image is the time to ask for it by.
THEOREM WalksAreExact ==
  Spec => []TimesAreExact
<1> DEFINE Inv == WalkOK /\ ReplyOK
<1>1. Init => Inv
  BY DEF Init, WalkOK, ReplyOK, IsImage, NoReply, Setting
<1>2. Base /\ Inv /\ [Next]_vars => Inv'
  <2>1. SUFFICES ASSUME Base, Inv, [Next]_vars PROVE WalkOK'
    BY RepliesKeepTheirTime
  <2>2. CASE Step
    BY <2>1, <2>2, WalkGoesOn
  <2>3. CASE ~Step
    <3>1. caller' = caller
      BY <2>1, <2>3 DEF Next, vars, Open, Rest, Refuse, Ask, TakePooledFrame, PooledFrameFails,
                        ScaleFrame, ScaleFails, Reattach, Proceed, Fail
    <3>2. Setting' = Setting
      BY <2>1, SettingKept DEF Base
    <3>3. Common' = Common /\ Beginning' = Beginning /\ Pace' = Pace /\ (IsWalk' <=> IsWalk)
      BY <3>2 DEF Common, Beginning, Pace, IsWalk, IsExactScale
    <3>4. \A n : IsWalkOver(n)' <=> IsWalkOver(n)
      BY <3>3 DEF IsWalkOver
    <3> QED
      BY <2>1, <3>1, <3>2, <3>3, <3>4 DEF WalkOK
  <2> QED
    BY <2>2, <2>3
<1>3. Base /\ Inv => TimesAreExact
  BY WalkDoesNotDrift, WalkAddsUp, TimeResolvesToItsTick DEF TimesAreExact
<1> QED
  BY <1>1, <1>2, <1>3, BaseHolds, PTL DEF Spec

-----------------------------------------------------------------------------
(* Standing upright.                                                       *)

\* There are eight of them.
LEMMA MatricesAre ==
  ASSUME NEW m \in Matrices
  PROVE  m \in {<<1, 0, 0, 1>>, <<1, 0, 0, -1>>, <<-1, 0, 0, 1>>, <<-1, 0, 0, -1>>,
                <<0, 1, 1, 0>>, <<0, 1, -1, 0>>, <<0, -1, 1, 0>>, <<0, -1, -1, 0>>}
<1>1. /\ m \in (-1..1) \X (-1..1) \X (-1..1) \X (-1..1)
      /\ m[1] * m[4] - m[2] * m[3] \in {-1, 1} /\ m[1] * m[2] = 0 /\ m[3] * m[4] = 0
  BY DEF Matrices
<1>2. PICK a \in -1..1, b \in -1..1, c \in -1..1, d \in -1..1 : m = <<a, b, c, d>>
  BY <1>1
<1>3. a * d - b * c \in {-1, 1} /\ a * b = 0 /\ c * d = 0
  BY <1>1, <1>2
<1>4. a \in {-1, 0, 1} /\ b \in {-1, 0, 1} /\ c \in {-1, 0, 1} /\ d \in {-1, 0, 1}
  OBVIOUS
<1>5. \/ a = 0 /\ d = 0 /\ b # 0 /\ c # 0
      \/ b = 0 /\ c = 0 /\ a # 0 /\ d # 0
  BY <1>3, <1>4
<1> QED
  BY <1>2, <1>4, <1>5

\* The smallest of some numbers is the one that is no larger than any.
LEMMA LeastEnd ==
  ASSUME NEW S, NEW n \in Int, n \in S, \A x \in S : x \in Int /\ n <= x
  PROVE  Min(S) = n
<1> DEFINE Least(x) == x \in S /\ \A y \in S : x <= y
<1>1. Least(n)
  OBVIOUS
<1>2. \A x : Least(x) => x = n
  OBVIOUS
<1>3. Min(S) = CHOOSE x : Least(x)
  BY DEF Min
<1> HIDE DEF Least
<1> QED
  BY <1>1, <1>2, <1>3

LEMMA Negated0 ==
  ASSUME NEW n \in Int
  PROVE  -n = 0 - n
OBVIOUS

\* What a matrix makes of a cell, before the plane is moved to where it starts.
Across(m, i, j) == i * m[1] + j * m[3]
Down(m, i, j) == i * m[2] + j * m[4]
IsTopLeft(m, w, h, i, j) ==
  /\ i \in {0, w} /\ j \in {0, h}
  /\ \A k \in {0, w}, l \in {0, h} :
       /\ Across(m, k, l) \in Int /\ Across(m, i, j) <= Across(m, k, l)
       /\ Down(m, k, l) \in Int /\ Down(m, i, j) <= Down(m, k, l)

\* Where a matrix puts a cell, given the corner that comes out at the top left.
LEMMA DisplayedFrom ==
  ASSUME NEW m, NEW size, NEW x, NEW y, NEW i, NEW j,
         IsTopLeft(m, size.width - 1, size.height - 1, i, j)
  PROVE  Displayed(m, size, x, y)
           = <<Across(m, x, y) - Across(m, i, j), Down(m, x, y) - Down(m, i, j)>>
<1> DEFINE w == size.width - 1
           h == size.height - 1
           at(k, l) == <<Across(m, k, l), Down(m, k, l)>>
           corners == {at(k, l) : k \in {0, w}, l \in {0, h}}
           lefts == {corner[1] : corner \in corners}
           tops == {corner[2] : corner \in corners}
<1>1. Displayed(m, size, x, y) = <<at(x, y)[1] - Min(lefts), at(x, y)[2] - Min(tops)>>
  BY SMT DEF Displayed, Across, Down
<1>2. \A k, l : at(k, l)[1] = Across(m, k, l) /\ at(k, l)[2] = Down(m, k, l)
  OBVIOUS
<1> HIDE DEF at, w, h
<1>3. /\ i \in {0, w} /\ j \in {0, h}
      /\ \A k \in {0, w}, l \in {0, h} :
           /\ Across(m, k, l) \in Int /\ Across(m, i, j) <= Across(m, k, l)
           /\ Down(m, k, l) \in Int /\ Down(m, i, j) <= Down(m, k, l)
  BY DEF IsTopLeft, w, h
<1>4. at(i, j) \in corners
  BY <1>3
<1>5. \A corner \in corners : \E k \in {0, w}, l \in {0, h} : corner = at(k, l)
  OBVIOUS
<1> HIDE DEF corners
<1>6. Across(m, i, j) \in lefts /\ \A n \in lefts : n \in Int /\ Across(m, i, j) <= n
  BY <1>2, <1>3, <1>4, <1>5
<1>7. Down(m, i, j) \in tops /\ \A n \in tops : n \in Int /\ Down(m, i, j) <= n
  BY <1>2, <1>3, <1>4, <1>5
<1>8. Across(m, i, j) \in Int /\ Down(m, i, j) \in Int
  BY <1>3
<1> HIDE DEF lefts, tops
<1>9. Min(lefts) = Across(m, i, j) /\ Min(tops) = Down(m, i, j)
  BY <1>6, <1>7, <1>8, LeastEnd
<1> QED
  BY <1>1, <1>2, <1>9

\* Unary minus, for the numbers it is met with below.
LEMMA Negative ==
  ASSUME NEW n \in Int
  PROVE  -n = 0 - n
OBVIOUS

\* detail/MediaSource.h, decodeDisplayMatrix(), with detail/Transform.h: the rotation
\* and the mirror that a display matrix is taken apart into put every cell of a plane
\* where the matrix puts it.
THEOREM TurnFollowsTheMatrix ==
  ASSUME NEW m \in Matrices, NEW size, size.width \in Nat \ {0}, size.height \in Nat \ {0},
         NEW x \in 0..(size.width - 1), NEW y \in 0..(size.height - 1)
  PROVE  LET t == DecodeDisplayMatrix(m)
         IN /\ Destination(t.rotation, t.mirrored, size.width, size.height, x, y) = Displayed(m, size, x, y)
            /\ t.rotation \in Rotations /\ t.mirrored \in BOOLEAN
<1> DEFINE w == size.width - 1
           h == size.height - 1
           cell(degrees, mirror) == Destination(degrees, mirror, size.width, size.height, x, y)
           t == DecodeDisplayMatrix(m)
           Follows == /\ cell(t.rotation, t.mirrored) = Displayed(m, size, x, y)
                      /\ t.rotation \in Rotations /\ t.mirrored \in BOOLEAN
<1>0. x \in Int /\ y \in Int /\ w \in Nat /\ h \in Nat
  OBVIOUS
<1>1. /\ cell(0, FALSE) = <<x, y>> /\ cell(0, TRUE) = <<w - x, y>>
      /\ cell(90, FALSE) = <<h - y, x>> /\ cell(90, TRUE) = <<y, x>>
      /\ cell(180, FALSE) = <<w - x, h - y>> /\ cell(180, TRUE) = <<x, h - y>>
      /\ cell(270, FALSE) = <<y, w - x>> /\ cell(270, TRUE) = <<h - y, w - x>>
  <2>1. /\ cell(0, FALSE) = <<x, y>> /\ cell(90, FALSE) = <<h - y, x>>
        /\ cell(180, FALSE) = <<w - x, h - y>> /\ cell(270, FALSE) = <<y, w - x>>
    BY <1>0 DEF Destination, RowMap
  <2>2. cell(0, TRUE) = <<w - x, y>>
    BY <1>0 DEF Destination, RowMap
  <2>3. cell(90, TRUE) = <<y, x>>
    BY <1>0 DEF Destination, RowMap
  <2>4. cell(180, TRUE) = <<x, h - y>>
    BY <1>0 DEF Destination, RowMap
  <2>5. cell(270, TRUE) = <<h - y, w - x>>
    BY <1>0 DEF Destination, RowMap
  <2> QED
    BY <2>1, <2>2, <2>3, <2>4, <2>5
<1> SUFFICES Follows
  BY Zenon
<1> HIDE DEF cell, t
<1>3. CASE m = <<1, 0, 0, 1>>
  <2>1. m[1] = 1 /\ m[2] = 0 /\ m[3] = 0 /\ m[4] = 1
    BY <1>3
  <2>2. \A k, l \in Int : Across(m, k, l) = k /\ Down(m, k, l) = l
    BY <2>1 DEF Across, Down
  <2>3. Displayed(m, size, x, y) = <<x, y>>
    <3>1. IsTopLeft(m, w, h, 0, 0)
      BY <1>0, <2>2 DEF IsTopLeft
    <3>2. Displayed(m, size, x, y) = <<Across(m, x, y) - Across(m, 0, 0), Down(m, x, y) - Down(m, 0, 0)>>
      BY <3>1, DisplayedFrom
    <3>3. Across(m, x, y) - Across(m, 0, 0) = x /\ Down(m, x, y) - Down(m, 0, 0) = y
      BY <1>0, <2>2
    <3> QED
      BY <3>2, <3>3
  <2>4. t = [rotation |-> 0, mirrored |-> FALSE]
    <3> DEFINE reflects == m[1] * m[4] - m[2] * m[3] < 0
    <3>1. reflects = FALSE
      BY <2>1
    <3>2. t = [rotation |-> Clockwise(IF reflects THEN -m[1] ELSE m[1], m[2]), mirrored |-> reflects]
      BY DEF DecodeDisplayMatrix, t
    <3>3. (IF reflects THEN -m[1] ELSE m[1]) = 1
      <4>1. (IF reflects THEN -m[1] ELSE m[1]) = m[1]
        BY <3>1, Zenon
      <4>2. m[1] = 1
        BY <2>1
      <4> QED
        BY <4>1, <4>2, Zenon
    <3>4. Clockwise(1, 0) = 0
      BY DEF Clockwise
    <3> QED
      BY <2>1, <3>1, <3>2, <3>3, <3>4, Zenon
  <2>5. t.rotation = 0 /\ t.mirrored = FALSE
    BY <2>4
  <2>6. cell(t.rotation, t.mirrored) = cell(0, FALSE)
    BY <2>5, Zenon
  <2> QED
    BY <1>1, <2>3, <2>5, <2>6 DEF Rotations
<1>4. CASE m = <<1, 0, 0, -1>>
  <2>1. m[1] = 1 /\ m[2] = 0 /\ m[3] = 0 /\ m[4] = -1
    BY <1>4
  <2>2. \A k, l \in Int : Across(m, k, l) = k /\ Down(m, k, l) = -l
    BY <2>1 DEF Across, Down
  <2>3. Displayed(m, size, x, y) = <<x, h - y>>
    <3>1. IsTopLeft(m, w, h, 0, h)
      BY <1>0, <2>2 DEF IsTopLeft
    <3>2. Displayed(m, size, x, y) = <<Across(m, x, y) - Across(m, 0, h), Down(m, x, y) - Down(m, 0, h)>>
      BY <3>1, DisplayedFrom
    <3>3. Across(m, x, y) - Across(m, 0, h) = x /\ Down(m, x, y) - Down(m, 0, h) = h - y
      BY <1>0, <2>2
    <3> QED
      BY <3>2, <3>3
  <2>4. t = [rotation |-> 180, mirrored |-> TRUE]
    <3> DEFINE reflects == m[1] * m[4] - m[2] * m[3] < 0
    <3>1. reflects = TRUE
      BY <2>1
    <3>2. t = [rotation |-> Clockwise(IF reflects THEN -m[1] ELSE m[1], m[2]), mirrored |-> reflects]
      BY DEF DecodeDisplayMatrix, t
    <3>3. (IF reflects THEN -m[1] ELSE m[1]) = -1
      <4>1. (IF reflects THEN -m[1] ELSE m[1]) = -m[1]
        BY <3>1, Zenon
      <4>2. -m[1] = -1
        BY <2>1
      <4> QED
        BY <4>1, <4>2, Zenon
    <3>4. Clockwise(-1, 0) = 180
      BY DEF Clockwise
    <3> QED
      BY <2>1, <3>1, <3>2, <3>3, <3>4, Zenon
  <2>5. t.rotation = 180 /\ t.mirrored = TRUE
    BY <2>4
  <2>6. cell(t.rotation, t.mirrored) = cell(180, TRUE)
    BY <2>5, Zenon
  <2> QED
    BY <1>1, <2>3, <2>5, <2>6 DEF Rotations
<1>5. CASE m = <<-1, 0, 0, 1>>
  <2>1. m[1] = -1 /\ m[2] = 0 /\ m[3] = 0 /\ m[4] = 1
    BY <1>5
  <2>2. \A k, l \in Int : Across(m, k, l) = -k /\ Down(m, k, l) = l
    BY <2>1 DEF Across, Down
  <2>3. Displayed(m, size, x, y) = <<w - x, y>>
    <3>1. IsTopLeft(m, w, h, w, 0)
      BY <1>0, <2>2 DEF IsTopLeft
    <3>2. Displayed(m, size, x, y) = <<Across(m, x, y) - Across(m, w, 0), Down(m, x, y) - Down(m, w, 0)>>
      BY <3>1, DisplayedFrom
    <3>3. Across(m, x, y) - Across(m, w, 0) = w - x /\ Down(m, x, y) - Down(m, w, 0) = y
      BY <1>0, <2>2
    <3> QED
      BY <3>2, <3>3
  <2>4. t = [rotation |-> 0, mirrored |-> TRUE]
    <3> DEFINE reflects == m[1] * m[4] - m[2] * m[3] < 0
    <3>1. reflects = TRUE
      BY <2>1
    <3>2. t = [rotation |-> Clockwise(IF reflects THEN -m[1] ELSE m[1], m[2]), mirrored |-> reflects]
      BY DEF DecodeDisplayMatrix, t
    <3>3. (IF reflects THEN -m[1] ELSE m[1]) = 1
      <4>1. (IF reflects THEN -m[1] ELSE m[1]) = -m[1]
        BY <3>1, Zenon
      <4>2. -m[1] = 1
        <5>1. m[1] \in Int
          BY <2>1
        <5>2. -m[1] = 0 - m[1]
          BY <5>1, Negative
        <5> QED
          BY <2>1, <5>2
      <4> QED
        BY <4>1, <4>2, Zenon
    <3>4. Clockwise(1, 0) = 0
      BY DEF Clockwise
    <3> QED
      BY <2>1, <3>1, <3>2, <3>3, <3>4, Zenon
  <2>5. t.rotation = 0 /\ t.mirrored = TRUE
    BY <2>4
  <2>6. cell(t.rotation, t.mirrored) = cell(0, TRUE)
    BY <2>5, Zenon
  <2> QED
    BY <1>1, <2>3, <2>5, <2>6 DEF Rotations
<1>6. CASE m = <<-1, 0, 0, -1>>
  <2>1. m[1] = -1 /\ m[2] = 0 /\ m[3] = 0 /\ m[4] = -1
    BY <1>6
  <2>2. \A k, l \in Int : Across(m, k, l) = -k /\ Down(m, k, l) = -l
    BY <2>1 DEF Across, Down
  <2>3. Displayed(m, size, x, y) = <<w - x, h - y>>
    <3>1. IsTopLeft(m, w, h, w, h)
      BY <1>0, <2>2 DEF IsTopLeft
    <3>2. Displayed(m, size, x, y) = <<Across(m, x, y) - Across(m, w, h), Down(m, x, y) - Down(m, w, h)>>
      BY <3>1, DisplayedFrom
    <3>3. Across(m, x, y) - Across(m, w, h) = w - x /\ Down(m, x, y) - Down(m, w, h) = h - y
      BY <1>0, <2>2
    <3> QED
      BY <3>2, <3>3
  <2>4. t = [rotation |-> 180, mirrored |-> FALSE]
    <3> DEFINE reflects == m[1] * m[4] - m[2] * m[3] < 0
    <3>1. reflects = FALSE
      BY <2>1
    <3>2. t = [rotation |-> Clockwise(IF reflects THEN -m[1] ELSE m[1], m[2]), mirrored |-> reflects]
      BY DEF DecodeDisplayMatrix, t
    <3>3. (IF reflects THEN -m[1] ELSE m[1]) = -1
      <4>1. (IF reflects THEN -m[1] ELSE m[1]) = m[1]
        BY <3>1, Zenon
      <4>2. m[1] = -1
        BY <2>1
      <4> QED
        BY <4>1, <4>2, Zenon
    <3>4. Clockwise(-1, 0) = 180
      BY DEF Clockwise
    <3> QED
      BY <2>1, <3>1, <3>2, <3>3, <3>4, Zenon
  <2>5. t.rotation = 180 /\ t.mirrored = FALSE
    BY <2>4
  <2>6. cell(t.rotation, t.mirrored) = cell(180, FALSE)
    BY <2>5, Zenon
  <2> QED
    BY <1>1, <2>3, <2>5, <2>6 DEF Rotations
<1>7. CASE m = <<0, 1, 1, 0>>
  <2>1. m[1] = 0 /\ m[2] = 1 /\ m[3] = 1 /\ m[4] = 0
    BY <1>7
  <2>2. \A k, l \in Int : Across(m, k, l) = l /\ Down(m, k, l) = k
    BY <2>1 DEF Across, Down
  <2>3. Displayed(m, size, x, y) = <<y, x>>
    <3>1. IsTopLeft(m, w, h, 0, 0)
      BY <1>0, <2>2 DEF IsTopLeft
    <3>2. Displayed(m, size, x, y) = <<Across(m, x, y) - Across(m, 0, 0), Down(m, x, y) - Down(m, 0, 0)>>
      BY <3>1, DisplayedFrom
    <3>3. Across(m, x, y) - Across(m, 0, 0) = y /\ Down(m, x, y) - Down(m, 0, 0) = x
      BY <1>0, <2>2
    <3> QED
      BY <3>2, <3>3
  <2>4. t = [rotation |-> 90, mirrored |-> TRUE]
    <3> DEFINE reflects == m[1] * m[4] - m[2] * m[3] < 0
    <3>1. reflects = TRUE
      BY <2>1
    <3>2. t = [rotation |-> Clockwise(IF reflects THEN -m[1] ELSE m[1], m[2]), mirrored |-> reflects]
      BY DEF DecodeDisplayMatrix, t
    <3>3. (IF reflects THEN -m[1] ELSE m[1]) = 0
      <4>1. (IF reflects THEN -m[1] ELSE m[1]) = -m[1]
        BY <3>1, Zenon
      <4>2. -m[1] = 0
        <5>1. m[1] \in Int
          BY <2>1
        <5>2. -m[1] = 0 - m[1]
          BY <5>1, Negative
        <5> QED
          BY <2>1, <5>2
      <4> QED
        BY <4>1, <4>2, Zenon
    <3>4. Clockwise(0, 1) = 90
      BY DEF Clockwise
    <3> QED
      BY <2>1, <3>1, <3>2, <3>3, <3>4, Zenon
  <2>5. t.rotation = 90 /\ t.mirrored = TRUE
    BY <2>4
  <2>6. cell(t.rotation, t.mirrored) = cell(90, TRUE)
    BY <2>5, Zenon
  <2> QED
    BY <1>1, <2>3, <2>5, <2>6 DEF Rotations
<1>8. CASE m = <<0, 1, -1, 0>>
  <2>1. m[1] = 0 /\ m[2] = 1 /\ m[3] = -1 /\ m[4] = 0
    BY <1>8
  <2>2. \A k, l \in Int : Across(m, k, l) = -l /\ Down(m, k, l) = k
    BY <2>1 DEF Across, Down
  <2>3. Displayed(m, size, x, y) = <<h - y, x>>
    <3>1. IsTopLeft(m, w, h, 0, h)
      BY <1>0, <2>2 DEF IsTopLeft
    <3>2. Displayed(m, size, x, y) = <<Across(m, x, y) - Across(m, 0, h), Down(m, x, y) - Down(m, 0, h)>>
      BY <3>1, DisplayedFrom
    <3>3. Across(m, x, y) - Across(m, 0, h) = h - y /\ Down(m, x, y) - Down(m, 0, h) = x
      BY <1>0, <2>2
    <3> QED
      BY <3>2, <3>3
  <2>4. t = [rotation |-> 90, mirrored |-> FALSE]
    <3> DEFINE reflects == m[1] * m[4] - m[2] * m[3] < 0
    <3>1. reflects = FALSE
      BY <2>1
    <3>2. t = [rotation |-> Clockwise(IF reflects THEN -m[1] ELSE m[1], m[2]), mirrored |-> reflects]
      BY DEF DecodeDisplayMatrix, t
    <3>3. (IF reflects THEN -m[1] ELSE m[1]) = 0
      <4>1. (IF reflects THEN -m[1] ELSE m[1]) = m[1]
        BY <3>1, Zenon
      <4>2. m[1] = 0
        BY <2>1
      <4> QED
        BY <4>1, <4>2, Zenon
    <3>4. Clockwise(0, 1) = 90
      BY DEF Clockwise
    <3> QED
      BY <2>1, <3>1, <3>2, <3>3, <3>4, Zenon
  <2>5. t.rotation = 90 /\ t.mirrored = FALSE
    BY <2>4
  <2>6. cell(t.rotation, t.mirrored) = cell(90, FALSE)
    BY <2>5, Zenon
  <2> QED
    BY <1>1, <2>3, <2>5, <2>6 DEF Rotations
<1>9. CASE m = <<0, -1, 1, 0>>
  <2>1. m[1] = 0 /\ m[2] = -1 /\ m[3] = 1 /\ m[4] = 0
    BY <1>9
  <2>2. \A k, l \in Int : Across(m, k, l) = l /\ Down(m, k, l) = -k
    BY <2>1 DEF Across, Down
  <2>3. Displayed(m, size, x, y) = <<y, w - x>>
    <3>1. IsTopLeft(m, w, h, w, 0)
      BY <1>0, <2>2 DEF IsTopLeft
    <3>2. Displayed(m, size, x, y) = <<Across(m, x, y) - Across(m, w, 0), Down(m, x, y) - Down(m, w, 0)>>
      BY <3>1, DisplayedFrom
    <3>3. Across(m, x, y) - Across(m, w, 0) = y /\ Down(m, x, y) - Down(m, w, 0) = w - x
      BY <1>0, <2>2
    <3> QED
      BY <3>2, <3>3
  <2>4. t = [rotation |-> 270, mirrored |-> FALSE]
    <3> DEFINE reflects == m[1] * m[4] - m[2] * m[3] < 0
    <3>1. reflects = FALSE
      BY <2>1
    <3>2. t = [rotation |-> Clockwise(IF reflects THEN -m[1] ELSE m[1], m[2]), mirrored |-> reflects]
      BY DEF DecodeDisplayMatrix, t
    <3>3. (IF reflects THEN -m[1] ELSE m[1]) = 0
      <4>1. (IF reflects THEN -m[1] ELSE m[1]) = m[1]
        BY <3>1, Zenon
      <4>2. m[1] = 0
        BY <2>1
      <4> QED
        BY <4>1, <4>2, Zenon
    <3>4. Clockwise(0, -1) = 270
      BY DEF Clockwise
    <3> QED
      BY <2>1, <3>1, <3>2, <3>3, <3>4, Zenon
  <2>5. t.rotation = 270 /\ t.mirrored = FALSE
    BY <2>4
  <2>6. cell(t.rotation, t.mirrored) = cell(270, FALSE)
    BY <2>5, Zenon
  <2> QED
    BY <1>1, <2>3, <2>5, <2>6 DEF Rotations
<1>10. CASE m = <<0, -1, -1, 0>>
  <2>1. m[1] = 0 /\ m[2] = -1 /\ m[3] = -1 /\ m[4] = 0
    BY <1>10
  <2>2. \A k, l \in Int : Across(m, k, l) = -l /\ Down(m, k, l) = -k
    BY <2>1 DEF Across, Down
  <2>3. Displayed(m, size, x, y) = <<h - y, w - x>>
    <3>1. IsTopLeft(m, w, h, w, h)
      BY <1>0, <2>2 DEF IsTopLeft
    <3>2. Displayed(m, size, x, y) = <<Across(m, x, y) - Across(m, w, h), Down(m, x, y) - Down(m, w, h)>>
      BY <3>1, DisplayedFrom
    <3>3. Across(m, x, y) - Across(m, w, h) = h - y /\ Down(m, x, y) - Down(m, w, h) = w - x
      BY <1>0, <2>2
    <3> QED
      BY <3>2, <3>3
  <2>4. t = [rotation |-> 270, mirrored |-> TRUE]
    <3> DEFINE reflects == m[1] * m[4] - m[2] * m[3] < 0
    <3>1. reflects = TRUE
      BY <2>1
    <3>2. t = [rotation |-> Clockwise(IF reflects THEN -m[1] ELSE m[1], m[2]), mirrored |-> reflects]
      BY DEF DecodeDisplayMatrix, t
    <3>3. (IF reflects THEN -m[1] ELSE m[1]) = 0
      <4>1. (IF reflects THEN -m[1] ELSE m[1]) = -m[1]
        BY <3>1, Zenon
      <4>2. -m[1] = 0
        <5>1. m[1] \in Int
          BY <2>1
        <5>2. -m[1] = 0 - m[1]
          BY <5>1, Negative
        <5> QED
          BY <2>1, <5>2
      <4> QED
        BY <4>1, <4>2, Zenon
    <3>4. Clockwise(0, -1) = 270
      BY DEF Clockwise
    <3> QED
      BY <2>1, <3>1, <3>2, <3>3, <3>4, Zenon
  <2>5. t.rotation = 270 /\ t.mirrored = TRUE
    BY <2>4
  <2>6. cell(t.rotation, t.mirrored) = cell(270, TRUE)
    BY <2>5, Zenon
  <2> QED
    BY <1>1, <2>3, <2>5, <2>6 DEF Rotations
<1> QED
  BY <1>3, <1>4, <1>5, <1>6, <1>7, <1>8, <1>9, <1>10, MatricesAre

-----------------------------------------------------------------------------
(* Pictures.                                                               *)

\* The transform that a generator applies is that of the matrix pictures are displayed by.
LEMMA TransformFollows ==
  ASSUME Setting \in Settings
  PROVE  LET m == IF Setting.upright THEN Setting.matrix ELSE <<1, 0, 0, 1>>
         IN m \in Matrices /\ Transform(Setting) = DecodeDisplayMatrix(m)
<1>1. CASE Setting.upright
  BY <1>1, SettingsAssumption DEF Transform
<1>2. CASE ~Setting.upright
  <2> DEFINE m == <<1, 0, 0, 1>>
  <2>1. m[1] = 1 /\ m[2] = 0 /\ m[3] = 0 /\ m[4] = 1
    OBVIOUS
  <2>2. m \in Matrices
    BY DEF Matrices
  <2> HIDE DEF m
  <2>3. DecodeDisplayMatrix(m) = [rotation |-> 0, mirrored |-> FALSE]
    <3> DEFINE reflects == m[1] * m[4] - m[2] * m[3] < 0
    <3>1. reflects = FALSE
      BY <2>1
    <3>2. DecodeDisplayMatrix(m)
            = [rotation |-> Clockwise(IF reflects THEN -m[1] ELSE m[1], m[2]), mirrored |-> reflects]
      BY DEF DecodeDisplayMatrix
    <3>3. (IF reflects THEN -m[1] ELSE m[1]) = 1
      BY <2>1, <3>1, Zenon
    <3>4. Clockwise(1, 0) = 0
      BY DEF Clockwise
    <3> QED
      BY <2>1, <3>1, <3>2, <3>3, <3>4, Zenon
  <2>4. Transform(Setting) = [rotation |-> 0, mirrored |-> FALSE]
    BY <1>2 DEF Transform
  <2>5. (IF Setting.upright THEN Setting.matrix ELSE m) = m
    BY <1>2
  <2> QED
    BY <2>2, <2>3, <2>4, <2>5 DEF m
<1> QED
  BY <1>1, <1>2

\* A plane has the cells of the picture's sides, halved and rounded up or not.
LEMMA PlanesHaveCells ==
  ASSUME NEW size, size.width \in Nat \ {0}, size.height \in Nat \ {0}, NEW pixels \in {1, 2}
  PROVE  LET plane == PlaneSize(size, pixels)
         IN plane.width \in Nat \ {0} /\ plane.height \in Nat \ {0}
<1>1. CASE pixels = 1
  BY <1>1 DEF PlaneSize, Size
<1>2. CASE pixels = 2
  BY <1>2 DEF PlaneSize, Size
<1> QED
  BY <1>1, <1>2

\* An image is of a frame and a box that were asked for, in the size they ask for.
ImageOK ==
  IsImage =>
    /\ generator.status = "open"
    /\ reply.frame \in Setting.frames
    /\ reply.box \in Setting.boxes /\ IsBox(reply.box, Subsampled)
    /\ reply.size = OutputSize(reply.frame, reply.box)

LEMMA ImagesAreAsAsked ==
  ASSUME Base, ImageOK
  PROVE  PictureFitsUpright
<1> SUFFICES ASSUME IsImage PROVE PictureFitsUpright
  BY DEF PictureFitsUpright
<1> DEFINE m == IF Setting.upright THEN Setting.matrix ELSE <<1, 0, 0, 1>>
           f == Size(reply.frame.width, reply.frame.height)
           display == DisplaySize(f, Sar(reply.frame), Setting.squares, Rotation)
           box == Box(reply.box)
           size == reply.size
<1>1. Setting \in Settings /\ AreOptions(Setting) /\ generator.transform = Transform(Setting)
  BY DEF Base, GeneratorOK, ImageOK
<1>2. /\ m \in Matrices /\ generator.transform = DecodeDisplayMatrix(m)
  BY <1>1, TransformFollows
<1>3. f.width \in Nat \ {0} /\ f.height \in Nat \ {0}
  <2>1. IsFrame(reply.frame)
    BY <1>1, SettingsAssumption DEF ImageOK
  <2> QED
    BY <2>1 DEF IsFrame, IsDimensions, Size
<1>4. Sar(reply.frame).num \in Int /\ Sar(reply.frame).den \in Int
  <2>1. IsFrame(reply.frame) /\ \A r \in {Setting.sar, Setting.codecSar} : r.num \in Int /\ r.den \in Int
    BY <1>1, SettingsAssumption DEF ImageOK
  <2>2. Sar(reply.frame) \in {Setting.sar, reply.frame.sar, Setting.codecSar, [num |-> 1, den |-> 1]}
    BY DEF Sar, ResolveSar, IsRatio
  <2> QED
    BY <2>1, <2>2 DEF IsFrame
<1>5. display.width \in Nat \ {0} /\ display.height \in Nat \ {0}
  BY <1>3, <1>4, DisplayHasPixels
<1>6. IsBox(box, Subsampled) /\ (box # NoBox => box.width \in Int /\ box.height \in Int)
  <2>1. IsBox(Setting.box, Subsampled)
    BY <1>1 DEF AreOptions, Subsampled
  <2>2. box \in {Setting.box} \cup Setting.boxes
    BY DEF Box, ImageOK
  <2>3. box = NoBox \/ IsDimensions(box)
    BY <1>1, <2>2, SettingsAssumption
  <2> QED
    BY <2>1, <2>3 DEF Box, ImageOK, IsDimensions
<1>7. size = FitWithin(display, box, Subsampled)
  BY DEF ImageOK, OutputSize
<1> HIDE DEF display, box, f, m, size
<1>8. Subsampled \in BOOLEAN
  BY DEF Subsampled
<1>9. /\ size = Size(size.width, size.height) /\ size.width \in Nat \ {0} /\ size.height \in Nat \ {0}
      /\ SizeFits(size, display, box)
  BY <1>5, <1>6, <1>7, <1>8, PicturesFitTheirBox DEF SizeFits, Inside
<1>10. IsUpright(size)
  <2> DEFINE coded == Turned(size)
  <2>1. coded.width \in Nat \ {0} /\ coded.height \in Nat \ {0}
    BY <1>9 DEF Turned, Transposed, Size
  <2> HIDE DEF coded
  <2>2. ASSUME NEW pixels \in IF Subsampled THEN {1, 2} ELSE {1},
               NEW x \in 0..(PlaneSize(coded, pixels).width - 1), NEW y \in 0..(PlaneSize(coded, pixels).height - 1)
        PROVE  LET plane == PlaneSize(coded, pixels)
               IN Destination(Rotation, generator.transform.mirrored, plane.width, plane.height, x, y)
                    = Displayed(m, plane, x, y)
    <3> DEFINE plane == PlaneSize(coded, pixels)
    <3>1. pixels \in {1, 2}
      OBVIOUS
    <3>2. plane.width \in Nat \ {0} /\ plane.height \in Nat \ {0}
      BY <2>1, <3>1, PlanesHaveCells
    <3> HIDE DEF plane
    <3>3. x \in 0..(plane.width - 1) /\ y \in 0..(plane.height - 1)
      BY <2>2 DEF plane
    <3>4. Destination(Rotation, generator.transform.mirrored, plane.width, plane.height, x, y)
            = Displayed(m, plane, x, y)
      BY <1>2, <3>2, <3>3, TurnFollowsTheMatrix DEF Rotation
    <3> QED
      BY <3>4 DEF plane
  <2> QED
    BY <2>2 DEF IsUpright, coded, m
<1> QED
  BY <1>9, <1>10 DEF PictureFitsUpright, display, box, f, size

\* detail/Converter.h and detail/Transform.h, with what detail/MediaSource.h makes of the
\* display matrix: every image fits the box asked for without being scaled up, is as
\* large as that allows, and stands upright.
THEOREM PicturesFitUpright ==
  Spec => []PictureFitsUpright
<1>1. Init => ImageOK
  BY DEF Init, ImageOK, IsImage, NoReply
<1>2. Base /\ ImageOK /\ [Next]_vars => ImageOK'
  <2>1. SUFFICES ASSUME Base, ImageOK, [Next]_vars PROVE ImageOK'
    OBVIOUS
  <2>2. Setting' = Setting
    BY <2>1, SettingKept DEF Base
  <2>3. ASSUME generator' = generator, reply' = reply PROVE ImageOK'
    BY <2>1, <2>2, <2>3
       DEF ImageOK, IsImage, OutputSize, Sar, Rotation, Box, Subsampled
  <2>4. CASE Open
    <3>1. generator.status = "closed" /\ reply' = reply
      BY <2>4 DEF Open
    <3>2. ~IsImage
      BY <2>1, <3>1 DEF ImageOK
    <3> QED
      BY <3>1, <3>2 DEF ImageOK, IsImage
  <2>5. CASE Rest \/ Step \/ UNCHANGED vars
    BY <2>3, <2>5 DEF Rest, Step, vars
  <2>6. CASE Refuse \/ Reattach \/ Ask \/ PooledFrameFails \/ ScaleFails
    <3>1. reply'.status # "image"
      <4>1. reply'.status \in {"none", "failed", "invalidArgument"} \/ Refuse
        BY <2>6 DEF Reattach, Ask, PooledFrameFails, ScaleFails, Fail, NoReply
      <4>2. CASE Refuse
        <5>1. \A t, r : ResolveTime(r, t, Setting.stream, Setting.clamps).status
                          \in {"ok", "invalidArgument", "timeOutOfRange"}
          BY DEF ResolveTime, Refused, Window
        <5> QED
          BY <4>2, <5>1 DEF Refuse, NoReply
      <4> QED
        BY <4>1, <4>2
    <3> QED
      BY <3>1 DEF ImageOK, IsImage
  <2>7. CASE TakePooledFrame \/ ScaleFrame
    <3>1. ~At("idle") /\ UnderWay
      BY <2>1, <2>7 DEF TakePooledFrame, ScaleFrame, PoolStages, Base, At
    <3>2. PICK scaled : Proceed(scaled)
      BY <2>7 DEF TakePooledFrame, ScaleFrame
    <3>3. generator' = generator
      BY <3>2 DEF Proceed
    <3>4. reply'.frame = request.frame /\ reply'.box = request.box
          /\ reply'.size = OutputSize(request.frame, request.box)
      BY <3>2 DEF Proceed, frame
    <3>5. \A f, b : OutputSize(f, b)' = OutputSize(f, b)
      BY <2>2, <3>3 DEF OutputSize, Sar, Rotation, Box, Subsampled
    <3> QED
      BY <2>2, <3>1, <3>3, <3>4, <3>5 DEF ImageOK, UnderWay, Subsampled, OutputSize, Box, Sar, Rotation
  <2> QED
    BY <2>1, <2>4, <2>5, <2>6, <2>7 DEF Next
<1>3. Base /\ ImageOK => PictureFitsUpright
  BY ImagesAreAsAsked
<1> QED
  BY <1>1, <1>2, <1>3, BaseHolds, PTL DEF Spec

==============================================================================
