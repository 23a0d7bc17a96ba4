----------------------------- MODULE RequestPath -----------------------------
(* The values of a request on their way through a generator: the source is  *)
(* opened and a stream taken, a time is resolved to a window of ticks, and  *)
(* the frame found in it is brought into the form that was asked for.  It   *)
(* composes SourceOpening, RequestWindow, Geometry and Converter the way    *)
(* selectFor() and convert() of detail/FramePipeline.h do.  Which frame is  *)
(* found is FramePipeline's matter; here it is any frame in the window.     *)
(*                                                                           *)
(* External: the container, the decoded frames, memory, and the caller, who *)
(* steps along the timeline with the arithmetic of Time.                    *)
EXTENDS RequestWindow, Geometry, SourceOpening, Converter

CONSTANTS
  Settings,
  SdHeight    \* the height up to which a picture is standard definition: 576

(* A setting is a record of                                                 *)
(*   streams, wishes                  what SourceOpening reads              *)
(*   stream                           what RequestWindow reads              *)
(*   tolerance, tolerances, clamps    the options', the requests' (or None) *)
(*   box, boxes, format, squares, upright   the same of the output          *)
(*   matrix, sar, codecSar, frames    the picture: display matrix, the      *)
(*                                    ratios the container and the codec    *)
(*                                    declare, what is decoded              *)
(*   ticks                            when frames are presented             *)
(*   first, step                      where the caller starts, and goes     *)
(*   memory                           whether allocations may fail          *)
(*   steps, lookups                   bounds: steps of the caller, and the  *)
(*                                    lookups in the caches before the last *)
(*                                    request                               *)
(* A frame is [width, height, format, hardware, sar, matrix, full].         *)

IsSides(t) == IsTime(t.before) /\ IsTime(t.after)
IsSource(stream) ==
  /\ IsTimeBase(stream.base) /\ stream.start \in Int /\ MinValue < stream.start
  /\ stream.duration \in Nat \cup {None} /\ stream.frame \in Nat /\ stream.seekable \in BOOLEAN
IsDimensions(size) == size.width \in Int /\ size.height \in Int
IsFrame(f) == f.width > 0 /\ f.height > 0 /\ IsDimensions(f) /\ f.sar.num \in Int /\ f.sar.den \in Int

IsStream(s) ==
  {s.video, s.decoder, s.art} \subseteq BOOLEAN /\ s.size \in Nat /\ s.declared \in {0, s.size}
IsWishes(w) == {w.cap, w.index} \subseteq Int \cup {Unset} /\ w.art \in BOOLEAN

\* A header declares the size a stream has, or none.  Times and sizes are numbers,
\* ticks words, a time base is positive, a stream has an origin, and a frame that was
\* decoded has pixels.
ASSUME SettingsAssumption ==
  \A s \in Settings :
    /\ DOMAIN s.streams = 1..Len(s.streams) /\ \A i \in DOMAIN s.streams : IsStream(s.streams[i])
    /\ IsWishes(s.wishes)
    /\ IsTime(s.first) /\ IsTime(s.step) /\ IsSource(s.stream) /\ s.ticks \subseteq MinValue..MaxValue
    /\ IsSides(s.tolerance) /\ \A t \in s.tolerances : t = None \/ IsSides(t)
    /\ \A box \in {s.box} \cup s.boxes : box = NoBox \/ IsDimensions(box)
    /\ s.matrix \in Matrices /\ \A r \in {s.sar, s.codecSar} : r.num \in Int /\ r.den \in Int
    /\ \A f \in s.frames : IsFrame(f)

VARIABLES
  generator,   \* status, the stream taken, and the transform the converter applies
  caller,      \* the time, and the steps taken to it
  request,     \* the request in progress
  window,      \* what it was resolved to
  converter,
  recent,      \* the shapes of the last requests, the last first
  reply

vars == <<generator, caller, request, window, converter, recent, reply>>

Setting == generator.setting
At(pc) == request.pc = pc

-----------------------------------------------------------------------------
(* Opening.                                                                *)

\* Options::validate(), as far as this module reads the options.
AreOptions(s) ==
  /\ IsBox(s.box, s.format = "nv12") /\ IsTolerance(s.tolerance)
  /\ s.wishes.cap # Unset => s.wishes.cap >= 1
  /\ s.wishes.index # Unset => s.wishes.index >= 0

Transform(s) == IF s.upright THEN DecodeDisplayMatrix(s.matrix) ELSE [rotation |-> 0, mirrored |-> FALSE]

Open ==
  /\ generator.status = "closed"
  /\ \E outcome \in IF AreOptions(Setting) THEN Outcomes(Setting.streams, Setting.wishes)
                    ELSE {No("invalidOptions")} :
       generator' = [generator EXCEPT !.status = outcome.status, !.stream = outcome.stream,
                                      !.transform = Transform(Setting)]
  /\ UNCHANGED <<caller, request, window, converter, recent, reply>>

\* There is no generator to ask, or the caller asks for nothing more.
Rest == generator.status # "closed" /\ At("idle") /\ UNCHANGED vars

-----------------------------------------------------------------------------
(* The caller.                                                             *)

Step ==
  /\ generator.status = "open" /\ At("idle") /\ caller.steps < Setting.steps
  /\ caller' = [caller EXCEPT !.time = Plus(@, Setting.step), !.steps = @ + 1]
  /\ UNCHANGED <<generator, request, window, converter, recent, reply>>

Subsampled == Setting.format = "nv12"
Tolerances(override) == IF override = None THEN Setting.tolerance ELSE override
Box(override) == IF override = NoBox THEN Setting.box ELSE override

Idle == [pc |-> "idle", tolerance |-> Exact, box |-> NoBox, frame |-> None, ts |-> 0]

NoReply(status) == [status |-> status, ts |-> 0, time |-> Zero, size |-> Size(0, 0), frame |-> None,
                    box |-> NoBox, scaled |-> <<>>, built |-> {}]

\* The request fails before a frame is looked for.
Refuse ==
  /\ generator.status = "open" /\ At("idle")
  /\ \E t \in Setting.tolerances, b \in Setting.boxes :
       LET valid == (b # NoBox => IsBox(b, Subsampled)) /\ (t # None => IsTolerance(t))
           resolved == ResolveTime(caller.time, Tolerances(t), Setting.stream, Setting.clamps)
       IN /\ ~valid \/ resolved.status # "ok"
          /\ reply' = NoReply(IF valid THEN resolved.status ELSE "invalidArgument")
  /\ window' = Refused("none")
  /\ UNCHANGED <<generator, caller, request, converter, recent>>

FirstStage(frame) == IF frame.hardware THEN "download" ELSE "output"

Ask ==
  /\ generator.status = "open" /\ At("idle") /\ converter.clock < Setting.lookups
  /\ \E t \in Setting.tolerances, b \in Setting.boxes, frame \in Setting.frames, ts \in Setting.ticks :
       /\ b # NoBox => IsBox(b, Subsampled)
       /\ t # None => IsTolerance(t)
       /\ window' = ResolveTime(caller.time, Tolerances(t), Setting.stream, Setting.clamps)
       /\ window'.status = "ok"
       /\ window'.start <= ts /\ ts <= window'.end
       /\ request' = [pc |-> FirstStage(frame), tolerance |-> Tolerances(t), box |-> b,
                      frame |-> frame, ts |-> ts]
  /\ converter' = [converter EXCEPT !.built = {}]
  /\ reply' = NoReply("none")
  /\ UNCHANGED <<generator, caller, recent>>

-----------------------------------------------------------------------------
(* Conversion: Converter::download and Converter::convert.                 *)

frame == request.frame
Rotation == generator.transform.rotation
Turned(size) == IF Rotation \in {90, 270} THEN Transposed(size) ELSE size

Sar(f) == ResolveSar(Setting.sar, f.sar, Setting.codecSar)

OutputSize(f, box) ==
  FitWithin(DisplaySize(Size(f.width, f.height), Sar(f), Setting.squares, Rotation), Box(box), Subsampled)

Target == Turned(OutputSize(frame, request.box))

\* Packed RGB and gray outputs: of full range, and with no fast path of swscale's to
\* them from NV12.
IsFullRange == Setting.format \in {"rgba", "gray8"}

NeedsReplaning == frame.format = "nv12" /\ IsFullRange

InputFormat == IF NeedsReplaning THEN "yuv420p" ELSE frame.format

\* The geometry of the frame each stage takes from a pool.
PoolKey(stage) ==
  LET output == OutputSize(frame, request.box)
  IN CASE stage = "download" -> <<frame.format, frame.width, frame.height>>
       [] stage = "output" -> <<Setting.format, Target.width, Target.height>>
       [] stage = "replane" -> <<"yuv420p", frame.width, frame.height>>
       [] stage = "transform" -> <<Setting.format, output.width, output.height>>

ReplanerKey == <<frame.width, frame.height, frame.format>>

ScalerKey == <<frame.width, frame.height, InputFormat, Target.width, Target.height>>

After(stage) ==
  CASE stage = "download" -> "output"
    [] stage = "output" -> IF NeedsReplaning THEN "replane" ELSE "scale"
    [] stage = "replane" -> "scale"
    [] stage = "scale" -> IF Rotation # 0 \/ generator.transform.mirrored THEN "transform" ELSE "idle"
    [] stage = "transform" -> "idle"

\* The matrix a frame does not name goes by its height; YUV made of RGB is limited.
Colours(f) ==
  [matrix |-> IF f.matrix = None THEN IF f.height > SdHeight THEN "709" ELSE "601" ELSE f.matrix,
   full |-> f.full, outputFull |-> IsFullRange \/ (f.full /\ f.format # "rgba")]

Shape == <<frame.width, frame.height, frame.format, frame.hardware, Target>>

Remember(shape) == recent' = SubSeq(<<shape>> \o recent, 1, Min({3, Len(recent) + 1}))

\* outOfMemory or conversionFailed.
Fail ==
  /\ request' = Idle /\ reply' = NoReply("failed") /\ Remember(<<>>)
  /\ UNCHANGED <<generator, caller, window>>

\* The stage is done: the next one, or the image.
Proceed(scaled) ==
  /\ request' = IF After(request.pc) = "idle" THEN Idle ELSE [request EXCEPT !.pc = After(request.pc)]
  /\ reply' = [status |-> IF After(request.pc) = "idle" THEN "image" ELSE "none",
               ts |-> request.ts, time |-> ActualTime(request.ts, Setting.stream),
               size |-> OutputSize(frame, request.box), frame |-> frame, box |-> request.box,
               scaled |-> scaled, built |-> converter'.built]
  /\ IF After(request.pc) = "idle" THEN Remember(Shape) ELSE UNCHANGED recent
  /\ UNCHANGED <<generator, caller, window>>

PoolStages == {"download", "output", "replane", "transform"}

\* A frame is filled by copying, or with the context for rearranging planes.
Filled(c) == IF At("replane") THEN Replaned(c, ReplanerKey) ELSE c

TakePooledFrame ==
  /\ request.pc \in PoolStages
  /\ converter' = Filled(Pooled(converter, PoolKey(request.pc)))
  /\ Proceed(reply.scaled)

\* No pool, or no frame of it, or nothing to fill the frame with, or it is not filled.
PooledFrameFails ==
  /\ request.pc \in PoolStages /\ Setting.memory
  /\ LET taken == Pooled(converter, PoolKey(request.pc))
     IN \/ converter' \in {PoolFailed(converter, PoolKey(request.pc)), taken, Filled(taken)}
        \/ At("replane") /\ converter.replaner # ReplanerKey /\ converter' = ReplanerLost(taken)
  /\ Fail

ScaleFrame ==
  /\ At("scale")
  /\ converter' = Coloured(Scaler(converter, ScalerKey), ScalerKey, Colours(frame))
  /\ Proceed(converter'.scalers[Slot(converter'.scalers, ScalerKey)].colours)

ScaleFails ==
  /\ At("scale") /\ Setting.memory
  /\ \/ Hits(converter.scalers, ScalerKey) = {} /\ converter' = Tick(converter)
     \/ converter' = Coloured(Scaler(converter, ScalerKey), ScalerKey, Colours(frame))
  /\ Fail

\* attachToSource() after a re-open: a converter with nothing in its caches.
Reattach ==
  /\ generator.status = "open" /\ At("idle") /\ converter' = NewConverter
  /\ recent' = <<>> /\ reply' = NoReply("none")
  /\ UNCHANGED <<generator, caller, request, window>>

-----------------------------------------------------------------------------

Init ==
  /\ \E s \in Settings :
       /\ generator = [setting |-> s, status |-> "closed", stream |-> 0,
                       transform |-> [rotation |-> 0, mirrored |-> FALSE]]
       /\ caller = [time |-> s.first, steps |-> 0]
  /\ request = Idle /\ window = Refused("none") /\ converter = NewConverter
  /\ recent = <<>> /\ reply = NoReply("none")

Next == \/ Open \/ Rest \/ Step \/ Refuse \/ Ask
        \/ TakePooledFrame \/ PooledFrameFails \/ ScaleFrame \/ ScaleFails \/ Reattach

Spec == Init /\ [][Next]_vars

==============================================================================
