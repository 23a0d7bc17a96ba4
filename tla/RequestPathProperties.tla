------------------------ MODULE RequestPathProperties ------------------------
(* What a caller can rely on about times, windows and pictures.             *)
EXTENDS RequestPath

-----------------------------------------------------------------------------
(* Times.                                                                  *)

Stream == Setting.stream

\* The time the caller means to be at, as a fraction.
Meant ==
  [num |-> Setting.first.value * Setting.step.scale + caller.steps * Setting.step.value * Setting.first.scale,
   den |-> Setting.first.scale * Setting.step.scale]

\* Its common scale is representable, so that nothing need be rounded.
IsExactScale == (Setting.first.scale \div Gcd(Setting.first.scale, Setting.step.scale)) * Setting.step.scale <= MaxScale

\* A fraction in lowest terms.
Lowest(f) ==
  LET g == Gcd(IF f.num < 0 THEN -f.num ELSE f.num, f.den)
  IN Finite(f.num \div g, f.den \div g)

\* A caller who steps along the timeline is where it means to be, and its time hashes
\* as that fraction does, but for the least value; or it is told that the sum, or one of
\* its terms, cannot be represented; never silently beside it.
StepsDoNotDrift ==
  LET t == caller.time
      scale == CommonScale(Setting.first.scale, Setting.step.scale)
      IsLost(num, den) == ~Fits((num * scale) \div den)
  IN caller.steps > 0 /\ IsFinite(Setting.first) /\ IsFinite(Setting.step) /\ IsExactScale =>
       IF IsFinite(t)
       THEN t.value * Meant.den = Meant.num * t.scale /\ (t.value # MinValue => Hashed(t) = Lowest(Meant))
       ELSE \/ IsLost(Meant.num, Meant.den)
            \/ IsLost(Setting.first.value, Setting.first.scale)
            \/ IsLost(Setting.step.value, Setting.step.scale)

\* As many steps at once lead to the same time, and back to where it started.
StepsAddUp ==
  LET far == Times(Setting.step, caller.steps)
      there == Plus(Setting.first, far)
      back == Plus(caller.time, Negated(far))
  IN caller.steps > 0 /\ IsFinite(Setting.first) /\ IsFinite(Setting.step) /\ IsExactScale =>
       /\ IsFinite(caller.time) /\ IsFinite(there) => Equal(there, caller.time)
       /\ IsFinite(back) => Equal(back, Setting.first)

\* The time an image reports is the time to ask for to get it again: it resolves,
\* exactly, to the tick of its frame, whatever the time base; but for the last tick
\* of the domain, which a time that does not fit is taken for.
ImagesAreFoundAgain ==
  LET again == ResolveTime(reply.time, Exact, Stream, FALSE)
  IN reply.status = "image" /\ reply.ts >= Stream.start /\ ~IsPastDuration(reply.ts - Stream.start, Stream)
       /\ Fits((reply.ts - Stream.start) * Stream.base.num) /\ reply.ts - Stream.start < MaxValue =>
       again.status = "ok" /\ again.target = reply.ts /\ ~again.clamped

TimesAreExact == StepsDoNotDrift /\ StepsAddUp /\ ImagesAreFoundAgain

-----------------------------------------------------------------------------
(* Windows.                                                                *)

\* n ticks are no more than a tolerance.
Within(n, tolerance) ==
  tolerance = PositiveInfinity \/ n * Stream.base.num * tolerance.scale <= tolerance.value * Stream.base.den

\* A finite tolerance counts for no more ticks than a word holds.
Reaches(n, tolerance) == Within(n, tolerance) /\ (n < MaxValue => ~Within(n + 1, tolerance))

\* A tolerance is infinite, or reaches past half of the domain, where it is taken
\* to be.
Passes(n, tolerance) == tolerance = PositiveInfinity \/ (n <= MaxValue /\ Within(n, tolerance))
IsOpenBefore(w, t) == Passes(w.target - Half(MinValue) + 1, t.before)
IsOpenAfter(w, t) == Passes(Half(MaxValue) + 1 - w.target, t.after)

\* The window holds its target, which is the tick nearest to the time asked for, and
\* reaches as far to each side as the tolerance does and no tick further; it is open
\* to the key frame before it exactly if the tolerance is infinite and the source
\* can seek, and one tick wide if it cannot.
WindowIsTight ==
  LET w == window
      t == request.tolerance
      ticks == w.target - Stream.start
      twice == 2 * caller.time.value * Stream.base.den - 2 * ticks * Stream.base.num * caller.time.scale
      tick == Stream.base.num * caller.time.scale
  IN ~At("idle") =>
       /\ IF w.clamped THEN ticks = Stream.duration /\ twice > 0 ELSE -tick <= twice /\ twice <= tick
       /\ w.keyframe <=> IsOpenBefore(w, t) /\ Stream.seekable
       /\ IF IsOpenBefore(w, t) /\ ~Stream.seekable THEN w.start = w.target /\ w.end = w.target
          ELSE /\ IF IsOpenBefore(w, t) THEN w.start = MinValue ELSE Reaches(w.target - w.start, t.before)
               /\ IF IsOpenAfter(w, t) THEN w.end = MaxValue ELSE Reaches(w.end - w.target, t.after)

-----------------------------------------------------------------------------
(* Pictures.                                                               *)

IsImage == reply.status = "image"

\* A side is no longer than its box and its display size allow, and the longer of
\* the two sides, by the box, no shorter than whole pixels make it.
SizeFits(size, display, box) ==
  LET least == IF Subsampled THEN 2 ELSE 1
      limit(side, bound) == IF bound > 0 /\ bound < side THEN bound ELSE side
      width == limit(display.width, IF box = NoBox THEN 0 ELSE box.width)
      height == limit(display.height, IF box = NoBox THEN 0 ELSE box.height)
  IN /\ size.width <= AtLeast(least, width) /\ size.height <= AtLeast(least, height)
     /\ size.width > width - least \/ size.height > height - least
     /\ Subsampled => size.width % 2 = 0 /\ size.height % 2 = 0

\* Where the display matrix puts the cell (x, y) of a plane.
Displayed(m, size, x, y) ==
  LET at(i, j) == <<i * m[1] + j * m[3], i * m[2] + j * m[4]>>
      corners == {at(i, j) : i \in {0, size.width - 1}, j \in {0, size.height - 1}}
  IN <<at(x, y)[1] - Min({c[1] : c \in corners}), at(x, y)[2] - Min({c[2] : c \in corners})>>

\* Every cell of every plane ends up where the display matrix puts it.
IsUpright(size) ==
  LET coded == Turned(size)
      m == IF Setting.upright THEN Setting.matrix ELSE <<1, 0, 0, 1>>
  IN \A pixels \in IF Subsampled THEN {1, 2} ELSE {1} :
       LET plane == PlaneSize(coded, pixels)
       IN \A x \in 0..(plane.width - 1), y \in 0..(plane.height - 1) :
            Destination(Rotation, generator.transform.mirrored, plane.width, plane.height, x, y)
              = Displayed(m, plane, x, y)

\* A picture fits the box it was asked for without ever being scaled up, is as large
\* as that allows, and stands upright, for every display matrix.
PictureFitsUpright ==
  IsImage =>
    /\ SizeFits(reply.size, DisplaySize(Size(reply.frame.width, reply.frame.height), Sar(reply.frame),
                                        Setting.squares, Rotation), Box(reply.box))
    /\ IsUpright(reply.size)

\* A scaling context kept from another picture is never left with its colours.
ScaledWithItsOwnColours == IsImage => reply.scaled = Colours(reply.frame)

\* Whether pictures of a shape are rearranged before they are scaled, and what from.
IsReplaned(shape) == shape[3] = "nv12" /\ IsFullRange
Source(shape) == <<shape[1], shape[2], shape[3]>>

\* A steady stream of requests builds nothing: neither does the second of two alike,
\* nor does alternating between two build a scaling context, but for the one that
\* rearranges planes: there is one for all, built again for each request exactly if
\* both of the two need it and their sources differ in size.
SteadyStreamBuildsNothing ==
  IsImage =>
    /\ Len(recent) >= 2 /\ recent[1] = recent[2] => reply.built = {}
    /\ Len(recent) = 3 /\ recent[1] = recent[3] /\ recent[2] # <<>> =>
         /\ "scaler" \notin reply.built
         /\ "replaner" \in reply.built
              <=> IsReplaned(recent[1]) /\ IsReplaned(recent[2]) /\ Source(recent[1]) # Source(recent[2])

-----------------------------------------------------------------------------
(* Streams.                                                                *)

Admitted == Setting.streams[generator.stream]
Wishes == Setting.wishes

Acceptable(i) ==
  /\ Setting.streams[i].video /\ Setting.streams[i].decoder /\ Wishes.index \in {Unset, i}
  /\ Setting.streams[i].art => Wishes.art \/ Wishes.index = i

\* The stream taken can be decoded, is a picture and not a cover unless one was asked
\* for, and within the cap; and none is refused that would have been taken: not for
\* what the header declares, and not for want of a stream.
AdmittedStreamIsUsable ==
  CASE generator.status = "open" ->
         Acceptable(generator.stream) /\ ~IsOver(Admitted.size, Wishes)
    [] generator.status = "oversized" ->
         \A outcome \in Chosen(Setting.streams, Wishes) : outcome.status # "open"
    [] generator.status \in {"noVideoStream", "decoderNotFound", "invalidArgument"} ->
         \A i \in DOMAIN Setting.streams : ~Acceptable(i)
    [] OTHER -> TRUE

==============================================================================
