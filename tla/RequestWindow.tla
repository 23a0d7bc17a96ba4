---------------------------- MODULE RequestWindow ----------------------------
(* A request mapped into the stream's ticks: detail/RequestWindow.h, with   *)
(* the check of a tolerance in stills_Options.h.  A stream is a record of   *)
(* the fields of StreamInfo it reads: base, start, duration, frame, and     *)
(* seekable.                                                                *)
EXTENDS Time

Half(n) == IF n < 0 THEN -((-n) \div 2) ELSE n \div 2

\* validateTolerance(): each side finite and not negative, or +inf.
IsTolerance(tolerance) ==
  \A side \in {tolerance.before, tolerance.after} :
    side = PositiveInfinity \/ (IsFinite(side) /\ side.value >= 0)

Exact == [before |-> Zero, after |-> Zero]

\* mutant: a tolerance is rounded like a time
TicksNearest(tolerance, base) ==
  IF IsFinite(tolerance) /\ Less(Zero, tolerance) THEN ToTimestamp(tolerance, base, "nearest") ELSE 0

Ticks(tolerance, base) ==
  IF IsFinite(tolerance) /\ Less(Zero, tolerance) THEN ToTimestamp(tolerance, base, "down") ELSE 0

\* windowEdge(): past half of the domain a tolerance is an infinite one.
Earliest(target, tolerance, base) ==
  LET edge == target - Ticks(tolerance, base)
  IN IF tolerance = PositiveInfinity \/ edge < Half(MinValue) THEN MinValue ELSE edge

Latest(target, tolerance, base) ==
  LET edge == target + Ticks(tolerance, base)
  IN IF tolerance = PositiveInfinity \/ edge > Half(MaxValue) THEN MaxValue ELSE edge

Refused(status) ==
  [status |-> status, target |-> 0, start |-> 0, end |-> 0, clamped |-> FALSE, keyframe |-> FALSE]

\* Without a usable seek an infinite `before` is exact selection.
Window(target, tolerance, stream, clamped) ==
  LET start == Earliest(target, tolerance.before, stream.base)
      infinite == start = MinValue
      collapsed == infinite /\ ~stream.seekable
  IN [status |-> "ok", target |-> target,
      start |-> IF collapsed THEN target ELSE start,
      end |-> IF collapsed THEN target ELSE Latest(target, tolerance.after, stream.base),
      clamped |-> clamped, keyframe |-> infinite /\ stream.seekable]

\* One frame of slack: containers understate their duration.
IsPastDuration(relative, stream) ==
  stream.duration # None /\ relative > stream.duration + stream.frame

ResolveTime(time, tolerance, stream, clamps) ==
  LET relative == ToTimestamp(time, stream.base, "nearest")
  IN IF ~IsFinite(time) \/ time.value < 0 THEN Refused("invalidArgument")
     ELSE IF relative = MaxValue \/ ~Fits(stream.start + relative) THEN Refused("timeOutOfRange")
     ELSE IF ~IsPastDuration(relative, stream)
          THEN Window(stream.start + relative, tolerance, stream, FALSE)
     ELSE IF clamps THEN Window(stream.start + stream.duration, tolerance, stream, TRUE)
     ELSE Refused("timeOutOfRange")

\* The time an image of the frame at tick ts reports: zero before the origin.
ActualTime(ts, stream) ==
  LET time == FromTimestamp(IF ts < stream.start THEN 0 ELSE ts - stream.start, stream.base)
  IN IF time = Invalid THEN Zero ELSE time

==============================================================================
