---------------------------- MODULE MCRequestPath ----------------------------
EXTENDS RequestPathProperties

Square == [num |-> 0, den |-> 1]
Frame(width, height, format, hardware) ==
  [width |-> width, height |-> height, format |-> format, hardware |-> hardware, sar |-> Square,
   matrix |-> None, full |-> FALSE]

Picture == [video |-> TRUE, decoder |-> TRUE, art |-> FALSE, declared |-> 2, size |-> 2]
AnyWishes == [cap |-> Unset, index |-> Unset, art |-> FALSE]
Symmetric(t) == [before |-> t, after |-> t]

\* A plain source, a plain request.
Plain ==
  [streams |-> <<Picture>>, wishes |-> AnyWishes,
   stream |-> [base |-> [num |-> 1, den |-> 10], start |-> 0, duration |-> None, frame |-> 1, seekable |-> TRUE],
   tolerance |-> Exact, tolerances |-> {None}, clamps |-> FALSE,
   box |-> NoBox, boxes |-> {NoBox}, format |-> "rgba", squares |-> TRUE, upright |-> TRUE,
   matrix |-> <<1, 0, 0, 1>>, sar |-> Square, codecSar |-> Square, frames |-> {Frame(2, 2, "yuv420p", FALSE)},
   ticks |-> {0}, first |-> Zero, step |-> Zero, memory |-> FALSE, steps |-> 0, lookups |-> 1]

\* Time bases finer and coarser than a frame, with origins before and after zero, and
\* with and without a duration; callers who step by a frame, by a scale that has no
\* common one, from the far end of the domain, and from no time at all.
SomeTolerances ==
  {None} \cup {Symmetric(t) : t \in {Finite(1, 4), Finite(3, 10), Finite(60, 1), PositiveInfinity}}
  \cup {[Exact EXCEPT !.after = Finite(2, 5)], [Exact EXCEPT !.before = Finite(2, 5)],
        Symmetric(Finite(-1, 2)), Symmetric(Invalid)}

OnTimeline(base, start, duration) ==
  [Plain EXCEPT !.stream = [base |-> base, start |-> start, duration |-> duration, frame |-> 3, seekable |-> TRUE],
                !.tolerances = SomeTolerances, !.ticks = -8..40, !.steps = 5]

Bases == {[num |-> 1, den |-> 10], [num |-> 3, den |-> 7], [num |-> 1, den |-> 2]}
Timelines ==
  {[OnTimeline(b, start, d) EXCEPT !.stream.seekable = k, !.clamps = c,
                                   !.first = Zero, !.step = Frames(1, [num |-> 5, den |-> 2])] :
     b \in Bases, start \in {-4, 0, 9}, d \in {None, 14}, k \in BOOLEAN, c \in BOOLEAN}
  \cup {[OnTimeline([num |-> 1, den |-> 10], 9, None) EXCEPT !.first = f, !.step = s, !.tolerances = {None}] :
          f \in {Zero, Finite(5, 4), Finite(-3, 5), Finite(60, 6), Finite(120, 1), Invalid, PositiveInfinity},
          s \in {Finite(1, 3), Finite(-2, 5), Finite(1, 6), Finite(30, 1), NegativeInfinity}}
  \cup {[OnTimeline([num |-> 1, den |-> 10], 9, None) EXCEPT !.first = f, !.step = s, !.tolerances = {None}] :
          f \in {Finite(16, 1), Finite(-64, 1), Finite(-63, 3)}, s \in {Finite(-127, 15), Finite(-32, 1)}}
  \cup {[OnTimeline([num |-> 1, den |-> 10], 9, None) EXCEPT !.first = Finite(9, 1), !.ticks = {120, 127}]}

\* Every display matrix on odd and even pictures, anamorphic ones and boxes.
Boxes == {NoBox, Size(0, 0), Size(3, 0), Size(2, 2), Size(1, 9), Size(-1, 4)}
Pictures8 ==
  {[Plain EXCEPT !.matrix = m, !.format = o, !.boxes = Boxes, !.upright = u,
                 !.frames = {Frame(5, 3, "yuv420p", FALSE), Frame(2, 7, "nv12", TRUE)},
                 !.sar = r, !.codecSar = IF u THEN Square ELSE [num |-> 1, den |-> 2]] :
     m \in Matrices, o \in {"rgba", "nv12"}, u \in BOOLEAN, r \in {Square, [num |-> 4, den |-> 3]}}
Boxed == {[p EXCEPT !.box = Size(4, 4)] : p \in {q \in Pictures8 : q.matrix = <<0, 1, -1, 0>>}}

\* Hardware frames turned by a quarter, which take a frame from each of four pools, at
\* two sizes and in two colours, where memory may run out.
Streams4 ==
  {[Plain EXCEPT !.matrix = <<0, 1, -1, 0>>, !.boxes = {NoBox, Size(2, 2)}, !.memory = y, !.lookups = IF y THEN 7 ELSE 17,
                 !.frames = {Frame(4, 3, "nv12", TRUE), [Frame(4, 3, "nv12", TRUE) EXCEPT !.full = TRUE],
                             Frame(3, 3, "nv12", FALSE)}] : y \in BOOLEAN}

\* Pictures of two sizes that are rearranged first, and one that is not, in any order.
Rearranged ==
  {[Plain EXCEPT !.memory = y, !.lookups = IF y THEN 7 ELSE 17,
                 !.frames = {Frame(4, 3, "nv12", FALSE), Frame(3, 3, "nv12", FALSE), Frame(4, 3, "yuv420p", FALSE)}] :
     y \in BOOLEAN}

\* To gray and to YUV, from RGB and from YUV of both ranges.
Recoloured ==
  {[Plain EXCEPT !.format = o, !.lookups = 9,
                 !.frames = {[Frame(4, 3, f, FALSE) EXCEPT !.full = l] :
                               f \in {"nv12", "yuv420p", "rgba"}, l \in BOOLEAN}] : o \in {"gray8", "nv12"}}

\* Containers of up to three streams.
Cover == [Picture EXCEPT !.art = TRUE, !.declared = 1, !.size = 1]
Large == [Picture EXCEPT !.declared = 5, !.size = 5]
Undeclared == [Large EXCEPT !.declared = 0]
Unknown == [Picture EXCEPT !.decoder = FALSE]
Sound == [Picture EXCEPT !.video = FALSE]
Containers ==
  UNION {[1..n -> {Picture, Cover, Large, Undeclared, Unknown, Sound}] : n \in 0..3}
Offers ==
  {[Plain EXCEPT !.streams = c, !.wishes = [cap |-> p, index |-> i, art |-> a], !.boxes = {}] :
     c \in Containers, p \in {Unset, 3, 0}, i \in {Unset, 2}, a \in BOOLEAN}

AllSettings == Timelines \cup Pictures8 \cup Boxed \cup Streams4 \cup Rearranged \cup Recoloured \cup Offers
=============================================================================
