------------------------------ MODULE Geometry ------------------------------
(* Sizes and orientations of pictures: detail/Transform.h, the geometry of  *)
(* detail/Converter.h, the display matrix of detail/MediaSource.h, and the  *)
(* check of an output box in stills_Options.h.  The code scales in doubles; *)
(* here the same rounding is done on exact fractions.                       *)
EXTENDS Integers

CONSTANT NoBox      \* std::nullopt for a size

Size(width, height) == [width |-> width, height |-> height]
Transposed(size) == Size(size.height, size.width)

AtLeast(least, n) == IF n < least THEN least ELSE n
Even(n) == 2 * (n \div 2)
\* std::lround of a positive fraction.
Nearest(p, q) == (2 * p + q) \div (2 * q)

\* validateMaximumSize(); a dimension of 0 is unconstrained.
IsBox(box, subsampled) ==
  box # NoBox =>
    /\ box.width >= 0 /\ box.height >= 0
    /\ subsampled => box.width # 1 /\ box.height # 1

-----------------------------------------------------------------------------
(* The size of the output.                                                 *)

IsRatio(sar) == sar.num > 0 /\ sar.den > 0

\* resolveSar(): the container's, the frame's, the codec's.
ResolveSar(container, frame, codec) ==
  CASE IsRatio(container) -> container
    [] ~IsRatio(container) /\ IsRatio(frame) -> frame
    [] ~IsRatio(container) /\ ~IsRatio(frame) /\ IsRatio(codec) -> codec
    [] OTHER -> [num |-> 1, den |-> 1]

DisplaySize(coded, sar, applySar, rotation) ==
  LET width == IF applySar /\ IsRatio(sar) /\ sar.num # sar.den
               THEN AtLeast(1, Nearest(coded.width * sar.num, sar.den)) ELSE coded.width
      size == Size(width, coded.height)
  IN IF rotation \in {90, 270} THEN Transposed(size) ELSE size

\* The scale as a fraction: 1, or less if one side of the box asks for it.
Scale(display, box) ==
  LET scales == {<<1, 1>>}
                \cup {<<box.width, display.width>> : i \in IF box.width > 0 THEN {1} ELSE {}}
                \cup {<<box.height, display.height>> : i \in IF box.height > 0 THEN {1} ELSE {}}
  IN CHOOSE s \in scales : \A t \in scales : s[1] * t[2] <= t[1] * s[2]

FitWithin(display, box, subsampled) ==
  LET scale == IF box = NoBox THEN <<1, 1>> ELSE Scale(display, box)
      side(n) == AtLeast(1, Nearest(n * scale[1], scale[2]))
      whole(n) == IF subsampled THEN AtLeast(2, Even(n)) ELSE n
  IN Size(whole(side(display.width)), whole(side(display.height)))

-----------------------------------------------------------------------------
(* Orientation.  Cells are numbered from 0, rows downwards.                *)

\* A display matrix, as far as right angles go: the rows of its linear part,
\* read as in <<x, y>> * M.
Matrices == {m \in (-1..1) \X (-1..1) \X (-1..1) \X (-1..1) :
               m[1] * m[4] - m[2] * m[3] \in {-1, 1} /\ m[1] * m[2] = 0 /\ m[3] * m[4] = 0}

\* av_display_rotation_get(), negated: clockwise degrees of a pure rotation.
Clockwise(a, b) == CASE a = 1 -> 0 [] b = 1 -> 90 [] a = -1 -> 180 [] b = -1 -> 270

\* mutant: a flip is taken for a rotation
RotationOnly(m) == [rotation |-> Clockwise(m[1], m[2]), mirrored |-> FALSE]

\* decodeDisplayMatrix(): a reflection is split off as a horizontal mirror that
\* comes after the rotation.
DecodeDisplayMatrix(m) ==
  LET mirrored == m[1] * m[4] - m[2] * m[3] < 0
  IN [rotation |-> Clockwise(IF mirrored THEN -m[1] ELSE m[1], m[2]), mirrored |-> mirrored]

\* computeRowMap(): where the cells of a source row go.
RowMap(degrees, mirror, width, height, row) ==
  LET map == CASE degrees = 90 -> [x0 |-> height - 1 - row, y0 |-> 0, dx |-> 0, dy |-> 1]
               [] degrees = 180 -> [x0 |-> width - 1, y0 |-> height - 1 - row, dx |-> -1, dy |-> 0]
               [] degrees = 270 -> [x0 |-> row, y0 |-> width - 1, dx |-> 0, dy |-> -1]
               [] OTHER -> [x0 |-> 0, y0 |-> row, dx |-> 1, dy |-> 0]
      across == IF degrees \in {90, 270} THEN height ELSE width
  IN IF mirror THEN [map EXCEPT !.x0 = across - 1 - map.x0, !.dx = -map.dx] ELSE map

\* transformPlane(): the cell that source cell (x, y) is copied to.
Destination(degrees, mirror, width, height, x, y) ==
  LET map == RowMap(degrees, mirror, width, height, y)
  IN <<map.x0 + x * map.dx, map.y0 + x * map.dy>>

\* A plane with a cell for every square of so many pixels a side.
PlaneSize(size, pixels) ==
  Size((size.width + pixels - 1) \div pixels, (size.height + pixels - 1) \div pixels)

=============================================================================
