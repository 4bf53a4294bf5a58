------------------------------- MODULE TopLine ------------------------------
(***************************************************************************)
(* Finding the line along the top of a scanned ballot (scan/scan.go):      *)
(* topLineYCbCr probes columns of the page for an edge (yTopLineFind), has *)
(* linePoints fit a line through them and drop what is off it, and walks   *)
(* along the line to its two ends.  Pixels are read from the flat array of *)
(* the image without regard to the ends of its rows.                       *)
(***************************************************************************)
EXTENDS Integers, FiniteSets, Sequences

CONSTANTS Images,                   \* scans
          Y(_, _),                  \* it.Y: brightness of an image at an offset
          White,                    \* the brightest level, 255
          Size,                     \* len(it.Y)
          Width, Height,            \* of the page, it.Rect.Max
          Stride,                   \* of a row in memory, it.YStride
          Tall, DarkPx,             \* the block: 10 px high (and 3 wide), 4 of them dark
          ProbeFrom, ProbeStep, Margin,  \* probed columns: 10, 25, 100 px
          MinPoints,                \* 20: no line through so few points
          SeekStep, MinDist,        \* 5, 2: the walk to the ends
          Printed(_),               \* the columns in which a clean line shows, or None
          None

ASSUME GeometryAssumption ==
  /\ Width \in Nat /\ Height \in Nat /\ Stride \in Nat /\ Size \in Nat
  /\ White \in Nat /\ Tall \in Nat \ {0} /\ DarkPx \in Nat
  /\ ProbeFrom \in Nat \ {0} /\ ProbeStep \in Nat \ {0} /\ Margin \in Nat
  /\ MinPoints \in Nat \ {0} /\ SeekStep \in Nat \ {0} /\ MinDist \in Nat

VARIABLES image,     \* the scan that is looked at, or None
          threshold, \* scanThresh: darker pixels are dark
          find,      \* where topLineYCbCr is, and its locals
          points     \* topPoints

lineVars == <<image, threshold, find, points>>

(* pc "start" and "slide" are yTopLineFind for a probe or for one of the   *)
(* walks, "fit" is linePoints; "found", "noline" and "panic" are ends.     *)
Seeks == {"probe", "left", "right"}
Idle == [pc |-> "idle", seek |-> "probe", x |-> 0, bottom |-> 0, dark |-> 0,
         line |-> None, dev |-> 0, at |-> None, topLeft |-> None, topRight |-> None]

LineInit == image = None /\ threshold = 0 /\ find = Idle /\ points = <<>>

-----------------------------------------------------------------------------
(* otsuThreshold.  Of the levels with pixels below it takes the one that   *)
(* separates best, any one here.  It counts black pixels on no side: they  *)
(* make the top of the scale a candidate, and with nothing between black   *)
(* and White there is none.                                                *)
InPage == {o \in 0 .. Stride * Height - 1 : o % Stride < Width}
Thresholds(im) ==
  LET levels == {Y(im, o) : o \in InPage}
      splits == {v \in levels \cup (IF 0 \in levels THEN {White} ELSE {}) :
                   \E u \in levels : 0 < u /\ u < v}
  IN  IF splits = {} THEN {0} ELSE splits

(* The pixels of the three columns around x in some rows, and the dark     *)
(* ones of them.  Columns beyond the row are pixels of its neighbours.     *)
Block(x, rows) == rows \X {x - 1, x, x + 1}
Offset(p) == Stride * p[1] + p[2]
DarkIn(x, rows) == {p \in Block(x, rows) : Y(image, Offset(p)) < threshold}
NDark(x, rows) == Cardinality(DarkIn(x, rows))

(* Reading beyond the array panics.                                        *)
Readable(x, rows) == \A p \in Block(x, rows) : Offset(p) \in 0 .. Size - 1
Panic == find' = [find EXCEPT !.pc = "panic"]

(* FindTopLineTransform, processYCbCr: histogram, threshold, first probe.  *)
BeginLine(im) ==
  /\ image' = im
  /\ threshold' \in Thresholds(im)
  /\ find' = [Idle EXCEPT !.pc = IF ProbeFrom < Width - Margin THEN "start" ELSE "fit", !.x = ProbeFrom]
  /\ points' = <<>>

(* yTopLineFind: the block at the top of the column is counted ...         *)
StartColumn ==
  /\ find.pc = "start"
  /\ IF Readable(find.x, 0 .. Tall - 1)
     THEN find' = [find EXCEPT !.pc = "slide", !.bottom = Tall, !.dark = NDark(find.x, 0 .. Tall - 1)]
     ELSE Panic
  /\ UNCHANGED <<image, threshold, points>>

Searching == find.bottom < Height /\ find.dark < DarkPx

(* Mutant: the top row stays in the count.                                 *)
SlideGrows ==
  /\ find.pc = "slide" /\ Searching
  /\ LET top == find.bottom - Tall
     IN  IF Readable(find.x, {top, find.bottom})
         THEN find' = [find EXCEPT !.bottom = @ + 1, !.dark = @ + NDark(find.x, {find.bottom})]
         ELSE Panic
  /\ UNCHANGED <<image, threshold, points>>

(* ... and slides down: the top row is subtracted, the next one added.     *)
Slide ==
  /\ find.pc = "slide" /\ Searching
  /\ LET top == find.bottom - Tall
     IN  IF Readable(find.x, {top, find.bottom})
         THEN find' = [find EXCEPT !.bottom = @ + 1,
                         !.dark = @ - NDark(find.x, {top}) + NDark(find.x, {find.bottom})]
         ELSE Panic
  /\ UNCHANGED <<image, threshold, points>>

-----------------------------------------------------------------------------
(* ordinaryLeastSquares, in integers: with k points of sums X and Y the    *)
(* slope is n / d, and OffLine / (k Sqrt(n^2 + d^2)) is the distance of a  *)
(* point from the line (pointLineDistance).                                *)
gcd[p \in Nat \X Nat] == IF p[2] = 0 THEN p[1] ELSE gcd[<<p[2], p[1] % p[2]>>]
Square(v) == v * v
SumOf(f(_), s) ==
  LET sum[i \in 0 .. Len(s)] == IF i = 0 THEN 0 ELSE sum[i - 1] + f(s[i])
  IN  sum[Len(s)]

Line(s) ==
  LET k  == Len(s)
      sx == SumOf(LAMBDA p : p.x, s)
      sy == SumOf(LAMBDA p : p.y, s)
      n  == SumOf(LAMBDA p : (k * p.x - sx) * (k * p.y - sy), s)
      d  == SumOf(LAMBDA p : Square(k * p.x - sx), s)
      g  == gcd[<<IF n < 0 THEN -n ELSE n, d>>]
  IN  [k |-> k, x |-> sx, y |-> sy, n |-> n \div g, d |-> d \div g]

OffLine(l, p) == l.n * (l.k * p.x - l.x) - l.d * (l.k * p.y - l.y)

(* The mean square of the distances (pldstddev).                           *)
Deviation(l, s) == SumOf(LAMBDA q : Square(OffLine(l, q)), s) \div l.k

(* Farther from the line than both MinDist and the standard deviation.     *)
Far(l, dev, p) ==
  LET off == Square(OffLine(l, p))
  IN  off > dev /\ off > Square(MinDist * l.k) * (Square(l.n) + Square(l.d))

OnLine == ~Far(find.line, find.dev, [x |-> find.x, y |-> find.bottom - 1])

(* The points that are not far, in their order.                            *)
Near(l, dev, s) ==
  LET near[i \in Nat] == IF i = 0 THEN <<>>
                         ELSE IF Far(l, dev, s[i]) THEN near[i - 1] ELSE Append(near[i - 1], s[i])
  IN  near[Len(s)]

(* The walk to the left starts at the second point.                        *)
WalkFrom(l, dev) ==
  find' = [find EXCEPT !.pc = "start", !.seek = "left", !.line = l, !.dev = dev,
                       !.x = points[2].x - SeekStep, !.at = points[2]]

(* Mutant: no point is dropped.                                            *)
LinePointsAll ==
  /\ find.pc = "fit"
  /\ IF Len(points) <= MinPoints
     THEN find' = [find EXCEPT !.pc = "noline"]
     ELSE \E l \in {Line(points)} : WalkFrom(l, Deviation(l, points))
  /\ UNCHANGED <<image, threshold, points>>

(* linePoints: one round.  Points that are far are dropped and the line is *)
(* fitted again, until none is dropped or too few are left.                *)
LinePoints ==
  /\ find.pc = "fit"
  /\ IF Len(points) <= MinPoints
     THEN find' = [find EXCEPT !.pc = "noline"] /\ UNCHANGED points
     ELSE \E l \in {Line(points)} : \E dev \in {Deviation(l, points)} :
            LET kept == Near(l, dev, points)
            IN  IF kept # points
                THEN points' = kept /\ UNCHANGED find
                ELSE WalkFrom(l, dev) /\ UNCHANGED points
  /\ UNCHANGED <<image, threshold>>

-----------------------------------------------------------------------------
(* yTopLineFind returns the last row of the block.                         *)
Edge == find.bottom - 1
Returned == find.pc = "slide" /\ ~Searching

(* Mutant: an edge anywhere is a point.                                    *)
ProbeAnywhere ==
  /\ Returned /\ find.seek = "probe"
  /\ points' = Append(points, [x |-> find.x, y |-> Edge])
  /\ find' = IF find.x + ProbeStep < Width - Margin
             THEN [find EXCEPT !.pc = "start", !.x = @ + ProbeStep]
             ELSE [find EXCEPT !.pc = "fit"]
  /\ UNCHANGED <<image, threshold>>

(* A probe: an edge in the upper half of the page is a point of the line.  *)
Probe ==
  /\ Returned /\ find.seek = "probe"
  /\ points' = IF Edge < Height \div 2 THEN Append(points, [x |-> find.x, y |-> Edge]) ELSE points
  /\ find' = IF find.x + ProbeStep < Width - Margin
             THEN [find EXCEPT !.pc = "start", !.x = @ + ProbeStep]
             ELSE [find EXCEPT !.pc = "fit"]
  /\ UNCHANGED <<image, threshold>>

(* Mutant: the walk stays where it is.                                     *)
WalkInPlace ==
  /\ Returned /\ find.seek # "probe" /\ OnLine
  /\ find' = [find EXCEPT !.pc = "start", !.at = [x |-> find.x, y |-> Edge]]
  /\ UNCHANGED <<image, threshold, points>>

(* A step of a walk: as long as the edge is on the line, go on.  The walk  *)
(* to the right starts at the last point but one.                          *)
WalkOn ==
  /\ Returned /\ find.seek # "probe" /\ OnLine
  /\ find' = [find EXCEPT !.pc = "start", !.at = [x |-> find.x, y |-> Edge],
                !.x = IF find.seek = "left" THEN @ - SeekStep ELSE @ + SeekStep]
  /\ UNCHANGED <<image, threshold, points>>

LeftEnd ==
  /\ Returned /\ find.seek = "left" /\ ~OnLine
  /\ LET p == points[Len(points) - 1]
     IN  find' = [find EXCEPT !.pc = "start", !.seek = "right", !.topLeft = find.at,
                    !.x = p.x + SeekStep, !.at = p]
  /\ UNCHANGED <<image, threshold, points>>

RightEnd ==
  /\ Returned /\ find.seek = "right" /\ ~OnLine
  /\ find' = [find EXCEPT !.pc = "found", !.topRight = find.at]
  /\ UNCHANGED <<image, threshold, points>>

LineStep == StartColumn \/ Slide \/ LinePoints \/ Probe \/ WalkOn \/ LeftEnd \/ RightEnd
LineNext == LineStep \/ (find.pc = "idle" /\ \E im \in Images : BeginLine(im))
LineSpec == LineInit /\ [][LineNext]_lineVars

-----------------------------------------------------------------------------
(* yTopLineFind keeps a count while it slides.  The count is always that   *)
(* of the block at hand, and no block above it was dark enough: what is    *)
(* returned is the first edge of the column (scan.go:154-183).             *)
FirstEdge ==
  find.pc = "slide" =>
    /\ find.dark = NDark(find.x, find.bottom - Tall .. find.bottom - 1)
    /\ \A b \in Tall .. find.bottom - 1 : NDark(find.x, b - Tall .. b - 1) < DarkPx

(* A clean line inside the page is found, although a blot is taken for it  *)
(* at one probe or a gap hides it, and however the threshold falls among   *)
(* the grays; its corners, by which the page is aligned, are its ends to   *)
(* less than one step of the walk (scan.go:700-822).                       *)
CornersAtEnds ==
  find.pc \in {"found", "noline", "panic"} /\ Printed(image) # None =>
    /\ find.pc = "found"
    /\ find.topLeft.x \in Printed(image).left .. Printed(image).left + SeekStep - 1
    /\ find.topRight.x \in Printed(image).right - SeekStep + 1 .. Printed(image).right
=============================================================================
