--------------------------- MODULE MCScanContext ----------------------------
(* A small instance of ScanContext for TLC: pages of 26 x 12 pixels with a *)
(* line two pixels thick, in rows that are two pixels longer in memory and *)
(* repeat their last pixel there.                                          *)
EXTENDS ScanContext

Paper == 5
Ink == 1
Sheet == [left |-> 1, right |-> 0, row |-> 4, slant |-> 0, ink |-> Ink, paper |-> Paper, spots |-> {}, shade |-> Ink]
Ruled == [Sheet EXCEPT !.left = 3, !.right = 22]

(* Blots, gaps and smudges are rectangles of a shade.                      *)
Rect(x1, x2, y1, y2) == [x |-> x1 .. x2, y |-> y1 .. y2]

Pictures ==
  [straight |-> Ruled,
   falling  |-> [Ruled EXCEPT !.row = 2, !.slant = 1],
   rising   |-> [Ruled EXCEPT !.slant = -1],
   blotted  |-> [Ruled EXCEPT !.spots = {Rect(10, 12, 0, 1)}],
   specked  |-> [Ruled EXCEPT !.spots = {Rect(4, 4, 0, 1), Rect(6, 6, 0, 1)}],
   broken   |-> [Ruled EXCEPT !.spots = {Rect(13, 15, 0, 11)}, !.shade = Paper],
   smudged  |-> [Ruled EXCEPT !.spots = {Rect(0, 12, 9, 11)}, !.shade = 3],
   toLeft   |-> [Ruled EXCEPT !.left = 0],
   toRight  |-> [Ruled EXCEPT !.right = 27],
   short    |-> [Ruled EXCEPT !.left = 6, !.right = 12],
   low      |-> [Ruled EXCEPT !.row = 7],
   black    |-> [Ruled EXCEPT !.ink = 0],
   stark    |-> [Ruled EXCEPT !.ink = 0, !.paper = 6],
   blank    |-> Sheet]

SomeImages == DOMAIN Pictures
Clean == {"straight", "falling", "rising", "blotted", "specked", "broken", "smudged"}
PrintedEnds(im) == IF im \in Clean THEN [left |-> 3, right |-> 22] ELSE None

PixelOf(p, x, y) ==
  LET above == p.row + (IF p.slant = 0 THEN 0 ELSE p.slant * (x \div 8))
  IN  IF \E r \in p.spots : x \in r.x /\ y \in r.y THEN p.shade
      ELSE IF x \in p.left .. p.right /\ y \in above .. above + 1 THEN p.ink ELSE p.paper

Shades == [im \in SomeImages |-> [o \in 0 .. 335 |->
  LET x == o % 28 IN PixelOf(Pictures[im], IF x > 25 /\ im # "toRight" THEN 25 ELSE x, o \div 28)]]
Shade(im, o) == Shades[im][o]

CONSTANTS good, fair, bare
SomeQuality(o, c) ==
  IF o = "plain" \/ c = bare THEN -1 ELSE IF c = good THEN 2 ELSE 1
=============================================================================
