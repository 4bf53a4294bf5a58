----------------------------- MODULE ScanProofs -----------------------------
(***************************************************************************)
(* Proofs about ScanContext for pictures of any size and content, any      *)
(* measure of a hotspot's quality and any sequence of calls: a column's    *)
(* edge is its first, an image is aligned by its own transform unless its  *)
(* search failed, the hotspots kept are the best of those drawn, and every *)
(* state is of its type.  Both searches run out of work.  A search for a   *)
(* line finds corners that are the last columns on it; where its walks     *)
(* meet the print as far as it goes they are the ends of the print, and a  *)
(* level line is found.                                                    *)
(***************************************************************************)
EXTENDS ScanContext, Induction, SequenceTheorems

-----------------------------------------------------------------------------
(* Counting dark pixels.                                                   *)

(* Finitely many rows have finitely many dark pixels.                      *)
LEMMA DarkFinite ==
  ASSUME NEW x, NEW rows, IsFiniteSet(rows)
  PROVE  IsFiniteSet(DarkIn(x, rows)) /\ NDark(x, rows) \in Nat
<1>1. IsFiniteSet({x - 1, x, x + 1})
  <2>1. IsFiniteSet({x - 1})
    BY FS_Singleton
  <2>2. IsFiniteSet({x - 1} \cup {x})
    BY <2>1, FS_AddElement
  <2>3. IsFiniteSet(({x - 1} \cup {x}) \cup {x + 1})
    BY <2>2, FS_AddElement
  <2>4. {x - 1, x, x + 1} = ({x - 1} \cup {x}) \cup {x + 1}
    BY Zenon
  <2> QED BY <2>3, <2>4
<1>2. IsFiniteSet(Block(x, rows))
  BY <1>1, FS_Product DEF Block
<1>3. DarkIn(x, rows) \in SUBSET Block(x, rows)
  BY DEF DarkIn
<1> QED BY <1>2, <1>3, FS_Subset, FS_CardinalityType DEF NDark

(* The dark pixels of rows apart from each other add up.                   *)
LEMMA DarkAdds ==
  ASSUME NEW x, NEW A, NEW B, IsFiniteSet(A), IsFiniteSet(B), A \cap B = {}
  PROVE  NDark(x, A \cup B) = NDark(x, A) + NDark(x, B)
<1>1. DarkIn(x, A \cup B) = DarkIn(x, A) \cup DarkIn(x, B)
  BY DEF DarkIn, Block
<1>2. DarkIn(x, A) \cap DarkIn(x, B) = {}
  BY DEF DarkIn, Block
<1>3. Cardinality(DarkIn(x, A) \cap DarkIn(x, B)) = 0
  BY <1>2, FS_EmptySet
<1>4. IsFiniteSet(DarkIn(x, A)) /\ IsFiniteSet(DarkIn(x, B))
      /\ NDark(x, A) \in Nat /\ NDark(x, B) \in Nat
  BY DarkFinite
<1>5. Cardinality(DarkIn(x, A) \cup DarkIn(x, B))
        = Cardinality(DarkIn(x, A)) + Cardinality(DarkIn(x, B))
            - Cardinality(DarkIn(x, A) \cap DarkIn(x, B))
  BY <1>4, FS_Union
<1>6. NDark(x, A \cup B) = Cardinality(DarkIn(x, A) \cup DarkIn(x, B))
  BY <1>1 DEF NDark
<1>7. NDark(x, A) = Cardinality(DarkIn(x, A)) /\ NDark(x, B) = Cardinality(DarkIn(x, B))
  BY DEF NDark
<1> QED BY <1>3, <1>4, <1>5, <1>6, <1>7

(* A block that slides by one row loses its top row and gains the next.    *)
LEMMA DarkSlides ==
  ASSUME NEW x, NEW top \in Nat, NEW bottom \in Nat, top < bottom
  PROVE  NDark(x, top + 1 .. bottom)
           = NDark(x, top .. bottom - 1) - NDark(x, {top}) + NDark(x, {bottom})
<1> DEFINE M == top + 1 .. bottom - 1
<1>1. IsFiniteSet(M) /\ IsFiniteSet({top}) /\ IsFiniteSet({bottom})
  <2>1. top + 1 \in Int /\ bottom - 1 \in Int
    OBVIOUS
  <2>2. IsFiniteSet(M)
    BY <2>1, FS_Interval
  <2> QED BY <2>2, FS_Singleton
<1>2. top .. bottom - 1 = {top} \cup M /\ {top} \cap M = {}
  OBVIOUS
<1>3. top + 1 .. bottom = M \cup {bottom} /\ M \cap {bottom} = {}
  OBVIOUS
<1> HIDE DEF M
<1>4. NDark(x, top .. bottom - 1) = NDark(x, {top}) + NDark(x, M)
  BY <1>1, <1>2, DarkAdds
<1>5. NDark(x, top + 1 .. bottom) = NDark(x, M) + NDark(x, {bottom})
  BY <1>1, <1>3, DarkAdds
<1>6. NDark(x, M) \in Nat /\ NDark(x, {top}) \in Nat /\ NDark(x, {bottom}) \in Nat
  BY <1>1, DarkFinite
<1> QED BY <1>4, <1>5, <1>6

-----------------------------------------------------------------------------
(* The first edge.                                                         *)

(* What find is made of.                                                   *)
Shape(f) ==
  f = [pc |-> f.pc, seek |-> f.seek, x |-> f.x, bottom |-> f.bottom, dark |-> f.dark,
       line |-> f.line, dev |-> f.dev, at |-> f.at, topLeft |-> f.topLeft, topRight |-> f.topRight]

(* The block lies below the top of the page.                               *)
EdgeInv ==
  /\ Shape(find)
  /\ find.pc = "slide" => find.bottom \in Nat /\ find.bottom >= Tall
  /\ FirstEdge

(* Only a slide, and the first block of a column, change what FirstEdge    *)
(* is about.                                                               *)
LEMMA StartEdge ==
  ASSUME EdgeInv, StartColumn PROVE EdgeInv'
<1> USE GeometryAssumption
<1>1. CASE find' = [find EXCEPT !.pc = "slide", !.bottom = Tall, !.dark = NDark(find.x, 0 .. Tall - 1)]
  <2>1. find'.pc = "slide" /\ find'.bottom = Tall /\ find'.x = find.x
        /\ find'.dark = NDark(find.x, 0 .. Tall - 1) /\ Shape(find')
    BY <1>1 DEF EdgeInv, Shape
  <2>2. \A x, rows : NDark(x, rows)' = NDark(x, rows)
    BY DEF StartColumn, NDark, DarkIn
  <2>3. Tall - Tall = 0 /\ Tall .. Tall - 1 = {}
    OBVIOUS
  <2> QED BY <2>1, <2>2, <2>3 DEF EdgeInv, FirstEdge, Shape
<1>2. CASE Panic
  BY <1>2 DEF Panic, EdgeInv, Shape, FirstEdge
<1> QED BY <1>1, <1>2 DEF StartColumn

LEMMA SlideEdge ==
  ASSUME EdgeInv, Slide PROVE EdgeInv'
<1> USE GeometryAssumption
<1> DEFINE b == find.bottom
           top == b - Tall
<1>1. CASE find' = [find EXCEPT !.bottom = @ + 1,
                      !.dark = @ - NDark(find.x, {top}) + NDark(find.x, {b})]
  <2>1. /\ find.pc = "slide" /\ b \in Nat /\ b >= Tall
        /\ find.dark = NDark(find.x, top .. b - 1)
    BY DEF EdgeInv, FirstEdge, Slide
  <2>6. top \in Nat /\ top < b /\ b + 1 - Tall = top + 1 /\ b + 1 - 1 = b
    BY <2>1
  <2>7. NDark(find.x, top + 1 .. b)
          = NDark(find.x, top .. b - 1) - NDark(find.x, {top}) + NDark(find.x, {b})
    BY <2>1, <2>6, DarkSlides
  <2>8. find'.pc = "slide" /\ find'.bottom = b + 1 /\ find'.x = find.x
        /\ find'.dark = find.dark - NDark(find.x, {top}) + NDark(find.x, {b}) /\ Shape(find')
    BY <1>1, <2>1 DEF EdgeInv, Shape
  <2>2. find'.dark = NDark(find.x, top + 1 .. b)
    BY <2>1, <2>7, <2>8
  <2>3. \A x, rows : NDark(x, rows)' = NDark(x, rows)
    BY DEF Slide, NDark, DarkIn
  <2>4. NDark(find.x, top .. b - 1) < DarkPx
    BY <2>1 DEF Slide, Searching
  <2>5. \A c \in Tall .. b : NDark(find.x, c - Tall .. c - 1) < DarkPx
    <3> SUFFICES ASSUME NEW c \in Tall .. b PROVE NDark(find.x, c - Tall .. c - 1) < DarkPx
      OBVIOUS
    <3>1. CASE c = b
      BY <3>1, <2>4
    <3>2. CASE c \in Tall .. b - 1
      BY <3>2 DEF EdgeInv, FirstEdge, Slide
    <3> QED BY <3>1, <3>2, <2>1
  <2> HIDE DEF b, top
  <2> QED BY <2>1, <2>2, <2>3, <2>5, <2>6, <2>8 DEF EdgeInv, FirstEdge
<1>2. CASE Panic
  BY <1>2 DEF Panic, EdgeInv, Shape, FirstEdge
<1> QED BY <1>1, <1>2 DEF Slide

(* Everything else leaves the column alone or starts another.              *)
LEMMA OtherEdge ==
  ASSUME EdgeInv, UNCHANGED <<image, threshold>>, LinePoints \/ Probe \/ WalkOn \/ LeftEnd \/ RightEnd \/ Found \/ NoLine
  PROVE  EdgeInv'
<1>1. CASE LinePoints
  <2>1. find'.pc # "slide" /\ Shape(find')
    BY <1>1 DEF LinePoints, WalkFrom, EdgeInv, Shape
  <2> QED BY <2>1 DEF EdgeInv, FirstEdge
<1>2. CASE Probe
  <2>1. find'.pc # "slide" /\ Shape(find')
    BY <1>2 DEF Probe, EdgeInv, Shape
  <2> QED BY <2>1 DEF EdgeInv, FirstEdge
<1>3. CASE WalkOn \/ LeftEnd \/ RightEnd
  <2>1. find'.pc # "slide" /\ Shape(find')
    BY <1>3 DEF WalkOn, LeftEnd, RightEnd, EdgeInv, Shape
  <2> QED BY <2>1 DEF EdgeInv, FirstEdge
<1>4. CASE Found \/ NoLine
  <2>1. find'.pc # "slide" /\ Shape(find')
    BY <1>4 DEF Found, NoLine, Idle, Shape
  <2> QED BY <2>1 DEF EdgeInv, FirstEdge
<1> QED BY <1>1, <1>2, <1>3, <1>4

-----------------------------------------------------------------------------
(* The transform.                                                          *)

(* A line is only looked for in a call, on its target; between searches    *)
(* the transform is that of the target, or the target's search failed.     *)
ContextInv ==
  /\ call \in Calls \cup {"none", "panic"}
  /\ call \notin Calls => find.pc = "idle"
  /\ find.pc # "idle" => target = image
  /\ find.pc = "idle" => transform = None \/ transform = target \/ missed
  /\ OwnTransform

(* A step of the search is not its end.                                    *)
LEMMA SeekGoesOn ==
  ASSUME Shape(find), LineStep
  PROVE  find.pc # "idle" /\ find'.pc # "idle" /\ UNCHANGED image
<1> USE DEF Shape
<1>1. CASE StartColumn
  BY <1>1 DEF StartColumn, Panic
<1>2. CASE Slide
  BY <1>2 DEF Slide, Panic
<1>3. CASE LinePoints
  BY <1>3 DEF LinePoints, WalkFrom
<1>4. CASE Probe
  BY <1>4 DEF Probe, Returned
<1>5. CASE WalkOn
  BY <1>5 DEF WalkOn, Returned
<1>6. CASE LeftEnd
  BY <1>6 DEF LeftEnd, Returned
<1>7. CASE RightEnd
  BY <1>7 DEF RightEnd, Returned
<1> QED BY <1>1, <1>2, <1>3, <1>4, <1>5, <1>6, <1>7 DEF LineStep

LEMMA ContextStep ==
  ASSUME ContextInv, Shape(find), [Next]_vars PROVE ContextInv'
<1> USE DEF ContextInv, OwnTransform, Aligned
<1>1. CASE Hot \/ UNCHANGED vars
  BY <1>1 DEF Hot, vars, lineVars, contextVars
<1>2. CASE Seek
  BY <1>2, SeekGoesOn DEF Seek, contextVars
<1>3. CASE Found
  BY <1>3 DEF Found, Idle
<1>4. CASE NoLine
  BY <1>4 DEF NoLine, Idle
<1>5. CASE Refine \/ Compare
  BY <1>5 DEF Refine, Compare, lineVars, Calls
<1>6. ASSUME NEW kind \in Calls, NEW im \in Images, Skip(kind, im) PROVE ContextInv'
  BY <1>6 DEF Skip, NewScanContext, HasTransform, Calls
<1>7. ASSUME NEW kind \in Calls, NEW im \in Images, Search(kind, im) PROVE ContextInv'
  <2>1. find'.pc \in {"start", "fit"}
    BY <1>7 DEF Search, BeginLine, Idle
  <2> QED BY <1>7, <2>1 DEF Search, BeginLine
<1> QED BY <1>1, <1>2, <1>3, <1>4, <1>5, <1>6, <1>7 DEF Next

-----------------------------------------------------------------------------
LEMMA EdgeStep ==
  ASSUME EdgeInv, ContextInv, [Next]_vars PROVE EdgeInv'
<1>1. CASE Hot \/ Refine \/ Compare \/ UNCHANGED vars
  <2>1. UNCHANGED <<image, threshold, find>>
    BY <1>1 DEF Hot, Refine, Compare, vars, lineVars
  <2> QED BY <2>1 DEF EdgeInv, FirstEdge, NDark, DarkIn, Shape
<1>2. CASE Seek
  <2>1. CASE StartColumn
    BY <2>1, StartEdge
  <2>2. CASE Slide
    BY <2>2, SlideEdge
  <2>3. CASE LinePoints \/ Probe \/ WalkOn \/ LeftEnd \/ RightEnd
    BY <2>3, OtherEdge DEF LinePoints, Probe, WalkOn, LeftEnd, RightEnd
  <2> QED BY <1>2, <2>1, <2>2, <2>3 DEF Seek, LineStep
<1>3. CASE Found \/ NoLine
  BY <1>3, OtherEdge DEF Found, NoLine
<1>4. ASSUME NEW kind \in Calls, NEW im \in Images, Search(kind, im) PROVE EdgeInv'
  <2>1. find'.pc # "slide" /\ Shape(find')
    BY <1>4 DEF Search, BeginLine, Idle, Shape
  <2> QED BY <2>1 DEF EdgeInv, FirstEdge
<1>5. ASSUME NEW kind \in Calls, NEW im \in Images, Skip(kind, im) PROVE EdgeInv'
  BY <1>5 DEF Skip, NewScanContext, ContextInv, Calls, EdgeInv, FirstEdge, Shape
<1> QED BY <1>1, <1>2, <1>3, <1>4, <1>5 DEF Next

LEMMA ScanInductive == Spec => [](EdgeInv /\ ContextInv)
<1>1. Init => EdgeInv /\ ContextInv
  BY DEF Init, LineInit, Idle, EdgeInv, Shape, FirstEdge, ContextInv, OwnTransform, Aligned, Calls
<1>2. EdgeInv /\ ContextInv /\ [Next]_vars => (EdgeInv /\ ContextInv)'
  BY EdgeStep, ContextStep DEF EdgeInv
<1> QED BY <1>1, <1>2, PTL DEF Spec

(* The count that slides down a column is exact, and the edge it stops at  *)
(* is the first (scan.go:154-183).                                         *)
THEOREM FirstEdgeFound == Spec => []FirstEdge
  BY ScanInductive, PTL DEF EdgeInv

(* An image is aligned by its own transform, or its search has failed      *)
(* (scan.go:759-765).                                                      *)
THEOREM TransformIsOwn == Spec => []OwnTransform
  BY ScanInductive, PTL DEF ContextInv

-----------------------------------------------------------------------------
(* The hotspots.                                                           *)

(* How often c is in a sequence.                                           *)
Count(s, c) == Cardinality({i \in DOMAIN s : s[i] = c})

LEMMA CountType ==
  ASSUME NEW A, NEW s \in Seq(A), NEW c
  PROVE  Count(s, c) \in Nat /\ (Count(s, c) > 0 => \E i \in DOMAIN s : s[i] = c)
<1> DEFINE H == {i \in DOMAIN s : s[i] = c}
<1>1. DOMAIN s = 1 .. Len(s) /\ Len(s) \in Nat
  OBVIOUS
<1>2. IsFiniteSet(1 .. Len(s))
  BY <1>1, FS_Interval
<1>3. IsFiniteSet(H)
  BY <1>1, <1>2, FS_Subset
<1>4. Cardinality(H) \in Nat
  BY <1>3, FS_CardinalityType
<1>5. H = {} => Cardinality(H) = 0
  BY FS_EmptySet
<1> QED BY <1>4, <1>5 DEF Count

(* One more at the end, and another one at a place.                        *)
LEMMA CountAppend ==
  ASSUME NEW A, NEW s \in Seq(A), NEW v \in A, NEW c
  PROVE  Count(Append(s, v), c) = Count(s, c) + IF v = c THEN 1 ELSE 0
<1> DEFINE t == Append(s, v)
           H == {i \in DOMAIN s : s[i] = c}
           n == Len(s) + 1
<1>1. Len(s) \in Nat /\ DOMAIN s = 1 .. Len(s) /\ DOMAIN t = 1 .. n
      /\ t[n] = v /\ \A i \in 1 .. Len(s) : t[i] = s[i]
  OBVIOUS
<1>2. IsFiniteSet(H) /\ n \notin H
  <2>1. IsFiniteSet(1 .. Len(s))
    BY <1>1, FS_Interval
  <2> QED BY <1>1, <2>1, FS_Subset
<1> HIDE DEF t, n
<1>3. {i \in DOMAIN t : t[i] = c} = IF v = c THEN H \cup {n} ELSE H
  BY <1>1 DEF n
<1>4. Cardinality(H \cup {n}) = Cardinality(H) + 1 /\ Cardinality(H) \in Nat
  BY <1>2, FS_AddElement, FS_CardinalityType
<1>5. Count(t, c) = Cardinality(IF v = c THEN H \cup {n} ELSE H) /\ Count(s, c) = Cardinality(H)
  BY <1>3 DEF Count
<1> HIDE DEF H
<1>6. CASE v = c
  BY <1>4, <1>5, <1>6 DEF t
<1>7. CASE v # c
  BY <1>4, <1>5, <1>7 DEF t
<1> QED BY <1>6, <1>7

LEMMA CountExcept ==
  ASSUME NEW A, NEW s \in Seq(A), NEW v \in A, NEW p \in DOMAIN s, NEW c
  PROVE  Count([s EXCEPT ![p] = v], c)
           = Count(s, c) + (IF v = c THEN 1 ELSE 0) - (IF s[p] = c THEN 1 ELSE 0)
<1> DEFINE t == [s EXCEPT ![p] = v]
           H == {i \in DOMAIN s : s[i] = c}
           R == {i \in DOMAIN s \ {p} : s[i] = c}
<1>1. DOMAIN t = DOMAIN s /\ t[p] = v /\ \A i \in DOMAIN s \ {p} : t[i] = s[i]
  OBVIOUS
<1>2. IsFiniteSet(DOMAIN s)
  <2>1. Len(s) \in Nat /\ DOMAIN s = 1 .. Len(s)
    OBVIOUS
  <2> QED BY <2>1, FS_Interval
<1>3. IsFiniteSet(R) /\ p \notin R
  BY <1>2, FS_Subset
<1> HIDE DEF t
<1>4. {i \in DOMAIN t : t[i] = c} = IF v = c THEN R \cup {p} ELSE R
  BY <1>1
<1>5. H = IF s[p] = c THEN R \cup {p} ELSE R
  OBVIOUS
<1> HIDE DEF R, H
<1>6. Cardinality(R \cup {p}) = Cardinality(R) + 1 /\ Cardinality(R) \in Nat
  BY <1>3, FS_AddElement, FS_CardinalityType
<1>7. Count(t, c) = Cardinality(IF v = c THEN R \cup {p} ELSE R)
  BY <1>4 DEF Count
<1>8. Count(s, c) = Cardinality(IF s[p] = c THEN R \cup {p} ELSE R)
  BY <1>5 DEF Count, H
<1>9. Count(t, c) = Cardinality(R) + IF v = c THEN 1 ELSE 0
  BY <1>6, <1>7
<1>10. Count(s, c) = Cardinality(R) + IF s[p] = c THEN 1 ELSE 0
  BY <1>6, <1>8
<1> QED BY <1>6, <1>9, <1>10 DEF t

(* What the two slices hold while a candidate c goes up, and when it has   *)
(* been dealt with: they match; they are sorted but for the candidate,     *)
(* which stays below what has not been compared yet; and a place that is   *)
(* kept less often than d says is no better than any that is kept.         *)
Matching == \A i \in DOMAIN spots : scores[i] = Quality(orig, spots[i])
Sorted == \A i, j \in DOMAIN spots : i < j => scores[i] >= scores[j]
SortedBut(p) ==
  /\ \A i, j \in DOMAIN spots \ {p} : i < j => scores[i] >= scores[j]
  /\ \A j \in DOMAIN spots : p < j => scores[p] >= scores[j]
Counted(d) ==
  \A c \in Places :
    /\ Kept(c) <= d[c]
    /\ Kept(c) < d[c] =>
         Len(spots) = NHotspots /\ \A i \in DOMAIN spots : Quality(orig, c) <= scores[i]

(* The candidate of the insertion does not count as drawn until it is in.  *)
DrawnBefore == [drawn EXCEPT ![hot.c] = @ - 1]
Pending == hot.pos = Len(spots)
Q == Quality(orig, hot.c)

HotTypes ==
  /\ orig \in Origs /\ spots \in Seq(Places) /\ Len(spots) <= NHotspots
  /\ scores \in [1 .. NHotspots -> Int] /\ drawn \in [Places -> Nat]
  /\ hot = [pc |-> hot.pc, c |-> hot.c, pos |-> hot.pos, checked |-> hot.checked]
  /\ hot.pc \in {"idle", "failed", "panic", "draw", "insert", "place", "done"}
  /\ hot.checked \in 0 .. NHotspots * PerSpot
  /\ hot.pc \in {"insert", "place"} =>
       /\ hot.c \in Places /\ drawn[hot.c] > 0 /\ hot.pos \in 1 .. Len(spots)
       /\ hot.checked < NHotspots * PerSpot

HotInv ==
  /\ HotTypes
  /\ hot.pc = "idle" => spots = <<>> /\ drawn = NotDrawn
  /\ hot.pc \in {"draw", "insert", "place"} => Matching
  /\ hot.pc = "draw" => Sorted /\ Counted(drawn)
  /\ hot.pc = "insert" /\ Pending => Sorted /\ Counted(DrawnBefore)
  /\ hot.pc = "insert" /\ ~Pending =>
       spots[hot.pos + 1] = hot.c /\ SortedBut(hot.pos + 1) /\ Counted(drawn)
  /\ hot.pc = "place" => Sorted
  /\ hot.pc = "place" /\ Pending /\ hot.pos < NHotspots =>
       Q <= scores[hot.pos] /\ Counted(DrawnBefore)
  /\ hot.pc = "place" /\ ~(Pending /\ hot.pos < NHotspots) => Counted(drawn)

LEMMA HotConstants ==
  /\ NHotspots \in Nat /\ NHotspots > 0 /\ NHotspots * PerSpot \in Nat
  /\ \A o \in Origs, c \in Places : Quality(o, c) \in Int
BY HotspotsAssumption

LEMMA KeptIsCount == \A c : Kept(c) = Count(spots, c)
BY DEF Kept, Count

LEMMA HotInitially == HotInit => HotInv
<1> SUFFICES ASSUME HotInit PROVE HotInv
  OBVIOUS
<1> USE HotConstants DEF HotInit, NoSearch, NoScores, NotDrawn
<1>1. spots \in Seq(Places) /\ Len(spots) <= NHotspots
  OBVIOUS
<1>2. scores \in [1 .. NHotspots -> Int] /\ drawn \in [Places -> Nat]
  OBVIOUS
<1> QED BY <1>1, <1>2 DEF HotInv, HotTypes

(* Taking in a candidate: the step of the insertion sort that passes it    *)
(* by pos.                                                                 *)
LEMMA InsertKeeps ==
  ASSUME HotInv, Insert,
         NEW N, N = NHotspots, NEW p, p = hot.pos, NEW c, c = hot.c,
         NEW q, q = Quality(orig, c)
  PROVE  HotInv'
<1> DEFINE L == Len(spots)
           moved == IF p = L /\ p < N THEN Append(spots, spots[p])
                    ELSE IF p < L THEN [spots EXCEPT ![p + 1] = spots[p]] ELSE spots
           M == Len(moved)
<1>1. /\ hot.pc = "insert" /\ q > scores[p]
      /\ spots' = [moved EXCEPT ![p] = c]
      /\ scores' = [i \in 1 .. N |-> IF i = p THEN q ELSE IF i = p + 1 THEN scores[p] ELSE scores[i]]
      /\ hot' = IF p = 1 THEN [hot EXCEPT !.pc = "place"] ELSE [hot EXCEPT !.pos = p - 1]
      /\ UNCHANGED <<orig, drawn>>
  BY DEF Insert, Better
<1>2. /\ orig \in Origs /\ spots \in Seq(Places) /\ L \in Nat /\ L <= N /\ N \in Nat /\ N > 0
      /\ c \in Places /\ p \in Nat /\ 1 <= p /\ p <= L /\ q \in Int
      /\ drawn[c] > 0 /\ drawn \in [Places -> Nat] /\ scores \in [1 .. N -> Int]
  BY <1>1, HotConstants DEF HotInv, HotTypes
<1>3. /\ hot = [pc |-> hot.pc, c |-> c, pos |-> p, checked |-> hot.checked]
      /\ hot.checked \in 0 .. N * PerSpot /\ hot.checked < N * PerSpot
  BY <1>1 DEF HotInv, HotTypes
<1>4. /\ hot'.c = c /\ hot'.checked = hot.checked
      /\ hot' = [pc |-> hot'.pc, c |-> hot'.c, pos |-> hot'.pos, checked |-> hot'.checked]
      /\ IF p = 1 THEN hot'.pc = "place" /\ hot'.pos = 1 ELSE hot'.pc = "insert" /\ hot'.pos = p - 1
  BY <1>1, <1>3
<1> HIDE DEF L
<1>5. DOMAIN spots = 1 .. L /\ \A i \in 1 .. L : spots[i] \in Places
  BY <1>2 DEF L
<1>6. /\ moved \in Seq(Places) /\ M = (IF p = L /\ p < N THEN L + 1 ELSE L)
      /\ \A i \in 1 .. M : moved[i] = IF i = p + 1 THEN spots[p] ELSE spots[i]
  <2>1. CASE p = L /\ p < N
    BY <1>2, <1>5, <2>1
  <2>2. CASE p < L
    <3>1. moved = [spots EXCEPT ![p + 1] = spots[p]] /\ p + 1 \in DOMAIN spots /\ spots[p] \in Places
      BY <1>2, <1>5, <2>2
    <3>2. moved \in Seq(Places) /\ Len(moved) = L
      BY <1>2, <3>1, ExceptSeq DEF L
    <3>3. \A i \in DOMAIN spots : moved[i] = IF i = p + 1 THEN spots[p] ELSE spots[i]
      BY <3>1
    <3> HIDE DEF moved
    <3> QED BY <1>2, <1>5, <2>2, <3>2, <3>3
  <2>3. CASE p = L /\ ~(p < N)
    BY <1>2, <1>5, <2>3
  <2> QED BY <1>2, <2>1, <2>2, <2>3
<1> HIDE DEF moved
<1>7. /\ M \in Nat /\ L <= M /\ M <= N /\ p <= M /\ (p < N => p < M) /\ M <= L + 1
      /\ (M = L + 1 => p = L) /\ p \in 1 .. L /\ p \in 1 .. M
  <2>1. M = IF p = L /\ p < N THEN L + 1 ELSE L
    BY <1>6
  <2> HIDE DEF M
  <2> QED BY <1>2, <2>1
<1>8. /\ spots' \in Seq(Places) /\ Len(spots') = M /\ DOMAIN spots' = 1 .. M
      /\ spots'[p] = c /\ \A i \in 1 .. M : i # p => spots'[i] = moved[i]
  <2>1. DOMAIN moved = 1 .. M
    BY <1>6
  <2> QED BY <1>1, <1>2, <1>6, <1>7, <2>1, ExceptSeq
<1> HIDE DEF M
(* Where the spot and the score at i come from.                            *)
<1> DEFINE From(i) == IF i = p + 1 THEN p ELSE i
<1>9. /\ scores' \in [1 .. N -> Int] /\ scores'[p] = q
      /\ \A i \in 1 .. M : i # p => From(i) \in 1 .. L /\ scores'[i] = scores[From(i)]
                                   /\ spots'[i] = spots[From(i)]
  <2>1. scores' \in [1 .. N -> Int] /\ scores'[p] = q
    BY <1>1, <1>2
  <2>2. ASSUME NEW i \in 1 .. M, i # p
        PROVE  From(i) \in 1 .. L /\ scores'[i] = scores[From(i)] /\ spots'[i] = spots[From(i)]
    <3>1. i \in 1 .. N
      BY <1>2, <1>7
    <3>2. From(i) \in 1 .. L
      <4>1. CASE i = p + 1
        BY <1>7, <4>1
      <4>2. CASE i # p + 1
        <5>1. i \in Nat /\ 1 <= i /\ i <= M
          BY <1>7
        <5>2. M = L \/ (M = L + 1 /\ p = L)
          <6>1. L \in Nat /\ M \in Nat /\ L <= M /\ M <= L + 1
            BY <1>2, <1>7
          <6> QED BY <1>7, <6>1
        <5>3. L \in Nat /\ i # p + 1
          BY <1>2, <4>2
        <5>4. i \in 1 .. L
          BY <5>1, <5>2, <5>3
        <5> QED BY <4>2, <5>4
      <4> QED BY <4>1, <4>2
    <3>3. scores'[i] = scores[From(i)]
      BY <1>1, <2>2, <3>1
    <3> QED BY <1>6, <1>8, <2>2, <3>2, <3>3
  <2> QED BY <2>1, <2>2
<1>10. /\ \A i \in 1 .. L : scores[i] = Quality(orig, spots[i]) /\ scores[i] \in Int
       /\ \A i, j \in 1 .. L : i < j /\ (p < L => i # p + 1 /\ j # p + 1) => scores[i] >= scores[j]
  <2>1. Matching /\ \A i \in 1 .. L : scores[i] \in Int
    BY <1>1, <1>2 DEF HotInv
  <2>2. CASE p = L
    BY <1>1, <1>5, <2>1, <2>2 DEF HotInv, Sorted, Pending, Matching, L
  <2>3. CASE p < L
    <3>1. SortedBut(p + 1)
      BY <1>1, <1>2, <2>3 DEF HotInv, Pending, L
    <3>2. \A i, j \in 1 .. L : i < j /\ i # p + 1 /\ j # p + 1 => scores[i] >= scores[j]
      BY <1>5, <3>1 DEF SortedBut
    <3> QED BY <1>5, <2>1, <2>3, <3>2 DEF Matching
  <2> QED BY <1>2, <2>2, <2>3
<1>11. Matching'
  <2> SUFFICES ASSUME NEW i \in 1 .. M PROVE scores'[i] = Quality(orig, spots'[i])
    BY <1>1, <1>8 DEF Matching
  <2>1. CASE i = p
    BY <1>8, <1>9, <2>1
  <2>2. CASE i # p
    BY <1>9, <1>10, <2>2
  <2> QED BY <2>1, <2>2
<1>12. \A i, j \in 1 .. M : i # p /\ j # p /\ i < j => scores'[i] >= scores'[j]
  <2> SUFFICES ASSUME NEW i \in 1 .. M, NEW j \in 1 .. M, i # p, j # p, i < j
               PROVE  scores'[i] >= scores'[j]
    OBVIOUS
  <2>1. From(i) < From(j) /\ From(i) # p + 1 /\ From(j) # p + 1
    BY <1>2
  <2>2. /\ From(i) \in 1 .. L /\ scores'[i] = scores[From(i)]
        /\ From(j) \in 1 .. L /\ scores'[j] = scores[From(j)]
    BY <1>9
  <2> HIDE DEF From
  <2> QED BY <1>10, <2>1, <2>2
<1>13. \A j \in 1 .. M : p < j => q >= scores'[j]
  <2> SUFFICES ASSUME NEW j \in 1 .. M, p < j PROVE q >= scores'[j]
    OBVIOUS
  <2>1. /\ From(j) \in 1 .. L /\ scores'[j] = scores[From(j)] /\ p \in 1 .. L
        /\ From(j) = p \/ (p < From(j) /\ From(j) # p + 1)
    <3>1. From(j) \in 1 .. L /\ scores'[j] = scores[From(j)]
      <4>1. j # p
        BY <1>2
      <4> HIDE DEF From
      <4> QED BY <1>9, <4>1
    <3> QED BY <1>2, <1>7, <3>1
  <2> HIDE DEF From
  <2>2. scores[p] \in Int /\ scores[From(j)] \in Int /\ scores[p] >= scores[From(j)]
    <3>1. scores[p] \in Int /\ scores[From(j)] \in Int
      BY <1>10, <2>1
    <3>2. CASE From(j) = p
      BY <3>1, <3>2
    <3>3. CASE p < From(j) /\ From(j) # p + 1
      <4>1. p < L => p # p + 1
        BY <1>2
      <4> QED BY <1>10, <2>1, <3>3, <4>1
    <3> QED BY <2>1, <3>1, <3>2, <3>3
  <2> QED BY <1>1, <1>2, <2>1, <2>2
<1>14. /\ \A i, j \in DOMAIN spots' \ {p} : i < j => scores'[i] >= scores'[j]
       /\ \A j \in DOMAIN spots' : p < j => scores'[p] >= scores'[j]
  BY <1>8, <1>9, <1>12, <1>13
<1>15. p = 1 => Sorted'
  <2> SUFFICES ASSUME p = 1, NEW i \in DOMAIN spots', NEW j \in DOMAIN spots', i < j
               PROVE  scores'[i] >= scores'[j]
    BY DEF Sorted
  <2>1. j # p
    BY <1>8
  <2> QED BY <1>14, <2>1
(* What is counted: the spot that drops out is the worst.                  *)
<1>16. ASSUME NEW x \in Places
       PROVE  /\ Kept(x)' <= drawn[x]
              /\ Kept(x)' < drawn[x] => M = N /\ \A i \in 1 .. M : Quality(orig, x) <= scores'[i]
  <2> DEFINE one(v) == IF v = x THEN 1 ELSE 0
             d == DrawnBefore
  <2>1. Quality(orig, x) \in Int /\ drawn[x] \in Nat
    BY <1>2, HotConstants
  <2>2. Kept(x) \in Nat /\ Kept(x)' = Count(spots', x) /\ Kept(x) = Count(spots, x)
    <3>1. Count(spots, x) \in Nat
      BY <1>2, CountType
    <3> QED BY <3>1 DEF Kept, Count
  <2>3. Count(spots', x) = Count(moved, x) + one(c) - one(moved[p])
    <3>1. p \in DOMAIN moved /\ moved \in Seq(Places) /\ c \in Places
      <4>1. DOMAIN moved = 1 .. M
        BY <1>6 DEF M
      <4> QED BY <1>2, <1>6, <1>7, <4>1
    <3>2. spots' = [moved EXCEPT ![p] = c]
      BY <1>1
    <3>3. Count([moved EXCEPT ![p] = c], x) = Count(moved, x) + one(c) - one(moved[p])
      BY <3>1, CountExcept
    <3> QED BY <3>2, <3>3
  <2>4. moved[p] = spots[p]
    BY <1>2, <1>6, <1>7
  <2>5. CASE p < L
    <3>1. spots[p + 1] = c /\ Counted(drawn) /\ M = L
      BY <1>1, <1>2, <1>6, <2>5 DEF HotInv, Pending, L
    <3>2. Count(moved, x) = Count(spots, x) + one(spots[p]) - one(c)
      <4>1. moved = [spots EXCEPT ![p + 1] = spots[p]]
        BY <1>2, <2>5 DEF moved
      <4>2. p + 1 \in DOMAIN spots /\ spots \in Seq(Places) /\ spots[p] \in Places
        <5>1. p \in 1 .. L /\ p + 1 \in 1 .. L
          BY <1>2, <2>5
        <5> QED BY <1>2, <1>5, <5>1
      <4> DEFINE r == p + 1
                 v == spots[p]
      <4> HIDE DEF r, v
      <4>3. moved = [spots EXCEPT ![r] = v] /\ r \in DOMAIN spots /\ v \in Places
        BY <4>1, <4>2 DEF r, v
      <4>4. Count([spots EXCEPT ![r] = v], x) = Count(spots, x) + one(v) - one(spots[r])
        <5>1. spots \in Seq(Places) /\ r \in DOMAIN spots /\ v \in Places
          BY <4>2, <4>3
        <5> HIDE DEF one
        <5>2. Count([spots EXCEPT ![r] = v], x)
                = Count(spots, x) + (IF v = x THEN 1 ELSE 0) - (IF spots[r] = x THEN 1 ELSE 0)
          BY <5>1, CountExcept
        <5> QED BY <5>2 DEF one
      <4> QED BY <3>1, <4>3, <4>4 DEF r, v
    <3>3. Kept(x)' = Kept(x)
      BY <2>2, <2>3, <2>4, <3>2
    <3>4. Kept(x) <= drawn[x] /\ (Kept(x) < drawn[x] => L = N /\ \A i \in 1 .. L : Quality(orig, x) <= scores[i])
      BY <1>5, <3>1 DEF Counted, L
    <3>5. ASSUME \A i \in 1 .. L : Quality(orig, x) <= scores[i], NEW i \in 1 .. M
          PROVE  Quality(orig, x) <= scores'[i]
      <4>1. CASE i = p
        <5>1. Quality(orig, x) <= scores[p] /\ scores[p] \in Int
          BY <1>7, <1>10, <3>5
        <5> QED BY <1>1, <1>2, <1>9, <2>1, <4>1, <5>1
      <4>2. CASE i # p
        BY <1>9, <3>5, <4>2
      <4> QED BY <4>1, <4>2
    <3> QED BY <3>1, <3>3, <3>4, <3>5
  <2>6. CASE p = L
    <3>1. Counted(d)
      BY <1>1, <2>6 DEF HotInv, Pending, L
    <3>2. d[x] = drawn[x] - one(c)
      BY <1>2 DEF DrawnBefore
    <3> HIDE DEF d
    <3>3. Kept(x) <= d[x] /\ (Kept(x) < d[x] => L = N /\ \A i \in 1 .. L : Quality(orig, x) <= scores[i])
      BY <1>5, <3>1 DEF Counted, L
    <3>4. CASE p < N
      <4>1. Count(moved, x) = Count(spots, x) + one(spots[p])
        BY <1>2, <1>5, <1>7, <2>6, <3>4, CountAppend DEF moved
      <4>2. Kept(x)' = Kept(x) + one(c)
        BY <2>2, <2>3, <2>4, <4>1
      <4> QED BY <1>2, <2>1, <2>2, <2>6, <3>2, <3>3, <3>4, <4>2
    <3>5. CASE ~(p < N)
      <4>1. moved = spots /\ L = N /\ M = N /\ p = N
        BY <1>2, <1>6, <2>6, <3>5 DEF moved
      <4>2. Kept(x)' = Kept(x) + one(c) - one(spots[p])
        BY <2>2, <2>3, <4>1
      <4>3. scores[p] \in Int /\ scores[p] = Quality(orig, spots[p]) /\ \A i \in 1 .. L : scores[p] <= scores[i]
        <5>1. scores[p] \in Int /\ scores[p] = Quality(orig, spots[p])
          BY <1>7, <1>10
        <5>2. ASSUME NEW i \in 1 .. L PROVE scores[p] <= scores[i]
          <6>1. CASE i = p
            BY <5>1, <6>1
          <6>2. CASE i # p
            <7>1. i < p /\ p \in 1 .. L /\ ~(p < L)
              BY <1>2, <2>6, <6>2
            <7>2. scores[i] >= scores[p] /\ scores[i] \in Int
              BY <1>10, <7>1
            <7> QED BY <5>1, <7>2
          <6> QED BY <6>1, <6>2
        <5> QED BY <5>1, <5>2
      <4>4. Kept(x)' <= drawn[x]
        BY <2>1, <2>2, <3>2, <3>3, <4>2
      <4>5. ASSUME Kept(x)' < drawn[x] PROVE Quality(orig, x) <= scores[p]
        <5>1. CASE Kept(x) < d[x]
          BY <1>7, <3>3, <5>1
        <5>2. CASE x = spots[p]
          BY <4>3, <5>2
        <5> QED BY <2>1, <2>2, <3>2, <3>3, <4>2, <4>5, <5>1, <5>2
      <4>6. ASSUME Kept(x)' < drawn[x], NEW i \in 1 .. M PROVE Quality(orig, x) <= scores'[i]
        <5>1. CASE i = p
          BY <1>1, <1>2, <1>9, <2>1, <4>3, <4>5, <4>6, <5>1
        <5>2. CASE i # p
          <6>1. i \in 1 .. L /\ scores'[i] = scores[i] /\ scores[i] \in Int
            BY <1>2, <1>9, <1>10, <4>1, <5>2
          <6> QED BY <2>1, <4>3, <4>5, <4>6, <6>1
        <5> QED BY <5>1, <5>2
      <4> QED BY <4>1, <4>4, <4>6
    <3> QED BY <3>4, <3>5
  <2> QED BY <1>2, <2>5, <2>6
<1>17. Counted(drawn)'
  BY <1>1, <1>8, <1>16 DEF Counted
<1>18. HotTypes'
  <2>1. hot'.pos \in 1 .. M
    BY <1>2, <1>4, <1>7
  <2>2. drawn'[hot'.c] > 0 /\ hot'.pos \in 1 .. Len(spots')
    BY <1>1, <1>2, <1>4, <1>8, <2>1
  <2>3. hot'.pc \in {"insert", "place"} /\ hot'.c \in Places
    BY <1>2, <1>4
  <2>4. orig' \in Origs /\ drawn' \in [Places -> Nat] /\ Len(spots') <= NHotspots
        /\ spots' \in Seq(Places) /\ scores' \in [1 .. NHotspots -> Int]
    BY <1>1, <1>2, <1>7, <1>8, <1>9
  <2>5. hot'.checked \in 0 .. NHotspots * PerSpot /\ hot'.checked < NHotspots * PerSpot
    BY <1>3, <1>4
  <2> QED BY <1>4, <2>1, <2>2, <2>3, <2>4, <2>5 DEF HotTypes
<1>19. CASE p = 1
  <2>1. hot'.pc = "place" /\ hot'.pos = 1 /\ Sorted'
    BY <1>4, <1>15, <1>19
  <2>2. ~(Pending' /\ hot'.pos < NHotspots)
    BY <1>7, <1>8, <1>19, <2>1 DEF Pending
  <2> QED BY <1>11, <1>17, <1>18, <2>1, <2>2 DEF HotInv
<1>20. CASE p # 1
  <2>1. hot'.pc = "insert" /\ hot'.pos = p - 1 /\ hot'.pos + 1 = p
    BY <1>2, <1>4, <1>20
  <2>2. ~Pending'
    BY <1>2, <1>7, <1>8, <2>1 DEF Pending
  <2>3. spots'[hot'.pos + 1] = hot'.c
    BY <1>4, <1>8, <2>1
  <2>4. SortedBut(hot.pos + 1)'
    BY <1>14, <2>1 DEF SortedBut
  <2> QED BY <1>11, <1>17, <1>18, <2>1, <2>2, <2>3, <2>4 DEF HotInv
<1> QED BY <1>19, <1>20

LEMMA DrawKeeps ==
  ASSUME HotInv, NEW c \in Places, Draw(c) PROVE HotInv'
<1> USE HotConstants
<1>1. /\ hot.pc = "draw" /\ hot.checked < NHotspots * PerSpot /\ UNCHANGED orig
      /\ Matching /\ Sorted /\ Counted(drawn) /\ HotTypes
  BY DEF Draw, HotInv
<1>2. /\ orig \in Origs /\ spots \in Seq(Places) /\ Len(spots) \in Nat /\ Len(spots) <= NHotspots
      /\ drawn \in [Places -> Nat] /\ scores \in [1 .. NHotspots -> Int]
      /\ hot = [pc |-> hot.pc, c |-> hot.c, pos |-> hot.pos, checked |-> hot.checked]
      /\ hot.checked \in 0 .. NHotspots * PerSpot /\ Quality(orig, c) \in Int
  BY <1>1 DEF HotTypes
<1>3. CASE Quality(orig, c) < 0
  <2>1. /\ hot'.pc = "draw" /\ hot'.checked = hot.checked
        /\ hot' = [pc |-> hot'.pc, c |-> hot'.c, pos |-> hot'.pos, checked |-> hot'.checked]
        /\ UNCHANGED <<orig, spots, scores, drawn>>
    BY <1>1, <1>2, <1>3 DEF Draw
  <2>2. HotTypes'
    BY <1>1, <1>2, <2>1 DEF HotTypes
  <2>3. Matching' /\ Sorted' /\ Counted(drawn)'
    BY <1>1, <2>1 DEF Matching, Sorted, Counted, Kept
  <2> QED BY <2>1, <2>2, <2>3 DEF HotInv
<1>4. CASE ~(Quality(orig, c) < 0) /\ spots = <<>>
  <2>1. /\ drawn' = [drawn EXCEPT ![c] = @ + 1] /\ spots' = <<c>>
        /\ scores' = [scores EXCEPT ![1] = Quality(orig, c)]
        /\ hot' = [hot EXCEPT !.c = c] /\ UNCHANGED orig
    BY <1>1, <1>4 DEF Draw
  <2>2. /\ hot'.pc = "draw" /\ hot'.checked = hot.checked
        /\ hot' = [pc |-> hot'.pc, c |-> hot'.c, pos |-> hot'.pos, checked |-> hot'.checked]
    BY <1>1, <1>2, <2>1
  <2>3. spots' \in Seq(Places) /\ Len(spots') = 1 /\ DOMAIN spots' = {1} /\ spots'[1] = c
    BY <2>1
  <2>4. scores' \in [1 .. NHotspots -> Int] /\ scores'[1] = Quality(orig, c)
    BY <1>2, <2>1
  <2>5. drawn' \in [Places -> Nat] /\ HotTypes'
    BY <1>1, <1>2, <2>1, <2>2, <2>3, <2>4 DEF HotTypes
  <2>6. Matching' /\ Sorted'
    BY <2>1, <2>3, <2>4 DEF Matching, Sorted
  <2>7. \A x \in Places : Kept(x) = 0 /\ drawn[x] = 0
    <3> SUFFICES ASSUME NEW x \in Places PROVE Kept(x) = 0 /\ drawn[x] = 0
      OBVIOUS
    <3>1. Kept(x) = 0
      <4>1. {i \in DOMAIN spots : spots[i] = x} = {}
        BY <1>4
      <4> QED BY <4>1, FS_EmptySet DEF Kept
    <3>2. 0 < drawn[x] => Len(spots) = NHotspots
      BY <1>1, <3>1 DEF Counted
    <3>3. Len(spots) = 0 /\ drawn[x] \in Nat
      BY <1>2, <1>4
    <3> QED BY <3>1, <3>2, <3>3
  <2>8. ASSUME NEW x \in Places PROVE Kept(x)' = drawn'[x]
    <3>1. Count(spots', x) = Count(spots, x) + IF c = x THEN 1 ELSE 0
      <4>1. spots' = Append(spots, c)
        BY <1>4, <2>1
      <4> QED BY <1>2, <4>1, CountAppend
    <3>2. Count(spots, x) = 0 /\ drawn[x] = 0
      BY <2>7 DEF Kept, Count
    <3>3. drawn'[x] = IF c = x THEN 1 ELSE 0
      BY <1>2, <2>1, <3>2
    <3> QED BY <3>1, <3>2, <3>3 DEF Kept, Count
  <2>9. Counted(drawn)'
    <3>1. \A x \in Places : drawn'[x] \in Nat
      BY <2>5
    <3> QED BY <2>8, <3>1 DEF Counted
  <2> QED BY <2>2, <2>5, <2>6, <2>9 DEF HotInv
<1>5. CASE ~(Quality(orig, c) < 0) /\ spots # <<>>
  <2>1. /\ drawn' = [drawn EXCEPT ![c] = @ + 1]
        /\ hot' = [hot EXCEPT !.pc = "insert", !.c = c, !.pos = Len(spots)]
        /\ UNCHANGED <<orig, spots, scores>>
    BY <1>1, <1>5 DEF Draw
  <2>2. /\ hot'.pc = "insert" /\ hot'.checked = hot.checked /\ hot'.c = c /\ hot'.pos = Len(spots)
        /\ hot' = [pc |-> hot'.pc, c |-> hot'.c, pos |-> hot'.pos, checked |-> hot'.checked]
    BY <1>1, <1>2, <2>1
  <2>3. drawn' \in [Places -> Nat] /\ drawn'[c] > 0 /\ Len(spots) > 0
    BY <1>2, <1>5, <2>1
  <2>4. HotTypes'
    BY <1>1, <1>2, <2>1, <2>2, <2>3 DEF HotTypes
  <2>5. Matching' /\ Sorted' /\ Pending'
    BY <1>1, <2>1, <2>2 DEF Matching, Sorted, Pending
  <2>6. DrawnBefore' = drawn
    <3>1. DrawnBefore' = [drawn' EXCEPT ![c] = drawn'[c] - 1]
      BY <2>2 DEF DrawnBefore
    <3>2. drawn'[c] - 1 = drawn[c] /\ \A x \in Places : x # c => drawn'[x] = drawn[x]
      BY <1>2, <2>1
    <3>3. \A x \in Places : [drawn' EXCEPT ![c] = drawn'[c] - 1][x] = drawn[x]
      BY <2>3, <3>2
    <3> QED BY <1>2, <2>3, <3>1, <3>3
  <2>7. Counted(DrawnBefore)'
    BY <1>1, <2>1, <2>6 DEF Counted, Kept
  <2> QED BY <2>2, <2>4, <2>5, <2>7 DEF HotInv
<1> QED BY <1>3, <1>4, <1>5

(* It stays below the first that is as good.                               *)
LEMMA BeatenKeeps ==
  ASSUME HotInv, Beaten PROVE HotInv'
<1> USE HotConstants
<1>1. /\ hot.pc = "insert" /\ ~Better /\ hot' = [hot EXCEPT !.pc = "place"]
      /\ UNCHANGED <<orig, spots, scores, drawn>>
  BY DEF Beaten
<1>2. /\ orig \in Origs /\ spots \in Seq(Places) /\ Len(spots) \in Nat /\ Len(spots) <= NHotspots
      /\ hot.c \in Places /\ hot.pos \in 1 .. Len(spots) /\ DOMAIN spots = 1 .. Len(spots)
      /\ scores \in [1 .. NHotspots -> Int] /\ drawn \in [Places -> Nat]
      /\ hot = [pc |-> hot.pc, c |-> hot.c, pos |-> hot.pos, checked |-> hot.checked]
  BY <1>1 DEF HotInv, HotTypes
<1>3. /\ hot'.pc = "place" /\ hot'.c = hot.c /\ hot'.pos = hot.pos /\ hot'.checked = hot.checked
      /\ hot' = [pc |-> hot'.pc, c |-> hot'.c, pos |-> hot'.pos, checked |-> hot'.checked]
  BY <1>1, <1>2
<1>4. HotTypes' /\ Matching'
  BY <1>1, <1>2, <1>3 DEF HotInv, HotTypes, Matching
<1>5. Q \in Int /\ scores[hot.pos] \in Int /\ Q <= scores[hot.pos]
  BY <1>1, <1>2 DEF Better, Q
<1>6. Sorted
  <2>1. CASE Pending
    BY <1>1, <2>1 DEF HotInv
  <2>2. CASE ~Pending
    <3>1. spots[hot.pos + 1] = hot.c /\ SortedBut(hot.pos + 1) /\ Matching
      BY <1>1, <2>2 DEF HotInv
    <3>2. hot.pos + 1 \in 1 .. Len(spots)
      BY <1>2, <2>2 DEF Pending
    <3>3. scores[hot.pos + 1] = Q
      BY <1>2, <3>1, <3>2 DEF Matching, Q
    <3> SUFFICES ASSUME NEW i \in 1 .. Len(spots), NEW j \in 1 .. Len(spots), i < j
                 PROVE  scores[i] >= scores[j]
      BY <1>2 DEF Sorted
    <3>4. scores[i] \in Int /\ scores[j] \in Int
      BY <1>2
    <3>5. CASE j = hot.pos + 1
      <4>1. i = hot.pos \/ (i < hot.pos /\ scores[i] >= scores[hot.pos])
        <5>1. i \in Nat /\ hot.pos \in Nat /\ (i = hot.pos \/ i < hot.pos)
          BY <1>2, <3>5
        <5>2. i # hot.pos + 1 /\ hot.pos # hot.pos + 1
          BY <5>1
        <5> QED BY <1>2, <3>1, <5>1, <5>2 DEF SortedBut
      <4> QED BY <1>5, <3>3, <3>4, <3>5, <4>1
    <3>6. CASE i = hot.pos + 1
      BY <1>2, <3>1, <3>6 DEF SortedBut
    <3>7. CASE i # hot.pos + 1 /\ j # hot.pos + 1
      BY <1>2, <3>1, <3>7 DEF SortedBut
    <3> QED BY <3>5, <3>6, <3>7
  <2> QED BY <2>1, <2>2
<1>7. ~(Pending /\ hot.pos < NHotspots) => Counted(drawn)
  <2>1. CASE ~Pending
    BY <1>1, <2>1 DEF HotInv
  <2>2. ASSUME Pending, ~(hot.pos < NHotspots) PROVE Counted(drawn)
    <3>1. Len(spots) = NHotspots /\ hot.pos = Len(spots) /\ Counted(DrawnBefore)
      BY <1>1, <1>2, <2>2 DEF HotInv, Pending
    <3> SUFFICES ASSUME NEW x \in Places
                 PROVE  /\ Kept(x) <= drawn[x]
                        /\ Kept(x) < drawn[x] => \A i \in 1 .. Len(spots) : Quality(orig, x) <= scores[i]
      BY <1>2, <3>1 DEF Counted
    <3>2. /\ Kept(x) <= DrawnBefore[x]
          /\ Kept(x) < DrawnBefore[x] => \A i \in 1 .. Len(spots) : Quality(orig, x) <= scores[i]
      BY <1>2, <3>1 DEF Counted
    <3>3. DrawnBefore[x] = (IF x = hot.c THEN drawn[x] - 1 ELSE drawn[x]) /\ drawn[x] \in Nat
      BY <1>2 DEF DrawnBefore
    <3>4. Kept(x) \in Nat
      <4>1. Count(spots, x) \in Nat
        BY <1>2, CountType
      <4> QED BY <4>1 DEF Kept, Count
    <3>5. CASE x # hot.c
      BY <3>2, <3>3, <3>5
    <3>6. CASE x = hot.c
      <4>1. ASSUME NEW i \in 1 .. Len(spots) PROVE Quality(orig, x) <= scores[i]
        <5>1. scores[i] \in Int /\ (i = hot.pos \/ scores[i] >= scores[hot.pos])
          BY <1>2, <1>6, <3>1 DEF Sorted
        <5> QED BY <1>5, <3>6, <5>1 DEF Q
      <4> QED BY <3>2, <3>3, <3>4, <3>6, <4>1
    <3> QED BY <3>5, <3>6
  <2> QED BY <2>1, <2>2
<1>8. Sorted' /\ (Counted(drawn) => Counted(drawn)') /\ (Pending' <=> Pending) /\ Q' = Q
      /\ DrawnBefore' = DrawnBefore /\ (Counted(DrawnBefore) => Counted(DrawnBefore)')
  BY <1>1, <1>3, <1>6 DEF Sorted, Counted, Kept, Pending, Q, DrawnBefore
<1>9. Pending => Counted(DrawnBefore)
  BY <1>1 DEF HotInv
<1> QED BY <1>1, <1>3, <1>4, <1>5, <1>7, <1>8, <1>9 DEF HotInv

LEMMA PlaceKeeps ==
  ASSUME HotInv, Place PROVE HotInv'
<1> USE HotConstants
<1>1. /\ hot.pc = "place" /\ hot' = [hot EXCEPT !.pc = "draw", !.checked = @ + 1]
      /\ Matching /\ Sorted /\ UNCHANGED <<orig, drawn>>
  BY DEF Place, HotInv
<1>2. /\ orig \in Origs /\ spots \in Seq(Places) /\ Len(spots) \in Nat /\ Len(spots) <= NHotspots
      /\ hot.c \in Places /\ hot.pos \in 1 .. Len(spots) /\ DOMAIN spots = 1 .. Len(spots)
      /\ scores \in [1 .. NHotspots -> Int] /\ drawn \in [Places -> Nat] /\ drawn[hot.c] > 0
      /\ hot = [pc |-> hot.pc, c |-> hot.c, pos |-> hot.pos, checked |-> hot.checked]
      /\ hot.checked \in Nat /\ hot.checked < NHotspots * PerSpot
  BY <1>1 DEF HotInv, HotTypes
<1>3. /\ hot'.pc = "draw" /\ hot'.checked = hot.checked + 1
      /\ hot' = [pc |-> hot'.pc, c |-> hot'.c, pos |-> hot'.pos, checked |-> hot'.checked]
  BY <1>1, <1>2
<1>4. hot'.checked \in 0 .. NHotspots * PerSpot
  BY <1>2, <1>3
<1>5. CASE hot.pos = Len(spots) /\ hot.pos < NHotspots
  <2> DEFINE n == Len(spots) + 1
  <2>1. spots' = Append(spots, hot.c) /\ scores' = [scores EXCEPT ![n] = Q]
    BY <1>5 DEF Place, Q
  <2>2. Q \in Int /\ Q <= scores[Len(spots)] /\ Counted(DrawnBefore)
    BY <1>1, <1>2, <1>5 DEF HotInv, Pending, Q
  <2>3. n \in 1 .. NHotspots
    BY <1>2, <1>5
  <2>4. /\ spots' \in Seq(Places) /\ Len(spots') = n /\ DOMAIN spots' = 1 .. n
        /\ spots'[n] = hot.c /\ \A i \in 1 .. Len(spots) : spots'[i] = spots[i]
    BY <1>2, <2>1
  <2>5. /\ scores' \in [1 .. NHotspots -> Int] /\ scores'[n] = Q
        /\ \A i \in 1 .. Len(spots) : scores'[i] = scores[i] /\ scores[i] \in Int
    <3>1. \A i \in 1 .. Len(spots) : i \in 1 .. NHotspots /\ i # n
      BY <1>2
    <3>2. scores \in [1 .. NHotspots -> Int] /\ scores' = [scores EXCEPT ![n] = Q]
      BY <1>2, <2>1
    <3> HIDE DEF n, Q
    <3> QED BY <2>2, <2>3, <3>1, <3>2
  <2>6. \A i \in 1 .. n : i = n \/ i \in 1 .. Len(spots)
    BY <1>2
  <2>7. \A i \in 1 .. Len(spots) : scores[i] >= Q
    <3> SUFFICES ASSUME NEW i \in 1 .. Len(spots) PROVE scores[i] >= Q
      OBVIOUS
    <3>1. Len(spots) \in 1 .. Len(spots) /\ (i = Len(spots) \/ i < Len(spots))
      BY <1>2
    <3>2. scores[i] \in Int /\ scores[Len(spots)] \in Int
      BY <2>5, <3>1
    <3>3. scores[i] >= scores[Len(spots)]
      <4>1. i < Len(spots) => scores[i] >= scores[Len(spots)]
        BY <1>1, <1>2, <3>1 DEF Sorted
      <4> QED BY <3>1, <3>2, <4>1
    <3> QED BY <2>2, <3>2, <3>3
  <2>8. ASSUME NEW x \in Places PROVE Kept(x)' = drawn[x]
    <3>1. Count(spots', x) = Count(spots, x) + IF hot.c = x THEN 1 ELSE 0
      BY <1>2, <2>1, CountAppend
    <3>2. Count(spots, x) \in Nat
      BY <1>2, CountType
    <3>3. Kept(x) = Count(spots, x) /\ Kept(x)' = Count(spots', x)
      BY DEF Kept, Count
    <3>4. DrawnBefore[x] = (IF x = hot.c THEN drawn[x] - 1 ELSE drawn[x]) /\ drawn[x] \in Nat
      BY <1>2 DEF DrawnBefore
    <3>5. Kept(x) <= DrawnBefore[x] /\ (Kept(x) < DrawnBefore[x] => Len(spots) = NHotspots)
      BY <2>2 DEF Counted
    <3>6. Kept(x) = DrawnBefore[x]
      <4>1. drawn[hot.c] \in Nat /\ drawn[hot.c] > 0 /\ Len(spots) # NHotspots
        BY <1>2, <1>5
      <4>2. DrawnBefore[x] \in Nat /\ Kept(x) \in Nat
        BY <3>2, <3>3, <3>4, <4>1
      <4> QED BY <3>5, <4>1, <4>2
    <3> QED BY <3>1, <3>2, <3>3, <3>4, <3>6
  <2> HIDE DEF n
  <2>9. Matching'
    <3> SUFFICES ASSUME NEW i \in 1 .. n PROVE scores'[i] = Quality(orig, spots'[i])
      BY <1>1, <2>4 DEF Matching
    <3>1. CASE i = n
      BY <2>4, <2>5, <3>1 DEF Q
    <3>2. CASE i \in 1 .. Len(spots)
      BY <1>1, <1>2, <2>4, <2>5, <3>2 DEF Matching
    <3> QED BY <2>6, <3>1, <3>2
  <2>10. Sorted'
    <3> SUFFICES ASSUME NEW i \in 1 .. n, NEW j \in 1 .. n, i < j PROVE scores'[i] >= scores'[j]
      BY <2>4 DEF Sorted
    <3>1. i \in 1 .. Len(spots)
      BY <1>2 DEF n
    <3>2. CASE j = n
      BY <2>5, <2>7, <3>1, <3>2
    <3>3. CASE j \in 1 .. Len(spots)
      BY <1>1, <1>2, <2>5, <3>1, <3>3 DEF Sorted
    <3> QED BY <2>6, <3>2, <3>3
  <2>11. Counted(drawn)'
    BY <1>1, <1>2, <2>8 DEF Counted
  <2>12. HotTypes'
    <3>1. Len(spots') <= NHotspots /\ orig' \in Origs /\ drawn' \in [Places -> Nat]
      BY <1>1, <1>2, <2>3, <2>4
    <3> QED BY <1>3, <1>4, <2>4, <2>5, <3>1 DEF HotTypes
  <2> QED BY <1>3, <2>9, <2>10, <2>11, <2>12 DEF HotInv
<1>6. CASE ~(hot.pos = Len(spots) /\ hot.pos < NHotspots)
  <2>1. UNCHANGED <<orig, spots, scores, drawn>> /\ Counted(drawn)
    BY <1>1, <1>6 DEF Place, HotInv, Pending
  <2>2. Matching' /\ Sorted' /\ Counted(drawn)'
    BY <1>1, <2>1 DEF Matching, Sorted, Counted, Kept
  <2>3. HotTypes'
    BY <1>2, <1>3, <1>4, <2>1 DEF HotTypes
  <2> QED BY <1>3, <2>2, <2>3 DEF HotInv
<1> QED BY <1>5, <1>6

LEMMA HotStep ==
  ASSUME HotInv, [HotNext]_hotVars PROVE HotInv'
<1> USE HotConstants
<1>1. CASE UNCHANGED hotVars
  BY <1>1 DEF hotVars, HotInv, HotTypes, Matching, Sorted, SortedBut, Counted, DrawnBefore,
               Pending, Q, Kept
<1>2. CASE SetOrigImage
  <2>1. /\ hot.pc = "idle" /\ UNCHANGED <<orig, spots, scores, drawn>> /\ HotTypes
        /\ spots = <<>> /\ drawn = NotDrawn
    BY <1>2 DEF SetOrigImage, HotInv
  <2>2. PICK pc \in {"failed", "panic", "draw"} : hot' = NoSearch(pc)
    BY <1>2 DEF SetOrigImage
  <2>3. HotTypes' /\ hot'.pc = pc
    BY <2>1, <2>2 DEF HotTypes, NoSearch
  <2>4. Matching' /\ Sorted'
    BY <2>1 DEF Matching, Sorted
  <2>5. Counted(drawn)'
    <3>1. ASSUME NEW x \in Places PROVE Kept(x)' = 0 /\ drawn'[x] = 0
      <4>1. {i \in DOMAIN spots' : spots'[i] = x} = {}
        BY <2>1
      <4> QED BY <2>1, <4>1, FS_EmptySet DEF Kept, NotDrawn
    <3> QED BY <3>1 DEF Counted
  <2> QED BY <2>2, <2>3, <2>4, <2>5 DEF HotInv
<1>3. ASSUME NEW c \in Places, Draw(c) PROVE HotInv'
  BY <1>3, DrawKeeps
<1>4. CASE Finish
  <2>1. hot' = NoSearch("done") /\ scores' = NoScores /\ drawn' = NotDrawn /\ UNCHANGED <<orig, spots>>
        /\ HotTypes
    BY <1>4 DEF Finish, HotInv
  <2>2. HotTypes' /\ hot'.pc = "done"
    BY <2>1 DEF HotTypes, NoSearch, NoScores, NotDrawn
  <2> QED BY <2>2 DEF HotInv
<1> QED BY <1>1, <1>2, <1>3, <1>4, InsertKeeps, BeatenKeeps, PlaceKeeps DEF HotNext, Insertion

LEMMA HotInductive == Spec => []HotInv
<1>1. Init => HotInv
  BY HotInitially DEF Init
<1>2. HotInv /\ [Next]_vars => HotInv'
  <2> SUFFICES ASSUME HotInv, [Next]_vars PROVE HotInv'
    OBVIOUS
  <2>1. [HotNext]_hotVars
    BY DEF Next, vars, Hot, Seek, Found, NoLine, Refine, Compare, Skip, Search
  <2> QED BY <2>1, HotStep
<1> QED BY <1>1, <1>2, PTL DEF Spec

(* The hotspots kept are the best of the places drawn, best first, for any *)
(* page, any measure of quality and any places drawn (scan.go:574-611).    *)
THEOREM HotspotsAreBest == Spec => []BestSpots
<1>1. HotInv => BestSpots
  BY DEF HotInv, BestSpots, Matching, Sorted, Counted
<1> QED BY <1>1, HotInductive, PTL

-----------------------------------------------------------------------------
(* The search for hotspots takes a bounded number of steps, not counting   *)
(* the places without features that it draws in between.                   *)
Selecting(h) == h.pc \in {"draw", "insert", "place"}

(* What is left of the candidate at hand: it moves up at most all spots.   *)
Turn(h) ==
  CASE h.pc = "draw"   -> NHotspots + 2
    [] h.pc = "insert" -> h.pos + 1
    [] OTHER           -> 1

(* The first spot is not counted as checked (scan.go:584-588).             *)
Uncounted(s) == IF s = <<>> THEN 1 ELSE 0

SpotsLeftOf(h, s) ==
  IF Selecting(h)
  THEN (NHotspots * PerSpot - h.checked) * (NHotspots + 2) + Turn(h) + Uncounted(s)
  ELSE 0

SpotsLeft == SpotsLeftOf(hot, spots)

SpotSteps ==
  Selecting(hot) => /\ SpotsLeft' <= SpotsLeft
                    /\ Insertion \/ DrawFeature => SpotsLeft' < SpotsLeft

(* One candidate more, or one step less for this one.                      *)
LEMMA SpotNumbers ==
  ASSUME NEW k \in Nat, NEW s \in Nat, NEW u \in Nat, NEW v \in Nat, NEW e \in 0 .. 1, NEW f \in 0 .. 1
  PROVE  /\ k * s + u + e \in Nat
         /\ u < v /\ f <= e => k * s + u + f < k * s + v + e
         /\ u < v + s /\ f <= e => k * s + u + f < (k + 1) * s + v + e
<1> DEFINE p == k * s
<1>1. p \in Nat /\ (k + 1) * s = p + s
  OBVIOUS
<1> HIDE DEF p
<1>2. /\ p + u + e \in Nat
      /\ u < v /\ f <= e => p + u + f < p + v + e
      /\ u < v + s /\ f <= e => p + u + f < (p + s) + v + e
  BY <1>1
<1> QED BY <1>1, <1>2 DEF p

(* What the count needs to know of a search.                               *)
Fits(h) ==
  /\ h.checked \in Nat /\ NHotspots * PerSpot - h.checked \in Nat
  /\ h.pc = "insert" => h.pos \in 1 .. NHotspots
  /\ h.pc = "place" => NHotspots * PerSpot - h.checked > 0

LEMMA SpotsLeftIs ==
  ASSUME NEW h, NEW s, Fits(h)
  PROVE  /\ SpotsLeftOf(h, s) \in Nat
         /\ Selecting(h) => SpotsLeftOf(h, s) > 0 /\ Turn(h) \in 1 .. NHotspots + 2
<1> USE HotConstants
<1>1. ASSUME Selecting(h) PROVE Turn(h) \in 1 .. NHotspots + 2
  BY <1>1 DEF Selecting, Turn, Fits
<1>2. ASSUME Selecting(h) PROVE SpotsLeftOf(h, s) \in Nat /\ SpotsLeftOf(h, s) > 0
  <2> DEFINE k == NHotspots * PerSpot - h.checked
             r == NHotspots + 2
             p == k * r
  <2>1. SpotsLeftOf(h, s) = p + Turn(h) + Uncounted(s)
    BY <1>2 DEF SpotsLeftOf
  <2>2. k \in Nat /\ r \in Nat /\ Turn(h) \in Nat /\ Turn(h) > 0 /\ Uncounted(s) \in 0 .. 1
    BY <1>1, <1>2 DEF Fits, Uncounted
  <2>3. p \in Nat
    <3> HIDE DEF k, r
    <3> QED BY <2>2
  <2> HIDE DEF p
  <2> QED BY <2>1, <2>2, <2>3
<1> QED BY <1>1, <1>2 DEF SpotsLeftOf

(* A step of the candidate at hand, and the last one.                      *)
LEMMA TurnFalls ==
  ASSUME NEW h, NEW s, NEW h2, NEW s2, Fits(h), Fits(h2), Selecting(h), Selecting(h2),
         s2 = <<>> => s = <<>>,
         \/ h2.checked = h.checked /\ Turn(h2) < Turn(h)
         \/ h2.checked = h.checked + 1
  PROVE  SpotsLeftOf(h2, s2) < SpotsLeftOf(h, s)
<1> USE HotConstants
<1> DEFINE m == NHotspots * PerSpot
           r == NHotspots + 2
           k == m - h2.checked
           u == Turn(h2)
           v == Turn(h)
           e == Uncounted(s)
           f == Uncounted(s2)
<1>1. /\ SpotsLeftOf(h, s) = (m - h.checked) * r + v + e
      /\ SpotsLeftOf(h2, s2) = k * r + u + f
  BY DEF SpotsLeftOf
<1>2. u \in 1 .. NHotspots + 2 /\ v \in 1 .. NHotspots + 2
  BY SpotsLeftIs
<1>3. u \in Nat /\ v \in Nat /\ r \in Nat /\ u < v + r
  <2> HIDE DEF u, v
  <2> QED BY <1>2
<1>4. e \in 0 .. 1 /\ f \in 0 .. 1 /\ f <= e
  BY DEF Uncounted
<1>5. m \in Nat /\ k \in Nat /\ h.checked \in Nat /\ h2.checked \in Nat
  BY DEF Fits
<1>6. (h2.checked = h.checked /\ u < v) \/ h2.checked = h.checked + 1
  OBVIOUS
<1> HIDE DEF m, r, u, v, e, f
<1>7. CASE h2.checked = h.checked /\ u < v
  <2>1. m - h.checked = k
    BY <1>5, <1>7
  <2> HIDE DEF k
  <2> QED BY <1>1, <1>3, <1>4, <1>5, <1>7, <2>1, SpotNumbers
<1>8. CASE h2.checked = h.checked + 1
  <2>1. m - h.checked = k + 1
    BY <1>5, <1>8
  <2> HIDE DEF k
  <2>2. k * r + u + f < (k + 1) * r + v + e
    BY <1>3, <1>4, <1>5, SpotNumbers
  <2> QED BY <1>1, <2>1, <2>2
<1> QED BY <1>6, <1>7, <1>8

(* The first spot.                                                         *)
LEMMA FirstFalls ==
  ASSUME NEW h, NEW s, NEW h2, NEW s2, Fits(h), Selecting(h),
         h2.pc = h.pc, h2.pos = h.pos, h2.checked = h.checked
  PROVE  s = <<>> /\ s2 # <<>> => SpotsLeftOf(h2, s2) < SpotsLeftOf(h, s)
<1> USE HotConstants
<1>1. Selecting(h2) /\ Turn(h2) = Turn(h) /\ Fits(h2)
  BY DEF Selecting, Turn, Fits
<1>3. ASSUME s = <<>>, s2 # <<>> PROVE SpotsLeftOf(h2, s2) < SpotsLeftOf(h, s)
  <2> DEFINE p == (NHotspots * PerSpot - h.checked) * (NHotspots + 2) + Turn(h)
  <2>1. SpotsLeftOf(h, s) = p + 1 /\ SpotsLeftOf(h2, s2) = p + 0
    BY <1>1, <1>3 DEF SpotsLeftOf, Uncounted
  <2>2. SpotsLeftOf(h, s) \in Nat
    BY SpotsLeftIs
  <2>3. p \in Int
    <3> DEFINE k == NHotspots * PerSpot - h.checked
    <3>1. k \in Nat /\ NHotspots + 2 \in Nat /\ Turn(h) \in Nat
      BY SpotsLeftIs DEF Fits
    <3> HIDE DEF k
    <3>2. k * (NHotspots + 2) + Turn(h) \in Int
      BY <3>1
    <3> QED BY <3>2 DEF k
  <2> HIDE DEF p
  <2> QED BY <2>1, <2>3
<1> QED BY <1>3

LEMMA HotFits == HotInv => Fits(hot)
<1> SUFFICES ASSUME HotInv PROVE Fits(hot)
  OBVIOUS
<1>1. HotTypes /\ Len(spots) \in Nat
  BY DEF HotInv, HotTypes
<1> DEFINE m == NHotspots * PerSpot
<1>2. /\ m \in Nat /\ hot.checked \in 0 .. m
      /\ hot.pc \in {"insert", "place"} => hot.pos \in 1 .. Len(spots) /\ hot.checked < m
      /\ Len(spots) <= NHotspots /\ NHotspots \in Nat
  BY <1>1, HotConstants DEF HotTypes
<1> HIDE DEF m
<1>3. /\ hot.checked \in Nat /\ m - hot.checked \in Nat
      /\ hot.pc = "insert" => hot.pos \in 1 .. NHotspots
      /\ hot.pc = "place" => m - hot.checked > 0
  BY <1>1, <1>2
<1> QED BY <1>3 DEF Fits, m

LEMMA SpotStep ==
  ASSUME HotInv, Fits(hot), Fits(hot)', Selecting(hot), HotNext
  PROVE  /\ SpotsLeft' <= SpotsLeft
         /\ Insertion \/ DrawFeature => SpotsLeft' < SpotsLeft
<1> USE HotConstants
<1>1. /\ HotTypes /\ spots \in Seq(Places) /\ Len(spots) \in Nat /\ Len(spots) <= NHotspots
      /\ hot = [pc |-> hot.pc, c |-> hot.c, pos |-> hot.pos, checked |-> hot.checked]
  BY DEF HotInv, HotTypes
<1>2. Fits(hot')
  BY DEF Fits
<1>3. SpotsLeft = SpotsLeftOf(hot, spots) /\ SpotsLeft' = SpotsLeftOf(hot', spots')
  BY DEF SpotsLeft, SpotsLeftOf, Selecting, Turn, Uncounted
<1>4. SpotsLeft \in Nat /\ SpotsLeft > 0 /\ SpotsLeft' \in Nat
  BY <1>2, <1>3, SpotsLeftIs
<1>5. ASSUME Insert \/ Beaten \/ Place PROVE SpotsLeft' < SpotsLeft
  <2>1. spots' = <<>> => spots = <<>>
    <3>1. CASE Insert
      <4>1. hot.pos \in 1 .. Len(spots)
        BY <1>1, <3>1 DEF Insert, HotTypes
      <4>2. Len(spots) > 0
        BY <1>1, <4>1
      <4>3. Len(spots') >= Len(spots)
        BY <1>1, <3>1 DEF Insert
      <4> QED BY <4>2, <4>3
    <3>2. CASE Beaten
      BY <3>2 DEF Beaten
    <3>3. CASE Place
      <4>1. Append(spots, hot.c) # <<>>
        BY <1>1
      <4> QED BY <3>3, <4>1 DEF Place
    <3> QED BY <1>5, <3>1, <3>2, <3>3
  <2>2. /\ Selecting(hot')
        /\ \/ hot'.checked = hot.checked /\ Turn(hot') < Turn(hot)
           \/ hot'.checked = hot.checked + 1
    <3>1. CASE Insert
      <4>1. /\ hot.pc = "insert" /\ hot.pos \in 1 .. Len(spots)
            /\ hot' = IF hot.pos = 1 THEN [hot EXCEPT !.pc = "place"] ELSE [hot EXCEPT !.pos = hot.pos - 1]
        BY <1>1, <3>1 DEF Insert, HotTypes
      <4>2. CASE hot.pos = 1
        <5>1. hot'.pc = "place" /\ hot'.checked = hot.checked
          BY <1>1, <4>1, <4>2
        <5> QED BY <4>1, <4>2, <5>1 DEF Selecting, Turn
      <4>3. CASE hot.pos # 1
        <5>1. hot'.pc = "insert" /\ hot'.checked = hot.checked /\ hot'.pos = hot.pos - 1
          BY <1>1, <4>1, <4>3
        <5>2. (hot.pos - 1) + 1 < hot.pos + 1
          BY <1>1, <4>1
        <5> QED BY <4>1, <5>1, <5>2 DEF Selecting, Turn
      <4> QED BY <4>2, <4>3
    <3>2. CASE Beaten
      <4>1. hot.pc = "insert" /\ hot.pos \in 1 .. Len(spots) /\ hot' = [hot EXCEPT !.pc = "place"]
        BY <1>1, <3>2 DEF Beaten, HotTypes
      <4>2. hot'.pc = "place" /\ hot'.checked = hot.checked
        BY <1>1, <4>1
      <4>3. 1 < hot.pos + 1
        BY <1>1, <4>1
      <4> QED BY <4>1, <4>2, <4>3 DEF Selecting, Turn
    <3>3. CASE Place
      <4>1. hot' = [hot EXCEPT !.pc = "draw", !.checked = @ + 1]
        BY <3>3 DEF Place
      <4>2. hot'.pc = "draw" /\ hot'.checked = hot.checked + 1
        BY <1>1, <4>1
      <4> QED BY <4>2 DEF Selecting
    <3> QED BY <1>5, <3>1, <3>2, <3>3
  <2> QED BY <1>2, <1>3, <2>1, <2>2, TurnFalls
<1>6. ASSUME Finish PROVE SpotsLeft' < SpotsLeft
  <2>1. SpotsLeft' = 0
    BY <1>3, <1>6 DEF Finish, NoSearch, SpotsLeftOf, Selecting
  <2> QED BY <1>4, <2>1
<1>7. ASSUME NEW c \in Places, Draw(c)
      PROVE  /\ SpotsLeft' <= SpotsLeft
             /\ Quality(orig, c) >= 0 => SpotsLeft' < SpotsLeft
  <2>o. Quality(orig, c) \in Int
    BY <1>1, HotspotsAssumption DEF HotTypes
  <2>1. CASE Quality(orig, c) < 0
    <3>1. hot' = [hot EXCEPT !.c = c] /\ spots' = spots
      BY <1>7, <2>1 DEF Draw
    <3>2. hot'.pc = hot.pc /\ hot'.pos = hot.pos /\ hot'.checked = hot.checked
      BY <1>1, <3>1
    <3>3. SpotsLeft' = SpotsLeft
      <4>1. SpotsLeftOf(hot', spots') = SpotsLeftOf(hot, spots)
        BY <3>1, <3>2 DEF SpotsLeftOf, Selecting, Turn
      <4> QED BY <1>3, <4>1
    <3> QED BY <1>4, <2>o, <2>1, <3>3
  <2>2. CASE ~(Quality(orig, c) < 0) /\ spots = <<>>
    <3>1. hot' = [hot EXCEPT !.c = c] /\ spots' = <<c>>
      BY <1>7, <2>2 DEF Draw
    <3>2. hot'.pc = hot.pc /\ hot'.pos = hot.pos /\ hot'.checked = hot.checked /\ spots' # <<>>
      BY <1>1, <3>1
    <3>3. SpotsLeft' < SpotsLeft
      <4>1. SpotsLeftOf(hot', spots') < SpotsLeftOf(hot, spots)
        BY <2>2, <3>2, FirstFalls
      <4> QED BY <1>3, <4>1
    <3> QED BY <1>4, <3>3
  <2>3. CASE ~(Quality(orig, c) < 0) /\ spots # <<>>
    <3>1. /\ hot' = [hot EXCEPT !.pc = "insert", !.c = c, !.pos = Len(spots)] /\ spots' = spots
          /\ hot.pc = "draw"
      BY <1>7, <2>3 DEF Draw
    <3>2. hot'.pc = "insert" /\ hot'.pos = Len(spots) /\ hot'.checked = hot.checked
      BY <1>1, <3>1
    <3>3. Turn(hot') = Len(spots) + 1 /\ Turn(hot) = NHotspots + 2 /\ Selecting(hot')
      BY <3>1, <3>2 DEF Turn, Selecting
    <3>4. Turn(hot') < Turn(hot)
      BY <1>1, <3>3
    <3>5. SpotsLeft' < SpotsLeft
      <4>1. SpotsLeftOf(hot', spots') < SpotsLeftOf(hot, spots)
        BY <1>2, <3>1, <3>2, <3>3, <3>4, TurnFalls
      <4> QED BY <1>3, <4>1
    <3> QED BY <1>4, <3>5
  <2> QED BY <2>1, <2>2, <2>3
<1>8. ~SetOrigImage
  BY DEF SetOrigImage, Selecting
<1>9. SpotsLeft' <= SpotsLeft
  BY <1>4, <1>5, <1>6, <1>7, <1>8 DEF HotNext, Insertion
<1>10. ASSUME DrawFeature PROVE SpotsLeft' < SpotsLeft
  BY <1>7, <1>10 DEF DrawFeature
<1> QED BY <1>5, <1>6, <1>9, <1>10 DEF Insertion

(* The search for hotspots ends, on a page of any size that has a place    *)
(* with features: beside draws that are passed over it takes a number of   *)
(* steps that is known from the start, whatever is drawn, with ties and    *)
(* with places drawn again (scan.go:574-611).                              *)
THEOREM HotspotsAreFinite ==
  Spec => [](SpotsLeft \in Nat) /\ [][SpotSteps]_vars
<1>1. HotInv => SpotsLeft \in Nat
  BY HotFits, SpotsLeftIs DEF SpotsLeft
<1>2. HotInv /\ Fits(hot) /\ Fits(hot)' /\ [Next]_vars => [SpotSteps]_vars
  <2> SUFFICES ASSUME HotInv, Fits(hot), Fits(hot)', [Next]_vars, Selecting(hot)
               PROVE  \/ UNCHANGED vars
                      \/ /\ SpotsLeft' <= SpotsLeft
                         /\ Insertion \/ DrawFeature => SpotsLeft' < SpotsLeft
    BY DEF SpotSteps
  <2>1. HotNext \/ UNCHANGED hotVars
    BY DEF Next, vars, Hot, Seek, Found, NoLine, Refine, Compare, Skip, Search
  <2>2. CASE HotNext
    BY <2>2, SpotStep
  <2>3. CASE UNCHANGED hotVars
    <3>1. SpotsLeft' = SpotsLeft
      BY <2>3 DEF hotVars, SpotsLeft, SpotsLeftOf, Selecting, Turn, Uncounted
    <3>2. SpotsLeft \in Nat
      BY SpotsLeftIs DEF SpotsLeft
    <3>3. ~HotNext => ~Insertion /\ ~DrawFeature
      BY DEF HotNext, DrawFeature
    <3> QED BY <2>2, <3>1, <3>2, <3>3
  <2> QED BY <2>1, <2>2, <2>3
<1>3. HotInv => Fits(hot)
  BY HotFits
<1> QED BY <1>1, <1>2, <1>3, HotInductive, PTL DEF Spec

-----------------------------------------------------------------------------
(* The points of a line.                                                   *)

Points == [x : Int, y : Int]
Ordered(s) == \A i, j \in DOMAIN s : i < j => s[i].x < s[j].x

(* r has some of the first n points of s, in their order; if it has n of   *)
(* them, it has them all.                                                  *)
PartOf(r, s, n) ==
  /\ r \in Seq(Points) /\ Ordered(r)
  /\ \A j \in DOMAIN r : \E i \in 1 .. n : r[j] = s[i]
  /\ Len(r) <= n /\ (Len(r) = n => \A j \in 1 .. n : r[j] = s[j])

(* One more point is taken or not.                                         *)
LEMMA PartGrows ==
  ASSUME NEW s \in Seq(Points), Ordered(s), NEW n \in Nat, n + 1 <= Len(s), NEW r, PartOf(r, s, n)
  PROVE  PartOf(r, s, n + 1) /\ PartOf(Append(r, s[n + 1]), s, n + 1)
<1> DEFINE q == Append(r, s[n + 1])
<1>1. Len(s) \in Nat /\ DOMAIN s = 1 .. Len(s) /\ n + 1 \in DOMAIN s /\ s[n + 1] \in Points
  OBVIOUS
<1>2. r \in Seq(Points) /\ Len(r) \in Nat /\ DOMAIN r = 1 .. Len(r) /\ Ordered(r)
  BY DEF PartOf
<1>3. /\ \A j \in DOMAIN r : \E i \in 1 .. n : r[j] = s[i]
      /\ Len(r) <= n /\ (Len(r) = n => \A j \in 1 .. n : r[j] = s[j])
  BY DEF PartOf
<1>4. q \in Seq(Points) /\ DOMAIN q = 1 .. Len(r) + 1 /\ q[Len(r) + 1] = s[n + 1]
      /\ \A j \in 1 .. Len(r) : q[j] = r[j]
  BY <1>1, <1>2
<1> HIDE DEF q
<1>5. \A j \in DOMAIN r : r[j].x < s[n + 1].x
  <2> SUFFICES ASSUME NEW j \in DOMAIN r PROVE r[j].x < s[n + 1].x
    OBVIOUS
  <2>1. PICK i \in 1 .. n : r[j] = s[i]
    BY <1>3
  <2>2. i \in DOMAIN s /\ i < n + 1
    BY <1>1
  <2> QED BY <1>1, <2>1, <2>2 DEF Ordered
<1>6. \A i \in 1 .. n : i \in 1 .. n + 1
  OBVIOUS
<1>7. n + 1 \in 1 .. n + 1
  OBVIOUS
<1>8. ASSUME NEW j \in 1 .. Len(r) + 1 PROVE j = Len(r) + 1 \/ j \in 1 .. Len(r)
  BY <1>2
<1>9. Ordered(q)
  <2> SUFFICES ASSUME NEW i \in 1 .. Len(r) + 1, NEW j \in 1 .. Len(r) + 1, i < j
               PROVE  q[i].x < q[j].x
    BY <1>4 DEF Ordered
  <2>1. i \in 1 .. Len(r)
    BY <1>2
  <2> QED BY <1>2, <1>4, <1>5, <1>8, <2>1 DEF Ordered
<1>10. ASSUME NEW j \in DOMAIN q PROVE \E i \in 1 .. n + 1 : q[j] = s[i]
  <2>1. CASE j = Len(r) + 1
    BY <1>4, <1>7, <2>1
  <2>2. CASE j \in 1 .. Len(r)
    <3>1. PICK i \in 1 .. n : r[j] = s[i]
      BY <1>2, <1>3, <2>2
    <3> QED BY <1>4, <1>6, <2>2, <3>1
  <2> QED BY <1>4, <1>8, <2>1, <2>2
<1> DEFINE m == Len(r)
<1>m. m \in Nat /\ m <= n
  BY <1>2, <1>3
<1>11. PartOf(q, s, n + 1)
  <2>1. Len(q) = m + 1
    BY <1>4, <1>m
  <2> HIDE DEF m
  <2>2. Len(q) <= n + 1
    BY <1>m, <2>1
  <2>3. ASSUME Len(q) = n + 1, NEW j \in 1 .. n + 1 PROVE q[j] = s[j]
    <3>1. m = n
      BY <1>m, <2>1, <2>3
    <3>2. j = n + 1 \/ j \in 1 .. n
      OBVIOUS
    <3> QED BY <1>3, <1>4, <3>1, <3>2 DEF m
  <2> QED BY <1>4, <1>9, <1>10, <2>2, <2>3 DEF PartOf
<1>12. PartOf(r, s, n + 1)
  <2>1. ASSUME NEW j \in DOMAIN r PROVE \E i \in 1 .. n + 1 : r[j] = s[i]
    BY <1>3, <1>6
  <2> HIDE DEF m
  <2>2. m <= n + 1 /\ m # n + 1
    BY <1>m
  <2> QED BY <1>2, <2>1, <2>2 DEF PartOf, m
<1> QED BY <1>11, <1>12 DEF q

(* What is near the line, point by point.                                  *)
LEMMA NearIs ==
  ASSUME NEW s \in Seq(Points), NEW l, NEW dev
  PROVE  \E near : /\ near[0] = <<>> /\ Near(l, dev, s) = near[Len(s)]
                   /\ \A n \in Nat : near[n + 1] = IF Far(l, dev, s[n + 1]) THEN near[n]
                                                    ELSE Append(near[n], s[n + 1])
<1> DEFINE P    == Points \cup {s[i] : i \in Nat}
           g    == [p \in Nat \X Seq(P) |->
                      IF Far(l, dev, s[p[1] + 1]) THEN p[2] ELSE Append(p[2], s[p[1] + 1])]
           near == CHOOSE f : f = [i \in Nat |->
                      IF i = 0 THEN <<>>
                      ELSE IF Far(l, dev, s[i]) THEN f[i - 1] ELSE Append(f[i - 1], s[i])]
<1>1. g \in [Nat \X Seq(P) -> Seq(P)]
  <2> SUFFICES ASSUME NEW n \in Nat, NEW r \in Seq(P)
               PROVE  (IF Far(l, dev, s[n + 1]) THEN r ELSE Append(r, s[n + 1])) \in Seq(P)
    OBVIOUS
  <2>1. s[n + 1] \in P
    OBVIOUS
  <2> HIDE DEF P
  <2> QED BY <2>1
<1>2. \A n \in Nat, r \in Seq(P) :
        g[<<n, r>>] = IF Far(l, dev, s[n + 1]) THEN r ELSE Append(r, s[n + 1])
  OBVIOUS
<1>3. <<>> \in Seq(P)
  OBVIOUS
<1> HIDE DEF g, P
<1>4. PICK f \in [Nat -> Seq(P)] : f[0] = <<>> /\ \A n \in Nat : f[n + 1] = g[<<n, f[n]>>]
  <2>1. Recursive(Seq(P), <<>>, g)
    BY <1>1, <1>3, Recursion
  <2> QED BY <2>1 DEF Recursive
<1>5. ASSUME NEW n \in Nat, n # 0
      PROVE  f[n] = IF Far(l, dev, s[n]) THEN f[n - 1] ELSE Append(f[n - 1], s[n])
  <2>1. n - 1 \in Nat /\ (n - 1) + 1 = n /\ f[n - 1] \in Seq(P)
    BY <1>4, <1>5
  <2>2. f[(n - 1) + 1] = g[<<n - 1, f[n - 1]>>]
    BY <1>4, <2>1
  <2> QED BY <1>2, <2>1, <2>2
<1>6. f = [i \in Nat |-> IF i = 0 THEN <<>>
                         ELSE IF Far(l, dev, s[i]) THEN f[i - 1] ELSE Append(f[i - 1], s[i])]
  BY <1>4, <1>5
<1>7. near = [i \in Nat |-> IF i = 0 THEN <<>>
                            ELSE IF Far(l, dev, s[i]) THEN near[i - 1] ELSE Append(near[i - 1], s[i])]
  BY <1>6
<1> HIDE DEF near
<1>8. near[0] = <<>>
  BY <1>7
<1>9. ASSUME NEW n \in Nat
      PROVE  near[n + 1] = IF Far(l, dev, s[n + 1]) THEN near[n] ELSE Append(near[n], s[n + 1])
  <2>1. n + 1 \in Nat /\ n + 1 # 0 /\ (n + 1) - 1 = n
    OBVIOUS
  <2> QED BY <1>7, <2>1
<1>10. Near(l, dev, s) = near[Len(s)]
  BY DEF Near, near
<1> QED BY <1>8, <1>9, <1>10

(* It is a part of the points, in their order.                             *)
LEMMA NearKeeps ==
  ASSUME NEW s \in Seq(Points), Ordered(s), NEW l, NEW dev
  PROVE  PartOf(Near(l, dev, s), s, Len(s))
<1>1. PICK near : /\ near[0] = <<>> /\ Near(l, dev, s) = near[Len(s)]
                  /\ \A n \in Nat : near[n + 1] = IF Far(l, dev, s[n + 1]) THEN near[n]
                                                   ELSE Append(near[n], s[n + 1])
  BY NearIs
<1> DEFINE N == {n \in Nat : n <= Len(s) => PartOf(near[n], s, n)}
<1>2. 0 \in N
  <2>1. PartOf(near[0], s, 0)
    BY <1>1 DEF PartOf, Ordered
  <2> QED BY <2>1
<1>3. ASSUME NEW n \in Nat, n \in N PROVE n + 1 \in N
  <2> SUFFICES ASSUME n + 1 <= Len(s) PROVE PartOf(near[n + 1], s, n + 1)
    OBVIOUS
  <2>1. near[n + 1] = IF Far(l, dev, s[n + 1]) THEN near[n] ELSE Append(near[n], s[n + 1])
    BY <1>1
  <2>2. n <= Len(s)
    <3>1. Len(s) \in Nat
      OBVIOUS
    <3> QED BY <3>1
  <2>3. PartOf(near[n], s, n)
    BY <1>3, <2>2
  <2> QED BY <2>1, <2>3, PartGrows
<1>4. Len(s) \in N
  <2>1. Len(s) \in Nat
    OBVIOUS
  <2> HIDE DEF N
  <2> QED BY <1>2, <1>3, <2>1, Successors
<1> QED BY <1>1, <1>4

(* A line that no point is far from keeps them all.                        *)
LEMMA NearAll ==
  ASSUME NEW s \in Seq(Points), NEW l, NEW dev, \A i \in 1 .. Len(s) : ~Far(l, dev, s[i])
  PROVE  Near(l, dev, s) = s
<1>1. PICK near : /\ near[0] = <<>> /\ Near(l, dev, s) = near[Len(s)]
                  /\ \A n \in Nat : near[n + 1] = IF Far(l, dev, s[n + 1]) THEN near[n]
                                                   ELSE Append(near[n], s[n + 1])
  BY NearIs
<1>2. Len(s) \in Nat /\ DOMAIN s = 1 .. Len(s)
  OBVIOUS
<1> DEFINE First(n) == /\ near[n] \in Seq(Points) /\ Len(near[n]) = n
                       /\ \A i \in 1 .. n : near[n][i] = s[i]
           N == {n \in Nat : n <= Len(s) => First(n)}
<1>3. 0 \in N
  <2>1. First(0)
    <3>1. near[0] = <<>> /\ 1 .. 0 = {}
      BY <1>1
    <3>2. <<>> \in Seq(Points) /\ Len(<<>>) = 0
      OBVIOUS
    <3> QED BY <3>1, <3>2
  <2> QED BY <2>1
<1>4. ASSUME NEW n \in Nat, n \in N PROVE n + 1 \in N
  <2> SUFFICES ASSUME n + 1 <= Len(s) PROVE First(n + 1)
    OBVIOUS
  <2>1. n + 1 \in 1 .. Len(s) /\ n <= Len(s)
    BY <1>2
  <2>2. near[n + 1] = Append(near[n], s[n + 1]) /\ s[n + 1] \in Points
    BY <1>1, <2>1, ElementOfSeq
  <2>3. First(n)
    BY <1>4, <2>1
  <2>4. near[n + 1] \in Seq(Points) /\ Len(near[n + 1]) = n + 1
    BY <2>2, <2>3
  <2>5. ASSUME NEW i \in 1 .. n + 1 PROVE near[n + 1][i] = s[i]
    <3>1. CASE i = n + 1
      BY <2>2, <2>3, <3>1
    <3>2. CASE i \in 1 .. n
      BY <2>2, <2>3, <3>2
    <3> QED BY <3>1, <3>2
  <2> QED BY <2>4, <2>5
<1>5. Len(s) \in N
  <2> HIDE DEF N
  <2> QED BY <1>2, <1>3, <1>4, Successors
<1>6. First(Len(s))
  BY <1>5
<1>7. near[Len(s)] = s
  BY <1>6
<1> QED BY <1>1, <1>7

(* The points are probed columns from left to right, all of them left of   *)
(* the column that is being probed.                                        *)
PointsInv ==
  /\ points \in Seq(Points) /\ Ordered(points)
  /\ \A i \in DOMAIN points : points[i].y < Height \div 2
  /\ find.seek = "probe" /\ find.pc \in {"start", "slide"} =>
       find.x \in Int /\ \A i \in DOMAIN points : points[i].x < find.x

NamesInv ==
  /\ image \in Images \cup {None} /\ target \in Images \cup {None}
  /\ transform \in Images \cup {None} /\ missed \in BOOLEAN

LEMMA ProbeKeeps ==
  ASSUME PointsInv, EdgeInv, Probe PROVE PointsInv'
<1> USE GeometryAssumption
<1> DEFINE n == Len(points)
           p == [x |-> find.x, y |-> Edge]
<1>1. /\ points \in Seq(Points) /\ n \in Nat /\ DOMAIN points = 1 .. n /\ Ordered(points)
      /\ find.x \in Int /\ \A i \in 1 .. n : points[i].x < find.x /\ points[i].x \in Int
  <2>1. find.pc = "slide" /\ find.seek = "probe"
    BY DEF Probe, Returned
  <2>2. /\ points \in Seq(Points) /\ Ordered(points)
        /\ find.x \in Int /\ \A i \in DOMAIN points : points[i].x < find.x
    BY <2>1 DEF PointsInv
  <2>3. n \in Nat /\ DOMAIN points = 1 .. n
    BY <2>2
  <2>4. \A i \in 1 .. n : points[i] \in Points
    BY <2>2, <2>3
  <2> QED BY <2>2, <2>3, <2>4 DEF Points
<1>2. Edge \in Int /\ p \in Points
  <2>1. find.bottom \in Nat
    BY DEF EdgeInv, Probe, Returned
  <2>2. Edge \in Int
    BY <2>1 DEF Edge
  <2> QED BY <1>1, <2>2 DEF Points
<1>3. CASE points' = Append(points, p) /\ Edge < Height \div 2
  <2>1. /\ points' \in Seq(Points) /\ DOMAIN points' = 1 .. n + 1 /\ points'[n + 1] = p
        /\ \A i \in 1 .. n : points'[i] = points[i]
    BY <1>1, <1>2, <1>3
  <2>2. \A i \in 1 .. n + 1 : i = n + 1 \/ i \in 1 .. n
    BY <1>1
  <2>3. p.x = find.x /\ p.y = Edge
    OBVIOUS
  <2> HIDE DEF p
  <2>4. Ordered(points')
    <3> SUFFICES ASSUME NEW i \in 1 .. n + 1, NEW j \in 1 .. n + 1, i < j
                 PROVE  points'[i].x < points'[j].x
      BY <2>1 DEF Ordered
    <3>1. i \in 1 .. n
      BY <1>1
    <3> QED BY <1>1, <2>1, <2>2, <2>3, <3>1 DEF Ordered
  <2>5. \A i \in 1 .. n + 1 : points'[i].y < Height \div 2
    BY <1>1, <1>3, <2>1, <2>2, <2>3 DEF PointsInv
  <2>6. find'.seek = "probe" /\ find'.pc \in {"start", "slide"} => find'.x = find.x + ProbeStep
    BY DEF Probe, EdgeInv, Shape
  <2>7. \A i \in 1 .. n + 1 : points'[i].x < find.x + ProbeStep
    <3> SUFFICES ASSUME NEW i \in 1 .. n + 1 PROVE points'[i].x < find.x + ProbeStep
      OBVIOUS
    <3>1. CASE i = n + 1
      BY <1>1, <2>1, <2>3, <3>1
    <3>2. CASE i \in 1 .. n
      BY <1>1, <2>1, <3>2
    <3> QED BY <2>2, <3>1, <3>2
  <2>8. find.x + ProbeStep \in Int
    BY <1>1
  <2> QED BY <2>1, <2>4, <2>5, <2>6, <2>7, <2>8 DEF PointsInv
<1>4. CASE points' = points
  <2>1. find'.seek = "probe" /\ find'.pc \in {"start", "slide"} => find'.x = find.x + ProbeStep
    BY DEF Probe, EdgeInv, Shape
  <2>2. find.x + ProbeStep \in Int /\ \A i \in 1 .. n : points[i].x < find.x + ProbeStep
    BY <1>1
  <2> QED BY <1>1, <1>4, <2>1, <2>2 DEF PointsInv
<1> QED BY <1>3, <1>4 DEF Probe

LEMMA LinePointsKeeps ==
  ASSUME PointsInv, EdgeInv, LinePoints PROVE PointsInv'
<1>1. find.pc = "fit" /\ (find'.seek = "left" \/ find'.pc \in {"fit", "noline"})
  BY DEF LinePoints, WalkFrom, EdgeInv, Shape
<1>2. CASE points' = points
  BY <1>1, <1>2 DEF PointsInv
<1>3. ASSUME NEW l, NEW dev, points' = Near(l, dev, points) PROVE PointsInv'
  <2>1. PartOf(points', points, Len(points))
    BY <1>3, NearKeeps DEF PointsInv
  <2>2. ASSUME NEW j \in DOMAIN points' PROVE points'[j].y < Height \div 2
    <3>1. PICK i \in 1 .. Len(points) : points'[j] = points[i]
      BY <2>1 DEF PartOf
    <3>2. DOMAIN points = 1 .. Len(points)
      BY DEF PointsInv
    <3> QED BY <3>1, <3>2 DEF PointsInv
  <2> QED BY <1>1, <2>1, <2>2 DEF PointsInv, PartOf
<1> QED BY <1>2, <1>3 DEF LinePoints

LEMMA PointsStep ==
  ASSUME PointsInv, EdgeInv, ContextInv, [Next]_vars PROVE PointsInv'
<1>1. CASE Hot \/ Refine \/ Compare \/ UNCHANGED vars
  <2>1. UNCHANGED <<find, points>>
    BY <1>1 DEF Hot, Refine, Compare, vars, lineVars
  <2> QED BY <2>1 DEF PointsInv
<1>2. CASE Seek
  <2>1. CASE StartColumn \/ Slide
    <3>1. points' = points /\ find'.seek = find.seek /\ find'.x = find.x
          /\ find.pc \in {"start", "slide"}
      BY <2>1 DEF StartColumn, Slide, Panic, EdgeInv, Shape
    <3> QED BY <3>1 DEF PointsInv
  <2>2. CASE WalkOn \/ LeftEnd \/ RightEnd
    <3>1. points' = points /\ ~(find'.seek = "probe" /\ find'.pc \in {"start", "slide"})
      BY <2>2 DEF WalkOn, LeftEnd, RightEnd, EdgeInv, Shape
    <3> QED BY <3>1 DEF PointsInv
  <2> QED BY <1>2, <2>1, <2>2, ProbeKeeps, LinePointsKeeps DEF Seek, LineStep
<1>3. CASE Found \/ NoLine
  BY <1>3 DEF Found, NoLine, Idle, PointsInv
<1>4. ASSUME NEW kind \in Calls, NEW im \in Images, Search(kind, im) PROVE PointsInv'
  <2>1. points' = <<>> /\ find'.x = ProbeFrom
    BY <1>4 DEF Search, BeginLine, Idle
  <2> QED BY <2>1, GeometryAssumption DEF PointsInv, Ordered
<1>5. ASSUME NEW kind \in Calls, NEW im \in Images, Skip(kind, im) PROVE PointsInv'
  BY <1>5 DEF Skip, PointsInv
<1> QED BY <1>1, <1>2, <1>3, <1>4, <1>5 DEF Next

LEMMA NamesStep ==
  ASSUME NamesInv, [Next]_vars PROVE NamesInv'
<1> USE DEF NamesInv
<1>1. CASE Hot \/ Refine \/ Compare \/ UNCHANGED vars
  BY <1>1 DEF Hot, Refine, Compare, vars, lineVars, contextVars
<1>2. CASE Seek
  BY <1>2 DEF Seek, LineStep, StartColumn, Slide, LinePoints, Probe, WalkOn, LeftEnd, RightEnd,
              contextVars
<1>3. CASE Found \/ NoLine
  BY <1>3 DEF Found, NoLine
<1>4. ASSUME NEW kind \in Calls, NEW im \in Images, Search(kind, im) \/ Skip(kind, im) PROVE NamesInv'
  BY <1>4 DEF Search, BeginLine, Skip
<1> QED BY <1>1, <1>2, <1>3, <1>4 DEF Next

(* A set of at most k elements.                                            *)
AtMost(A, k) == IsFiniteSet(A) /\ Cardinality(A) \in Nat /\ Cardinality(A) <= k

LEMMA OneMore ==
  ASSUME NEW A, NEW x, NEW k \in Nat, AtMost(A, k)
  PROVE  AtMost(A \cup {x}, k + 1)
<1>1. Cardinality(A) \in Nat /\ IsFiniteSet(A \cup {x}) /\ Cardinality(A) <= k
  BY FS_AddElement DEF AtMost
<1>2. x \notin A => Cardinality(A \cup {x}) = Cardinality(A) + 1
  BY FS_AddElement DEF AtMost
<1>3. x \in A => A \cup {x} = A
  OBVIOUS
<1> QED BY <1>1, <1>2, <1>3 DEF AtMost

(* A block has three pixels in each of its rows.                           *)
LEMMA DarkBounded ==
  ASSUME NEW x, NEW top \in Int, NEW bottom \in Int, bottom = top + Tall - 1
  PROVE  NDark(x, top .. bottom) \in 0 .. 3 * Tall
<1> USE GeometryAssumption
<1> DEFINE rows == top .. bottom
           cols == {x - 1, x, x + 1}
<1>1. IsFiniteSet(rows) /\ Cardinality(rows) = Tall
  <2>1. IsFiniteSet(rows) /\ Cardinality(rows) = IF top > bottom THEN 0 ELSE bottom - top + 1
    BY FS_Interval
  <2> QED BY <2>1
<1>2. IsFiniteSet(cols) /\ Cardinality(cols) \in Nat /\ Cardinality(cols) <= 3
  <2>1. AtMost({}, 0)
    BY FS_EmptySet DEF AtMost
  <2>2. AtMost({} \cup {x - 1}, 0 + 1)
    BY <2>1, OneMore
  <2>3. AtMost({x - 1}, 1)
    BY <2>2
  <2>4. AtMost({x - 1} \cup {x}, 1 + 1)
    BY <2>3, OneMore
  <2> DEFINE B == {x - 1} \cup {x}
  <2> HIDE DEF B
  <2>5. AtMost(B, 2)
    BY <2>4 DEF B
  <2>6. AtMost(B \cup {x + 1}, 2 + 1)
    BY <2>5, OneMore
  <2>7. cols = B \cup {x + 1}
    BY Zenon DEF B
  <2> HIDE DEF cols
  <2>8. AtMost(cols, 2 + 1)
    BY <2>6, <2>7
  <2> QED BY <2>8 DEF AtMost
<1>3. IsFiniteSet(Block(x, rows)) /\ Cardinality(Block(x, rows)) = Tall * Cardinality(cols)
  <2> HIDE DEF rows, cols
  <2>1. IsFiniteSet(rows \X cols) /\ Cardinality(rows \X cols) = Cardinality(rows) * Cardinality(cols)
    BY <1>1, <1>2, FS_Product
  <2>2. Block(x, rows) = rows \X cols
    BY DEF Block, cols
  <2> QED BY <1>1, <2>1, <2>2
<1>4. DarkIn(x, rows) \subseteq Block(x, rows)
  BY DEF DarkIn
<1> HIDE DEF rows, cols
<1>5. NDark(x, rows) \in Nat /\ NDark(x, rows) <= Cardinality(Block(x, rows))
  <2>1. Cardinality(DarkIn(x, rows)) <= Cardinality(Block(x, rows)) /\ IsFiniteSet(DarkIn(x, rows))
    BY <1>3, <1>4, FS_Subset
  <2> QED BY <2>1, FS_CardinalityType DEF NDark
<1> DEFINE k == Cardinality(cols)
<1> HIDE DEF k
<1>6. k = 0 \/ k = 1 \/ k = 2 \/ k = 3
  BY <1>2 DEF k
<1>7. Tall * k <= 3 * Tall /\ Tall * k \in Nat
  BY <1>6
<1>8. NDark(x, rows) <= Tall * k
  BY <1>3, <1>5 DEF k
<1>9. NDark(x, rows) \in 0 .. 3 * Tall
  BY <1>5, <1>7, <1>8
<1> QED BY <1>9 DEF rows

LEMMA ScanTyped == Spec => [](PointsInv /\ NamesInv)
<1>1. Init => PointsInv /\ NamesInv
  <2> SUFFICES ASSUME Init PROVE PointsInv /\ NamesInv
    OBVIOUS
  <2>1. points = <<>> /\ find.pc = "idle"
    BY DEF Init, LineInit, Idle
  <2>2. PointsInv
    BY <2>1 DEF PointsInv, Ordered
  <2>3. NamesInv
    BY DEF Init, LineInit, NamesInv
  <2> QED BY <2>2, <2>3
<1>2. EdgeInv /\ ContextInv /\ PointsInv /\ NamesInv /\ [Next]_vars => (PointsInv /\ NamesInv)'
  BY PointsStep, NamesStep
<1> QED BY <1>1, <1>2, ScanInductive, PTL DEF Spec

(* Every state is of the model's type: the count of dark pixels fits the   *)
(* block, the points are in order and in the upper half of the page, and   *)
(* the line that is sought is that of the call (scan.go:154-183, 700-822). *)
THEOREM ScanTypeCorrect == Spec => []TypeOK
<1>1. HotInv => hot.pc \in {"idle", "failed", "panic", "draw", "insert", "place", "done"}
                /\ hot.checked \in 0 .. NHotspots * PerSpot /\ Len(spots) <= NHotspots
  BY DEF HotInv, HotTypes
<1>2. EdgeInv /\ find.pc = "slide" => find.dark \in 0 .. 3 * Tall
  <2> SUFFICES ASSUME EdgeInv, find.pc = "slide" PROVE find.dark \in 0 .. 3 * Tall
    OBVIOUS
  <2> DEFINE top == find.bottom - Tall
             last == find.bottom - 1
  <2>1. find.dark = NDark(find.x, top .. last) /\ top \in Int /\ last \in Int /\ last = top + Tall - 1
    BY GeometryAssumption DEF EdgeInv, FirstEdge
  <2> HIDE DEF top, last
  <2> QED BY <2>1, DarkBounded
<1>3. ContextInv => call \in Calls \cup {"none", "panic"}
        /\ (find.pc \in {"start", "slide", "fit", "found", "noline"} => call \in Calls /\ target = image)
  BY DEF ContextInv
<1>4. EdgeInv /\ ContextInv /\ PointsInv /\ NamesInv /\ HotInv => TypeOK
  BY <1>1, <1>2, <1>3 DEF TypeOK, PointsInv, NamesInv, Ordered
<1> QED BY <1>4, ScanInductive, HotInductive, ScanTyped, PTL

-----------------------------------------------------------------------------
(* The search for the line ends.                                           *)

(* What is left of it: the phases after this one, then the columns of the  *)
(* phase (or, while the line is fitted, its points), then the rows of the  *)
(* column.                                                                 *)
Positive(v) == IF v > 0 THEN v ELSE 0
Active == find.pc \in {"start", "slide"}

PhasesLeft ==
  IF Active
  THEN IF find.seek = "probe" THEN 4 ELSE IF find.seek = "left" THEN 2 ELSE 1
  ELSE IF find.pc = "fit" THEN 3 ELSE 0

ColumnsLeft ==
  IF find.pc = "fit" THEN Len(points)
  ELSE IF ~Active THEN 0
  ELSE IF find.seek = "probe" THEN Positive(Width - find.x)
  ELSE IF find.seek = "left" THEN Positive(find.x)
  ELSE Positive(Size - find.x)

RowsLeft ==
  IF find.pc = "start" THEN Height + 2
  ELSE IF find.pc = "slide" THEN 1 + Positive(Height - find.bottom) ELSE 0

Work == <<<<PhasesLeft, ColumnsLeft>>, RowsLeft>>

(* Less of it, in the lexicographic order.                                 *)
Works == (Nat \X Nat) \X Nat
LessOf == OpToRel(<, Nat)
LessWork == LexPairOrdering(LexPairOrdering(LessOf, LessOf, Nat, Nat), LessOf, Nat \X Nat, Nat)

(* No search has an infinite descent of it.                                *)
LEMMA WorkRunsOut == IsWellFoundedOn(LessWork, Works)
<1>1. IsWellFoundedOn(LessOf, Nat)
  BY NatLessThanWellFounded, Zenon DEF LessOf
<1> HIDE DEF LessOf
<1>2. IsWellFoundedOn(LexPairOrdering(LessOf, LessOf, Nat, Nat), Nat \X Nat)
  BY <1>1, WFLexPairOrdering
<1>3. IsWellFoundedOn(LessWork, (Nat \X Nat) \X Nat)
  BY <1>1, <1>2, WFLexPairOrdering DEF LessWork
<1> QED BY <1>3 DEF Works

(* The order, spelled out.                                                 *)
LEMMA LessIs ==
  ASSUME NEW a \in Nat, NEW b \in Nat, NEW c \in Nat, NEW d \in Nat, NEW e \in Nat, NEW f \in Nat,
         a < d \/ (a = d /\ b < e) \/ (a = d /\ b = e /\ c < f)
  PROVE  <<<<<<a, b>>, c>>, <<<<d, e>>, f>>>> \in LessWork
<1>1. \A i, j \in Nat : <<i, j>> \in LessOf <=> i < j
  BY DEF LessOf, OpToRel
<1> HIDE DEF LessOf
<1>2. <<a, b>> \in Nat \X Nat /\ <<d, e>> \in Nat \X Nat
  OBVIOUS
<1> DEFINE P == LexPairOrdering(LessOf, LessOf, Nat, Nat)
<1>3. a < d \/ (a = d /\ b < e) => <<<<a, b>>, <<d, e>>>> \in P
  BY <1>1, <1>2 DEF LexPairOrdering
<1> HIDE DEF P
<1> DEFINE p == <<a, b>>
           q == <<d, e>>
<1>4. p \in Nat \X Nat /\ q \in Nat \X Nat /\ (<<p, q>> \in P \/ (p = q /\ <<c, f>> \in LessOf))
  BY <1>1, <1>3
<1> HIDE DEF p, q
<1>5. <<<<p, c>>, <<q, f>>>> \in LexPairOrdering(P, LessOf, Nat \X Nat, Nat)
  BY <1>4 DEF LexPairOrdering
<1> QED BY <1>5 DEF LessWork, P, p, q

(* What the search relies on: in a column that is searched the first block *)
(* was in the picture, and a walk has a line through enough points.        *)
SearchInv ==
  /\ Active => find.seek \in Seeks /\ find.x \in Int
  /\ Active /\ find.seek = "probe" => find.x < Width - Margin
  /\ find.pc = "slide" => /\ find.x - 1 >= 0 /\ find.x + 1 < Size
                          /\ find.bottom <= Height \/ find.bottom = Tall
  /\ Active /\ find.seek # "probe" => Len(points) > MinPoints

LEMMA FirstBlock ==
  ASSUME NEW x \in Int, Readable(x, 0 .. Tall - 1) PROVE x - 1 >= 0 /\ x + 1 < Size
<1> USE GeometryAssumption
<1>1. 0 \in 0 .. Tall - 1
  OBVIOUS
<1>2. <<0, x - 1>> \in Block(x, 0 .. Tall - 1) /\ <<0, x + 1>> \in Block(x, 0 .. Tall - 1)
  BY <1>1 DEF Block
<1>3. Offset(<<0, x - 1>>) \in 0 .. Size - 1 /\ Offset(<<0, x + 1>>) \in 0 .. Size - 1
  BY <1>2 DEF Readable
<1>4. Offset(<<0, x - 1>>) = x - 1 /\ Offset(<<0, x + 1>>) = x + 1
  BY DEF Offset
<1> QED BY <1>3, <1>4

(* A line goes through two points or more.                                 *)
LEMMA EnoughPoints ==
  ASSUME points \in Seq(Points), Len(points) > MinPoints
  PROVE  /\ points[2] \in Points /\ points[Len(points) - 1] \in Points
         /\ points[2].x \in Int /\ points[Len(points) - 1].x \in Int
<1>1. Len(points) \in Nat /\ MinPoints \in Nat \ {0}
  BY GeometryAssumption
<1>2. 2 \in 1 .. Len(points) /\ Len(points) - 1 \in 1 .. Len(points)
  BY <1>1
<1>3. \A i \in 1 .. Len(points) : points[i] \in Points
  BY ElementOfSeq
<1>4. points[2] \in Points /\ points[Len(points) - 1] \in Points
  BY <1>2, <1>3
<1> QED BY <1>4 DEF Points

(* An end of the search.                                                   *)
LEMMA SearchOver ==
  ASSUME find'.pc \notin {"start", "slide", "fit"}, Active \/ find.pc = "fit"
  PROVE  SearchInv' /\ PhasesLeft' < PhasesLeft
<1>1. SearchInv'
  BY DEF SearchInv, Active
<1>2. PhasesLeft' = 0
  BY DEF PhasesLeft, Active
<1>3. PhasesLeft >= 1
  BY DEF PhasesLeft, Active
<1>4. PhasesLeft \in Int
  BY DEF PhasesLeft, Active
<1> QED BY <1>1, <1>2, <1>3, <1>4

(* The steps of a search, one by one: what they do to the search, that     *)
(* what it relies on stays, and that there is less left.                   *)
LEMMA ColumnSteps ==
  ASSUME SearchInv, EdgeInv, StartColumn \/ Slide
  PROVE  /\ SearchInv'
         /\ PhasesLeft' < PhasesLeft
            \/ (PhasesLeft' = PhasesLeft /\ ColumnsLeft' = ColumnsLeft /\ RowsLeft' < RowsLeft)
<1> USE GeometryAssumption
<1>1. find.seek \in Seeks /\ find.x \in Int /\ Active /\ points' = points
  BY DEF StartColumn, Slide, SearchInv, Active
<1>2. CASE Panic
  <2>1. find'.pc = "panic"
    BY <1>2 DEF Panic, EdgeInv, Shape
  <2> QED BY <1>1, <2>1, SearchOver
<1>3. CASE StartColumn /\ ~Panic
  <2>1. find.pc = "start" /\ Readable(find.x, 0 .. Tall - 1)
        /\ find' = [find EXCEPT !.pc = "slide", !.bottom = Tall, !.dark = NDark(find.x, 0 .. Tall - 1)]
    BY <1>3 DEF StartColumn
  <2>2. find'.pc = "slide" /\ find'.seek = find.seek /\ find'.x = find.x /\ find'.bottom = Tall
    BY <2>1 DEF EdgeInv, Shape
  <2>3. find.x - 1 >= 0 /\ find.x + 1 < Size
    BY <1>1, <2>1, FirstBlock
  <2>4. SearchInv'
    BY <1>1, <2>2, <2>3 DEF SearchInv, Active
  <2>5. PhasesLeft' = PhasesLeft /\ ColumnsLeft' = ColumnsLeft
    BY <1>1, <2>1, <2>2 DEF PhasesLeft, ColumnsLeft, Active
  <2>6. RowsLeft' < RowsLeft
    <3>1. RowsLeft = Height + 2
      BY <2>1 DEF RowsLeft
    <3>2. RowsLeft' = 1 + Positive(Height - Tall)
      BY <2>2 DEF RowsLeft
    <3>3. Positive(Height - Tall) \in Nat /\ Positive(Height - Tall) <= Height
      BY GeometryAssumption DEF Positive
    <3> QED BY <3>1, <3>2, <3>3, GeometryAssumption
  <2> QED BY <2>4, <2>5, <2>6
<1>4. CASE Slide /\ ~Panic
  <2>1. find.pc = "slide" /\ Searching
        /\ find' = [find EXCEPT !.bottom = @ + 1,
             !.dark = @ - NDark(find.x, {find.bottom - Tall}) + NDark(find.x, {find.bottom})]
    BY <1>4 DEF Slide
  <2>2. find'.pc = "slide" /\ find'.seek = find.seek /\ find'.x = find.x /\ find'.bottom = find.bottom + 1
    BY <2>1 DEF EdgeInv, Shape
  <2>3. find.bottom \in Nat /\ find.bottom < Height
    BY <2>1 DEF EdgeInv, Searching
  <2>4. SearchInv'
    <3>1. Active /\ Active' /\ points' = points
      BY <1>1, <2>1, <2>2 DEF Active
    <3>2. find'.bottom <= Height
      BY <2>2, <2>3, GeometryAssumption
    <3>3. find.x - 1 >= 0 /\ find.x + 1 < Size
      BY <2>1 DEF SearchInv
    <3> QED BY <2>2, <3>1, <3>2, <3>3 DEF SearchInv
  <2>5. PhasesLeft' = PhasesLeft /\ ColumnsLeft' = ColumnsLeft
    BY <1>1, <2>1, <2>2 DEF PhasesLeft, ColumnsLeft, Active
  <2>6. RowsLeft' < RowsLeft
    BY <2>1, <2>2, <2>3 DEF RowsLeft, Positive
  <2> QED BY <2>4, <2>5, <2>6
<1> QED BY <1>2, <1>3, <1>4

LEMMA ColumnEnds ==
  ASSUME SearchInv, EdgeInv, Probe \/ WalkOn \/ LeftEnd \/ RightEnd, PointsInv
  PROVE  /\ SearchInv'
         /\ PhasesLeft' < PhasesLeft
            \/ (PhasesLeft' = PhasesLeft /\ ColumnsLeft' < ColumnsLeft)
<1> USE GeometryAssumption
<1>1. find.seek \in Seeks /\ find.x \in Int /\ find.pc = "slide" /\ Active /\ find.x >= 1 /\ find.x + 1 < Size
  BY DEF Probe, WalkOn, LeftEnd, RightEnd, Returned, SearchInv, Active
<1>2. CASE Probe
  <2>1. find.seek = "probe" /\ find.x < Width - Margin
    BY <1>1, <1>2 DEF Probe, SearchInv
  <2>2. CASE find' = [find EXCEPT !.pc = "fit"]
    <3>1. find'.pc = "fit"
      BY <2>2 DEF EdgeInv, Shape
    <3>2. SearchInv'
      BY <3>1 DEF SearchInv, Active
    <3>3. PhasesLeft' = 3 /\ PhasesLeft = 4
      BY <1>1, <2>1, <3>1 DEF PhasesLeft, Active
    <3> QED BY <3>2, <3>3
  <2>3. CASE find' = [find EXCEPT !.pc = "start", !.x = @ + ProbeStep] /\ find.x + ProbeStep < Width - Margin
    <3>1. find'.pc = "start" /\ find'.x = find.x + ProbeStep /\ find'.seek = "probe"
      BY <2>1, <2>3 DEF EdgeInv, Shape
    <3>2. SearchInv'
      <4>1. find'.x \in Int /\ find'.x < Width - Margin
        BY <1>1, <2>3, <3>1
      <4> QED BY <3>1, <4>1 DEF SearchInv, Active, Seeks
    <3>3. PhasesLeft' = PhasesLeft
      BY <1>1, <2>1, <3>1 DEF PhasesLeft, Active
    <3>4. ColumnsLeft' < ColumnsLeft
      BY <1>1, <2>1, <3>1 DEF ColumnsLeft, Positive, Active
    <3> QED BY <3>2, <3>3, <3>4
  <2> QED BY <1>2, <2>2, <2>3 DEF Probe
<1>3. CASE WalkOn
  <2>1. find.seek # "probe" /\ points' = points /\ Len(points) > MinPoints
    BY <1>1, <1>3 DEF WalkOn, SearchInv
  <2>2. find'.pc = "start" /\ find'.seek = find.seek
        /\ find'.x = IF find.seek = "left" THEN find.x - SeekStep ELSE find.x + SeekStep
    BY <1>3 DEF WalkOn, EdgeInv, Shape
  <2>3. find'.x \in Int
    BY <1>1, <2>2
  <2>4. SearchInv'
    BY <1>1, <2>1, <2>2, <2>3 DEF SearchInv, Active
  <2>5. PhasesLeft' = PhasesLeft
    BY <1>1, <2>1, <2>2 DEF PhasesLeft, Active
  <2>6. ColumnsLeft' < ColumnsLeft
    BY <1>1, <2>1, <2>2 DEF ColumnsLeft, Positive, Active
  <2> QED BY <2>4, <2>5, <2>6
<1>4. CASE LeftEnd
  <2>1. find.seek = "left" /\ points' = points /\ Len(points) > MinPoints
    BY <1>1, <1>4 DEF LeftEnd, SearchInv
  <2>2. find'.pc = "start" /\ find'.seek = "right" /\ find'.x = points[Len(points) - 1].x + SeekStep
    BY <1>4 DEF LeftEnd, EdgeInv, Shape
  <2>3. find'.x \in Int
    BY <2>1, <2>2, EnoughPoints DEF PointsInv
  <2>4. SearchInv'
    BY <1>1, <2>1, <2>2, <2>3 DEF SearchInv, Active, Seeks
  <2>5. PhasesLeft' = 1 /\ PhasesLeft = 2
    BY <1>1, <2>1, <2>2 DEF PhasesLeft, Active
  <2> QED BY <2>4, <2>5
<1>5. CASE RightEnd
  <2>1. find'.pc = "found"
    BY <1>5 DEF RightEnd, EdgeInv, Shape
  <2> QED BY <1>1, <2>1, SearchOver
<1> QED BY <1>2, <1>3, <1>4, <1>5

LEMMA FitSteps ==
  ASSUME SearchInv, EdgeInv, PointsInv, LinePoints
  PROVE  /\ SearchInv'
         /\ PhasesLeft' < PhasesLeft
            \/ (PhasesLeft' = PhasesLeft /\ ColumnsLeft' < ColumnsLeft)
<1> USE GeometryAssumption
<1>1. find.pc = "fit" /\ points \in Seq(Points) /\ Ordered(points) /\ Len(points) \in Nat
  <2>1. points \in Seq(Points) /\ Ordered(points)
    BY DEF PointsInv
  <2> QED BY <2>1 DEF LinePoints
<1>2. CASE find' = [find EXCEPT !.pc = "noline"]
  <2>1. find'.pc = "noline"
    BY <1>2 DEF EdgeInv, Shape
  <2> QED BY <1>1, <2>1, SearchOver
<1>3. ASSUME NEW l, NEW dev, Near(l, dev, points) # points, points' = Near(l, dev, points), find' = find
      PROVE  SearchInv' /\ PhasesLeft' = PhasesLeft /\ ColumnsLeft' < ColumnsLeft
  <2>1. PartOf(points', points, Len(points))
    BY <1>1, <1>3, NearKeeps
  <2>2. points' \in Seq(Points) /\ Len(points') <= Len(points)
        /\ (Len(points') = Len(points) => \A j \in 1 .. Len(points) : points'[j] = points[j])
    BY <2>1 DEF PartOf
  <2>3. Len(points') \in Nat /\ Len(points') # Len(points)
    <3>1. Len(points') = Len(points) => points' = points
      <4> DEFINE t == points'
      <4>1. t \in Seq(Points) /\ (Len(t) = Len(points) => \A j \in 1 .. Len(points) : t[j] = points[j])
        BY <2>2
      <4> HIDE DEF t
      <4>2. Len(t) = Len(points) => t = points
        BY <1>1, <4>1, SeqEqual
      <4> QED BY <4>2 DEF t
    <3> QED BY <1>3, <2>2, <3>1
  <2>4. Len(points') < Len(points)
    BY <1>1, <2>2, <2>3
  <2> QED BY <1>1, <1>3, <2>4 DEF SearchInv, PhasesLeft, ColumnsLeft, Active
<1>4. ASSUME NEW l, NEW dev, Len(points) > MinPoints, WalkFrom(l, dev), points' = points
      PROVE  SearchInv' /\ PhasesLeft' < PhasesLeft
  <2>1. find'.pc = "start" /\ find'.seek = "left" /\ find'.x = points[2].x - SeekStep
    BY <1>4 DEF WalkFrom, EdgeInv, Shape
  <2>2. find'.x \in Int
    BY <1>1, <1>4, <2>1, EnoughPoints
  <2>3. SearchInv'
    BY <1>4, <2>1, <2>2 DEF SearchInv, Active, Seeks
  <2>4. PhasesLeft' = 2 /\ PhasesLeft = 3
    BY <1>1, <2>1 DEF PhasesLeft, Active
  <2> QED BY <2>3, <2>4
<1>5. Len(points) <= MinPoints \/ Len(points) > MinPoints
  BY <1>1
<1>6. CASE Len(points) <= MinPoints
  BY <1>2, <1>6 DEF LinePoints
<1>7. CASE Len(points) > MinPoints
  <2>1. PICK l, dev :
          IF Near(l, dev, points) # points
          THEN points' = Near(l, dev, points) /\ UNCHANGED find
          ELSE WalkFrom(l, dev) /\ UNCHANGED points
    BY <1>1, <1>7 DEF LinePoints
  <2> QED BY <1>3, <1>4, <1>7, <2>1
<1> QED BY <1>5, <1>6, <1>7

(* What is left of a search is a triple of numbers at all times.           *)
LEMMA WorkIsNat ==
  ASSUME SearchInv, EdgeInv, PointsInv
  PROVE  PhasesLeft \in Nat /\ ColumnsLeft \in Nat /\ RowsLeft \in Nat
<1> USE GeometryAssumption
<1>1. PhasesLeft \in Nat
  BY DEF PhasesLeft, Active
<1>2. ColumnsLeft \in Nat
  <2>1. Len(points) \in Nat
    <3>1. points \in Seq(Points)
      BY DEF PointsInv
    <3> QED BY <3>1
  <2>2. Active => find.x \in Int
    BY DEF SearchInv
  <2>3. \A v \in Int : Positive(v) \in Nat
    BY DEF Positive
  <2>4. Active => Width - find.x \in Int /\ Size - find.x \in Int
    BY <2>2
  <2> QED BY <2>1, <2>2, <2>3, <2>4 DEF ColumnsLeft, Active
<1>3. RowsLeft \in Nat
  <2>1. find.pc = "slide" => find.bottom \in Nat
    BY DEF EdgeInv
  <2> QED BY <2>1 DEF RowsLeft, Positive
<1> QED BY <1>1, <1>2, <1>3

LEMMA SearchStep ==
  ASSUME SearchInv, EdgeInv, PointsInv, [Next]_vars PROVE SearchInv'
<1>1. CASE Hot \/ Refine \/ Compare \/ UNCHANGED vars
  <2>1. UNCHANGED <<find, points>>
    BY <1>1 DEF Hot, Refine, Compare, vars, lineVars
  <2> QED BY <2>1 DEF SearchInv, Active
<1>2. CASE Seek
  BY <1>2, ColumnSteps, ColumnEnds, FitSteps DEF Seek, LineStep
<1>3. CASE Found \/ NoLine
  <2>1. find'.pc = "idle"
    BY <1>3 DEF Found, NoLine, Idle
  <2> QED BY <2>1 DEF SearchInv, Active
<1>4. ASSUME NEW kind \in Calls, NEW im \in Images, Search(kind, im) PROVE SearchInv'
  <2>1. find' = [Idle EXCEPT !.pc = IF ProbeFrom < Width - Margin THEN "start" ELSE "fit", !.x = ProbeFrom]
    BY <1>4 DEF Search, BeginLine
  <2>2. /\ find'.pc = IF ProbeFrom < Width - Margin THEN "start" ELSE "fit"
        /\ find'.x = ProbeFrom /\ find'.seek = "probe"
    BY <2>1 DEF Idle
  <2> QED BY <2>2, GeometryAssumption DEF SearchInv, Active, Seeks
<1>5. ASSUME NEW kind \in Calls, NEW im \in Images, Skip(kind, im) PROVE SearchInv'
  BY <1>5 DEF Skip, SearchInv, Active
<1> QED BY <1>1, <1>2, <1>3, <1>4, <1>5 DEF Next

LEMMA SeekFalls ==
  ASSUME SearchInv, EdgeInv, PointsInv, SearchInv', EdgeInv', PointsInv', Seek
  PROVE  \/ PhasesLeft' < PhasesLeft
         \/ (PhasesLeft' = PhasesLeft /\ ColumnsLeft' < ColumnsLeft)
         \/ (PhasesLeft' = PhasesLeft /\ ColumnsLeft' = ColumnsLeft /\ RowsLeft' < RowsLeft)
<1>1. CASE StartColumn \/ Slide
  BY <1>1, ColumnSteps
<1>2. CASE Probe \/ WalkOn \/ LeftEnd \/ RightEnd
  BY <1>2, ColumnEnds
<1>3. CASE LinePoints
  BY <1>3, FitSteps
<1> QED BY <1>1, <1>2, <1>3 DEF Seek, LineStep

(* A search cannot go on for ever.  Each of its steps leaves less of it in *)
(* an order without infinite descent, whatever the picture: the columns    *)
(* run out (scan.go:768-775), each round of linePoints drops a point       *)
(* (scan.go:700-757), and a walk runs into the end of the line or of the   *)
(* array (scan.go:790-817).                                                *)
THEOREM SearchIsFinite ==
  Spec => /\ [](Work \in Works)
          /\ [][Seek => <<Work', Work>> \in LessWork]_vars
<1> DEFINE J == SearchInv /\ EdgeInv /\ PointsInv
           N == PhasesLeft \in Nat /\ ColumnsLeft \in Nat /\ RowsLeft \in Nat
<1>n. J => N
  BY WorkIsNat
<1>m. J' => N'
  <2> HIDE DEF J, N
  <2> QED BY <1>n, PTL
<1>1. J => Work \in Works
  BY <1>n DEF Work, Works
<1>2. J /\ J' /\ [Next]_vars => [Seek => <<Work', Work>> \in LessWork]_vars
  <2> SUFFICES ASSUME J, J', Seek PROVE <<Work', Work>> \in LessWork
    OBVIOUS
  <2>1. PhasesLeft \in Nat /\ ColumnsLeft \in Nat /\ RowsLeft \in Nat
    BY <1>n
  <2>2. PhasesLeft' \in Nat /\ ColumnsLeft' \in Nat /\ RowsLeft' \in Nat
    BY <1>m
  <2>3. \/ PhasesLeft' < PhasesLeft
        \/ (PhasesLeft' = PhasesLeft /\ ColumnsLeft' < ColumnsLeft)
        \/ (PhasesLeft' = PhasesLeft /\ ColumnsLeft' = ColumnsLeft /\ RowsLeft' < RowsLeft)
    BY SeekFalls
  <2> QED BY <2>1, <2>2, <2>3, LessIs DEF Work
<1>3. Init => SearchInv
  <2>1. Init => find.pc = "idle"
    BY DEF Init, LineInit, Idle
  <2> QED BY <2>1 DEF SearchInv, Active
<1>4. EdgeInv /\ PointsInv /\ SearchInv /\ [Next]_vars => SearchInv'
  BY SearchStep
<1>5. Spec => []J
  BY <1>3, <1>4, ScanInductive, ScanTyped, PTL DEF Spec
<1> HIDE DEF J
<1> QED BY <1>1, <1>2, <1>5, PTL DEF Spec

-----------------------------------------------------------------------------
(* The corners.                                                            *)

(* The first edges of all columns, and those of them on and off the line.  *)
Edges ==
  {p \in Points :
     /\ p.y + 1 >= Tall
     /\ p.y + 1 >= Height \/ NDark(p.x, p.y + 1 - Tall .. p.y) >= DarkPx
     /\ \A b \in Tall .. p.y : b < Height /\ NDark(p.x, b - Tall .. b - 1) < DarkPx}
Hits   == {p \in Edges : ~Far(find.line, find.dev, p)}
Misses == Edges \ Hits

(* The column k steps from p, to the left (way is -1) or to the right.     *)
Steps(p, way, k) == p.x + way * (k * SeekStep)

(* A walk that has come k steps is at a first edge on the line, as in each *)
(* column before; it is at its end when the next column's is off the line. *)
Walk(p, way, k, at, hits) ==
  /\ at.x = Steps(p, way, k)
  /\ k = 0 => at = p
  /\ k # 0 => at \in hits
  /\ \A j \in 1 .. k : \E q \in hits : q.x = Steps(p, way, j)
WalkEnds(p, way, at, hits, misses) ==
  \E k \in Nat : Walk(p, way, k, at, hits) /\ \E q \in misses : q.x = Steps(p, way, k + 1)

Second == points[2]
LastButOne == points[Len(points) - 1]

CornersOnLine ==
  find.pc = "found" => /\ WalkEnds(Second, -1, find.topLeft, Hits, Misses)
                       /\ WalkEnds(LastButOne, 1, find.topRight, Hits, Misses)

OnTheWay(p, way) ==
  \E k \in Nat : Walk(p, way, k, find.at, Hits) /\ find.x = Steps(p, way, k + 1)

WalkInv ==
  /\ Active /\ find.seek = "left" => OnTheWay(Second, -1)
  /\ Active /\ find.seek = "right" => /\ OnTheWay(LastButOne, 1)
                                      /\ WalkEnds(Second, -1, find.topLeft, Hits, Misses)
  /\ CornersOnLine

LEMMA StepsOn ==
  ASSUME NEW p, p.x \in Int, NEW way \in {-1, 1}, NEW k \in Nat
  PROVE  /\ Steps(p, way, 0) = p.x /\ Steps(p, way, k) \in Int
         /\ Steps(p, way, k + 1) = Steps(p, way, k) + (IF way = 1 THEN SeekStep ELSE -SeekStep)
<1> USE GeometryAssumption
<1> DEFINE m == k * SeekStep
<1>1. m \in Nat /\ (k + 1) * SeekStep = m + SeekStep /\ 0 * SeekStep = 0
  <2>1. SeekStep \in Nat
    OBVIOUS
  <2>2. \A a, b \in Nat : a * b \in Nat /\ (a + 1) * b = a * b + b /\ 0 * b = 0
    OBVIOUS
  <2> QED BY <2>1, <2>2
<1>2. Steps(p, way, 0) = p.x + way * 0 /\ Steps(p, way, k) = p.x + way * m
      /\ Steps(p, way, k + 1) = p.x + way * (m + SeekStep)
  BY <1>1 DEF Steps
<1> HIDE DEF m
<1>3. CASE way = 1
  BY <1>1, <1>2, <1>3
<1>4. CASE way = -1
  BY <1>1, <1>2, <1>4
<1> QED BY <1>3, <1>4

(* What a column's search returns is the column's first edge.              *)
LEMMA ReturnedIsEdge ==
  ASSUME SearchInv, EdgeInv, Returned
  PROVE  LET p == [x |-> find.x, y |-> Edge]
         IN  p \in Edges /\ (OnLine => p \in Hits) /\ (~OnLine => p \in Misses)
<1> USE GeometryAssumption
<1> DEFINE b == find.bottom
           p == [x |-> find.x, y |-> Edge]
<1>1. /\ find.x \in Int /\ b \in Nat /\ b >= Tall /\ (b <= Height \/ b = Tall)
      /\ b >= Height \/ ~(find.dark < DarkPx)
      /\ find.dark = NDark(find.x, b - Tall .. b - 1)
      /\ \A c \in Tall .. b - 1 : NDark(find.x, c - Tall .. c - 1) < DarkPx
  <2>1. find.pc = "slide" /\ ~Searching
    BY DEF Returned
  <2>2. b \in Nat /\ (b >= Height \/ ~(find.dark < DarkPx))
    BY <2>1 DEF EdgeInv, Searching
  <2> QED BY <2>1, <2>2 DEF SearchInv, EdgeInv, FirstEdge, Active
<1>2. p \in Points /\ p.x = find.x /\ p.y = b - 1 /\ p.y + 1 = b
  BY <1>1 DEF Edge, Points
<1>3. find.dark \in Nat
  <2>1. b - Tall \in Int /\ b - 1 \in Int
    BY <1>1
  <2>2. IsFiniteSet(b - Tall .. b - 1)
    BY <2>1, FS_Interval
  <2> QED BY <1>1, <2>2, DarkFinite
<1> HIDE DEF b, p
<1>4. b >= Height \/ NDark(find.x, b - Tall .. b - 1) >= DarkPx
  BY <1>1, <1>3
<1>5. \A c \in Tall .. b - 1 : c < Height
  BY <1>1
<1>6. p \in Edges
  BY <1>1, <1>2, <1>4, <1>5 DEF Edges
<1>7. OnLine <=> ~Far(find.line, find.dev, p)
  BY DEF OnLine, p, Edge
<1> QED BY <1>6, <1>7 DEF Hits, Misses, p

LEMMA WalkBegins ==
  ASSUME NEW p, p.x \in Int, NEW way \in {-1, 1}, NEW hits
  PROVE  Walk(p, way, 0, p, hits)
BY StepsOn DEF Walk

LEMMA WalkGoesOn ==
  ASSUME NEW p, NEW way, NEW k \in Nat, NEW at, NEW hits, Walk(p, way, k, at, hits),
         NEW q \in hits, q.x = Steps(p, way, k + 1)
  PROVE  Walk(p, way, k + 1, q, hits)
<1>1. \A j \in 1 .. k + 1 : j \in 1 .. k \/ j = k + 1
  OBVIOUS
<1>2. k + 1 # 0
  OBVIOUS
<1> QED BY <1>1, <1>2 DEF Walk

(* Steps that leave a walk alone.                                          *)
LEMMA WalkStays ==
  ASSUME WalkInv, UNCHANGED <<image, threshold, points>>,
         find'.line = find.line /\ find'.dev = find.dev,
         find'.at = find.at /\ find'.topLeft = find.topLeft /\ find'.x = find.x
           /\ find'.seek = find.seek,
         Active, Active' \/ find'.pc = "panic"
  PROVE  WalkInv'
<1>1. Edges' = Edges
  BY DEF Edges, NDark, DarkIn
<1>2. Hits' = Hits /\ Misses' = Misses
  BY <1>1 DEF Hits, Misses
<1>3. Second' = Second /\ LastButOne' = LastButOne
  BY DEF Second, LastButOne
<1>4. CASE Active'
  <2>1. find'.pc # "found"
    BY <1>4 DEF Active
  <2> QED BY <1>2, <1>3, <2>1 DEF WalkInv, OnTheWay, CornersOnLine
<1>5. CASE find'.pc = "panic"
  BY <1>5 DEF WalkInv, CornersOnLine, Active
<1> QED BY <1>4, <1>5

LEMMA WalkSteps ==
  ASSUME WalkInv, SearchInv, EdgeInv, PointsInv, WalkOn \/ LeftEnd \/ RightEnd
  PROVE  WalkInv'
<1> USE GeometryAssumption
<1> DEFINE q == [x |-> find.x, y |-> Edge]
<1>1. /\ UNCHANGED <<image, threshold, points>> /\ Returned /\ find.pc = "slide" /\ Active
      /\ find.seek \in {"left", "right"} /\ Len(points) > MinPoints
  <2>1. UNCHANGED <<image, threshold, points>> /\ Returned /\ find.seek # "probe"
    BY DEF WalkOn, LeftEnd, RightEnd
  <2>2. find.pc = "slide" /\ Active
    BY <2>1 DEF Returned, Active
  <2> QED BY <2>1, <2>2 DEF SearchInv, Seeks
<1>2. find'.line = find.line /\ find'.dev = find.dev
  BY DEF WalkOn, LeftEnd, RightEnd, EdgeInv, Shape
<1>3. Hits' = Hits /\ Misses' = Misses
  <2>1. Edges' = Edges
    BY <1>1 DEF Edges, NDark, DarkIn
  <2> QED BY <1>2, <2>1 DEF Hits, Misses
<1>4. Second' = Second /\ LastButOne' = LastButOne
  BY <1>1 DEF Second, LastButOne
<1>5. Second.x \in Int /\ LastButOne.x \in Int
  BY <1>1, EnoughPoints DEF PointsInv, Second, LastButOne
<1>6. (OnLine => q \in Hits) /\ (~OnLine => q \in Misses) /\ q.x = find.x
  BY <1>1, ReturnedIsEdge
<1>7. CASE WalkOn
  <2>1. /\ find'.pc = "start" /\ find'.seek = find.seek /\ find'.at = q /\ find'.topLeft = find.topLeft
        /\ find'.x = IF find.seek = "left" THEN find.x - SeekStep ELSE find.x + SeekStep
        /\ OnLine
    BY <1>7 DEF WalkOn, EdgeInv, Shape
  <2>2. ASSUME NEW p, p.x \in Int, NEW way \in {-1, 1}, NEW k \in Nat,
               Walk(p, way, k, find.at, Hits), find.x = Steps(p, way, k + 1)
        PROVE  /\ Walk(p, way, k + 1, q, Hits)
               /\ Steps(p, way, (k + 1) + 1) = find.x + (IF way = 1 THEN SeekStep ELSE -SeekStep)
    <3>1. k + 1 \in Nat
      OBVIOUS
    <3>2. Steps(p, way, (k + 1) + 1) = Steps(p, way, k + 1) + (IF way = 1 THEN SeekStep ELSE -SeekStep)
      BY <2>2, <3>1, StepsOn
    <3>3. Walk(p, way, k + 1, q, Hits)
      BY <1>6, <2>1, <2>2, WalkGoesOn
    <3> QED BY <2>2, <3>2, <3>3
  <2>3. CASE find.seek = "left"
    <3>1. PICK k \in Nat : Walk(Second, -1, k, find.at, Hits) /\ find.x = Steps(Second, -1, k + 1)
      BY <1>1, <2>3 DEF WalkInv, OnTheWay
    <3>2. Walk(Second, -1, k + 1, q, Hits) /\ Steps(Second, -1, (k + 1) + 1) = find.x + -SeekStep
      BY <1>5, <2>2, <3>1
    <3>3. find'.x = Steps(Second, -1, (k + 1) + 1) /\ k + 1 \in Nat
      <4>1. find.x \in Int
        BY <1>1 DEF SearchInv
      <4> QED BY <2>1, <2>3, <3>2, <4>1
    <3>4. OnTheWay(Second, -1)'
      BY <1>3, <1>4, <2>1, <3>2, <3>3 DEF OnTheWay
    <3> QED BY <2>1, <2>3, <3>4 DEF WalkInv, CornersOnLine
  <2>4. CASE find.seek = "right"
    <3>1. PICK k \in Nat : Walk(LastButOne, 1, k, find.at, Hits) /\ find.x = Steps(LastButOne, 1, k + 1)
      BY <1>1, <2>4 DEF WalkInv, OnTheWay
    <3>2. Walk(LastButOne, 1, k + 1, q, Hits) /\ Steps(LastButOne, 1, (k + 1) + 1) = find.x + SeekStep
      BY <1>5, <2>2, <3>1
    <3>3. find'.x = Steps(LastButOne, 1, (k + 1) + 1) /\ k + 1 \in Nat
      BY <2>1, <2>4, <3>2
    <3>4. OnTheWay(LastButOne, 1)'
      BY <1>3, <1>4, <2>1, <3>2, <3>3 DEF OnTheWay
    <3>5. WalkEnds(Second, -1, find.topLeft, Hits, Misses)
      BY <1>1, <2>4 DEF WalkInv
    <3> QED BY <1>3, <1>4, <2>1, <2>4, <3>4, <3>5 DEF WalkInv, CornersOnLine
  <2> QED BY <1>1, <2>3, <2>4
<1>8. CASE LeftEnd
  <2>1. /\ find'.pc = "start" /\ find'.seek = "right" /\ find'.at = LastButOne
        /\ find'.topLeft = find.at /\ find'.x = LastButOne.x + SeekStep
        /\ ~OnLine /\ find.seek = "left"
    BY <1>8 DEF LeftEnd, EdgeInv, Shape, LastButOne
  <2>2. WalkEnds(Second, -1, find.at, Hits, Misses)
    BY <1>1, <1>6, <2>1 DEF WalkInv, OnTheWay, WalkEnds
  <2>3. Walk(LastButOne, 1, 0, LastButOne, Hits)
    BY <1>5, WalkBegins
  <2>4. find'.x = Steps(LastButOne, 1, 0 + 1)
    BY <1>5, <2>1, StepsOn
  <2>5. OnTheWay(LastButOne, 1)'
    BY <1>3, <1>4, <2>1, <2>3, <2>4 DEF OnTheWay
  <2> QED BY <1>3, <1>4, <2>1, <2>2, <2>5 DEF WalkInv, CornersOnLine
<1>9. CASE RightEnd
  <2>1. /\ find'.pc = "found" /\ find'.topLeft = find.topLeft /\ find'.topRight = find.at
        /\ ~OnLine /\ find.seek = "right"
    BY <1>9 DEF RightEnd, EdgeInv, Shape
  <2>2. WalkEnds(LastButOne, 1, find.at, Hits, Misses)
    BY <1>1, <1>6, <2>1 DEF WalkInv, OnTheWay, WalkEnds
  <2>3. WalkEnds(Second, -1, find.topLeft, Hits, Misses)
    BY <1>1, <2>1 DEF WalkInv
  <2> QED BY <1>3, <1>4, <2>1, <2>2, <2>3 DEF WalkInv, CornersOnLine, Active
<1> QED BY <1>7, <1>8, <1>9

LEMMA WalkStep ==
  ASSUME WalkInv, SearchInv, EdgeInv, PointsInv, ContextInv, [Next]_vars PROVE WalkInv'
<1>1. CASE Hot \/ Refine \/ Compare \/ UNCHANGED vars
  <2>1. UNCHANGED <<image, threshold, find, points>>
    BY <1>1 DEF Hot, Refine, Compare, vars, lineVars
  <2>2. Edges' = Edges
    BY <2>1 DEF Edges, NDark, DarkIn
  <2>3. Hits' = Hits /\ Misses' = Misses /\ Second' = Second /\ LastButOne' = LastButOne
    BY <2>1, <2>2 DEF Hits, Misses, Second, LastButOne
  <2> QED BY <2>1, <2>3 DEF WalkInv, OnTheWay, CornersOnLine, Active
<1>2. CASE Seek
  <2>1. CASE StartColumn \/ Slide
    <3>1. /\ UNCHANGED <<image, threshold, points>> /\ Active
          /\ find'.line = find.line /\ find'.dev = find.dev
          /\ find'.at = find.at /\ find'.topLeft = find.topLeft /\ find'.x = find.x
          /\ find'.seek = find.seek
          /\ Active' \/ find'.pc = "panic"
      BY <2>1 DEF StartColumn, Slide, Panic, EdgeInv, Shape, Active
    <3> QED BY <3>1, WalkStays
  <2>2. CASE Probe
    <3>1. find'.seek = "probe" /\ find'.pc \in {"start", "fit"}
      BY <2>2 DEF Probe, EdgeInv, Shape
    <3> QED BY <3>1 DEF WalkInv, CornersOnLine
  <2>3. CASE LinePoints
    <3>1. CASE find'.pc \in {"noline", "fit"}
      BY <3>1 DEF WalkInv, CornersOnLine, Active
    <3>2. CASE find'.pc \notin {"noline", "fit"}
      <4>1. PICK l, dev : Len(points) > MinPoints /\ WalkFrom(l, dev) /\ points' = points
        <5>1. find.pc = "fit" /\ Len(points) \in Nat
          <6>1. points \in Seq(Points)
            BY DEF PointsInv
          <6> QED BY <6>1, <2>3 DEF LinePoints
        <5>2. ~(Len(points) <= MinPoints)
          BY <2>3, <3>2 DEF LinePoints, EdgeInv, Shape
        <5>3. find' # find
          BY <3>2, <5>1
        <5>4. Len(points) > MinPoints
          BY <5>1, <5>2, GeometryAssumption
        <5> QED BY <2>3, <5>2, <5>3, <5>4 DEF LinePoints
      <4>2. find'.pc = "start" /\ find'.seek = "left" /\ find'.x = Second.x - SeekStep /\ find'.at = Second
        BY <4>1 DEF WalkFrom, EdgeInv, Shape, Second
      <4>3. Second.x \in Int /\ Second' = Second
        BY <4>1, EnoughPoints DEF PointsInv, Second
      <4>4. Walk(Second, -1, 0, Second, Hits')
        BY <4>3, WalkBegins
      <4>5. find'.x = Steps(Second, -1, 0 + 1)
        <5>1. Steps(Second, -1, 0 + 1) = Second.x + -SeekStep
          BY <4>3, StepsOn
        <5> QED BY <4>2, <4>3, <5>1, GeometryAssumption
      <4>6. OnTheWay(Second, -1)'
        BY <4>2, <4>3, <4>4, <4>5 DEF OnTheWay
      <4> QED BY <4>2, <4>6 DEF WalkInv, CornersOnLine
    <3> QED BY <3>1, <3>2
  <2> QED BY <1>2, <2>1, <2>2, <2>3, WalkSteps DEF Seek, LineStep
<1>3. CASE Found \/ NoLine
  <2>1. find'.pc = "idle"
    BY <1>3 DEF Found, NoLine, Idle
  <2> QED BY <2>1 DEF WalkInv, CornersOnLine, Active
<1>4. ASSUME NEW kind \in Calls, NEW im \in Images, Search(kind, im) PROVE WalkInv'
  <2>1. find' = [Idle EXCEPT !.pc = IF ProbeFrom < Width - Margin THEN "start" ELSE "fit", !.x = ProbeFrom]
    BY <1>4 DEF Search, BeginLine
  <2>2. find'.pc \in {"start", "fit"} /\ find'.seek = "probe"
    BY <2>1 DEF Idle
  <2> QED BY <2>2 DEF WalkInv, CornersOnLine
<1>5. ASSUME NEW kind \in Calls, NEW im \in Images, Skip(kind, im) PROVE WalkInv'
  <2>1. find.pc = "idle" /\ find' = find
    BY <1>5 DEF Skip, NewScanContext, ContextInv, Calls
  <2> QED BY <2>1 DEF WalkInv, CornersOnLine, Active
<1> QED BY <1>1, <1>2, <1>3, <1>4, <1>5 DEF Next

LEMMA SearchInductive == Spec => [](SearchInv /\ WalkInv)
<1>1. Init => SearchInv /\ WalkInv
  <2>1. Init => find.pc = "idle"
    BY DEF Init, LineInit, Idle
  <2> QED BY <2>1 DEF SearchInv, WalkInv, CornersOnLine, Active
<1>2. EdgeInv /\ ContextInv /\ PointsInv /\ SearchInv /\ WalkInv /\ [Next]_vars => (SearchInv /\ WalkInv)'
  BY SearchStep, WalkStep
<1> QED BY <1>1, <1>2, ScanInductive, ScanTyped, PTL DEF Spec

(* The corners of a line that is found are the last columns of the walks   *)
(* from its second point and its last but one whose first edges lie on the *)
(* line, with no column of the walk off it in between (scan.go:783-822).   *)
THEOREM CornersEndTheLine == Spec => []CornersOnLine
  BY SearchInductive, PTL DEF WalkInv

(* The walks meet the line as far as it is printed and no farther: in the  *)
(* columns they come through, a first edge is on the line where it is      *)
(* printed, and off it in the SeekStep columns beyond.                     *)
Meets(p, way, lo, hi, edges, hits) ==
  /\ p.x \in lo .. hi
  /\ \A q \in edges : (\E k \in Nat : q.x = Steps(p, way, k + 1)) =>
       /\ q.x \in lo .. hi => q \in hits
       /\ q.x \in lo - SeekStep .. lo - 1 \/ q.x \in hi + 1 .. hi + SeekStep => q \notin hits

PrintedCornersFound ==
  LET lo == Printed(image).left
      hi == Printed(image).right
  IN  /\ find.pc = "found" /\ lo \in Int /\ hi \in Int
      /\ Meets(Second, -1, lo, hi, Edges, Hits) /\ Meets(LastButOne, 1, lo, hi, Edges, Hits)
      => /\ find.topLeft.x \in lo .. lo + SeekStep - 1
         /\ find.topRight.x \in hi - SeekStep + 1 .. hi

(* A walk that has begun on the print never leaves it by less than a step. *)
LEMMA EndsAtPrint ==
  ASSUME NEW p, NEW way \in {-1, 1}, NEW lo \in Int, NEW hi \in Int, NEW edges, NEW hits,
         hits \subseteq edges, Meets(p, way, lo, hi, edges, hits),
         NEW at, WalkEnds(p, way, at, hits, edges \ hits)
  PROVE  IF way = -1 THEN at.x \in lo .. lo + SeekStep - 1 ELSE at.x \in hi - SeekStep + 1 .. hi
<1> USE GeometryAssumption
<1> DEFINE S(j) == Steps(p, way, j)
<1>1. PICK k \in Nat : Walk(p, way, k, at, hits) /\ \E q \in edges \ hits : q.x = S(k + 1)
  BY DEF WalkEnds
<1>2. p.x \in lo .. hi /\ p.x \in Int
  BY DEF Meets
<1>3. \A j \in Nat : S(j) \in Int /\ S(j + 1) = S(j) + (IF way = 1 THEN SeekStep ELSE -SeekStep)
  BY <1>2, StepsOn
<1>4. S(0) = p.x
  BY <1>2, StepsOn
<1>5. ASSUME NEW q \in edges, NEW j \in Nat, q.x = S(j + 1)
      PROVE  /\ q.x \in lo .. hi => q \in hits
             /\ q.x \in lo - SeekStep .. lo - 1 \/ q.x \in hi + 1 .. hi + SeekStep => q \notin hits
  BY <1>5 DEF Meets
<1> DEFINE N == {j \in Nat : j <= k => S(j) \in lo .. hi}
<1>6. 0 \in N
  BY <1>2, <1>4
<1>7. ASSUME NEW j \in Nat, j \in N PROVE j + 1 \in N
  <2> SUFFICES ASSUME j + 1 <= k PROVE S(j + 1) \in lo .. hi
    OBVIOUS
  <2>1. j + 1 \in 1 .. k /\ j <= k /\ j + 1 \in Nat
    BY <1>1
  <2>2. S(j) \in lo .. hi
    BY <1>7, <2>1
  <2>3. PICK q \in hits : q.x = S(j + 1)
    BY <1>1, <2>1 DEF Walk
  <2>4. ~(S(j + 1) \in lo - SeekStep .. lo - 1 \/ S(j + 1) \in hi + 1 .. hi + SeekStep)
    BY <1>5, <2>3
  <2> DEFINE u == S(j)
             v == S(j + 1)
  <2>5. u \in Int /\ v = u + (IF way = 1 THEN SeekStep ELSE -SeekStep)
    BY <1>3
  <2> HIDE DEF u, v, S
  <2>6. v \in lo .. hi
    BY <2>2, <2>4, <2>5 DEF u, v
  <2> QED BY <2>6 DEF v
<1>8. S(k) \in lo .. hi
  <2> HIDE DEF N
  <2>1. k \in N
    BY <1>1, <1>6, <1>7, Successors
  <2> QED BY <1>1, <2>1 DEF N
<1>9. S(k + 1) \notin lo .. hi
  <2>1. PICK q \in edges \ hits : q.x = S(k + 1)
    BY <1>1
  <2> QED BY <1>1, <1>5, <2>1
<1>10. at.x = S(k)
  BY <1>1 DEF Walk
<1> DEFINE u == S(k)
           v == S(k + 1)
<1>11. u \in Int /\ v = u + (IF way = 1 THEN SeekStep ELSE -SeekStep) /\ at.x = u
       /\ u \in lo .. hi /\ v \notin lo .. hi
  BY <1>1, <1>3, <1>8, <1>9, <1>10
<1> HIDE DEF u, v
<1> QED BY <1>11

(* Where the walks meet a printed line as far as it goes, the corners by   *)
(* which the page is aligned are its ends to less than a step, for every   *)
(* picture, page and size of step (scan.go:783-822).                       *)
THEOREM CornersWithinAStep == Spec => []PrintedCornersFound
<1>1. CornersOnLine => PrintedCornersFound
  <2> DEFINE lo == Printed(image).left
             hi == Printed(image).right
  <2> SUFFICES ASSUME CornersOnLine, find.pc = "found", lo \in Int, hi \in Int,
                      Meets(Second, -1, lo, hi, Edges, Hits), Meets(LastButOne, 1, lo, hi, Edges, Hits)
               PROVE  /\ find.topLeft.x \in lo .. lo + SeekStep - 1
                      /\ find.topRight.x \in hi - SeekStep + 1 .. hi
    BY DEF PrintedCornersFound
  <2>1. /\ WalkEnds(Second, -1, find.topLeft, Hits, Edges \ Hits)
        /\ WalkEnds(LastButOne, 1, find.topRight, Hits, Edges \ Hits)
        /\ Hits \subseteq Edges
    BY DEF CornersOnLine, Misses, Hits
  <2> HIDE DEF lo, hi
  <2>2. find.topLeft.x \in lo .. lo + SeekStep - 1
    <3>1. -1 \in {-1, 1}
      OBVIOUS
    <3> QED BY <2>1, <3>1, EndsAtPrint
  <2>3. find.topRight.x \in hi - SeekStep + 1 .. hi
    <3>1. 1 \in {-1, 1} /\ 1 # -1
      OBVIOUS
    <3>2. IF 1 = -1 THEN find.topRight.x \in lo .. lo + SeekStep - 1
          ELSE find.topRight.x \in hi - SeekStep + 1 .. hi
      BY <2>1, <3>1, EndsAtPrint
    <3> QED BY <3>1, <3>2
  <2> QED BY <2>2, <2>3
<1> QED BY <1>1, CornersEndTheLine, PTL

-----------------------------------------------------------------------------
(* Least squares, of points in one row.                                    *)

RunningSum(sum, g, n) == sum = [i \in 0 .. n |-> IF i = 0 THEN 0 ELSE sum[i - 1] + g[i]]

(* A running sum of numbers is a function.                                 *)
LEMMA SumExists ==
  ASSUME NEW n \in Nat, NEW g \in [1 .. n -> Int]
  PROVE  \E sum : RunningSum(sum, g, n)
<1> DEFINE h(i) == IF i \in 1 .. n THEN g[i] ELSE 0
           step == [p \in Nat \X Int |-> p[2] + h(p[1] + 1)]
<1>1. \A i : h(i) \in Int
  OBVIOUS
<1> HIDE DEF h
<1>2. step \in [Nat \X Int -> Int] /\ \A i \in Nat, v \in Int : step[<<i, v>>] = v + h(i + 1)
  BY <1>1
<1> HIDE DEF step
<1>3. PICK f \in [Nat -> Int] : f[0] = 0 /\ \A i \in Nat : f[i + 1] = step[<<i, f[i]>>]
  <2>1. Recursive(Int, 0, step)
    BY <1>2, 0 \in Int, Recursion
  <2> QED BY <2>1 DEF Recursive
<1> DEFINE sum == [i \in 0 .. n |-> f[i]]
<1>4. ASSUME NEW i \in 0 .. n, i # 0 PROVE f[i] = sum[i - 1] + g[i]
  <2>1. i - 1 \in Nat /\ i - 1 \in 0 .. n /\ (i - 1) + 1 = i /\ i \in 1 .. n
    BY <1>4
  <2>2. f[(i - 1) + 1] = f[i - 1] + h((i - 1) + 1)
    BY <1>2, <1>3, <2>1
  <2> QED BY <2>1, <2>2 DEF h
<1>5. RunningSum(sum, g, n)
  BY <1>3, <1>4 DEF RunningSum
<1> QED BY <1>5

(* What a sum is a sum of.                                                 *)
LEMMA SumSteps ==
  ASSUME NEW n \in Nat, NEW g \in [1 .. n -> Int], NEW sum, RunningSum(sum, g, n)
  PROVE  /\ sum[0] = 0
         /\ \A m \in Nat : m + 1 <= n => sum[m + 1] = sum[m] + g[m + 1] /\ g[m + 1] \in Int
<1> USE DEF RunningSum
<1>1. 0 \in 0 .. n
  OBVIOUS
<1>2. ASSUME NEW m \in Nat, m + 1 <= n PROVE sum[m + 1] = sum[m] + g[m + 1] /\ g[m + 1] \in Int
  <2>1. m + 1 \in 0 .. n /\ m + 1 # 0 /\ (m + 1) - 1 = m /\ m + 1 \in 1 .. n
    BY <1>2
  <2> QED BY <2>1
<1> QED BY <1>1, <1>2

(* A sum of equal numbers.                                                 *)
LEMMA SumOfEqual ==
  ASSUME NEW n \in Nat, NEW g \in [1 .. n -> Int], NEW sum, RunningSum(sum, g, n),
         NEW c \in Int, \A i \in 1 .. n : g[i] = c
  PROVE  sum[n] = n * c
<1> DEFINE N == {m \in Nat : m <= n => sum[m] = m * c}
<1>1. 0 \in N
  BY SumSteps
<1>2. ASSUME NEW m \in Nat, m \in N PROVE m + 1 \in N
  <2> SUFFICES ASSUME m + 1 <= n PROVE sum[m + 1] = (m + 1) * c
    OBVIOUS
  <2>1. m <= n /\ m + 1 \in 1 .. n
    OBVIOUS
  <2>2. sum[m] = m * c /\ sum[m + 1] = sum[m] + c
    BY <1>2, <2>1, SumSteps
  <2>3. (m + 1) * c = m * c + c
    OBVIOUS
  <2> QED BY <2>2, <2>3
<1> HIDE DEF N
<1>3. n \in N
  BY <1>1, <1>2, Successors
<1> QED BY <1>3 DEF N

(* A sum is a number; of numbers none of which is negative, it is no less  *)
(* than any.                                                               *)
LEMMA SumCovers ==
  ASSUME NEW n \in Nat, NEW g \in [1 .. n -> Int], NEW sum, RunningSum(sum, g, n)
  PROVE  /\ sum[n] \in Int
         /\ (\A i \in 1 .. n : g[i] >= 0) => \A i \in 1 .. n : sum[n] >= g[i]
<1>1. sum[0] = 0 /\ \A m \in Nat : m + 1 <= n => sum[m + 1] = sum[m] + g[m + 1] /\ g[m + 1] \in Int
  BY SumSteps
<1>2. \A m \in Nat : m <= n => sum[m] \in Int
  <2> DEFINE N == {m \in Nat : m <= n => sum[m] \in Int}
  <2>1. 0 \in N /\ \A m \in Nat : m \in N => m + 1 \in N
    BY <1>1
  <2> HIDE DEF N
  <2>2. Nat \subseteq N
    BY <2>1, Successors
  <2> QED BY <2>2 DEF N
<1>3. ASSUME \A i \in 1 .. n : g[i] >= 0, NEW i \in 1 .. n PROVE sum[n] >= g[i]
  <2> DEFINE N == {m \in Nat : m <= n => sum[m] >= 0 /\ (i <= m => sum[m] >= g[i])}
  <2>1. 0 \in N
    BY <1>1
  <2>2. ASSUME NEW m \in Nat, m \in N PROVE m + 1 \in N
    <3> SUFFICES ASSUME m + 1 <= n
                 PROVE  sum[m + 1] >= 0 /\ (i <= m + 1 => sum[m + 1] >= g[i])
      OBVIOUS
    <3>1. m <= n /\ m + 1 \in 1 .. n /\ (i <= m + 1 => i <= m \/ i = m + 1)
      OBVIOUS
    <3>2. sum[m] >= 0 /\ (i <= m => sum[m] >= g[i])
      BY <2>2, <3>1
    <3>3. sum[m + 1] = sum[m] + g[m + 1] /\ sum[m] \in Int /\ g[m + 1] \in Int /\ g[m + 1] >= 0
      BY <1>1, <1>2, <1>3, <3>1
    <3>4. g[i] \in Int
      OBVIOUS
    <3> QED BY <3>1, <3>2, <3>3, <3>4
  <2> HIDE DEF N
  <2>3. Nat \subseteq N
    BY <2>1, <2>2, Successors
  <2>4. n <= n /\ i <= n
    OBVIOUS
  <2> QED BY <2>3, <2>4 DEF N
<1> QED BY <1>2, <1>3

(* Sums over a sequence of points: of their columns, ...                   *)
LEMMA SumX ==
  ASSUME NEW s \in Seq(Points)
  PROVE  SumOf(LAMBDA p : p.x, s) \in Int
<1> DEFINE n == Len(s)
           g == [i \in 1 .. n |-> s[i].x]
           sum == CHOOSE f : f = [i \in 0 .. n |-> IF i = 0 THEN 0 ELSE f[i - 1] + s[i].x]
<1>1. n \in Nat /\ g \in [1 .. n -> Int]
  <2>1. n \in Nat /\ \A i \in 1 .. n : s[i] \in Points
    BY ElementOfSeq
  <2> QED BY <2>1 DEF Points
<1>2. \A i \in 0 .. n : i # 0 => g[i] = s[i].x
  OBVIOUS
<1>3. \E f : f = [i \in 0 .. n |-> IF i = 0 THEN 0 ELSE f[i - 1] + s[i].x]
  <2>1. PICK f : RunningSum(f, g, n)
    BY <1>1, SumExists
  <2> HIDE DEF g
  <2>2. f = [i \in 0 .. n |-> IF i = 0 THEN 0 ELSE f[i - 1] + s[i].x]
    BY <1>2, <2>1 DEF RunningSum
  <2> QED BY <2>2
<1>4. sum = [i \in 0 .. n |-> IF i = 0 THEN 0 ELSE sum[i - 1] + s[i].x]
  BY <1>3
<1> HIDE DEF sum, g
<1>5. RunningSum(sum, g, n)
  BY <1>2, <1>4 DEF RunningSum
<1>6. sum[n] \in Int
  BY <1>1, <1>5, SumCovers
<1> QED BY <1>6 DEF SumOf, sum

(* ... of their rows, when they are all in the same one, ...               *)
LEMMA SumY ==
  ASSUME NEW s \in Seq(Points),
         NEW r \in Int, \A i \in 1 .. Len(s) : s[i].y = r
  PROVE  SumOf(LAMBDA p : p.y, s) = Len(s) * r
<1> DEFINE n == Len(s)
           g == [i \in 1 .. n |-> s[i].y]
           sum == CHOOSE f : f = [i \in 0 .. n |-> IF i = 0 THEN 0 ELSE f[i - 1] + s[i].y]
<1>1. n \in Nat /\ g \in [1 .. n -> Int] /\ \A i \in 1 .. n : g[i] = r
  <2>1. n \in Nat /\ \A i \in 1 .. n : s[i] \in Points
    BY ElementOfSeq
  <2> QED BY <2>1 DEF Points
<1>2. \A i \in 0 .. n : i # 0 => g[i] = s[i].y
  OBVIOUS
<1>3. \E f : f = [i \in 0 .. n |-> IF i = 0 THEN 0 ELSE f[i - 1] + s[i].y]
  <2>1. PICK f : RunningSum(f, g, n)
    BY <1>1, SumExists
  <2> HIDE DEF g
  <2>2. f = [i \in 0 .. n |-> IF i = 0 THEN 0 ELSE f[i - 1] + s[i].y]
    BY <1>2, <2>1 DEF RunningSum
  <2> QED BY <2>2
<1>4. sum = [i \in 0 .. n |-> IF i = 0 THEN 0 ELSE sum[i - 1] + s[i].y]
  BY <1>3
<1> HIDE DEF sum, g
<1>5. RunningSum(sum, g, n)
  BY <1>2, <1>4 DEF RunningSum
<1>6. sum[n] = n * r
  <2> DEFINE c == r
  <2>1. n \in Nat /\ g \in [1 .. n -> Int] /\ c \in Int /\ \A i \in 1 .. n : g[i] = c
    BY <1>1
  <2> HIDE DEF c
  <2>2. sum[n] = n * c
    BY <1>5, <2>1, SumOfEqual
  <2> QED BY <2>2 DEF c
<1> QED BY <1>6 DEF SumOf, sum

(* ... of products one factor of which is none, ...                        *)
LEMMA SumFlat ==
  ASSUME NEW s \in Seq(Points),
         NEW k \in Int, NEW sx \in Int, NEW sy \in Int, \A i \in 1 .. Len(s) : k * s[i].y = sy
  PROVE  SumOf(LAMBDA p : (k * p.x - sx) * (k * p.y - sy), s) = 0
<1> DEFINE n == Len(s)
           g == [i \in 1 .. n |-> (k * s[i].x - sx) * (k * s[i].y - sy)]
           sum == CHOOSE f : f = [i \in 0 .. n |-> IF i = 0 THEN 0 ELSE f[i - 1] + (k * s[i].x - sx) * (k * s[i].y - sy)]
<1>1. n \in Nat /\ g \in [1 .. n -> Int] /\ \A i \in 1 .. n : g[i] = 0
  <2>1. n \in Nat /\ \A i \in 1 .. n : s[i] \in Points
    BY ElementOfSeq
  <2>2. \A i \in 1 .. n : k * s[i].x - sx \in Int /\ k * s[i].y - sy = 0
    BY <2>1 DEF Points
  <2>3. \A i \in 1 .. n : (k * s[i].x - sx) * (k * s[i].y - sy) = 0
    BY <2>2
  <2> QED BY <2>1, <2>3
<1>2. \A i \in 0 .. n : i # 0 => g[i] = (k * s[i].x - sx) * (k * s[i].y - sy)
  OBVIOUS
<1>3. \E f : f = [i \in 0 .. n |-> IF i = 0 THEN 0 ELSE f[i - 1] + (k * s[i].x - sx) * (k * s[i].y - sy)]
  <2>1. PICK f : RunningSum(f, g, n)
    BY <1>1, SumExists
  <2> HIDE DEF g
  <2>2. f = [i \in 0 .. n |-> IF i = 0 THEN 0 ELSE f[i - 1] + (k * s[i].x - sx) * (k * s[i].y - sy)]
    BY <1>2, <2>1 DEF RunningSum
  <2> QED BY <2>2
<1>4. sum = [i \in 0 .. n |-> IF i = 0 THEN 0 ELSE sum[i - 1] + (k * s[i].x - sx) * (k * s[i].y - sy)]
  BY <1>3
<1> HIDE DEF sum, g
<1>5. RunningSum(sum, g, n)
  BY <1>2, <1>4 DEF RunningSum
<1>6. sum[n] = 0
  <2> DEFINE c == 0
  <2>1. n \in Nat /\ g \in [1 .. n -> Int] /\ c \in Int /\ \A i \in 1 .. n : g[i] = c
    BY <1>1
  <2> HIDE DEF c
  <2>2. sum[n] = n * c
    BY <1>5, <2>1, SumOfEqual
  <2> QED BY <1>1, <2>2 DEF c
<1> QED BY <1>6 DEF SumOf, sum

(* ... of squares, which are no less than each of them, ...                *)
LEMMA SumSquares ==
  ASSUME NEW s \in Seq(Points),
         NEW k \in Int, NEW sx \in Int
  PROVE  /\ SumOf(LAMBDA p : Square(k * p.x - sx), s) \in Int
         /\ \A i \in 1 .. Len(s) : SumOf(LAMBDA p : Square(k * p.x - sx), s) >= Square(k * s[i].x - sx)
<1> DEFINE n == Len(s)
           g == [i \in 1 .. n |-> Square(k * s[i].x - sx)]
           sum == CHOOSE f : f = [i \in 0 .. n |-> IF i = 0 THEN 0 ELSE f[i - 1] + Square(k * s[i].x - sx)]
<1>1. n \in Nat /\ g \in [1 .. n -> Int] /\ \A i \in 1 .. n : g[i] >= 0
  <2>1. n \in Nat /\ \A i \in 1 .. n : s[i] \in Points
    BY ElementOfSeq
  <2>2. \A i \in 1 .. n : k * s[i].x - sx \in Int
    BY <2>1 DEF Points
  <2>3. \A v \in Int : Square(v) \in Int /\ Square(v) >= 0
    BY DEF Square
  <2> QED BY <2>1, <2>2, <2>3
<1>2. \A i \in 0 .. n : i # 0 => g[i] = Square(k * s[i].x - sx)
  OBVIOUS
<1>3. \E f : f = [i \in 0 .. n |-> IF i = 0 THEN 0 ELSE f[i - 1] + Square(k * s[i].x - sx)]
  <2>1. PICK f : RunningSum(f, g, n)
    BY <1>1, SumExists
  <2> HIDE DEF g
  <2>2. f = [i \in 0 .. n |-> IF i = 0 THEN 0 ELSE f[i - 1] + Square(k * s[i].x - sx)]
    BY <1>2, <2>1 DEF RunningSum
  <2> QED BY <2>2
<1>4. sum = [i \in 0 .. n |-> IF i = 0 THEN 0 ELSE sum[i - 1] + Square(k * s[i].x - sx)]
  BY <1>3
<1> HIDE DEF sum, g
<1>5. RunningSum(sum, g, n)
  BY <1>2, <1>4 DEF RunningSum
<1>6. sum[n] \in Int /\ \A i \in 1 .. n : sum[n] >= Square(k * s[i].x - sx)
  <2>1. sum[n] \in Int /\ \A i \in 1 .. n : sum[n] >= g[i]
    BY <1>1, <1>5, SumCovers
  <2>2. \A i \in 1 .. n : i \in 0 .. n /\ i # 0
    OBVIOUS
  <2> QED BY <1>2, <2>1, <2>2
<1> QED BY <1>6 DEF SumOf, sum

(* ... and of the squares of the distances from a line they are all on.    *)
LEMMA SumOff ==
  ASSUME NEW s \in Seq(Points),
         NEW l, \A i \in 1 .. Len(s) : OffLine(l, s[i]) = 0
  PROVE  SumOf(LAMBDA p : Square(OffLine(l, p)), s) = 0
<1> DEFINE n == Len(s)
           g == [i \in 1 .. n |-> Square(OffLine(l, s[i]))]
           sum == CHOOSE f : f = [i \in 0 .. n |-> IF i = 0 THEN 0 ELSE f[i - 1] + Square(OffLine(l, s[i]))]
<1>1. n \in Nat /\ g \in [1 .. n -> Int] /\ \A i \in 1 .. n : g[i] = 0
  <2>1. n \in Nat /\ \A i \in 1 .. n : s[i] \in Points
    BY ElementOfSeq
  <2>2. Square(0) = 0
    BY DEF Square
  <2> QED BY <2>1, <2>2
<1>2. \A i \in 0 .. n : i # 0 => g[i] = Square(OffLine(l, s[i]))
  OBVIOUS
<1>3. \E f : f = [i \in 0 .. n |-> IF i = 0 THEN 0 ELSE f[i - 1] + Square(OffLine(l, s[i]))]
  <2>1. PICK f : RunningSum(f, g, n)
    BY <1>1, SumExists
  <2> HIDE DEF g
  <2>2. f = [i \in 0 .. n |-> IF i = 0 THEN 0 ELSE f[i - 1] + Square(OffLine(l, s[i]))]
    BY <1>2, <2>1 DEF RunningSum
  <2> QED BY <2>2
<1>4. sum = [i \in 0 .. n |-> IF i = 0 THEN 0 ELSE sum[i - 1] + Square(OffLine(l, s[i]))]
  BY <1>3
<1> HIDE DEF sum, g
<1>5. RunningSum(sum, g, n)
  BY <1>2, <1>4 DEF RunningSum
<1>6. sum[n] = 0
  <2> DEFINE c == 0
  <2>1. n \in Nat /\ g \in [1 .. n -> Int] /\ c \in Int /\ \A i \in 1 .. n : g[i] = c
    BY <1>1
  <2> HIDE DEF c
  <2>2. sum[n] = n * c
    BY <1>5, <2>1, SumOfEqual
  <2> QED BY <1>1, <2>2 DEF c
<1> QED BY <1>6 DEF SumOf, sum

(* The greatest common divisor of 0 and d is d: the function is defined,   *)
(* for its second argument becomes smaller and smaller.                    *)
LEMMA GcdIs ==
  gcd = [q \in Nat \X Nat |-> IF q[2] = 0 THEN q[1] ELSE gcd[<<q[2], q[1] % q[2]>>]]
<1> DEFINE S == [Nat \X Nat -> Nat]
           s0 == [q \in Nat \X Nat |-> 0]
           on(f) == [q \in Nat \X Nat |-> IF q[2] = 0 THEN q[1] ELSE f[<<q[2], q[1] % q[2]>>]]
           step == [p \in Nat \X S |-> on(p[2])]
<1>1. \A a, b \in Nat : b # 0 => a % b \in Nat /\ a % b < b
  OBVIOUS
<1>2. ASSUME NEW f \in S PROVE on(f) \in S
  <2>1. ASSUME NEW q \in Nat \X Nat, q[2] # 0 PROVE f[<<q[2], q[1] % q[2]>>] \in Nat
    BY <1>1, <2>1
  <2> QED BY <2>1
<1>3. \A f \in S, a \in Nat, b \in Nat : on(f)[<<a, b>>] = IF b = 0 THEN a ELSE f[<<b, a % b>>]
  OBVIOUS
<1>4. s0 \in S
  OBVIOUS
<1> HIDE DEF on, s0, S
<1>5. step \in [Nat \X S -> S] /\ \A i \in Nat, f \in S : step[<<i, f>>] = on(f)
  BY <1>2
<1> HIDE DEF step
<1>6. PICK F \in [Nat -> S] : F[0] = s0 /\ \A i \in Nat : F[i + 1] = step[<<i, F[i]>>]
  <2>1. Recursive(S, s0, step)
    BY <1>4, <1>5, Recursion
  <2> QED BY <2>1 DEF Recursive
<1>7. \A i, a, b \in Nat : F[i + 1][<<a, b>>] = IF b = 0 THEN a ELSE F[i][<<b, a % b>>]
  <2> SUFFICES ASSUME NEW i \in Nat, NEW a \in Nat, NEW b \in Nat
               PROVE  F[i + 1][<<a, b>>] = IF b = 0 THEN a ELSE F[i][<<b, a % b>>]
    OBVIOUS
  <2>1. F[i] \in S /\ F[i + 1] = on(F[i])
    BY <1>5, <1>6
  <2> QED BY <1>3, <2>1
<1> HIDE DEF on
<1>14. ASSUME NEW m \in Nat, m # 0, NEW a \in Nat, NEW b \in Nat
       PROVE  F[m][<<a, b>>] = IF b = 0 THEN a ELSE F[m - 1][<<b, a % b>>]
  <2>1. PICK h \in Nat : m = h + 1 /\ m - 1 = h
    BY <1>14
  <2>2. F[h + 1][<<a, b>>] = IF b = 0 THEN a ELSE F[h][<<b, a % b>>]
    BY <1>7
  <2> QED BY <2>1, <2>2
<1> DEFINE N == {n \in Nat : \A a, b, i, j \in Nat :
                   b < n /\ b < i /\ b < j => F[i][<<a, b>>] = F[j][<<a, b>>]}
<1>8. 0 \in N
  OBVIOUS
<1>9. ASSUME NEW n \in Nat, n \in N PROVE n + 1 \in N
  <2> SUFFICES ASSUME NEW a \in Nat, NEW b \in Nat, NEW i \in Nat, NEW j \in Nat,
                      b < n + 1, b < i, b < j
               PROVE  F[i][<<a, b>>] = F[j][<<a, b>>]
    OBVIOUS
  <2>1. i - 1 \in Nat /\ j - 1 \in Nat /\ (i - 1) + 1 = i /\ (j - 1) + 1 = j
    OBVIOUS
  <2>2. /\ F[i][<<a, b>>] = IF b = 0 THEN a ELSE F[i - 1][<<b, a % b>>]
        /\ F[j][<<a, b>>] = IF b = 0 THEN a ELSE F[j - 1][<<b, a % b>>]
    BY <1>14
  <2>3. CASE b # 0
    <3> DEFINE c == a % b
    <3>1. c \in Nat /\ c < b
      BY <1>1, <2>3
    <3> HIDE DEF c
    <3>2. c < n /\ c < i - 1 /\ c < j - 1
      BY <3>1
    <3>3. F[i - 1][<<b, c>>] = F[j - 1][<<b, c>>]
      BY <1>9, <2>1, <3>1, <3>2
    <3> QED BY <2>2, <2>3, <3>3 DEF c
  <2> QED BY <2>2, <2>3
<1>10. ASSUME NEW a \in Nat, NEW b \in Nat, NEW i \in Nat, NEW j \in Nat, b < i, b < j
       PROVE  F[i][<<a, b>>] = F[j][<<a, b>>]
  <2> HIDE DEF N
  <2>1. b + 1 \in N
    BY <1>8, <1>9, Successors
  <2> QED BY <1>10, <2>1 DEF N
<1> DEFINE G == [q \in Nat \X Nat |-> F[q[2] + 1][q]]
<1>11. ASSUME NEW a \in Nat, NEW b \in Nat
       PROVE  F[b + 1][<<a, b>>] = IF b = 0 THEN a ELSE G[<<b, a % b>>]
  <2>1. F[b + 1][<<a, b>>] = IF b = 0 THEN a ELSE F[b][<<b, a % b>>]
    BY <1>7
  <2>2. CASE b # 0
    <3> DEFINE c == a % b
    <3>1. c \in Nat /\ c < b /\ c + 1 \in Nat
      BY <1>1, <2>2
    <3> HIDE DEF c
    <3>2. F[b][<<b, c>>] = F[c + 1][<<b, c>>]
      BY <1>10, <3>1
    <3>3. G[<<b, c>>] = F[c + 1][<<b, c>>]
      BY <3>1
    <3> QED BY <2>1, <2>2, <3>2, <3>3 DEF c
  <2> QED BY <2>1, <2>2
<1>12. G = [q \in Nat \X Nat |-> IF q[2] = 0 THEN q[1] ELSE G[<<q[2], q[1] % q[2]>>]]
  <2> SUFFICES ASSUME NEW q \in Nat \X Nat
               PROVE  F[q[2] + 1][q] = IF q[2] = 0 THEN q[1] ELSE G[<<q[2], q[1] % q[2]>>]
    OBVIOUS
  <2>1. q[1] \in Nat /\ q[2] \in Nat /\ q = <<q[1], q[2]>>
    OBVIOUS
  <2> HIDE DEF G
  <2> QED BY <1>11, <2>1
<1>13. \E f : f = [q \in Nat \X Nat |-> IF q[2] = 0 THEN q[1] ELSE f[<<q[2], q[1] % q[2]>>]]
  BY <1>12
<1> QED BY <1>13 DEF gcd

LEMMA GcdWithZero ==
  ASSUME NEW d \in Nat, d # 0 PROVE gcd[<<0, d>>] = d
<1>1. 0 % d = 0
  OBVIOUS
<1>2. gcd[<<0, d>>] = gcd[<<d, 0>>]
  BY <1>1, GcdIs
<1>3. gcd[<<d, 0>>] = d
  BY GcdIs
<1> QED BY <1>2, <1>3

(* A line along the row r.                                                 *)
AlongRow(l, r) == l.n = 0 /\ l.d = 1 /\ l.k \in Nat \ {0} /\ l.x \in Int /\ l.y = l.k * r

(* Such is the line that is fitted through points of the row.              *)
LEMMA LineAlongRow ==
  ASSUME NEW s \in Seq(Points), Ordered(s), Len(s) >= 2,
         NEW r \in Int, \A i \in 1 .. Len(s) : s[i].y = r
  PROVE  AlongRow(Line(s), r)
<1> DEFINE k  == Len(s)
           sx == SumOf(LAMBDA p : p.x, s)
           sy == SumOf(LAMBDA p : p.y, s)
           n  == SumOf(LAMBDA p : (k * p.x - sx) * (k * p.y - sy), s)
           d  == SumOf(LAMBDA p : Square(k * p.x - sx), s)
           g  == gcd[<<IF n < 0 THEN -n ELSE n, d>>]
<1>1. k \in Nat /\ k >= 2 /\ sx \in Int
  BY SumX
<1>2. sy = k * r /\ sy \in Int
  BY <1>1, SumY
<1> HIDE DEF sx, sy
<1>3. n = 0
  <2>1. \A i \in 1 .. Len(s) : k * s[i].y = sy
    BY <1>2
  <2>2. k \in Int
    BY <1>1
  <2> QED BY <1>1, <1>2, <2>1, <2>2, SumFlat, Zenon
<1>4. d \in Int /\ \A i \in 1 .. k : d >= Square(k * s[i].x - sx)
  <2>1. k \in Int
    BY <1>1
  <2> QED BY <1>1, <2>1, SumSquares, Zenon
<1> HIDE DEF n, d
<1>5. d \in Nat /\ d # 0
  <2>1. 1 \in 1 .. k /\ 2 \in 1 .. k /\ DOMAIN s = 1 .. k
    BY <1>1
  <2>2. s[1] \in Points /\ s[2] \in Points
    BY <2>1, ElementOfSeq
  <2>3. s[1].x \in Int /\ s[2].x \in Int /\ s[1].x < s[2].x
    BY <2>1, <2>2 DEF Points, Ordered
  <2> DEFINE u == k * s[1].x - sx
             v == k * s[2].x - sx
  <2>4. u \in Int /\ v \in Int /\ u # v
    <3>1. \A h \in Nat, a, b \in Int : h # 0 /\ a < b => h * a < h * b /\ h * a \in Int /\ h * b \in Int
      OBVIOUS
    <3> HIDE DEF k
    <3>2. k * s[1].x < k * s[2].x /\ k * s[1].x \in Int /\ k * s[2].x \in Int
      BY <1>1, <2>3, <3>1
    <3> QED BY <1>1, <3>2
  <2>5. d >= Square(u) /\ d >= Square(v)
    BY <1>4, <2>1
  <2> HIDE DEF u, v
  <2>6. \A w \in Int : Square(w) \in Int /\ Square(w) >= 0 /\ (w # 0 => Square(w) > 0)
    BY DEF Square
  <2>7. u # 0 \/ v # 0
    BY <2>4
  <2>8. d >= Square(u) /\ d >= Square(v) /\ Square(u) \in Int /\ Square(v) \in Int
        /\ (Square(u) > 0 \/ Square(v) > 0)
    BY <2>4, <2>5, <2>6, <2>7
  <2>9. d \in Int
    BY <1>4
  <2> QED BY <2>8, <2>9
<1>6. g = d
  BY <1>3, <1>5, GcdWithZero
<1>7. Line(s) = [k |-> k, x |-> sx, y |-> sy, n |-> n \div g, d |-> d \div g]
  BY DEF Line, sx, sy, n, d
<1> HIDE DEF g, k
<1>8. n \div g = 0 /\ d \div g = 1
  <2>1. \A e \in Nat : e # 0 => 0 \div e = 0 /\ e \div e = 1
    OBVIOUS
  <2> QED BY <1>3, <1>5, <1>6, <2>1
<1> QED BY <1>1, <1>2, <1>7, <1>8 DEF AlongRow

(* The distance from it is that of the rows.                               *)
LEMMA OffTheRow ==
  ASSUME NEW l, NEW r \in Int, AlongRow(l, r), NEW p \in Points
  PROVE  OffLine(l, p) = l.k * (r - p.y)
<1>1. p.x \in Int /\ p.y \in Int /\ l.k \in Int /\ l.x \in Int
  BY DEF Points, AlongRow
<1> DEFINE k == l.k
           q == p.y
<1>2. OffLine(l, p) = 0 * (k * p.x - l.x) - 1 * (k * q - k * r)
  BY DEF OffLine, AlongRow
<1>3. k * p.x - l.x \in Int /\ k * q \in Int /\ k * r \in Int
  BY <1>1
<1>4. OffLine(l, p) = k * r - k * q
  BY <1>2, <1>3
<1>5. \A a, b, c \in Int : a * b - a * c = a * (b - c)
  OBVIOUS
<1> QED BY <1>1, <1>4, <1>5

(* The points of the row do not deviate from it.                           *)
LEMMA RowDeviation ==
  ASSUME NEW s \in Seq(Points), NEW r \in Int, \A i \in 1 .. Len(s) : s[i].y = r,
         NEW l, AlongRow(l, r)
  PROVE  Deviation(l, s) = 0
<1>1. ASSUME NEW i \in 1 .. Len(s) PROVE OffLine(l, s[i]) = 0
  <2>1. s[i] \in Points
    BY ElementOfSeq
  <2>2. OffLine(l, s[i]) = l.k * (r - r)
    BY <2>1, OffTheRow
  <2> QED BY <2>2 DEF AlongRow
<1>2. SumOf(LAMBDA p : Square(OffLine(l, p)), s) = 0
  <2>1. \A i \in 1 .. Len(s) : OffLine(l, s[i]) = 0
    BY <1>1
  <2> QED BY <2>1, SumOff DEF SumOf
<1>3. Deviation(l, s) = 0 \div l.k
  BY <1>2 DEF Deviation
<1>4. \A k \in Nat : k # 0 => 0 \div k = 0
  OBVIOUS
<1> QED BY <1>3, <1>4 DEF AlongRow

(* What is in the row is on the line; what is more than MinDist rows below *)
(* it is not.                                                              *)
LEMMA FarFromRow ==
  ASSUME NEW l, NEW r \in Int, AlongRow(l, r), NEW p \in Points
  PROVE  /\ p.y = r => ~Far(l, 0, p)
         /\ p.y > r + MinDist => Far(l, 0, p)
<1> DEFINE k == l.k
           e == r - p.y
           m == MinDist
<1>1. k \in Nat /\ k # 0 /\ m \in Nat /\ e \in Int /\ p.y \in Int
  BY GeometryAssumption DEF AlongRow, Points
<1>2. Square(0) = 0 /\ Square(1) = 1
  BY DEF Square
<1>3. Far(l, 0, p) <=> Square(k * e) > 0 /\ Square(k * e) > Square(m * k) * (0 + 1)
  BY <1>2, OffTheRow DEF Far, AlongRow
<1>4. CASE p.y = r
  <2>1. k * e = 0
    BY <1>1, <1>4
  <2> QED BY <1>1, <1>2, <1>3, <1>4, <2>1
<1>5. CASE p.y > r + MinDist
  <2>1. e < -m
    BY <1>1, <1>5
  <2> DEFINE a == m * k
             b == k * (-e)
  <2>2. a \in Nat /\ b \in Nat /\ a < b
    <3>1. \A i, j, h \in Nat : h # 0 /\ i < j => i * h < h * j /\ i * h \in Nat /\ h * j \in Nat
      OBVIOUS
    <3>2. -e \in Nat /\ m < -e
      BY <1>1, <2>1
    <3> HIDE DEF k, e, m
    <3> QED BY <1>1, <3>1, <3>2
  <2>3. Square(k * e) = b * b /\ Square(m * k) = a * a
    <3>1. \A i, j \in Int : (i * j) * (i * j) = (i * (-j)) * (i * (-j))
      OBVIOUS
    <3> HIDE DEF k, e, m
    <3> QED BY <1>1, <3>1 DEF Square
  <2>4. a * a < b * b /\ a * a \in Nat /\ b * b \in Nat
    <3>1. \A i, j \in Nat : i < j => i * i < j * j /\ i * i \in Nat /\ j * j \in Nat
      OBVIOUS
    <3> HIDE DEF a, b
    <3> QED BY <2>2, <3>1
  <2> HIDE DEF a, b, k, e, m
  <2>5. b * b > (a * a) * (0 + 1) /\ b * b > 0
    BY <2>4
  <2>6. Far(l, 0, p)
    BY <1>3, <2>3, <2>5
  <2> QED BY <1>1, <1>5, <2>6 DEF m
<1> QED BY <1>1, <1>4, <1>5

-----------------------------------------------------------------------------
(* A level line: in the columns where it is printed the first edge is in   *)
(* row r, in the upper half of the page, and in the others that the search *)
(* may look at, which end a step beyond the print, there is none down to   *)
(* the last row; more of the printed columns than MinPoints are probed.    *)

Lo == Printed(image).left
Hi == Printed(image).right
Probed == {x \in 0 .. Width - Margin - 1 : \E k \in 0 .. x : x = ProbeFrom + k * ProbeStep}
OnPrint == {x \in Probed : Lo <= x /\ x <= Hi}
Columns == Probed \cup (Lo - SeekStep .. Hi + SeekStep)

LevelLine(r) ==
  /\ Lo \in Int /\ Hi \in Int
  /\ r + MinDist < Height - 1 /\ r < Height \div 2
  /\ \A x \in Columns :
       /\ Readable(x, 0 .. Height - 1)
       /\ [x |-> x, y |-> IF x \in Lo .. Hi THEN r ELSE Height - 1] \in Edges
  /\ Cardinality(OnPrint) > MinPoints

(* The search for it: the points are those of the printed columns probed,  *)
(* and the walks run from them along the row.                              *)
AlongPrint(r) ==
  /\ find.pc # "idle" => \A i \in DOMAIN points : points[i].y = r /\ points[i].x \in Lo .. Hi
  /\ Active /\ find.seek = "probe" =>
       find.x \in Probed /\ Len(points) = Cardinality({x \in OnPrint : x < find.x})
  /\ find.pc = "fit" => Len(points) = Cardinality(OnPrint)
  /\ Active /\ find.seek # "probe" =>
       AlongRow(find.line, r) /\ find.dev = 0 /\ find.at.x \in Lo .. Hi
  /\ Active /\ find.seek = "left"  => find.x = find.at.x - SeekStep
  /\ Active /\ find.seek = "right" =>
       find.x = find.at.x + SeekStep /\ find.topLeft.x \in Lo .. Lo + SeekStep - 1
  /\ find.pc = "found" => /\ find.topLeft.x \in Lo .. Lo + SeekStep - 1
                          /\ find.topRight.x \in Hi - SeekStep + 1 .. Hi
  /\ find.pc \notin {"noline", "panic"}

LevelInv == \A r \in Nat : LevelLine(r) => AlongPrint(r)

(* A column has one first edge.                                            *)
LEMMA OneEdge ==
  ASSUME NEW p \in Edges, NEW q \in Edges, p.x = q.x PROVE p.y = q.y
<1>1. ASSUME NEW a \in Edges, NEW b \in Edges, a.x = b.x, a.y < b.y PROVE FALSE
  <2>1. /\ a \in Points /\ b \in Points /\ a.y + 1 >= Tall
        /\ a.y + 1 >= Height \/ NDark(a.x, a.y + 1 - Tall .. a.y) >= DarkPx
        /\ \A c \in Tall .. b.y : c < Height /\ NDark(b.x, c - Tall .. c - 1) < DarkPx
    BY DEF Edges
  <2>2. a.y \in Int /\ b.y \in Int /\ Tall \in Int /\ Height \in Int /\ DarkPx \in Int
    BY <2>1, GeometryAssumption DEF Points
  <2>8. PICK next \in Int : next = a.y + 1
    BY <2>2
  <2>3. next \in Tall .. b.y /\ next - 1 = a.y
    BY <1>1, <2>1, <2>2, <2>8
  <2>4. next < Height /\ NDark(b.x, next - Tall .. next - 1) < DarkPx
    BY <2>1, <2>3
  <2>6. a.y + 1 < Height /\ NDark(a.x, a.y + 1 - Tall .. a.y) < DarkPx
    <3>1. next < Height /\ NDark(a.x, next - Tall .. a.y) < DarkPx
      BY <1>1, <2>3, <2>4
    <3>2. next - Tall = a.y + 1 - Tall
      BY <2>2, <2>8
    <3> QED BY <2>8, <3>1, <3>2
  <2>5. NDark(a.x, a.y + 1 - Tall .. a.y) \in Nat
    <3>1. IsFiniteSet(a.y + 1 - Tall .. a.y)
      BY <2>2, FS_Interval
    <3> QED BY <3>1, DarkFinite
  <2> QED BY <2>1, <2>2, <2>5, <2>6
<1>2. p.y \in Int /\ q.y \in Int
  BY DEF Edges, Points
<1>3. ~(p.y < q.y) /\ ~(q.y < p.y)
  BY <1>1
<1> QED BY <1>2, <1>3

(* It is what the search returns.                                          *)
LEMMA RowFound ==
  ASSUME NEW r \in Nat, LevelLine(r), SearchInv, EdgeInv, Returned, find.x \in Columns
  PROVE  /\ Edge = IF find.x \in Lo .. Hi THEN r ELSE Height - 1
         /\ [x |-> find.x, y |-> Edge] \in Points
<1> DEFINE p == [x |-> find.x, y |-> Edge]
           q == [x |-> find.x, y |-> IF find.x \in Lo .. Hi THEN r ELSE Height - 1]
<1>1. p \in Edges
  BY ReturnedIsEdge
<1>2. q \in Edges
  BY DEF LevelLine, Columns
<1>3. p.x = q.x /\ p.y = Edge /\ q.y = IF find.x \in Lo .. Hi THEN r ELSE Height - 1
  OBVIOUS
<1> HIDE DEF p, q
<1>4. p.y = q.y
  BY <1>1, <1>2, <1>3, OneEdge
<1>5. p \in Points
  BY <1>1 DEF Edges
<1> QED BY <1>3, <1>4, <1>5 DEF p

(* A walk is on the line as far as it is printed.                          *)
LEMMA OnLineIsOnPrint ==
  ASSUME NEW r \in Nat, LevelLine(r), AlongPrint(r), SearchInv, EdgeInv, Returned,
         find.seek # "probe", find.x \in Columns
  PROVE  OnLine <=> find.x \in Lo .. Hi
<1> DEFINE p == [x |-> find.x, y |-> Edge]
<1>1. AlongRow(find.line, r) /\ find.dev = 0
  BY DEF AlongPrint, Active, Returned
<1>2. p \in Points /\ p.y = IF find.x \in Lo .. Hi THEN r ELSE Height - 1
  BY RowFound
<1>3. OnLine <=> ~Far(find.line, find.dev, p)
  BY DEF OnLine, Edge
<1> HIDE DEF p
<1>4. Height - 1 > r + MinDist
  BY GeometryAssumption DEF LevelLine
<1>5. /\ p.y = r => ~Far(find.line, 0, p)
      /\ p.y > r + MinDist => Far(find.line, 0, p)
  BY <1>1, <1>2, FarFromRow
<1> QED BY <1>1, <1>2, <1>3, <1>4, <1>5

(* The next column that is probed, and the printed columns before it.      *)
LEMMA NextProbed ==
  ASSUME NEW x \in Probed, Lo \in Int, Hi \in Int
  PROVE  /\ x + ProbeStep < Width - Margin => x + ProbeStep \in Probed
         /\ {q \in OnPrint : q < x + ProbeStep}
              = IF x \in Lo .. Hi THEN {q \in OnPrint : q < x} \cup {x} ELSE {q \in OnPrint : q < x}
<1> USE GeometryAssumption
<1>1. x \in Int /\ x >= 0 /\ x < Width - Margin
  BY DEF Probed
<1>2. PICK k \in 0 .. x : x = ProbeFrom + k * ProbeStep
  BY DEF Probed
<1>3. \A a \in Nat : a * ProbeStep \in Nat /\ (a + 1) * ProbeStep = a * ProbeStep + ProbeStep
  OBVIOUS
<1>4. k \in Nat /\ x + ProbeStep = ProbeFrom + (k + 1) * ProbeStep
  BY <1>2, <1>3
<1>5. ASSUME x + ProbeStep < Width - Margin PROVE x + ProbeStep \in Probed
  <2>1. k + 1 \in 0 .. x + ProbeStep /\ x + ProbeStep \in 0 .. Width - Margin - 1
    BY <1>1, <1>2, <1>5
  <2> QED BY <1>4, <2>1 DEF Probed
<1>6. ASSUME NEW q \in Probed, q < x + ProbeStep PROVE q <= x
  <2>1. PICK j \in 0 .. q : q = ProbeFrom + j * ProbeStep
    BY DEF Probed
  <2>2. j \in Nat /\ q \in Nat
    BY <2>1 DEF Probed
  <2>3. CASE j >= k + 1
    <3>1. PICK d \in Nat : j = (k + 1) + d
      BY <1>4, <2>2, <2>3
    <3>2. \A a, b \in Nat : (a + b) * ProbeStep = a * ProbeStep + b * ProbeStep
      OBVIOUS
    <3>3. j * ProbeStep = (k + 1) * ProbeStep + d * ProbeStep
      BY <1>4, <3>1, <3>2
    <3>4. d * ProbeStep \in Nat /\ (k + 1) * ProbeStep \in Nat
      BY <1>3, <1>4
    <3> QED BY <1>1, <1>4, <1>6, <2>1, <2>2, <3>3, <3>4
  <2>4. CASE j <= k
    <3>1. PICK d \in Nat : k = j + d
      BY <1>4, <2>2, <2>4
    <3>2. \A a, b \in Nat : (a + b) * ProbeStep = a * ProbeStep + b * ProbeStep
      OBVIOUS
    <3>3. k * ProbeStep = j * ProbeStep + d * ProbeStep
      BY <2>2, <3>1, <3>2
    <3>4. d * ProbeStep \in Nat /\ j * ProbeStep \in Nat
      BY <1>3, <2>2
    <3> QED BY <1>1, <1>2, <2>1, <2>2, <3>3, <3>4
  <2> QED BY <1>4, <2>2, <2>3, <2>4
<1>7. \A q \in OnPrint : q \in Probed /\ q \in Int /\ q \in Lo .. Hi
  BY DEF OnPrint, Probed
<1>8. \A q \in OnPrint : q < x + ProbeStep <=> q < x \/ q = x
  BY <1>1, <1>6, <1>7
<1>9. x \in OnPrint <=> x \in Lo .. Hi
  BY <1>1 DEF OnPrint
<1> QED BY <1>5, <1>8, <1>9

(* There are finitely many.                                                *)
LEMMA PrintFinite ==
  ASSUME NEW S, S \subseteq OnPrint PROVE IsFiniteSet(S) /\ Cardinality(S) \in Nat
<1>1. IsFiniteSet(0 .. Width - Margin - 1)
  BY FS_Interval, GeometryAssumption
<1>2. S \subseteq 0 .. Width - Margin - 1
  BY DEF OnPrint, Probed
<1> QED BY <1>1, <1>2, FS_Subset, FS_CardinalityType

(* Steps that look at the same picture are about the same line.            *)
LEMMA SameLine ==
  ASSUME NEW r \in Nat, UNCHANGED <<image, threshold>>
  PROVE  LevelLine(r)' = LevelLine(r) /\ Lo' = Lo /\ Hi' = Hi /\ OnPrint' = OnPrint
<1>1. Edges' = Edges
  BY DEF Edges, NDark, DarkIn
<1>2. Lo' = Lo /\ Hi' = Hi
  BY DEF Lo, Hi
<1>3. OnPrint' = OnPrint /\ Columns' = Columns
  BY <1>2 DEF OnPrint, Columns
<1> QED BY <1>1, <1>2, <1>3 DEF LevelLine

(* Wherever the search looks, it finds pixels.                             *)
LEMMA NoPanic ==
  ASSUME NEW r \in Nat, LevelLine(r), SearchInv, EdgeInv, find.x \in Columns,
         StartColumn \/ Slide
  PROVE  find'.pc = "slide"
<1> USE GeometryAssumption
<1>1. \A rows \in SUBSET (0 .. Height - 1) : Readable(find.x, rows)
  BY DEF LevelLine, Columns, Readable, Block
<1>2. r + 1 >= Tall /\ r < Height - 1
  <2>1. PICK x \in OnPrint : TRUE
    <3>1. OnPrint # {}
      <4>1. Cardinality(OnPrint) > MinPoints /\ Cardinality({}) = 0
        BY FS_EmptySet DEF LevelLine
      <4>2. ~(0 > MinPoints)
        OBVIOUS
      <4> QED BY <4>1, <4>2
    <3> QED BY <3>1
  <2>2. x \in Columns /\ x \in Lo .. Hi
    BY DEF OnPrint, Columns, Probed, LevelLine
  <2>3. [x |-> x, y |-> r] \in Edges
    BY <2>2 DEF LevelLine, Columns
  <2> QED BY <2>3 DEF Edges, LevelLine
<1>3. CASE StartColumn
  <2>1. 0 .. Tall - 1 \in SUBSET (0 .. Height - 1)
    BY <1>2
  <2>2. Readable(find.x, 0 .. Tall - 1)
    BY <1>1, <2>1
  <2> QED BY <1>3, <2>2 DEF StartColumn, EdgeInv, Shape
<1>4. CASE Slide
  <2>1. find.bottom \in Nat /\ find.bottom >= Tall /\ find.bottom < Height
    BY <1>4 DEF Slide, Searching, EdgeInv
  <2>2. {find.bottom - Tall, find.bottom} \in SUBSET (0 .. Height - 1)
    BY <2>1
  <2>3. Readable(find.x, {find.bottom - Tall, find.bottom})
    BY <1>1, <2>2
  <2> QED BY <1>4, <2>3 DEF Slide, EdgeInv, Shape
<1> QED BY <1>3, <1>4

(* The columns of a walk are those of the print and of a step beyond it.   *)
LEMMA LooksNearPrint ==
  ASSUME NEW r \in Nat, LevelLine(r), AlongPrint(r), SearchInv, Active
  PROVE  find.x \in Columns /\ Lo \in Int /\ Hi \in Int
<1> USE GeometryAssumption
<1>1. Lo \in Int /\ Hi \in Int /\ find.seek \in {"probe", "left", "right"}
  BY DEF LevelLine, SearchInv, Seeks
<1>2. CASE find.seek = "probe"
  BY <1>1, <1>2 DEF AlongPrint, Columns
<1>3. CASE find.seek # "probe"
  <2>1. /\ find.at.x \in Lo .. Hi
        /\ find.x = find.at.x - SeekStep \/ find.x = find.at.x + SeekStep
    BY <1>1, <1>3 DEF AlongPrint
  <2>2. find.x \in Lo - SeekStep .. Hi + SeekStep
    BY <1>1, <2>1
  <2> QED BY <1>1, <2>2 DEF Columns
<1> QED BY <1>2, <1>3

(* The steps of a search for a level line, one by one.                     *)
LEMMA ColumnsKeepLevel ==
  ASSUME NEW r \in Nat, LevelLine(r), AlongPrint(r), SearchInv, EdgeInv, StartColumn \/ Slide
  PROVE  AlongPrint(r)'
<1>1. Active /\ UNCHANGED <<image, threshold, points>>
  BY DEF Active, StartColumn, Slide
<1>2. find'.pc = "slide"
  BY <1>1, LooksNearPrint, NoPanic
<1>3. /\ find'.seek = find.seek /\ find'.x = find.x /\ find'.at = find.at
      /\ find'.line = find.line /\ find'.dev = find.dev /\ find'.topLeft = find.topLeft
  BY DEF StartColumn, Slide, Panic, EdgeInv, Shape
<1>4. Lo' = Lo /\ Hi' = Hi /\ OnPrint' = OnPrint
  BY <1>1, SameLine
<1>5. Active' /\ find.pc # "idle"
  BY <1>1, <1>2 DEF Active
<1> QED BY <1>1, <1>2, <1>3, <1>4, <1>5 DEF AlongPrint

LEMMA WalksKeepLevel ==
  ASSUME NEW r \in Nat, LevelLine(r), AlongPrint(r), SearchInv, EdgeInv, PointsInv,
         WalkOn \/ LeftEnd \/ RightEnd
  PROVE  AlongPrint(r)'
<1> USE GeometryAssumption
<1>1. Active /\ Returned /\ find.seek \in {"left", "right"} /\ UNCHANGED <<image, threshold, points>>
  BY DEF Active, Returned, WalkOn, LeftEnd, RightEnd, SearchInv, Seeks
<1>2. find.x \in Columns /\ Lo \in Int /\ Hi \in Int
  BY <1>1, LooksNearPrint
<1>3. OnLine <=> find.x \in Lo .. Hi
  BY <1>1, <1>2, OnLineIsOnPrint
<1>4. Lo' = Lo /\ Hi' = Hi /\ OnPrint' = OnPrint
  BY <1>1, SameLine
<1>5. /\ AlongRow(find.line, r) /\ find.dev = 0 /\ find.at.x \in Lo .. Hi
      /\ find.seek = "left" => find.x = find.at.x - SeekStep
      /\ find.seek = "right" => find.x = find.at.x + SeekStep /\ find.topLeft.x \in Lo .. Lo + SeekStep - 1
      /\ \A i \in DOMAIN points : points[i].y = r /\ points[i].x \in Lo .. Hi
  BY <1>1 DEF AlongPrint, Active
<1>6. CASE WalkOn
  <2>1. /\ find'.pc = "start" /\ find'.seek = find.seek /\ find'.at.x = find.x
        /\ find'.line = find.line /\ find'.dev = find.dev /\ find'.topLeft = find.topLeft
        /\ find'.x = IF find.seek = "left" THEN find.x - SeekStep ELSE find.x + SeekStep
        /\ find.x \in Lo .. Hi
    BY <1>3, <1>6 DEF WalkOn, EdgeInv, Shape
  <2> QED BY <1>1, <1>4, <1>5, <2>1 DEF AlongPrint, Active
<1>7. CASE LeftEnd
  <2>1. /\ find'.pc = "start" /\ find'.seek = "right" /\ find'.at = LastButOne
        /\ find'.line = find.line /\ find'.dev = find.dev /\ find'.topLeft = find.at
        /\ find'.x = LastButOne.x + SeekStep /\ find.seek = "left" /\ ~(find.x \in Lo .. Hi)
    BY <1>3, <1>7 DEF LeftEnd, EdgeInv, Shape, LastButOne
  <2>2. find.at.x \in Lo .. Lo + SeekStep - 1
    BY <1>2, <1>5, <2>1
  <2>3. LastButOne.x \in Lo .. Hi
    <3>1. Len(points) > MinPoints /\ points \in Seq(Points)
      BY <1>1, <2>1 DEF SearchInv, PointsInv
    <3>2. Len(points) - 1 \in DOMAIN points
      BY <3>1
    <3> QED BY <1>5, <3>2 DEF LastButOne
  <2> QED BY <1>1, <1>4, <1>5, <2>1, <2>2, <2>3 DEF AlongPrint, Active
<1>8. CASE RightEnd
  <2>1. /\ find'.pc = "found" /\ find'.topLeft = find.topLeft /\ find'.topRight = find.at
        /\ find.seek = "right" /\ ~(find.x \in Lo .. Hi)
    BY <1>3, <1>8 DEF RightEnd, EdgeInv, Shape
  <2>2. find.at.x \in Hi - SeekStep + 1 .. Hi
    BY <1>2, <1>5, <2>1
  <2> QED BY <1>1, <1>4, <1>5, <2>1, <2>2 DEF AlongPrint, Active
<1> QED BY <1>6, <1>7, <1>8

LEMMA ProbeKeepsLevel ==
  ASSUME NEW r \in Nat, LevelLine(r), AlongPrint(r), SearchInv, EdgeInv, PointsInv, Probe
  PROVE  AlongPrint(r)'
<1> USE GeometryAssumption
<1>1. Active /\ Returned /\ find.seek = "probe" /\ UNCHANGED <<image, threshold>>
  BY DEF Active, Returned, Probe
<1>2. find.x \in Columns /\ Lo \in Int /\ Hi \in Int /\ find.x \in Probed
  BY <1>1, LooksNearPrint DEF AlongPrint
<1>3. Edge = IF find.x \in Lo .. Hi THEN r ELSE Height - 1
  BY <1>1, <1>2, RowFound
<1>4. Edge < Height \div 2 <=> find.x \in Lo .. Hi
  <2>1. r + MinDist < Height - 1 /\ r < Height \div 2
    BY DEF LevelLine
  <2>2. ~(Height - 1 < Height \div 2)
    BY <2>1
  <2> QED BY <1>3, <2>1, <2>2
<1> DEFINE p == [x |-> find.x, y |-> Edge]
           before(x) == {q \in OnPrint : q < x}
           next == find.x + ProbeStep
<1>5. points \in Seq(Points) /\ Len(points) \in Nat /\ Len(points) = Cardinality(before(find.x))
      /\ \A i \in DOMAIN points : points[i].y = r /\ points[i].x \in Lo .. Hi
  BY <1>1 DEF AlongPrint, PointsInv, Active
<1>6. IsFiniteSet(before(find.x))
  BY PrintFinite
<1>7. /\ next < Width - Margin => next \in Probed
      /\ before(next) = IF find.x \in Lo .. Hi THEN before(find.x) \cup {find.x} ELSE before(find.x)
  BY <1>2, NextProbed
<1>8. p \in Points
  BY <1>1, <1>2, RowFound
<1>9. /\ points' \in Seq(Points)
      /\ \A i \in DOMAIN points' : points'[i].y = r /\ points'[i].x \in Lo .. Hi
      /\ Len(points') = Cardinality(before(next))
  <2>1. CASE find.x \in Lo .. Hi
    <3>1. points' = Append(points, p) /\ p.y = r /\ p.x = find.x
      BY <1>3, <1>4, <2>1 DEF Probe
    <3> HIDE DEF p
    <3>2. points' \in Seq(Points) /\ Len(points') = Len(points) + 1
      BY <1>5, <1>8, <3>1
    <3>3. ASSUME NEW i \in DOMAIN points' PROVE points'[i].y = r /\ points'[i].x \in Lo .. Hi
      BY <1>5, <1>8, <2>1, <3>1
    <3>4. find.x \notin before(find.x)
      BY <1>2 DEF Probed
    <3> HIDE DEF before
    <3>5. Cardinality(before(find.x) \cup {find.x}) = Cardinality(before(find.x)) + 1
      BY <1>6, <3>4, FS_AddElement
    <3> QED BY <1>5, <1>7, <2>1, <3>2, <3>3, <3>5
  <2>2. CASE find.x \notin Lo .. Hi
    BY <1>4, <1>5, <1>7, <2>2 DEF Probe
  <2> QED BY <2>1, <2>2
<1>10. Lo' = Lo /\ Hi' = Hi /\ OnPrint' = OnPrint
  BY <1>1, SameLine
<1>11. CASE next < Width - Margin
  <2>1. find'.pc = "start" /\ find'.seek = "probe" /\ find'.x = next
    BY <1>1, <1>11 DEF Probe, EdgeInv, Shape
  <2> QED BY <1>7, <1>9, <1>10, <1>11, <2>1 DEF AlongPrint, Active
<1>12. CASE ~(next < Width - Margin)
  <2>1. find'.pc = "fit"
    BY <1>1, <1>12 DEF Probe, EdgeInv, Shape
  <2>2. before(next) = OnPrint
    <3>1. \A q \in OnPrint : q < next
      BY <1>2, <1>12 DEF OnPrint, Probed
    <3> QED BY <3>1
  <2> QED BY <1>9, <1>10, <2>1, <2>2 DEF AlongPrint, Active
<1> QED BY <1>11, <1>12

LEMMA FitKeepsLevel ==
  ASSUME NEW r \in Nat, LevelLine(r), AlongPrint(r), SearchInv, EdgeInv, PointsInv, LinePoints
  PROVE  AlongPrint(r)'
<1> USE GeometryAssumption
<1>1. find.pc = "fit" /\ UNCHANGED <<image, threshold>>
  BY DEF LinePoints
<1>2. /\ points \in Seq(Points) /\ Ordered(points) /\ Len(points) \in Nat /\ DOMAIN points = 1 .. Len(points)
      /\ Len(points) > MinPoints
      /\ \A i \in 1 .. Len(points) : points[i].y = r /\ points[i].x \in Lo .. Hi
  <2>1. Len(points) = Cardinality(OnPrint) /\ Cardinality(OnPrint) > MinPoints
    BY <1>1 DEF AlongPrint, LevelLine
  <2> QED BY <1>1, <2>1 DEF AlongPrint, PointsInv
<1> DEFINE l == Line(points)
           dev == Deviation(l, points)
<1>3. AlongRow(l, r)
  <2>1. Len(points) >= 2
    BY <1>2
  <2> QED BY <1>2, <2>1, LineAlongRow
<1> HIDE DEF l
<1>4. dev = 0
  BY <1>2, <1>3, RowDeviation
<1>5. Near(l, dev, points) = points
  <2>1. ASSUME NEW i \in 1 .. Len(points) PROVE ~Far(l, 0, points[i])
    <3>1. points[i] \in Points /\ points[i].y = r
      BY <1>2, ElementOfSeq
    <3> QED BY <1>3, <3>1, FarFromRow
  <2>2. \A i \in 1 .. Len(points) : ~Far(l, dev, points[i])
    BY <1>4, <2>1
  <2> HIDE DEF dev
  <2> QED BY <1>2, <2>2, NearAll
<1>6. WalkFrom(l, dev) /\ points' = points
  <2>1. ~(Len(points) <= MinPoints)
    BY <1>2
  <2> QED BY <1>5, <2>1 DEF LinePoints, l
<1>7. /\ find'.pc = "start" /\ find'.seek = "left" /\ find'.x = Second.x - SeekStep /\ find'.at = Second
      /\ find'.line = l /\ find'.dev = 0
  BY <1>4, <1>6 DEF WalkFrom, EdgeInv, Shape, Second
<1>8. Second.x \in Lo .. Hi
  <2>1. 2 \in 1 .. Len(points)
    BY <1>2
  <2> QED BY <1>2, <2>1 DEF Second
<1>9. Lo' = Lo /\ Hi' = Hi /\ OnPrint' = OnPrint
  BY <1>1, SameLine
<1> QED BY <1>2, <1>3, <1>6, <1>7, <1>8, <1>9 DEF AlongPrint, Active

LEMMA LevelStep ==
  ASSUME LevelInv, SearchInv, EdgeInv, PointsInv, ContextInv, [Next]_vars PROVE LevelInv'
<1> SUFFICES ASSUME NEW r \in Nat, LevelLine(r)' PROVE AlongPrint(r)'
  BY DEF LevelInv
<1>1. CASE Hot \/ Refine \/ Compare \/ UNCHANGED vars
  <2>1. UNCHANGED <<image, threshold, find, points>>
    BY <1>1 DEF Hot, Refine, Compare, vars, lineVars
  <2>2. LevelLine(r) /\ Lo' = Lo /\ Hi' = Hi /\ OnPrint' = OnPrint
    BY <2>1, SameLine
  <2>3. AlongPrint(r)
    BY <2>2 DEF LevelInv
  <2> QED BY <2>1, <2>2, <2>3 DEF AlongPrint, Active
<1>2. CASE Seek
  <2>1. UNCHANGED <<image, threshold>>
    BY <1>2 DEF Seek, LineStep, StartColumn, Slide, LinePoints, Probe, WalkOn, LeftEnd, RightEnd
  <2>2. LevelLine(r)
    BY <2>1, SameLine
  <2>3. AlongPrint(r)
    BY <2>2 DEF LevelInv
  <2> QED BY <1>2, <2>2, <2>3, ColumnsKeepLevel, WalksKeepLevel, ProbeKeepsLevel, FitKeepsLevel
          DEF Seek, LineStep
<1>3. CASE Found \/ NoLine
  <2>1. find'.pc = "idle"
    BY <1>3 DEF Found, NoLine, Idle
  <2> QED BY <2>1 DEF AlongPrint, Active
<1>4. ASSUME NEW kind \in Calls, NEW im \in Images, Search(kind, im) PROVE AlongPrint(r)'
  <2>1. /\ find' = [Idle EXCEPT !.pc = IF ProbeFrom < Width - Margin THEN "start" ELSE "fit", !.x = ProbeFrom]
        /\ points' = <<>>
    BY <1>4 DEF Search, BeginLine
  <2>2. find'.seek = "probe" /\ find'.x = ProbeFrom
        /\ find'.pc = IF ProbeFrom < Width - Margin THEN "start" ELSE "fit"
    BY <2>1 DEF Idle
  <2>3. \A x \in Probed : x \in Int /\ ProbeFrom <= x /\ x < Width - Margin
    <3> SUFFICES ASSUME NEW x \in Probed PROVE x \in Int /\ ProbeFrom <= x /\ x < Width - Margin
      OBVIOUS
    <3>1. PICK k \in 0 .. x : x = ProbeFrom + k * ProbeStep
      BY DEF Probed
    <3>2. x \in 0 .. Width - Margin - 1
      BY DEF Probed
    <3>3. \A a \in Nat : a * ProbeStep \in Nat
      BY GeometryAssumption
    <3>4. k * ProbeStep \in Nat
      BY <3>1, <3>2, <3>3
    <3> QED BY <3>1, <3>2, <3>4, GeometryAssumption
  <2>4. OnPrint' \subseteq Probed
    BY DEF OnPrint
  <2>5. CASE ProbeFrom < Width - Margin
    <3>1. ProbeFrom \in Probed
      <4>1. 0 \in 0 .. ProbeFrom /\ ProbeFrom = ProbeFrom + 0 * ProbeStep
            /\ ProbeFrom \in 0 .. Width - Margin - 1
        BY <2>5, GeometryAssumption
      <4> QED BY <4>1 DEF Probed
    <3>2. {q \in OnPrint' : q < ProbeFrom} = {}
      BY <2>3, <2>4, GeometryAssumption
    <3>3. Len(points') = 0 /\ DOMAIN points' = {} /\ Cardinality({}) = 0
      BY <2>1, FS_EmptySet
    <3> QED BY <2>2, <2>5, <3>1, <3>2, <3>3 DEF AlongPrint, Active
  <2>6. CASE ~(ProbeFrom < Width - Margin)
    <3>1. OnPrint' = {}
      BY <2>3, <2>4, <2>6, GeometryAssumption
    <3>2. Cardinality(OnPrint)' = 0
      BY <3>1, FS_EmptySet
    <3> QED BY <3>2, GeometryAssumption DEF LevelLine
  <2> QED BY <2>5, <2>6
<1>5. ASSUME NEW kind \in Calls, NEW im \in Images, Skip(kind, im) PROVE AlongPrint(r)'
  <2>1. find'.pc = "idle"
    BY <1>5 DEF Skip, NewScanContext, ContextInv, Calls
  <2> QED BY <2>1 DEF AlongPrint, Active
<1> QED BY <1>1, <1>2, <1>3, <1>4, <1>5 DEF Next

(* A level line is found, whatever its length and row and the size of the  *)
(* picture, and its corners are its ends to less than a step: no search    *)
(* for it panics or gives up, and no point of it is dropped (scan.go:      *)
(* 700-822).                                                               *)
THEOREM LevelLineFound ==
  Spec => []((\E r \in Nat : LevelLine(r)) => CornersAtEnds)
<1>1. Init => LevelInv
  <2>1. Init => find.pc = "idle"
    BY DEF Init, LineInit, Idle
  <2> QED BY <2>1 DEF LevelInv, AlongPrint, Active
<1>2. LevelInv /\ SearchInv /\ EdgeInv /\ PointsInv /\ ContextInv /\ [Next]_vars => LevelInv'
  BY LevelStep
<1>3. LevelInv => ((\E r \in Nat : LevelLine(r)) => CornersAtEnds)
  BY DEF LevelInv, AlongPrint, CornersAtEnds, Lo, Hi
<1> QED BY <1>1, <1>2, <1>3, SearchInductive, ScanInductive, ScanTyped, PTL DEF Spec
=============================================================================
