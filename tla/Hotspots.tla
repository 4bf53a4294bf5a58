------------------------------ MODULE Hotspots ------------------------------
(***************************************************************************)
(* findImageHotspots (scan/scan.go): places of an original page are drawn  *)
(* at random, those without features are passed over, and the best ones    *)
(* are kept by an insertion sort into two slices.                          *)
(***************************************************************************)
EXTENDS Integers, Sequences, FiniteSets

CONSTANTS Origs,         \* original pages
          Places,        \* points a hotspot can be at
          Quality(_, _), \* imageHotspotQuality of a page at a point
          NHotspots,     \* numHeaderHotspots, 15
          PerSpot        \* candidates checked for each, 5

ASSUME HotspotsAssumption ==
  /\ NHotspots \in Nat \ {0} /\ PerSpot \in Nat \ {0}
  /\ \A o \in Origs, c \in Places : Quality(o, c) \in Int

VARIABLES orig,    \* the page, or its absence
          hot,     \* where findImageHotspots is, and its locals
          spots, scores,  \* the slices
          drawn    \* history: how often each place with features was drawn

hotVars == <<orig, hot, spots, scores, drawn>>

NoSearch(pc) == [pc |-> pc, c |-> {}, pos |-> 0, checked |-> 0]
NoScores == [i \in 1 .. NHotspots |-> 0]
NotDrawn == [c \in Places |-> 0]

HotInit ==
  /\ orig \in Origs /\ hot = NoSearch("idle")
  /\ spots = <<>> /\ scores = NoScores /\ drawn = NotDrawn

-----------------------------------------------------------------------------
(* Scanner.SetOrigImage and Header.SetOrigImage: a page of the wrong       *)
(* origin, size or scale is an error, and one smaller than two hotspots a  *)
(* panic in rand.Intn; otherwise the search begins.                        *)
SetOrigImage ==
  /\ hot.pc = "idle"
  /\ \E pc \in {"failed", "panic", "draw"} : hot' = NoSearch(pc)
  /\ UNCHANGED <<orig, spots, scores, drawn>>

Draw(c) ==
  /\ hot.pc = "draw" /\ hot.checked < NHotspots * PerSpot
  /\ IF Quality(orig, c) < 0
     THEN hot' = [hot EXCEPT !.c = c] /\ UNCHANGED <<spots, scores, drawn>>
     ELSE /\ drawn' = [drawn EXCEPT ![c] = @ + 1]
          /\ IF spots = <<>>
             THEN /\ spots' = <<c>> /\ scores' = [scores EXCEPT ![1] = Quality(orig, c)]
                  /\ hot' = [hot EXCEPT !.c = c]
             ELSE /\ hot' = [hot EXCEPT !.pc = "insert", !.c = c, !.pos = Len(spots)]
                  /\ UNCHANGED <<spots, scores>>
  /\ UNCHANGED orig

Better == Quality(orig, hot.c) > scores[hot.pos]

(* Mutant: the one it beats is overwritten.                                *)
InsertOver ==
  /\ hot.pc = "insert" /\ Better
  /\ spots' = [spots EXCEPT ![hot.pos] = hot.c]
  /\ scores' = [scores EXCEPT ![hot.pos] = Quality(orig, hot.c)]
  /\ hot' = IF hot.pos = 1 THEN [hot EXCEPT !.pc = "place"] ELSE [hot EXCEPT !.pos = @ - 1]
  /\ UNCHANGED <<orig, drawn>>

(* The candidate beats the one at pos, which moves down, out of the slice  *)
(* when that is full.                                                      *)
Insert ==
  /\ hot.pc = "insert" /\ Better
  /\ LET p == hot.pos
         moved == IF p = Len(spots) /\ p < NHotspots THEN Append(spots, spots[p])
                  ELSE IF p < Len(spots) THEN [spots EXCEPT ![p + 1] = spots[p]] ELSE spots
     IN  /\ spots' = [moved EXCEPT ![p] = hot.c]
         /\ scores' = [i \in 1 .. NHotspots |-> IF i = p THEN Quality(orig, hot.c)
                                               ELSE IF i = p + 1 THEN scores[p] ELSE scores[i]]
         /\ hot' = IF p = 1 THEN [hot EXCEPT !.pc = "place"] ELSE [hot EXCEPT !.pos = p - 1]
  /\ UNCHANGED <<orig, drawn>>

Beaten ==
  /\ hot.pc = "insert" /\ ~Better /\ hot' = [hot EXCEPT !.pc = "place"]
  /\ UNCHANGED <<orig, spots, scores, drawn>>

(* A candidate that beats none is appended while there is room.            *)
Place ==
  /\ hot.pc = "place"
  /\ hot' = [hot EXCEPT !.pc = "draw", !.checked = @ + 1]
  /\ IF hot.pos = Len(spots) /\ hot.pos < NHotspots
     THEN /\ spots' = Append(spots, hot.c)
          /\ scores' = [scores EXCEPT ![hot.pos + 1] = Quality(orig, hot.c)]
     ELSE UNCHANGED <<spots, scores>>
  /\ UNCHANGED <<orig, drawn>>

(* Enough were checked: the snaps are taken and the search returns.        *)
Finish ==
  /\ hot.pc = "draw" /\ hot.checked >= NHotspots * PerSpot
  /\ hot' = NoSearch("done") /\ scores' = NoScores /\ drawn' = NotDrawn
  /\ UNCHANGED <<orig, spots>>

Insertion == Insert \/ Beaten \/ Place \/ Finish
HotNext == SetOrigImage \/ (\E c \in Places : Draw(c)) \/ Insertion
HotSpec == HotInit /\ [][HotNext]_hotVars

(* The places drawn are random, so that places with features keep coming   *)
(* as long as the page has one.                                            *)
DrawFeature == \E c \in Places : Quality(orig, c) >= 0 /\ Draw(c)
HotFair == WF_hotVars(Insertion) /\ SF_hotVars(DrawFeature)
HasFeatures == \E c \in Places : Quality(orig, c) >= 0

Kept(c) == Cardinality({i \in DOMAIN spots : spots[i] = c})

(* The spots kept are the best of those drawn, best first: whenever a      *)
(* candidate has been dealt with, one that was drawn oftener than it is    *)
(* kept is no better than any that is (scan.go:574-611).                   *)
BestSpots ==
  hot.pc = "draw" =>
    /\ \A i \in DOMAIN spots : scores[i] = Quality(orig, spots[i])
    /\ \A i, j \in DOMAIN spots : i < j => scores[i] >= scores[j]
    /\ \A c \in Places : Kept(c) <= drawn[c]
    /\ \A c \in Places : Kept(c) < drawn[c] =>
         Len(spots) = NHotspots /\ \A i \in DOMAIN spots : Quality(orig, c) <= scores[i]
=============================================================================
