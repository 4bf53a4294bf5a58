---------------------------- MODULE ScanContext ----------------------------
(***************************************************************************)
(* A Scanner with its original page and one ScanContext of it (scan/       *)
(* scan.go, scan/header.go).  SetOrigImage looks for hotspots; then the    *)
(* context is used for images, by CheckPage of a header or by              *)
(* ProcessScannedImage, each of which aligns the image by its top line     *)
(* unless the context believes that it already has.                        *)
(***************************************************************************)
EXTENDS TopLine, Hotspots

VARIABLES target,    \* transformTarget, or None
          transform, \* origToScanned: the image it was found on, or None
          call,      \* the call in progress, or "none"
          missed     \* history: the last search for a top line found none

contextVars == <<target, transform, call, missed>>
vars == <<lineVars, hotVars, contextVars>>

Calls == {"check", "process"}

Init ==
  /\ LineInit /\ HotInit
  /\ target = None /\ transform = None /\ call = "none" /\ missed = FALSE

-----------------------------------------------------------------------------
(* The callers do not look at the error of SetOrigImage (cmd/ballotstudio  *)
(* /scan.go, ExtractHeaders).                                              *)
NewScanContext == hot.pc \in {"done", "failed"} /\ call = "none"

(* Mutant: the image is not compared.                                      *)
AnyTransform(im) == transform # None

(* topLineYCbCr returns at once for the image it was last called with, if  *)
(* there is a transform ...                                                *)
HasTransform(im) == transform # None /\ target = im

Skip(kind, im) ==
  /\ NewScanContext /\ HasTransform(im) /\ call' = kind
  /\ image' = im /\ threshold' \in Thresholds(im)
  /\ UNCHANGED <<find, points, hotVars, target, transform, missed>>

(* ... and otherwise takes it for its target before it looks for the line. *)
Search(kind, im) ==
  /\ NewScanContext /\ ~HasTransform(im) /\ call' = kind
  /\ target' = im /\ BeginLine(im)
  /\ UNCHANGED <<hotVars, transform, missed>>

Seek == LineStep /\ UNCHANGED <<hotVars, contextVars>>

Found ==
  /\ find.pc = "found"
  /\ transform' = image /\ missed' = FALSE /\ find' = Idle
  /\ UNCHANGED <<image, threshold, points, hotVars, target, call>>

(* NoLineError: the transform stays as it was.                             *)
NoLine ==
  /\ find.pc = "noline"
  /\ missed' = TRUE /\ find' = Idle /\ call' = "none"
  /\ UNCHANGED <<image, threshold, points, hotVars, target, transform>>

Aligned == call \in Calls /\ find.pc = "idle"

(* ProcessScannedImage refines the transform, which puts one in its place  *)
(* that is fitted to the same image, and measures the bubbles with it.     *)
(* Without hotspots there is no ssds[0].                                   *)
Refine ==
  /\ Aligned /\ call = "process"
  /\ call' = IF spots = <<>> THEN "panic" ELSE "none"
  /\ UNCHANGED <<lineVars, hotVars, target, transform, missed>>

(* CheckPage compares with the transform and leaves it.  Its hotspots are  *)
(* those of a header, which there may be none of.                          *)
Compare ==
  /\ Aligned /\ call = "check" /\ call' \in {"none", "panic"}
  /\ UNCHANGED <<lineVars, hotVars, target, transform, missed>>

Hot == HotNext /\ UNCHANGED <<lineVars, contextVars>>

Next ==
  \/ Hot \/ Seek \/ Found \/ NoLine \/ Refine \/ Compare
  \/ \E kind \in Calls, im \in Images : Skip(kind, im) \/ Search(kind, im)

Spec == Init /\ [][Next]_vars

(* Each loop runs on; the random places are fair.                          *)
FairSpec == Spec /\ HotFair /\ WF_vars(Seek \/ Found \/ NoLine \/ Refine \/ Compare)

-----------------------------------------------------------------------------
(* Types; a line search is that of the call in progress, and the points    *)
(* are probed columns from left to right, each in the upper half.          *)
TypeOK ==
  /\ image \in Images \cup {None} /\ target \in Images \cup {None}
  /\ transform \in Images \cup {None} /\ call \in Calls \cup {"none", "panic"}
  /\ missed \in BOOLEAN
  /\ hot.pc \in {"idle", "failed", "panic", "draw", "insert", "place", "done"}
  /\ hot.checked \in 0 .. NHotspots * PerSpot /\ Len(spots) <= NHotspots
  /\ find.pc \in {"start", "slide", "fit", "found", "noline"} => call \in Calls /\ target = image
  /\ find.pc = "slide" => find.dark \in 0 .. 3 * Tall
  /\ \A i, j \in DOMAIN points : i < j => points[i].x < points[j].x
  /\ \A i \in DOMAIN points : points[i].y < Height \div 2

(* An image is aligned, and its bubbles measured, with a transform found   *)
(* on that very image, over any sequence of calls on any images, unless    *)
(* the last search failed: then the next call on the same image is taken   *)
(* to have a transform, and uses an older image's (scan.go:759-765).       *)
OwnTransform ==
  Aligned => transform = image \/ missed

(* SetOrigImage ends on a page with features, and every search for a top   *)
(* line ends, whatever the picture, if only in a panic beyond its edges    *)
(* (scan.go:576, 705, 790, 805).                                           *)
ScanEnds ==
  /\ (hot.pc = "draw" /\ HasFeatures) ~> hot.pc = "done"
  /\ (call \in Calls) ~> (call \in {"none", "panic"} \/ find.pc = "panic")
=============================================================================
