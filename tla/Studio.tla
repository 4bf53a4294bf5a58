------------------------------- MODULE Studio -------------------------------
(***************************************************************************)
(* The request handlers of the ballotstudio server (cmd/ballotstudio/      *)
(* main.go, scan.go) over the elections table (db.go) and the render cache *)
(* (cache.go).  net/http runs every request on a goroutine of its own, so  *)
(* one action here is one call that touches state another handler can see: *)
(* a cache operation, a database statement, a call of the draw backend or  *)
(* of pdftoppm.                                                            *)
(*                                                                         *)
(* An election's content is a member of Docs; the PDF with its bubbles and *)
(* the page images drawn from a content are represented by that content,   *)
(* so a rendering is stale when it differs from what the database holds.   *)
(* The cache is addressed by the digits of the URL, not by the row number: *)
(* "7" and "07" are two Names of one row.                                  *)
(***************************************************************************)
EXTENDS CacheContract

CONSTANTS Readers,    \* goroutines serving reads; how many run at once
          Savers,     \* goroutines serving saves
          Names,      \* the digit strings clients put in URLs
          Ids,        \* row numbers of the elections table
          Users, Docs,
          IdOf        \* strconv.ParseInt of a name

ASSUME IdOfAssumption == IdOf \in [Names -> Ids]

Handlers == Readers \cup Savers
Row      == [owner : Users, doc : Docs]

ASSUME NoneAssumption ==
  /\ None \notin Users \cup Docs \cup Names
  /\ None \notin Row

VARIABLES db,      \* elections table: row or None
          cache,   \* StudioHandler.cache, the keyed store of CacheContract
          proc,    \* what each handler is doing
          raced,   \* history: names under which a stale rendering may stay,
                   \* for one of the reasons at CoherentUnlessRaced
          blind    \* history: rows overwritten with no owner seen at the check

vars == <<db, cache, proc, raced, blind>>

PdfKey(n) == <<"pdf", n>>     \* cache key  el
PngKey(n) == <<"png", n>>     \* cache key  el + ".png"
Keys      == {"pdf", "png"} \X Names

ReadKinds == {"pdf", "png", "both"}
    \* pdf: .pdf and _bubbles.json; png: page images;
    \* both: header images and scans, getPdf and then getPng
ReadPcs == {"pdfGet", "pdfRead", "pdfDraw", "pdfPut",
            "pngGet", "raster", "pngPut", "reply"}
SavePcs == {"check", "update", "invalPdf", "invalPng"}

Proc == [pc      : {"idle"} \cup ReadPcs \cup SavePcs,
         kind    : ReadKinds \cup {"save", None},
         name    : Names \cup {None},
         redraw  : BOOLEAN,
         held    : Docs \cup {None},   \* er.Data, then the bothob of getPdf
         bubbles : Docs \cup {None},   \* the getPdf result of a "both"
         page    : Docs \cup {None},   \* the getPng result
         user    : Users \cup {None},
         doc     : Docs \cup {None},   \* the body a save stores
         older   : Users \cup {None},  \* older.Owner, None if older == nil
         overlap : BOOLEAN]            \* history: met a save (or a read)

(* A request has a name, and a save has a user and a body.                 *)
Filled(p) == /\ p.pc # "idle" => p.name # None
             /\ p.pc \in SavePcs => p.user # None /\ p.doc # None

Idle == [pc |-> "idle", kind |-> None, name |-> None, redraw |-> FALSE,
         held |-> None, bubbles |-> None, page |-> None, user |-> None,
         doc |-> None, older |-> None, overlap |-> FALSE]

TypeOK ==
  /\ db \in [Ids -> Row \cup {None}]
  /\ cache \in [Keys -> Docs \cup {None}]
  /\ proc \in [Handlers -> Proc]
  /\ raced \subseteq Names
  /\ blind \subseteq Ids
  /\ \A h \in Handlers : Filled(proc[h])

Init ==
  /\ db = [i \in Ids |-> None]
  /\ cache = [k \in Keys |-> None]
  /\ proc = [h \in Handlers |-> Idle]
  /\ raced = {}
  /\ blind = {}

-----------------------------------------------------------------------------
DocOf(n) == IF db[IdOf[n]] = None THEN None ELSE db[IdOf[n]].doc

Reading(h, i) == proc[h].pc \in ReadPcs /\ IdOf[proc[h].name] = i
(* A save that has written its row and has not invalidated both keys yet.  *)
Pending(h, i) == proc[h].pc \in {"invalPdf", "invalPng"} /\ IdOf[proc[h].name] = i

Cached(n) == cache[PdfKey(n)] # None \/ cache[PngKey(n)] # None

(* Two handlers may be inside the unsynchronised Cache at the same time.   *)
Racing(h) == \E g \in Handlers \ {h} :
  proc[g].pc \in {"pdfGet", "pdfPut", "pngGet", "pngPut", "invalPdf", "invalPng"}

Goto(h, p) == proc' = [proc EXCEPT ![h] = p]
Finish(h)  == Goto(h, Idle)

-----------------------------------------------------------------------------
(* Reads.                                                                  *)

BeginRead(h, kind, n, redraw) ==
  /\ proc[h] = Idle
  /\ proc' = [g \in Handlers |->
       IF g = h
       THEN [Idle EXCEPT !.pc = IF kind = "png" THEN "pngGet" ELSE "pdfGet",
                         !.kind = kind, !.name = n, !.redraw = redraw,
                         !.overlap = \E s \in Handlers : Pending(s, IdOf[n])]
       ELSE [proc[g] EXCEPT !.overlap = @ \/ Pending(g, IdOf[n])]]
  /\ UNCHANGED <<db, cache, raced, blind>>

(* getPdf called by getPng, which passes redraw = false.                   *)
Nested(p) == p.kind = "png" \/ p.bubbles # None

(* getPdf returns d to its caller: the handler, or getPng.                 *)
GotPdf(p, d) ==
  IF p.kind = "pdf" THEN [p EXCEPT !.pc = "reply", !.held = d]
  ELSE IF Nested(p) THEN [p EXCEPT !.pc = "raster", !.held = d]
  ELSE [p EXCEPT !.pc = "pngGet", !.held = None, !.bubbles = d]

PdfGet(h) ==
  LET p == proc[h] IN
  /\ p.pc = "pdfGet"
  /\ \/ /\ p.redraw /\ ~Nested(p)
        /\ Goto(h, [p EXCEPT !.pc = "pdfRead"])
     \/ /\ ~p.redraw \/ Nested(p)
        /\ \E o \in GetOutcomes(cache, PdfKey(p.name)) :
             \/ o.panic /\ Finish(h)
             \/ ~o.panic /\ o.data # None /\ Goto(h, GotPdf(p, o.data))
             \/ ~o.panic /\ o.data = None /\ Goto(h, [p EXCEPT !.pc = "pdfRead"])
  /\ UNCHANGED <<db, cache, raced, blind>>

(* GetElection: no row and a database error both end in a 400.             *)
PdfRead(h) ==
  LET p == proc[h] IN
  /\ p.pc = "pdfRead"
  /\ \/ DocOf(p.name) # None /\ Goto(h, [p EXCEPT !.pc = "pdfDraw", !.held = DocOf(p.name)])
     \/ Finish(h)
  /\ UNCHANGED <<db, cache, raced, blind>>

(* DrawElection: the POST to the draw backend, which may fail.             *)
PdfDraw(h) ==
  /\ proc[h].pc = "pdfDraw"
  /\ Goto(h, [proc[h] EXCEPT !.pc = "pdfPut"]) \/ Finish(h)
  /\ UNCHANGED <<db, cache, raced, blind>>

(* cache.Put, shared by getPdf and getPng.  A put that races with another  *)
(* cache operation may be lost.  A reader that overlapped a save may store *)
(* what that save has already replaced.                                    *)
Store(h, k) ==
  \E o \in PutOutcomes(cache, k, proc[h].held)
             \cup IF Racing(h) THEN {[store |-> cache, panic |-> FALSE]} ELSE {} :
    /\ cache' = o.store
    /\ raced' = IF proc[h].overlap /\ o.store # cache
                THEN raced \cup {proc[h].name} ELSE raced
    /\ IF o.panic THEN Finish(h)
       ELSE Goto(h, IF k[1] = "pdf" THEN GotPdf(proc[h], proc[h].held)
                    ELSE [proc[h] EXCEPT !.pc = "reply", !.held = None, !.page = proc[h].held])
    /\ UNCHANGED <<db, blind>>

PdfPut(h) == proc[h].pc = "pdfPut" /\ Store(h, PdfKey(proc[h].name))
PngPut(h) == proc[h].pc = "pngPut" /\ Store(h, PngKey(proc[h].name))

PngGet(h) ==
  LET p == proc[h] IN
  /\ p.pc = "pngGet"
  /\ \/ /\ p.redraw
        /\ Goto(h, [p EXCEPT !.pc = "pdfGet"])
     \/ /\ ~p.redraw
        /\ \E o \in GetOutcomes(cache, PngKey(p.name)) :
             \/ o.panic /\ Finish(h)
             \/ ~o.panic /\ o.data # None /\ Goto(h, [p EXCEPT !.pc = "reply", !.page = o.data])
             \/ ~o.panic /\ o.data = None /\ Goto(h, [p EXCEPT !.pc = "pdfGet"])
  /\ UNCHANGED <<db, cache, raced, blind>>

(* PdfToPng: pdftoppm in a subprocess, which may fail.                     *)
Raster(h) ==
  /\ proc[h].pc = "raster"
  /\ Goto(h, [proc[h] EXCEPT !.pc = "pngPut"]) \/ Finish(h)
  /\ UNCHANGED <<db, cache, raced, blind>>

Reply(h) ==
  /\ proc[h].pc = "reply"
  /\ Finish(h)
  /\ UNCHANGED <<db, cache, raced, blind>>

-----------------------------------------------------------------------------
(* Saves.                                                                  *)

BeginSave(h, n, u, d) ==
  /\ proc[h] = Idle
  /\ Goto(h, [Idle EXCEPT !.pc = "check", !.kind = "save", !.name = n,
                          !.user = u, !.doc = d])
  /\ UNCHANGED <<db, cache, raced, blind>>

(* Mutant: an election is inserted before its user is known.               *)
CreateUnowned(i, u, d) ==
  /\ db[i] = None
  /\ db' = [db EXCEPT ![i] = [owner |-> None, doc |-> d]]
  /\ UNCHANGED <<cache, proc, raced, blind>>

(* A POST to /election: one INSERT under a row number never used before.   *)
(* Its Invalidate("") and Invalidate(".png") name no key a read uses.      *)
Create(i, u, d) ==
  /\ db[i] = None
  /\ db' = [db EXCEPT ![i] = [owner |-> u, doc |-> d]]
  /\ UNCHANGED <<cache, proc, raced, blind>>

(* Mutant: the owner is fetched and not compared.                          *)
CheckOwnerFetched(h) ==
  LET p == proc[h] IN
  /\ p.pc = "check"
  /\ Goto(h, [p EXCEPT !.pc = "update",
                       !.older = IF db[IdOf[p.name]] = None THEN None ELSE p.user])
  /\ UNCHANGED <<db, cache, raced, blind>>

(* older, _ := GetElection: an error reads like a row that does not exist. *)
CheckOwner(h) ==
  LET p == proc[h] IN
  /\ p.pc = "check"
  /\ \/ /\ db[IdOf[p.name]] # None
        /\ IF db[IdOf[p.name]].owner # p.user THEN Finish(h)
           ELSE Goto(h, [p EXCEPT !.pc = "update", !.older = p.user])
     \/ Goto(h, [p EXCEPT !.pc = "update", !.older = None])
  /\ UNCHANGED <<db, cache, raced, blind>>

(* The UPDATE reaches the database.  It changes nothing when there is no   *)
(* row.  Reads in flight meet this save; renderings cached under the names *)
(* ns will not be invalidated by it.                                       *)
WriteRow(h, next, ns) ==
  LET p == proc[h]
      i == IdOf[p.name]
  IN /\ db' = [db EXCEPT ![i] = IF @ = None THEN None
                                ELSE [owner |-> p.user, doc |-> p.doc]]
     /\ blind' = IF p.older = None /\ db[i] # None THEN blind \cup {i} ELSE blind
     /\ raced' = raced \cup {n \in ns : IdOf[n] = i /\ Cached(n)}
     /\ proc' = [g \in Handlers |->
          IF g = h
          THEN IF next = "idle" THEN Idle
               ELSE [p EXCEPT !.pc = next, !.overlap = \E r \in Handlers : Reading(r, i)]
          ELSE [proc[g] EXCEPT !.overlap = @ \/ Reading(g, i)]]

(* Mutant: the save is answered without the Invalidate calls.              *)
UpdateOnly(h) ==
  /\ proc[h].pc = "update"
  /\ \/ WriteRow(h, "idle", Names \ {proc[h].name})
     \/ Finish(h) /\ UNCHANGED <<db, raced, blind>>
  /\ UNCHANGED cache

(* PutElection: acknowledged, failed, or applied with the answer lost, in  *)
(* which case the handler returns before the Invalidate calls.             *)
Update(h) ==
  /\ proc[h].pc = "update"
  /\ \/ WriteRow(h, "invalPdf", Names \ {proc[h].name})
     \/ WriteRow(h, "idle", Names)
     \/ Finish(h) /\ UNCHANGED <<db, raced, blind>>
  /\ UNCHANGED cache

(* Mutant: both Invalidate calls name the page images.                     *)
InvalPdfOtherKey(h) ==
  LET p == proc[h] IN
  /\ p.pc = "invalPdf"
  /\ cache' = Invalidated(cache, PngKey(p.name))
  /\ raced' = raced \ {p.name}
  /\ Goto(h, [p EXCEPT !.pc = "invalPng"])
  /\ UNCHANGED <<db, blind>>

(* cache.Invalidate(itemname).  A delete that races with another cache     *)
(* operation may be lost.                                                  *)
InvalPdf(h) ==
  LET p == proc[h] IN
  /\ p.pc = "invalPdf"
  /\ \/ /\ cache' = Invalidated(cache, PdfKey(p.name))
        /\ raced' = raced \ {p.name}
        /\ Goto(h, [p EXCEPT !.pc = "invalPng"])
     \/ /\ Racing(h)
        /\ raced' = raced \cup {p.name}
        /\ Goto(h, [p EXCEPT !.pc = "invalPng", !.overlap = TRUE])
        /\ UNCHANGED cache
  /\ UNCHANGED <<db, blind>>

(* Mutant: the second Invalidate call is missing.                          *)
InvalPngMissing(h) ==
  /\ proc[h].pc = "invalPng"
  /\ Finish(h)
  /\ UNCHANGED <<db, cache, raced, blind>>

(* cache.Invalidate(itemname + ".png"), and the answer to the save.        *)
InvalPng(h) ==
  LET p == proc[h] IN
  /\ p.pc = "invalPng"
  /\ Finish(h)
  /\ \/ /\ cache' = Invalidated(cache, PngKey(p.name))
        /\ UNCHANGED raced
     \/ /\ Racing(h)
        /\ raced' = raced \cup {p.name}
        /\ UNCHANGED cache
  /\ UNCHANGED <<db, blind>>

(* The process dies and is started again: the table survives.              *)
Crash ==
  /\ cache' = [k \in Keys |-> None]
  /\ proc' = [h \in Handlers |-> Idle]
  /\ raced' = {}
  /\ UNCHANGED <<db, blind>>

-----------------------------------------------------------------------------
Step(h) ==
  \/ PdfGet(h) \/ PdfRead(h) \/ PdfDraw(h) \/ PdfPut(h)
  \/ PngGet(h) \/ Raster(h) \/ PngPut(h) \/ Reply(h)
  \/ CheckOwner(h) \/ Update(h) \/ InvalPdf(h) \/ InvalPng(h)

Next ==
  \/ \E h \in Handlers : Step(h)
  \/ \E h \in Readers, kind \in ReadKinds, n \in Names, redraw \in BOOLEAN :
       BeginRead(h, kind, n, redraw)
  \/ \E h \in Savers, n \in Names, u \in Users, d \in Docs : BeginSave(h, n, u, d)
  \/ \E i \in Ids, u \in Users, d \in Docs : Create(i, u, d)
  \/ Crash

Spec == Init /\ [][Next]_vars

-----------------------------------------------------------------------------
(* Properties.                                                             *)

(* A cached rendering is the one of the database's content, except while a *)
(* save of that very name is still about to invalidate it, and except      *)
(* under names that are raced.  A name is raced, until a later save under  *)
(* it has invalidated what is cached (SaveHeals) or the process restarts,  *)
(* after one of these, none of which the code guards against:              *)
(*  - a read that a save of the election overlapped stored what it drew    *)
(*    (getPdf, getPng against handleElectionDocPOSTJson, main.go:362-369); *)
(*  - a save changed the row while something was cached under the name,    *)
(*    and was made under another spelling of the number (main.go:368);     *)
(*  - or its UPDATE was applied and the answer lost, so that the handler   *)
(*    returned before its Invalidate calls (main.go:364-367);              *)
(*  - an Invalidate ran at the same time as another call of the cache and  *)
(*    its delete was lost (cache.go:96-98, no lock).                       *)
(* A rendering that is wrong for any other reason violates this.           *)
CoherentUnlessRaced ==
  \A n \in Names : n \notin raced =>
    /\ \/ cache[PdfKey(n)] \in {None, DocOf(n)}
       \/ \E s \in Handlers : proc[s].pc = "invalPdf" /\ proc[s].name = n
    /\ \/ cache[PngKey(n)] \in {None, DocOf(n)}
       \/ \E s \in Handlers : proc[s].pc \in {"invalPdf", "invalPng"} /\ proc[s].name = n

(* A read that met no save, under a name that is not raced, serves the     *)
(* database's content, whatever part of it came from the cache (getPdf and *)
(* getPng, main.go:427-477); in particular the bubbles and the page image  *)
(* that a scan or a header request combines are of one content.  Under a   *)
(* raced name a read that meets no save can serve stale renderings, or     *)
(* bubbles and an image of two contents, until the next save of the name.  *)
Fresh(p) ==
  p.pc \in ReadPcs /\ ~p.overlap /\ p.name \notin raced =>
    {p.held, p.bubbles, p.page} \subseteq {None, DocOf(p.name)}
ReadsFresh == \A h \in Handlers : Fresh(proc[h])

(* The owner of an election never changes, as long as no save wrote it     *)
(* whose ownership check saw no row (GetElection failed, or the row was    *)
(* inserted between the check and the UPDATE).                             *)
OwnerKept ==
  [][\A i \in Ids : db[i] # None /\ i \notin blind' =>
        db'[i] # None /\ db'[i].owner = db[i].owner]_vars

(* A save that met no read and no other call of the cache leaves nothing   *)
(* cached under its name, so that whatever stale rendering earlier races   *)
(* had left there is gone when the save is answered.                       *)
SaveHeals ==
  [][\A h \in Handlers :
       InvalPng(h) /\ ~proc[h].overlap /\ ~Racing(h)
         => /\ cache'[PdfKey(proc[h].name)] = None
            /\ cache'[PngKey(proc[h].name)] = None]_vars

(* The inductive strengthening.  A read and a save of one election that    *)
(* are in flight together have both noticed; a save that met nobody has    *)
(* emptied the PDF entry before it turns to the page images; a save that   *)
(* found its own user as the owner still does when it writes.              *)
OverlapMarked ==
  \A r, s \in Handlers :
    /\ proc[r].pc \in ReadPcs
    /\ proc[s].pc \in {"invalPdf", "invalPng"}
    /\ IdOf[proc[r].name] = IdOf[proc[s].name]
    => proc[r].overlap /\ proc[s].overlap
PdfGone ==
  \A s \in Handlers :
    proc[s].pc = "invalPng" /\ ~proc[s].overlap => cache[PdfKey(proc[s].name)] = None
OwnerChecked ==
  \A s \in Handlers :
    LET i == IdOf[proc[s].name]
    IN  proc[s].pc = "update" /\ proc[s].older # None /\ i \notin blind
          => db[i] # None /\ db[i].owner = proc[s].older /\ proc[s].older = proc[s].user

CoherenceInv == OverlapMarked /\ CoherentUnlessRaced /\ ReadsFresh /\ PdfGone
=============================================================================
