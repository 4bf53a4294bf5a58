---------------------------- MODULE StudioProofs ----------------------------
(***************************************************************************)
(* Proofs about Studio for any sets of handlers, names, rows, users and    *)
(* contents: types; that the render cache is coherent and that reads are   *)
(* fresh, but for the names Studio records as raced (the races, lost       *)
(* answers, other spellings and lost cache calls of CoherentUnlessRaced);  *)
(* that elections keep their owners and that an undisturbed save leaves    *)
(* nothing stale.                                                          *)
(***************************************************************************)
EXTENDS Studio, TLAPS

-----------------------------------------------------------------------------
(* Type correctness.                                                       *)

Good(p) == p \in Proc /\ Filled(p)

(* An idle goroutine is well typed.                                        *)
LEMMA IdleGood == Good(Idle)
  BY DEF Good, Filled, Idle, Proc, ReadPcs, SavePcs, ReadKinds

(* The type invariant, with what it says of a goroutine under one name.    *)
LEMMA TypeOKGood ==
  TypeOK <=> /\ db \in [Ids -> Row \cup {None}]
             /\ cache \in [Keys -> Docs \cup {None}]
             /\ raced \subseteq Names
             /\ blind \subseteq Ids
             /\ proc \in [Handlers -> Proc]
             /\ \A h \in Handlers : Good(proc[h])
  BY DEF TypeOK, Good

(* What the read handlers do to their own state.                           *)
LEMMA FieldGood ==
  ASSUME NEW p, Good(p), NEW d \in Docs \cup {None}
  PROVE  /\ Good([p EXCEPT !.held = d])
         /\ Good([p EXCEPT !.page = d])
         /\ Good([p EXCEPT !.bubbles = d])
<1> USE DEF Good, Filled, Proc
<1>1. Good([p EXCEPT !.held = d])
  OBVIOUS
<1>2. Good([p EXCEPT !.page = d])
  OBVIOUS
<1>3. Good([p EXCEPT !.bubbles = d])
  OBVIOUS
<1> QED BY <1>1, <1>2, <1>3

(* Moving a read to another of its program points keeps it well typed,     *)
(* with whatever it fetched on the way.                                    *)
LEMMA ReadGood ==
  ASSUME NEW p, Good(p), p.pc \in ReadPcs, NEW q \in ReadPcs,
         NEW d \in Docs \cup {None}, NEW e \in Docs \cup {None}
  PROVE  /\ Good([p EXCEPT !.pc = q])
         /\ Good([p EXCEPT !.pc = q, !.held = d])
         /\ Good([p EXCEPT !.pc = q, !.page = d])
         /\ Good([p EXCEPT !.pc = q, !.held = d, !.page = e])
         /\ Good([p EXCEPT !.pc = q, !.held = d, !.bubbles = e])
<1> DEFINE p1 == [p EXCEPT !.pc = q]
           p2 == [p1 EXCEPT !.held = d]
<1>1. Good(p1)
  BY DEF Good, Filled, Proc, ReadPcs, SavePcs
<1> HIDE DEF p1
<1>2. Good(p2) /\ Good([p1 EXCEPT !.page = d])
  BY <1>1, FieldGood
<1> HIDE DEF p2
<1>3. Good([p2 EXCEPT !.page = e]) /\ Good([p2 EXCEPT !.bubbles = e])
  BY <1>2, FieldGood
<1> QED BY <1>1, <1>2, <1>3 DEF p1, p2

(* What the save handler does to its own state.                            *)
LEMMA SaveGood ==
  ASSUME NEW p, Good(p), p.pc \in SavePcs, NEW q \in SavePcs,
         NEW u \in Users \cup {None}, NEW c \in BOOLEAN
  PROVE  /\ Good([p EXCEPT !.pc = q])
         /\ Good([p EXCEPT !.pc = q, !.older = u])
         /\ Good([p EXCEPT !.pc = q, !.overlap = c])
<1> USE DEF Good, Filled, Proc, ReadPcs, SavePcs
<1>1. Good([p EXCEPT !.pc = q])
  OBVIOUS
<1>2. Good([p EXCEPT !.pc = q, !.older = u])
  OBVIOUS
<1>3. Good([p EXCEPT !.pc = q, !.overlap = c])
  OBVIOUS
<1> QED BY <1>1, <1>2, <1>3

(* Noticing an overlap keeps a goroutine well typed.                       *)
LEMMA OverlapGood ==
  ASSUME NEW p, Good(p), NEW c \in BOOLEAN
  PROVE  Good([p EXCEPT !.overlap = c])
  BY DEF Good, Filled, Proc

(* A goroutine at work works on a name.                                    *)
LEMMA BusyName ==
  ASSUME NEW p, Good(p), p.pc # "idle"
  PROVE  p.name \in Names
  BY DEF Good, Filled, Proc

(* Replacing one goroutine's record by a well typed one keeps all typed.   *)
LEMMA GotoGood ==
  ASSUME TypeOK, NEW h \in Handlers, NEW p, Good(p), Goto(h, p)
  PROVE  /\ proc' \in [Handlers -> Proc]
         /\ \A g \in Handlers : Good(proc'[g])
  BY DEF TypeOK, Good, Goto

(* getPdf hands its result to a well typed caller (main.go:427-450).       *)
LEMMA GotPdfGood ==
  ASSUME NEW p, Good(p), p.pc \in ReadPcs, NEW d \in Docs \cup {None}
  PROVE  Good(GotPdf(p, d))
<1>1. None \in Docs \cup {None} /\ {"reply", "raster", "pngGet"} \subseteq ReadPcs
  BY DEF ReadPcs
<1> QED BY <1>1, ReadGood DEF GotPdf

(* A Put leaves the store as it was or with the new value at its key.      *)
LEMMA PutOutcomeStore ==
  ASSUME NEW S, NEW D, NEW c \in [S -> D], NEW k \in S, NEW v \in D,
         NEW o \in PutOutcomes(c, k, v)
  PROVE  o.store \in {c, [c EXCEPT ![k] = v]} /\ o.store \in [S -> D]
  BY DEF PutOutcomes

(* A Get answers what the store holds, or nothing.                         *)
LEMMA GetOutcomeData ==
  ASSUME NEW S, NEW D, NEW c \in [S -> D \cup {None}], NEW k \in S,
         NEW o \in GetOutcomes(c, k)
  PROVE  o.data \in D \cup {None} /\ o.data \in {c[k], None}
  BY DEF GetOutcomes

(* What getPdf changes when it hands its result to the caller.             *)
LEMMA GotPdfFields ==
  ASSUME NEW p \in Proc, NEW d, p.pc \in ReadPcs
  PROVE  /\ GotPdf(p, d).pc \in ReadPcs
         /\ GotPdf(p, d).name = p.name
         /\ GotPdf(p, d).overlap = p.overlap
         /\ GotPdf(p, d).held \in {d, None}
         /\ GotPdf(p, d).bubbles \in {d, p.bubbles}
         /\ GotPdf(p, d).page = p.page
  BY DEF GotPdf, Proc, ReadPcs

(* Every step of the request handlers keeps the types.                     *)
LEMMA TypeStep == TypeOK /\ [Next]_vars => TypeOK'
<1> SUFFICES ASSUME TypeOK, [Next]_vars PROVE TypeOK'
  OBVIOUS
<1> USE NoneAssumption, IdOfAssumption
<1> DEFINE Moves(h) == \E p : Good(p) /\ Goto(h, p)
<1>g. /\ \A h \in Handlers : Good(proc[h])
      /\ cache \in [Keys -> Docs \cup {None}]
      /\ db \in [Ids -> Row \cup {None}]
  BY TypeOKGood
<1>k. \A n \in Names : PdfKey(n) \in Keys /\ PngKey(n) \in Keys
  BY DEF PdfKey, PngKey, Keys
<1>d. \A n \in Names : DocOf(n) \in Docs \cup {None}
  BY <1>g DEF DocOf, Row
<1>f. \A h \in Handlers : Finish(h) => Moves(h)
  BY IdleGood DEF Finish
<1>m. ASSUME NEW h \in Handlers, Moves(h), cache' \in [Keys -> Docs \cup {None}],
             raced' \subseteq Names, UNCHANGED <<db, blind>>
      PROVE  TypeOK'
  BY <1>m, GotoGood DEF TypeOK, Good
<1>1. ASSUME NEW h \in Handlers, PdfGet(h) PROVE TypeOK'
  <2>1. proc[h].pc \in ReadPcs /\ proc[h].name \in Names
    BY <1>1, <1>g, BusyName DEF PdfGet, ReadPcs
  <2>2. Good([proc[h] EXCEPT !.pc = "pdfRead"])
    BY <1>g, <2>1, ReadGood DEF ReadPcs
  <2>3. ASSUME NEW o \in GetOutcomes(cache, PdfKey(proc[h].name)),
               Goto(h, GotPdf(proc[h], o.data))
        PROVE  Moves(h)
    <3>1. o.data \in Docs \cup {None}
      BY <1>g, <1>k, <2>1, GetOutcomeData
    <3> QED BY <1>g, <2>1, <2>3, <3>1, GotPdfGood
  <2>4. Moves(h)
    BY <1>1, <1>f, <2>2, <2>3 DEF PdfGet
  <2> QED BY <1>1, <1>m, <2>4 DEF PdfGet, TypeOK
<1>2. ASSUME NEW h \in Handlers, PdfRead(h) PROVE TypeOK'
  <2>1. proc[h].pc \in ReadPcs /\ proc[h].name \in Names
    BY <1>2, <1>g, BusyName DEF PdfRead, ReadPcs
  <2>2. Good([proc[h] EXCEPT !.pc = "pdfDraw", !.held = DocOf(proc[h].name)])
    BY <1>g, <1>d, <2>1, ReadGood DEF ReadPcs
  <2> QED BY <1>2, <1>f, <1>m, <2>2 DEF PdfRead, TypeOK
<1>3. ASSUME NEW h \in Handlers, PdfDraw(h) \/ Raster(h) \/ Reply(h) PROVE TypeOK'
  <2>1. proc[h].pc \in ReadPcs
    BY <1>3 DEF PdfDraw, Raster, Reply, ReadPcs
  <2>2. Good([proc[h] EXCEPT !.pc = "pdfPut"]) /\ Good([proc[h] EXCEPT !.pc = "pngPut"])
    BY <1>g, <2>1, ReadGood DEF ReadPcs
  <2> QED BY <1>3, <1>f, <1>m, <2>2 DEF PdfDraw, Raster, Reply, TypeOK
<1>4. ASSUME NEW h \in Handlers, PdfPut(h) \/ PngPut(h) PROVE TypeOK'
  <2>1. proc[h].pc \in ReadPcs /\ proc[h].name \in Names
    BY <1>4, <1>g, BusyName DEF PdfPut, PngPut, ReadPcs
  <2>2. PICK k \in Keys : Store(h, k)
    BY <1>4, <1>k, <2>1 DEF PdfPut, PngPut
  <2> DEFINE Lost == IF Racing(h) THEN {[store |-> cache, panic |-> FALSE]} ELSE {}
             Done == IF k[1] = "pdf" THEN GotPdf(proc[h], proc[h].held)
                     ELSE [proc[h] EXCEPT !.pc = "reply", !.held = None, !.page = proc[h].held]
  <2>3. PICK o \in PutOutcomes(cache, k, proc[h].held) \cup Lost :
          /\ cache' = o.store
          /\ IF o.panic THEN Finish(h) ELSE Goto(h, Done)
    BY <2>2 DEF Store
  <2>4. proc[h].held \in Docs \cup {None}
    BY <1>g DEF Good, Proc
  <2>5. cache' \in [Keys -> Docs \cup {None}]
    <3>1. CASE o \in PutOutcomes(cache, k, proc[h].held)
      BY <2>3, <2>4, <1>g, <3>1, PutOutcomeStore
    <3>2. CASE o \in Lost
      BY <2>3, <1>g, <3>2
    <3> QED BY <3>1, <3>2
  <2>6. Good(Done)
    BY <1>g, <2>1, <2>4, GotPdfGood, ReadGood DEF ReadPcs
  <2>7. Moves(h)
    BY <1>f, <2>3, <2>6
  <2>8. raced' \subseteq Names /\ UNCHANGED <<db, blind>>
    BY <2>2, <2>1 DEF Store, TypeOK
  <2> QED BY <1>m, <2>5, <2>7, <2>8
<1>5. ASSUME NEW h \in Handlers, PngGet(h) PROVE TypeOK'
  <2>1. proc[h].pc \in ReadPcs /\ proc[h].name \in Names
    BY <1>5, <1>g, BusyName DEF PngGet, ReadPcs
  <2>2. Good([proc[h] EXCEPT !.pc = "pdfGet"])
    BY <1>g, <2>1, ReadGood DEF ReadPcs
  <2>3. ASSUME NEW o \in GetOutcomes(cache, PngKey(proc[h].name))
        PROVE  Good([proc[h] EXCEPT !.pc = "reply", !.page = o.data])
    <3>1. o.data \in Docs \cup {None}
      BY <1>g, <1>k, <2>1, GetOutcomeData
    <3> QED BY <1>g, <2>1, <3>1, ReadGood DEF ReadPcs
  <2>4. Moves(h)
    BY <1>5, <1>f, <2>2, <2>3 DEF PngGet
  <2> QED BY <1>5, <1>m, <2>4 DEF PngGet, TypeOK
<1>6. ASSUME NEW h \in Handlers, CheckOwner(h) PROVE TypeOK'
  <2>1. proc[h].pc \in SavePcs /\ proc[h].user \in Users \cup {None}
    BY <1>6, <1>g DEF CheckOwner, SavePcs, Good, Proc
  <2>2. /\ Good([proc[h] EXCEPT !.pc = "update", !.older = proc[h].user])
        /\ Good([proc[h] EXCEPT !.pc = "update", !.older = None])
    BY <1>g, <2>1, SaveGood DEF SavePcs
  <2> QED BY <1>6, <1>f, <1>m, <2>2 DEF CheckOwner, TypeOK
<1>7. ASSUME NEW h \in Handlers, Update(h) PROVE TypeOK'
  <2>1. /\ proc[h].pc \in SavePcs /\ proc[h].name \in Names
        /\ proc[h].user \in Users /\ proc[h].doc \in Docs
    BY <1>7, <1>g, BusyName DEF Update, SavePcs, Good, Filled, Proc
  <2>2. CASE Finish(h) /\ UNCHANGED <<db, raced, blind>>
    BY <1>7, <1>f, <1>m, <2>2 DEF Update, TypeOK
  <2>3. ASSUME NEW next \in {"idle", "invalPdf"}, NEW ns \in SUBSET Names,
               WriteRow(h, next, ns)
        PROVE  TypeOK'
    <3>1. [owner |-> proc[h].user, doc |-> proc[h].doc] \in Row
      BY <2>1 DEF Row
    <3>2. db' \in [Ids -> Row \cup {None}]
      BY <1>g, <2>1, <2>3, <3>1 DEF WriteRow
    <3>3. raced' \subseteq Names /\ blind' \subseteq Ids
      BY <2>1, <2>3 DEF WriteRow, TypeOK
    <3> DEFINE met == \E r \in Handlers : Reading(r, IdOf[proc[h].name])
               mine == [proc[h] EXCEPT !.pc = next, !.overlap = met]
               new(g) == IF g = h THEN IF next = "idle" THEN Idle ELSE mine
                         ELSE [proc[g] EXCEPT !.overlap = @ \/ Reading(g, IdOf[proc[h].name])]
    <3>4. \A g \in Handlers : Good(new(g))
      <4>1. next = "invalPdf" => Good(mine)
        BY <1>g, <2>1, SaveGood DEF SavePcs
      <4>2. \A g \in Handlers : (proc[g].overlap \/ Reading(g, IdOf[proc[h].name])) \in BOOLEAN
        OBVIOUS
      <4> QED BY <1>g, <4>1, <4>2, <2>3, IdleGood, OverlapGood
    <3>5. proc' = [g \in Handlers |-> new(g)]
      BY <2>3 DEF WriteRow
    <3> HIDE DEF new
    <3>6. \A g \in Handlers : proc'[g] = new(g)
      BY <3>5
    <3> QED BY <1>7, <3>2, <3>3, <3>4, <3>5, <3>6 DEF Update, TypeOK, Good
  <2> QED BY <1>7, <2>2, <2>3 DEF Update
<1>8. ASSUME NEW h \in Handlers, InvalPdf(h) \/ InvalPng(h) PROVE TypeOK'
  <2>1. proc[h].pc \in SavePcs /\ proc[h].name \in Names
    BY <1>8, <1>g, BusyName DEF InvalPdf, InvalPng, SavePcs
  <2>2. /\ Good([proc[h] EXCEPT !.pc = "invalPng", !.overlap = TRUE])
        /\ Good([proc[h] EXCEPT !.pc = "invalPng"])
    BY <1>g, <2>1, SaveGood DEF SavePcs
  <2>3. Moves(h)
    BY <1>8, <1>f, <2>2 DEF InvalPdf, InvalPng
  <2>4. cache' \in [Keys -> Docs \cup {None}]
    BY <1>8, <1>g, <1>k, <2>1 DEF InvalPdf, InvalPng, Invalidated
  <2>5. raced' \subseteq Names /\ UNCHANGED <<db, blind>>
    BY <1>8, <2>1 DEF InvalPdf, InvalPng, TypeOK
  <2> QED BY <1>m, <2>3, <2>4, <2>5
<1>9. ASSUME NEW h \in Readers, NEW kind \in ReadKinds, NEW n \in Names,
             NEW redraw \in BOOLEAN, BeginRead(h, kind, n, redraw)
      PROVE  TypeOK'
  <2> DEFINE met == \E s \in Handlers : Pending(s, IdOf[n])
             mine == [Idle EXCEPT !.pc = IF kind = "png" THEN "pngGet" ELSE "pdfGet",
                         !.kind = kind, !.name = n, !.redraw = redraw, !.overlap = met]
             new(g) == IF g = h THEN mine
                       ELSE [proc[g] EXCEPT !.overlap = @ \/ Pending(g, IdOf[n])]
  <2>1. Good(mine)
    BY DEF Good, Filled, Proc, Idle, ReadPcs, SavePcs
  <2>2. \A g \in Handlers : Good(new(g))
    <3>1. \A g \in Handlers : (proc[g].overlap \/ Pending(g, IdOf[n])) \in BOOLEAN
      OBVIOUS
    <3> HIDE DEF mine
    <3> QED BY <1>g, <2>1, <3>1, OverlapGood
  <2>3. proc' = [g \in Handlers |-> new(g)]
    BY <1>9 DEF BeginRead
  <2> HIDE DEF new
  <2>4. \A g \in Handlers : proc'[g] = new(g)
    BY <2>3
  <2>5. UNCHANGED <<db, cache, raced, blind>>
    BY <1>9 DEF BeginRead
  <2> QED BY <2>2, <2>3, <2>4, <2>5 DEF TypeOK, Good
<1>10. ASSUME NEW h \in Savers, NEW n \in Names, NEW u \in Users, NEW d \in Docs,
              BeginSave(h, n, u, d)
       PROVE  TypeOK'
  <2>1. Good([Idle EXCEPT !.pc = "check", !.kind = "save", !.name = n,
                          !.user = u, !.doc = d])
    BY DEF Good, Filled, Proc, Idle, SavePcs
  <2> QED BY <1>10, <1>m, <2>1 DEF BeginSave, TypeOK, Handlers
<1>11. ASSUME NEW i \in Ids, NEW u \in Users, NEW d \in Docs, Create(i, u, d)
       PROVE  TypeOK'
  <2>1. [owner |-> u, doc |-> d] \in Row
    BY DEF Row
  <2> QED BY <1>11, <2>1 DEF Create, TypeOK, Good
<1>12. CASE Crash
  BY <1>12, IdleGood DEF Crash, TypeOK, Good
<1>13. CASE UNCHANGED vars
  BY <1>13 DEF vars, TypeOK
<1> QED
  BY <1>1, <1>2, <1>3, <1>4, <1>5, <1>6, <1>7, <1>8, <1>9, <1>10, <1>11, <1>12, <1>13
  DEF Next, Step

(* Every variable keeps its type, for any sets of handlers, names, rows,   *)
(* users and contents.                                                     *)
THEOREM TypeCorrect == Spec => []TypeOK
<1>1. Init => TypeOK
  BY IdleGood DEF Init, TypeOK, Good
<1> QED BY <1>1, TypeStep, PTL DEF Spec

-----------------------------------------------------------------------------
(* Coherence.                                                              *)

(* No two cache keys of getPdf and getPng are the same (main.go:427-457).  *)
LEMMA KeysDiffer ==
  \A n, m \in Names : /\ PdfKey(n) # PngKey(m)
                      /\ PdfKey(n) = PdfKey(m) => n = m
                      /\ PngKey(n) = PngKey(m) => n = m
                      /\ PdfKey(n) \in Keys /\ PngKey(n) \in Keys
  BY DEF PdfKey, PngKey, Keys

(* An undisturbed read of a name that is not raced meets only fresh        *)
(* cache entries.                                                          *)
LEMMA QuietHit ==
  ASSUME TypeOK, CoherenceInv, NEW h \in Handlers, proc[h].pc \in ReadPcs,
         ~proc[h].overlap, proc[h].name \notin raced
  PROVE  /\ cache[PdfKey(proc[h].name)] \in {None, DocOf(proc[h].name)}
         /\ cache[PngKey(proc[h].name)] \in {None, DocOf(proc[h].name)}
<1>1. proc[h].name \in Names
  BY TypeOKGood, BusyName DEF ReadPcs
<1>2. \A s \in Handlers : ~(proc[s].pc \in {"invalPdf", "invalPng"} /\ proc[s].name = proc[h].name)
  BY DEF CoherenceInv, OverlapMarked
<1> QED BY <1>1, <1>2 DEF CoherenceInv, CoherentUnlessRaced

(* A read handler moves on, and touches only its own state.                *)
LEMMA ReaderMoves ==
  ASSUME TypeOK, CoherenceInv, NEW h \in Handlers, proc[h].pc \in ReadPcs,
         NEW q, Goto(h, q), UNCHANGED <<db, cache, raced>>,
         \/ q = Idle
         \/ /\ q.pc \in ReadPcs /\ Fresh(q)
            /\ q.name = proc[h].name /\ q.overlap = proc[h].overlap
  PROVE  CoherenceInv'
<1>1. \A g \in Handlers : proc'[g] = IF g = h THEN q ELSE proc[g]
  BY DEF Goto, TypeOK
<1>2. q.pc \notin SavePcs /\ proc[h].pc \notin SavePcs /\ Idle.pc \notin ReadPcs
  BY DEF Idle, SavePcs, ReadPcs
<1>3. \A n : DocOf(n)' = DocOf(n)
  BY DEF DocOf
<1>4. OverlapMarked'
  BY <1>1, <1>2 DEF CoherenceInv, OverlapMarked, SavePcs
<1>5. CoherentUnlessRaced'
  BY <1>1, <1>2, <1>3 DEF CoherenceInv, CoherentUnlessRaced, SavePcs
<1>6. ReadsFresh'
  <2> SUFFICES ASSUME NEW g \in Handlers PROVE Fresh(proc[g])'
    BY DEF ReadsFresh
  <2>1. CASE g = h
    BY <1>1, <1>2, <1>3, <2>1 DEF Fresh
  <2>2. CASE g # h
    BY <1>1, <1>3, <2>2 DEF CoherenceInv, ReadsFresh, Fresh
  <2> QED BY <2>1, <2>2
<1>7. PdfGone'
  BY <1>1, <1>2 DEF CoherenceInv, PdfGone, SavePcs
<1> QED BY <1>4, <1>5, <1>6, <1>7 DEF CoherenceInv

(* cache.Put, by a read handler that then moves on.                        *)
LEMMA ReaderStores ==
  ASSUME TypeOK, CoherenceInv, NEW h \in Handlers, proc[h].pc \in ReadPcs,
         NEW q, Goto(h, q), UNCHANGED db, NEW k, 
         k \in {PdfKey(proc[h].name), PngKey(proc[h].name)},
         cache' \in {cache, [cache EXCEPT ![k] = proc[h].held]},
         raced' = IF proc[h].overlap /\ cache' # cache
                  THEN raced \cup {proc[h].name} ELSE raced,
         \/ q = Idle
         \/ /\ q.pc \in ReadPcs /\ Fresh(q)
            /\ q.name = proc[h].name /\ q.overlap = proc[h].overlap
  PROVE  CoherenceInv'
<1> DEFINE n == proc[h].name
<1>0. n \in Names
  BY TypeOKGood, BusyName DEF ReadPcs
<1>1. \A g \in Handlers : proc'[g] = IF g = h THEN q ELSE proc[g]
  BY DEF Goto, TypeOK
<1>2. q.pc \notin SavePcs /\ proc[h].pc \notin SavePcs /\ Idle.pc \notin ReadPcs
  BY DEF Idle, SavePcs, ReadPcs
<1>3. \A m : DocOf(m)' = DocOf(m)
  BY DEF DocOf
<1>4. OverlapMarked'
  BY <1>1, <1>2 DEF CoherenceInv, OverlapMarked, SavePcs
<1>5. CoherentUnlessRaced'
  <2>1. \A s \in Handlers : proc[s].pc \in SavePcs => proc'[s] = proc[s]
    BY <1>1, <1>2
  <2>2. \A m \in Names : \A j \in {PdfKey(m), PngKey(m)} :
          m # n => cache'[j] = cache[j]
    BY <1>0, KeysDiffer DEF TypeOK
  <2>3. ASSUME n \notin raced' 
        PROVE  \A j \in {PdfKey(n), PngKey(n)} : cache'[j] \in {cache[j], DocOf(n), None}
    <3>1. CASE cache' = cache
      BY <3>1
    <3>2. CASE cache' = [cache EXCEPT ![k] = proc[h].held] /\ cache' # cache
      <4>1. ~proc[h].overlap /\ n \notin raced
        BY <2>3, <3>2
      <4>2. proc[h].held \in {None, DocOf(n)}
        BY <4>1 DEF CoherenceInv, ReadsFresh, Fresh
      <4> QED BY <3>2, <4>2, <1>0, KeysDiffer DEF TypeOK
    <3> QED BY <3>1, <3>2
  <2>4. raced \subseteq raced'
    OBVIOUS
  <2> QED BY <1>3, <2>1, <2>2, <2>3, <2>4 DEF CoherenceInv, CoherentUnlessRaced, SavePcs
<1>6. ReadsFresh'
  <2> SUFFICES ASSUME NEW g \in Handlers PROVE Fresh(proc[g])'
    BY DEF ReadsFresh
  <2>1. CASE g = h
    BY <1>1, <1>2, <1>3, <2>1 DEF Fresh
  <2>2. CASE g # h
    BY <1>1, <1>3, <2>2 DEF CoherenceInv, ReadsFresh, Fresh
  <2> QED BY <2>1, <2>2
<1>7. PdfGone'
  <2> SUFFICES ASSUME NEW s \in Handlers, proc'[s].pc = "invalPng", ~proc'[s].overlap
               PROVE  cache'[PdfKey(proc'[s].name)] = None
    BY DEF PdfGone
  <2>1. proc'[s] = proc[s] /\ proc[s].name \in Names
    BY <1>1, <1>2, TypeOKGood, BusyName DEF SavePcs
  <2>2. proc[s].name # n
    BY <2>1, <1>0 DEF CoherenceInv, OverlapMarked
  <2>3. cache'[PdfKey(proc[s].name)] = cache[PdfKey(proc[s].name)]
    BY <2>1, <2>2, <1>0, KeysDiffer DEF TypeOK
  <2> QED BY <2>1, <2>3 DEF CoherenceInv, PdfGone
<1> QED BY <1>4, <1>5, <1>6, <1>7 DEF CoherenceInv

(* A save handler moves on before it has written its row.                  *)
LEMMA SaverMoves ==
  ASSUME TypeOK, CoherenceInv, NEW h \in Handlers,
         proc[h].pc \in {"idle", "check", "update"}, NEW q, Goto(h, q),
         q.pc \in {"idle", "check", "update"}, UNCHANGED <<db, cache, raced>>
  PROVE  CoherenceInv'
<1>1. \A g \in Handlers : proc'[g] = IF g = h THEN q ELSE proc[g]
  BY DEF Goto, TypeOK
<1>2. q.pc \notin ReadPcs /\ proc[h].pc \notin ReadPcs
  BY DEF ReadPcs
<1>3. \A n : DocOf(n)' = DocOf(n)
  BY DEF DocOf
<1>4. OverlapMarked'
  BY <1>1, <1>2 DEF CoherenceInv, OverlapMarked
<1>5. CoherentUnlessRaced'
  BY <1>1, <1>3 DEF CoherenceInv, CoherentUnlessRaced
<1>6. ReadsFresh'
  BY <1>1, <1>2, <1>3 DEF CoherenceInv, ReadsFresh, Fresh
<1>7. PdfGone'
  BY <1>1 DEF CoherenceInv, PdfGone
<1> QED BY <1>4, <1>5, <1>6, <1>7 DEF CoherenceInv

(* The row is written: the reads in flight are marked, and what is cached  *)
(* under names the save will not invalidate counts as raced.               *)
LEMMA RowWritten ==
  ASSUME TypeOK, CoherenceInv, NEW h \in Handlers, proc[h].pc = "update",
         UNCHANGED cache,
         \/ WriteRow(h, "invalPdf", Names \ {proc[h].name})
         \/ WriteRow(h, "idle", Names)
  PROVE  CoherenceInv'
<1> DEFINE i == IdOf[proc[h].name]
<1>0. proc[h].name \in Names
  BY TypeOKGood, BusyName
<1>p. \A g \in Handlers : proc[g] \in Proc
  BY DEF TypeOK
<1>1. \A g \in Handlers \ {h} :
         /\ proc'[g].pc = proc[g].pc /\ proc'[g].name = proc[g].name
         /\ proc'[g].overlap = (proc[g].overlap \/ Reading(g, i))
         /\ proc'[g].held = proc[g].held /\ proc'[g].bubbles = proc[g].bubbles
         /\ proc'[g].page = proc[g].page
  <2> SUFFICES ASSUME NEW g \in Handlers \ {h}
               PROVE  /\ proc'[g] = [proc[g] EXCEPT !.overlap = @ \/ Reading(g, i)]
                      /\ proc[g] \in Proc
    BY DEF Proc
  <2> QED BY <1>p DEF WriteRow
<1>2. \/ /\ proc'[h].pc = "invalPdf" /\ proc'[h].name = proc[h].name
         /\ proc'[h].overlap = \E r \in Handlers : Reading(r, i)
         /\ raced' = raced \cup {n \in Names \ {proc[h].name} : IdOf[n] = i /\ Cached(n)}
      \/ /\ proc'[h].pc = "idle"
         /\ raced' = raced \cup {n \in Names : IdOf[n] = i /\ Cached(n)}
  <2>1. CASE WriteRow(h, "invalPdf", Names \ {proc[h].name})
    BY <1>p, <2>1 DEF WriteRow, Proc
  <2>2. CASE WriteRow(h, "idle", Names)
    BY <1>p, <2>2 DEF WriteRow, Idle
  <2> QED BY <2>1, <2>2
<1>3. \A n \in Names : IdOf[n] # i => DocOf(n)' = DocOf(n)
  <2>1. db' = [db EXCEPT ![i] = db'[i]]
    BY IdOfAssumption, <1>0 DEF WriteRow, TypeOK
  <2> QED BY <2>1, IdOfAssumption, <1>0 DEF DocOf, TypeOK
<1>4. OverlapMarked'
  <2> SUFFICES ASSUME NEW r \in Handlers, NEW s \in Handlers, proc'[r].pc \in ReadPcs,
                      proc'[s].pc \in {"invalPdf", "invalPng"},
                      IdOf[proc'[r].name] = IdOf[proc'[s].name]
               PROVE  proc'[r].overlap /\ proc'[s].overlap
    BY DEF OverlapMarked
  <2>1. r # h
    BY <1>2 DEF ReadPcs
  <2>2. CASE s = h
    <3>1. Reading(r, i)
      BY <1>1, <1>2, <2>1, <2>2 DEF Reading
    <3>2. proc'[r].overlap
      BY <1>1, <2>1, <3>1
    <3>3. proc'[h].overlap
      BY <1>2, <2>2, <3>1
    <3> QED BY <2>2, <3>2, <3>3
  <2>3. CASE s # h
    BY <1>1, <2>1, <2>3 DEF CoherenceInv, OverlapMarked
  <2> QED BY <2>2, <2>3
<1>5. CoherentUnlessRaced'
  <2> SUFFICES ASSUME NEW n \in Names, n \notin raced'
        PROVE  /\ \/ cache[PdfKey(n)] \in {None, DocOf(n)'}
                  \/ \E s \in Handlers : proc'[s].pc = "invalPdf" /\ proc'[s].name = n
               /\ \/ cache[PngKey(n)] \in {None, DocOf(n)'}
                  \/ \E s \in Handlers : proc'[s].pc \in {"invalPdf", "invalPng"}
                                        /\ proc'[s].name = n
    BY DEF CoherentUnlessRaced
  <2>1. n \notin raced
    BY <1>2
  <2>2. CASE IdOf[n] # i
    <3>1. \A s \in Handlers : proc[s].pc \in {"invalPdf", "invalPng"} =>
              proc'[s].pc = proc[s].pc /\ proc'[s].name = proc[s].name
      BY <1>1
    <3> QED BY <1>3, <2>1, <2>2, <3>1 DEF CoherenceInv, CoherentUnlessRaced
  <2>3. CASE IdOf[n] = i /\ Cached(n)
    BY <1>2, <2>3
  <2>4. CASE ~Cached(n)
    BY <2>4 DEF Cached
  <2> QED BY <2>2, <2>3, <2>4
<1>6. ReadsFresh'
  <2> SUFFICES ASSUME NEW g \in Handlers, proc'[g].pc \in ReadPcs, ~proc'[g].overlap,
                      proc'[g].name \notin raced'
               PROVE  Fresh(proc[g])'
    BY DEF ReadsFresh, Fresh
  <2>1. g # h
    BY <1>2 DEF ReadPcs
  <2>2. IdOf[proc[g].name] # i /\ ~proc[g].overlap
    BY <1>1, <2>1 DEF Reading
  <2>3. proc[g].name \in Names
    BY <1>1, <2>1, TypeOKGood, BusyName DEF ReadPcs
  <2>4. proc[g].name \notin raced
    BY <1>1, <1>2, <2>1
  <2>5. {proc[g].held, proc[g].bubbles, proc[g].page} \subseteq {None, DocOf(proc[g].name)}
    BY <1>1, <2>1, <2>2, <2>4 DEF CoherenceInv, ReadsFresh, Fresh
  <2> QED BY <1>1, <1>3, <2>1, <2>2, <2>3, <2>5 DEF Fresh, DocOf
<1>7. PdfGone'
  BY <1>1, <1>2 DEF CoherenceInv, PdfGone
<1> QED BY <1>4, <1>5, <1>6, <1>7 DEF CoherenceInv

(* cache.Invalidate of one of the two keys, done or lost to a race.        *)
LEMMA Invalidates ==
  ASSUME TypeOK, CoherenceInv, NEW h \in Handlers, InvalPdf(h) \/ InvalPng(h)
  PROVE  CoherenceInv'
<1> DEFINE n == proc[h].name
<1>0. n \in Names
  BY TypeOKGood, BusyName DEF InvalPdf, InvalPng
<1>p. \A g \in Handlers : proc[g] \in Proc
  BY DEF TypeOK
<1>1. \A g \in Handlers \ {h} : proc'[g] = proc[g]
  BY DEF InvalPdf, InvalPng, Goto, Finish, TypeOK
<1>2. \/ /\ InvalPdf(h)
         /\ proc[h].pc = "invalPdf" /\ proc'[h].pc = "invalPng" /\ proc'[h].name = n
         /\ proc[h].overlap => proc'[h].overlap
      \/ /\ InvalPng(h)
         /\ proc[h].pc = "invalPng" /\ proc'[h].pc = "idle"
  <2>1. CASE InvalPdf(h)
    <3>1. /\ proc[h].pc = "invalPdf"
          /\ \/ proc' = [proc EXCEPT ![h] = [proc[h] EXCEPT !.pc = "invalPng"]]
             \/ proc' = [proc EXCEPT ![h] = [proc[h] EXCEPT !.pc = "invalPng", !.overlap = TRUE]]
      BY <2>1 DEF InvalPdf, Goto
    <3>2. proc'[h].pc = "invalPng" /\ proc'[h].name = n
      BY <1>p, <3>1 DEF TypeOK, Proc
    <3>3. proc[h].overlap => proc'[h].overlap
      <4>1. CASE proc' = [proc EXCEPT ![h] = [proc[h] EXCEPT !.pc = "invalPng"]]
        <5>1. proc'[h].overlap = proc[h].overlap
          BY <1>p, <4>1 DEF TypeOK, Proc
        <5> QED BY <5>1
      <4>2. CASE proc' = [proc EXCEPT ![h] = [proc[h] EXCEPT !.pc = "invalPng", !.overlap = TRUE]]
        BY <1>p, <4>2 DEF TypeOK, Proc
      <4> QED BY <3>1, <4>1, <4>2
    <3> QED BY <2>1, <3>1, <3>2, <3>3
  <2>2. CASE InvalPng(h)
    <3>1. proc[h].pc = "invalPng" /\ proc' = [proc EXCEPT ![h] = Idle]
      BY <2>2 DEF InvalPng, Goto, Finish
    <3> QED BY <1>p, <2>2, <3>1 DEF TypeOK, Idle
  <2> QED BY <2>1, <2>2
<1>3. \A m : DocOf(m)' = DocOf(m)
  BY DEF DocOf, InvalPdf, InvalPng
<1>4. /\ \A m \in Names \ {n} : m \in raced' <=> m \in raced
      /\ \A j \in Keys : cache'[j] \in {cache[j], None}
  BY DEF InvalPdf, InvalPng, Invalidated, TypeOK
<1>5. OverlapMarked'
  <2>1. proc'[h].pc \notin ReadPcs
    BY <1>2 DEF ReadPcs
  <2>2. \A s \in Handlers : proc'[s].pc \in {"invalPdf", "invalPng"} =>
           /\ proc[s].pc \in {"invalPdf", "invalPng"} /\ proc'[s].name = proc[s].name
           /\ proc[s].overlap => proc'[s].overlap
    BY <1>1, <1>2
  <2> QED BY <1>1, <2>1, <2>2 DEF CoherenceInv, OverlapMarked
<1>6. CoherentUnlessRaced'
  <2> SUFFICES ASSUME NEW m \in Names, m \notin raced'
        PROVE  /\ \/ cache'[PdfKey(m)] \in {None, DocOf(m)}
                  \/ \E s \in Handlers : proc'[s].pc = "invalPdf" /\ proc'[s].name = m
               /\ \/ cache'[PngKey(m)] \in {None, DocOf(m)}
                  \/ \E s \in Handlers : proc'[s].pc \in {"invalPdf", "invalPng"}
                                        /\ proc'[s].name = m
    BY <1>3 DEF CoherentUnlessRaced
  <2>1. CASE m # n
    <3>1. m \notin raced
      BY <1>4, <2>1
    <3>2. \A s \in Handlers : proc[s].name = m => proc'[s] = proc[s]
      BY <1>1, <2>1
    <3> QED BY <1>4, <2>1, <3>1, <3>2, KeysDiffer DEF CoherenceInv, CoherentUnlessRaced
  <2>2. CASE m = n /\ InvalPdf(h)
    <3>1. cache' = Invalidated(cache, PdfKey(n))
      BY <2>2 DEF InvalPdf
    <3>2. cache'[PdfKey(n)] = None
      BY <1>0, <3>1, KeysDiffer DEF Invalidated, TypeOK
    <3>3. proc[h].pc = "invalPdf"
      BY <2>2 DEF InvalPdf
    <3> QED BY <1>2, <2>2, <3>2, <3>3
  <2>3. CASE m = n /\ InvalPng(h)
    <3>1. cache' = Invalidated(cache, PngKey(n)) /\ n \notin raced
      BY <2>3 DEF InvalPng
    <3>2. cache'[PngKey(n)] = None /\ cache'[PdfKey(n)] = cache[PdfKey(n)]
      BY <1>0, <3>1, KeysDiffer DEF Invalidated, TypeOK
    <3>3. \A s \in Handlers : proc[s].pc = "invalPdf" => proc'[s] = proc[s]
      BY <1>1, <2>3 DEF InvalPng
    <3> QED BY <1>0, <2>3, <3>1, <3>2, <3>3 DEF CoherenceInv, CoherentUnlessRaced
  <2> QED BY <2>1, <2>2, <2>3
<1>7. ReadsFresh'
  <2> SUFFICES ASSUME NEW g \in Handlers, proc'[g].pc \in ReadPcs, ~proc'[g].overlap
               PROVE  Fresh(proc[g])'
    BY DEF ReadsFresh, Fresh
  <2>1. g # h
    BY <1>2 DEF ReadPcs
  <2>2. proc[g].name \in Names \ {n}
    <3>1. proc[g].name \in Names
      BY <1>1, <2>1, TypeOKGood, BusyName DEF ReadPcs
    <3> QED BY <1>1, <1>2, <2>1, <3>1 DEF CoherenceInv, OverlapMarked
  <2> QED BY <1>1, <1>3, <1>4, <2>1, <2>2 DEF CoherenceInv, ReadsFresh, Fresh
<1>8. PdfGone'
  <2> SUFFICES ASSUME NEW s \in Handlers, proc'[s].pc = "invalPng", ~proc'[s].overlap
               PROVE  cache'[PdfKey(proc'[s].name)] = None
    BY DEF PdfGone
  <2>1. CASE s # h
    <3>1. proc[s].name \in Names
      BY <1>1, <2>1, TypeOKGood, BusyName
    <3> QED BY <1>1, <1>4, <2>1, <3>1, KeysDiffer DEF CoherenceInv, PdfGone
  <2>2. CASE s = h
    <3>1. InvalPdf(h) /\ proc'[h].name = n
      BY <1>2, <2>2
    <3>2. CASE cache' = Invalidated(cache, PdfKey(n))
      BY <1>0, <2>2, <3>1, <3>2, KeysDiffer DEF Invalidated, TypeOK
    <3>3. CASE Goto(h, [proc[h] EXCEPT !.pc = "invalPng", !.overlap = TRUE])
      BY <1>p, <2>2, <3>3 DEF Goto, TypeOK, Proc
    <3> QED BY <3>1, <3>2, <3>3 DEF InvalPdf
  <2> QED BY <2>1, <2>2
<1> QED BY <1>5, <1>6, <1>7, <1>8 DEF CoherenceInv

(* A read arrives: it and the saves in progress take note of each other.   *)
LEMMA ReadBegins ==
  ASSUME TypeOK, CoherenceInv, NEW h \in Handlers, NEW kind \in ReadKinds,
         NEW n \in Names, NEW redraw \in BOOLEAN, BeginRead(h, kind, n, redraw)
  PROVE  CoherenceInv'
<1>p. \A g \in Handlers : proc[g] \in Proc
  BY DEF TypeOK
<1>1. \A g \in Handlers \ {h} :
         /\ proc'[g].pc = proc[g].pc /\ proc'[g].name = proc[g].name
         /\ proc'[g].overlap = (proc[g].overlap \/ Pending(g, IdOf[n]))
         /\ proc'[g].held = proc[g].held /\ proc'[g].bubbles = proc[g].bubbles
         /\ proc'[g].page = proc[g].page
  <2> SUFFICES ASSUME NEW g \in Handlers \ {h}
               PROVE  /\ proc'[g] = [proc[g] EXCEPT !.overlap = @ \/ Pending(g, IdOf[n])]
                      /\ proc[g] \in Proc
    BY DEF Proc
  <2> QED BY <1>p DEF BeginRead
<1>2. /\ proc'[h].pc \in {"pdfGet", "pngGet"} /\ proc'[h].name = n
      /\ proc'[h].overlap = \E s \in Handlers : Pending(s, IdOf[n])
      /\ proc'[h].held = None /\ proc'[h].bubbles = None /\ proc'[h].page = None
  BY DEF BeginRead, Idle
<1>3. \A m : DocOf(m)' = DocOf(m)
  BY DEF DocOf, BeginRead
<1>4. cache' = cache /\ raced' = raced /\ proc[h].pc = "idle"
  <2>1. proc[h] = Idle /\ cache' = cache /\ raced' = raced
    BY DEF BeginRead
  <2> QED BY <2>1 DEF Idle
<1>5. OverlapMarked'
  <2> SUFFICES ASSUME NEW r \in Handlers, NEW s \in Handlers, proc'[r].pc \in ReadPcs,
                      proc'[s].pc \in {"invalPdf", "invalPng"},
                      IdOf[proc'[r].name] = IdOf[proc'[s].name]
               PROVE  proc'[r].overlap /\ proc'[s].overlap
    BY DEF OverlapMarked
  <2>1. s # h /\ proc'[s].pc = proc[s].pc /\ proc'[s].name = proc[s].name
    BY <1>1, <1>2
  <2>2. CASE r = h
    <3>1. Pending(s, IdOf[n])
      BY <1>2, <2>1, <2>2 DEF Pending
    <3>2. proc'[h].overlap
      BY <1>2, <3>1
    <3>3. proc'[s].overlap
      BY <1>1, <2>1, <3>1
    <3> QED BY <2>2, <3>2, <3>3
  <2>3. CASE r # h
    BY <1>1, <2>1, <2>3 DEF CoherenceInv, OverlapMarked
  <2> QED BY <2>2, <2>3
<1>6. CoherentUnlessRaced'
  <2>1. \A s \in Handlers : proc[s].pc \in {"invalPdf", "invalPng"} =>
           proc'[s].pc = proc[s].pc /\ proc'[s].name = proc[s].name
    BY <1>1, <1>4
  <2> QED BY <1>3, <1>4, <2>1 DEF CoherenceInv, CoherentUnlessRaced
<1>7. ReadsFresh'
  <2> SUFFICES ASSUME NEW g \in Handlers PROVE Fresh(proc[g])'
    BY DEF ReadsFresh
  <2>1. CASE g = h
    BY <1>2, <2>1 DEF Fresh
  <2>2. CASE g # h
    BY <1>1, <1>3, <1>4, <2>2 DEF CoherenceInv, ReadsFresh, Fresh
  <2> QED BY <2>1, <2>2
<1>8. PdfGone'
  BY <1>1, <1>2, <1>4 DEF CoherenceInv, PdfGone
<1> QED BY <1>5, <1>6, <1>7, <1>8 DEF CoherenceInv

(* Every step keeps the strengthened coherence of the cache.               *)
LEMMA CoherenceStep == TypeOK /\ CoherenceInv /\ [Next]_vars => CoherenceInv'
<1> SUFFICES ASSUME TypeOK, CoherenceInv, [Next]_vars PROVE CoherenceInv'
  OBVIOUS
<1> USE NoneAssumption, IdOfAssumption
<1>t. \A h \in Handlers : Good(proc[h])
  BY TypeOKGood
<1>d. \A m : DocOf(m) \in {None, DocOf(m)}
  OBVIOUS
<1>1. ASSUME NEW h \in Handlers, PdfGet(h) PROVE CoherenceInv'
  <2> DEFINE p == proc[h]
  <2>1. /\ p.pc \in ReadPcs /\ p.name \in Names /\ p \in Proc
        /\ UNCHANGED <<db, cache, raced>>
    BY <1>1, <1>t, BusyName DEF PdfGet, ReadPcs, Good
  <2>2. Fresh(p)
    BY DEF CoherenceInv, ReadsFresh
  <2>3. CASE Goto(h, [p EXCEPT !.pc = "pdfRead"])
    <3> DEFINE q == [p EXCEPT !.pc = "pdfRead"]
    <3>1. /\ q.pc \in ReadPcs /\ q.name = p.name /\ q.overlap = p.overlap
          /\ q.held = p.held /\ q.bubbles = p.bubbles /\ q.page = p.page
      BY <2>1 DEF Proc, ReadPcs
    <3>2. Fresh(q)
      BY <2>1, <2>2, <3>1 DEF Fresh
    <3> QED BY <2>1, <2>3, <3>1, <3>2, ReaderMoves
  <2>4. CASE Finish(h)
    BY <2>1, <2>4, ReaderMoves DEF Finish
  <2>5. ASSUME NEW o \in GetOutcomes(cache, PdfKey(p.name)), Goto(h, GotPdf(p, o.data))
        PROVE  CoherenceInv'
    <3> DEFINE q == GotPdf(p, o.data)
    <3>1. o.data \in Docs \cup {None} /\ o.data \in {cache[PdfKey(p.name)], None}
      BY <2>1, GetOutcomeData, KeysDiffer DEF TypeOK
    <3>2. /\ q.pc \in ReadPcs /\ q.name = p.name /\ q.overlap = p.overlap
          /\ q.held \in {o.data, None} /\ q.bubbles \in {o.data, p.bubbles} /\ q.page = p.page
      BY <2>1, <3>1, GotPdfFields
    <3>3. Fresh(q)
      BY <2>1, <2>2, <3>1, <3>2, QuietHit DEF Fresh
    <3> QED BY <2>1, <2>5, <3>2, <3>3, ReaderMoves
  <2> QED BY <1>1, <2>3, <2>4, <2>5 DEF PdfGet
<1>2. ASSUME NEW h \in Handlers, PdfRead(h) PROVE CoherenceInv'
  <2> DEFINE p == proc[h]
             q == [p EXCEPT !.pc = "pdfDraw", !.held = DocOf(p.name)]
  <2>1. /\ p.pc \in ReadPcs /\ p \in Proc /\ Fresh(p) /\ UNCHANGED <<db, cache, raced>>
    BY <1>2, <1>t DEF PdfRead, ReadPcs, Good, CoherenceInv, ReadsFresh
  <2>2. /\ q.pc \in ReadPcs /\ q.name = p.name /\ q.overlap = p.overlap
        /\ q.held = DocOf(p.name) /\ q.bubbles = p.bubbles /\ q.page = p.page
    BY <2>1 DEF Proc, ReadPcs
  <2>3. Fresh(q)
    BY <2>1, <2>2 DEF Fresh
  <2>4. CASE Goto(h, q)
    BY <2>1, <2>2, <2>3, <2>4, ReaderMoves
  <2>5. CASE Finish(h)
    BY <2>1, <2>5, ReaderMoves DEF Finish
  <2> QED BY <1>2, <2>4, <2>5 DEF PdfRead
<1>3. ASSUME NEW h \in Handlers, PdfDraw(h) \/ Raster(h) \/ Reply(h) PROVE CoherenceInv'
  <2> DEFINE p == proc[h]
  <2>1. /\ p.pc \in ReadPcs /\ p \in Proc /\ Fresh(p) /\ UNCHANGED <<db, cache, raced>>
    BY <1>3, <1>t DEF PdfDraw, Raster, Reply, ReadPcs, Good, CoherenceInv, ReadsFresh
  <2>2. ASSUME NEW c \in {"pdfPut", "pngPut"}, Goto(h, [p EXCEPT !.pc = c])
        PROVE  CoherenceInv'
    <3> DEFINE q == [p EXCEPT !.pc = c]
    <3>1. /\ q.pc \in ReadPcs /\ q.name = p.name /\ q.overlap = p.overlap
          /\ q.held = p.held /\ q.bubbles = p.bubbles /\ q.page = p.page
      BY <2>1 DEF Proc, ReadPcs
    <3>2. Fresh(q)
      BY <2>1, <3>1 DEF Fresh
    <3> QED BY <2>1, <2>2, <3>1, <3>2, ReaderMoves
  <2>3. CASE Finish(h)
    BY <2>1, <2>3, ReaderMoves DEF Finish
  <2> QED BY <1>3, <2>2, <2>3 DEF PdfDraw, Raster, Reply
<1>4. ASSUME NEW h \in Handlers, PngGet(h) PROVE CoherenceInv'
  <2> DEFINE p == proc[h]
  <2>1. /\ p.pc \in ReadPcs /\ p.name \in Names /\ p \in Proc /\ Fresh(p)
        /\ UNCHANGED <<db, cache, raced>>
    BY <1>4, <1>t, BusyName DEF PngGet, ReadPcs, Good, CoherenceInv, ReadsFresh
  <2>2. CASE Goto(h, [p EXCEPT !.pc = "pdfGet"])
    <3> DEFINE q == [p EXCEPT !.pc = "pdfGet"]
    <3>1. /\ q.pc \in ReadPcs /\ q.name = p.name /\ q.overlap = p.overlap
          /\ q.held = p.held /\ q.bubbles = p.bubbles /\ q.page = p.page
      BY <2>1 DEF Proc, ReadPcs
    <3>2. Fresh(q)
      BY <2>1, <3>1 DEF Fresh
    <3> QED BY <2>1, <2>2, <3>1, <3>2, ReaderMoves
  <2>3. CASE Finish(h)
    BY <2>1, <2>3, ReaderMoves DEF Finish
  <2>4. ASSUME NEW o \in GetOutcomes(cache, PngKey(p.name)),
               Goto(h, [p EXCEPT !.pc = "reply", !.page = o.data])
        PROVE  CoherenceInv'
    <3> DEFINE q == [p EXCEPT !.pc = "reply", !.page = o.data]
    <3>1. o.data \in {cache[PngKey(p.name)], None}
      BY <2>1, GetOutcomeData, KeysDiffer DEF TypeOK
    <3>2. /\ q.pc \in ReadPcs /\ q.name = p.name /\ q.overlap = p.overlap
          /\ q.held = p.held /\ q.bubbles = p.bubbles /\ q.page = o.data
      BY <2>1 DEF Proc, ReadPcs
    <3>3. Fresh(q)
      BY <2>1, <3>1, <3>2, QuietHit DEF Fresh
    <3> QED BY <2>1, <2>4, <3>2, <3>3, ReaderMoves
  <2> QED BY <1>4, <2>2, <2>3, <2>4 DEF PngGet
<1>5. ASSUME NEW h \in Handlers, PdfPut(h) \/ PngPut(h) PROVE CoherenceInv'
  <2> DEFINE p == proc[h]
             png == [p EXCEPT !.pc = "reply", !.held = None, !.page = p.held]
  <2>1. /\ p.pc \in ReadPcs /\ p.name \in Names /\ p \in Proc /\ Fresh(p)
        /\ p.held \in Docs \cup {None}
    BY <1>5, <1>t, BusyName DEF PdfPut, PngPut, ReadPcs, Good, CoherenceInv, ReadsFresh, Proc
  <2>2. PICK k \in {PdfKey(p.name), PngKey(p.name)} : Store(h, k)
    BY <1>5 DEF PdfPut, PngPut
  <2>3. k \in Keys
    BY <2>1, KeysDiffer
  <2> DEFINE Lost == IF Racing(h) THEN {[store |-> cache, panic |-> FALSE]} ELSE {}
             Done == IF k[1] = "pdf" THEN GotPdf(p, p.held) ELSE png
  <2>4. PICK o \in PutOutcomes(cache, k, p.held) \cup Lost :
          /\ cache' = o.store
          /\ raced' = IF p.overlap /\ o.store # cache THEN raced \cup {p.name} ELSE raced
          /\ IF o.panic THEN Goto(h, Idle) ELSE Goto(h, Done)
          /\ UNCHANGED db
    BY <2>2 DEF Store, Finish
  <2>5. cache' \in {cache, [cache EXCEPT ![k] = p.held]}
    <3>1. CASE o \in PutOutcomes(cache, k, p.held)
      <4>1. cache \in [Keys -> Docs \cup {None}]
        BY DEF TypeOK
      <4>2. p.held \in Docs \cup {None}
        BY <2>1
      <4> HIDE DEF p
      <4>3. o.store \in {cache, [cache EXCEPT ![k] = p.held]}
        BY <2>3, <3>1, <4>1, <4>2, PutOutcomeStore
      <4> QED BY <2>4, <4>3
    <3>2. CASE o \in Lost
      BY <2>4, <3>2
    <3> QED BY <3>1, <3>2
  <2>6. /\ png.pc \in ReadPcs /\ png.name = p.name /\ png.overlap = p.overlap
        /\ png.held = None /\ png.bubbles = p.bubbles /\ png.page = p.held
    BY <2>1 DEF Proc, ReadPcs
  <2> HIDE DEF png
  <2>7. /\ Done.pc \in ReadPcs /\ Done.name = p.name /\ Done.overlap = p.overlap
        /\ Done.held \in {p.held, None} /\ Done.bubbles \in {p.held, p.bubbles}
        /\ Done.page \in {p.held, p.page}
    BY <2>1, <2>6, GotPdfFields
  <2>8. Fresh(Done)
    BY <2>1, <2>7 DEF Fresh
  <2> HIDE DEF Done
  <2>9. PICK q : /\ Goto(h, q)
                 /\ \/ q = Idle
                    \/ /\ q.pc \in ReadPcs /\ Fresh(q)
                       /\ q.name = p.name /\ q.overlap = p.overlap
    BY <2>4, <2>7, <2>8
  <2>10. raced' = IF p.overlap /\ cache' # cache THEN raced \cup {p.name} ELSE raced
    BY <2>4
  <2> QED BY <2>1, <2>4, <2>5, <2>9, <2>10, ReaderStores
<1>6. ASSUME NEW h \in Handlers, CheckOwner(h) PROVE CoherenceInv'
  <2>1. proc[h].pc = "check" /\ proc[h] \in Proc /\ UNCHANGED <<db, cache, raced>>
    BY <1>6, <1>t DEF CheckOwner, Good
  <2>2. \A u : [proc[h] EXCEPT !.pc = "update", !.older = u].pc = "update"
    BY <2>1 DEF Proc
  <2>3. Idle.pc = "idle"
    BY DEF Idle
  <2>4. \E q : Goto(h, q) /\ q.pc \in {"idle", "update"}
    BY <1>6, <2>2, <2>3 DEF CheckOwner, Finish
  <2> QED BY <2>1, <2>4, SaverMoves
<1>7. ASSUME NEW h \in Handlers, Update(h) PROVE CoherenceInv'
  <2>1. CASE Finish(h) /\ UNCHANGED <<db, raced, blind>>
    BY <1>7, <2>1, SaverMoves DEF Update, Finish, Idle
  <2>2. CASE \/ WriteRow(h, "invalPdf", Names \ {proc[h].name})
             \/ WriteRow(h, "idle", Names)
    BY <1>7, <2>2, RowWritten DEF Update
  <2> QED BY <1>7, <2>1, <2>2 DEF Update
<1>8. ASSUME NEW h \in Savers, NEW n \in Names, NEW u \in Users, NEW d \in Docs,
             BeginSave(h, n, u, d)
      PROVE  CoherenceInv'
  <2>1. proc[h].pc = "idle" /\ h \in Handlers
    BY <1>8 DEF BeginSave, Idle, Handlers
  <2>2. [Idle EXCEPT !.pc = "check", !.kind = "save", !.name = n,
                     !.user = u, !.doc = d].pc = "check"
    BY DEF Idle
  <2> QED BY <1>8, <2>1, <2>2, SaverMoves DEF BeginSave
<1>9. ASSUME NEW i \in Ids, NEW u \in Users, NEW d \in Docs, Create(i, u, d)
      PROVE  CoherenceInv'
  <2>1. UNCHANGED <<cache, proc, raced>>
    BY <1>9 DEF Create
  <2>2. \A m \in Names : DocOf(m) \in {None, DocOf(m)'}
    BY <1>9 DEF Create, DocOf, TypeOK
  <2>3. OverlapMarked' /\ PdfGone'
    BY <2>1 DEF CoherenceInv, OverlapMarked, PdfGone
  <2>4. CoherentUnlessRaced'
    BY <2>1, <2>2 DEF CoherenceInv, CoherentUnlessRaced
  <2>5. ReadsFresh'
    <3> SUFFICES ASSUME NEW g \in Handlers, proc[g].pc \in ReadPcs PROVE Fresh(proc[g])'
      BY <2>1 DEF ReadsFresh, Fresh
    <3>1. proc[g].name \in Names
      BY <1>t, BusyName DEF ReadPcs
    <3> QED BY <2>1, <2>2, <3>1 DEF CoherenceInv, ReadsFresh, Fresh
  <2> QED BY <2>3, <2>4, <2>5 DEF CoherenceInv
<1>10. CASE Crash
  <2>1. \A h \in Handlers : proc'[h].pc = "idle"
    BY <1>10 DEF Crash, Idle
  <2>2. \A n \in Names : cache'[PdfKey(n)] = None /\ cache'[PngKey(n)] = None
    BY <1>10, KeysDiffer DEF Crash
  <2>3. OverlapMarked' /\ PdfGone'
    BY <2>1 DEF OverlapMarked, PdfGone, ReadPcs
  <2>4. CoherentUnlessRaced'
    BY <2>2 DEF CoherentUnlessRaced
  <2>5. ReadsFresh'
    BY <2>1 DEF ReadsFresh, Fresh, ReadPcs
  <2> QED BY <2>3, <2>4, <2>5 DEF CoherenceInv
<1>11. CASE UNCHANGED vars
  BY <1>11 DEF vars, CoherenceInv, OverlapMarked, CoherentUnlessRaced, ReadsFresh,
               Fresh, PdfGone, DocOf
<1>12. ASSUME NEW h \in Handlers, InvalPdf(h) \/ InvalPng(h) PROVE CoherenceInv'
  BY <1>12, Invalidates
<1>13. ASSUME NEW h \in Readers, NEW kind \in ReadKinds, NEW n \in Names,
              NEW redraw \in BOOLEAN, BeginRead(h, kind, n, redraw)
       PROVE  CoherenceInv'
  BY <1>13, ReadBegins DEF Handlers
<1> QED
  BY <1>1, <1>2, <1>3, <1>4, <1>5, <1>6, <1>7, <1>8, <1>9, <1>10, <1>11, <1>12, <1>13
  DEF Next, Step

(* The types and the strengthened coherence are invariant.                 *)
LEMMA CoherenceInductive == Spec => [](TypeOK /\ CoherenceInv)
<1>1. Init => TypeOK
  BY IdleGood DEF Init, TypeOK, Good
<1>2. Init => CoherenceInv
  <2> SUFFICES ASSUME Init PROVE CoherenceInv
    OBVIOUS
  <2>1. \A h \in Handlers : proc[h].pc = "idle"
    BY DEF Init, Idle
  <2>2. \A n \in Names : cache[PdfKey(n)] = None /\ cache[PngKey(n)] = None
    BY KeysDiffer DEF Init
  <2> QED BY <2>1, <2>2 DEF CoherenceInv, OverlapMarked, CoherentUnlessRaced, ReadsFresh,
                            Fresh, PdfGone, ReadPcs
<1> QED BY <1>1, <1>2, TypeStep, CoherenceStep, PTL DEF Spec

(* The cache holds renderings of the database's content, except while the  *)
(* save's own invalidation is on its way, and except under raced names:    *)
(* those where a read stored what it drew after overlapping a save, where  *)
(* a save was made under another spelling or its answer lost while         *)
(* something was cached, or where an Invalidate was lost to another call   *)
(* of the cache (main.go:362-369, 427-477).                                *)
THEOREM Coherence == Spec => []CoherentUnlessRaced
<1>1. CoherenceInv => CoherentUnlessRaced
  BY DEF CoherenceInv
<1> QED BY <1>1, CoherenceInductive, PTL

(* A read that met no save, under a name that is not raced, serves the     *)
(* database's content, and pairs the bubbles and the page image of one     *)
(* content (main.go:427-477).  It says nothing of reads under a raced      *)
(* name, which can be stale or mixed without meeting a save.               *)
THEOREM Freshness == Spec => []ReadsFresh
<1>1. CoherenceInv => ReadsFresh
  BY DEF CoherenceInv
<1> QED BY <1>1, CoherenceInductive, PTL

-----------------------------------------------------------------------------
(* The two action properties of Studio: an election keeps its owner, and a *)
(* save that met nobody leaves nothing cached.                             *)

(* No row changes its owner in this step but by a blind save.              *)
KeepsOwners ==
  \A i \in Ids : db[i] # None /\ i \notin blind' =>
     db'[i] # None /\ db'[i].owner = db[i].owner

(* Steps that leave the table and the save handlers at "update" alone.     *)
LEMMA OwnersUntouched ==
  ASSUME TypeOK, OwnerChecked, UNCHANGED <<db, blind>>,
         \A s \in Handlers : proc'[s].pc = "update" =>
            /\ proc[s].pc = "update" /\ proc'[s].name = proc[s].name
            /\ proc'[s].older = proc[s].older /\ proc'[s].user = proc[s].user
  PROVE  OwnerChecked' /\ KeepsOwners
<1>1. OwnerChecked'
  BY DEF OwnerChecked
<1>2. KeepsOwners
  BY DEF KeepsOwners
<1> QED BY <1>1, <1>2

(* The same for a step in which one handler goes elsewhere than "update".  *)
LEMMA OwnersGoto ==
  ASSUME TypeOK, OwnerChecked, UNCHANGED <<db, blind>>,
         NEW h \in Handlers, NEW q, Goto(h, q), q.pc # "update"
  PROVE  OwnerChecked' /\ KeepsOwners
<1>1. \A g \in Handlers : proc'[g] = IF g = h THEN q ELSE proc[g]
  BY DEF Goto, TypeOK
<1> QED BY <1>1, OwnersUntouched

(* A read changes no owner and no checked save.                            *)
LEMMA OwnersRead ==
  ASSUME TypeOK, OwnerChecked, NEW h \in Handlers,
         \/ PdfGet(h) \/ PdfRead(h) \/ PdfDraw(h) \/ PdfPut(h)
         \/ PngGet(h) \/ Raster(h) \/ PngPut(h) \/ Reply(h)
  PROVE  OwnerChecked' /\ KeepsOwners
<1> DEFINE p == proc[h]
<1>1. p \in Proc /\ p.pc \in ReadPcs /\ UNCHANGED <<db, blind>>
  BY DEF TypeOK, ReadPcs, PdfGet, PdfRead, PdfDraw, PdfPut, PngGet, Raster, PngPut,
         Reply, Store
<1>2. \A c \in ReadPcs \cup {"idle"} : c # "update"
  BY DEF ReadPcs
<1>3. Finish(h) => \E q : Goto(h, q) /\ q.pc # "update"
  BY DEF Finish, Idle
<1>4. \A d : Goto(h, GotPdf(p, d)) => \E q : Goto(h, q) /\ q.pc # "update"
  BY <1>1, <1>2, GotPdfFields
<1>5. \A c \in ReadPcs : \A d :
        /\ [p EXCEPT !.pc = c].pc # "update"
        /\ [p EXCEPT !.pc = c, !.held = d].pc # "update"
        /\ [p EXCEPT !.pc = c, !.page = d].pc # "update"
  BY <1>1, <1>2 DEF Proc
<1>6. \E q : Goto(h, q) /\ q.pc # "update"
  <2>1. CASE PdfGet(h)
    BY <1>3, <1>4, <1>5, <2>1 DEF PdfGet, ReadPcs
  <2>2. CASE PdfRead(h) \/ PdfDraw(h) \/ Raster(h) \/ Reply(h)
    BY <1>3, <1>5, <2>2 DEF PdfRead, PdfDraw, Raster, Reply, ReadPcs
  <2>3. CASE PdfPut(h) \/ PngPut(h)
    <3>1. PICK k : Store(h, k)
      BY <2>3 DEF PdfPut, PngPut
    <3>2. \/ Finish(h)
          \/ Goto(h, GotPdf(p, p.held))
          \/ Goto(h, [p EXCEPT !.pc = "reply", !.held = None, !.page = p.held])
      BY <3>1 DEF Store
    <3>3. [p EXCEPT !.pc = "reply", !.held = None, !.page = p.held].pc # "update"
      BY <1>1 DEF Proc
    <3> QED BY <1>3, <1>4, <3>2, <3>3
  <2>4. CASE PngGet(h)
    BY <1>3, <1>5, <2>4 DEF PngGet, ReadPcs
  <2> QED BY <2>1, <2>2, <2>3, <2>4
<1> QED BY <1>1, <1>6, OwnersGoto

(* The write of the row keeps the owner, or the row becomes blind.         *)
LEMMA OwnersWrite ==
  ASSUME TypeOK, OwnerChecked, NEW h \in Handlers, proc[h].pc = "update",
         NEW next \in {"idle", "invalPdf"}, NEW ns, WriteRow(h, next, ns)
  PROVE  OwnerChecked' /\ KeepsOwners
<1> DEFINE p == proc[h]
           i == IdOf[p.name]
<1>0. /\ p \in Proc /\ p.name \in Names /\ i \in Ids
      /\ p.user \in Users /\ p.doc \in Docs
  BY TypeOKGood, BusyName, IdOfAssumption DEF Good, Filled, Proc, SavePcs
<1>1. /\ db' = [db EXCEPT ![i] = IF @ = None THEN None ELSE [owner |-> p.user, doc |-> p.doc]]
      /\ blind' = IF p.older = None /\ db[i] # None THEN blind \cup {i} ELSE blind
  BY DEF WriteRow
<1>2. [owner |-> p.user, doc |-> p.doc] # None
  BY <1>0, NoneAssumption DEF Row
<1>3. \A j \in Ids : j # i => db'[j] = db[j]
  BY <1>1 DEF TypeOK
<1>4. db[i] # None => db'[i] # None /\ db'[i].owner = p.user
  BY <1>0, <1>1, <1>2 DEF TypeOK
<1>5. i \notin blind' /\ db[i] # None => p.user = db[i].owner
  BY <1>1 DEF OwnerChecked
<1>6. KeepsOwners
  BY <1>3, <1>4, <1>5 DEF KeepsOwners
<1>7. \A s \in Handlers : proc'[s].pc = "update" =>
         /\ proc[s].pc = "update" /\ proc'[s].name = proc[s].name
         /\ proc'[s].older = proc[s].older /\ proc'[s].user = proc[s].user
  <2> SUFFICES ASSUME NEW s \in Handlers, proc'[s].pc = "update"
      PROVE  /\ proc[s].pc = "update" /\ proc'[s].name = proc[s].name
             /\ proc'[s].older = proc[s].older /\ proc'[s].user = proc[s].user
    OBVIOUS
  <2>1. s # h
    BY <1>0 DEF WriteRow, Idle, Proc
  <2>2. proc'[s] = [proc[s] EXCEPT !.overlap = @ \/ Reading(s, i)] /\ proc[s] \in Proc
    BY <2>1 DEF WriteRow, TypeOK
  <2> QED BY <2>2 DEF Proc
<1>8. OwnerChecked'
  <2> SUFFICES ASSUME NEW s \in Handlers, proc'[s].pc = "update", proc'[s].older # None,
                      IdOf[proc'[s].name] \notin blind'
               PROVE  LET j == IdOf[proc'[s].name]
                      IN  db'[j] # None /\ db'[j].owner = proc'[s].older
                            /\ proc'[s].older = proc'[s].user
    BY DEF OwnerChecked
  <2>1. IdOf[proc[s].name] \notin blind /\ IdOf[proc[s].name] \in Ids
    BY <1>1, <1>7, TypeOKGood, BusyName, IdOfAssumption
  <2> QED BY <1>6, <1>7, <2>1 DEF OwnerChecked, KeepsOwners
<1> QED BY <1>6, <1>8

(* Every step keeps what a save has checked, and every owner.              *)
LEMMA OwnerStep == TypeOK /\ OwnerChecked /\ [Next]_vars => OwnerChecked' /\ KeepsOwners
<1> SUFFICES ASSUME TypeOK, OwnerChecked, [Next]_vars PROVE OwnerChecked' /\ KeepsOwners
  OBVIOUS
<1>1. ASSUME NEW h \in Handlers, CheckOwner(h) PROVE OwnerChecked' /\ KeepsOwners
  <2> DEFINE p == proc[h]
             q(u) == [p EXCEPT !.pc = "update", !.older = u]
  <2>1. p \in Proc /\ UNCHANGED <<db, blind>>
    BY <1>1 DEF CheckOwner, TypeOK
  <2>2. CASE Finish(h)
    BY <2>1, <2>2, OwnersGoto DEF Finish, Idle
  <2>3. ASSUME NEW u, Goto(h, q(u)),
               u # None => db[IdOf[p.name]] # None /\ db[IdOf[p.name]].owner = u /\ u = p.user
        PROVE  OwnerChecked' /\ KeepsOwners
    <3>1. q(u).name = p.name /\ q(u).older = u /\ q(u).user = p.user
      BY <2>1 DEF Proc
    <3>2. \A g \in Handlers : proc'[g] = IF g = h THEN q(u) ELSE proc[g]
      BY <2>3 DEF Goto, TypeOK
    <3> HIDE DEF q
    <3>3. OwnerChecked'
      BY <2>1, <2>3, <3>1, <3>2 DEF OwnerChecked
    <3>4. KeepsOwners
      BY <2>1 DEF KeepsOwners
    <3> QED BY <3>3, <3>4
  <2> QED BY <1>1, <2>2, <2>3 DEF CheckOwner
<1>2. ASSUME NEW h \in Handlers, Update(h) PROVE OwnerChecked' /\ KeepsOwners
  <2>1. CASE Finish(h) /\ UNCHANGED <<db, raced, blind>>
    BY <2>1, OwnersGoto DEF Finish, Idle
  <2>2. ASSUME NEW next \in {"idle", "invalPdf"}, NEW ns, WriteRow(h, next, ns)
        PROVE  OwnerChecked' /\ KeepsOwners
    BY <1>2, <2>2, OwnersWrite DEF Update
  <2> QED BY <1>2, <2>1, <2>2 DEF Update
<1>3. ASSUME NEW h \in Handlers, InvalPdf(h) \/ InvalPng(h) PROVE OwnerChecked' /\ KeepsOwners
  <2>1. proc[h] \in Proc /\ UNCHANGED <<db, blind>>
    BY <1>3 DEF InvalPdf, InvalPng, TypeOK
  <2>2. \A c : /\ [proc[h] EXCEPT !.pc = "invalPng"].pc # "update"
               /\ [proc[h] EXCEPT !.pc = "invalPng", !.overlap = c].pc # "update"
    BY <2>1 DEF Proc
  <2>3. \E q : Goto(h, q) /\ q.pc # "update"
    <3>1. CASE InvalPdf(h)
      BY <2>2, <3>1 DEF InvalPdf
    <3>2. CASE InvalPng(h)
      BY <3>2 DEF InvalPng, Finish, Idle
    <3> QED BY <1>3, <3>1, <3>2
  <2> QED BY <2>1, <2>3, OwnersGoto
<1>4. ASSUME NEW h \in Readers, NEW kind \in ReadKinds, NEW n \in Names,
             NEW redraw \in BOOLEAN, BeginRead(h, kind, n, redraw)
      PROVE  OwnerChecked' /\ KeepsOwners
  <2>1. \A s \in Handlers : proc'[s].pc = "update" =>
          /\ proc[s].pc = "update" /\ proc'[s].name = proc[s].name
          /\ proc'[s].older = proc[s].older /\ proc'[s].user = proc[s].user
    <3> SUFFICES ASSUME NEW s \in Handlers, proc'[s].pc = "update"
        PROVE  /\ proc[s].pc = "update" /\ proc'[s].name = proc[s].name
               /\ proc'[s].older = proc[s].older /\ proc'[s].user = proc[s].user
      OBVIOUS
    <3>1. s # h
      BY <1>4 DEF BeginRead, Idle
    <3>2. proc'[s] = [proc[s] EXCEPT !.overlap = @ \/ Pending(s, IdOf[n])] /\ proc[s] \in Proc
      BY <1>4, <3>1 DEF BeginRead, TypeOK
    <3> QED BY <3>2 DEF Proc
  <2> QED BY <1>4, <2>1, OwnersUntouched DEF BeginRead
<1>5. ASSUME NEW h \in Savers, NEW n \in Names, NEW u \in Users, NEW d \in Docs,
             BeginSave(h, n, u, d)
      PROVE  OwnerChecked' /\ KeepsOwners
  BY <1>5, OwnersGoto DEF BeginSave, Idle, Handlers
<1>6. ASSUME NEW i \in Ids, NEW u \in Users, NEW d \in Docs, Create(i, u, d)
      PROVE  OwnerChecked' /\ KeepsOwners
  <2>1. \A j \in Ids : db[j] # None => db'[j] = db[j]
    BY <1>6 DEF Create, TypeOK
  <2>2. UNCHANGED <<proc, blind>>
    BY <1>6 DEF Create
  <2>3. \A s \in Handlers : proc[s].pc = "update" => IdOf[proc[s].name] \in Ids
    BY TypeOKGood, BusyName, IdOfAssumption
  <2>4. OwnerChecked'
    BY <2>1, <2>2, <2>3 DEF OwnerChecked
  <2>5. KeepsOwners
    BY <2>1 DEF KeepsOwners
  <2> QED BY <2>4, <2>5
<1>7. CASE Crash
  <2>1. \A s \in Handlers : proc'[s].pc # "update"
    BY <1>7 DEF Crash, Idle
  <2> QED BY <1>7, <2>1, OwnersUntouched DEF Crash
<1>8. CASE UNCHANGED vars
  BY <1>8, OwnersUntouched DEF vars
<1> QED BY <1>1, <1>2, <1>3, <1>4, <1>5, <1>6, <1>7, <1>8, OwnersRead DEF Next, Step

(* The owner of an election changes only after a save wrote it whose       *)
(* ownership check had seen no row.                                        *)
THEOREM OwnersKept == Spec => OwnerKept
<1>1. Init => TypeOK /\ OwnerChecked
  <2>1. Init => TypeOK
    BY IdleGood DEF Init, TypeOK, Good
  <2>2. Init => OwnerChecked
    BY DEF Init, OwnerChecked, Idle
  <2> QED BY <2>1, <2>2
<1>2. TypeOK /\ OwnerChecked /\ [Next]_vars => (TypeOK /\ OwnerChecked)'
  BY TypeStep, OwnerStep
<1>3. TypeOK /\ OwnerChecked /\ [Next]_vars => KeepsOwners
  BY OwnerStep
<1> QED BY <1>1, <1>2, <1>3, PTL DEF Spec, OwnerKept, KeepsOwners

(* A save that met no read and no other cache call ends with nothing       *)
(* cached under its name.                                                  *)
THEOREM Healing == Spec => SaveHeals
<1> DEFINE Heals == \A h \in Handlers :
              InvalPng(h) /\ ~proc[h].overlap /\ ~Racing(h)
                => /\ cache'[PdfKey(proc[h].name)] = None
                   /\ cache'[PngKey(proc[h].name)] = None
<1>1. TypeOK /\ CoherenceInv => Heals
  <2> SUFFICES ASSUME TypeOK, CoherenceInv, NEW h \in Handlers,
                      InvalPng(h), ~proc[h].overlap, ~Racing(h)
               PROVE  /\ cache'[PdfKey(proc[h].name)] = None
                      /\ cache'[PngKey(proc[h].name)] = None
    OBVIOUS
  <2>1. proc[h].name \in Names /\ cache[PdfKey(proc[h].name)] = None
    BY TypeOKGood, BusyName DEF InvalPng, CoherenceInv, PdfGone
  <2>2. cache' = [cache EXCEPT ![PngKey(proc[h].name)] = None]
    BY DEF InvalPng, Invalidated
  <2> QED BY <2>1, <2>2, KeysDiffer DEF TypeOK
<1> QED BY <1>1, CoherenceInductive, PTL DEF SaveHeals
=============================================================================
