-------------------------- MODULE FlaskCacheProofs --------------------------
(***************************************************************************)
(* Theorems about the election handlers and their cache, for any number of *)
(* threads, elections and reports and any TTL.                             *)
(*                                                                         *)
(* StaleBounded is not inductive: what it says of an entry depends on the  *)
(* request that will set it or write its row.  The invariant adds what     *)
(* each request relies on while no other has interfered (Fresh).           *)
(***************************************************************************)
EXTENDS FlaskCache, TLAPS

USE TimeAssumption, AbsentAssumption
USE DEF At, Goto, Finish, cacheVars

(* What a request carries at each step.                                    *)
Shape(r) ==
  /\ r.pc \in CachePcs \cup {"read", "put"} => r.id \in Ids
  /\ r.pc \in CachePcs \cup {"put", "insert"} /\ r.kind # "item" => r.doc \in Docs
  /\ r.pc = "read" => r.kind = "get"
  /\ r.pc \in {"mcGet", "makeGet", "get"} => r.kind \in {"get", "item"}
  /\ r.pc \in {"mcSet", "makeSet", "set"} => r.kind \notin {"none", "item"}
  /\ r.pc = "put" => r.kind = "save"
  /\ r.pc = "insert" => r.kind = "new"
  /\ r.pc \in {"get", "set"} => r.ref \in Threads

(* What a request relies on while no other has interfered: the drawing it  *)
(* will set is the row's, or the row it will write is the cache's.         *)
Fresh(r) ==
  ~r.overlap =>
    /\ r.kind \in {"get", "new"} /\ r.pc \in CachePcs => r.doc = rows[r.id]
    /\ r.pc = "put" /\ cur # None /\ items[cur][r.id] # None => items[cur][r.id].doc = r.doc
    /\ r.pc = "set" /\ r.kind = "save" /\ cur # None /\ r.ref # cur => items[cur][r.id] = None

(* StaleBounded without the clock.                                         *)
Kept(k) ==
  cur # None /\ items[cur][k] # None =>
    \/ items[cur][k].doc = rows[k]
    \/ \E t \in Threads : Saving(t, k)
    \/ raceAt[k] # None /\ items[cur][k].expires <= raceAt[k] + TTL

Typed == TypeOK /\ \A t \in Threads : Shape(req[t])

CacheInv ==
  /\ Typed
  /\ \A t \in Threads, k \in Ids : items[t][k] # None => items[t][k].expires <= now + TTL
  /\ \A t \in Threads : Fresh(req[t])
  /\ \A k \in Ids : Kept(k)

(* The invariant holds at the start.                                       *)
LEMMA CacheInit == Init => CacheInv
<1> SUFFICES ASSUME Init PROVE CacheInv
  OBVIOUS
<1>1. TypeOK
  BY DEF Init, TypeOK, Empty, Req, Idle, Pcs
<1>2. \A t \in Threads : Shape(req[t]) /\ Fresh(req[t])
  BY DEF Init, Shape, Fresh, Idle, CachePcs
<1> QED BY <1>1, <1>2 DEF Init, CacheInv, Typed, Kept, Empty

(* An idle request is a request.                                           *)
LEMMA IdleTyped == Idle \in Req /\ Shape(Idle) /\ Idle.pc = "idle"
BY DEF Idle, Req, Pcs, Shape, CachePcs

(* A request that goes on stays a request.                                 *)
LEMMA GoesOn ==
  ASSUME NEW q \in Req, NEW pc \in Pcs, NEW k \in Ids, NEW d \in Docs,
         NEW c \in Threads \cup {None}, NEW b \in BOOLEAN
  PROVE  /\ [q EXCEPT !.pc = pc] \in Req
         /\ [q EXCEPT !.pc = pc, !.id = k] \in Req
         /\ [q EXCEPT !.pc = pc, !.doc = d] \in Req
         /\ [q EXCEPT !.ref = c, !.pc = pc] \in Req
         /\ [q EXCEPT !.overlap = b] \in Req
BY DEF Req

(* The thread that steps, and the others.                                  *)
LEMMA Moves ==
  ASSUME Typed, NEW t \in Threads, NEW r \in Req, Shape(r), Goto(t, r)
  PROVE  /\ req' \in [Threads -> Req]
         /\ \A u \in Threads : Shape(req'[u])
         /\ \A u \in Threads : u # t => req'[u] = req[u]
         /\ req'[t] = r
BY DEF Typed, TypeOK

(* A step that only moves thread t on, outside a save, keeps the invariant *)
(* when its request becomes one that may rely on what it carries.          *)
LEMMA Quiet ==
  ASSUME CacheInv, NEW t \in Threads, NEW r \in Req, Shape(r), Goto(t, r), Fresh(r),
         \A k \in Ids : ~Saving(t, k),
         UNCHANGED <<now, rows, cacheVars, raceAt>>
  PROVE  CacheInv'
<1>1. /\ req' \in [Threads -> Req] /\ \A u \in Threads : Shape(req'[u])
      /\ \A u \in Threads : u # t => req'[u] = req[u]
      /\ req'[t] = r
  BY Moves DEF CacheInv
<1>2. Typed'
  BY <1>1 DEF CacheInv, Typed, TypeOK
<1>3. \A u \in Threads : Fresh(req[u])'
  BY <1>1 DEF CacheInv, Fresh
<1>4. \A k \in Ids : Kept(k)'
  BY <1>1 DEF CacheInv, Kept, Saving
<1>5. \A u \in Threads, k \in Ids : items'[u][k] # None => items'[u][k].expires <= now' + TTL
  BY DEF CacheInv
<1> QED BY <1>2, <1>3, <1>4, <1>5 DEF CacheInv

(* Begin, Fail before a save's write, ReadRow, UseCache and GetEntry.      *)
LEMMA QuietSteps ==
  ASSUME CacheInv, NEW t \in Threads,
         Begin(t) \/ (Fail(t) /\ ~At(t, "put")) \/ ReadRow(t) \/ UseCache(t) \/ GetEntry(t)
  PROVE  CacheInv'
<1>t. /\ req[t] \in Req /\ Shape(req[t]) /\ Fresh(req[t])
      /\ rows \in [Ids -> Docs \cup {None}] /\ cur \in Threads \cup {None}
  BY DEF CacheInv, Typed, TypeOK
<1>i. Idle \in Req /\ Shape(Idle) /\ Fresh(Idle)
  BY IdleTyped DEF Fresh, CachePcs
<1>1. CASE Begin(t)
  <2>0. \A k \in Ids : ~Saving(t, k)
    BY <1>1 DEF Begin, Saving
  <2>1. ASSUME NEW k \in Ids,
               Goto(t, [Idle EXCEPT !.pc = "read", !.kind = "get", !.id = k])
        PROVE  CacheInv'
    <3> DEFINE r == [Idle EXCEPT !.pc = "read", !.kind = "get", !.id = k]
    <3>1. r \in Req /\ Shape(r) /\ Fresh(r)
      BY DEF Idle, Req, Pcs, Shape, Fresh, CachePcs
    <3> QED BY <1>1, <2>0, <2>1, <3>1, Quiet DEF Begin
  <2>2. ASSUME NEW k \in Ids, NEW d \in Docs, NEW kind \in {"save", "draw"},
               Goto(t, [Idle EXCEPT !.pc = "mcSet", !.kind = kind, !.id = k, !.doc = d])
        PROVE  CacheInv'
    <3> DEFINE r == [Idle EXCEPT !.pc = "mcSet", !.kind = kind, !.id = k, !.doc = d]
    <3>1. r \in Req /\ Shape(r) /\ Fresh(r)
      BY DEF Idle, Req, Pcs, Shape, Fresh, CachePcs
    <3> QED BY <1>1, <2>0, <2>2, <3>1, Quiet DEF Begin
  <2>3. ASSUME NEW d \in Docs,
               Goto(t, [Idle EXCEPT !.pc = "insert", !.kind = "new", !.doc = d])
        PROVE  CacheInv'
    <3> DEFINE r == [Idle EXCEPT !.pc = "insert", !.kind = "new", !.doc = d]
    <3>1. r \in Req /\ Shape(r) /\ Fresh(r)
      BY DEF Idle, Req, Pcs, Shape, Fresh, CachePcs
    <3> QED BY <1>1, <2>0, <2>3, <3>1, Quiet DEF Begin
  <2>4. ASSUME NEW k \in Ids,
               Goto(t, [Idle EXCEPT !.pc = "mcGet", !.kind = "item", !.id = k])
        PROVE  CacheInv'
    <3> DEFINE r == [Idle EXCEPT !.pc = "mcGet", !.kind = "item", !.id = k]
    <3>1. r \in Req /\ Shape(r) /\ Fresh(r)
      BY DEF Idle, Req, Pcs, Shape, Fresh, CachePcs
    <3> QED BY <1>1, <2>0, <2>4, <3>1, Quiet DEF Begin
  <2> QED BY <1>1, <2>1, <2>2, <2>3, <2>4 DEF Begin
<1>2. CASE Fail(t) /\ ~At(t, "put")
  BY <1>2, <1>i, Quiet DEF Fail, Saving
<1>3. CASE ReadRow(t)
  <2>0. req[t].id \in Ids /\ req[t].kind = "get"
    BY <1>t, <1>3 DEF ReadRow, Shape
  <2>1. CASE Finish(t)
    BY <1>3, <1>i, <2>1, Quiet DEF ReadRow, Saving
  <2>2. CASE rows[req[t].id] # None
    <3> DEFINE r == [req[t] EXCEPT !.pc = "mcGet", !.doc = rows[req[t].id]]
    <3>1. r \in Req /\ Shape(r) /\ Fresh(r)
      BY <1>t, <2>0, <2>2 DEF Req, Pcs, CachePcs, Shape, Fresh
    <3>2. CASE Goto(t, r)
      BY <1>3, <3>1, <3>2, Quiet DEF ReadRow, Saving
    <3> QED BY <1>3, <2>1, <3>2 DEF ReadRow
  <2> QED BY <1>3, <2>1, <2>2 DEF ReadRow
<1>4. CASE UseCache(t)
  <2>1. PICK pc \in {"makeGet", "get", "makeSet", "set"} :
          /\ Goto(t, [req[t] EXCEPT !.ref = cur, !.pc = pc])
          /\ pc \in {"makeGet", "get"} <=> At(t, "mcGet")
          /\ pc \in {"get", "set"} => cur # None
    BY <1>4 DEF UseCache
  <2> DEFINE r == [req[t] EXCEPT !.ref = cur, !.pc = pc]
  <2>2. r \in Req /\ Shape(r) /\ Fresh(r)
    BY <1>t, <1>4, <2>1 DEF UseCache, Req, Pcs, CachePcs, Shape, Fresh
  <2> QED BY <1>4, <2>1, <2>2, Quiet DEF UseCache, Saving
<1>5. CASE GetEntry(t)
  <2> DEFINE r == [req[t] EXCEPT !.pc = "mcSet"]
  <2>1. req[t].kind # "item" => r \in Req /\ Shape(r) /\ Fresh(r)
    BY <1>t, <1>5 DEF GetEntry, Req, Pcs, CachePcs, Shape, Fresh
  <2>2. (req[t].kind # "item" /\ Goto(t, r)) \/ Goto(t, Idle)
    BY <1>5 DEF GetEntry
  <2> QED BY <1>5, <1>i, <2>1, <2>2, Quiet DEF GetEntry, Saving
<1> QED BY <1>1, <1>2, <1>3, <1>4, <1>5

(* A save that fails at its write has set its entry.                       *)
LEMMA FailedSave ==
  ASSUME CacheInv, NEW t \in Threads, Fail(t), At(t, "put")
  PROVE  CacheInv'
<1>1. req[t] \in Req /\ req[t].id \in Ids /\ now \in 0 .. MaxTime
      /\ raceAt \in [Ids -> 0 .. MaxTime \cup {None}]
  BY DEF CacheInv, Typed, TypeOK, Shape
<1>2. /\ req' \in [Threads -> Req] /\ \A u \in Threads : Shape(req'[u])
      /\ \A u \in Threads : u # t => req'[u] = req[u]
      /\ req'[t] = Idle
  BY IdleTyped, Moves DEF CacheInv, Fail
<1>3. raceAt' = [raceAt EXCEPT ![req[t].id] = now]
  BY DEF Fail
<1>4. Typed'
  BY <1>1, <1>2, <1>3 DEF CacheInv, Typed, TypeOK, Fail
<1>5. \A u \in Threads : Fresh(req[u])'
  BY <1>2 DEF CacheInv, Fresh, Fail, Idle, CachePcs
<1>6. ASSUME NEW k \in Ids PROVE Kept(k)'
  <2>1. CASE k = req[t].id
    BY <1>1, <1>3, <2>1 DEF CacheInv, Typed, TypeOK, Kept, Fail
  <2>2. CASE k # req[t].id
    BY <1>1, <1>2, <1>3, <2>2 DEF CacheInv, Kept, Saving, Fail
  <2> QED BY <2>1, <2>2
<1>7. \A u \in Threads, k \in Ids : items'[u][k] # None => items'[u][k].expires <= now' + TTL
  BY DEF CacheInv, Fail
<1> QED BY <1>4, <1>5, <1>6, <1>7 DEF CacheInv

(* Every request that met the write of row k has its overlap noted.        *)
LEMMA Written ==
  ASSUME CacheInv, NEW t \in Threads, NEW k \in Ids, NEW d \in Docs, NEW r \in Req, Shape(r),
         WriteRow(t, r, k, d), UNCHANGED <<now, cacheVars>>,
         raceAt' \in [Ids -> 0 .. MaxTime \cup {None}]
  PROVE  /\ Typed' /\ req'[t] = r
         /\ rows'[k] = d /\ \A j \in Ids : j # k => rows'[j] = rows[j]
         /\ \A u \in Threads : u # t => Fresh(req[u])'
         /\ \A u \in Threads : u # t => \A j \in Ids : Saving(u, j)' <=> Saving(u, j)
<1>1. rows \in [Ids -> Docs \cup {None}] /\ \A u \in Threads : req[u] \in Req /\ Shape(req[u])
  BY DEF CacheInv, Typed, TypeOK
<1>2. rows'[k] = d /\ \A j \in Ids : j # k => rows'[j] = rows[j]
  BY <1>1 DEF WriteRow
<1>3. req'[t] = r
  BY DEF WriteRow
<1>4. ASSUME NEW u \in Threads, u # t
      PROVE  /\ req'[u] = [req[u] EXCEPT !.overlap = @ \/ Filling(u, k)]
             /\ req'[u] \in Req
  <2>1. req'[u] = [req[u] EXCEPT !.overlap = @ \/ Filling(u, k)]
    BY <1>4 DEF WriteRow
  <2>2. (req[u].overlap \/ Filling(u, k)) \in BOOLEAN
    OBVIOUS
  <2> QED BY <1>1, <2>1, <2>2 DEF Req
<1>5. ASSUME NEW u \in Threads, u # t
      PROVE  /\ req'[u].pc = req[u].pc /\ req'[u].kind = req[u].kind /\ req'[u].id = req[u].id
             /\ req'[u].doc = req[u].doc /\ req'[u].ref = req[u].ref
             /\ ~req'[u].overlap => ~req[u].overlap /\ ~Filling(u, k)
  <2>1. req[u] \in Req /\ req'[u] = [req[u] EXCEPT !.overlap = @ \/ Filling(u, k)]
    BY <1>1, <1>4, <1>5
  <2>2. req'[u].overlap = (req[u].overlap \/ Filling(u, k))
    BY <2>1 DEF Req
  <2>3. /\ req'[u].pc = req[u].pc /\ req'[u].kind = req[u].kind /\ req'[u].id = req[u].id
        /\ req'[u].doc = req[u].doc /\ req'[u].ref = req[u].ref
    BY <2>1 DEF Req
  <2> QED BY <2>2, <2>3
<1>6. Typed'
  <2>1. \A u \in Threads : req'[u] \in Req /\ Shape(req'[u])
    <3>1. ASSUME NEW u \in Threads, u # t PROVE Shape(req'[u])
      BY <1>1, <1>5, <3>1 DEF Shape
    <3> QED BY <1>3, <1>4, <3>1
  <2>2. req' \in [Threads -> Req]
    BY <2>1 DEF WriteRow
  <2> QED BY <2>1, <2>2 DEF CacheInv, Typed, TypeOK, WriteRow
<1>7. ASSUME NEW u \in Threads, u # t PROVE Fresh(req[u])'
  <2>1. Fresh(req[u]) /\ (req[u].pc \in CachePcs => req[u].id \in Ids)
    BY <1>1 DEF CacheInv, Shape
  <2> QED BY <1>2, <1>5, <1>7, <2>1 DEF Fresh, Filling
<1>8. \A u \in Threads : u # t => \A j \in Ids : Saving(u, j)' <=> Saving(u, j)
  BY <1>5 DEF Saving
<1> QED BY <1>2, <1>3, <1>6, <1>7, <1>8

(* A save writes its row: either the cache agrees, or another request      *)
(* interfered.                                                             *)
LEMMA Saved ==
  ASSUME CacheInv, NEW t \in Threads, PutSaved(t)
  PROVE  CacheInv'
<1> DEFINE k == req[t].id
           d == req[t].doc
<1>1. /\ k \in Ids /\ d \in Docs /\ now \in 0 .. MaxTime /\ Fresh(req[t]) /\ req[t].pc = "put"
      /\ raceAt \in [Ids -> 0 .. MaxTime \cup {None}] /\ cur \in Threads \cup {None}
  BY DEF CacheInv, Typed, TypeOK, Shape, PutSaved
<1>2. raceAt' = (IF req[t].overlap THEN [raceAt EXCEPT ![k] = now] ELSE raceAt)
  BY DEF PutSaved
<1>3. /\ Typed' /\ req'[t] = Idle
      /\ rows'[k] = d /\ \A j \in Ids : j # k => rows'[j] = rows[j]
      /\ \A u \in Threads : u # t => Fresh(req[u])'
      /\ \A u \in Threads : u # t => \A j \in Ids : Saving(u, j)' <=> Saving(u, j)
  BY <1>1, <1>2, IdleTyped, Written DEF PutSaved
<1>4. \A u \in Threads : Fresh(req[u])'
  BY <1>3 DEF Fresh, Idle, CachePcs
<1>5. ASSUME NEW j \in Ids PROVE Kept(j)'
  <2>1. CASE j # k
    <3>1. ~Saving(t, j)
      BY <2>1 DEF Saving
    <3>2. raceAt'[j] = raceAt[j]
      BY <1>1, <1>2, <2>1
    <3> QED BY <1>3, <2>1, <3>1, <3>2 DEF CacheInv, Kept, PutSaved
  <2>2. CASE j = k /\ req[t].overlap
    BY <1>1, <1>2, <2>2 DEF CacheInv, Kept, PutSaved
  <2>3. CASE j = k /\ ~req[t].overlap
    BY <1>1, <1>3, <2>3 DEF Fresh, Kept, PutSaved
  <2> QED BY <2>1, <2>2, <2>3
<1>6. \A u \in Threads, j \in Ids : items'[u][j] # None => items'[u][j].expires <= now' + TTL
  BY DEF CacheInv, PutSaved
<1> QED BY <1>3, <1>4, <1>5, <1>6 DEF CacheInv

(* A new election takes a row that has no drawing that agrees with it.     *)
LEMMA Inserted ==
  ASSUME CacheInv, NEW t \in Threads, NEW k \in Ids, InsertNew(t, k)
  PROVE  CacheInv'
<1> DEFINE r == [req[t] EXCEPT !.pc = "mcSet", !.id = k]
<1>1. /\ req[t] \in Req /\ Shape(req[t]) /\ req[t].pc = "insert"
      /\ raceAt \in [Ids -> 0 .. MaxTime \cup {None}]
      /\ items \in [Threads -> [Ids -> Entry \cup {None}]] /\ cur \in Threads \cup {None}
  BY DEF CacheInv, Typed, TypeOK, InsertNew
<1>2. /\ req[t].doc \in Docs /\ req[t].kind = "new"
      /\ r \in Req /\ Shape(r) /\ r.pc = "mcSet" /\ r.id = k /\ r.doc = req[t].doc
  BY <1>1 DEF Req, Pcs, CachePcs, Shape
<1>3. WriteRow(t, r, k, req[t].doc)
  BY DEF InsertNew
<1>4. /\ Typed' /\ req'[t] = r
      /\ rows'[k] = req[t].doc /\ \A j \in Ids : j # k => rows'[j] = rows[j]
      /\ \A u \in Threads : u # t => Fresh(req[u])'
      /\ \A u \in Threads : u # t => \A j \in Ids : Saving(u, j)' <=> Saving(u, j)
  BY <1>1, <1>2, <1>3, Written DEF InsertNew
<1>5. \A u \in Threads : Fresh(req[u])'
  BY <1>2, <1>4 DEF Fresh
<1>6. ASSUME NEW j \in Ids PROVE Kept(j)'
  <2>1. ~Saving(t, j)
    BY <1>1 DEF Saving
  <2>2. cur # None /\ items[cur][j] # None => items[cur][j].doc # None
    BY <1>1 DEF Entry
  <2>3. rows[k] = None
    BY DEF InsertNew
  <2> QED BY <1>4, <2>1, <2>2, <2>3 DEF CacheInv, Kept, InsertNew
<1>7. \A u \in Threads, j \in Ids : items'[u][j] # None => items'[u][j].expires <= now' + TTL
  BY DEF CacheInv, InsertNew
<1> QED BY <1>4, <1>5, <1>6, <1>7 DEF CacheInv

(* Cache.set: a save is not yet written, a get or a new election sets what *)
(* the row holds, or another request interfered.                           *)
LEMMA Entered ==
  ASSUME CacheInv, NEW t \in Threads, SetEntry(t)
  PROVE  CacheInv'
<1> DEFINE k == req[t].id
           c == req[t].ref
           e == [doc |-> req[t].doc, expires |-> Expiry]
           r == [req[t] EXCEPT !.pc = "put", !.ref = None]
<1>1. /\ req[t] \in Req /\ Shape(req[t]) /\ Fresh(req[t]) /\ req[t].pc = "set"
      /\ now \in 0 .. MaxTime /\ cur \in Threads \cup {None}
      /\ items \in [Threads -> [Ids -> Entry \cup {None}]]
      /\ raceAt \in [Ids -> 0 .. MaxTime \cup {None}]
      /\ \A u \in Threads : req[u] \in Req /\ Shape(req[u]) /\ Fresh(req[u])
  BY DEF CacheInv, Typed, TypeOK, SetEntry
<1>2. k \in Ids /\ c \in Threads /\ req[t].doc \in Docs /\ e \in Entry /\ e # None
  BY <1>1 DEF Shape, CachePcs, Entry, Expiry
<1>3. /\ items' = [items EXCEPT ![c][k] = e] /\ UNCHANGED <<now, rows, cur>>
      /\ raceAt' = (IF Blurs(req[t]) THEN [raceAt EXCEPT ![k] = now] ELSE raceAt)
  BY DEF SetEntry
<1>4. /\ items' \in [Threads -> [Ids -> Entry \cup {None}]]
      /\ items'[c][k] = e
      /\ \A u \in Threads, j \in Ids : u # c \/ j # k => items'[u][j] = items[u][j]
  BY <1>1, <1>2, <1>3
<1>5. req'[t] = (IF req[t].kind = "save" THEN r ELSE Idle)
  BY DEF SetEntry
<1>6. r \in Req /\ r.pc = "put" /\ r.id = k /\ r.doc = req[t].doc /\ r.kind = req[t].kind
      /\ r.overlap = req[t].overlap
  BY <1>1 DEF Req, Pcs
<1>7. ASSUME NEW u \in Threads, u # t
      PROVE  /\ req'[u] \in Req
             /\ req'[u].pc = req[u].pc /\ req'[u].kind = req[u].kind /\ req'[u].id = req[u].id
             /\ req'[u].doc = req[u].doc /\ req'[u].ref = req[u].ref
             /\ req'[u].overlap = (req[u].overlap \/ Saving(u, k))
  <2>1. req'[u] = [req[u] EXCEPT !.overlap = @ \/ Saving(u, k)]
    BY <1>7 DEF SetEntry
  <2>2. (req[u].overlap \/ Saving(u, k)) \in BOOLEAN
    OBVIOUS
  <2>3. /\ req'[u] \in Req
        /\ req'[u].pc = req[u].pc /\ req'[u].kind = req[u].kind /\ req'[u].id = req[u].id
        /\ req'[u].doc = req[u].doc /\ req'[u].ref = req[u].ref
    BY <1>1, <2>1, <2>2 DEF Req
  <2>4. req'[u].overlap = (req[u].overlap \/ Saving(u, k))
    BY <1>1, <2>1, <2>2 DEF Req
  <2> QED BY <2>3, <2>4
<1>8. Typed'
  <2>1. req'[t] \in Req /\ Shape(req'[t])
    BY <1>1, <1>2, <1>5, <1>6, IdleTyped DEF Shape, CachePcs
  <2>2. \A u \in Threads : u # t => Shape(req'[u])
    <3>1. ASSUME NEW u \in Threads, u # t PROVE Shape(req'[u])
      BY <1>1, <1>7, <3>1 DEF Shape
    <3> QED BY <3>1
  <2>3. req' \in [Threads -> Req]
    BY <1>7, <2>1 DEF SetEntry
  <2>4. raceAt' \in [Ids -> 0 .. MaxTime \cup {None}]
    BY <1>1, <1>3
  <2> QED BY <1>3, <1>4, <2>1, <2>2, <2>3, <2>4 DEF CacheInv, Typed, TypeOK
<1>9. Fresh(req[t])'
  <2>1. CASE req[t].kind = "save"
    <3>1. c # cur /\ ~req[t].overlap /\ cur # None => items'[cur][k] = None
      BY <1>1, <1>2, <1>4, <2>1 DEF Fresh
    <3> QED BY <1>2, <1>3, <1>4, <1>5, <1>6, <2>1, <3>1 DEF Fresh, CachePcs
  <2>2. CASE req[t].kind # "save"
    BY <1>5, <2>2 DEF Fresh, Idle, CachePcs
  <2> QED BY <2>1, <2>2
<1>10. ASSUME NEW u \in Threads, u # t PROVE Fresh(req[u])'
  <2>1. req[u].pc \in {"put", "set"} => req[u].id \in Ids
    BY <1>1 DEF Shape, CachePcs
  <2>2. CASE req'[u].overlap
    BY <2>2 DEF Fresh
  <2>3. CASE ~req'[u].overlap
    <3>1. ~req[u].overlap /\ ~Saving(u, k)
      BY <1>7, <1>10, <2>3
    <3>2. req[u].pc = "put" => req[u].kind = "save"
      BY <1>1 DEF Shape
    <3>3. /\ req[u].pc = "put" => req[u].id # k
          /\ req[u].pc = "set" /\ req[u].kind = "save" => req[u].id # k
      BY <3>1, <3>2 DEF Saving
    <3>4. /\ req[u].pc = "put" /\ cur # None => items'[cur][req[u].id] = items[cur][req[u].id]
          /\ req[u].pc = "set" /\ req[u].kind = "save" /\ cur # None =>
               items'[cur][req[u].id] = items[cur][req[u].id]
      BY <1>1, <1>4, <2>1, <3>3
    <3> QED BY <1>1, <1>3, <1>7, <1>10, <3>1, <3>4 DEF Fresh
  <2> QED BY <2>2, <2>3
<1>11. ASSUME NEW j \in Ids PROVE Kept(j)'
  <2>1. \A u \in Threads : Saving(u, j) => Saving(u, j)'
    BY <1>5, <1>6, <1>7 DEF Saving
  <2>2. CASE cur = c /\ j = k
    <3>1. CASE req[t].kind = "save"
      BY <1>5, <1>6, <2>2, <3>1 DEF Kept, Saving
    <3>2. CASE Blurs(req[t])
      BY <1>1, <1>2, <1>3, <1>4, <2>2, <3>2 DEF Kept, Expiry
    <3>3. CASE req[t].kind # "save" /\ ~Blurs(req[t])
      <4>1. req[t].kind \in {"get", "new"} /\ ~req[t].overlap
        BY <1>1, <3>3 DEF Req, Shape, Blurs
      <4> QED BY <1>1, <1>3, <1>4, <2>2, <3>3, <4>1 DEF Kept, Fresh, CachePcs
    <3> QED BY <3>1, <3>2, <3>3
  <2>3. CASE cur # c \/ j # k
    <3>1. cur # None => items'[cur][j] = items[cur][j]
      BY <1>1, <1>4, <2>3
    <3>2. raceAt'[j] = raceAt[j] \/ raceAt'[j] = now
      BY <1>1, <1>3
    <3>3. cur # None /\ items[cur][j] # None => items[cur][j].expires <= now + TTL
      BY <1>1 DEF CacheInv
    <3> QED BY <1>1, <1>3, <2>1, <3>1, <3>2, <3>3 DEF CacheInv, Kept
  <2> QED BY <2>2, <2>3
<1>12. ASSUME NEW u \in Threads, NEW j \in Ids, items'[u][j] # None
       PROVE  items'[u][j].expires <= now' + TTL
  BY <1>1, <1>2, <1>3, <1>4, <1>12 DEF CacheInv, Expiry
<1> QED BY <1>8, <1>9, <1>10, <1>11, <1>12 DEF CacheInv

(* A new Cache object has no entries.                                      *)
LEMMA Made ==
  ASSUME CacheInv, NEW t \in Threads, MakeCache(t)
  PROVE  CacheInv'
<1>1. PICK pc \in {"mcGet", "mcSet"} :
        Goto(t, [req[t] EXCEPT !.pc = pc]) /\ (pc = "mcGet" <=> At(t, "makeGet"))
  BY DEF MakeCache
<1> DEFINE r == [req[t] EXCEPT !.pc = pc]
<1>2. /\ req[t] \in Req /\ Shape(req[t]) /\ Fresh(req[t]) /\ req[t].pc \in {"makeGet", "makeSet"}
      /\ items \in [Threads -> [Ids -> Entry \cup {None}]]
  BY DEF CacheInv, Typed, TypeOK, MakeCache
<1>3. /\ r \in Req /\ Shape(r) /\ r.pc = pc /\ r.kind = req[t].kind /\ r.doc = req[t].doc
      /\ r.id = req[t].id /\ r.overlap = req[t].overlap
  BY <1>1, <1>2 DEF Req, Pcs, Shape, CachePcs
<1>4. /\ req' \in [Threads -> Req] /\ \A u \in Threads : Shape(req'[u])
      /\ \A u \in Threads : u # t => req'[u] = req[u]
      /\ req'[t] = r
  BY <1>1, <1>3, Moves DEF CacheInv
<1>5. /\ cur' = t /\ items'[t] = Empty /\ \A u \in Threads : u # t => items'[u] = items[u]
      /\ items' \in [Threads -> [Ids -> Entry \cup {None}]]
      /\ UNCHANGED <<now, rows, raceAt>>
  BY <1>2 DEF MakeCache, Empty
<1>6. Typed'
  BY <1>4, <1>5 DEF CacheInv, Typed, TypeOK
<1>7. ASSUME NEW u \in Threads PROVE Fresh(req[u])'
  <2>1. req'[u].pc \in CachePcs \cup {"put"} => req'[u].id \in Ids
    BY <1>4 DEF Shape
  <2>2. /\ req'[u].doc = req[u].doc /\ req'[u].id = req[u].id /\ req'[u].kind = req[u].kind
        /\ req'[u].overlap = req[u].overlap
        /\ req'[u].pc \in CachePcs => req[u].pc \in CachePcs
    BY <1>2, <1>3, <1>4 DEF CachePcs
  <2> QED BY <1>5, <2>1, <2>2 DEF CacheInv, Fresh, Empty, CachePcs
<1>8. \A k \in Ids : Kept(k)'
  BY <1>5 DEF Kept, Empty
<1>9. \A u \in Threads, k \in Ids : items'[u][k] # None => items'[u][k].expires <= now' + TTL
  BY <1>5 DEF CacheInv, Empty
<1> QED BY <1>6, <1>7, <1>8, <1>9 DEF CacheInv

(* A Cache object loses entries that have expired.                         *)
LEMMA Collected ==
  ASSUME CacheInv, NEW t \in Threads, Collect(t)
  PROVE  CacheInv'
<1>1. items \in [Threads -> [Ids -> Entry \cup {None}]] /\ cur \in Threads \cup {None}
  BY DEF CacheInv, Typed, TypeOK
<1>2. /\ items' \in [Threads -> [Ids -> Entry \cup {None}]]
      /\ \A u \in Threads, k \in Ids : items'[u][k] = None \/ items'[u][k] = items[u][k]
      /\ UNCHANGED <<now, rows, cur, req, raceAt>>
  BY <1>1 DEF Collect
<1>3. Typed'
  BY <1>2 DEF CacheInv, Typed, TypeOK
<1>4. ASSUME NEW u \in Threads PROVE Fresh(req[u])'
  <2>1. Fresh(req[u]) /\ (req[u].pc \in {"put", "set"} => req[u].id \in Ids)
    BY DEF CacheInv, Typed, Shape, CachePcs
  <2> QED BY <1>1, <1>2, <2>1 DEF Fresh
<1>5. \A k \in Ids : Kept(k)'
  BY <1>1, <1>2 DEF CacheInv, Kept, Saving
<1>6. \A u \in Threads, k \in Ids : items'[u][k] # None => items'[u][k].expires <= now' + TTL
  BY <1>2 DEF CacheInv
<1> QED BY <1>3, <1>4, <1>5, <1>6 DEF CacheInv

(* Every step keeps the invariant.                                         *)
LEMMA CacheStep == CacheInv /\ [Next]_vars => CacheInv'
<1> SUFFICES ASSUME CacheInv, [Next]_vars PROVE CacheInv'
  OBVIOUS
<1>t. TypeOK
  BY DEF CacheInv, Typed
<1>1. CASE UNCHANGED vars
  BY <1>1 DEF vars, CacheInv, Typed, TypeOK, Fresh, Kept, Saving
<1>2. CASE Tick
  <2>1. now' = now + 1 /\ now' \in 0 .. MaxTime /\ UNCHANGED <<rows, cacheVars, req, raceAt>>
    BY <1>2, <1>t DEF Tick, TypeOK
  <2>2. Typed'
    BY <2>1 DEF CacheInv, Typed, TypeOK
  <2>3. ASSUME NEW u \in Threads, NEW k \in Ids, items'[u][k] # None
        PROVE  items'[u][k].expires <= now' + TTL
    <3>1. items[u][k] \in Entry /\ items[u][k].expires <= now + TTL
      BY <1>t, <2>1, <2>3 DEF CacheInv, TypeOK
    <3>2. items[u][k].expires \in Nat
      BY <3>1 DEF Entry
    <3> QED BY <1>t, <2>1, <3>1, <3>2 DEF TypeOK
  <2> QED BY <2>1, <2>2, <2>3 DEF CacheInv, Fresh, Kept, Saving
<1>3. CASE Crash
  <2>1. \A u \in Threads : req'[u] = Idle /\ items'[u] = Empty
    BY <1>3 DEF Crash
  <2>2. Typed'
    BY <1>3, <1>t, <2>1, IdleTyped DEF Crash, Typed, TypeOK, Empty
  <2> QED BY <1>3, <2>1, <2>2 DEF Crash, CacheInv, Fresh, Idle, CachePcs, Kept, Empty
<1>4. ASSUME NEW t \in Threads, Begin(t) \/ Handle(t) \/ Fail(t) \/ Collect(t) PROVE CacheInv'
  BY <1>4, QuietSteps, FailedSave, Saved, Inserted, Entered, Made, Collected DEF Handle
<1> QED BY <1>1, <1>2, <1>3, <1>4 DEF Next

(* The invariant holds throughout.                                         *)
LEMMA CacheInductive == Spec => []CacheInv
BY CacheInit, CacheStep, PTL DEF Spec

(* Every variable keeps its type.                                          *)
THEOREM CacheTypes == Spec => []TypeOK
<1>1. CacheInv => TypeOK
  BY DEF CacheInv, Typed
<1> QED BY <1>1, CacheInductive, PTL

(* A drawing that differs from the stored report is served no longer than  *)
(* TTL after two requests on the election interfered, a save failed after  *)
(* its set, or /draw set the entry, for any number of requests of all      *)
(* kinds (app.py:246-251, 297-303 and 315-330).                            *)
THEOREM StaleIsBounded == Spec => []StaleBounded
<1>1. CacheInv => StaleBounded
  BY DEF CacheInv, Kept, StaleBounded, Live
<1> QED BY <1>1, CacheInductive, PTL
=============================================================================
