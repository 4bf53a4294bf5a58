----------------------------- MODULE FlaskCache -----------------------------
(***************************************************************************)
(* The election handlers of the Flask application                          *)
(* (python/ballotstudio/app.py) over its table and its cache of drawn      *)
(* ballots (cache.py), which the first request to call mc() makes.  Flask  *)
(* serves every request on a thread; a step is a statement of sqlite, one  *)
(* look at the global _cache, or one call of a Cache, which has a lock.    *)
(* What db() does is in FlaskSetUp: here it succeeds or fails with the     *)
(* statement it precedes.                                                  *)
(*                                                                         *)
(* /draw keeps its drawings in the same Cache, under the key its client    *)
(* gives, which may be that of an election; /item looks a key up.  Entries *)
(* under other keys, such as those /draw makes from the time, meet no      *)
(* request on an election and are left out: what such a request does to    *)
(* the Cache objects is what /item does.                                   *)
(*                                                                         *)
(* A report is a member of Docs and stands for the ballot drawn from it.   *)
(* Several Cache objects can have been made, and a thread uses the one     *)
(* that mc() gave it: they are named by the thread that made them.         *)
(***************************************************************************)
EXTENDS Naturals

CONSTANTS Threads,
          Ids,      \* ROWIDs of elections
          Docs,     \* reports
          TTL,      \* time=3600
          MaxTime,  \* bound on the clock
          None

ASSUME TimeAssumption == TTL \in Nat /\ MaxTime \in Nat
ASSUME AbsentAssumption ==
  /\ None \notin Docs \cup Ids \cup Threads \cup Nat
  /\ None \notin [doc : Docs, expires : Nat]

VARIABLES now,
          rows,    \* elections: id -> report or None
          cur,     \* the global _cache: the thread that made it, or None
          items,   \* Cache.items of every Cache object
          req,     \* what each thread is doing
          raceAt   \* history: when an election's requests last interfered,
                   \* or /draw set its entry

vars == <<now, rows, cur, items, req, raceAt>>

Entry    == [doc : Docs, expires : 0 .. MaxTime + TTL]
CachePcs == {"mcGet", "makeGet", "get", "mcSet", "makeSet", "set"}
Pcs      == {"idle", "read", "put", "insert"} \cup CachePcs

(* overlap: history, another request interfered (below).                   *)
Req == [pc : Pcs, kind : {"none", "get", "save", "new", "draw", "item"}, id : Ids \cup {None},
        doc : Docs \cup {None}, ref : Threads \cup {None}, overlap : BOOLEAN]

Idle == [pc |-> "idle", kind |-> "none", id |-> None, doc |-> None, ref |-> None,
         overlap |-> FALSE]

Empty == [k \in Ids |-> None]

Init ==
  /\ now = 0
  /\ rows = Empty
  /\ cur = None /\ items = [t \in Threads |-> Empty]
  /\ req = [t \in Threads |-> Idle]
  /\ raceAt = [k \in Ids |-> None]

-----------------------------------------------------------------------------
At(t, pc)  == req[t].pc = pc
Goto(t, r) == req' = [req EXCEPT ![t] = r]
Finish(t)  == Goto(t, Idle)

cacheVars == <<cur, items>>

(* Windows in which another request on election k interferes: a get from   *)
(* its SELECT, and a new election from its INSERT, to the set of the       *)
(* entry, by a write of the row; a save from the moment it has a cache to  *)
(* its write of the row, by a set.                                         *)
Filling(u, k) == req[u].kind \in {"get", "new"} /\ req[u].pc \in CachePcs /\ req[u].id = k
Saving(u, k)  == req[u].kind = "save" /\ req[u].pc \in {"set", "put"} /\ req[u].id = k

(* The PDF, the image, the bubbles or the document of an election; POST    *)
(* /election/k, which draws the ballot and turns to the cache; and POST    *)
(* /election, which draws it and turns to the table; /draw of any report   *)
(* with the key of an election; /item.  A report that cannot be drawn      *)
(* changes nothing.                                                        *)
Begin(t) ==
  /\ At(t, "idle")
  /\ \/ \E k \in Ids : Goto(t, [Idle EXCEPT !.pc = "read", !.kind = "get", !.id = k])
     \/ \E k \in Ids, d \in Docs, kind \in {"save", "draw"} :
          Goto(t, [Idle EXCEPT !.pc = "mcSet", !.kind = kind, !.id = k, !.doc = d])
     \/ \E d \in Docs : Goto(t, [Idle EXCEPT !.pc = "insert", !.kind = "new", !.doc = d])
     \/ \E k \in Ids : Goto(t, [Idle EXCEPT !.pc = "mcGet", !.kind = "item", !.id = k])
  /\ UNCHANGED <<now, rows, cacheVars, raceAt>>

(* An exception ends the request: the file, db(), or a report that cannot  *)
(* be drawn.  A save that fails has set its entry.                         *)
Fail(t) ==
  /\ req[t].pc \in {"read", "put", "insert", "get"}
  /\ Finish(t)
  /\ raceAt' = IF At(t, "put") THEN [raceAt EXCEPT ![req[t].id] = now] ELSE raceAt
  /\ UNCHANGED <<now, rows, cacheVars>>

(* SELECT data.  A document, or a 404, is the answer; a drawing goes on.   *)
ReadRow(t) ==
  LET er == rows[req[t].id] IN
  /\ At(t, "read")
  /\ \/ Finish(t)
     \/ er # None /\ Goto(t, [req[t] EXCEPT !.pc = "mcGet", !.doc = er])
  /\ UNCHANGED <<now, rows, cacheVars, raceAt>>

(* The thread's request becomes r, and every get and every new election    *)
(* that has still to set its entry meets the write of row k.               *)
WriteRow(t, r, k, d) ==
  /\ rows' = [rows EXCEPT ![k] = d]
  /\ req' = [u \in Threads |->
       IF u = t THEN r ELSE [req[u] EXCEPT !.overlap = @ \/ Filling(u, k)]]

(* INSERT OR REPLACE, and the answer.                                      *)
PutSaved(t) ==
  LET r == req[t] IN
  /\ At(t, "put")
  /\ WriteRow(t, Idle, r.id, r.doc)
  /\ raceAt' = IF r.overlap THEN [raceAt EXCEPT ![r.id] = now] ELSE raceAt
  /\ UNCHANGED <<now, cacheVars>>

(* INSERT under a ROWID that no row has.                                   *)
InsertNew(t, k) ==
  /\ At(t, "insert")
  /\ rows[k] = None
  /\ WriteRow(t, [req[t] EXCEPT !.pc = "mcSet", !.id = k], k, req[t].doc)
  /\ UNCHANGED <<now, cacheVars, raceAt>>

-----------------------------------------------------------------------------
(* mc() looks at _cache.  A thread that finds none makes one, stores it    *)
(* over what another thread may have stored meanwhile, and looks again.    *)
UseCache(t) ==
  /\ req[t].pc \in {"mcGet", "mcSet"}
  /\ Goto(t, [req[t] EXCEPT
       !.ref = cur,
       !.pc = IF At(t, "mcGet") THEN IF cur = None THEN "makeGet" ELSE "get"
              ELSE IF cur = None THEN "makeSet" ELSE "set"])
  /\ UNCHANGED <<now, rows, cacheVars, raceAt>>

MakeCache(t) ==
  /\ req[t].pc \in {"makeGet", "makeSet"}
  /\ cur' = t
  /\ items' = [items EXCEPT ![t] = Empty]
  /\ Goto(t, [req[t] EXCEPT !.pc = IF At(t, "makeGet") THEN "mcGet" ELSE "mcSet"])
  /\ UNCHANGED <<now, rows, raceAt>>

Live(e) == e # None /\ e.expires > now

(* Cache.get: a live entry is the answer; /item answers 404 without one.   *)
GetEntry(t) ==
  LET r == req[t] IN
  /\ At(t, "get")
  /\ IF r.kind = "item" \/ Live(items[r.ref][r.id]) THEN Finish(t)
     ELSE Goto(t, [r EXCEPT !.pc = "mcSet"])
  /\ UNCHANGED <<now, rows, cacheVars, raceAt>>

(* Mutant: milliseconds.                                                   *)
ExpiryMillis == now + 1000 * (TTL + 1)

Expiry == now + TTL

(* The entry that request r sets may be of another report than the row's.  *)
Blurs(r) == r.kind = "draw" \/ (r.kind # "save" /\ r.overlap)

(* Mutant: the post handler leaves the cache to the next get.              *)
SetEntryGetsOnly(t) ==
  LET r == req[t] IN
  /\ At(t, "set")
  /\ items' = IF r.kind = "save" THEN items
              ELSE [items EXCEPT ![r.ref][r.id] = [doc |-> r.doc, expires |-> Expiry]]
  /\ Goto(t, IF r.kind = "save" THEN [r EXCEPT !.pc = "put"] ELSE Idle)
  /\ raceAt' = IF Blurs(r) THEN [raceAt EXCEPT ![r.id] = now] ELSE raceAt
  /\ UNCHANGED <<now, rows, cur>>

(* Cache.set, which every save of the election meets.  It ends a get, a    *)
(* new election and a /draw; a save turns to the table.                    *)
SetEntry(t) ==
  LET r == req[t] IN
  /\ At(t, "set")
  /\ items' = [items EXCEPT ![r.ref][r.id] = [doc |-> r.doc, expires |-> Expiry]]
  /\ req' = [u \in Threads |->
       IF u # t THEN [req[u] EXCEPT !.overlap = @ \/ Saving(u, r.id)]
       ELSE IF r.kind = "save" THEN [r EXCEPT !.pc = "put", !.ref = None] ELSE Idle]
  /\ raceAt' = IF Blurs(r) THEN [raceAt EXCEPT ![r.id] = now] ELSE raceAt
  /\ UNCHANGED <<now, rows, cur>>

(* A round of gcThread of one Cache object.                                *)
Collect(t) ==
  /\ items' = [items EXCEPT ![t] =
       [k \in Ids |-> IF @[k] # None /\ @[k].expires < now THEN None ELSE @[k]]]
  /\ UNCHANGED <<now, rows, cur, req, raceAt>>

-----------------------------------------------------------------------------
Tick ==
  /\ now < MaxTime
  /\ now' = now + 1
  /\ UNCHANGED <<rows, cacheVars, req, raceAt>>

(* The process dies and is started again: the table survives.              *)
Crash ==
  /\ req' = [t \in Threads |-> Idle]
  /\ cur' = None /\ items' = [t \in Threads |-> Empty]
  /\ UNCHANGED <<now, rows, raceAt>>

Handle(t) ==
  \/ ReadRow(t) \/ PutSaved(t) \/ (\E k \in Ids : InsertNew(t, k))
  \/ UseCache(t) \/ MakeCache(t) \/ GetEntry(t) \/ SetEntry(t)

Next ==
  \/ \E t \in Threads : Begin(t) \/ Handle(t) \/ Fail(t) \/ Collect(t)
  \/ Tick \/ Crash

Spec == Init /\ [][Next]_vars

-----------------------------------------------------------------------------
(* Properties.                                                             *)

TypeOK ==
  /\ now \in 0 .. MaxTime
  /\ rows \in [Ids -> Docs \cup {None}]
  /\ cur \in Threads \cup {None}
  /\ items \in [Threads -> [Ids -> Entry \cup {None}]]
  /\ req \in [Threads -> Req]
  /\ raceAt \in [Ids -> 0 .. MaxTime \cup {None}]

(* A drawing that differs from the stored report is served no longer than  *)
(* TTL after the last time that two requests on the election interfered, a *)
(* save of it failed after its set, or /draw set the entry, and while a    *)
(* save of it is under way (_bothob_core, app.py:315-330, against          *)
(* elections, app.py:297-303, and drawHandler, app.py:246-251).  Reading   *)
(* such a drawing never lets it live longer, and an overtaken request's    *)
(* Cache object never brings it back.                                      *)
StaleBounded ==
  \A k \in Ids :
    LET e == items[cur][k] IN
    cur # None /\ Live(e) =>
      \/ e.doc = rows[k]
      \/ \E t \in Threads : Saving(t, k)
      \/ raceAt[k] # None /\ e.expires <= raceAt[k] + TTL
=============================================================================
