----------------------------- MODULE FlaskSetUp -----------------------------
(***************************************************************************)
(* db() of the Flask application (python/ballotstudio/app.py): the first   *)
(* request that needs the sqlite file creates its tables or migrates them, *)
(* and adds the demo election.  Flask serves every request on a thread of  *)
(* its own with a connection of its own; a step here is one statement, or  *)
(* those that sqlite commits together.                                     *)
(***************************************************************************)
CONSTANTS Threads,
          Ids,     \* ROWIDs of elections
          DemoId,  \* 1, the row db() fills with the demo
          Docs,    \* reports
          Demo,    \* demorace.ElectionReport
          None

ASSUME DemoAssumption == DemoId \in Ids /\ Demo \in Docs
ASSUME AbsentAssumption == None \notin Docs \cup Ids

VARIABLES schema,   \* the elections table: "none", "old" (no column meta), "new"
          marked,   \* migration 1 is in the migrations table
          rows,     \* elections: id -> report or None
          req,      \* what each thread is doing
          cut,      \* history: set-up was cut short where it cannot be repeated
          misread   \* history: a SELECT of db() failed and was taken for no rows

vars == <<schema, marked, rows, req, cut, misread>>

(* done: migrations_done; altered: this call has run the ALTER TABLE; a    *)
(* request with an id stores doc after db(), the others only read.         *)
Pcs == {"idle", "migrations", "count", "create", "alter", "mark", "look", "demo", "put"}
Req == [pc : Pcs, id : Ids \cup {None}, doc : Docs \cup {None},
        done : BOOLEAN, altered : BOOLEAN]

Idle == [pc |-> "idle", id |-> None, doc |-> None, done |-> FALSE, altered |-> FALSE]

Empty  == [k \in Ids |-> None]
NoRows == rows = Empty

(* A new file, or one of an earlier version with its demo in row 1.        *)
Init ==
  /\ \/ schema = "none" /\ rows = Empty
     \/ schema = "old" /\ rows = [Empty EXCEPT ![DemoId] = Demo]
  /\ marked = FALSE
  /\ req = [t \in Threads |-> Idle]
  /\ cut = FALSE /\ misread = FALSE

-----------------------------------------------------------------------------
At(t, pc)  == req[t].pc = pc
Goto(t, r) == req' = [req EXCEPT ![t] = r]

history == <<cut, misread>>

(* Set-up cannot be repeated: the migration is marked and there is no row, *)
(* or the column was added and the migration is not marked.                *)
CutShort(t) == \/ req[t].pc \in {"look", "demo"} /\ NoRows
               \/ At(t, "mark") /\ req[t].altered /\ ~marked

(* An exception ends the request: no connection, a locked file, a table,   *)
(* column or key that exists already.                                      *)
Fail(t) ==
  /\ ~At(t, "idle")
  /\ Goto(t, Idle)
  /\ cut' = (cut \/ CutShort(t))
  /\ UNCHANGED <<schema, marked, rows, misread>>

(* A request that reads, and one that stores a report (putelection).       *)
Begin(t) ==
  /\ At(t, "idle")
  /\ \/ Goto(t, [Idle EXCEPT !.pc = "migrations"])
     \/ \E k \in Ids, d \in Docs : Goto(t, [Idle EXCEPT !.pc = "migrations", !.id = k, !.doc = d])
  /\ UNCHANGED <<schema, marked, rows, history>>

(* SELECT mid FROM migrations; any exception reads as none.                *)
ReadMigrations(t) ==
  /\ At(t, "migrations")
  /\ \/ Goto(t, [req[t] EXCEPT !.pc = "count", !.done = marked]) /\ UNCHANGED misread
     \/ Goto(t, [req[t] EXCEPT !.pc = "count"]) /\ misread' = TRUE
  /\ UNCHANGED <<schema, marked, rows, cut>>

(* SELECT COUNT( * ) FROM elections; any exception reads as zero.          *)
ReadCount(t) ==
  /\ At(t, "count")
  /\ \/ /\ Goto(t, [req[t] EXCEPT !.done = FALSE,
             !.pc = IF NoRows THEN "create" ELSE IF req[t].done THEN "look" ELSE "alter"])
        /\ UNCHANGED misread
     \/ /\ Goto(t, [req[t] EXCEPT !.pc = "create", !.done = FALSE])
        /\ misread' = TRUE
  /\ UNCHANGED <<schema, marked, rows, cut>>

(* Mutant: the table of the first version.                                 *)
CreateTablesOld(t) ==
  /\ At(t, "create")
  /\ schema' = IF schema = "none" THEN "old" ELSE schema
  /\ Goto(t, [req[t] EXCEPT !.pc = "mark"])
  /\ UNCHANGED <<marked, rows, history>>

(* current_schema, IF NOT EXISTS.                                          *)
CreateTables(t) ==
  /\ At(t, "create")
  /\ schema' = IF schema = "none" THEN "new" ELSE schema
  /\ Goto(t, [req[t] EXCEPT !.pc = "mark"])
  /\ UNCHANGED <<marked, rows, history>>

(* Mutant: the migration is run and not recorded.                          *)
AlterUnrecorded(t) ==
  /\ At(t, "alter")
  /\ schema = "old"
  /\ schema' = "new"
  /\ Goto(t, [req[t] EXCEPT !.pc = "look"])
  /\ UNCHANGED <<marked, rows, history>>

(* Migration 1, which sqlite commits at once; if the column is there, only *)
(* Fail is left.                                                           *)
Alter(t) ==
  /\ At(t, "alter")
  /\ schema = "old"
  /\ schema' = "new"
  /\ Goto(t, [req[t] EXCEPT !.pc = "mark", !.altered = TRUE])
  /\ UNCHANGED <<marked, rows, history>>

(* Mutant: INSERT OR IGNORE.                                               *)
MarkIgnored(t) ==
  /\ At(t, "mark")
  /\ marked' = TRUE
  /\ Goto(t, [req[t] EXCEPT !.pc = "look"])
  /\ UNCHANGED <<schema, rows, history>>

(* INSERT INTO migrations and conn.commit(); if the mark is there, only    *)
(* Fail is left.                                                           *)
Mark(t) ==
  /\ At(t, "mark")
  /\ ~marked
  /\ marked' = TRUE
  /\ Goto(t, [req[t] EXCEPT !.pc = "look", !.altered = FALSE])
  /\ UNCHANGED <<schema, rows, history>>

(* Mutant: a request that reads stores, too.                               *)
AfterDbStores(t) == [req[t] EXCEPT !.pc = "put"]

(* db() returns, to putelection or to a handler that reads.                *)
AfterDb(t) == IF req[t].id = None THEN Idle ELSE [req[t] EXCEPT !.pc = "put"]

(* _getelection(1)                                                         *)
LookForDemo(t) ==
  /\ At(t, "look")
  /\ Goto(t, IF rows[DemoId] = None THEN [req[t] EXCEPT !.pc = "demo"] ELSE AfterDb(t))
  /\ UNCHANGED <<schema, marked, rows, history>>

(* _putelection(demo, 1): INSERT OR REPLACE and a commit.                  *)
PutDemo(t) ==
  /\ At(t, "demo")
  /\ rows' = [rows EXCEPT ![DemoId] = Demo]
  /\ Goto(t, AfterDb(t))
  /\ UNCHANGED <<schema, marked, history>>

(* putelection of the request.                                             *)
Put(t) ==
  /\ At(t, "put")
  /\ rows' = [rows EXCEPT ![req[t].id] = req[t].doc]
  /\ Goto(t, Idle)
  /\ UNCHANGED <<schema, marked, history>>

(* The process dies and is started again: the file survives.               *)
Crash ==
  /\ req' = [t \in Threads |-> Idle]
  /\ cut' = (cut \/ \E t \in Threads : CutShort(t))
  /\ UNCHANGED <<schema, marked, rows, misread>>

SetUp(t) ==
  \/ ReadMigrations(t) \/ ReadCount(t) \/ CreateTables(t) \/ Alter(t) \/ Mark(t)
  \/ LookForDemo(t) \/ PutDemo(t)

Next == Crash \/ \E t \in Threads : Begin(t) \/ SetUp(t) \/ Put(t) \/ Fail(t)

Spec == Init /\ [][Next]_vars

-----------------------------------------------------------------------------
(* Properties.                                                             *)

(* A request has an id and a report, or neither.                           *)
Whole(r) == (r.id = None <=> r.doc = None) /\ (r.pc = "put" => r.id # None)

TypeOK ==
  /\ schema \in {"none", "old", "new"} /\ marked \in BOOLEAN
  /\ rows \in [Ids -> Docs \cup {None}]
  /\ req \in [Threads -> Req]
  /\ cut \in BOOLEAN /\ misread \in BOOLEAN
  /\ \A t \in Threads : Whole(req[t])

(* db() never puts the demo over a stored report, however many first       *)
(* requests run it at once (app.py:94-96).                                 *)
DemoKeepsOut == [][\A t \in Threads : PutDemo(t) => rows[DemoId] = None]_vars

(* The file stays one that db() accepts, whatever requests run at once,    *)
(* unless set-up was cut short where it cannot be repeated (app.py:77-96). *)
Unusable        == (marked /\ NoRows) \/ (schema = "new" /\ ~marked /\ ~NoRows)
UsableUnlessCut == Unusable => cut \/ \E t \in Threads : CutShort(t)

(* A migration that is recorded has been applied (app.py:77-92), unless    *)
(* db() took a failed SELECT for an empty table.                           *)
AppliedIfRecorded == marked /\ ~misread => schema = "new"
=============================================================================
