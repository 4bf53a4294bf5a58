-------------------------- MODULE FlaskSetUpProofs --------------------------
(***************************************************************************)
(* Theorems about db() for any number of threads, rows and reports.        *)
(*                                                                         *)
(* The inductive invariant follows a thread through db(): whoever is past  *)
(* the INSERT into migrations finds it marked, whoever is about to mark it *)
(* has the tables, and while there is no row at most one thread is past    *)
(* the INSERT, since sqlite lets only one of them insert the key.          *)
(***************************************************************************)
EXTENDS FlaskSetUp, TLAPS

USE DEF At, Goto, history

(* Past the INSERT into migrations.                                        *)
Past(t) == req[t].pc \in {"look", "demo", "put"}

Tables ==
  /\ schema = "none" => NoRows
  /\ schema = "old" => ~NoRows
  /\ marked => schema # "none"
  /\ \A t \in Threads :
       /\ At(t, "mark") => schema # "none" /\ (schema = "new" \/ misread)
       /\ At(t, "create") /\ schema = "old" => misread
       /\ req[t].done \/ Past(t) => marked

Alone ==
  /\ rows[DemoId] = None => NoRows
  /\ \A t \in Threads : At(t, "demo") => rows[DemoId] = None
  /\ NoRows => \A t, u \in Threads : Past(t) => ~At(t, "put") /\ (Past(u) => t = u)

SetUpInv == TypeOK /\ Tables /\ Alone /\ AppliedIfRecorded /\ UsableUnlessCut

(* The invariant holds in a new file and in one of the first version.      *)
LEMMA SetUpInit == Init => SetUpInv
<1> SUFFICES ASSUME Init PROVE SetUpInv
  OBVIOUS
<1> USE DemoAssumption, AbsentAssumption
<1>1. rows \in [Ids -> Docs \cup {None}] /\ (schema = "old" => ~NoRows)
      /\ (rows[DemoId] = None => NoRows)
  BY DEF Init, Empty, NoRows
<1>2. TypeOK
  BY <1>1 DEF Init, TypeOK, Req, Idle, Pcs, Whole
<1>3. Tables
  BY <1>1 DEF Init, Tables, Past, Idle, NoRows
<1>4. Alone
  BY <1>1 DEF Init, Alone, Past, Idle
<1>5. AppliedIfRecorded /\ UsableUnlessCut
  BY DEF Init, AppliedIfRecorded, UsableUnlessCut, Unusable
<1> QED BY <1>2, <1>3, <1>4, <1>5 DEF SetUpInv

(* The thread that steps, and the others.                                  *)
LEMMA SetUpMove ==
  ASSUME TypeOK, NEW t \in Threads, NEW r \in Req, Goto(t, r),
         Whole(r)
  PROVE  /\ req' \in [Threads -> Req]
         /\ \A u \in Threads : Whole(req'[u])
         /\ \A u \in Threads : u # t => req'[u] = req[u]
         /\ req'[t] = r
  BY DEF TypeOK

(* A request that goes on stays a request.                                 *)
LEMMA Onward ==
  ASSUME TypeOK, NEW t \in Threads, NEW pc \in Pcs, NEW b \in BOOLEAN
  PROVE  /\ [req[t] EXCEPT !.pc = pc] \in Req
         /\ [req[t] EXCEPT !.pc = pc, !.done = b] \in Req
         /\ [req[t] EXCEPT !.pc = pc, !.altered = b] \in Req
         /\ req[t] \in Req /\ Whole(req[t])
<1>1. req[t] \in Req /\ Whole(req[t])
  BY DEF TypeOK
<1> QED BY <1>1 DEF Req

(* db() returns to the end of the request or to its putelection.           *)
LEMMA Returns ==
  ASSUME TypeOK, NEW t \in Threads
  PROVE  /\ AfterDb(t) \in Req /\ Whole(AfterDb(t))
         /\ AfterDb(t).pc \in {"idle", "put"} /\ (AfterDb(t).done => req[t].done)
<1>1. req[t] \in Req /\ Whole(req[t])
  BY DEF TypeOK
<1>2. CASE req[t].id = None
  BY <1>2, AbsentAssumption DEF AfterDb, Idle, Req, Pcs, Whole
<1>3. CASE req[t].id # None
  <2>1. AfterDb(t) = [req[t] EXCEPT !.pc = "put"]
    BY <1>3 DEF AfterDb
  <2> QED BY <1>1, <1>3, <2>1 DEF Req, Pcs, Whole
<1> QED BY <1>2, <1>3

(* Every step keeps the invariant.                                         *)
LEMMA SetUpStep == SetUpInv /\ [Next]_vars => SetUpInv'
<1> SUFFICES ASSUME SetUpInv, [Next]_vars PROVE SetUpInv'
  OBVIOUS
<1> USE DemoAssumption, AbsentAssumption
<1>t. TypeOK /\ Tables /\ Alone /\ AppliedIfRecorded /\ UsableUnlessCut
  BY DEF SetUpInv
<1>0. CASE UNCHANGED vars
  BY <1>t, <1>0 DEF vars, SetUpInv, TypeOK, Whole, Tables, Past, NoRows, Alone, AppliedIfRecorded,
     UsableUnlessCut, Unusable, CutShort
<1>i. Idle \in Req
  BY DEF Idle, Req, Pcs
<1>1. ASSUME NEW t \in Threads, Fail(t) PROVE SetUpInv'
  <2>1. PICK r \in Req : Goto(t, r) /\ r = Idle
                     /\ Whole(r)
    BY <1>t, <1>i, <1>1 DEF Fail, Idle, TypeOK, Req, Pcs, Whole
  <2>2. /\ req' \in [Threads -> Req] /\ req'[t] = r
        /\ \A u \in Threads : u # t => req'[u] = req[u]
        /\ \A u \in Threads : Whole(req'[u])
    BY <1>t, <2>1, SetUpMove
  <2>3. TypeOK'
    BY <1>t, <1>1, <2>2 DEF Fail, TypeOK
  <2>4. Tables'
    BY <1>t, <1>1, <2>1, <2>2 DEF Fail, Idle, Tables, Past, NoRows, Empty, AppliedIfRecorded, Alone, TypeOK
  <2>5. Alone'
    BY <1>t, <1>1, <2>1, <2>2 DEF Fail, Idle, Tables, Past, NoRows, Empty, Alone, TypeOK
  <2>6. AppliedIfRecorded'
    BY <1>t, <1>1, <2>1, <2>2 DEF Fail, Idle, Tables, AppliedIfRecorded
  <2>7. UsableUnlessCut'
    BY <1>t, <1>1, <2>1, <2>2 DEF Fail, Idle, Tables, Past, NoRows, Alone, UsableUnlessCut, Unusable, CutShort
  <2> QED BY <2>3, <2>4, <2>5, <2>6, <2>7 DEF SetUpInv
<1>2. ASSUME NEW t \in Threads, Begin(t) PROVE SetUpInv'
  <2>r. /\ [Idle EXCEPT !.pc = "migrations"] \in Req
        /\ \A k \in Ids, d \in Docs : [Idle EXCEPT !.pc = "migrations", !.id = k, !.doc = d] \in Req
    BY DEF Idle, Req, Pcs
  <2>1. PICK r \in Req : Goto(t, r) /\ r.pc = "migrations" /\ ~r.done
                     /\ Whole(r)
    <3>1. CASE Goto(t, [Idle EXCEPT !.pc = "migrations"])
      BY <3>1, <2>r DEF Idle, Whole
    <3>2. CASE \E k \in Ids, d \in Docs : Goto(t, [Idle EXCEPT !.pc = "migrations", !.id = k, !.doc = d])
      BY <3>2, <2>r DEF Idle, Whole
    <3> QED BY <3>1, <3>2, <1>2 DEF Begin
  <2>2. /\ req' \in [Threads -> Req] /\ req'[t] = r
        /\ \A u \in Threads : u # t => req'[u] = req[u]
        /\ \A u \in Threads : Whole(req'[u])
    BY <1>t, <2>1, SetUpMove
  <2>3. TypeOK'
    BY <1>t, <1>2, <2>2 DEF Begin, TypeOK
  <2>4. Tables'
    BY <1>t, <1>2, <2>1, <2>2 DEF Begin, Idle, Tables, Past, NoRows, Empty, AppliedIfRecorded, Alone, TypeOK
  <2>5. Alone'
    BY <1>t, <1>2, <2>1, <2>2 DEF Begin, Idle, Tables, Past, NoRows, Empty, Alone, TypeOK
  <2>6. AppliedIfRecorded'
    BY <1>t, <1>2, <2>1, <2>2 DEF Begin, Idle, Tables, AppliedIfRecorded
  <2>7. UsableUnlessCut'
    BY <1>t, <1>2, <2>1, <2>2 DEF Begin, Idle, Tables, Past, NoRows, Alone, UsableUnlessCut, Unusable, CutShort
  <2> QED BY <2>3, <2>4, <2>5, <2>6, <2>7 DEF SetUpInv
<1>3. ASSUME NEW t \in Threads, ReadMigrations(t) PROVE SetUpInv'
  <2>r. [req[t] EXCEPT !.pc = "count"] \in Req /\ [req[t] EXCEPT !.pc = "count", !.done = marked] \in Req
    BY <1>t, Onward DEF Pcs, TypeOK
  <2>n. req[t] \in Req /\ Whole(req[t])
    BY <1>t DEF TypeOK
  <2>1. PICK r \in Req : Goto(t, r) /\ r.pc = "count" /\ (r.done => marked)
                     /\ Whole(r)
    BY <2>n, <1>t, <1>i, <2>r, <1>3 DEF ReadMigrations, Req, TypeOK, Tables, Whole
  <2>2. /\ req' \in [Threads -> Req] /\ req'[t] = r
        /\ \A u \in Threads : u # t => req'[u] = req[u]
        /\ \A u \in Threads : Whole(req'[u])
    BY <1>t, <2>1, SetUpMove
  <2>3. TypeOK'
    BY <1>t, <1>3, <2>2 DEF ReadMigrations, TypeOK
  <2>4. Tables'
    BY <1>t, <1>3, <2>1, <2>2 DEF ReadMigrations, Tables, Past, NoRows, Empty, AppliedIfRecorded, Alone, TypeOK
  <2>5. Alone'
    BY <1>t, <1>3, <2>1, <2>2 DEF ReadMigrations, Tables, Past, NoRows, Empty, Alone, TypeOK
  <2>6. AppliedIfRecorded'
    BY <1>t, <1>3, <2>1, <2>2 DEF ReadMigrations, Tables, AppliedIfRecorded
  <2>7. UsableUnlessCut'
    BY <1>t, <1>3, <2>1, <2>2 DEF ReadMigrations, Tables, Past, NoRows, Alone, UsableUnlessCut, Unusable, CutShort
  <2> QED BY <2>3, <2>4, <2>5, <2>6, <2>7 DEF SetUpInv
<1>4. ASSUME NEW t \in Threads, ReadCount(t) PROVE SetUpInv'
  <2>r. \A pc \in {"create", "look", "alter"} : [req[t] EXCEPT !.pc = pc, !.done = FALSE] \in Req
    BY <1>t, Onward DEF Pcs
  <2>n. req[t] \in Req /\ Whole(req[t])
    BY <1>t DEF TypeOK
  <2>1. PICK r \in Req : Goto(t, r) /\ ~r.done
                     /\ r.pc \in {"create", "look", "alter"}
                     /\ (r.pc = "create" => NoRows \/ misread')
                     /\ (r.pc = "look" => req[t].done /\ ~NoRows)
                     /\ Whole(r)
    <3>1. CASE Goto(t, [req[t] EXCEPT !.pc = "create", !.done = FALSE]) /\ misread' = TRUE
      BY <3>1, <2>r, <2>n DEF Req, Whole
    <3>2. CASE Goto(t, [req[t] EXCEPT !.done = FALSE,
                  !.pc = IF NoRows THEN "create" ELSE IF req[t].done THEN "look" ELSE "alter"])
      <4>1. PICK pc \in {"create", "look", "alter"} :
               /\ pc = (IF NoRows THEN "create" ELSE IF req[t].done THEN "look" ELSE "alter")
               /\ Goto(t, [req[t] EXCEPT !.pc = pc, !.done = FALSE])
        BY <3>2, <2>n DEF Req
      <4> QED BY <4>1, <2>r, <2>n DEF Req, Whole
    <3> QED BY <3>1, <3>2, <1>4 DEF ReadCount
  <2>2. /\ req' \in [Threads -> Req] /\ req'[t] = r
        /\ \A u \in Threads : u # t => req'[u] = req[u]
        /\ \A u \in Threads : Whole(req'[u])
    BY <1>t, <2>1, SetUpMove
  <2>3. TypeOK'
    BY <1>t, <1>4, <2>2 DEF ReadCount, TypeOK
  <2>4. Tables'
    BY <1>t, <1>4, <2>1, <2>2 DEF ReadCount, Tables, Past, NoRows, Empty, AppliedIfRecorded, Alone, TypeOK
  <2>5. Alone'
    BY <1>t, <1>4, <2>1, <2>2 DEF ReadCount, Tables, Past, NoRows, Empty, Alone, TypeOK
  <2>6. AppliedIfRecorded'
    BY <1>t, <1>4, <2>1, <2>2 DEF ReadCount, Tables, AppliedIfRecorded
  <2>7. UsableUnlessCut'
    BY <1>t, <1>4, <2>1, <2>2 DEF ReadCount, Tables, Past, NoRows, Alone, UsableUnlessCut, Unusable, CutShort
  <2> QED BY <2>3, <2>4, <2>5, <2>6, <2>7 DEF SetUpInv
<1>5. ASSUME NEW t \in Threads, CreateTables(t) PROVE SetUpInv'
  <2>r. [req[t] EXCEPT !.pc = "mark"] \in Req
    BY <1>t, Onward DEF Pcs, TypeOK
  <2>n. req[t] \in Req /\ Whole(req[t])
    BY <1>t DEF TypeOK
  <2>1. PICK r \in Req : Goto(t, r) /\ r.pc = "mark" /\ r.done = req[t].done
                     /\ Whole(r)
    BY <2>n, <1>t, <1>i, <2>r, <1>5 DEF CreateTables, Req, Whole
  <2>2. /\ req' \in [Threads -> Req] /\ req'[t] = r
        /\ \A u \in Threads : u # t => req'[u] = req[u]
        /\ \A u \in Threads : Whole(req'[u])
    BY <1>t, <2>1, SetUpMove
  <2>3. TypeOK'
    BY <1>t, <1>5, <2>2 DEF CreateTables, TypeOK
  <2>4. Tables'
    BY <1>t, <1>5, <2>1, <2>2 DEF CreateTables, Tables, Past, NoRows, Empty, AppliedIfRecorded, Alone, TypeOK
  <2>5. Alone'
    BY <1>t, <1>5, <2>1, <2>2 DEF CreateTables, Tables, Past, NoRows, Empty, Alone, TypeOK
  <2>6. AppliedIfRecorded'
    BY <1>t, <1>5, <2>1, <2>2 DEF CreateTables, Tables, AppliedIfRecorded
  <2>7. UsableUnlessCut'
    BY <1>t, <1>5, <2>1, <2>2 DEF CreateTables, Tables, Past, NoRows, Alone, UsableUnlessCut, Unusable, CutShort
  <2> QED BY <2>3, <2>4, <2>5, <2>6, <2>7 DEF SetUpInv
<1>6. ASSUME NEW t \in Threads, Alter(t) PROVE SetUpInv'
  <2>r. [req[t] EXCEPT !.pc = "mark", !.altered = TRUE] \in Req
    BY <1>t, Onward DEF Pcs, TypeOK
  <2>n. req[t] \in Req /\ Whole(req[t])
    BY <1>t DEF TypeOK
  <2>1. PICK r \in Req : Goto(t, r) /\ r.pc = "mark" /\ r.altered /\ r.done = req[t].done
                     /\ Whole(r)
    BY <2>n, <1>t, <1>i, <2>r, <1>6 DEF Alter, Req, Whole
  <2>2. /\ req' \in [Threads -> Req] /\ req'[t] = r
        /\ \A u \in Threads : u # t => req'[u] = req[u]
        /\ \A u \in Threads : Whole(req'[u])
    BY <1>t, <2>1, SetUpMove
  <2>3. TypeOK'
    BY <1>t, <1>6, <2>2 DEF Alter, TypeOK
  <2>4. Tables'
    BY <1>t, <1>6, <2>1, <2>2 DEF Alter, Tables, Past, NoRows, Empty, AppliedIfRecorded, Alone, TypeOK
  <2>5. Alone'
    BY <1>t, <1>6, <2>1, <2>2 DEF Alter, Tables, Past, NoRows, Empty, Alone, TypeOK
  <2>6. AppliedIfRecorded'
    BY <1>t, <1>6, <2>1, <2>2 DEF Alter, Tables, AppliedIfRecorded
  <2>7. UsableUnlessCut'
    BY <1>t, <1>6, <2>1, <2>2 DEF Alter, Tables, Past, NoRows, Alone, UsableUnlessCut, Unusable, CutShort
  <2> QED BY <2>3, <2>4, <2>5, <2>6, <2>7 DEF SetUpInv
<1>7. ASSUME NEW t \in Threads, Mark(t) PROVE SetUpInv'
  <2>r. [req[t] EXCEPT !.pc = "look", !.altered = FALSE] \in Req
    BY <1>t, Onward DEF Pcs, TypeOK
  <2>n. req[t] \in Req /\ Whole(req[t])
    BY <1>t DEF TypeOK
  <2>1. PICK r \in Req : Goto(t, r) /\ r.pc = "look" /\ r.done = req[t].done
                     /\ Whole(r)
    BY <2>n, <1>t, <1>i, <2>r, <1>7 DEF Mark, Req, Whole
  <2>2. /\ req' \in [Threads -> Req] /\ req'[t] = r
        /\ \A u \in Threads : u # t => req'[u] = req[u]
        /\ \A u \in Threads : Whole(req'[u])
    BY <1>t, <2>1, SetUpMove
  <2>3. TypeOK'
    BY <1>t, <1>7, <2>2 DEF Mark, TypeOK
  <2>4. Tables'
    BY <1>t, <1>7, <2>1, <2>2 DEF Mark, Tables, Past, NoRows, Empty, AppliedIfRecorded, Alone, TypeOK
  <2>5. Alone'
    BY <1>t, <1>7, <2>1, <2>2 DEF Mark, Tables, Past, NoRows, Empty, Alone, TypeOK
  <2>6. AppliedIfRecorded'
    BY <1>t, <1>7, <2>1, <2>2 DEF Mark, Tables, AppliedIfRecorded
  <2>7. UsableUnlessCut'
    BY <1>t, <1>7, <2>1, <2>2 DEF Mark, Tables, Past, NoRows, Alone, UsableUnlessCut, Unusable, CutShort
  <2> QED BY <2>3, <2>4, <2>5, <2>6, <2>7 DEF SetUpInv
<1>8. ASSUME NEW t \in Threads, LookForDemo(t) PROVE SetUpInv'
  <2>n. req[t] \in Req /\ Whole(req[t])
    BY <1>t DEF TypeOK
  <2>r. [req[t] EXCEPT !.pc = "demo"] \in Req
    BY <1>t, Onward DEF Pcs
  <2>p. LET r == [req[t] EXCEPT !.pc = "demo"] IN r.pc = "demo" /\ r.done = req[t].done /\ Whole(r)
    BY <2>n DEF Req, Whole
  <2>a. /\ AfterDb(t) \in Req /\ Whole(AfterDb(t))
        /\ AfterDb(t).pc \in {"idle", "put"} /\ (AfterDb(t).done => req[t].done)
    BY <1>t, Returns
  <2>1. PICK r \in Req : Goto(t, r) /\ (r.done => req[t].done)
                     /\ (rows[DemoId] = None => r.pc = "demo")
                     /\ (rows[DemoId] # None => r.pc \in {"idle", "put"})
                     /\ Whole(r)
    BY <2>p, <2>r, <2>a, <1>8 DEF LookForDemo
  <2>2. /\ req' \in [Threads -> Req] /\ req'[t] = r
        /\ \A u \in Threads : u # t => req'[u] = req[u]
        /\ \A u \in Threads : Whole(req'[u])
    BY <1>t, <2>1, SetUpMove
  <2>3. TypeOK'
    BY <1>t, <1>8, <2>2 DEF LookForDemo, TypeOK
  <2>4. Tables'
    BY <1>t, <1>8, <2>1, <2>2 DEF LookForDemo, AfterDb, Idle, Tables, Past, NoRows, Empty, AppliedIfRecorded, Alone, TypeOK
  <2>5. Alone'
    BY <1>t, <1>8, <2>1, <2>2 DEF LookForDemo, AfterDb, Idle, Tables, Past, NoRows, Empty, Alone, TypeOK
  <2>6. AppliedIfRecorded'
    BY <1>t, <1>8, <2>1, <2>2 DEF LookForDemo, AfterDb, Idle, Tables, AppliedIfRecorded
  <2>7. UsableUnlessCut'
    BY <1>t, <1>8, <2>1, <2>2 DEF LookForDemo, Tables, Past, NoRows, Empty, Alone, UsableUnlessCut, Unusable, CutShort
  <2> QED BY <2>3, <2>4, <2>5, <2>6, <2>7 DEF SetUpInv
<1>9. ASSUME NEW t \in Threads, PutDemo(t) PROVE SetUpInv'
  <2>a. /\ AfterDb(t) \in Req /\ Whole(AfterDb(t))
        /\ AfterDb(t).pc \in {"idle", "put"} /\ (AfterDb(t).done => req[t].done)
    BY <1>t, Returns
  <2>1. PICK r \in Req : Goto(t, r) /\ (r.done => req[t].done)
                     /\ r.pc \in {"idle", "put"}
                     /\ Whole(r)
    BY <2>a, <1>9 DEF PutDemo
  <2>2. /\ req' \in [Threads -> Req] /\ req'[t] = r
        /\ \A u \in Threads : u # t => req'[u] = req[u]
        /\ \A u \in Threads : Whole(req'[u])
    BY <1>t, <2>1, SetUpMove
  <2>3. TypeOK'
    BY <1>t, <1>9, <2>2 DEF PutDemo, TypeOK
  <2>4. Tables'
    BY <1>t, <1>9, <2>1, <2>2 DEF PutDemo, AfterDb, Idle, Tables, Past, NoRows, Empty, AppliedIfRecorded, Alone, TypeOK
  <2>5. Alone'
    BY <1>t, <1>9, <2>1, <2>2 DEF PutDemo, AfterDb, Idle, Tables, Past, NoRows, Empty, Alone, TypeOK
  <2>6. AppliedIfRecorded'
    BY <1>t, <1>9, <2>1, <2>2 DEF PutDemo, AfterDb, Idle, Tables, AppliedIfRecorded
  <2>v. ~NoRows' /\ marked'
    BY <1>t, <1>9 DEF PutDemo, TypeOK, Req, Whole, NoRows, Empty, Tables, Past
  <2>7. UsableUnlessCut'
    BY <2>v DEF UsableUnlessCut, Unusable
  <2> QED BY <2>3, <2>4, <2>5, <2>6, <2>7 DEF SetUpInv
<1>10. ASSUME NEW t \in Threads, Put(t) PROVE SetUpInv'
  <2>1. PICK r \in Req : Goto(t, r) /\ r = Idle
                     /\ Whole(r)
    BY <1>t, <1>i, <1>10 DEF Put, Idle, TypeOK, Req, Pcs, Whole
  <2>2. /\ req' \in [Threads -> Req] /\ req'[t] = r
        /\ \A u \in Threads : u # t => req'[u] = req[u]
        /\ \A u \in Threads : Whole(req'[u])
    BY <1>t, <2>1, SetUpMove
  <2>n. req[t].id \in Ids /\ req[t].doc \in Docs
    BY <1>t, <1>10 DEF Put, TypeOK, Req, Whole
  <2>3. TypeOK'
    BY <1>t, <1>10, <2>2, <2>n DEF Put, TypeOK
  <2>d. rows[DemoId] # None /\ rows'[DemoId] # None
    BY <1>t, <1>10, <2>n DEF Put, TypeOK, Alone, Past
  <2>v. ~NoRows' /\ marked'
    BY <1>t, <1>10, <2>d DEF Put, NoRows, Empty, Tables, Past
  <2>4. Tables'
    BY <1>t, <1>10, <2>1, <2>2, <2>v DEF Put, Idle, Tables, Past
  <2>5. Alone'
    BY <1>t, <1>10, <2>1, <2>2, <2>d, <2>v DEF Put, Idle, Alone
  <2>6. AppliedIfRecorded'
    BY <1>t, <1>10, <2>1, <2>2 DEF Put, Idle, Tables, AppliedIfRecorded
  <2>7. UsableUnlessCut'
    BY <2>v DEF UsableUnlessCut, Unusable
  <2> QED BY <2>3, <2>4, <2>5, <2>6, <2>7 DEF SetUpInv
<1>11. CASE Crash
  <2>1. req' \in [Threads -> Req] /\ \A u \in Threads : req'[u] = Idle
    BY <1>i, <1>11 DEF Crash
  <2>2. TypeOK'
    BY <1>t, <1>11, <2>1 DEF Crash, TypeOK, Idle, Whole
  <2>3. Tables' /\ Alone' /\ AppliedIfRecorded'
    BY <1>t, <1>11, <2>1 DEF Crash, Tables, Alone, Past, NoRows, AppliedIfRecorded, Idle
  <2>4. UsableUnlessCut'
    BY <1>t, <1>11, <2>1 DEF Crash, UsableUnlessCut, Unusable, NoRows
  <2> QED BY <2>2, <2>3, <2>4 DEF SetUpInv
<1> QED
  BY <1>0, <1>1, <1>2, <1>3, <1>4, <1>5, <1>6, <1>7, <1>8, <1>9, <1>10, <1>11 DEF Next, SetUp

(* The invariant holds throughout.                                         *)
LEMMA SetUpInductive == Spec => []SetUpInv
BY SetUpInit, SetUpStep, PTL DEF Spec

(* Every variable keeps its type.                                          *)
THEOREM SetUpTypes == Spec => []TypeOK
<1>1. SetUpInv => TypeOK
  BY DEF SetUpInv
<1> QED BY <1>1, SetUpInductive, PTL

(* The file stays one db() accepts, unless set-up was cut short, by a      *)
(* crash or an exception, where it cannot be repeated (app.py:77-96).      *)
THEOREM FileStaysUsable == Spec => []UsableUnlessCut
<1>1. SetUpInv => UsableUnlessCut
  BY DEF SetUpInv
<1> QED BY <1>1, SetUpInductive, PTL

(* A recorded migration has been applied (app.py:77-92).                   *)
THEOREM RecordedIsApplied == Spec => []AppliedIfRecorded
<1>1. SetUpInv => AppliedIfRecorded
  BY DEF SetUpInv
<1> QED BY <1>1, SetUpInductive, PTL

(* The demo never replaces a stored report (app.py:94-96).                 *)
THEOREM DemoIsGentle == Spec => DemoKeepsOut
<1>1. SetUpInv /\ [Next]_vars =>
        [\A t \in Threads : PutDemo(t) => rows[DemoId] = None]_vars
  BY DEF SetUpInv, Alone, PutDemo
<1> QED BY <1>1, SetUpInductive, PTL DEF Spec, DemoKeepsOut
=============================================================================
