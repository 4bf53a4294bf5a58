--------------------------- MODULE InvitesProofs ---------------------------
(***************************************************************************)
(* Theorems about Invites for every number of handlers, browsers, tokens   *)
(* and lifetimes, and both databases.                                      *)
(*                                                                         *)
(* The inductive invariant says that whatever carries a token (a row, a    *)
(* cookie, a handler) carries one that was made, that a spent token has no *)
(* row, and that on sqlite a transaction of UseInviteToken keeps the row   *)
(* it has read from its SELECT to its COMMIT.  Once a token has expired,   *)
(* what its sign-ups still do is counted, and the count only goes down.    *)
(***************************************************************************)
EXTENDS Invites, FiniteSetTheorems, TLAPS

USE DEF At, Goto, Finish

Expiries == {None} \cup {n + l : n \in 0 .. MaxTime, l \in Lifetimes}
Jars     == [Browsers -> [Paths -> Tokens \cup {None}]]
Proc     == [pc : Pcs, browser : Browsers \cup {None}, token : Tokens \cup {None}]

(* A handler at work has a browser and a token.                            *)
Busy == \A h \in Handlers : proc[h].pc # "idle" =>
          proc[h].browser \in Browsers /\ proc[h].token \in Tokens

TypeInv == TypeOK /\ Busy

(* The type invariant holds in the initial state.                          *)
LEMMA InvitesInit == Init => TypeInv
BY NumbersAssumption DEF Init, TypeInv, TypeOK, Busy, Idle, Pcs, Paths

(* The steps of a sign-up keep the types.                                  *)
LEMMA StepTypes ==
  ASSUME TypeInv, NEW h \in Handlers, Step(h)
  PROVE  TypeInv'
<1> USE DEF TypeInv
<1> DEFINE p == proc[h]
<1>1. p \in Proc /\ Idle \in Proc
  BY DEF TypeOK, Proc, Idle, Pcs
<1>2. ASSUME NEW pc \in Pcs, p.pc # "idle", Goto(h, pc)
      PROVE  proc' \in [Handlers -> Proc] /\ Busy'
  BY <1>1, <1>2 DEF TypeOK, Busy, Proc
<1>3. ASSUME Finish(h)
      PROVE  proc' \in [Handlers -> Proc] /\ Busy'
  BY <1>1, <1>3 DEF TypeOK, Busy, Proc, Idle
<1>4. ASSUME p.pc # "idle", Answer(h)
      PROVE  jar' \in Jars /\ proc' \in [Handlers -> Proc] /\ Busy'
  <2>1. jar' \in Jars
    <3> DEFINE b == p.browser
    <3>1. jar[b] \in [Paths -> Tokens \cup {None}] /\ b \in Browsers
      BY <1>4 DEF TypeOK, Busy
    <3>2. [jar[b] EXCEPT !["/signup"] = None] \in [Paths -> Tokens \cup {None}]
      BY <3>1
    <3>3. jar' = [jar EXCEPT ![b] = [jar[b] EXCEPT !["/signup"] = None]]
      BY <1>4 DEF Answer
    <3>4. jar \in Jars
      BY DEF TypeOK, Jars
    <3> QED BY <3>2, <3>3, <3>4 DEF Jars
  <2> QED BY <1>3, <1>4, <2>1 DEF Answer
<1>5. CASE Peek(h)
  <2>1. proc' \in [Handlers -> Proc] /\ Busy'
    BY <1>2, <1>3, <1>5 DEF Peek, Pcs
  <2> QED BY <1>5, <2>1 DEF Peek, TypeOK, Proc
<1>6. CASE PutNewUser(h)
  <2>1. proc' \in [Handlers -> Proc] /\ Busy'
    BY <1>2, <1>3, <1>6 DEF PutNewUser, Pcs
  <2>2. accounts' \in [Tokens -> 0 .. MaxAccounts]
    BY <1>6, NumbersAssumption DEF PutNewUser, TypeOK
  <2> QED BY <1>6, <2>1, <2>2 DEF PutNewUser, TypeOK, Proc
<1>7. CASE UseSelect(h)
  <2>1. proc' \in [Handlers -> Proc] /\ Busy' /\ jar' \in Jars
    BY <1>2, <1>4, <1>7 DEF UseSelect, Pcs, TypeOK, Jars
  <2> QED BY <1>7, <2>1 DEF UseSelect, TypeOK, Proc, Jars
<1>8. CASE UseDelete(h)
  <2>1. proc' \in [Handlers -> Proc] /\ Busy' /\ jar' \in Jars
    BY <1>2, <1>4, <1>8 DEF UseDelete, Pcs, TypeOK, Jars
  <2> QED BY <1>8, <2>1 DEF UseDelete, TypeOK, Proc, Jars
<1>9. CASE UseCommit(h)
  <2>1. proc' \in [Handlers -> Proc] /\ Busy' /\ jar' \in Jars
    BY <1>4, <1>9 DEF UseCommit
  <2>2. spent' \in [Tokens -> Nat] /\ invites' \subseteq Tokens
    BY <1>9 DEF UseCommit, TypeOK
  <2> QED BY <1>9, <2>1, <2>2 DEF UseCommit, TypeOK, Proc, Jars
<1> QED BY <1>5, <1>6, <1>7, <1>8, <1>9 DEF Step

(* Every step keeps the types.                                             *)
LEMMA NextTypes == TypeInv /\ [Next]_vars => TypeInv'
<1> SUFFICES ASSUME TypeInv, [Next]_vars PROVE TypeInv'
  OBVIOUS
<1> USE DEF TypeInv
<1>1. CASE UNCHANGED vars
  BY <1>1 DEF vars, TypeOK, Busy
<1>2. ASSUME NEW h \in Handlers, Step(h) PROVE TypeInv'
  BY <1>2, StepTypes
<1>3. ASSUME NEW h \in Handlers, NEW b \in Browsers, Post(h, b) PROVE TypeInv'
  <2>1. jar[b]["/"] \in Tokens
    BY <1>3 DEF Post, TypeOK, Paths
  <2> DEFINE q == [pc |-> "peek", browser |-> b, token |-> jar[b]["/"]]
  <2>2. q \in Proc
    BY <2>1 DEF Proc, Pcs
  <2>3. proc' = [proc EXCEPT ![h] = q]
    BY <1>3 DEF Post
  <2>4. proc' \in [Handlers -> Proc] /\ Busy'
    BY <2>1, <2>2, <2>3 DEF TypeOK, Busy, Proc
  <2> QED BY <1>3, <2>4 DEF Post, TypeOK, Proc
<1>4. ASSUME NEW t \in Tokens, NEW l \in Lifetimes, MakeInvite(t, l) PROVE TypeInv'
  <2>1. now + l \in Expiries
    BY DEF TypeOK, Expiries
  <2>2. expires' \in [Tokens -> Expiries]
    BY <1>4, <2>1 DEF MakeInvite, TypeOK, Expiries
  <2> QED BY <1>4, <2>2 DEF MakeInvite, TypeOK, Expiries, Busy
<1>5. ASSUME NEW b \in Browsers, NEW t \in Tokens, OpenInvite(b, t) PROVE TypeInv'
  <2>1. jar' \in Jars
    BY <1>5 DEF OpenInvite, TypeOK, Jars, Paths
  <2> QED BY <1>5, <2>1 DEF OpenInvite, TypeOK, Jars, Busy
<1>6. CASE GcPass
  BY <1>6 DEF GcPass, TypeOK, Busy
<1>7. CASE GcPanics \/ Crash
  <2>1. proc' \in [Handlers -> Proc] /\ Busy'
    BY <1>7 DEF GcPanics, Crash, Busy, Proc, Idle, Pcs
  <2>2. up' \in BOOLEAN /\ UNCHANGED <<backend, now, invites, expires, jar, accounts, spent>>
    BY <1>7 DEF GcPanics, Crash
  <2> QED BY <2>1, <2>2 DEF TypeOK, Proc
<1>8. CASE Restart
  BY <1>8 DEF Restart, TypeOK, Busy
<1>9. CASE Tick
  <2>1. now' \in 0 .. MaxTime
    BY <1>9, NumbersAssumption DEF Tick, TypeOK
  <2>2. jar' \in Jars
    BY <1>9 DEF Tick, TypeOK, Jars
  <2> QED BY <1>9, <2>1, <2>2 DEF Tick, TypeOK, Jars, Busy
<1> QED BY <1>1, <1>2, <1>3, <1>4, <1>5, <1>6, <1>7, <1>8, <1>9 DEF Next

(* The type invariant, with what a busy handler holds, is invariant.       *)
LEMMA InvitesTypeInv == Spec => []TypeInv
BY InvitesInit, NextTypes, PTL DEF Spec

(* Every variable keeps its type.                                          *)
THEOREM InvitesTypeCorrect == Spec => []TypeOK
<1>1. TypeInv => TypeOK
  BY DEF TypeInv
<1> QED BY <1>1, InvitesTypeInv, PTL

-----------------------------------------------------------------------------
(* The strengthening.                                                      *)

Made ==
  /\ \A t \in invites : expires[t] # None
  /\ \A b \in Browsers, p \in Paths : jar[b][p] # None => expires[jar[b][p]] # None
  /\ \A h \in Handlers : proc[h].pc # "idle" => expires[proc[h].token] # None

SpentGone == \A t \in Tokens : spent[t] # 0 => t \notin invites /\ expires[t] # None

RowKept ==
  backend = "sqlite" => \A h \in Handlers : InTx(h) => proc[h].token \in invites

SpendInv == Made /\ SpentGone /\ (backend = "sqlite" => RowKept /\ SpentOnce)

(* A sign-up's steps keep the strengthening.                               *)
LEMMA StepSpends ==
  ASSUME TypeInv, SpendInv, NEW h \in Handlers, Step(h)
  PROVE  SpendInv'
<1> DEFINE t == proc[h].token
<1>1. proc \in [Handlers -> Proc] /\ jar \in Jars /\ proc[h].pc # "idle" /\ t \in Tokens
  <2>1. proc[h].pc # "idle"
    BY DEF Step, Peek, PutNewUser, UseSelect, UseDelete, UseCommit
  <2> QED BY <2>1 DEF TypeInv, TypeOK, Busy, Proc, Jars
<1>2. ASSUME NEW pc \in Pcs, Goto(h, pc), UNCHANGED <<expires, jar>>,
             invites' = invites
      PROVE  Made'
  BY <1>1, <1>2 DEF SpendInv, Made, Proc
<1>3. ASSUME Finish(h), UNCHANGED <<expires, jar, invites>>
      PROVE  Made'
  BY <1>1, <1>3 DEF SpendInv, Made, Proc, Idle
<1>4. ASSUME Answer(h), UNCHANGED expires, invites' \subseteq invites
      PROVE  Made'
  <2>1. \A b \in Browsers, p \in Paths : jar'[b][p] \in {None, jar[b][p]}
    BY <1>1, <1>4 DEF Answer, Jars
  <2>2. \A g \in Handlers : proc'[g].pc # "idle" => proc'[g] = proc[g]
    BY <1>1, <1>4 DEF Answer, Idle
  <2> QED BY <1>4, <2>1, <2>2 DEF SpendInv, Made
<1>5. CASE Peek(h)
  <2>1. Made'
    BY <1>2, <1>3, <1>5 DEF Peek, Pcs
  <2>2. \A g \in Handlers : InTx(g)' => InTx(g) /\ proc'[g] = proc[g]
    BY <1>1, <1>5 DEF Peek, InTx, Idle, Proc
  <2> QED BY <1>5, <2>1, <2>2 DEF Peek, SpendInv, SpentGone, RowKept, SpentOnce
<1>6. CASE PutNewUser(h)
  <2>1. Made'
    BY <1>2, <1>3, <1>6 DEF PutNewUser, Pcs
  <2>2. \A g \in Handlers : InTx(g)' => InTx(g) /\ proc'[g] = proc[g]
    BY <1>1, <1>6 DEF PutNewUser, InTx, Idle, Proc
  <2> QED BY <1>6, <2>1, <2>2 DEF PutNewUser, SpendInv, SpentGone, RowKept, SpentOnce
<1>7. CASE UseSelect(h)
  <2>1. Made'
    BY <1>2, <1>4, <1>7 DEF UseSelect, Pcs
  <2>2. \A g \in Handlers : InTx(g)' => \/ InTx(g) /\ proc'[g] = proc[g]
                                        \/ t \in invites /\ proc'[g].token = t
    BY <1>1, <1>7 DEF UseSelect, Answer, InTx, Idle, Proc
  <2> QED BY <1>7, <2>1, <2>2 DEF UseSelect, SpendInv, SpentGone, RowKept, SpentOnce
<1>8. CASE UseDelete(h)
  <2>1. Made'
    BY <1>2, <1>4, <1>8 DEF UseDelete, Pcs
  <2>2. \A g \in Handlers : InTx(g)' => InTx(g) /\ proc'[g].token = proc[g].token
    BY <1>1, <1>8 DEF UseDelete, Answer, InTx, Idle, Proc
  <2> QED BY <1>8, <2>1, <2>2 DEF UseDelete, SpendInv, SpentGone, RowKept, SpentOnce
<1>9. CASE UseCommit(h)
  <2>1. Made'
    BY <1>4, <1>9 DEF UseCommit
  <2>2. \A g \in Handlers : InTx(g)' => g # h /\ InTx(g) /\ proc'[g] = proc[g]
    BY <1>1, <1>9 DEF UseCommit, Answer, InTx, Idle
  <2>3. RowKept'
    BY <1>9, <2>2 DEF UseCommit, SpendInv, RowKept
  <2>4. SpentGone'
    BY <1>1, <1>9 DEF UseCommit, SpendInv, SpentGone, Made, TypeInv, TypeOK
  <2>5. ASSUME backend = "sqlite" PROVE SpentOnce'
    <3>1. InTx(h)
      BY <1>9 DEF UseCommit, InTx
    <3>2. t \in invites
      BY <2>5, <3>1 DEF SpendInv, RowKept
    <3>3. spent[t] = 0
      BY <1>1, <3>2 DEF SpendInv, SpentGone
    <3> QED BY <1>1, <1>9, <2>5, <3>3 DEF UseCommit, SpendInv, SpentOnce, TypeInv, TypeOK
  <2>6. UNCHANGED backend
    BY <1>9 DEF UseCommit
  <2> QED BY <2>1, <2>3, <2>4, <2>5, <2>6 DEF SpendInv
<1> QED BY <1>5, <1>6, <1>7, <1>8, <1>9 DEF Step

(* Every step keeps the strengthening.                                     *)
LEMMA NextSpends == TypeInv /\ SpendInv /\ [Next]_vars => SpendInv'
<1> SUFFICES ASSUME TypeInv, SpendInv, [Next]_vars PROVE SpendInv'
  OBVIOUS
<1>t. proc \in [Handlers -> Proc] /\ jar \in Jars /\ expires \in [Tokens -> Expiries]
  BY DEF TypeInv, TypeOK, Proc, Jars, Expiries
<1> USE DEF SpendInv
<1>1. CASE UNCHANGED vars
  BY <1>1 DEF vars, Made, SpentGone, RowKept, SpentOnce, InTx
<1>2. ASSUME NEW h \in Handlers, Step(h) PROVE SpendInv'
  BY <1>2, StepSpends
<1>3. ASSUME NEW h \in Handlers, NEW b \in Browsers, Post(h, b) PROVE SpendInv'
  <2>1. \A g \in Handlers : InTx(g)' => InTx(g) /\ proc'[g] = proc[g]
    BY <1>t, <1>3 DEF Post, InTx
  <2>2. \A g \in Handlers : proc'[g] = proc[g] \/ proc'[g].token = jar[b]["/"]
    BY <1>t, <1>3 DEF Post
  <2>3. Made'
    BY <1>3, <2>2 DEF Post, Made, Paths
  <2> QED BY <1>3, <2>1, <2>3 DEF Post, SpentGone, RowKept, SpentOnce
<1>4. ASSUME NEW t \in Tokens, NEW l \in Lifetimes, MakeInvite(t, l) PROVE SpendInv'
  <2>1. expires[t] = None /\ now + l # None
    BY <1>4, NumbersAssumption, NoneAssumption DEF MakeInvite, TypeInv, TypeOK
  <2>2. expires' = [expires EXCEPT ![t] = now + l] /\ invites' = invites \cup {t}
    BY <1>4 DEF MakeInvite
  <2>3. \A u \in Tokens : expires[u] # None => expires'[u] # None
    BY <1>t, <2>1, <2>2
  <2>4. Made'
    <3>1. \A u \in invites' : expires'[u] # None
      BY <1>t, <2>1, <2>2, <2>3 DEF Made, TypeInv, TypeOK
    <3>2. \A b \in Browsers, p \in Paths : jar[b][p] # None => jar[b][p] \in Tokens
      BY <1>t DEF Jars
    <3> QED BY <1>4, <2>3, <3>1, <3>2 DEF MakeInvite, Made, TypeInv, Busy
  <2>5. SpentGone'
    BY <1>4, <2>1, <2>2, <2>3 DEF MakeInvite, SpentGone
  <2> QED BY <1>4, <2>2, <2>4, <2>5 DEF MakeInvite, RowKept, SpentOnce, InTx
<1>5. ASSUME NEW b \in Browsers, NEW t \in Tokens, OpenInvite(b, t) PROVE SpendInv'
  <2>1. \A c \in Browsers, p \in Paths : jar'[c][p] \in {t, jar[c][p]}
    BY <1>t, <1>5 DEF OpenInvite, Jars
  <2>2. expires[t] # None
    BY <1>5 DEF OpenInvite, Valid, Made
  <2>3. Made'
    BY <1>5, <2>1, <2>2 DEF OpenInvite, Made
  <2> QED BY <1>5, <2>3 DEF OpenInvite, SpentGone, RowKept, SpentOnce, InTx
<1>6. CASE GcPass
  <2>1. backend = "sqlite" => invites' = invites
    BY <1>6 DEF GcPass, ExpiredRows
  <2> QED BY <1>6, <2>1 DEF GcPass, Made, SpentGone, RowKept, SpentOnce, InTx
<1>7. CASE GcPanics \/ Crash
  BY <1>7 DEF GcPanics, Crash, Idle, Made, SpentGone, RowKept, SpentOnce, InTx
<1>8. CASE Restart
  BY <1>8 DEF Restart, Made, SpentGone, RowKept, SpentOnce, InTx
<1>9. CASE Tick
  <2>1. \A b \in Browsers, p \in Paths : jar'[b][p] \in {None, jar[b][p]}
    BY <1>9 DEF Tick
  <2>2. Made'
    BY <1>9, <2>1 DEF Tick, Made
  <2> QED BY <1>9, <2>2 DEF Tick, SpentGone, RowKept, SpentOnce, InTx
<1> QED BY <1>1, <1>2, <1>3, <1>4, <1>5, <1>6, <1>7, <1>8, <1>9 DEF Next

(* The strengthening is invariant.                                         *)
LEMMA Spends == Spec => []SpendInv
<1>1. Init => SpendInv
  BY DEF Init, SpendInv, Made, SpentGone, RowKept, SpentOnce, InTx, Idle
<1> QED BY <1>1, NextSpends, InvitesTypeInv, PTL DEF Spec

(* Over sqlite an invitation is spent at most once, however many sign-ups  *)
(* use it at the same time (UseInviteToken, db.go:115-147).                *)
THEOREM SqliteSpendsOnce == Spec => []SqliteSpentOnce
<1>1. SpendInv => SqliteSpentOnce
  BY DEF SpendInv, SqliteSpentOnce
<1> QED BY <1>1, Spends, PTL

-----------------------------------------------------------------------------
(* Over both databases a sign-up that gets past handlePOST's check holds a *)
(* token that has not been spent.                                          *)
THEOREM NoSignupIsLate == Spec => NoLateSignup
<1>1. ASSUME TypeInv, SpendInv, [Next]_vars,
             NEW h \in Handlers, proc[h].pc = "peek", proc'[h].pc = "create"
      PROVE  spent[proc[h].token] = 0
  <2>t. proc \in [Handlers -> Proc] /\ proc[h].token \in Tokens
    BY <1>1 DEF TypeInv, TypeOK, Busy, Proc
  <2>1. Peek(h)
    <3>1. proc'[h] # proc[h]
      BY <1>1
    <3>2. ~(Restart \/ Tick \/ GcPass \/ UNCHANGED vars)
      BY <3>1 DEF Restart, Tick, GcPass, vars
    <3>3. ~(GcPanics \/ Crash)
      BY <1>1 DEF GcPanics, Crash, Idle
    <3>4. ~\E t \in Tokens, l \in Lifetimes : MakeInvite(t, l)
      BY <3>1 DEF MakeInvite
    <3>5. ~\E b \in Browsers, t \in Tokens : OpenInvite(b, t)
      BY <3>1 DEF OpenInvite
    <3>6. ~\E g \in Handlers, b \in Browsers : Post(g, b)
      BY <1>1, <2>t DEF Post
    <3>7. PICK g \in Handlers : Step(g)
      BY <1>1, <3>2, <3>3, <3>4, <3>5, <3>6 DEF Next
    <3>8. g = h
      BY <2>t, <3>1, <3>7 DEF Step, Peek, PutNewUser, UseSelect, UseDelete, UseCommit, Answer
    <3> QED BY <1>1, <3>7, <3>8 DEF Step, PutNewUser, UseSelect, UseDelete, UseCommit
  <2>2. proc[h].token \in invites
    BY <1>1, <2>t, <2>1 DEF Peek, Valid, Idle
  <2> QED BY <1>1, <2>t, <2>2 DEF SpendInv, SpentGone
<1>2. TypeInv /\ SpendInv /\ [Next]_vars =>
        [\A h \in Handlers : proc[h].pc = "peek" /\ proc'[h].pc = "create"
           => spent[proc[h].token] = 0]_vars
  BY <1>1
<1> QED BY <1>2, InvitesTypeInv, Spends, PTL DEF Spec, NoLateSignup

(* Over both databases no crash and no failed transaction loses an         *)
(* invitation: its row goes by a COMMIT for it or after it expired.        *)
THEOREM NothingLost == Spec => NotLost
<1>1. ASSUME TypeInv, [Next]_vars, NEW t \in Tokens, t \in invites, t \notin invites'
      PROVE  \/ expires[t] < now
             \/ \E h \in Handlers : proc[h].token = t /\ At(h, "commit") /\ proc'[h] = Idle
  <2>t. proc \in [Handlers -> Proc]
    BY <1>1 DEF TypeInv, TypeOK, Proc
  <2>1. CASE GcPass
    BY <1>1, <2>1 DEF GcPass, ExpiredRows
  <2>2. ASSUME NEW h \in Handlers, Step(h)
        PROVE  proc[h].token = t /\ At(h, "commit") /\ proc'[h] = Idle
    BY <1>1, <2>t, <2>2 DEF Step, Peek, PutNewUser, UseSelect, UseDelete, UseCommit, Answer
  <2>3. ~(Restart \/ Tick \/ GcPanics \/ Crash \/ UNCHANGED vars)
    BY <1>1 DEF Restart, Tick, GcPanics, Crash, vars
  <2>4. ~\E u \in Tokens, l \in Lifetimes : MakeInvite(u, l)
    BY <1>1 DEF MakeInvite
  <2>5. ~\E b \in Browsers, u \in Tokens : OpenInvite(b, u)
    BY <1>1 DEF OpenInvite
  <2>6. ~\E g \in Handlers, b \in Browsers : Post(g, b)
    BY <1>1 DEF Post
  <2> QED BY <1>1, <2>1, <2>2, <2>3, <2>4, <2>5, <2>6 DEF Next
<1>2. TypeInv /\ [Next]_vars =>
        [\A t \in Tokens : t \in invites /\ t \notin invites' =>
           \/ expires[t] < now
           \/ \E h \in Handlers : proc[h].token = t /\ At(h, "commit") /\ proc'[h] = Idle]_vars
  BY <1>1
<1> QED BY <1>2, InvitesTypeInv, PTL DEF Spec, NotLost

-----------------------------------------------------------------------------
(* The sign-ups that have made an account on t and are not done with it.   *)
Signing(h, t) == proc[h].pc \in {"select", "delete", "commit"} /\ proc[h].token = t
Users(t)      == {h \in Handlers : Signing(h, t)}

(* There are finitely many of them, even of infinitely many handlers, as   *)
(* each has an account of its own.                                         *)
PaidFor(t) == IsFiniteSet(Users(t)) /\ spent[t] + Cardinality(Users(t)) <= accounts[t]
PaidInv    == \A t \in Tokens : PaidFor(t)

(* A step that brings no sign-up to a token, and spends none.              *)
LEMMA PaidQuiet ==
  ASSUME TypeInv, NEW t \in Tokens, PaidFor(t), Users(t)' \subseteq Users(t),
         spent'[t] = spent[t], accounts'[t] = accounts[t]
  PROVE  PaidFor(t)'
<1>1. /\ IsFiniteSet(Users(t)') /\ Cardinality(Users(t)') <= Cardinality(Users(t))
      /\ Cardinality(Users(t)') \in Nat /\ Cardinality(Users(t)) \in Nat
  BY FS_Subset, FS_CardinalityType DEF PaidFor
<1>2. spent[t] \in Nat /\ accounts[t] \in Nat
  BY NumbersAssumption DEF TypeInv, TypeOK
<1> QED BY <1>1, <1>2 DEF PaidFor

(* A sign-up that is done with its token leaves, whether it has spent it   *)
(* or not.                                                                 *)
LEMMA PaidLeaves ==
  ASSUME TypeInv, NEW h \in Handlers, NEW t \in Tokens, PaidFor(t), Signing(h, t),
         Finish(h), spent'[t] \in {spent[t], spent[t] + 1}, accounts'[t] = accounts[t]
  PROVE  PaidFor(t)'
<1>1. proc \in [Handlers -> Proc]
  BY DEF TypeInv, TypeOK, Proc
<1>2. Users(t)' = Users(t) \ {h} /\ h \in Users(t)
  BY <1>1 DEF Users, Signing, Idle
<1>3. /\ IsFiniteSet(Users(t)') /\ Cardinality(Users(t)') = Cardinality(Users(t)) - 1
      /\ Cardinality(Users(t)) \in Nat
  BY <1>2, FS_RemoveElement, FS_CardinalityType DEF PaidFor
<1>4. spent[t] \in Nat /\ accounts[t] \in Nat
  BY NumbersAssumption DEF TypeInv, TypeOK
<1> QED BY <1>3, <1>4 DEF PaidFor

(* A sign-up that makes its account joins.                                 *)
LEMMA PaidJoins ==
  ASSUME TypeInv, NEW h \in Handlers, NEW t \in Tokens, PaidFor(t), proc[h].token = t,
         At(h, "create"), Goto(h, "select"), spent'[t] = spent[t],
         accounts'[t] = accounts[t] + 1
  PROVE  PaidFor(t)'
<1>1. proc \in [Handlers -> Proc]
  BY DEF TypeInv, TypeOK, Proc
<1>2. Users(t)' = Users(t) \cup {h} /\ h \notin Users(t)
  BY <1>1 DEF Users, Signing, Proc
<1>3. /\ IsFiniteSet(Users(t)') /\ Cardinality(Users(t)') = Cardinality(Users(t)) + 1
      /\ Cardinality(Users(t)) \in Nat
  BY <1>2, FS_AddElement, FS_CardinalityType DEF PaidFor
<1>4. spent[t] \in Nat /\ accounts[t] \in Nat
  BY NumbersAssumption DEF TypeInv, TypeOK
<1> QED BY <1>3, <1>4 DEF PaidFor

(* The steps of a sign-up keep every invitation paid for.                  *)
LEMMA StepPaid ==
  ASSUME TypeInv, PaidInv, NEW h \in Handlers, Step(h), NEW t \in Tokens
  PROVE  PaidFor(t)'
<1>1. /\ proc \in [Handlers -> Proc] /\ proc[h].token \in Tokens
      /\ accounts \in [Tokens -> 0 .. MaxAccounts] /\ spent \in [Tokens -> Nat]
  BY DEF TypeInv, TypeOK, Busy, Proc, Step, Peek, PutNewUser, UseSelect, UseDelete, UseCommit
<1>2. PaidFor(t)
  BY DEF PaidInv
<1>3. ASSUME Finish(h) PROVE Users(t)' \subseteq Users(t)
  BY <1>1, <1>3 DEF Users, Signing, Idle
<1>4. ASSUME NEW pc \in Pcs, Goto(h, pc), Signing(h, proc[h].token) \/ pc = "create"
      PROVE  Users(t)' \subseteq Users(t)
  BY <1>1, <1>4 DEF Users, Signing, Proc
<1>5. CASE Peek(h)
  BY <1>2, <1>3, <1>4, <1>5, PaidQuiet DEF Peek, Pcs
<1>6. CASE PutNewUser(h)
  <2>1. CASE Finish(h) /\ UNCHANGED accounts
    BY <1>2, <1>3, <1>6, <2>1, PaidQuiet DEF PutNewUser
  <2>2. CASE Goto(h, "select") /\ accounts' = [accounts EXCEPT ![proc[h].token] = @ + 1]
    <3>1. CASE proc[h].token = t
      BY <1>1, <1>2, <1>6, <2>2, <3>1, PaidJoins DEF PutNewUser
    <3>2. CASE proc[h].token # t
      <4>1. Users(t)' \subseteq Users(t) /\ accounts'[t] = accounts[t]
        BY <1>1, <2>2, <3>2 DEF Users, Signing, Proc
      <4> QED BY <1>2, <1>6, <4>1, PaidQuiet DEF PutNewUser
    <3> QED BY <3>1, <3>2
  <2> QED BY <1>6, <2>1, <2>2 DEF PutNewUser
<1>7. CASE UseSelect(h) \/ UseDelete(h)
  <2>1. Users(t)' \subseteq Users(t)
    BY <1>3, <1>4, <1>7 DEF UseSelect, UseDelete, Answer, Signing, Pcs
  <2> QED BY <1>2, <1>7, <2>1, PaidQuiet DEF UseSelect, UseDelete
<1>8. CASE UseCommit(h)
  <2>1. Finish(h) /\ UNCHANGED accounts
    BY <1>8 DEF UseCommit, Answer
  <2>2. CASE proc[h].token = t
    <3>1. Signing(h, t) /\ spent'[t] \in {spent[t], spent[t] + 1}
      BY <1>1, <1>8, <2>2 DEF UseCommit, Signing
    <3> QED BY <1>2, <2>1, <3>1, PaidLeaves
  <2>3. CASE proc[h].token # t
    <3>1. spent'[t] = spent[t]
      BY <1>1, <1>8, <2>3 DEF UseCommit
    <3> QED BY <1>2, <1>3, <2>1, <3>1, PaidQuiet
  <2> QED BY <2>2, <2>3
<1> QED BY <1>5, <1>6, <1>7, <1>8 DEF Step

(* Every step does.                                                        *)
LEMMA NextPaid == TypeInv /\ PaidInv /\ [Next]_vars => PaidInv'
<1> SUFFICES ASSUME TypeInv, PaidInv, [Next]_vars, NEW t \in Tokens PROVE PaidFor(t)'
  BY DEF PaidInv
<1>1. ASSUME NEW h \in Handlers, Step(h) PROVE PaidFor(t)'
  BY <1>1, StepPaid
<1> DEFINE Quiet == Users(t)' \subseteq Users(t) /\ UNCHANGED <<spent, accounts>>
<1>2. ASSUME ~\E h \in Handlers : Step(h) PROVE Quiet
  <2>p. proc \in [Handlers -> Proc]
    BY DEF TypeInv, TypeOK, Proc
  <2>1. ASSUME NEW h \in Handlers, NEW b \in Browsers, Post(h, b) PROVE Quiet
    BY <2>p, <2>1 DEF Post, Users, Signing
  <2>2. CASE GcPanics \/ Crash
    BY <2>2 DEF GcPanics, Crash, Idle, Users, Signing
  <2>3. ASSUME UNCHANGED <<proc, spent, accounts>> PROVE Quiet
    BY <2>3 DEF Users, Signing
  <2>4. CASE GcPass \/ Restart \/ Tick \/ UNCHANGED vars
    BY <2>3, <2>4 DEF GcPass, Restart, Tick, vars
  <2>5. ASSUME NEW u \in Tokens, NEW l \in Lifetimes, MakeInvite(u, l) PROVE Quiet
    BY <2>3, <2>5 DEF MakeInvite
  <2>6. ASSUME NEW b \in Browsers, NEW u \in Tokens, OpenInvite(b, u) PROVE Quiet
    BY <2>3, <2>6 DEF OpenInvite
  <2> QED BY <1>2, <2>1, <2>2, <2>4, <2>5, <2>6 DEF Next
<1>3. PaidFor(t)
  BY DEF PaidInv
<1> QED BY <1>1, <1>2, <1>3, PaidQuiet

(* Over both databases every time an invitation is spent there is an       *)
(* account made on it, and none counts for two (invite.go:93-109).         *)
THEOREM EverySpentHasAccount == Spec => []SpentForAccount
<1>1. Init => PaidInv
  <2>1. ASSUME Init, NEW t \in Tokens PROVE Users(t) = {} /\ spent[t] = 0 /\ accounts[t] = 0
    BY <2>1 DEF Init, Users, Signing, Idle
  <2> QED BY <2>1, FS_EmptySet DEF PaidInv, PaidFor
<1>2. PaidInv => SpentForAccount
  BY DEF PaidInv, PaidFor, SpentForAccount, Users, Signing
<1> QED BY <1>1, <1>2, NextPaid, InvitesTypeInv, PTL DEF Spec

-----------------------------------------------------------------------------
(* gcThread is not kept from an expired row for ever: its statement waits  *)
(* for the transactions that hold one, and those only become fewer.        *)
Expired(t) == expires[t] # None /\ expires[t] < now

(* The statements that a sign-up with t still has before it.               *)
Turns(h, t) ==
  IF proc[h].token # t THEN 0
  ELSE CASE proc[h].pc = "delete" -> 2 [] proc[h].pc = "commit" -> 1 [] OTHER -> 0

(* The statement can run, or a COMMIT for an expired row can.              *)
GcOrCommit ==
  up => \/ \A t \in ExpiredRows : ~Locked(t)
        \/ \E h \in Handlers : At(h, "commit") /\ proc[h].token \in Tokens
                               /\ Expired(proc[h].token) /\ Turns(h, proc[h].token) = 1

(* Expired is for good: no row comes back, nobody reads one for use any    *)
(* more, and who had read it comes nearer to its end with each step.       *)
GcCatchesUp ==
  \A t \in Tokens : Expired(t) =>
    /\ Expired(t)' /\ (t \in invites' => t \in invites)
    /\ \A h \in Handlers : /\ Turns(h, t)' <= Turns(h, t)
                           /\ Step(h) /\ Turns(h, t) > 0 => Turns(h, t)' < Turns(h, t)

LEMMA ExpiredStays ==
  ASSUME TypeInv, [Next]_vars, NEW t \in Tokens, Expired(t)
  PROVE  Expired(t)' /\ (t \in invites' => t \in invites)
<1>1. CASE \E h \in Handlers : Step(h)
  BY <1>1 DEF Step, Peek, PutNewUser, UseSelect, UseDelete, UseCommit, Expired
<1>2. CASE \E u \in Tokens, l \in Lifetimes : MakeInvite(u, l)
  BY <1>2 DEF MakeInvite, Expired, TypeInv, TypeOK
<1>3. CASE Tick
  BY <1>3, NumbersAssumption, NoneAssumption DEF Tick, Expired, TypeInv, TypeOK
<1>4. CASE GcPass \/ GcPanics \/ Crash \/ Restart \/ UNCHANGED vars
  BY <1>4 DEF GcPass, GcPanics, Crash, Restart, vars, Expired
<1>5. CASE \/ \E h \in Handlers, b \in Browsers : Post(h, b)
           \/ \E b \in Browsers, u \in Tokens : OpenInvite(b, u)
  BY <1>5 DEF Post, OpenInvite, Expired
<1> QED BY <1>1, <1>2, <1>3, <1>4, <1>5 DEF Next

LEMMA TurnsAre ==
  ASSUME NEW h, NEW t
  PROVE  /\ Turns(h, t) \in 0 .. 2 /\ Turns(h, t)' \in 0 .. 2
         /\ proc'[h] = proc[h] => Turns(h, t)' = Turns(h, t)
         /\ proc'[h].pc \notin {"delete", "commit"} => Turns(h, t)' = 0
         /\ proc'[h].pc = "commit" => Turns(h, t)' <= 1
BY DEF Turns

LEMMA TurnsFall ==
  ASSUME TypeInv, NEW t \in Tokens, Expired(t), NEW h \in Handlers, Step(h)
  PROVE  /\ Turns(h, t)' <= Turns(h, t)
         /\ Turns(h, t) > 0 => Turns(h, t)' < Turns(h, t)
         /\ \A g \in Handlers \ {h} : proc'[g] = proc[g]
<1>1. proc \in [Handlers -> Proc] /\ expires[t] < now /\ expires[t] \in Nat /\ now \in Nat
  <2>1. proc \in [Handlers -> Proc] /\ now \in Nat /\ expires[t] < now
    BY NumbersAssumption DEF TypeInv, TypeOK, Proc, Expired
  <2>2. expires[t] \in {n + l : n \in 0 .. MaxTime, l \in Lifetimes}
    BY DEF TypeInv, TypeOK, Expired
  <2>3. \A n \in 0 .. MaxTime, l \in Lifetimes : n + l \in Nat
    BY NumbersAssumption
  <2> QED BY <2>1, <2>2, <2>3
<1>2. \A g \in Handlers \ {h} : proc'[g] = proc[g]
  BY <1>1 DEF Step, Peek, PutNewUser, UseSelect, UseDelete, UseCommit, Answer
<1>3. CASE Peek(h) \/ PutNewUser(h)
  <2>1. proc'[h].pc \notin {"delete", "commit"}
    BY <1>1, <1>3 DEF Peek, PutNewUser, Idle, Proc
  <2>2. Turns(h, t) = 0
    BY <1>3 DEF Peek, PutNewUser, Turns
  <2> QED BY <1>2, <2>1, <2>2, TurnsAre
<1>4. CASE UseSelect(h)
  <2>1. Turns(h, t) = 0
    BY <1>4 DEF UseSelect, Turns
  <2>2. CASE proc[h].token = t
    <3>1. ~(now <= expires[proc[h].token])
      BY <1>1, <2>2
    <3>2. proc'[h].pc \notin {"delete", "commit"}
      BY <1>1, <1>4, <3>1 DEF UseSelect, Answer, Idle
    <3> QED BY <1>2, <2>1, <3>2, TurnsAre
  <2>3. CASE proc[h].token # t
    <3>1. proc'[h] = Idle \/ proc'[h].token # t
      BY <1>1, <1>4, <2>3 DEF UseSelect, Answer, Proc
    <3>2. Turns(h, t)' = 0
      BY <3>1 DEF Turns, Idle
    <3> QED BY <1>2, <2>1, <3>2
  <2> QED BY <2>2, <2>3
<1>5. CASE UseDelete(h)
  <2>1. proc'[h] = Idle \/ (proc'[h].token = proc[h].token /\ proc'[h].pc = "commit")
    BY <1>1, <1>5 DEF UseDelete, Answer, Proc
  <2>2. proc[h].pc = "delete"
    BY <1>5 DEF UseDelete
  <2> QED BY <1>2, <2>1, <2>2 DEF Turns, Idle
<1>6. CASE UseCommit(h)
  <2>1. proc'[h] = Idle /\ proc[h].pc = "commit"
    BY <1>1, <1>6 DEF UseCommit, Answer
  <2> QED BY <1>2, <2>1 DEF Turns, Idle
<1> QED BY <1>2, <1>3, <1>4, <1>5, <1>6 DEF Step

LEMMA TurnsNeverRise ==
  ASSUME TypeInv, [Next]_vars, NEW t \in Tokens, Expired(t), NEW h \in Handlers
  PROVE  Turns(h, t)' <= Turns(h, t)
<1>1. proc \in [Handlers -> Proc]
  BY DEF TypeInv, TypeOK, Proc
<1>2. CASE proc'[h] = proc[h]
  BY <1>2, TurnsAre
<1>3. ASSUME NEW g \in Handlers, Step(g) PROVE Turns(h, t)' <= Turns(h, t)
  BY <1>2, <1>3, TurnsFall
<1>4. ASSUME NEW g \in Handlers, NEW b \in Browsers, Post(g, b) PROVE Turns(h, t)' <= Turns(h, t)
  <2>1. CASE g = h
    <3>1. proc'[h].pc \notin {"delete", "commit"}
      BY <1>1, <1>4, <2>1 DEF Post
    <3> QED BY <3>1, TurnsAre
  <2>2. CASE g # h
    BY <1>1, <1>2, <1>4, <2>2 DEF Post
  <2> QED BY <2>1, <2>2
<1>5. CASE GcPanics \/ Crash
  <2>1. proc'[h].pc \notin {"delete", "commit"}
    BY <1>5 DEF GcPanics, Crash, Idle
  <2> QED BY <2>1, TurnsAre
<1>6. CASE GcPass \/ Restart \/ Tick \/ UNCHANGED vars
           \/ (\E u \in Tokens, l \in Lifetimes : MakeInvite(u, l))
           \/ (\E b \in Browsers, u \in Tokens : OpenInvite(b, u))
  BY <1>2, <1>6 DEF GcPass, Restart, Tick, vars, MakeInvite, OpenInvite
<1> QED BY <1>3, <1>4, <1>5, <1>6 DEF Next

(* An expired invitation does not come back, no sign-up begins to use it   *)
(* up, and those that had read it before, however many, leave it within    *)
(* two steps of their own; so gcThread's DELETE only waits for COMMITs     *)
(* that can run (db.go:236-281).                                           *)
THEOREM GcIsNotStarved ==
  Spec => []GcOrCommit /\ [][GcCatchesUp]_vars
<1>1. TypeInv /\ SpendInv => GcOrCommit
  <2> SUFFICES ASSUME TypeInv, SpendInv, up, NEW t \in ExpiredRows, Locked(t)
               PROVE  \E h \in Handlers : At(h, "commit") /\ proc[h].token \in Tokens
                               /\ Expired(proc[h].token) /\ Turns(h, proc[h].token) = 1
    BY DEF GcOrCommit
  <2>1. PICK h \in Handlers : proc[h].pc = "commit" /\ proc[h].token = t
    BY DEF Locked
  <2>2. t \in Tokens /\ t \in invites /\ expires[t] < now
    BY DEF ExpiredRows, TypeInv, TypeOK
  <2>3. Expired(t) /\ Turns(h, t) = 1
    BY <2>1, <2>2 DEF Expired, Turns, SpendInv, Made
  <2> QED BY <2>1, <2>2, <2>3
<1>2. TypeInv /\ [Next]_vars => [GcCatchesUp]_vars
  <2> SUFFICES ASSUME TypeInv, [Next]_vars PROVE GcCatchesUp
    OBVIOUS
  <2> QED BY ExpiredStays, TurnsFall, TurnsNeverRise DEF GcCatchesUp
<1> QED BY <1>1, <1>2, InvitesTypeInv, Spends, PTL DEF Spec
=============================================================================
