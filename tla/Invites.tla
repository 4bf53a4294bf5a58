------------------------------ MODULE Invites ------------------------------
(***************************************************************************)
(* Sign-up by invitation: the handlers of cmd/ballotstudio/invite.go over  *)
(* the invites table of db.go, the users table of the login library, the   *)
(* cookie jars of the browsers, and gcThread.                              *)
(*                                                                         *)
(* A sign-up is one goroutine: PeekInviteToken, PutNewUser, and then       *)
(* UseInviteToken, whose transaction is a SELECT, a DELETE and a COMMIT.   *)
(* What two such transactions do to each other is the database's doing:    *)
(* sqlite locks the whole file, PostgreSQL (read committed) locks the rows *)
(* a DELETE has found and lets every SELECT through.                       *)
(***************************************************************************)
EXTENDS Naturals, FiniteSets

CONSTANTS Backends,    \* the databases main's flags can name
          Handlers,    \* goroutines serving sign-ups
          Browsers, Tokens,
          Lifetimes,   \* 30 minutes for main's token, 7 days for /makeinvite
          MaxTime,     \* bound on the clock
          MaxAccounts, \* bound on the accounts made on one token
          None

ASSUME BackendsAssumption == Backends \subseteq {"sqlite", "postgres"}
ASSUME NumbersAssumption ==
  Lifetimes \subseteq Nat /\ MaxTime \in Nat /\ MaxAccounts \in Nat
ASSUME NoneAssumption == None \notin Tokens /\ None \notin Nat /\ None \notin Browsers

VARIABLES backend,   \* the database main was started with
          now,       \* the clock
          up,        \* the server process runs
          invites,   \* tokens with a row in the invites table
          expires,   \* the expires column, kept when the row goes; None: never made
          jar,       \* browser -> cookie path -> value of its cookie "i", or None
          proc,      \* what each sign-up handler is doing
          accounts,  \* history: accounts created on a token
          spent      \* history: times UseInviteToken(token) answered ok

vars == <<backend, now, up, invites, expires, jar, proc, accounts, spent>>

Pcs   == {"idle", "peek", "create", "select", "delete", "commit"}
Paths == {"/", "/signup"}
Idle  == [pc |-> "idle", browser |-> None, token |-> None]

TypeOK ==
  /\ backend \in Backends
  /\ now \in 0 .. MaxTime /\ up \in BOOLEAN
  /\ invites \subseteq Tokens
  /\ expires \in [Tokens -> {None} \cup {n + l : n \in 0 .. MaxTime, l \in Lifetimes}]
  /\ jar \in [Browsers -> [Paths -> Tokens \cup {None}]]
  /\ proc \in [Handlers -> [pc : Pcs, browser : Browsers \cup {None}, token : Tokens \cup {None}]]
  /\ accounts \in [Tokens -> 0 .. MaxAccounts] /\ spent \in [Tokens -> Nat]

Init ==
  /\ backend \in Backends
  /\ now = 0 /\ up = TRUE
  /\ invites = {} /\ expires = [t \in Tokens |-> None]
  /\ jar = [b \in Browsers |-> [p \in Paths |-> None]]
  /\ proc = [h \in Handlers |-> Idle]
  /\ accounts = [t \in Tokens |-> 0] /\ spent = [t \in Tokens |-> 0]

-----------------------------------------------------------------------------
At(h, pc)   == up /\ proc[h].pc = pc
Goto(h, pc) == proc' = [proc EXCEPT ![h].pc = pc]
Finish(h)   == proc' = [proc EXCEPT ![h] = Idle]

(* Mutant: UseInviteToken runs its SELECT outside the transaction.         *)
InTxAtDelete(h) == proc[h].pc = "commit"

(* The transactions that hold a lock of the sqlite file: from the SELECT   *)
(* on a shared one, from the DELETE on the reserved one.                   *)
InTx(h) == proc[h].pc \in {"delete", "commit"}

(* A write outside of those transactions needs the file for itself.        *)
CanWrite == backend = "sqlite" => \A g \in Handlers : ~InTx(g)

(* Mutant: sqlite's typo in the PostgreSQL statement.                      *)
ExpiredRowsNone == {}
(* Mutant: the comparison the other way round.                             *)
ExpiredRowsLive == IF backend = "sqlite" THEN {} ELSE {t \in invites : expires[t] > now}

(* The rows a GCInviteTokens statement deletes: sqlite's names a table     *)
(* that does not exist.                                                    *)
ExpiredRows == IF backend = "sqlite" THEN {} ELSE {t \in invites : expires[t] < now}

(* PostgreSQL: rows deleted by a transaction that has not committed.       *)
Locked(t) == t \in invites /\ \E g \in Handlers : proc[g].pc = "commit" /\ proc[g].token = t

-----------------------------------------------------------------------------
(* Invitations.                                                            *)

(* Mutant: milliseconds where the reader expects seconds.                  *)
MakeInviteMillis(t, l) ==
  /\ up /\ CanWrite
  /\ expires[t] = None
  /\ expires' = [expires EXCEPT ![t] = 1000 * (now + l) + 1]
  /\ invites' = invites \cup {t}
  /\ UNCHANGED <<backend, now, up, jar, proc, accounts, spent>>

(* /makeinvite, and main at startup: a random token never used before.     *)
MakeInvite(t, l) ==
  /\ up /\ CanWrite
  /\ expires[t] = None
  /\ expires' = [expires EXCEPT ![t] = now + l]
  /\ invites' = invites \cup {t}
  /\ UNCHANGED <<backend, now, up, jar, proc, accounts, spent>>

(* PeekInviteToken says ok.                                                *)
Valid(t) == t \in invites /\ now < expires[t]

(* GET /signup/<token> of a valid token sets the cookie, with a MaxAge     *)
(* that ends when the token expires.                                       *)
OpenInvite(b, t) ==
  /\ up /\ Valid(t)
  /\ jar' = [jar EXCEPT ![b]["/"] = t]
  /\ UNCHANGED <<backend, now, up, invites, expires, proc, accounts, spent>>

-----------------------------------------------------------------------------
(* handlePOST.                                                             *)

(* The browser sends the cookie of path /.  Without one, nothing happens.  *)
Post(h, b) ==
  /\ At(h, "idle")
  /\ jar[b]["/"] # None
  /\ proc' = [proc EXCEPT ![h] = [pc |-> "peek", browser |-> b, token |-> jar[b]["/"]]]
  /\ UNCHANGED <<backend, now, up, invites, expires, jar, accounts, spent>>

(* Not ok, a database error, or a blank form field: the page again.        *)
Peek(h) ==
  /\ At(h, "peek")
  /\ \/ Valid(proc[h].token) /\ Goto(h, "create")
     \/ Finish(h)
  /\ UNCHANGED <<backend, now, up, invites, expires, jar, accounts, spent>>

(* Mutant: the error of PutNewUser is not looked at.                       *)
PutNewUserUnchecked(h) ==
  LET t == proc[h].token IN
  /\ At(h, "create")
  /\ Goto(h, "select")
  /\ \/ CanWrite /\ accounts[t] < MaxAccounts /\ accounts' = [accounts EXCEPT ![t] = @ + 1]
     \/ UNCHANGED accounts
  /\ UNCHANGED <<backend, now, up, invites, expires, jar, spent>>

(* PutNewUser fails for a taken name and for a database error.             *)
PutNewUser(h) ==
  LET t == proc[h].token IN
  /\ At(h, "create")
  /\ \/ /\ CanWrite /\ accounts[t] < MaxAccounts
        /\ accounts' = [accounts EXCEPT ![t] = @ + 1]
        /\ Goto(h, "select")
     \/ Finish(h) /\ UNCHANGED accounts
  /\ UNCHANGED <<backend, now, up, invites, expires, jar, spent>>

(* Whatever UseInviteToken answers, the handler goes on: it sends a cookie *)
(* "i" with a negative MaxAge and no Path, which the browser files under   *)
(* the directory of the request, /signup.                                  *)
Answer(h) ==
  /\ Finish(h)
  /\ jar' = [jar EXCEPT ![proc[h].browser]["/signup"] = None]

(* BEGIN and SELECT expires: no row, expired and failed all end it.        *)
UseSelect(h) ==
  LET t == proc[h].token IN
  /\ At(h, "select")
  /\ \/ /\ t \in invites /\ now <= expires[t]
        /\ Goto(h, "delete")
        /\ UNCHANGED jar
     \/ Answer(h)
  /\ UNCHANGED <<backend, now, up, invites, expires, accounts, spent>>

(* DELETE.  sqlite: one transaction gets the reserved lock, another one    *)
(* fails at once.  PostgreSQL: waits for the row, and may then find none.  *)
UseDelete(h) ==
  /\ At(h, "delete")
  /\ \/ /\ IF backend = "sqlite"
           THEN \A g \in Handlers : proc[g].pc # "commit"
           ELSE ~Locked(proc[h].token)
        /\ Goto(h, "commit")
        /\ UNCHANGED jar
     \/ Answer(h)
  /\ UNCHANGED <<backend, now, up, invites, expires, accounts, spent>>

(* Mutant: UseInviteToken answers ok and leaves the Rollback to the defer. *)
UseCommitForgotten(h) ==
  LET t == proc[h].token IN
  /\ At(h, "commit")
  /\ Answer(h)
  /\ spent' = [spent EXCEPT ![t] = @ + 1]
  /\ UNCHANGED <<backend, now, up, invites, expires, accounts>>

(* COMMIT.  sqlite needs the file for itself, and gives up after a while.  *)
(* A commit may also take effect and be reported as failed.                *)
UseCommit(h) ==
  LET t == proc[h].token IN
  /\ At(h, "commit")
  /\ Answer(h)
  /\ \/ /\ backend = "sqlite" => \A g \in Handlers \ {h} : ~InTx(g)
        /\ invites' = invites \ {t}
        /\ spent' = [spent EXCEPT ![t] = @ + 1] \/ UNCHANGED spent
     \/ UNCHANGED <<invites, spent>>
  /\ UNCHANGED <<backend, now, up, expires, accounts>>

-----------------------------------------------------------------------------
(* gcThread and the world.                                                 *)

(* One tick of gcThread.  On sqlite the statement fails and the error is   *)
(* dropped.                                                                *)
GcPass ==
  /\ up
  /\ \A t \in ExpiredRows : ~Locked(t)
  /\ invites' = invites \ ExpiredRows
  /\ UNCHANGED <<backend, now, up, expires, jar, proc, accounts, spent>>

(* On PostgreSQL a failed statement leaves a nil result, whose RowsAffected*)
(* panics on a goroutine nobody recovers: the process dies.                *)
GcPanics ==
  /\ backend = "postgres" /\ up
  /\ up' = FALSE
  /\ proc' = [h \in Handlers |-> Idle]
  /\ UNCHANGED <<backend, now, invites, expires, jar, accounts, spent>>

(* The process dies; open transactions are rolled back.                    *)
Crash ==
  /\ up
  /\ up' = FALSE
  /\ proc' = [h \in Handlers |-> Idle]
  /\ UNCHANGED <<backend, now, invites, expires, jar, accounts, spent>>

Restart ==
  /\ ~up
  /\ up' = TRUE
  /\ UNCHANGED <<backend, now, invites, expires, jar, proc, accounts, spent>>

(* Browsers drop a cookie when its token has expired.                      *)
Tick ==
  /\ now < MaxTime
  /\ now' = now + 1
  /\ jar' = [b \in Browsers |-> [p \in Paths |->
       IF jar[b][p] # None /\ expires[jar[b][p]] <= now' THEN None ELSE jar[b][p]]]
  /\ UNCHANGED <<backend, up, invites, expires, proc, accounts, spent>>

-----------------------------------------------------------------------------
Step(h) ==
  Peek(h) \/ PutNewUser(h) \/ UseSelect(h) \/ UseDelete(h) \/ UseCommit(h)

Next ==
  \/ \E h \in Handlers : Step(h)
  \/ \E h \in Handlers, b \in Browsers : Post(h, b)
  \/ \E t \in Tokens, l \in Lifetimes : MakeInvite(t, l)
  \/ \E b \in Browsers, t \in Tokens : OpenInvite(b, t)
  \/ GcPass \/ GcPanics \/ Crash \/ Restart \/ Tick

Spec == Init /\ [][Next]_vars

(* The scheduler runs every goroutine, gcThread's ticker keeps ticking and *)
(* the database answers; nothing restarts the process or makes clients act.*)
FairSpec == Spec /\ WF_vars(GcPass) /\ \A h \in Handlers : WF_vars(Step(h))

-----------------------------------------------------------------------------
(* Properties.                                                             *)

(* UseInviteToken answers ok at most once for a token (db_test.go:110-115, *)
(* "invite token double spend"), however its transactions interleave.      *)
SpentOnce == \A t \in Tokens : spent[t] <= 1

(* Over the sqlite file, the locks of the file see to it.                  *)
SqliteSpentOnce == backend = "sqlite" => SpentOnce

(* A token is only used up by sign-ups that made an account: every spent   *)
(* one, and every one on its way through UseInviteToken, has its own.      *)
SpentForAccount ==
  \A t \in Tokens :
    spent[t] + Cardinality({h \in Handlers : proc[h].pc \in {"select", "delete", "commit"}
                                             /\ proc[h].token = t})
      <= accounts[t]

(* Once UseInviteToken has answered ok, no further sign-up gets past the   *)
(* check of handlePOST, whatever crashed or was rolled back in between.    *)
NoLateSignup ==
  [][\A h \in Handlers : proc[h].pc = "peek" /\ proc'[h].pc = "create"
       => spent[proc[h].token] = 0]_vars

(* A row leaves the table by a COMMIT of UseInviteToken for that token or  *)
(* after it expired: no crash or failed transaction loses an invitation.   *)
NotLost ==
  [][\A t \in Tokens : t \in invites /\ t \notin invites' =>
       \/ expires[t] < now
       \/ \E h \in Handlers : proc[h].token = t /\ At(h, "commit") /\ proc'[h] = Idle]_vars

(* Over PostgreSQL it is, whatever sign-ups hold the row meanwhile.        *)
PostgresCollects ==
  \A t \in Tokens :
    (backend = "postgres" /\ up /\ t \in invites /\ expires[t] < now)
      ~> (t \notin invites \/ ~up)
=============================================================================
