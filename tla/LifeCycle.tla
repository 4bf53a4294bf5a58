----------------------------- MODULE LifeCycle ------------------------------
(***************************************************************************)
(* From the start of ballotstudio to its end: main (cmd/ballotstudio/      *)
(* main.go) has EnsureBackend (draw/drawsub.go) start a Flask process and  *)
(* poll it until it answers, listens, and ends in log.Fatal when SIGTERM   *)
(* closes its server.  All processes use the same two ports.  A draw       *)
(* server has the name of the main that started it.                        *)
(*                                                                         *)
(* The draw server is started with FLASK_ENV=development, which makes the  *)
(* versions of Flask before 2.3 use the reloader: the process that was     *)
(* started opens the port and has a child of its own serve on it.          *)
(***************************************************************************)
EXTENDS Naturals, FiniteSets

CONSTANTS Mains,     \* processes of ballotstudio, one after another or at once
          Requests,  \* requests, named by their clients
          Reloading, \* mains whose flask uses the reloader
          MaxPolls,  \* tries of StartWait within its timeout
          Nobody

ASSUME NobodyAssumption == Nobody \notin Mains
ASSUME ReloadingAssumption == Reloading \subseteq Mains
ASSUME PollsAssumption == MaxPolls \in Nat \ {0}

VARIABLES main,     \* where each main is, how often it has polled
          flask,    \* the draw server each main has started
          drawPort, \* the draw server that has its port, or Nobody
          httpPort, \* the main that listens, or Nobody
          sigterm,  \* main -> a SIGTERM is in the channel
          handler,  \* main -> sigtermHandler: "wait", "shutdown", "done"
          inflight, \* main -> the requests it is serving
          answered, \* history: main -> the draw server whose answer it started on
          ended     \* history: main -> how it ended

lifeVars == <<main, flask, drawPort, httpPort, sigterm, handler, inflight, answered, ended>>

Pcs == {"new", "poll", "ready", "notified", "serving", "exited"}
Flask == {"none", "starting", "serving", "orphan", "gone"}
    \* orphan: the process that main started is gone, its child serves on
Ends == {"no", "nostart", "timeout", "fatal", "signal", "kill"}

LifeInit ==
  /\ main = [m \in Mains |-> [pc |-> "new", polls |-> 0]]
  /\ flask = [m \in Mains |-> "none"]
  /\ drawPort = Nobody /\ httpPort = Nobody
  /\ sigterm = [m \in Mains |-> FALSE]
  /\ handler = [m \in Mains |-> "wait"]
  /\ inflight = [m \in Mains |-> {}]
  /\ answered = [m \in Mains |-> Nobody]
  /\ ended = [m \in Mains |-> "no"]

-----------------------------------------------------------------------------
At(m, pc) == main[m].pc = pc
Goto(m, pc) == main' = [main EXCEPT ![m].pc = pc]
Alive(m) == main[m].pc \notin {"new", "exited"}

(* The process is gone, with its listener and its requests; log.Fatal and  *)
(* os.Exit run no deferred call, so its draw server is left alone.         *)
Exit(m, how) ==
  /\ Goto(m, "exited")
  /\ ended' = [ended EXCEPT ![m] = how]
  /\ inflight' = [inflight EXCEPT ![m] = {}]
  /\ httpPort' = IF httpPort = m THEN Nobody ELSE httpPort

(* Mutant: the timeout returns without Stop.                               *)
StopNothing(m) == UNCHANGED <<flask, drawPort>>

(* Mutant: Stop ends whoever has the port.                                 *)
StopPort(m) ==
  /\ flask' = [n \in Mains |-> IF n \in {m, drawPort} THEN "gone" ELSE flask[n]]
  /\ drawPort' = Nobody

(* DrawServer.Stop kills the process that Start has started.  The child of *)
(* a reloader keeps the port, once there is one.                           *)
Stop(m) ==
  \/ /\ flask' = [flask EXCEPT ![m] = "gone"]
     /\ drawPort' = IF drawPort = m THEN Nobody ELSE drawPort
  \/ /\ m \in Reloading /\ flask[m] = "serving"
     /\ flask' = [flask EXCEPT ![m] = "orphan"]
     /\ UNCHANGED drawPort

(* EnsureBackend: a backend given by a flag is used as it is; otherwise    *)
(* DrawServer.Start, which may fail.                                       *)
Start(m) ==
  /\ At(m, "new")
  /\ \/ Goto(m, "ready") /\ UNCHANGED <<flask, ended, inflight, httpPort>>
     \/ /\ Goto(m, "poll")
        /\ flask' = [flask EXCEPT ![m] = "starting"]
        /\ UNCHANGED <<ended, inflight, httpPort>>
     \/ Exit(m, "nostart") /\ UNCHANGED flask
  /\ UNCHANGED <<drawPort, sigterm, handler, answered>>

(* Flask takes its port, or ends because another has it.                   *)
Bind(m) ==
  /\ flask[m] = "starting"
  /\ \/ drawPort = Nobody /\ drawPort' = m /\ flask' = [flask EXCEPT ![m] = "serving"]
     \/ drawPort # Nobody /\ flask' = [flask EXCEPT ![m] = "gone"] /\ UNCHANGED drawPort
  /\ UNCHANGED <<main, httpPort, sigterm, handler, inflight, answered, ended>>

(* StartWait: /demo.js is fetched from whoever has the port.               *)
PollAnswered(m) ==
  /\ At(m, "poll") /\ drawPort # Nobody
  /\ Goto(m, "ready")
  /\ answered' = [answered EXCEPT ![m] = drawPort]
  /\ UNCHANGED <<flask, drawPort, httpPort, sigterm, handler, inflight, ended>>

(* Mutant: one poll too many.                                              *)
PollFailsLate(m) ==
  /\ At(m, "poll")
  /\ IF main[m].polls < MaxPolls
     THEN /\ main' = [main EXCEPT ![m].polls = @ + 1]
          /\ UNCHANGED <<flask, drawPort, httpPort, inflight, ended>>
     ELSE Exit(m, "timeout") /\ Stop(m)
  /\ UNCHANGED <<sigterm, handler, answered>>

(* Nobody answers, or not in time; after the last try EnsureBackend stops  *)
(* what it has started and main exits.                                     *)
PollFails(m) ==
  /\ At(m, "poll")
  /\ IF main[m].polls + 1 < MaxPolls
     THEN /\ main' = [main EXCEPT ![m].polls = @ + 1]
          /\ UNCHANGED <<flask, drawPort, httpPort, inflight, ended>>
     ELSE Exit(m, "timeout") /\ Stop(m)
  /\ UNCHANGED <<sigterm, handler, answered>>

(* The archive directory, the OAuth file or another thing main needs       *)
(* fails: maybefail.                                                       *)
SetUpFails(m) ==
  /\ At(m, "ready") /\ Exit(m, "fatal")
  /\ UNCHANGED <<flask, drawPort, sigterm, handler, answered>>

(* sigtermHandler runs and signal.Notify feeds it.                         *)
Notify(m) ==
  /\ At(m, "ready") /\ Goto(m, "notified")
  /\ UNCHANGED <<flask, drawPort, httpPort, sigterm, handler, inflight, answered, ended>>

(* ListenAndServe, unless the port is taken or Shutdown was called.        *)
Listen(m) ==
  /\ At(m, "notified") /\ handler[m] # "done"
  /\ \/ /\ httpPort = Nobody /\ httpPort' = m /\ Goto(m, "serving")
        /\ UNCHANGED <<inflight, ended>>
     \/ httpPort # Nobody /\ Exit(m, "fatal")
  /\ UNCHANGED <<flask, drawPort, sigterm, handler, answered>>

(* Mutant: it waits for the requests.                                      *)
ServeReturnsDrained(m) ==
  /\ main[m].pc \in {"notified", "serving"} /\ handler[m] = "done" /\ inflight[m] = {}
  /\ Exit(m, "fatal")
  /\ UNCHANGED <<flask, drawPort, sigterm, handler, answered>>

(* It returns as soon as Shutdown begins: log.Fatal.                       *)
ServeReturns(m) ==
  /\ main[m].pc \in {"notified", "serving"} /\ handler[m] = "done"
  /\ Exit(m, "fatal")
  /\ UNCHANGED <<flask, drawPort, sigterm, handler, answered>>

-----------------------------------------------------------------------------
(* SIGTERM ends a process that has not asked for it; otherwise it is put   *)
(* into the channel, which has room for one.                               *)
Sigterm(m) ==
  /\ Alive(m)
  /\ IF main[m].pc \in {"poll", "ready"}
     THEN Exit(m, "signal") /\ UNCHANGED sigterm
     ELSE sigterm' = [sigterm EXCEPT ![m] = TRUE] /\ UNCHANGED <<main, inflight, httpPort, ended>>
  /\ UNCHANGED <<flask, drawPort, handler, answered>>

Kill(m) ==
  /\ Alive(m) /\ Exit(m, "kill")
  /\ UNCHANGED <<flask, drawPort, sigterm, handler, answered>>

(* sigtermHandler: the signal is taken and cf cancels the contexts; then   *)
(* Shutdown closes the listener and waits for the requests.                *)
TakeSignal(m) ==
  /\ Alive(m) /\ handler[m] = "wait" /\ sigterm[m]
  /\ sigterm' = [sigterm EXCEPT ![m] = FALSE]
  /\ handler' = [handler EXCEPT ![m] = "shutdown"]
  /\ UNCHANGED <<main, flask, drawPort, httpPort, inflight, answered, ended>>

Shutdown(m) ==
  /\ Alive(m) /\ handler[m] = "shutdown"
  /\ handler' = [handler EXCEPT ![m] = "done"]
  /\ httpPort' = IF httpPort = m THEN Nobody ELSE httpPort
  /\ UNCHANGED <<main, flask, drawPort, sigterm, inflight, answered, ended>>

(* A client is served while its main lives, also during Shutdown.          *)
Arrive(m, r) ==
  /\ httpPort = m /\ \A n \in Mains : r \notin inflight[n]
  /\ inflight' = [inflight EXCEPT ![m] = @ \cup {r}]
  /\ UNCHANGED <<main, flask, drawPort, httpPort, sigterm, handler, answered, ended>>

Finish(m, r) ==
  /\ r \in inflight[m]
  /\ inflight' = [inflight EXCEPT ![m] = @ \ {r}]
  /\ UNCHANGED <<main, flask, drawPort, httpPort, sigterm, handler, answered, ended>>

Main(m) == PollAnswered(m) \/ PollFails(m) \/ SetUpFails(m) \/ Notify(m)
           \/ Listen(m) \/ ServeReturns(m)
SigtermHandler(m) == TakeSignal(m) \/ Shutdown(m)

LifeNext == \E m \in Mains :
  \/ Start(m) \/ Main(m) \/ SigtermHandler(m) \/ Bind(m) \/ Sigterm(m) \/ Kill(m)
  \/ \E r \in Requests : Arrive(m, r) \/ Finish(m, r)

LifeSpec == LifeInit /\ [][LifeNext]_lifeVars

(* A main that was started and its signal handler go on; requests need not *)
(* end and signals need not come.                                          *)
LifeFair == LifeSpec /\ \A m \in Mains : WF_lifeVars(Main(m)) /\ WF_lifeVars(SigtermHandler(m))

-----------------------------------------------------------------------------
(* Types; the draw port is held by the one draw server that serves, and    *)
(* the listener belongs to a main that serves.                             *)
LifeTypeOK ==
  /\ main \in [Mains -> [pc : Pcs, polls : 0 .. MaxPolls - 1]]
  /\ flask \in [Mains -> Flask]
  /\ drawPort \in Mains \cup {Nobody} /\ httpPort \in Mains \cup {Nobody}
  /\ sigterm \in [Mains -> BOOLEAN]
  /\ handler \in [Mains -> {"wait", "shutdown", "done"}]
  /\ inflight \in [Mains -> SUBSET Requests]
  /\ answered \in [Mains -> Mains \cup {Nobody}]
  /\ ended \in [Mains -> Ends]
  /\ \A m \in Mains : flask[m] \in {"serving", "orphan"} <=> drawPort = m
  /\ \A m \in Mains : httpPort = m => At(m, "serving")

(* A start that fails or times out leaves no draw server behind, neither   *)
(* one that serves nor one that comes up later, except the child of a      *)
(* reloader which serves already (drawsub.go:54-57, 134-141, 311-319).     *)
(* It says nothing of a main that ends past EnsureBackend or by a signal:  *)
(* that leaves its draw server running.                                    *)
NoStrayBackend ==
  \A m \in Mains : ended[m] \in {"nostart", "timeout"} =>
    flask[m] \in {"none", "gone"} \/ (m \in Reloading /\ flask[m] = "orphan")

(* A main keeps the draw server it started on, its own or one that another *)
(* main has started or left behind, until it ends, whatever other          *)
(* processes start, time out, stop and end meanwhile.  It can lose         *)
(* another's only when that other main's own start timed out.              *)
BackendStays ==
  \A m \in Mains :
    main[m].pc \in {"ready", "notified", "serving"} /\ answered[m] # Nobody
      => drawPort = answered[m] \/ (answered[m] # m /\ ended[answered[m]] = "timeout")

(* SIGTERM ends a main that listens for it, before its listener is open or *)
(* after, even if its requests never end (main.go:576-582, 751).           *)
SigtermEnds == \A m \in Mains : sigterm[m] ~> At(m, "exited")
=============================================================================
