------------------------------ MODULE Process ------------------------------
(***************************************************************************)
(* The life of the process (main of src/main.rs, src/systemd.rs) and of    *)
(* the connections it serves, around the mutex of the LND client: start,   *)
(* readiness, SIGTERM, graceful shutdown, watchdog, an LND that answers    *)
(* late or never, and clients that leave at any point.                     *)
(*                                                                         *)
(* The tasks of the runtime are the main task, the shutdown task (axum     *)
(* spawns the future given to with_graceful_shutdown), the watchdog task   *)
(* and one task per connection.  A step of a task ends where it awaits.    *)
(*                                                                         *)
(* Time is real time in units of the model, and only counted for the       *)
(* watchdog.  What is sold, and for what, is the business of Server.       *)
(***************************************************************************)
EXTENDS LndLock

CONSTANTS
  Clients,       \* connections that may exist at a time
  Buyers,        \* those whose requests need an invoice from LND
  Dispositions,  \* what SIGTERM does by default: "kills", or as PID 1 "ignored"
  WatchdogSec,   \* of the unit
  MaxLate        \* how late a live runtime may run a task that is due

MainTask == "main task"

ASSUME ProcessAssumption ==
  /\ MainTask \notin Clients
  /\ Buyers \subseteq Clients
  /\ Dispositions \subseteq {"kills", "ignored"}
  /\ WatchdogSec \in Nat \ {0, 1} /\ MaxLate \in Nat
  /\ 2 * MaxLate < WatchdogSec

VARIABLES
  main,      \* where the main task is
  shutdown,  \* where the shutdown task is
  told,      \* the last state sent to systemd, kept when the process ends
  outcome,   \* how the last process ended
  conn,      \* where each connection and its request is
  quiet,     \* time since systemd last heard of the watchdog
  hung       \* whether the runtime has stopped making progress

vars == <<queue, main, shutdown, told, outcome, conn, quiet, hung>>
watchVars == <<quiet, hung>>

Live == main # "off" /\ ~ hung

-----------------------------------------------------------------------------
Init ==
  /\ LockInit
  /\ main = "off" /\ shutdown = "none" /\ told = "none" /\ outcome = "none"
  /\ conn = [r \in Clients |-> "none"]
  /\ quiet = 0 /\ hung = FALSE

\* systemd, or an operator, starts the process, which connects to LND.
StartProcess ==
  /\ main = "off"
  /\ main' = "connect" /\ told' = "none" /\ outcome' = "none"
  /\ UNCHANGED <<queue, shutdown, conn, watchVars>>

\* The process ends.  Connections are reset, also those in the backlog.
Ends(how) ==
  /\ main' = "off" /\ outcome' = how
  /\ shutdown' = "none"
  /\ conn' = [r \in Clients |-> "none"]
  /\ queue' = <<>> /\ quiet' = 0 /\ hung' = FALSE
  /\ UNCHANGED told

\* LND is connected.  Without PUBLIC_URL from_app returns at once; with it, it
\* takes the mutex for get_info.
Connected ==
  /\ Live /\ main = "connect"
  /\ \/ main' = "info" /\ Lock(MainTask)
     \/ main' = "bind" /\ UNCHANGED queue
  /\ UNCHANGED <<shutdown, told, outcome, conn, watchVars>>

\* Mutant: a guard bound to a variable of main, which outlives from_app.
InfoArrives_KeepsGuard ==
  /\ Live /\ main = "info" /\ Holds(MainTask)
  /\ main' = "bind"
  /\ UNCHANGED <<queue, shutdown, told, outcome, conn, watchVars>>

InfoArrives ==
  /\ Live /\ main = "info" /\ Holds(MainTask)
  /\ main' = "bind" /\ Unlock(MainTask)
  /\ UNCHANGED <<shutdown, told, outcome, conn, watchVars>>

\* Any `?` of main before it serves.
StartFails ==
  /\ Live /\ main \in {"connect", "info", "bind"}
  /\ Ends("failure")

Bind ==
  /\ Live /\ main = "bind"
  /\ main' = "bound"
  /\ UNCHANGED <<queue, shutdown, told, outcome, conn, watchVars>>

\* spawn_watchdog and notify_ready.  systemd minds the watchdog from now on.
Announce ==
  /\ Live /\ main = "bound"
  /\ main' = "ready" /\ told' = "ready" /\ quiet' = 0
  /\ UNCHANGED <<queue, shutdown, outcome, conn, hung>>

\* axum::serve spawns the shutdown task and enters its accept loop.
Serve ==
  /\ Live /\ main = "ready"
  /\ main' = "serving" /\ shutdown' = "spawned"
  /\ UNCHANGED <<queue, told, outcome, conn, watchVars>>

-----------------------------------------------------------------------------
\* shutdown_signal.  Its select! polls both branches, which installs the
\* handlers of SIGINT and SIGTERM.
Arm ==
  /\ Live /\ shutdown = "spawned"
  /\ shutdown' = "armed"
  /\ UNCHANGED <<queue, main, told, outcome, conn, watchVars>>

\* A SIGTERM before that meets the default disposition.  Once handlers are
\* installed they stay, so that later signals change nothing.
Signal ==
  /\ main # "off"
  /\ \/ /\ shutdown \in {"none", "spawned"} /\ "kills" \in Dispositions
        /\ Ends("sigterm")
     \/ /\ shutdown = "armed" /\ shutdown' = "caught"
        /\ UNCHANGED <<queue, main, told, outcome, conn, watchVars>>

\* notify_stopping, and shutdown_signal returns.
NotifyStopping ==
  /\ Live /\ shutdown = "caught"
  /\ shutdown' = "done" /\ told' = "stopping"
  /\ UNCHANGED <<queue, main, outcome, conn, watchVars>>

-----------------------------------------------------------------------------
Moves(r, from, to) == conn[r] = from /\ conn' = [conn EXCEPT ![r] = to]

\* The kernel accepts for a listener that is bound.
ClientConnects(r) ==
  /\ main \in {"bound", "ready", "serving"}
  /\ Moves(r, "none", "backlog")
  /\ UNCHANGED <<queue, main, shutdown, told, outcome, watchVars>>

Accept(r) ==
  /\ Live /\ main = "serving"
  /\ Moves(r, "backlog", "open")
  /\ UNCHANGED <<queue, main, shutdown, told, outcome, watchVars>>

\* Mutant: the accept loop ends with the signal itself.
StopAccepting_OnSignal ==
  /\ Live /\ main = "serving" /\ shutdown = "caught"
  /\ main' = "draining"
  /\ conn' = [r \in Clients |-> IF conn[r] = "backlog" THEN "none" ELSE conn[r]]
  /\ UNCHANGED <<queue, shutdown, told, outcome, watchVars>>

\* The accept loop sees that shutdown_signal returned, and drops the listener.
StopAccepting ==
  /\ Live /\ main = "serving" /\ shutdown = "done"
  /\ main' = "draining"
  /\ conn' = [r \in Clients |-> IF conn[r] = "backlog" THEN "none" ELSE conn[r]]
  /\ UNCHANGED <<queue, shutdown, told, outcome, watchVars>>

\* A connection without a request is closed once the shutdown has begun.
CloseIdle(r) ==
  /\ Live /\ shutdown = "done"
  /\ Moves(r, "open", "none")
  /\ UNCHANGED <<queue, main, shutdown, told, outcome, watchVars>>

\* Mutant: main returns without waiting for the connections.
Drained_WithoutWaiting ==
  /\ Live /\ main = "draining"
  /\ Ends("success")

\* serve returns when the last connection has ended, and so does main.
Drained ==
  /\ Live /\ main = "draining"
  /\ \A r \in Clients : conn[r] = "none"
  /\ Ends("success")

-----------------------------------------------------------------------------
\* The first bytes of a request arrive.
Receive(r) ==
  /\ Live
  /\ Moves(r, "open", "reading")
  /\ UNCHANGED <<queue, main, shutdown, told, outcome, watchVars>>

\* Mutant: every handler takes the mutex.
Dispatch_Locks(r) ==
  /\ Live
  /\ Moves(r, "reading", "waiting")
  /\ Lock(r)
  /\ UNCHANGED <<main, shutdown, told, outcome, watchVars>>

\* The rest of the request arrives and its handler runs to the first await or
\* to the end: /, /health, credentials, a payment that is good and everything
\* malformed are answered at once, the others need an invoice from LND.
Dispatch(r) ==
  /\ Live
  /\ \/ r \in Buyers    /\ Moves(r, "reading", "waiting") /\ Lock(r)
     \/ r \notin Buyers /\ Moves(r, "reading", "replying") /\ UNCHANGED queue
  /\ UNCHANGED <<main, shutdown, told, outcome, watchVars>>

\* lock() returns and the handler calls add_invoice, which has no timeout.
CallLnd(r) ==
  /\ Live /\ Holds(r)
  /\ Moves(r, "waiting", "calling")
  /\ UNCHANGED <<queue, main, shutdown, told, outcome, watchVars>>

\* LND's answer, or its error, which the handler answers likewise: the guard
\* goes and the rest of the handler runs without an await.
LndAnswers(r) ==
  /\ Live
  /\ Moves(r, "calling", "replying") /\ Unlock(r)
  /\ UNCHANGED <<main, shutdown, told, outcome, watchVars>>

\* The response is written.  The connection is kept unless the server stops.
Reply(r) ==
  /\ Live
  /\ Moves(r, "replying", IF shutdown = "done" THEN "none" ELSE "open")
  /\ UNCHANGED <<queue, main, shutdown, told, outcome, watchVars>>

\* Mutant: a handler that is dropped leaves its place in the queue behind.
ClientLeaves_KeepsPlace(r) ==
  /\ conn[r] = "backlog" \/ (Live /\ conn[r] # "none")
  /\ conn' = [conn EXCEPT ![r] = "none"]
  /\ UNCHANGED <<queue, main, shutdown, told, outcome, watchVars>>

\* The client disconnects: its handler is dropped wherever it awaits, and with
\* it its guard or its place in the queue.
ClientLeaves(r) ==
  /\ conn[r] = "backlog" \/ (Live /\ conn[r] # "none")
  /\ conn' = [conn EXCEPT ![r] = "none"]
  /\ IF conn[r] \in {"waiting", "calling"} THEN Unlock(r) ELSE UNCHANGED queue
  /\ UNCHANGED <<main, shutdown, told, outcome, watchVars>>

-----------------------------------------------------------------------------
\* Mutant: pings at the whole timeout.
interval_Whole == WatchdogSec

interval == WatchdogSec \div 2

\* Mutant: the pings come from a thread of their own.
Ping_OwnThread ==
  /\ main # "off" /\ told # "none"
  /\ quiet' = 0
  /\ UNCHANGED <<queue, main, shutdown, told, outcome, conn, hung>>

\* The watchdog task, while the runtime makes progress.
Ping ==
  /\ Live /\ told # "none"
  /\ quiet' = 0
  /\ UNCHANGED <<queue, main, shutdown, told, outcome, conn, hung>>

\* Every worker thread is stuck for good, say in a disk that hangs.
Hang ==
  /\ Live /\ hung' = TRUE
  /\ UNCHANGED <<queue, main, shutdown, told, outcome, conn, quiet>>

\* Time passes.  A ping that is due is at most MaxLate late unless the runtime
\* hangs, and systemd acts when WatchdogSec are over.
Tick ==
  /\ main # "off" /\ told # "none" /\ quiet < WatchdogSec
  /\ ~ hung => quiet < interval + MaxLate
  /\ quiet' = quiet + 1
  /\ UNCHANGED <<queue, main, shutdown, told, outcome, conn, hung>>

WatchdogKills ==
  /\ main # "off" /\ quiet = WatchdogSec
  /\ Ends("watchdog")

\* The process crashes, or is killed: by an operator, or by systemd when a
\* start or a stop takes too long.
Crash == main # "off" /\ Ends("killed")

-----------------------------------------------------------------------------
Next ==
  \/ StartProcess \/ Connected \/ InfoArrives \/ StartFails
  \/ Bind \/ Announce \/ Serve \/ Arm \/ NotifyStopping
  \/ StopAccepting \/ Drained \/ Ping
  \/ Signal \/ Hang \/ Tick \/ WatchdogKills \/ Crash
  \/ \E r \in Clients :
       \/ ClientConnects(r) \/ Accept(r) \/ CloseIdle(r) \/ Receive(r)
       \/ Dispatch(r) \/ CallLnd(r) \/ LndAnswers(r) \/ Reply(r)
       \/ ClientLeaves(r)

\* The scheduler runs every task that can go on, time passes, and systemd minds
\* the watchdog.  Nothing is assumed of LND, of the clients or of operators,
\* and of start attempts only what systemd does for them.
Fairness ==
  /\ WF_vars(Bind) /\ WF_vars(Announce) /\ WF_vars(Serve) /\ WF_vars(Arm)
  /\ WF_vars(NotifyStopping) /\ WF_vars(StopAccepting) /\ WF_vars(Drained)
  /\ WF_vars(Ping) /\ WF_vars(Tick) /\ WF_vars(WatchdogKills)
  /\ \A r \in Clients : /\ WF_vars(Accept(r)) /\ WF_vars(CloseIdle(r))
                        /\ WF_vars(CallLnd(r)) /\ WF_vars(Reply(r))

Spec == Init /\ [][Next]_vars

FairSpec == Spec /\ Fairness

\* Hypotheses of some properties: LND answers every call, and whoever begins to
\* send a request finishes it.
LndAnswersAll ==
  WF_vars(InfoArrives) /\ \A r \in Clients : WF_vars(LndAnswers(r))
ClientsFinish == \A r \in Clients : WF_vars(Dispatch(r))

-----------------------------------------------------------------------------
Stages == {"none", "backlog", "open", "reading", "waiting", "calling", "replying"}

TypeOK ==
  /\ queue \in Seq(Clients \cup {MainTask})
  /\ main \in {"off", "connect", "info", "bind", "bound", "ready", "serving",
               "draining"}
  /\ shutdown \in {"none", "spawned", "armed", "caught", "done"}
  /\ told \in {"none", "ready", "stopping"}
  /\ outcome \in {"none", "success", "failure", "sigterm", "killed", "watchdog"}
  /\ conn \in [Clients -> Stages]
  /\ quiet \in 0 .. WatchdogSec
  /\ hung \in BOOLEAN

\* A process that has ended leaves nothing behind but what systemd knows.
OffIsClean ==
  main = "off" =>
    /\ conn = [r \in Clients |-> "none"] /\ queue = <<>>
    /\ quiet = 0 /\ hung = FALSE

Active == {"reading", "waiting", "calling", "replying"}

Users == {r \in Clients : conn[r] \in {"waiting", "calling"}}
         \cup {t \in {MainTask} : main = "info"}

\* Exactly the tasks that use LND or wait for it are in the queue, once each,
\* and the one that calls LND is its head.  In particular the mutex is never
\* owned by a handler that is gone.
LockIsExact ==
  /\ IsInjective(queue) /\ ToSet(queue) = Users
  /\ \A r \in Clients : conn[r] = "calling" => Holds(r)

\* Connections exist only for a listener, and requests only once it accepts.
ConnectionsFitMain ==
  \A r \in Clients :
    /\ main \in {"connect", "info", "bind"} => conn[r] = "none"
    /\ main \in {"bound", "ready"} => conn[r] \in {"none", "backlog"}
    /\ main = "draining" => conn[r] # "backlog"

ShutdownFitsMain ==
  /\ shutdown = "none" <=> main \notin {"serving", "draining"}
  /\ main = "draining" => shutdown = "done"
  /\ main # "off" =>
       /\ told = "none" <=> main \in {"connect", "info", "bind", "bound"}
       /\ told = "stopping" <=> shutdown = "done"
  /\ main # "off" => outcome = "none"

\* A runtime that makes progress pings in time.
PingsAreInTime ==
  /\ main # "off" /\ told = "none" => quiet = 0
  /\ ~ hung => quiet <= interval + MaxLate

\* The inductive invariant.
ProcessInv ==
  /\ TypeOK /\ OffIsClean /\ LockIsExact /\ ConnectionsFitMain
  /\ ShutdownFitsMain /\ PingsAreInTime

-----------------------------------------------------------------------------
\* From READY until STOPPING clients can connect: "`systemctl start` then
\* returns only once the server is connected to LND and listening"
\* (README.md:112), and a stop is announced before the listener goes.
ReadyMeansListening ==
  main # "off" /\ told = "ready" => main \in {"ready", "serving"}

\* systemd restarts a process for its silence only if its runtime hangs
\* (src/systemd.rs:28-31): an LND that does not answer, a full queue for the
\* mutex or a long drain never look like that.
OnlyHungIsKilled ==
  [][outcome' = "watchdog" /\ main' # main => hung]_vars

\* What systemd and clients see of the process is the abstract service.
SystemdState == IF main = "off" THEN "down"
                ELSE IF told = "none" THEN "starting" ELSE told
Requests == {r \in Clients : conn[r] \in Active}

S == INSTANCE Service WITH state <- SystemdState, open <- Requests

ImplementsService == S!ServiceSpec

\* A hang ends: "systemd restarts it when the process stops responding"
\* (README.md:115).
HungIsKilled == hung /\ told # "none" ~> main = "off"

\* If LND answers, every handler that needs it gets the mutex and answers (or
\* its client leaves), whoever disconnects while it waits or holds the mutex.
ChallengesAreAnswered ==
  LndAnswersAll =>
    \A r \in Buyers :
      conn[r] \in {"waiting", "calling"} ~> conn[r] \in {"open", "none"}

\* What needs no invoice is answered even if LND never answers anything:
\* /health and paid requests do not queue behind it.
LocalNeedsNoLnd ==
  ClientsFinish =>
    \A r \in Clients \ Buyers :
      conn[r] \in Active ~> conn[r] \in {"open", "none"}

\* A stop ends the process, through everything that drains, if LND answers and
\* clients do not stall in the middle of a request.
StopEnds ==
  LndAnswersAll /\ ClientsFinish => (shutdown = "caught" ~> main = "off")

\* "`systemctl stop` sends `SIGTERM`, which starts a graceful shutdown."
\* (README.md:113): a SIGTERM never ends a process that has said READY at once.
StopIsGraceful == outcome = "sigterm" => told = "none"
=============================================================================
