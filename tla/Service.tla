------------------------------ MODULE Service ------------------------------
(***************************************************************************)
(* What the process promises to systemd, which started it as a Type=notify *)
(* unit, and to its clients (src/systemd.rs, shutdown_signal of            *)
(* src/main.rs, README.md "systemd"): it takes requests only once it is    *)
(* ready, it still takes and finishes them while it stops, and it reports  *)
(* success only when it was told to stop and no request is open.           *)
(***************************************************************************)
CONSTANT Clients

VARIABLES
  state,     \* what systemd knows: down, starting, ready or stopping
  open,      \* the clients that have sent a request and await its answer
  outcome    \* how the last process ended: none while the first one runs

serviceVars == <<state, open, outcome>>

ServiceInit == state = "down" /\ open = {} /\ outcome = "none"

Start ==
  /\ state = "down"
  /\ state' = "starting" /\ outcome' = "none"
  /\ UNCHANGED open

BecomeReady ==
  /\ state = "starting" /\ state' = "ready"
  /\ UNCHANGED <<open, outcome>>

Take(r) ==
  /\ state \in {"ready", "stopping"}
  /\ r \notin open /\ open' = open \cup {r}
  /\ UNCHANGED <<state, outcome>>

Finish(r) ==
  /\ r \in open /\ open' = open \ {r}
  /\ UNCHANGED <<state, outcome>>

Stop ==
  /\ state = "ready" /\ state' = "stopping"
  /\ UNCHANGED <<open, outcome>>

Exit ==
  /\ state = "stopping" /\ open = {}
  /\ state' = "down" /\ outcome' = "success"
  /\ UNCHANGED open

\* Any other end cuts the open requests.  An error ends the process only
\* before it is ready, and SIGTERM only before it has announced its stop.
Die ==
  /\ state # "down"
  /\ \/ outcome' = "killed"
     \/ outcome' = "watchdog" /\ state # "starting"
     \/ outcome' = "failure"  /\ state = "starting"
     \/ outcome' = "sigterm"  /\ state # "stopping"
  /\ state' = "down" /\ open' = {}

ServiceNext ==
  \/ Start \/ BecomeReady \/ Stop \/ Exit \/ Die
  \/ \E r \in Clients : Take(r) \/ Finish(r)

ServiceSpec == ServiceInit /\ [][ServiceNext]_serviceVars
=============================================================================
