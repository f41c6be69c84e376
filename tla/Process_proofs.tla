--------------------------- MODULE Process_proofs ---------------------------
(***************************************************************************)
(* Theorems about the life of the process, for any number of clients and   *)
(* any watchdog timeout: its inductive invariant, and that it implements   *)
(* the abstract Service.                                                   *)
(***************************************************************************)
EXTENDS Process, SequenceTheorems, TLAPS

-----------------------------------------------------------------------------
(* The mutex. *)

\* What removing one place from a sequence leaves.
LEMMA RemoveAtIsShift ==
  ASSUME NEW T, NEW q \in Seq(T), NEW i \in 1 .. Len(q)
  PROVE  /\ RemoveAt(q, i) \in Seq(T)
         /\ Len(RemoveAt(q, i)) = Len(q) - 1
         /\ \A j \in 1 .. Len(q) - 1 :
              RemoveAt(q, i)[j] = IF j < i THEN q[j] ELSE q[j + 1]
<1> DEFINE a == SubSeq(q, 1, i - 1)
           b == SubSeq(q, i + 1, Len(q))
<1>1. a \in Seq(T) /\ Len(a) = i - 1 /\ \A j \in 1 .. i - 1 : a[j] = q[j]
  OBVIOUS
<1>2. /\ b \in Seq(T) /\ Len(b) = Len(q) - i
      /\ \A j \in 1 .. Len(q) - i : b[j] = q[i + j]
  OBVIOUS
<1>3. RemoveAt(q, i) = a \o b
  BY DEF RemoveAt
<1> HIDE DEF a, b
<1>4. /\ a \o b \in Seq(T) /\ Len(a \o b) = Len(a) + Len(b)
      /\ \A j \in 1 .. Len(a) + Len(b) :
           (a \o b)[j] = IF j <= Len(a) THEN a[j] ELSE b[j - Len(a)]
  BY <1>1, <1>2, ConcatProperties
<1>5. ASSUME NEW j \in 1 .. Len(q) - 1
      PROVE  (a \o b)[j] = IF j < i THEN q[j] ELSE q[j + 1]
  <2>1. CASE j < i
    BY <1>1, <1>2, <1>4, <2>1
  <2>2. CASE j >= i
    <3>1. (a \o b)[j] = b[j - (i - 1)]
      BY <1>1, <1>2, <1>4, <2>2
    <3>2. j - (i - 1) \in 1 .. Len(q) - i /\ i + (j - (i - 1)) = j + 1
      BY <2>2
    <3>3. b[j - (i - 1)] = q[i + (j - (i - 1))]
      BY <1>2, <3>2
    <3>4. (a \o b)[j] = q[j + 1]
      BY <3>1, <3>2, <3>3, Zenon
    <3> QED BY <2>2, <3>4
  <2>3. j < i \/ j >= i
    OBVIOUS
  <2> QED BY <2>1, <2>2, <2>3, Zenon
<1> QED
  BY <1>1, <1>2, <1>3, <1>4, <1>5

\* A task that calls lock() for the first time joins the queue at its end.
LEMMA LockJoins ==
  ASSUME NEW T, queue \in Seq(T), IsInjective(queue), NEW t \in T,
         t \notin ToSet(queue), Lock(t)
  PROVE  /\ queue' \in Seq(T) /\ IsInjective(queue')
         /\ ToSet(queue') = ToSet(queue) \cup {t}
         /\ \A u : Holds(u) => Holds(u)'
<1>1. /\ queue' \in Seq(T) /\ Len(queue') = Len(queue) + 1
      /\ \A i \in 1 .. Len(queue) : queue'[i] = queue[i]
      /\ queue'[Len(queue) + 1] = t
  BY DEF Lock
<1>2. ToSet(queue') = ToSet(queue) \cup {t}
  BY <1>1 DEF ToSet
<1>3. IsInjective(queue')
  BY <1>1 DEF IsInjective, ToSet
<1>4. \A u : Holds(u) => Holds(u)'
  BY <1>1 DEF Holds
<1> QED
  BY <1>1, <1>2, <1>3, <1>4

\* A task that drops its guard or its lock() leaves the queue, and the others
\* keep their order: whoever holds the mutex still holds it.
LEMMA UnlockLeaves ==
  ASSUME NEW T, queue \in Seq(T), IsInjective(queue), NEW t, Unlock(t)
  PROVE  /\ queue' \in Seq(T) /\ IsInjective(queue')
         /\ ToSet(queue') = ToSet(queue) \ {t}
         /\ \A u : Holds(u) /\ u # t => Holds(u)'
<1>1. PICK i \in 1 .. Len(queue) : queue[i] = t /\ queue' = RemoveAt(queue, i)
  BY DEF Unlock
<1>2. /\ queue' \in Seq(T) /\ Len(queue') = Len(queue) - 1
      /\ \A j \in 1 .. Len(queue) - 1 :
           queue'[j] = IF j < i THEN queue[j] ELSE queue[j + 1]
  BY <1>1, RemoveAtIsShift
<1>3. IsInjective(queue')
  <2> DEFINE old(j) == IF j < i THEN j ELSE j + 1
  <2>1. SUFFICES ASSUME NEW j \in 1 .. Len(queue'), NEW k \in 1 .. Len(queue'),
                        queue'[j] = queue'[k]
                 PROVE  j = k
    BY <1>2 DEF IsInjective
  <2>2. queue[old(j)] = queue[old(k)] /\ old(j) \in 1 .. Len(queue)
        /\ old(k) \in 1 .. Len(queue)
    BY <1>2, <2>1
  <2>3. old(j) = old(k)
    BY <2>2 DEF IsInjective
  <2> QED BY <2>3
<1>4. ToSet(queue') = ToSet(queue) \ {t}
  <2>1. ToSet(queue') \subseteq ToSet(queue) \ {t}
    <3>1. SUFFICES ASSUME NEW j \in 1 .. Len(queue')
                   PROVE  queue'[j] \in ToSet(queue) \ {t}
      BY <1>2 DEF ToSet
    <3>2. PICK k \in 1 .. Len(queue) : queue'[j] = queue[k] /\ k # i
      <4>1. CASE j < i
        BY <1>2, <4>1
      <4>2. CASE j >= i
        BY <1>2, <4>2
      <4> QED BY <4>1, <4>2
    <3> QED BY <1>1, <3>2 DEF ToSet, IsInjective
  <2>2. ASSUME NEW u \in ToSet(queue) \ {t} PROVE u \in ToSet(queue')
    <3>1. PICK j \in 1 .. Len(queue) : queue[j] = u
      BY DEF ToSet
    <3>2. j # i
      BY <2>2, <3>1, <1>1
    <3>3. CASE j < i
      BY <3>1, <3>3, <1>2 DEF ToSet
    <3>4. CASE j > i
      <4>1. queue'[j - 1] = u /\ j - 1 \in 1 .. Len(queue')
        BY <3>1, <3>4, <1>2
      <4> QED BY <4>1 DEF ToSet
    <3> QED BY <3>2, <3>3, <3>4
  <2> QED BY <2>1, <2>2
<1>5. ASSUME NEW u, Holds(u), u # t PROVE Holds(u)'
  <2>1. i # 1
    BY <1>1, <1>5 DEF Holds
  <2> QED BY <1>2, <1>5, <2>1 DEF Holds
<1> QED
  BY <1>2, <1>3, <1>4, <1>5

-----------------------------------------------------------------------------
(* The inductive invariant. *)

LEMMA InitEstablishesInv == Init => ProcessInv
<1> SUFFICES ASSUME Init PROVE ProcessInv
  OBVIOUS
<1>1. TypeOK
  <2>1. queue \in Seq(Clients \cup {MainTask})
    BY DEF Init, LockInit
  <2>2. quiet \in 0 .. WatchdogSec
    BY ProcessAssumption DEF Init
  <2> QED BY <2>1, <2>2 DEF Init, TypeOK, Stages
<1>2. LockIsExact
  BY DEF Init, LockInit, LockIsExact, IsInjective, ToSet, Users
<1> QED
  BY <1>1, <1>2, ProcessAssumption DEF Init, LockInit, ProcessInv, OffIsClean,
     ConnectionsFitMain, ShutdownFitsMain, PingsAreInTime, interval

\* A process that ends, however it ends, leaves a clean state.
LEMMA EndIsClean ==
  ASSUME TypeOK, NEW how \in {"success", "failure", "sigterm", "killed", "watchdog"},
         Ends(how)
  PROVE  ProcessInv'
<1>1. TypeOK'
  <2>1. queue' \in Seq(Clients \cup {MainTask})
    BY DEF Ends
  <2>2. quiet' \in 0 .. WatchdogSec
    BY ProcessAssumption DEF Ends
  <2> QED BY <2>1, <2>2 DEF Ends, TypeOK, Stages
<1>2. LockIsExact'
  BY DEF Ends, LockIsExact, IsInjective, ToSet, Users
<1> QED
  BY <1>1, <1>2, ProcessAssumption DEF Ends, ProcessInv, OffIsClean,
     ConnectionsFitMain, ShutdownFitsMain, PingsAreInTime, interval

\* Steps that leave the queue alone, and who is to be in it.
LEMMA LockUntouched ==
  ASSUME LockIsExact, UNCHANGED queue, Users' = Users,
         \A r \in Clients : conn'[r] = "calling" => conn[r] = "calling" \/ Holds(r)
  PROVE  LockIsExact'
  BY DEF LockIsExact, Holds, IsInjective, ToSet

\* The steps of main, of the shutdown task and of the watchdog that touch
\* neither connections nor the mutex.
LEMMA MainStep ==
  ASSUME ProcessInv, \/ StartProcess \/ Bind \/ Announce \/ Serve \/ Arm
                     \/ NotifyStopping \/ Ping \/ Hang \/ Tick
  PROVE  ProcessInv'
<1> USE ProcessAssumption
<1>1. TypeOK'
  <2>1. quiet' \in 0 .. WatchdogSec
    BY DEF ProcessInv, TypeOK, StartProcess, Bind, Announce, Serve, Arm,
           NotifyStopping, Ping, Hang, Tick, watchVars
  <2>2. UNCHANGED <<queue, conn>>
    BY DEF StartProcess, Bind, Announce, Serve, Arm, NotifyStopping, Ping, Hang,
           Tick, watchVars
  <2>3. CASE StartProcess \/ Bind \/ Announce \/ Serve
    BY <2>1, <2>2, <2>3 DEF ProcessInv, TypeOK, StartProcess, Bind, Announce, Serve,
       watchVars
  <2>4. CASE Arm \/ NotifyStopping \/ Ping \/ Hang \/ Tick
    BY <2>1, <2>2, <2>4 DEF ProcessInv, TypeOK, Arm, NotifyStopping, Ping, Hang, Tick,
       watchVars
  <2> QED BY <2>3, <2>4
<1>2. LockIsExact'
  <2>1. /\ UNCHANGED <<queue, conn>>
        /\ main' = "info" <=> main = "info"
    BY DEF StartProcess, Bind, Announce, Serve, Arm, NotifyStopping, Ping, Hang,
           Tick, watchVars
  <2>2. Users' = Users
    BY <2>1 DEF Users
  <2> QED BY <2>1, <2>2, LockUntouched DEF ProcessInv
<1>3. OffIsClean' /\ ConnectionsFitMain' /\ ShutdownFitsMain'
  BY DEF ProcessInv, OffIsClean, ConnectionsFitMain, ShutdownFitsMain, TypeOK,
         StartProcess, Bind, Announce, Serve, Arm, NotifyStopping, Ping, Hang,
         Tick, Live, watchVars
<1>4. PingsAreInTime'
  BY DEF ProcessInv, OffIsClean, ShutdownFitsMain, TypeOK, PingsAreInTime, interval,
         StartProcess, Bind, Announce, Serve, Arm, NotifyStopping, Ping, Hang,
         Tick, Live, watchVars
<1> QED
  BY <1>1, <1>2, <1>3, <1>4 DEF ProcessInv

\* from_app takes the mutex, for get_info, while nobody else can.
LEMMA MainLocks ==
  ASSUME ProcessInv, Connected \/ InfoArrives
  PROVE  ProcessInv'
<1> DEFINE T == Clients \cup {MainTask}
<1> USE ProcessAssumption
<1>1. /\ queue \in Seq(T) /\ IsInjective(queue) /\ ToSet(queue) = Users
      /\ \A r \in Clients : conn[r] = "none" /\ conn'[r] = "none"
    BY DEF ProcessInv, TypeOK, LockIsExact, ConnectionsFitMain, Connected,
           InfoArrives
<1>2. queue' \in Seq(T) /\ IsInjective(queue') /\ ToSet(queue') = Users'
  <2>1. CASE Connected /\ Lock(MainTask) /\ main' = "info"
    <3>1. MainTask \notin ToSet(queue) /\ Users' = Users \cup {MainTask}
      BY <1>1, <2>1 DEF Users, Connected
    <3> QED BY <1>1, <2>1, <3>1, LockJoins
  <2>2. CASE Connected /\ UNCHANGED queue /\ main' = "bind"
    <3>1. Users' = Users
      BY <1>1, <2>2 DEF Users, Connected
    <3> QED BY <1>1, <2>2, <3>1 DEF IsInjective, ToSet
  <2>3. CASE InfoArrives
    <3>1. Unlock(MainTask) /\ Users' = Users \ {MainTask}
      BY <1>1, <2>3 DEF Users, InfoArrives
    <3> QED BY <1>1, <2>3, <3>1, UnlockLeaves
  <2> QED BY <2>1, <2>2, <2>3 DEF Connected
<1>3. LockIsExact'
  BY <1>1, <1>2 DEF LockIsExact
<1>4. TypeOK'
  BY <1>2 DEF ProcessInv, TypeOK, Connected, InfoArrives, watchVars
<1>5. OffIsClean' /\ ConnectionsFitMain' /\ ShutdownFitsMain' /\ PingsAreInTime'
  BY <1>1 DEF ProcessInv, OffIsClean, ConnectionsFitMain, ShutdownFitsMain, TypeOK,
     PingsAreInTime, interval, Connected, InfoArrives, Live, watchVars
<1> QED
  BY <1>3, <1>4, <1>5 DEF ProcessInv

\* Steps of connections keep all but the mutex in order, whatever they do to it.
LEMMA ConnectionKeepsRest ==
  ASSUME ProcessInv, queue' \in Seq(Clients \cup {MainTask}),
         NEW r \in Clients,
         \/ ClientConnects(r) \/ Accept(r) \/ CloseIdle(r) \/ Receive(r)
         \/ Dispatch(r) \/ CallLnd(r) \/ LndAnswers(r) \/ Reply(r)
         \/ ClientLeaves(r)
  PROVE  TypeOK' /\ OffIsClean' /\ ConnectionsFitMain' /\ ShutdownFitsMain'
         /\ PingsAreInTime'
<1>1. UNCHANGED <<main, shutdown, told, outcome, watchVars>>
  BY DEF ClientConnects, Accept, CloseIdle, Receive, Dispatch, CallLnd, LndAnswers,
         Reply, ClientLeaves
<1>2. PICK to \in Stages :
        /\ conn' = [conn EXCEPT ![r] = to]
        /\ conn[r] # "none" \/ main \in {"bound", "ready", "serving"}
        /\ to = "backlog" => main \in {"bound", "ready", "serving"}
        /\ to # "none" /\ to # "backlog" =>
             conn[r] \notin {"none", "backlog"} \/ main = "serving"
  BY DEF ClientConnects, Accept, CloseIdle, Receive, Dispatch, CallLnd, LndAnswers,
         Reply, ClientLeaves, Moves, Stages
<1>3. main # "off"
  BY <1>2 DEF ProcessInv, OffIsClean
<1>4. TypeOK'
  BY <1>1, <1>2 DEF ProcessInv, TypeOK, watchVars
<1>5. ConnectionsFitMain'
  BY <1>1, <1>2 DEF ProcessInv, TypeOK, ConnectionsFitMain
<1>6. OffIsClean' /\ ShutdownFitsMain' /\ PingsAreInTime'
  BY <1>1, <1>3 DEF ProcessInv, OffIsClean, ShutdownFitsMain, PingsAreInTime,
     interval, watchVars
<1> QED
  BY <1>4, <1>5, <1>6

\* Steps of connections that leave the mutex alone.
LEMMA ConnectionStep ==
  ASSUME ProcessInv, NEW r \in Clients,
         \/ ClientConnects(r) \/ Accept(r) \/ CloseIdle(r) \/ Receive(r)
         \/ CallLnd(r) \/ Reply(r)
  PROVE  ProcessInv'
<1>1. UNCHANGED queue /\ UNCHANGED main
  BY DEF ClientConnects, Accept, CloseIdle, Receive, CallLnd, Reply
<1>2. PICK to \in {"none", "backlog", "open", "reading", "waiting", "calling"} :
        /\ conn' = [conn EXCEPT ![r] = to]
        /\ \/ conn[r] = "waiting" /\ to = "calling" /\ Holds(r)
           \/ conn[r] \notin {"waiting", "calling"} /\ to \notin {"waiting", "calling"}
  BY DEF ClientConnects, Accept, CloseIdle, Receive, CallLnd, Reply, Moves
<1>3. Users' = Users
  BY <1>1, <1>2 DEF Users, ProcessInv, TypeOK
<1>4. LockIsExact'
  BY <1>1, <1>2, <1>3, LockUntouched DEF ProcessInv, TypeOK
<1>5. queue' \in Seq(Clients \cup {MainTask})
  BY <1>1 DEF ProcessInv, TypeOK
<1> QED
  BY <1>4, <1>5, ConnectionKeepsRest DEF ProcessInv

\* Steps of connections that join or leave the queue for the mutex.
LEMMA LockStep ==
  ASSUME ProcessInv, NEW r \in Clients,
         Dispatch(r) \/ LndAnswers(r) \/ ClientLeaves(r)
  PROVE  ProcessInv'
<1> DEFINE T == Clients \cup {MainTask}
<1>1. queue \in Seq(T) /\ IsInjective(queue) /\ ToSet(queue) = Users
      /\ \A c \in Clients : conn[c] = "calling" => Holds(c)
  BY DEF ProcessInv, TypeOK, LockIsExact
<1>2. UNCHANGED main /\ r # MainTask /\ conn \in [Clients -> Stages]
  <2>1. conn \in [Clients -> Stages]
    BY DEF ProcessInv, TypeOK
  <2> QED BY <2>1, ProcessAssumption DEF Dispatch, LndAnswers, ClientLeaves
<1>3. CASE Lock(r) /\ conn[r] = "reading" /\ conn' = [conn EXCEPT ![r] = "waiting"]
  <2>1. Users' = Users \cup {r} /\ r \notin Users
    BY <1>2, <1>3 DEF Users
  <2>2. \A c \in Clients : conn'[c] = "calling" => conn[c] = "calling"
    BY <1>2, <1>3
  <2>3. /\ queue' \in Seq(T) /\ IsInjective(queue') /\ ToSet(queue') = Users'
        /\ \A u : Holds(u) => Holds(u)'
    BY <1>1, <1>3, <2>1, LockJoins
  <2>4. LockIsExact'
    BY <1>1, <2>2, <2>3 DEF LockIsExact
  <2> QED BY <2>3, <2>4, ConnectionKeepsRest DEF ProcessInv
<1>4. ASSUME NEW to \in {"none", "replying"}, Unlock(r),
             conn[r] \in {"waiting", "calling"}, conn' = [conn EXCEPT ![r] = to]
      PROVE  ProcessInv'
  <2>1. Users' = Users \ {r}
    BY <1>2, <1>4 DEF Users
  <2>2. \A c \in Clients : conn'[c] = "calling" => conn[c] = "calling" /\ c # r
    BY <1>2, <1>4
  <2>3. /\ queue' \in Seq(T) /\ IsInjective(queue') /\ ToSet(queue') = Users'
        /\ \A u : Holds(u) /\ u # r => Holds(u)'
    BY <1>1, <1>4, <2>1, UnlockLeaves
  <2>4. LockIsExact'
    BY <1>1, <2>2, <2>3 DEF LockIsExact
  <2> QED BY <2>3, <2>4, ConnectionKeepsRest DEF ProcessInv
<1>5. ASSUME NEW to \in {"none", "replying"}, UNCHANGED queue,
             conn[r] \notin {"waiting", "calling"}, conn' = [conn EXCEPT ![r] = to]
      PROVE  ProcessInv'
  <2>1. Users' = Users /\ \A c \in Clients : conn'[c] = "calling" => conn[c] = "calling"
    BY <1>2, <1>5 DEF Users
  <2>2. LockIsExact'
    BY <1>5, <2>1, LockUntouched DEF ProcessInv
  <2> QED BY <1>1, <1>5, <2>2, ConnectionKeepsRest DEF ProcessInv
<1>6. \/ Lock(r) /\ conn[r] = "reading" /\ conn' = [conn EXCEPT ![r] = "waiting"]
      \/ \E to \in {"none", "replying"} :
           /\ conn' = [conn EXCEPT ![r] = to]
           /\ \/ Unlock(r) /\ conn[r] \in {"waiting", "calling"}
              \/ UNCHANGED queue /\ conn[r] \notin {"waiting", "calling"}
  BY DEF Dispatch, LndAnswers, ClientLeaves, Moves
<1> QED
  BY <1>3, <1>4, <1>5, <1>6

\* The listener goes, and the backlog with it.
LEMMA AcceptLoopEnds ==
  ASSUME ProcessInv, StopAccepting
  PROVE  ProcessInv'
<1>1. /\ UNCHANGED queue /\ conn \in [Clients -> Stages]
      /\ main = "serving" /\ main' = "draining"
      /\ \A r \in Clients : conn'[r] = IF conn[r] = "backlog" THEN "none" ELSE conn[r]
  BY DEF StopAccepting, ProcessInv, TypeOK
<1>2. Users' = Users
  BY <1>1 DEF Users
<1>3. LockIsExact'
  BY <1>1, <1>2, LockUntouched DEF ProcessInv
<1>4. TypeOK'
  BY <1>1 DEF StopAccepting, ProcessInv, TypeOK, Stages, watchVars
<1>5. OffIsClean' /\ ConnectionsFitMain' /\ ShutdownFitsMain' /\ PingsAreInTime'
  BY <1>1 DEF StopAccepting, ProcessInv, OffIsClean, ConnectionsFitMain,
     ShutdownFitsMain, PingsAreInTime, interval, Live, watchVars
<1> QED
  BY <1>3, <1>4, <1>5 DEF ProcessInv

\* SIGTERM ends the process, or the shutdown task catches it.
LEMMA SignalStep ==
  ASSUME ProcessInv, Signal
  PROVE  ProcessInv'
<1>1. CASE Ends("sigterm")
  BY <1>1, EndIsClean DEF ProcessInv
<1>2. CASE /\ shutdown = "armed" /\ shutdown' = "caught"
           /\ UNCHANGED <<queue, main, told, outcome, conn, watchVars>>
  <2>1. Users' = Users
    BY <1>2 DEF Users
  <2>2. LockIsExact'
    BY <1>2, <2>1, LockUntouched DEF ProcessInv
  <2>3. TypeOK'
    BY <1>2 DEF ProcessInv, TypeOK, watchVars
  <2> QED BY <1>2, <2>2, <2>3 DEF ProcessInv, OffIsClean, ConnectionsFitMain,
             ShutdownFitsMain, PingsAreInTime, interval, watchVars
<1> QED
  BY <1>1, <1>2 DEF Signal

LEMMA StepKeepsInv == ProcessInv /\ [Next]_vars => ProcessInv'
<1> SUFFICES ASSUME ProcessInv, [Next]_vars PROVE ProcessInv'
  OBVIOUS
<1>1. CASE StartFails \/ Drained \/ WatchdogKills \/ Crash
  BY <1>1, EndIsClean DEF StartFails, Drained, WatchdogKills, Crash, ProcessInv
<1>2. CASE UNCHANGED vars
  <2>1. Users' = Users
    BY <1>2 DEF vars, Users
  <2>2. LockIsExact'
    BY <1>2, <2>1, LockUntouched DEF vars, ProcessInv
  <2> QED BY <1>2, <2>2 DEF vars, ProcessInv, TypeOK, OffIsClean, ConnectionsFitMain,
             ShutdownFitsMain, PingsAreInTime, interval
<1> QED
  BY <1>1, <1>2, MainStep, MainLocks, ConnectionStep, LockStep, AcceptLoopEnds,
     SignalStep DEF Next

\* The inductive invariant of the process: in particular the mutex is owned by
\* a live task that asked for it, and the watchdog is pinged in time.
THEOREM ProcessInductive == Spec => []ProcessInv
  BY InitEstablishesInv, StepKeepsInv, PTL DEF Spec

\* READY is only said by a process that listens, and until STOPPING is said.
THEOREM ReadyListens == Spec => []ReadyMeansListening
<1>1. ProcessInv => ReadyMeansListening
  BY DEF ProcessInv, TypeOK, ShutdownFitsMain, ReadyMeansListening
<1> QED
  BY <1>1, ProcessInductive, PTL

\* The watchdog kills only a process whose runtime hangs.
THEOREM WatchdogSparesLive == Spec => OnlyHungIsKilled
<1>1. ProcessInv /\ [Next]_vars => [outcome' = "watchdog" /\ main' # main => hung]_vars
  <2> SUFFICES ASSUME ProcessInv, Next, outcome' = "watchdog", main' # main, ~ hung
               PROVE  FALSE
    BY DEF vars
  <2>1. WatchdogKills
    <3>1. outcome' # "watchdog" \/ main' = main \/ WatchdogKills
      BY DEF Next, StartProcess, Connected, InfoArrives, StartFails, Bind, Announce,
             Serve, Arm, NotifyStopping, StopAccepting, Drained, Ping, Signal, Hang,
             Tick, Crash, ClientConnects, Accept, CloseIdle, Receive, Dispatch,
             CallLnd, LndAnswers, Reply, ClientLeaves, Ends, ProcessInv,
             ShutdownFitsMain
    <3> QED BY <3>1
  <2>2. quiet <= interval + MaxLate /\ quiet = WatchdogSec
    BY <2>1 DEF WatchdogKills, ProcessInv, PingsAreInTime
  <2>3. interval + MaxLate < WatchdogSec
    BY ProcessAssumption DEF interval
  <2> QED BY <2>2, <2>3, ProcessAssumption DEF interval
<1> QED
  BY <1>1, ProcessInductive, PTL DEF Spec, OnlyHungIsKilled

-----------------------------------------------------------------------------
(* The refinement of Service. *)

\* Steps of connections: the first bytes take a request, the end of the request
\* or of its connection finishes it, and the other steps do not show.
LEMMA ConnectionRefines ==
  ASSUME ProcessInv, NEW r \in Clients,
         \/ ClientConnects(r) \/ Accept(r) \/ CloseIdle(r) \/ Receive(r)
         \/ Dispatch(r) \/ CallLnd(r) \/ LndAnswers(r) \/ Reply(r)
         \/ ClientLeaves(r)
  PROVE  [S!ServiceNext]_S!serviceVars
<1>1. SystemdState' = SystemdState /\ UNCHANGED outcome
  BY DEF ClientConnects, Accept, CloseIdle, Receive, Dispatch, CallLnd, LndAnswers,
         Reply, ClientLeaves, SystemdState
<1>2. conn \in [Clients -> Stages]
  BY DEF ProcessInv, TypeOK
<1>3. CASE Receive(r)
  <2>1. Requests' = Requests \cup {r} /\ r \notin Requests
    BY <1>2, <1>3 DEF Receive, Moves, Requests, Active
  <2>2. SystemdState \in {"ready", "stopping"}
    BY <1>2, <1>3 DEF Receive, Moves, SystemdState, ProcessInv, TypeOK, OffIsClean,
                      ConnectionsFitMain, ShutdownFitsMain
  <2>3. S!Take(r)
    BY <1>1, <2>1, <2>2 DEF S!Take
  <2> QED BY <2>3 DEF S!ServiceNext
<1>4. CASE Requests' = Requests \ {r} /\ r \in Requests
  <2>1. S!Finish(r)
    BY <1>1, <1>4 DEF S!Finish
  <2> QED BY <2>1 DEF S!ServiceNext
<1>5. CASE Requests' = Requests
  BY <1>1, <1>5 DEF S!serviceVars
<1>6. ASSUME ~ Receive(r)
      PROVE  Requests' = Requests \/ (Requests' = Requests \ {r} /\ r \in Requests)
  <2>1. PICK to \in Stages :
          /\ conn' = [conn EXCEPT ![r] = to]
          /\ conn[r] \in Active \/ to \notin Active
    BY <1>6 DEF ClientConnects, Accept, CloseIdle, Dispatch, CallLnd, LndAnswers,
                Reply, ClientLeaves, Moves, Stages, Active
  <2> QED BY <1>2, <2>1 DEF Requests
<1> QED
  BY <1>3, <1>4, <1>5, <1>6

\* Ends that are no graceful exit.
LEMMA DeathRefines ==
  ASSUME ProcessInv, NEW how, Ends(how), main # "off",
         \/ how = "killed"
         \/ how = "watchdog" /\ told # "none"
         \/ how = "failure" /\ told = "none"
         \/ how = "sigterm" /\ told # "stopping"
  PROVE  S!Die
<1>1. SystemdState' = "down" /\ Requests' = {}
  BY DEF Ends, SystemdState, Requests, Active
<1>2. /\ SystemdState # "down"
      /\ SystemdState = "starting" <=> told = "none"
      /\ SystemdState = "stopping" <=> told = "stopping"
  BY DEF SystemdState, ProcessInv, TypeOK
<1> QED
  BY <1>1, <1>2 DEF Ends, S!Die

LEMMA ServiceStep == ProcessInv /\ [Next]_vars => [S!ServiceNext]_S!serviceVars
<1> SUFFICES ASSUME ProcessInv, [Next]_vars PROVE [S!ServiceNext]_S!serviceVars
  OBVIOUS
<1>1. CASE StartProcess
  <2>1. Requests = {} /\ Requests' = {}
    BY <1>1 DEF StartProcess, ProcessInv, OffIsClean, Requests, Active
  <2>2. S!Start
    BY <1>1, <2>1 DEF StartProcess, SystemdState, S!Start
  <2> QED BY <2>2 DEF S!ServiceNext
<1>2. CASE Announce
  <2>1. S!BecomeReady
    BY <1>2 DEF Announce, ProcessInv, ShutdownFitsMain, SystemdState, Requests,
                S!BecomeReady
  <2> QED BY <2>1 DEF S!ServiceNext
<1>3. CASE NotifyStopping
  <2>1. main # "off" /\ told = "ready"
    BY <1>3 DEF NotifyStopping, Live, ProcessInv, TypeOK, ShutdownFitsMain
  <2>2. S!Stop
    BY <1>3, <2>1 DEF NotifyStopping, SystemdState, Requests, S!Stop
  <2> QED BY <2>2 DEF S!ServiceNext
<1>4. CASE Drained
  <2>1. SystemdState = "stopping" /\ Requests = {}
    BY <1>4 DEF Drained, ProcessInv, ShutdownFitsMain, SystemdState, Requests, Active
  <2>2. SystemdState' = "down" /\ Requests' = {} /\ outcome' = "success"
    BY <1>4 DEF Drained, Ends, SystemdState, Requests, Active
  <2>3. S!Exit
    BY <2>1, <2>2 DEF S!Exit
  <2> QED BY <2>3 DEF S!ServiceNext
<1>5. CASE StartFails \/ WatchdogKills \/ Crash \/ (Signal /\ Ends("sigterm"))
  <2>1. StartFails => told = "none"
    BY DEF StartFails, ProcessInv, ShutdownFitsMain
  <2>2. WatchdogKills => told # "none"
    BY ProcessAssumption DEF WatchdogKills, ProcessInv, PingsAreInTime
  <2>3. Signal /\ Ends("sigterm") => main # "off" /\ told # "stopping"
    BY DEF Signal, ProcessInv, ShutdownFitsMain
  <2>4. S!Die
    BY <1>5, <2>1, <2>2, <2>3, DeathRefines DEF StartFails, WatchdogKills, Crash, Live
  <2> QED BY <2>4 DEF S!ServiceNext
<1>6. CASE \/ Connected \/ InfoArrives \/ Bind \/ Serve \/ Arm \/ Ping \/ Hang \/ Tick
           \/ (Signal /\ ~ Ends("sigterm")) \/ UNCHANGED vars
  <2>1. /\ UNCHANGED <<told, outcome, conn>>
        /\ main' = "off" <=> main = "off"
    BY <1>6 DEF Connected, InfoArrives, Bind, Serve, Arm, Ping, Hang, Tick, Signal,
                Live, vars
  <2> QED BY <2>1 DEF SystemdState, Requests, S!serviceVars
<1>7. CASE StopAccepting
  <2>1. Requests' = Requests
    BY <1>7 DEF StopAccepting, Requests, Active, ProcessInv, TypeOK
  <2> QED BY <1>7, <2>1 DEF StopAccepting, SystemdState, S!serviceVars
<1> QED
  BY <1>1, <1>2, <1>3, <1>4, <1>5, <1>6, <1>7, ConnectionRefines DEF Next

\* systemd and the clients see the abstract service: no request is taken before
\* READY, and a process that exits with success has said STOPPING and cut none.
THEOREM ProcessIsService == Spec => ImplementsService
<1>1. Init => S!ServiceInit
  BY DEF Init, SystemdState, Requests, Active, S!ServiceInit
<1> QED
  BY <1>1, ServiceStep, ProcessInductive, PTL
     DEF Spec, ImplementsService, S!ServiceSpec
=============================================================================
