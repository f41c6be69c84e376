------------------------------ MODULE LndLock ------------------------------
(***************************************************************************)
(* The tokio mutex in front of the LND client (AppState of                 *)
(* src/handlers.rs), as the code uses it: lock().await, a guard that lives *)
(* across the gRPC call, and a guard or a pending lock() that is dropped   *)
(* with the handler whose client disconnects.                              *)
(*                                                                         *)
(* The mutex is fair: tasks own it in the order of their calls of lock().  *)
(***************************************************************************)
EXTENDS Naturals, SequencesExt

VARIABLE queue   \* the tasks that called lock(); the first owns the mutex

LockInit == queue = <<>>

Holds(t) == queue # <<>> /\ Head(queue) = t

\* Mutant: a mutex that newcomers may take before those who wait.
Lock_Barges(t) == queue' = <<t>> \o queue

Lock(t) == queue' = Append(queue, t)

\* The guard of t is dropped, or its lock() before it got one.
Unlock(t) == \E i \in DOMAIN queue : queue[i] = t /\ queue' = RemoveAt(queue, i)
=============================================================================
