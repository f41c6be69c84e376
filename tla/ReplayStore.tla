---------------------------- MODULE ReplayStore ----------------------------
(***************************************************************************)
(* The replay store of src/replay.rs: one SQLite table behind a mutex.     *)
(* Each operation is one statement under the lock, so it is one action.    *)
(* The file survives the process, so nothing here resets consumed.         *)
(***************************************************************************)
EXTENDS Integers

CONSTANT IMax   \* i64::MAX

ASSUME IMaxAssumption == IMax \in Nat

VARIABLE consumed  \* the rows of the table

\* Mutant: an `as` cast instead of the clamp wraps far-future times below zero.
to_sql_time_Wraps(secs) == IF secs <= IMax THEN secs ELSE secs - 2 * (IMax + 1)

to_sql_time(secs) == IF secs <= IMax THEN secs ELSE IMax

HasKey(key) == \E row \in consumed : row.key = key

StoreInit == consumed = {}

\* Mutant: INSERT OR REPLACE, which always inserts.
Consume_Replaces(key, retain_until) ==
  consumed' = {row \in consumed : row.key # key}
              \cup {[key |-> key, retain_until |-> to_sql_time(retain_until)]}

\* consume returning true: the INSERT took effect.
Consume(key, retain_until) ==
  /\ ~ HasKey(key)
  /\ consumed' = consumed \cup {[key          |-> key,
                                 retain_until |-> to_sql_time(retain_until)]}

\* consume returning false: ON CONFLICT (key) DO NOTHING.
Conflict(key) ==
  /\ HasKey(key)
  /\ UNCHANGED consumed

\* Mutant: DELETE ... WHERE retain_until <= ?1.
prune_OffByOne(now) ==
  consumed' = {row \in consumed : row.retain_until > to_sql_time(now)}

prune(now) ==
  consumed' = {row \in consumed : row.retain_until >= to_sql_time(now)}
=============================================================================
