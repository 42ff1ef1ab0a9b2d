------------------------------- MODULE Retention -------------------------------
(***************************************************************************)
(* Which backups are kept (backend/darts/db/backup.py: discover,           *)
(* retained, _unused_backup).  A backup is known by its name alone: its    *)
(* stamp, and the ordinal that tells apart the backups of one stamp.       *)
(* Names order backups, never the time a file was written.                 *)
(***************************************************************************)
EXTENDS Integers, FiniteSets

CONSTANTS
    PerHour,            \* stamps in an hour
    PerDay,             \* stamps in a day
    Hourly,             \* how many hours keep their newest backup
    Daily               \* how many days keep theirs

ASSUME RetentionAssumption ==
    /\ {PerHour, PerDay} \subseteq Nat \ {0}
    /\ {Hourly, Daily} \subseteq Nat

(* The hour, or the day, a backup falls into.                              *)
Bucket(name, span) == name.stamp \div span

Later(m, n) == m.stamp > n.stamp \/ (m.stamp = n.stamp /\ m.ordinal > n.ordinal)

(* At most one name each: the last and the first of a set, and the first   *)
(* name of a stamp that is not taken.                                      *)
NewestOf(names) == {n \in names : \A m \in names \ {n} : Later(n, m)}

OldestOf(names) == {n \in names : \A m \in names \ {n} : Later(m, n)}

FirstUnused(names, stamp) ==
    {n \in [stamp : {stamp}, ordinal : 0..Cardinality(names)] :
        n \notin names /\ \A k \in 0..n.ordinal - 1 : [n EXCEPT !.ordinal = k] \in names}

(* The newest name of each of the `limit' most recent buckets.             *)
LaterBuckets(names, span, name) ==
    {Bucket(m, span) : m \in {k \in names : Bucket(k, span) > Bucket(name, span)}}

NewestPerBucket(names, span, limit) ==
    {n \in names : /\ Cardinality(LaterBuckets(names, span, n)) < limit
                   /\ n \in NewestOf({m \in names : Bucket(m, span) = Bucket(n, span)})}

RetainedByHour(names) ==                \* mutant: the daily window is forgotten
    NewestPerBucket(names, PerHour, Hourly) \cup NewestOf(names)

Retained(names) ==
    NewestPerBucket(names, PerHour, Hourly)
        \cup NewestPerBucket(names, PerDay, Daily)
        \cup NewestOf(names)
=============================================================================
