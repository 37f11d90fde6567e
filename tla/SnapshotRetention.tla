------------------------- MODULE SnapshotRetention -------------------------
(***************************************************************************)
(* The pruning of deploy snapshots                                         *)
(* (.github/actions/deploy-snapshot-retention/prune.py).                   *)
(*                                                                         *)
(* A pruner lists the snapshots of a root, chooses what to keep, and       *)
(* unlinks the rest one by one, oldest first.  Between two of its steps a  *)
(* deployment may add a snapshot and another pruner may run on the root.   *)
(***************************************************************************)
EXTENDS Integers, FiniteSets, FiniteSetsExt

CONSTANTS
    Pruner,
    MaxSnapshots, MaxTime, MaxSize, MaxBytes        \* bounds

ASSUME SnapshotRetentionAssumption ==
    MaxSnapshots \in Nat /\ MaxTime \in Nat /\ MaxSize \in Nat /\ MaxBytes \in Nat

Snapshot == [name : 1..MaxSnapshots, mtime : 1..MaxTime, size : 1..MaxSize]

VARIABLES
    files,          \* the snapshots in the root
    max_count,      \* the limits, fixed
    cutoff,
    max_total_bytes,
    pc,
    listed,         \* [Pruner -> what it has found]
    deletions,      \* [Pruner -> what it has still to unlink]
    ever            \* history: every snapshot there has been

limits == <<max_count, cutoff, max_total_bytes>>
vars == <<files, limits, pc, listed, deletions, ever>>

-----------------------------------------------------------------------------
(* The choice.                                                             *)

Newer(a, b) == a.mtime > b.mtime \/ (a.mtime = b.mtime /\ a.name > b.name)

\* The n newest, in the order of the names where the times agree.
Newest(entries, n) == {e \in entries : Cardinality({f \in entries : Newer(f, e)}) < n}

Bytes(entries) == MapThenSumSet(LAMBDA e : e.size, entries)

\* Mutation: a snapshot of exactly the cutoff's age goes.
Young_Exclusive(entries) ==
    Newest(entries, 1) \cup {e \in entries : e.mtime > cutoff}

\* The newest, and what is not older than the cutoff.
Young(entries) ==
    Newest(entries, 1) \cup {e \in entries : e.mtime >= cutoff}

WithinCount(survivors) == Newest(survivors, max_count)

\* Mutation: the newest is dropped as well when it is too big.
WithinBytes_NewestToo(survivors) ==
    LET Fits(n) == Bytes(Newest(survivors, n)) <= max_total_bytes
    IN UNION {Newest(survivors, n) : n \in {m \in 1 .. Cardinality(survivors) : Fits(m)}}

\* The oldest is dropped as long as there are two and they are too big, which
\* leaves the longest run of the newest that fits.
WithinBytes(survivors) ==
    LET Fits(n) == n = 1 \/ Bytes(Newest(survivors, n)) <= max_total_bytes
    IN UNION {Newest(survivors, n) : n \in {m \in 1 .. Cardinality(survivors) : Fits(m)}}

Survivors(entries) == WithinBytes(WithinCount(Young(entries)))

\* Mutation: the deletions are in the order of the listing, newest first.
IsFirst_NewestFirst(e, entries) == \A f \in entries \ {e} : Newer(e, f)

\* The deletions are sorted anew, oldest first.
IsFirst(e, entries) == \A f \in entries \ {e} : Newer(f, e)

-----------------------------------------------------------------------------
Init ==
    /\ files \in {S \in SUBSET Snapshot :
                    /\ Cardinality(S) < MaxSnapshots
                    /\ {e.name : e \in S} = 1..Cardinality(S)}
    /\ max_count \in 1..MaxSnapshots
    /\ cutoff \in 1..(MaxTime + 1)
    /\ max_total_bytes \in 1..MaxBytes
    /\ pc = [p \in Pruner |-> "idle"]
    /\ listed = [p \in Pruner |-> {}]
    /\ deletions = [p \in Pruner |-> {}]
    /\ ever = files

\* iterdir and the choice.
Choose(p) ==
    /\ pc[p] = "idle"
    /\ listed' = [listed EXCEPT ![p] = files]
    /\ deletions' = [deletions EXCEPT ![p] = files \ Survivors(files)]
    /\ pc' = [pc EXCEPT ![p] = "unlinking"]
    /\ UNCHANGED <<files, limits, ever>>

Unlink(p) ==
    /\ pc[p] = "unlinking"
    /\ \E e \in deletions[p] \cap files :
          /\ IsFirst(e, deletions[p])
          /\ files' = files \ {e}
          /\ deletions' = [deletions EXCEPT ![p] = @ \ {e}]
    /\ UNCHANGED <<limits, pc, listed, ever>>

\* FileNotFoundError, or any other OSError: the rest stays.
UnlinkFails(p) ==
    /\ pc[p] = "unlinking"
    /\ deletions[p] # {}
    /\ pc' = [pc EXCEPT ![p] = "failed"]
    /\ UNCHANGED <<files, limits, listed, deletions, ever>>

Done(p) ==
    /\ pc[p] = "unlinking"
    /\ deletions[p] = {}
    /\ pc' = [pc EXCEPT ![p] = "done"]
    /\ UNCHANGED <<files, limits, listed, deletions, ever>>

\* A deployment takes a snapshot, of a new name and not older than the others.
Arrive ==
    /\ Cardinality(ever) < MaxSnapshots
    /\ \E e \in Snapshot :
          /\ e.name = Cardinality(ever) + 1
          /\ \A f \in ever : Newer(e, f)
          /\ files' = files \cup {e}
          /\ ever' = ever \cup {e}
    /\ UNCHANGED <<limits, pc, listed, deletions>>

Next ==
    \/ \E p \in Pruner : Choose(p) \/ Unlink(p) \/ UnlinkFails(p) \/ Done(p)
    \/ Arrive

Spec == Init /\ [][Next]_vars

-----------------------------------------------------------------------------
TypeOK ==
    /\ files \subseteq Snapshot /\ ever \subseteq Snapshot
    /\ pc \in [Pruner -> {"idle", "unlinking", "failed", "done"}]
    /\ listed \in [Pruner -> SUBSET Snapshot]
    /\ deletions \in [Pruner -> SUBSET Snapshot]

\* At every moment, also between two unlinks and after one that failed, what
\* is left is newer than everything that is gone: no pruner makes a hole
\* (prune.py:122, the deletions sorted oldest first).
OldestGoFirst == \A left \in files, gone \in ever \ files : Newer(left, gone)

\* The newest snapshot is never deleted, however old or big it is
\* (prune.py:104, survivors starts with the newest).
NewestSurvives == ever # {} => \E e \in files : \A f \in ever \ {e} : Newer(e, f)

\* What may be kept of a listing: its newest, closed towards the newer, and
\* within every limit unless it is the newest alone.
Acceptable(entries, kept) ==
    /\ kept # {}
    /\ \A k \in kept, e \in entries \ kept : Newer(k, e)
    /\ \/ Cardinality(kept) = 1
       \/ /\ Cardinality(kept) <= max_count
          /\ Bytes(kept) <= max_total_bytes
          /\ \A k \in kept : k.mtime >= cutoff \/ \A e \in entries \ {k} : Newer(k, e)

\* A pruner keeps as much as the limits allow and no more (prune.py:102-120,
\* three passes over one list, against the largest acceptable set).
KeepsTheMostAllowed ==
    \A p \in Pruner :
        pc[p] = "unlinking" /\ listed[p] # {} =>
            LET kept == Survivors(listed[p])
            IN /\ Acceptable(listed[p], kept)
               /\ \A other \in SUBSET listed[p] :
                     Acceptable(listed[p], other) => Cardinality(other) <= Cardinality(kept)
=============================================================================
