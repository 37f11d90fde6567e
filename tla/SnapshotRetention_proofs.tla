---------------------- MODULE SnapshotRetention_proofs ----------------------
(* The safety theorems of SnapshotRetention, for every number of pruners,  *)
(* every set of snapshots and all limits.                                  *)
EXTENDS SnapshotRetention, FiniteSetTheorems, WellFoundedInduction, TLAPS

UniqueNames(entries) == \A e, f \in entries : e.name = f.name => e = f
Closed(kept, entries) == \A k \in kept, e \in entries : Newer(e, k) => e \in kept
Above(e, entries) == {f \in entries : Newer(f, e)}

-----------------------------------------------------------------------------
(* The order of the snapshots.                                             *)

\* The sort key (mtime, name) orders snapshots of different names.
LEMMA Order ==
    /\ \A e, f \in Snapshot : e # f /\ e.name # f.name => Newer(e, f) \/ Newer(f, e)
    /\ \A e, f \in Snapshot : Newer(e, f) => ~Newer(f, e) /\ e # f
    /\ \A e, f, g \in Snapshot : Newer(e, f) /\ Newer(f, g) => Newer(e, g)
  BY DEF Newer, Snapshot

\* A newer snapshot has fewer above it.
LEMMA FewerAbove ==
    ASSUME NEW S \in SUBSET Snapshot, IsFiniteSet(S), NEW e \in S
    PROVE  /\ Cardinality(Above(e, S)) \in Nat
           /\ Above(e, S) = {} <=> Cardinality(Above(e, S)) = 0
           /\ \A f \in Above(e, S) : Cardinality(Above(f, S)) < Cardinality(Above(e, S))
<1>1. \A f \in S : Above(f, S) \in SUBSET S
  BY DEF Above
<1>2. \A f \in S : IsFiniteSet(Above(f, S)) /\ Cardinality(Above(f, S)) \in Nat
  BY <1>1, FS_Subset, FS_CardinalityType
<1>3. ASSUME NEW f \in Above(e, S)
      PROVE  Cardinality(Above(f, S)) < Cardinality(Above(e, S))
  <2>1. f \in S /\ Newer(f, e)
    BY DEF Above
  <2>2. Above(f, S) \in SUBSET Above(e, S) /\ Above(f, S) # Above(e, S)
    BY <2>1, Order DEF Above
  <2>3. /\ Cardinality(Above(f, S)) <= Cardinality(Above(e, S))
        /\ Cardinality(Above(f, S)) # Cardinality(Above(e, S))
    BY <1>2, <2>2, FS_Subset
  <2> QED
    BY <1>2, <2>1, <2>3
<1> QED
  BY <1>2, <1>3, FS_EmptySet

\* Of the snapshots of different names there is a newest.
LEMMA ThereIsANewest ==
    ASSUME NEW S \in SUBSET Snapshot, IsFiniteSet(S), UniqueNames(S), S # {}
    PROVE  \E e \in S : Above(e, S) = {} /\ \A f \in S \ {e} : Newer(e, f)
<1> DEFINE R == OpToRel(<, Nat)
           T == {Cardinality(Above(e, S)) : e \in S}
<1>1. T \in SUBSET Nat /\ T # {}
  BY FewerAbove
<1>2. PICK x \in T : \A y \in T : <<y, x>> \notin R
  <2> HIDE DEF T, R
  <2>1. IsWellFoundedOn(R, Nat)
    BY NatLessThanWellFounded DEF R
  <2> QED
    BY <1>1, <2>1, WFMin
<1>3. PICK e \in S : x = Cardinality(Above(e, S))
  OBVIOUS
<1>4. Above(e, S) = {}
  <2> SUFFICES ASSUME NEW f \in Above(e, S) PROVE FALSE
    OBVIOUS
  <2>1. f \in S /\ Cardinality(Above(f, S)) < x
    BY <1>3, FewerAbove DEF Above
  <2>2. Cardinality(Above(f, S)) \in T
    BY <2>1
  <2>3. <<Cardinality(Above(f, S)), x>> \in R
    BY <1>1, <2>1, <2>2 DEF OpToRel
  <2> QED
    BY <1>2, <2>2, <2>3
<1>5. \A f \in S \ {e} : Newer(e, f)
  BY <1>4, Order DEF UniqueNames, Above
<1> QED
  BY <1>4, <1>5

-----------------------------------------------------------------------------
(* What the three passes leave.                                            *)

\* With a snapshot, the n newest hold every newer one.
LEMMA NewestIsClosed ==
    ASSUME NEW S \in SUBSET Snapshot, IsFiniteSet(S), NEW n \in Int
    PROVE  Newest(S, n) \in SUBSET S /\ Closed(Newest(S, n), S)
<1>1. Newest(S, n) = {e \in S : Cardinality(Above(e, S)) < n}
  BY DEF Newest, Above
<1>2. ASSUME NEW k \in Newest(S, n), NEW e \in S, Newer(e, k) PROVE e \in Newest(S, n)
  <2>1. e \in Above(k, S)
    BY <1>2 DEF Above
  <2>2. /\ Cardinality(Above(e, S)) < Cardinality(Above(k, S))
        /\ Cardinality(Above(e, S)) \in Nat /\ Cardinality(Above(k, S)) \in Nat
        /\ Cardinality(Above(k, S)) < n
    BY <1>1, <2>1, FewerAbove
  <2> QED
    BY <1>1, <2>2
<1> QED
  BY <1>1, <1>2 DEF Closed

\* What is closed towards the newer is the newest of its size.
LEMMA ClosedIsNewest ==
    ASSUME NEW S \in SUBSET Snapshot, IsFiniteSet(S), UniqueNames(S),
           NEW kept \in SUBSET S, Closed(kept, S)
    PROVE  kept = Newest(S, Cardinality(kept))
<1>1. Newest(S, Cardinality(kept)) = {e \in S : Cardinality(Above(e, S)) < Cardinality(kept)}
  BY DEF Newest, Above
<1>2. IsFiniteSet(kept) /\ Cardinality(kept) \in Nat
  BY FS_Subset, FS_CardinalityType
<1>3. ASSUME NEW e \in kept PROVE Cardinality(Above(e, S)) < Cardinality(kept)
  <2>1. Above(e, S) \in SUBSET kept /\ e \notin Above(e, S)
    BY Order DEF Above, Closed
  <2>2. /\ Cardinality(Above(e, S)) <= Cardinality(kept)
        /\ Cardinality(Above(e, S)) # Cardinality(kept)
    BY <1>2, <2>1, FS_Subset
  <2> QED
    BY <1>2, <2>2, FewerAbove
<1>4. ASSUME NEW e \in S \ kept PROVE ~(Cardinality(Above(e, S)) < Cardinality(kept))
  <2>1. kept \in SUBSET Above(e, S)
    BY Order DEF Above, Closed, UniqueNames
  <2>2. IsFiniteSet(Above(e, S))
    BY FS_Subset DEF Above
  <2>3. Cardinality(kept) <= Cardinality(Above(e, S))
    BY <2>1, <2>2, FS_Subset
  <2> QED
    BY <1>2, <2>3, FewerAbove
<1> QED
  BY <1>1, <1>3, <1>4

\* The n newest are n at most.
LEMMA NewestAreFew ==
    ASSUME NEW S \in SUBSET Snapshot, IsFiniteSet(S), UniqueNames(S), NEW n \in Nat
    PROVE  Cardinality(Newest(S, n)) <= n
<1> DEFINE N == Newest(S, n)
           rank == [e \in N |-> Cardinality(Above(e, S))]
<1>1. N = {e \in S : Cardinality(Above(e, S)) < n}
  BY DEF Newest, Above
<1>2. rank \in [N -> 0 .. n - 1]
  BY <1>1, FewerAbove
<1>3. \A e, f \in N : e # f => rank[e] # rank[f]
  <2> SUFFICES ASSUME NEW e \in N, NEW f \in N, e # f PROVE rank[e] # rank[f]
    OBVIOUS
  <2>1. f \in Above(e, S) \/ e \in Above(f, S)
    BY <1>1, Order DEF Above, UniqueNames
  <2>2. \/ Cardinality(Above(f, S)) < Cardinality(Above(e, S))
        \/ Cardinality(Above(e, S)) < Cardinality(Above(f, S))
    BY <1>1, <2>1, FewerAbove
  <2> QED
    BY <1>1, <2>2, FewerAbove
<1>4. rank \in Injection(N, 0 .. n - 1)
  BY <1>2, <1>3 DEF Injection, IsInjective
<1>5. IsFiniteSet(0 .. n - 1) /\ Cardinality(0 .. n - 1) = n
  BY FS_Interval
<1> HIDE DEF N, rank
<1> QED
  BY <1>4, <1>5, FS_Injection DEF N

\* What WithinBytes leaves is the n newest for one n: the newest alone, or what
\* fits.  Nothing that fits is bigger.
LEMMA BytesPass ==
    ASSUME NEW S \in SUBSET Snapshot, IsFiniteSet(S), UniqueNames(S), S # {}
    PROVE  /\ \E n \in 1 .. Cardinality(S) :
                 /\ WithinBytes(S) = Newest(S, n)
                 /\ n = 1 \/ Bytes(WithinBytes(S)) <= max_total_bytes
           /\ \A n \in 1 .. Cardinality(S) :
                 n = 1 \/ Bytes(Newest(S, n)) <= max_total_bytes
                 => Newest(S, n) \in SUBSET WithinBytes(S)
<1> DEFINE Fits(n) == n = 1 \/ Bytes(Newest(S, n)) <= max_total_bytes
           F == {m \in 1 .. Cardinality(S) : Fits(m)}
           R == OpToRel(<, Nat)
           T == {Cardinality(S) - m : m \in F}
<1>1. WithinBytes(S) = UNION {Newest(S, n) : n \in F}
  BY DEF WithinBytes
<1>2. Cardinality(S) \in Nat \ {0}
  BY FS_CardinalityType, FS_EmptySet
<1>3. 1 \in F /\ F \in SUBSET (1 .. Cardinality(S))
  BY <1>2
<1>4. \A n \in F : Newest(S, n) \in SUBSET WithinBytes(S)
  BY <1>1
<1>5. PICK n \in F : \A m \in F : m <= n
  <2> HIDE DEF F
  <2>1. T \in SUBSET Nat /\ T # {}
    BY <1>2, <1>3
  <2>2. PICK x \in T : \A y \in T : <<y, x>> \notin R
    <3> HIDE DEF T, R
    <3>1. IsWellFoundedOn(R, Nat)
      BY NatLessThanWellFounded DEF R
    <3> QED
      BY <2>1, <3>1, WFMin
  <2>3. PICK n \in F : x = Cardinality(S) - n
    OBVIOUS
  <2>4. ASSUME NEW m \in F PROVE m <= n
    <3>1. Cardinality(S) - m \in T
      OBVIOUS
    <3>2. ~(Cardinality(S) - m < x)
      BY <2>1, <2>2, <3>1 DEF OpToRel
    <3> QED
      BY <1>2, <1>3, <2>3, <3>2
  <2> QED
    BY <2>4
<1>6. \A m \in F : Newest(S, m) \in SUBSET Newest(S, n)
  <2> SUFFICES ASSUME NEW m \in F, NEW e \in S, Cardinality(Above(e, S)) < m
               PROVE  Cardinality(Above(e, S)) < n
    BY DEF Newest, Above
  <2>1. m \in Int /\ n \in Int /\ m <= n
    BY <1>3, <1>5
  <2> QED
    BY <2>1, FewerAbove
<1>7. WithinBytes(S) = Newest(S, n)
  BY <1>1, <1>4, <1>6
<1> QED
  BY <1>4, <1>5, <1>7

\* The survivors of a listing hold, with a snapshot, every newer one.
LEMMA SurvivorsAreClosed ==
    ASSUME NEW S \in SUBSET Snapshot, IsFiniteSet(S), UniqueNames(S),
           max_count \in Nat \ {0}, cutoff \in Int
    PROVE  Survivors(S) \in SUBSET S /\ Closed(Survivors(S), S)
<1> DEFINE Y == Young(S)
           C == WithinCount(Y)
<1>1. Y \in SUBSET S /\ Closed(Y, S)
  <2>1. Newest(S, 1) \in SUBSET S /\ Closed(Newest(S, 1), S)
    BY NewestIsClosed
  <2>2. ASSUME NEW k \in {e \in S : e.mtime >= cutoff}, NEW e \in S, Newer(e, k)
        PROVE  e.mtime >= cutoff
    BY <2>2 DEF Newer, Snapshot
  <2> QED
    BY <2>1, <2>2 DEF Young, Closed
<1>2. IsFiniteSet(Y) /\ UniqueNames(Y)
  BY <1>1, FS_Subset DEF UniqueNames
<1>3. C \in SUBSET Y /\ Closed(C, Y)
  <2> HIDE DEF Y
  <2> QED
    BY <1>1, <1>2, NewestIsClosed DEF WithinCount
<1>4. IsFiniteSet(C) /\ UniqueNames(C)
  BY <1>2, <1>3, FS_Subset DEF UniqueNames
<1> HIDE DEF Y, C
<1>5. WithinBytes(C) \in SUBSET C /\ Closed(WithinBytes(C), C)
  <2>1. CASE C = {}
    BY <2>1 DEF WithinBytes, Newest, Closed
  <2>2. CASE C # {}
    <3>1. PICK n \in 1 .. Cardinality(C) : WithinBytes(C) = Newest(C, n)
      BY <1>1, <1>3, <1>4, <2>2, BytesPass
    <3>2. n \in Int
      OBVIOUS
    <3> QED
      BY <1>1, <1>3, <1>4, <3>1, <3>2, NewestIsClosed
  <2> QED
    BY <2>1, <2>2
<1>6. Survivors(S) = WithinBytes(C)
  BY DEF Survivors, Y, C
<1>7. Closed(WithinBytes(C), S)
  BY <1>1, <1>3, <1>5 DEF Closed
<1> QED
  BY <1>1, <1>3, <1>5, <1>6, <1>7

\* What is dropped from a listing has a newer one in it: the newest survives.
LEMMA DroppedHasANewer ==
    ASSUME NEW S \in SUBSET Snapshot, IsFiniteSet(S), UniqueNames(S),
           max_count \in Nat \ {0}
    PROVE  /\ \A e \in S \ Survivors(S) : Above(e, S) # {}
           /\ S # {} => Survivors(S) # {}
<1>1. CASE S = {}
  BY <1>1
<1>2. CASE S # {}
  <2>1. PICK e \in S : Above(e, S) = {} /\ \A f \in S \ {e} : Newer(e, f)
    BY <1>2, ThereIsANewest
  <2>2. \A Q \in SUBSET S : e \in Q => Above(e, Q) = {} /\ Cardinality(Above(e, Q)) = 0
    BY <2>1, FS_EmptySet DEF Above
  <2>3. \A Q \in SUBSET S : \A n \in Nat \ {0} : e \in Q => e \in Newest(Q, n)
    BY <2>2 DEF Newest, Above
  <2> DEFINE Y == Young(S)
             C == WithinCount(Y)
  <2>4. e \in Y /\ Y \in SUBSET S
    BY <2>3 DEF Young, Newest
  <2> HIDE DEF Y
  <2>5. e \in C /\ C \in SUBSET Y
    BY <2>3, <2>4 DEF WithinCount, Newest
  <2>6. C \in SUBSET Snapshot /\ IsFiniteSet(C) /\ UniqueNames(C) /\ C # {}
    BY <2>4, <2>5, FS_Subset DEF UniqueNames
  <2> HIDE DEF C
  <2>7. Newest(C, 1) \in SUBSET WithinBytes(C)
    <3>1. 1 \in 1 .. Cardinality(C)
      BY <2>6, FS_CardinalityType, FS_EmptySet
    <3> QED
      BY <2>6, <3>1, BytesPass
  <2>8. e \in Survivors(S)
    BY <2>3, <2>4, <2>5, <2>7 DEF Survivors, Y, C
  <2>9. \A f \in S \ {e} : e \in Above(f, S)
    BY <2>1 DEF Above
  <2> QED
    BY <2>8, <2>9
<1> QED
  BY <1>1, <1>2

\* The three passes leave the largest acceptable set of a listing.
LEMMA SurvivorsAreTheMost ==
    ASSUME NEW S \in SUBSET Snapshot, IsFiniteSet(S), UniqueNames(S), S # {},
           max_count \in Nat \ {0}, cutoff \in Int, max_total_bytes \in Int
    PROVE  /\ Acceptable(S, Survivors(S))
           /\ \A other \in SUBSET S :
                 Acceptable(S, other) => Cardinality(other) <= Cardinality(Survivors(S))
<1> DEFINE K == Survivors(S)
           Y == Young(S)
           C == WithinCount(Y)
<1>1. K \in SUBSET S /\ Closed(K, S) /\ K # {}
  BY SurvivorsAreClosed, DroppedHasANewer
<1>2. \A e \in Y : e \in S /\ (e.mtime >= cutoff \/ \A f \in S \ {e} : Newer(e, f))
  <2>1. ASSUME NEW e \in Newest(S, 1) PROVE e \in S /\ \A f \in S \ {e} : Newer(e, f)
    <3>1. e \in S /\ Cardinality(Above(e, S)) < 1
      BY DEF Newest, Above
    <3>2. Above(e, S) = {}
      BY <3>1, FewerAbove
    <3> QED
      BY <3>1, <3>2, Order DEF Above, UniqueNames
  <2> QED
    BY <2>1 DEF Young
<1>3. Y \in SUBSET S /\ IsFiniteSet(Y) /\ UniqueNames(Y)
  BY <1>2, FS_Subset DEF UniqueNames
<1> HIDE DEF Y
<1>4. C \in SUBSET Y /\ C = Newest(Y, max_count)
  BY DEF WithinCount, Newest
<1>5. IsFiniteSet(C) /\ UniqueNames(C) /\ Cardinality(C) \in Nat /\ Cardinality(C) <= max_count
  <2>1. IsFiniteSet(C) /\ UniqueNames(C)
    BY <1>3, <1>4, FS_Subset DEF UniqueNames
  <2>2. Cardinality(Newest(Y, max_count)) <= max_count
    BY <1>3, NewestAreFew
  <2> QED
    BY <1>4, <2>1, <2>2, FS_CardinalityType
<1> HIDE DEF C
<1>6. K = WithinBytes(C)
  BY DEF Survivors, Y, C
<1>7. IsFiniteSet(K) /\ Cardinality(K) \in Nat /\ Cardinality(K) # 0
  BY <1>1, FS_Subset, FS_CardinalityType, FS_EmptySet
<1> HIDE DEF K
<1>8. K \in SUBSET C
  BY <1>6 DEF WithinBytes, Newest
<1>9. C # {} /\ C \in SUBSET Snapshot
  BY <1>1, <1>3, <1>4, <1>8
<1>10. Acceptable(S, K)
  <2>1. \A k \in K, e \in S \ K : Newer(k, e)
    BY <1>1, Order DEF Closed, UniqueNames
  <2>2. PICK n \in 1 .. Cardinality(C) :
           /\ K = Newest(C, n)
           /\ n = 1 \/ Bytes(K) <= max_total_bytes
    BY <1>5, <1>6, <1>9, BytesPass
  <2>3. CASE n = 1
    <3>1. Cardinality(K) <= 1
      BY <1>5, <1>9, <2>2, <2>3, NewestAreFew
    <3> QED
      BY <1>1, <1>7, <2>1, <3>1 DEF Acceptable
  <2>4. CASE Bytes(K) <= max_total_bytes
    <3>1. Cardinality(K) <= max_count
      BY <1>5, <1>7, <1>8, FS_Subset
    <3>2. \A k \in K : k.mtime >= cutoff \/ \A e \in S \ {k} : Newer(k, e)
      BY <1>2, <1>4, <1>8
    <3> QED
      BY <1>1, <2>1, <2>4, <3>1, <3>2 DEF Acceptable
  <2> QED
    BY <2>2, <2>3, <2>4
<1>11. ASSUME NEW other \in SUBSET S, Acceptable(S, other)
       PROVE  Cardinality(other) <= Cardinality(K)
  <2> DEFINE m == Cardinality(other)
  <2>1. IsFiniteSet(other) /\ m \in Nat /\ other # {}
    BY <1>11, FS_Subset, FS_CardinalityType DEF Acceptable
  <2>2. CASE m = 1
    BY <1>7, <2>2
  <2>3. CASE m # 1
    <3>1. /\ m <= max_count /\ Bytes(other) <= max_total_bytes
          /\ \A k \in other : k.mtime >= cutoff \/ \A e \in S \ {k} : Newer(k, e)
          /\ \A k \in other, e \in S \ other : Newer(k, e)
      BY <1>11, <2>3 DEF Acceptable
    <3>2. Closed(other, S)
      BY <3>1, Order DEF Closed
    <3>3. other \in SUBSET Y
      <4> SUFFICES ASSUME NEW k \in other, \A e \in S \ {k} : Newer(k, e)
                   PROVE  k \in Newest(S, 1)
        BY <3>1 DEF Y, Young
      <4>1. Above(k, S) = {}
        BY Order DEF Above
      <4>2. Cardinality(Above(k, S)) = 0
        BY <4>1, FS_EmptySet
      <4> QED
        BY <4>2 DEF Newest, Above
    <3>4. Closed(other, Y) /\ other = Newest(Y, m)
      <4>1. Closed(other, Y)
        BY <1>3, <3>2 DEF Closed
      <4> QED
        BY <1>3, <3>3, <4>1, ClosedIsNewest
    <3>5. other \in SUBSET C
      <4> SUFFICES ASSUME NEW k \in other PROVE Cardinality(Above(k, Y)) < max_count
        BY <1>4, <3>3 DEF Newest, Above
      <4>1. Cardinality(Above(k, Y)) < m
        BY <3>4 DEF Newest, Above
      <4>2. Cardinality(Above(k, Y)) \in Nat
        BY <1>3, <3>3, FewerAbove
      <4> QED
        BY <2>1, <3>1, <4>1, <4>2
    <3>6. other = Newest(C, m)
      <4>1. Closed(other, C)
        BY <1>4, <3>4 DEF Closed
      <4> QED
        BY <1>5, <1>9, <3>5, <4>1, ClosedIsNewest
    <3>7. m \in 1 .. Cardinality(C)
      BY <1>5, <2>1, <3>5, FS_Subset, FS_EmptySet
    <3>8. Bytes(Newest(C, m)) <= max_total_bytes
      BY <3>1, <3>6
    <3> HIDE DEF m
    <3>9. Newest(C, m) \in SUBSET K
      BY <1>5, <1>6, <1>9, <3>7, <3>8, BytesPass
    <3> QED
      BY <1>7, <3>6, <3>9, FS_Subset DEF m
  <2> QED
    BY <2>2, <2>3
<1> QED
  BY <1>10, <1>11 DEF K

-----------------------------------------------------------------------------
(* The pruners and the deployments.                                        *)

Limited == max_count \in Nat \ {0} /\ cutoff \in Int /\ max_total_bytes \in Int

\* Every snapshot there has been has a name of its own.
Named ==
    /\ files \subseteq ever
    /\ IsFiniteSet(ever) /\ UniqueNames(ever)
    /\ \A e \in ever : e.name <= Cardinality(ever)

\* What a pruner has still to unlink is older than all that is left besides,
\* and than something there has been.
PruneInv(p) ==
    /\ listed[p] \subseteq ever /\ deletions[p] \subseteq ever
    /\ \A d \in deletions[p] :
          /\ \E e \in ever : Newer(e, d)
          /\ \A f \in files \ deletions[p] : Newer(f, d)

IInv ==
    /\ TypeOK /\ Limited /\ Named
    /\ \A p \in Pruner : PruneInv(p)
    /\ OldestGoFirst /\ NewestSurvives

\* There are finitely many snapshots within the bounds.
LEMMA SnapshotsAreFinite == IsFiniteSet(Snapshot)
<1> DEFINE A == 1 .. MaxSnapshots
           B == 1 .. MaxTime
           C == 1 .. MaxSize
           f == [e \in Snapshot |-> <<<<e.name, e.mtime>>, e.size>>]
<1>1. IsFiniteSet(A) /\ IsFiniteSet(B) /\ IsFiniteSet(C)
  BY FS_Interval, SnapshotRetentionAssumption
<1>2. f \in [Snapshot -> (A \X B) \X C]
  BY DEF Snapshot
<1>3. \A d, e \in Snapshot : f[d] = f[e] => d = e
  BY DEF Snapshot
<1>4. f \in Injection(Snapshot, (A \X B) \X C)
  BY <1>2, <1>3 DEF Injection, IsInjective
<1> HIDE DEF A, B, C, f
<1>5. IsFiniteSet((A \X B) \X C)
  <2>1. IsFiniteSet(A \X B)
    BY <1>1, FS_Product
  <2> QED
    BY <1>1, <2>1, FS_Product
<1> QED
  BY <1>4, <1>5, FS_Injection

\* The names 1 .. n of n snapshots are names of their own.
LEMMA NamesAtFirst ==
    ASSUME NEW S \in SUBSET Snapshot, IsFiniteSet(S), {e.name : e \in S} = 1 .. Cardinality(S)
    PROVE  UniqueNames(S) /\ \A e \in S : e.name <= Cardinality(S)
<1> DEFINE T == 1 .. Cardinality(S)
           f == [e \in S |-> e.name]
<1>1. Cardinality(S) \in Nat
  BY FS_CardinalityType
<1>2. \A e \in S : e.name \in T
  OBVIOUS
<1>3. f \in [S -> T] /\ \A t \in T : \E e \in S : f[e] = t
  BY <1>2
<1>4. f \in Surjection(S, T)
  BY <1>3 DEF Surjection
<1>5. Cardinality(T) = Cardinality(S)
  BY <1>1, FS_Interval
<1>6. f \in Injection(S, T)
  <2> HIDE DEF f, T
  <2> QED
    BY <1>4, <1>5, FS_SurjSameCardinalityImpliesInj
<1>7. UniqueNames(S)
  BY <1>6 DEF Injection, IsInjective, UniqueNames
<1>8. \A e \in S : e.name <= Cardinality(S)
  BY <1>1, <1>2
<1> QED
  BY <1>7, <1>8

\* Before any pruner has run the snapshots have names of their own, and one of
\* them is the newest.
LEMMA InvariantAtFirst == Init => IInv
<1> SUFFICES ASSUME Init PROVE IInv
  OBVIOUS
<1>1. files \in SUBSET Snapshot /\ IsFiniteSet(files) /\ ever = files
  BY SnapshotsAreFinite, FS_Subset DEF Init
<1>2. Named
  BY <1>1, NamesAtFirst DEF Init, Named
<1>3. Limited
  BY SnapshotRetentionAssumption DEF Init, Limited
<1>4. TypeOK /\ OldestGoFirst /\ \A p \in Pruner : PruneInv(p)
  BY <1>1 DEF Init, TypeOK, OldestGoFirst, PruneInv
<1>5. NewestSurvives
  BY <1>1, <1>2, ThereIsANewest DEF Named, NewestSurvives
<1> QED
  BY <1>2, <1>3, <1>4, <1>5 DEF IInv

\* A pruner lists the root and chooses what to unlink.
LEMMA ChooseStep ==
    ASSUME IInv, NEW p \in Pruner, Choose(p) PROVE IInv'
<1> DEFINE D == files \ Survivors(files)
<1>1. /\ UNCHANGED <<files, limits, ever>>
      /\ listed' = [listed EXCEPT ![p] = files]
      /\ deletions' = [deletions EXCEPT ![p] = D]
      /\ pc' = [pc EXCEPT ![p] = "unlinking"]
  BY DEF Choose
<1>2. files \in SUBSET Snapshot /\ IsFiniteSet(files) /\ UniqueNames(files)
  BY FS_Subset DEF IInv, TypeOK, Named, UniqueNames
<1>3. \A d \in D : \E e \in files : Newer(e, d)
  BY <1>2, DroppedHasANewer DEF IInv, Limited, Above
<1>4. \A d \in D : \A f \in files \ D : Newer(f, d)
  <2>1. Survivors(files) \in SUBSET files /\ Closed(Survivors(files), files)
    BY <1>2, SurvivorsAreClosed DEF IInv, Limited
  <2> QED
    BY <1>2, <2>1, Order DEF Closed, UniqueNames
<1>5. PruneInv(p)'
  <2> HIDE DEF D
  <2>1. listed'[p] = files /\ deletions'[p] = D /\ files \subseteq ever
    BY <1>1 DEF IInv, TypeOK, Named
  <2>2. D \subseteq files
    BY DEF D
  <2> QED
    BY <1>1, <1>3, <1>4, <2>1, <2>2 DEF PruneInv
<1>6. \A q \in Pruner \ {p} : PruneInv(q)'
  BY <1>1 DEF IInv, TypeOK, PruneInv
<1>7. TypeOK'
  BY <1>1, <1>2 DEF IInv, TypeOK
<1>8. Limited' /\ Named' /\ OldestGoFirst' /\ NewestSurvives'
  BY <1>1 DEF IInv, Limited, limits, Named, OldestGoFirst, NewestSurvives
<1> QED
  BY <1>5, <1>6, <1>7, <1>8 DEF IInv

\* The oldest of a pruner's deletions goes: all that is left is newer, what the
\* pruner has still to unlink and what it has kept or found new.
LEMMA UnlinkStep ==
    ASSUME IInv, NEW p \in Pruner, Unlink(p) PROVE IInv'
<1>1. PICK e \in deletions[p] \cap files :
         /\ IsFirst(e, deletions[p])
         /\ files' = files \ {e}
         /\ deletions' = [deletions EXCEPT ![p] = @ \ {e}]
  BY DEF Unlink
<1>2. UNCHANGED <<limits, pc, listed, ever>>
  BY DEF Unlink
<1>3. /\ ever \subseteq Snapshot /\ e \in ever /\ deletions[p] \subseteq ever
      /\ \E f \in ever : Newer(f, e)
      /\ \A f \in files \ deletions[p] : Newer(f, e)
  BY <1>1 DEF IInv, TypeOK, PruneInv
<1>4. \A f \in files' : Newer(f, e)
  BY <1>1, <1>3 DEF IsFirst
<1>5. OldestGoFirst'
  BY <1>1, <1>2, <1>4 DEF IInv, OldestGoFirst
<1>6. NewestSurvives'
  <2>1. PICK n \in files : \A f \in ever \ {n} : Newer(n, f)
    BY <1>3 DEF IInv, NewestSurvives
  <2>2. n # e
    <3>1. PICK f \in ever : Newer(f, e)
      BY <1>3
    <3> QED
      BY <1>3, <2>1, <3>1, Order
  <2> QED
    BY <1>1, <1>2, <2>1, <2>2 DEF NewestSurvives
<1>7. ASSUME NEW q \in Pruner PROVE PruneInv(q)'
  <2>1. CASE q = p
    <3>1. deletions'[p] = deletions[p] \ {e}
      BY <1>1 DEF IInv, TypeOK
    <3> QED
      BY <1>1, <1>2, <2>1, <3>1 DEF IInv, PruneInv
  <2>2. CASE q # p
    BY <1>1, <1>2, <2>2 DEF IInv, TypeOK, PruneInv
  <2> QED
    BY <2>1, <2>2
<1>8. TypeOK' /\ Limited' /\ Named'
  BY <1>1, <1>2 DEF IInv, TypeOK, Limited, limits, Named
<1> QED
  BY <1>5, <1>6, <1>7, <1>8 DEF IInv

\* A deployment adds the newest snapshot there has been, of a new name.
LEMMA ArriveStep ==
    ASSUME IInv, Arrive PROVE IInv'
<1>1. PICK e \in Snapshot :
         /\ e.name = Cardinality(ever) + 1
         /\ \A f \in ever : Newer(e, f)
         /\ files' = files \cup {e}
         /\ ever' = ever \cup {e}
  BY DEF Arrive
<1>2. UNCHANGED <<limits, pc, listed, deletions>>
  BY DEF Arrive
<1>3. ever \subseteq Snapshot /\ IsFiniteSet(ever) /\ Cardinality(ever) \in Nat
  BY FS_CardinalityType DEF IInv, TypeOK, Named
<1>4. Named'
  <2>1. e \notin ever
    BY <1>1, <1>3, Order
  <2>2. IsFiniteSet(ever') /\ Cardinality(ever') = Cardinality(ever) + 1
    BY <1>1, <1>3, <2>1, FS_AddElement
  <2>3. \A f \in ever : f.name <= Cardinality(ever) /\ f.name \in Int
    BY <1>3, SnapshotRetentionAssumption DEF IInv, Named, Snapshot
  <2>4. UniqueNames(ever')
    <3>1. \A f \in ever : f.name # e.name
      BY <1>1, <1>3, <2>3
    <3> QED
      BY <1>1, <3>1 DEF IInv, Named, UniqueNames
  <2>5. \A f \in ever' : f.name <= Cardinality(ever')
    BY <1>1, <1>3, <2>2, <2>3
  <2> QED
    BY <1>1, <2>2, <2>4, <2>5 DEF IInv, Named
<1>5. OldestGoFirst' /\ NewestSurvives'
  BY <1>1 DEF IInv, OldestGoFirst, NewestSurvives
<1>6. ASSUME NEW q \in Pruner PROVE PruneInv(q)'
  BY <1>1, <1>2 DEF IInv, PruneInv
<1>7. TypeOK' /\ Limited'
  BY <1>1, <1>2 DEF IInv, TypeOK, Limited, limits
<1> QED
  BY <1>4, <1>5, <1>6, <1>7 DEF IInv

\* Listing, unlinking, failing and adding a snapshot all keep the invariant.
LEMMA Invariant == Spec => []IInv
<1>1. IInv /\ [Next]_vars => IInv'
  <2> SUFFICES ASSUME IInv, [Next]_vars PROVE IInv'
    OBVIOUS
  <2>1. CASE UNCHANGED <<files, limits, listed, deletions, ever>> /\ TypeOK'
    BY <2>1 DEF IInv, Limited, limits, Named, PruneInv, OldestGoFirst, NewestSurvives
  <2>2. CASE UNCHANGED vars
    BY <2>1, <2>2 DEF vars, IInv, TypeOK
  <2>3. ASSUME NEW p \in Pruner, UnlinkFails(p) \/ Done(p) PROVE IInv'
    BY <2>1, <2>3 DEF UnlinkFails, Done, IInv, TypeOK
  <2> QED
    BY <2>2, <2>3, ChooseStep, UnlinkStep, ArriveStep DEF Next
<1> QED
  BY <1>1, InvariantAtFirst, PTL DEF Spec

\* Limits, listings and deletions stay within their types.
THEOREM TypeCorrect == Spec => []TypeOK
<1>1. IInv => TypeOK
  BY DEF IInv
<1> QED
  BY <1>1, Invariant, PTL

\* Whatever pruners and deployments do to a root at once, and whichever unlink
\* fails, what is left is newer than everything that is gone.
THEOREM NoHoles == Spec => []OldestGoFirst
<1>1. IInv => OldestGoFirst
  BY DEF IInv
<1> QED
  BY <1>1, Invariant, PTL

\* No pruner deletes the newest snapshot there has been.
THEOREM NewestIsKept == Spec => []NewestSurvives
<1>1. IInv => NewestSurvives
  BY DEF IInv
<1> QED
  BY <1>1, Invariant, PTL

\* A pruner keeps the largest part of its listing that the three limits allow.
THEOREM MostIsKept == Spec => []KeepsTheMostAllowed
<1>1. IInv => KeepsTheMostAllowed
  <2> SUFFICES ASSUME IInv, NEW p \in Pruner, listed[p] # {}
               PROVE  /\ Acceptable(listed[p], Survivors(listed[p]))
                      /\ \A other \in SUBSET listed[p] : Acceptable(listed[p], other) =>
                            Cardinality(other) <= Cardinality(Survivors(listed[p]))
    BY DEF KeepsTheMostAllowed
  <2>1. listed[p] \in SUBSET Snapshot /\ listed[p] \in SUBSET ever
    BY DEF IInv, TypeOK, PruneInv
  <2>2. IsFiniteSet(listed[p]) /\ UniqueNames(listed[p])
    BY <2>1, FS_Subset DEF IInv, Named, UniqueNames
  <2> QED
    BY <2>1, <2>2, SurvivorsAreTheMost DEF IInv, Limited
<1> QED
  BY <1>1, Invariant, PTL
=============================================================================
