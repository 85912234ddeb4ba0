---------------------------- MODULE AuditLogProofs ----------------------------
(***************************************************************************)
(* The audit log of AuditLog, for every number of deliveries, repeats and  *)
(* denials, every filter and every page.  Both repositories hold each      *)
(* event once, what they hold stays, and they show the same pages, of the  *)
(* records that the viewer may see.                                        *)
(***************************************************************************)
EXTENDS AuditLog, FunctionTheorems, FiniteSetTheorems, SequenceTheorems, TLAPS

-----------------------------------------------------------------------------
(* The order of a page.                                                    *)

\* Before is a strict total order on S.
Orderable(S) ==
  /\ IsFiniteSet(S)
  /\ \A r \in S : r.occurred_at \in Int /\ r.audit_id \in Nat
  /\ \A r, s \in S : r.audit_id = s.audit_id => r = s

LEMMA RankType ==
  ASSUME NEW S, Orderable(S), NEW r \in S
  PROVE  Rank(S, r) \in 0 .. Cardinality(S) - 1 /\ Cardinality(S) \in Nat
<1> DEFINE P == {q \in S : Before(q, r)}
<1>1. P \subseteq S \ {r}
  BY DEF Before, Orderable
<1>2. IsFiniteSet(S \ {r}) /\ Cardinality(S \ {r}) = Cardinality(S) - 1
  BY FS_RemoveElement DEF Orderable
<1>3. Cardinality(S) \in Nat
  BY FS_CardinalityType DEF Orderable
<1> HIDE DEF P
<1>4. IsFiniteSet(P) /\ Cardinality(P) <= Cardinality(S) - 1
  BY <1>1, <1>2, FS_Subset
<1>5. Cardinality(P) \in Nat
  BY <1>4, FS_CardinalityType
<1>6. Rank(S, r) = Cardinality(P)
  BY DEF Rank, P
<1> QED BY <1>3, <1>4, <1>5, <1>6

\* A record before another has the smaller rank, and only then.
LEMMA RankFollowsOrder ==
  ASSUME NEW S, Orderable(S), NEW r \in S, NEW s \in S
  PROVE  /\ Before(r, s) <=> Rank(S, r) < Rank(S, s)
         /\ Rank(S, r) = Rank(S, s) => r = s
<1>1. ASSUME NEW a \in S, NEW b \in S, Before(a, b) PROVE Rank(S, a) < Rank(S, b)
  <2> DEFINE P == {q \in S : Before(q, a)}
             Q == {q \in S : Before(q, b)}
  <2>1. P \subseteq Q
    BY <1>1 DEF Before, Orderable
  <2>2. a \in Q /\ a \notin P
    BY <1>1 DEF Before, Orderable
  <2>3. Q \subseteq S
    OBVIOUS
  <2>4. Rank(S, a) = Cardinality(P) /\ Rank(S, b) = Cardinality(Q)
    BY DEF Rank
  <2> HIDE DEF P, Q
  <2>5. IsFiniteSet(Q)
    BY <2>3, FS_Subset DEF Orderable
  <2>6. Cardinality(P) <= Cardinality(Q) /\ Cardinality(P) # Cardinality(Q)
    BY <2>1, <2>2, <2>5, FS_Subset
  <2>7. Rank(S, a) \in Nat /\ Rank(S, b) \in Nat
    BY RankType
  <2> QED BY <2>4, <2>6, <2>7
<1>2. r = s \/ Before(r, s) \/ Before(s, r)
  BY DEF Before, Orderable
<1>3. ~(Before(r, s) /\ Before(s, r)) /\ ~Before(r, r)
  BY DEF Before, Orderable
<1>4. Rank(S, r) \in Int /\ Rank(S, s) \in Int
  BY RankType
<1>5. Before(r, s) => Rank(S, r) < Rank(S, s)
  BY <1>1
<1>6. Before(s, r) => Rank(S, s) < Rank(S, r)
  BY <1>1
<1> QED BY <1>2, <1>3, <1>4, <1>5, <1>6

LEMMA RankBijection ==
  ASSUME NEW S, Orderable(S)
  PROVE  [r \in S |-> Rank(S, r)] \in Bijection(S, 0 .. Cardinality(S) - 1)
<1> DEFINE f == [r \in S |-> Rank(S, r)]
           I == 0 .. Cardinality(S) - 1
<1>1. Cardinality(S) \in Nat
  BY FS_CardinalityType DEF Orderable
<1>2. f \in [S -> I]
  BY RankType
<1>3. \A r, s \in S : f[r] = f[s] => r = s
  BY RankFollowsOrder
<1>4. IsFiniteSet(I) /\ Cardinality(I) = Cardinality(S)
  BY <1>1, FS_Interval
<1> HIDE DEF f, I
<1>5. f \in Injection(S, I)
  BY <1>2, <1>3, Fun_IsInj
<1>6. f \in Surjection(S, I)
  BY <1>4, <1>5, FS_Injection
<1>7. f \in Bijection(S, I)
  BY <1>5, <1>6, Fun_IsBij
<1> QED BY <1>7 DEF f, I

\* Sorted lists every record of S, each at the place of its rank.
LEMMA SortedRanks ==
  ASSUME NEW S, Orderable(S)
  PROVE  /\ Sorted(S) \in Seq(S) /\ Len(Sorted(S)) = Cardinality(S) /\ Cardinality(S) \in Nat
         /\ DOMAIN Sorted(S) = 1 .. Cardinality(S)
         /\ \A i \in 1 .. Cardinality(S) : Sorted(S)[i] \in S /\ Rank(S, Sorted(S)[i]) = i - 1
         /\ \A r \in S : Rank(S, r) + 1 \in 1 .. Cardinality(S) /\ Sorted(S)[Rank(S, r) + 1] = r
<1> DEFINE n == Cardinality(S)
           f == [r \in S |-> Rank(S, r)]
<1>1. n \in Nat
  BY FS_CardinalityType DEF Orderable
<1>2. ASSUME NEW i \in 1 .. n PROVE \E r \in S : Rank(S, r) = i - 1
  <2>1. i - 1 \in 0 .. n - 1
    BY <1>1
  <2>2. \E r \in S : f[r] = i - 1
    <3>1. f \in Bijection(S, 0 .. n - 1)
      BY RankBijection
    <3> HIDE DEF f, n
    <3>2. \A t \in 0 .. n - 1 : \E r \in S : f[r] = t
      BY <3>1 DEF Bijection, Surjection
    <3> QED BY <2>1, <3>2
  <2> QED BY <2>2
<1>3. ASSUME NEW i \in 1 .. n PROVE Sorted(S)[i] \in S /\ Rank(S, Sorted(S)[i]) = i - 1
  BY <1>2 DEF Sorted
<1>4. ASSUME NEW r \in S
      PROVE  Rank(S, r) + 1 \in 1 .. n /\ Sorted(S)[Rank(S, r) + 1] = r
  <2> DEFINE k == Rank(S, r) + 1
  <2>1. k \in 1 .. n /\ k - 1 = Rank(S, r)
    BY <1>1, RankType
  <2> HIDE DEF k
  <2>2. Sorted(S)[k] \in S /\ Rank(S, Sorted(S)[k]) = Rank(S, r)
    <3>1. Sorted(S)[k] \in S /\ Rank(S, Sorted(S)[k]) = k - 1
      BY <1>3, <2>1
    <3> QED BY <2>1, <3>1
  <2>3. Sorted(S)[k] = r
    BY <2>2, RankFollowsOrder
  <2> QED BY <2>1, <2>3 DEF k
<1>5. DOMAIN Sorted(S) = 1 .. n /\ Sorted(S) = [i \in 1 .. n |-> Sorted(S)[i]]
  BY DEF Sorted
<1>6. Sorted(S) \in Seq(S) /\ Len(Sorted(S)) = n
  <2> HIDE DEF n
  <2>1. Sorted(S) \in [1 .. n -> S]
    BY <1>3, <1>5
  <2> QED BY <1>1, <2>1
<1> QED BY <1>1, <1>3, <1>4, <1>5, <1>6

\* The records with ranks a to b - 1: as many as there are such ranks.
LEMMA RankInterval ==
  ASSUME NEW S, Orderable(S), NEW a \in Nat, NEW b \in Nat, a <= b, b <= Cardinality(S)
  PROVE  LET Q == {q \in S : Rank(S, q) \in a .. b - 1}
         IN  IsFiniteSet(Q) /\ Cardinality(Q) = b - a
<1> DEFINE Q == {q \in S : Rank(S, q) \in a .. b - 1}
           I == a .. b - 1
           f == [q \in Q |-> Rank(S, q)]
<1>1. IsFiniteSet(Q)
  BY FS_Subset DEF Orderable
<1>2. f \in [Q -> I]
  OBVIOUS
<1>3. \A q, r \in Q : f[q] = f[r] => q = r
  BY RankFollowsOrder
<1>4. ASSUME NEW i \in I PROVE \E q \in Q : f[q] = i
  <2>1. i + 1 \in 1 .. Cardinality(S) /\ i + 1 - 1 = i
    BY SortedRanks
  <2>2. Sorted(S)[i + 1] \in S /\ Rank(S, Sorted(S)[i + 1]) = i
    <3> DEFINE k == i + 1
    <3> HIDE DEF k
    <3>1. Sorted(S)[k] \in S /\ Rank(S, Sorted(S)[k]) = k - 1
      BY <2>1, SortedRanks DEF k
    <3> QED BY <2>1, <3>1 DEF k
  <2> QED BY <2>2
<1>5. IsFiniteSet(I) /\ Cardinality(I) = b - a
  <2> DEFINE c == b - 1
  <2>1. a \in Int /\ c \in Int /\ c - a + 1 = b - a /\ (a > c => b - a = 0)
    OBVIOUS
  <2> HIDE DEF c
  <2>2. IsFiniteSet(a .. c) /\ Cardinality(a .. c) = IF a > c THEN 0 ELSE c - a + 1
    BY <2>1, FS_Interval
  <2> QED BY <2>1, <2>2 DEF c
<1> HIDE DEF f, I, Q
<1>6. f \in Bijection(Q, I)
  BY <1>2, <1>3, <1>4, Fun_IsBij
<1>7. ExistsBijection(Q, I)
  BY <1>6 DEF ExistsBijection
<1>8. Cardinality(Q) = Cardinality(I)
  BY <1>1, <1>7, FS_Bijection
<1> QED BY <1>1, <1>5, <1>8 DEF Q

LEMMA SubsetOrderable ==
  ASSUME NEW S, Orderable(S), NEW T, T \subseteq S
  PROVE  Orderable(T)
BY FS_Subset DEF Orderable

\* A slice of the sorted records is the sorted records of those ranks: the
\* LIMIT and OFFSET of the table are the slice of the list.
LEMMA SliceIsPage ==
  ASSUME NEW S, Orderable(S), NEW limit \in Int, limit >= 1, NEW offset \in Nat
  PROVE  LET T == {r \in S : Rank(S, r) \in offset .. offset + limit - 1}
         IN  Sorted(T) = Slice(Sorted(S), limit, offset)
<1> DEFINE n == Cardinality(S)
           T == {r \in S : Rank(S, r) \in offset .. offset + limit - 1}
           last == IF offset + limit < n THEN offset + limit ELSE n
           slice == Slice(Sorted(S), limit, offset)
<1>1. n \in Nat /\ Sorted(S) \in Seq(S) /\ Len(Sorted(S)) = n
  BY SortedRanks
<1>2. last \in Nat /\ last <= n /\ last <= offset + limit
  BY <1>1
<1>3. slice = SubSeq(Sorted(S), offset + 1, last)
  BY <1>1 DEF Slice
<1>4. Orderable(T)
  BY SubsetOrderable
<1>5. CASE last < offset + 1
  <2>1. T = {}
    <3> SUFFICES ASSUME NEW r \in T PROVE FALSE
      OBVIOUS
    <3>1. Rank(S, r) \in 0 .. n - 1 /\ Rank(S, r) \in offset .. offset + limit - 1
      BY RankType
    <3> QED BY <1>1, <1>5, <3>1
  <2>2. slice = <<>>
    BY <1>2, <1>3, <1>5, SubSeqEmpty
  <2>3. Cardinality(T) = 0 /\ Sorted(T) = [i \in 1 .. 0 |-> CHOOSE r \in T : Rank(T, r) = i - 1]
    BY <2>1, FS_EmptySet DEF Sorted
  <2> QED BY <2>2, <2>3
<1>6. CASE offset < last
  <2>1. T = {r \in S : Rank(S, r) \in offset .. last - 1}
    <3>1. ASSUME NEW r \in S
          PROVE  Rank(S, r) \in offset .. offset + limit - 1 <=> Rank(S, r) \in offset .. last - 1
      <4>1. Rank(S, r) \in 0 .. n - 1
        BY RankType
      <4> QED BY <1>1, <4>1
    <3> QED BY <3>1
  <2>2. Cardinality(T) = last - offset
    <3> HIDE DEF last
    <3>1. offset <= last /\ last <= Cardinality(S)
      BY <1>2, <1>6
    <3> QED BY <1>2, <2>1, <3>1, RankInterval
  <2>3. ASSUME NEW r \in T PROVE Rank(T, r) = Rank(S, r) - offset
    <3> DEFINE k == Rank(S, r)
    <3>1. k \in Nat /\ offset <= k /\ k < n /\ k <= last - 1
      BY <1>1, <2>1, RankType
    <3>2. {q \in T : Before(q, r)} = {q \in S : Rank(S, q) \in offset .. k - 1}
      <4>1. ASSUME NEW q \in S
            PROVE  q \in T /\ Before(q, r) <=> Rank(S, q) \in offset .. k - 1
        <5>1. Rank(S, q) \in 0 .. n - 1 /\ (Before(q, r) <=> Rank(S, q) < k)
          BY RankType, RankFollowsOrder
        <5>2. q \in T <=> Rank(S, q) \in offset .. last - 1
          BY <2>1
        <5> HIDE DEF k, T, last
        <5> QED BY <1>1, <1>2, <3>1, <5>1, <5>2
      <4> QED BY <4>1
    <3>3. Cardinality({q \in S : Rank(S, q) \in offset .. k - 1}) = k - offset
      <4>1. offset <= k /\ k <= Cardinality(S)
        BY <1>1, <3>1
      <4> HIDE DEF k, T, last, slice, n
      <4> QED BY <3>1, <4>1, RankInterval
    <3> QED BY <3>2, <3>3 DEF Rank
  <2>4. slice \in Seq(S) /\ Len(slice) = last - offset
    <3> HIDE DEF last
    <3>1. \A i \in offset + 1 .. last : Sorted(S)[i] \in S
      BY <1>1, <1>2
    <3> QED BY <1>2, <1>3, <1>6, <3>1, SubSeqProperties
  <2>5. ASSUME NEW i \in 1 .. last - offset PROVE slice[i] = Sorted(S)[offset + i]
    <3> HIDE DEF last
    <3>1. \A j \in offset + 1 .. last : Sorted(S)[j] \in S
      BY <1>1, <1>2
    <3>2. i \in 1 .. last - (offset + 1) + 1
      BY <1>2
    <3>3. slice[i] = Sorted(S)[offset + 1 + i - 1]
      BY <1>2, <1>3, <1>6, <3>1, <3>2, SubSeqProperties
    <3>4. offset + 1 + i - 1 = offset + i
      OBVIOUS
    <3> QED BY <3>3, <3>4
  <2>6. ASSUME NEW i \in 1 .. last - offset PROVE Sorted(T)[i] = Sorted(S)[offset + i]
    <3> DEFINE r == Sorted(S)[offset + i]
               j == offset + i
    <3> HIDE DEF last
    <3>1. j \in 1 .. n /\ j - 1 \in offset .. last - 1 /\ j - 1 - offset + 1 = i
      BY <1>1, <1>2
    <3>2. r \in S /\ Rank(S, r) = j - 1
      <4> HIDE DEF j
      <4>1. Sorted(S)[j] \in S /\ Rank(S, Sorted(S)[j]) = j - 1
        BY <3>1, SortedRanks
      <4> QED BY <4>1 DEF j
    <3>3. r \in T
      BY <2>1, <3>1, <3>2
    <3> HIDE DEF r, T, j
    <3>4. Rank(T, r) = j - 1 - offset
      BY <2>3, <3>2, <3>3
    <3>5. Sorted(T)[Rank(T, r) + 1] = r
      BY <1>4, <3>3, SortedRanks
    <3>6. Sorted(T)[i] = r
      BY <3>1, <3>4, <3>5
    <3> QED BY <3>6 DEF r
  <2>7. Sorted(T) \in Seq(S) /\ Len(Sorted(T)) = last - offset
    <3> HIDE DEF last
    <3>1. Sorted(T) \in Seq(T) /\ Len(Sorted(T)) = Cardinality(T)
      BY <1>4, SortedRanks
    <3> QED BY <2>2, <3>1
  <2>8. Sorted(T) = slice
    <3> HIDE DEF T, slice, last
    <3> QED BY <1>2, <2>4, <2>5, <2>6, <2>7
  <2> QED BY <2>8
<1> QED BY <1>1, <1>2, <1>5, <1>6

-----------------------------------------------------------------------------
(* Two backends that hold the same records under different audit ids.      *)

Paired(M, T) ==
  /\ Orderable(M) /\ Orderable(T)
  /\ \A r \in M : \E q \in T : Content(q) = Content(r)
  /\ \A q \in T : \E r \in M : Content(q) = Content(r)
  /\ \A r, s \in M, p, q \in T :
       Content(p) = Content(r) /\ Content(q) = Content(s) => (Before(r, s) <=> Before(p, q))

\* The twin of a record of M in T.
Twin(T, r) == CHOOSE q \in T : Content(q) = Content(r)

LEMMA Comparable ==
  ASSUME NEW S, Orderable(S), NEW r \in S, NEW s \in S
  PROVE  ~Before(r, r) /\ (r = s \/ Before(r, s) \/ Before(s, r))
BY DEF Orderable, Before

LEMMA TwinFound ==
  ASSUME NEW M, NEW T, Paired(M, T), NEW r \in M
  PROVE  Twin(T, r) \in T /\ Content(Twin(T, r)) = Content(r)
BY DEF Paired, Twin

LEMMA TwinBefore ==
  ASSUME NEW M, NEW T, Paired(M, T), NEW r \in M, NEW s \in M
  PROVE  /\ Before(r, s) <=> Before(Twin(T, r), Twin(T, s))
         /\ Twin(T, r) = Twin(T, s) => r = s
<1>1. /\ Twin(T, r) \in T /\ Content(Twin(T, r)) = Content(r)
      /\ Twin(T, s) \in T /\ Content(Twin(T, s)) = Content(s)
  BY TwinFound
<1>2. /\ Before(r, s) <=> Before(Twin(T, r), Twin(T, s))
      /\ Before(s, r) <=> Before(Twin(T, s), Twin(T, r))
  BY <1>1 DEF Paired
<1>3. ~Before(Twin(T, r), Twin(T, r)) /\ (r = s \/ Before(r, s) \/ Before(s, r))
  BY <1>1, Comparable DEF Paired
<1> QED BY <1>2, <1>3

LEMMA TwinOnto ==
  ASSUME NEW M, NEW T, Paired(M, T), NEW q \in T
  PROVE  \E r \in M : Twin(T, r) = q
<1>1. PICK r \in M : Content(q) = Content(r)
  BY DEF Paired
<1>2. Twin(T, r) \in T /\ Content(Twin(T, r)) = Content(r)
  BY TwinFound
<1>3. ~Before(r, r)
  BY Comparable DEF Paired
<1>4. ~Before(q, Twin(T, r)) /\ ~Before(Twin(T, r), q)
  BY <1>1, <1>2, <1>3 DEF Paired
<1>5. q = Twin(T, r)
  BY <1>2, <1>4, Comparable DEF Paired
<1> QED BY <1>5

LEMMA TwinRank ==
  ASSUME NEW M, NEW T, Paired(M, T)
  PROVE  /\ Cardinality(T) = Cardinality(M)
         /\ \A r \in M : Rank(T, Twin(T, r)) = Rank(M, r)
<1>1. ASSUME NEW P, P \subseteq M, NEW Q, Q \subseteq T,
             \A r \in M : r \in P <=> Twin(T, r) \in Q
      PROVE  Cardinality(Q) = Cardinality(P)
  <2> DEFINE g == [r \in P |-> Twin(T, r)]
  <2>1. g \in [P -> Q] /\ \A r, s \in P : g[r] = g[s] => r = s
    BY <1>1, TwinBefore
  <2>2. ASSUME NEW q \in Q PROVE \E r \in P : g[r] = q
    <3>1. PICK r \in M : Twin(T, r) = q
      BY <1>1, TwinOnto
    <3> QED BY <1>1, <3>1
  <2>3. IsFiniteSet(P)
    BY <1>1, FS_Subset DEF Paired, Orderable
  <2> HIDE DEF g
  <2>4. g \in Bijection(P, Q)
    BY <2>1, <2>2, Fun_IsBij
  <2>5. ExistsBijection(P, Q)
    BY <2>4 DEF ExistsBijection
  <2> QED BY <2>3, <2>5, FS_Bijection
<1>2. Cardinality(T) = Cardinality(M)
  BY <1>1, TwinFound
<1>3. ASSUME NEW r \in M PROVE Rank(T, Twin(T, r)) = Rank(M, r)
  <2> DEFINE P == {s \in M : Before(s, r)}
             Q == {q \in T : Before(q, Twin(T, r))}
  <2>1. \A s \in M : s \in P <=> Twin(T, s) \in Q
    BY TwinFound, TwinBefore
  <2>2. P \subseteq M /\ Q \subseteq T
    OBVIOUS
  <2> HIDE DEF P, Q
  <2>3. Cardinality(Q) = Cardinality(P)
    BY <1>1, <2>1, <2>2
  <2> QED BY <2>3 DEF Rank, P, Q
<1> QED BY <1>2, <1>3

\* Whatever their audit ids, the sorted records are the same at every place.
LEMMA PairedSorted ==
  ASSUME NEW M, NEW T, Paired(M, T)
  PROVE  /\ Cardinality(T) = Cardinality(M)
         /\ \A i \in 1 .. Cardinality(M) : Content(Sorted(T)[i]) = Content(Sorted(M)[i])
<1>1. Cardinality(T) = Cardinality(M)
  BY TwinRank
<1>2. ASSUME NEW i \in 1 .. Cardinality(M) PROVE Content(Sorted(T)[i]) = Content(Sorted(M)[i])
  <2> DEFINE r == Sorted(M)[i]
             q == Twin(T, r)
  <2>1. r \in M /\ Rank(M, r) = i - 1
    BY SortedRanks DEF Paired
  <2> HIDE DEF r
  <2>2. q \in T /\ Content(q) = Content(r) /\ Rank(T, q) = i - 1
    BY <2>1, TwinFound, TwinRank
  <2> HIDE DEF q
  <2>3. Sorted(T)[Rank(T, q) + 1] = q
    BY <2>2, SortedRanks DEF Paired
  <2>4. Rank(T, q) + 1 = i
    BY <2>2
  <2> QED BY <2>2, <2>3, <2>4 DEF r
<1> QED BY <1>1, <1>2

-----------------------------------------------------------------------------
(* Pages.                                                                  *)

LEMMA SlicePositions ==
  ASSUME NEW S, NEW s \in Seq(S), NEW limit \in Int, limit >= 1, NEW offset \in Nat
  PROVE  /\ Slice(s, limit, offset) \in Seq(S)
         /\ \A i \in 1 .. Len(Slice(s, limit, offset)) :
              offset + i \in 1 .. Len(s) /\ Slice(s, limit, offset)[i] = s[offset + i]
<1> DEFINE last == IF offset + limit < Len(s) THEN offset + limit ELSE Len(s)
           slice == Slice(s, limit, offset)
<1>1. last \in Nat /\ last <= Len(s)
  OBVIOUS
<1>2. slice = SubSeq(s, offset + 1, last)
  BY DEF Slice
<1> HIDE DEF last, slice
<1>3. \A i \in offset + 1 .. last : s[i] \in S
  BY <1>1
<1>4. /\ slice \in Seq(S)
      /\ Len(slice) = IF offset + 1 <= last THEN last - (offset + 1) + 1 ELSE 0
      /\ \A i \in 1 .. last - (offset + 1) + 1 : slice[i] = s[offset + 1 + i - 1]
  BY <1>1, <1>2, <1>3, SubSeqProperties
<1>5. ASSUME NEW i \in 1 .. Len(slice)
      PROVE  offset + i \in 1 .. Len(s) /\ slice[i] = s[offset + i]
  <2>1. i \in 1 .. last - (offset + 1) + 1 /\ offset + i \in 1 .. Len(s)
    BY <1>1, <1>4
  <2>2. slice[i] = s[offset + 1 + i - 1] /\ offset + 1 + i - 1 = offset + i
    BY <1>4, <2>1
  <2> QED BY <2>1, <2>2
<1> QED BY <1>4, <1>5 DEF slice

\* Two lists whose records are the same at every place, audit ids aside.
SamePlaceByPlace(s, t) ==
  /\ Len(s) = Len(t)
  /\ \A i \in 1 .. Len(s) : Content(t[i]) = Content(s[i])

\* Slices of lists that are the same at every place.
LEMMA SameSlices ==
  ASSUME NEW S, NEW s \in Seq(S), NEW T, NEW t \in Seq(T), SamePlaceByPlace(s, t),
         NEW limit \in Int, limit >= 1, NEW offset \in Nat
  PROVE  SamePlaceByPlace(Slice(s, limit, offset), Slice(t, limit, offset))
<1>0. Len(s) = Len(t) /\ \A i \in 1 .. Len(s) : Content(t[i]) = Content(s[i])
  BY DEF SamePlaceByPlace
<1>1. Len(Slice(s, limit, offset)) = Len(Slice(t, limit, offset))
  <2> DEFINE last == IF offset + limit < Len(s) THEN offset + limit ELSE Len(s)
  <2>1. last \in Nat /\ last <= Len(s)
    OBVIOUS
  <2>2. /\ Slice(s, limit, offset) = SubSeq(s, offset + 1, last)
        /\ Slice(t, limit, offset) = SubSeq(t, offset + 1, last)
    BY <1>0 DEF Slice
  <2> HIDE DEF last
  <2>3. /\ \A i \in offset + 1 .. last : s[i] \in S
        /\ \A i \in offset + 1 .. last : t[i] \in T
    BY <1>0, <2>1
  <2> QED BY <1>0, <2>1, <2>2, <2>3, SubSeqProperties
<1>2. ASSUME NEW i \in 1 .. Len(Slice(s, limit, offset))
      PROVE  Content(Slice(t, limit, offset)[i]) = Content(Slice(s, limit, offset)[i])
  <2>1. offset + i \in 1 .. Len(s) /\ Slice(s, limit, offset)[i] = s[offset + i]
    BY SlicePositions
  <2>2. Slice(t, limit, offset)[i] = t[offset + i]
    BY <1>1, SlicePositions
  <2> QED BY <1>0, <2>1, <2>2
<1> QED BY <1>1, <1>2 DEF SamePlaceByPlace

\* Paired selections, shown with a limit, without one, and with the total.
\* `total` is not part of a record, and no record has the audit id None.
LEMMA PairedPages ==
  ASSUME NEW filters, NEW page, ValidPage(page),
         page.limit # None => page.limit \in Int, page.offset \in Int,
         Paired({r \in FirstRecords : Matches(r, filters)}, Selected(filters)),
         \A q \in Selected(filters) : "audit_id" \in DOMAIN q /\ "total" \notin DOMAIN q
  PROVE  SamePage(MemoryPage(filters, page), TablePage(filters, page))
<1> DEFINE M == {r \in FirstRecords : Matches(r, filters)}
           T == Selected(filters)
           m == Sorted(M)
           t == Sorted(T)
<1>1. /\ m \in Seq(M) /\ t \in Seq(T) /\ Len(m) = Len(t) /\ Len(m) = Cardinality(M)
      /\ Cardinality(T) = Cardinality(M) /\ Len(m) \in Nat
      /\ DOMAIN m = 1 .. Len(m)
      /\ \A i \in 1 .. Len(m) : Content(t[i]) = Content(m[i])
  <2>1. Paired(M, T) /\ Orderable(M) /\ Orderable(T)
    BY DEF Paired
  <2> HIDE DEF M, T
  <2>2. /\ Sorted(M) \in Seq(M) /\ Len(Sorted(M)) = Cardinality(M) /\ Cardinality(M) \in Nat
        /\ DOMAIN Sorted(M) = 1 .. Cardinality(M)
    BY <2>1, SortedRanks
  <2>3. Sorted(T) \in Seq(T) /\ Len(Sorted(T)) = Cardinality(T)
    BY <2>1, SortedRanks
  <2> QED BY <2>1, <2>2, <2>3, PairedSorted
<1>2. MemoryListAll(filters) = m /\ TableListAll(filters) = t
  BY DEF MemoryListAll, TableListAll
<1>3. CASE page.limit = None
  BY <1>1, <1>2, <1>3 DEF MemoryPage, TablePage, SamePage
<1>4. CASE page.limit # None
  <2> DEFINE limit == page.limit
             offset == page.offset
             mine == Slice(m, limit, offset)
             its == Slice(t, limit, offset)
  <2>1. limit \in Int /\ limit >= 1 /\ offset \in Nat
    BY <1>4 DEF ValidPage
  <2>2. MemoryListPage(filters, limit, offset) = mine
    BY <1>2 DEF MemoryListPage
  <2>3. TableListPage(filters, limit, offset) = its
    <3>1. Orderable(T)
      BY DEF Paired
    <3> HIDE DEF T, limit, offset
    <3>2. Sorted({r \in T : Rank(T, r) \in offset .. offset + limit - 1}) = Slice(Sorted(T), limit, offset)
      BY <2>1, <3>1, SliceIsPage
    <3> QED BY <3>2 DEF TableListPage, T
  <2> HIDE DEF m, t, M, T, limit, offset
  <2>4. /\ Len(mine) = Len(its)
        /\ \A i \in 1 .. Len(mine) : Content(mine[i]) = Content(its[i])
    <3>1. SamePlaceByPlace(m, t)
      BY <1>1 DEF SamePlaceByPlace
    <3>2. m \in Seq(M) /\ t \in Seq(T)
      BY <1>1
    <3>3. SamePlaceByPlace(mine, its)
      BY <2>1, <3>1, <3>2, SameSlices
    <3> QED BY <3>3 DEF SamePlaceByPlace
  <2>5. /\ mine \in Seq(M) /\ its \in Seq(T)
    BY <1>1, <2>1, SlicePositions
  <2> HIDE DEF mine, its
  <2>6. /\ MemoryPage(filters, page) =
             [items |-> mine, total |-> IF page.include_total THEN Len(m) ELSE None]
        /\ ~page.include_total => TablePage(filters, page) = [items |-> its, total |-> None]
        /\ page.include_total =>
             TablePage(filters, page) = TableListPageWithTotal(filters, limit, offset)
    BY <1>2, <1>4, <2>2, <2>3 DEF MemoryPage, TablePage, limit, offset
  <2>7. CASE ~page.include_total
    BY <2>4, <2>5, <2>6, <2>7 DEF SamePage
  <2>8. CASE page.include_total
    <3> DEFINE joined == JoinedRows(filters, limit, offset)
               total == Cardinality(T)
    <3>1. joined = IF its = <<>> THEN <<[audit_id |-> None, total |-> total]>>
                   ELSE [i \in DOMAIN its |-> With([total |-> total], its[i])]
      BY <2>3 DEF JoinedRows, T
    <3>2. TablePage(filters, page) =
            [items |-> IF joined[1].audit_id = None THEN <<>> ELSE joined, total |-> joined[1].total]
      BY <2>6, <2>8 DEF TableListPageWithTotal
    <3> HIDE DEF joined, total
    <3>3. CASE its = <<>>
      <4>1. joined[1].audit_id = None /\ joined[1].total = total
        BY <3>1, <3>3
      <4>2. TablePage(filters, page) = [items |-> <<>>, total |-> total]
        BY <3>2, <4>1
      <4>3. Len(mine) = 0 /\ Len(m) = total
        BY <1>1, <2>4, <3>3 DEF total
      <4> QED BY <2>5, <2>6, <2>8, <4>2, <4>3 DEF SamePage
    <3>4. CASE its # <<>>
      <4>1. /\ DOMAIN its = 1 .. Len(its) /\ Len(its) \in Nat /\ Len(its) # 0
            /\ \A i \in 1 .. Len(its) : its[i] \in T
        BY <2>5, <3>4
      <4>2. joined = [i \in 1 .. Len(its) |-> With([total |-> total], its[i])]
        BY <3>1, <3>4, <4>1
      <4>3. Len(joined) = Len(its) /\ DOMAIN joined = 1 .. Len(its)
        BY <4>1, <4>2
      <4>4. ASSUME NEW q \in T
            PROVE  /\ With([total |-> total], q).total = total
                   /\ With([total |-> total], q).audit_id = q.audit_id
                   /\ Content(With([total |-> total], q)) = Content(q)
        <5>1. "audit_id" \in DOMAIN q /\ "total" \notin DOMAIN q
          BY DEF T
        <5> QED BY <5>1 DEF With, Content
      <4>5. \A q \in T : q.audit_id # None
        <5>1. \A q \in T : q.audit_id \in Nat
          BY DEF T, Paired, Orderable
        <5> QED BY <5>1, AuditLogAssumption
      <4>6. joined[1].audit_id # None /\ joined[1].total = total
        <5>1. 1 \in 1 .. Len(its) /\ its[1] \in T
          BY <4>1
        <5>2. joined[1] = With([total |-> total], its[1])
          BY <4>2, <5>1
        <5> QED BY <4>4, <4>5, <5>1, <5>2
      <4>7. TablePage(filters, page) = [items |-> joined, total |-> total]
        BY <3>2, <4>6
      <4>8. \A i \in 1 .. Len(its) : Content(joined[i]) = Content(its[i])
        BY <4>1, <4>2, <4>4
      <4>9. Len(m) = total
        BY <1>1 DEF total
      <4> QED BY <2>4, <2>5, <2>6, <2>8, <4>3, <4>7, <4>8, <4>9 DEF SamePage
    <3> QED BY <3>3, <3>4
  <2> QED BY <2>7, <2>8
<1> QED BY <1>3, <1>4

-----------------------------------------------------------------------------
(* What both repositories hold.                                            *)

RecordFields ==
  KindFields \cup {"audit_id", "created_at", "event_id", "envelope_id", "occurred_at",
                   "actor_user_id", "actor_username"}

\* A record or a row, with the values that the code compares.
IsRecord(r) ==
  /\ DOMAIN r = RecordFields
  /\ r.audit_id \in Nat /\ r.occurred_at \in Times /\ r.created_at \in Times

\* Event e has been recorded in memory, or in the table.
InMemory(e) == \E r \in FirstRecords : r.event_id = e
InTable(e) == \E r \in rows : r.event_id = e

SameEvents == \A e : InMemory(e) <=> InTable(e)

\* The identity column counts conflicts too, so a row's audit id is at least
\* its record's, and no two rows have the same.
TypedRecords ==
  /\ \A i \in DOMAIN records : IsRecord(records[i]) /\ records[i].audit_id = i
  /\ \A q \in rows : IsRecord(q) /\ q.audit_id < serial
  /\ \A p, q \in rows : p.audit_id = q.audit_id => p = q

\* An event's record and its row differ in their audit ids alone.
SameContents ==
  \A r \in FirstRecords, q \in rows : q.event_id = r.event_id => Content(q) = Content(r)

\* Records were added in the order of the rows.
SameOrder ==
  \A r, s \in FirstRecords, p, q \in rows :
    p.event_id = r.event_id /\ q.event_id = s.event_id =>
      (r.audit_id < s.audit_id <=> p.audit_id < q.audit_id)

LogInv ==
  /\ records \in Seq(FirstRecords)
  /\ IsFiniteSet(rows)
  /\ Cardinality(rows) = Len(records)
  /\ SameEvents
  /\ \A r, s \in rows : r.event_id = s.event_id => r = s
  /\ now \in Times /\ serial \in Nat
  /\ TypedRecords
  /\ SameContents
  /\ SameOrder

-----------------------------------------------------------------------------

LEMMA WithDomain ==
  ASSUME NEW f, NEW g
  PROVE  /\ DOMAIN With(f, g) = DOMAIN f \cup DOMAIN g
         /\ \A x \in DOMAIN f : With(f, g)[x] = f[x]
         /\ \A x \in DOMAIN g \ DOMAIN f : With(f, g)[x] = g[x]
BY DEF With

\* What a draft and the time of its addition say of a record.
ContentOf(draft) ==
  [f \in RecordFields \ {"audit_id"} |-> IF f = "created_at" THEN now ELSE draft[f]]

\* What a draft becomes under an audit id.
LEMMA DraftBecomesRecord ==
  ASSUME NEW e, NEW kind, DOMAIN kind = KindFields, NEW occurred_at \in Times, NEW actor,
         now \in Times, NEW id \in Nat
  PROVE  /\ DraftOf(e, kind, occurred_at, actor).event_id = e
         /\ IsRecord(BuildRecord(DraftOf(e, kind, occurred_at, actor), id))
         /\ BuildRecord(DraftOf(e, kind, occurred_at, actor), id).event_id = e
         /\ BuildRecord(DraftOf(e, kind, occurred_at, actor), id).audit_id = id
         /\ Content(BuildRecord(DraftOf(e, kind, occurred_at, actor), id)) =
              ContentOf(DraftOf(e, kind, occurred_at, actor))
<1> DEFINE event == [event_id |-> e, envelope_id |-> serial, occurred_at |-> occurred_at,
                     actor_user_id |-> actor.user_id, actor_username |-> actor.username]
           stamp == [audit_id |-> id, created_at |-> now]
           draft == DraftOf(e, kind, occurred_at, actor)
           r == BuildRecord(draft, id)
<1>1. /\ DOMAIN event = {"event_id", "envelope_id", "occurred_at", "actor_user_id", "actor_username"}
      /\ event["event_id"] = e /\ event["occurred_at"] = occurred_at
  OBVIOUS
<1>2. DOMAIN stamp = {"audit_id", "created_at"} /\ stamp["audit_id"] = id /\ stamp["created_at"] = now
  OBVIOUS
<1>3. draft = With(event, kind) /\ r = With(stamp, draft)
  BY DEF DraftOf, BuildRecord
<1> HIDE DEF event, stamp, draft, r
<1>4. /\ DOMAIN draft = DOMAIN event \cup KindFields
      /\ \A f \in DOMAIN event : draft[f] = event[f]
  BY <1>3, WithDomain
<1>5. DOMAIN draft = RecordFields \ {"audit_id", "created_at"}
  BY <1>1, <1>4 DEF KindFields, RecordFields
<1>6. draft["event_id"] = e /\ draft["occurred_at"] = occurred_at
  BY <1>1, <1>4
<1>7. /\ DOMAIN r = DOMAIN stamp \cup DOMAIN draft
      /\ \A f \in DOMAIN stamp : r[f] = stamp[f]
      /\ \A f \in DOMAIN draft \ DOMAIN stamp : r[f] = draft[f]
  BY <1>3, WithDomain
<1>8. DOMAIN r = RecordFields
  BY <1>2, <1>5, <1>7 DEF RecordFields
<1>9. r["audit_id"] = id /\ r["created_at"] = now
  BY <1>2, <1>7
<1>10. \A f \in RecordFields \ {"audit_id", "created_at"} : r[f] = draft[f]
  BY <1>2, <1>5, <1>7
<1>11. r["event_id"] = e /\ r["occurred_at"] = occurred_at
  BY <1>6, <1>10 DEF RecordFields
<1>12. "total" \notin RecordFields
  BY DEF RecordFields, KindFields
<1>13. Content(r) = [f \in RecordFields \ {"audit_id"} |-> r[f]]
  BY <1>8, <1>12 DEF Content
<1>14. \A f \in RecordFields \ {"audit_id"} :
         r[f] = IF f = "created_at" THEN now ELSE draft[f]
  BY <1>9, <1>10
<1>15. Content(r) = [f \in RecordFields \ {"audit_id"} |->
                      IF f = "created_at" THEN now ELSE draft[f]]
  BY <1>13, <1>14
<1>16. Content(r) = ContentOf(draft)
  BY <1>15 DEF ContentOf
<1> QED BY <1>6, <1>8, <1>9, <1>11, <1>16 DEF IsRecord, draft, r

\* A sequence of any elements, extended.
LEMMA Extended ==
  ASSUME records \in Seq(FirstRecords), NEW r, records' = Append(records, r)
  PROVE  /\ records' \in Seq(FirstRecords')
         /\ FirstRecords' = FirstRecords \cup {r}
         /\ Len(records') = Len(records) + 1
         /\ IsPrefix(records, records')
         /\ DOMAIN records = 1 .. Len(records) /\ Len(records) \in Nat
         /\ DOMAIN records' = 1 .. Len(records) + 1
         /\ \A i \in 1 .. Len(records) : records'[i] = records[i]
         /\ records'[Len(records) + 1] = r
<1> DEFINE S == FirstRecords \cup {r}
<1>1. records \in Seq(S) /\ Len(records) \in Nat /\ DOMAIN records = 1 .. Len(records)
  BY DEF FirstRecords
<1>2. /\ records' \in Seq(S) /\ Len(records') = Len(records) + 1
      /\ \A i \in 1 .. Len(records) : records'[i] = records[i]
      /\ records'[Len(records) + 1] = r
      /\ DOMAIN records' = 1 .. Len(records) + 1
  BY <1>1, AppendProperties
<1>3. FirstRecords' = FirstRecords \cup {r}
  BY <1>1, <1>2 DEF FirstRecords
<1>4. IsPrefix(records, records')
  <2>1. SubSeq(records, 1, Len(records)) = SubSeq(records', 1, Len(records))
    BY <1>1, <1>2
  <2> QED BY <1>1, <1>2, <2>1 DEF IsPrefix
<1> QED BY <1>1, <1>2, <1>3, <1>4

-----------------------------------------------------------------------------

\* What no step does: lose a record, or keep one backend behind the other.
Kept == IsPrefix(records, records') /\ rows \subseteq rows' /\ Len(records') = Cardinality(rows')

LEMMA SameRecordsStep ==
  ASSUME LogInv, UNCHANGED <<records, rows>>, now' \in Times, serial' \in Nat, serial' >= serial
  PROVE  LogInv' /\ Kept
<1>1. IsPrefix(records, records)
  BY DEF LogInv, IsPrefix
<1>2. FirstRecords' = FirstRecords
  BY DEF FirstRecords
<1>3. SameEvents'
  BY <1>2 DEF LogInv, SameEvents, InMemory, InTable
<1>4. TypedRecords'
  <2>1. \A q \in rows : q.audit_id \in Nat /\ q.audit_id < serial
    BY DEF LogInv, TypedRecords, IsRecord
  <2>2. \A q \in rows : q.audit_id < serial'
    BY <2>1 DEF LogInv
  <2> QED BY <2>2 DEF LogInv, TypedRecords, IsRecord
<1>5. SameContents' /\ SameOrder'
  BY <1>2 DEF LogInv, SameContents, SameOrder
<1>6. LogInv'
  BY <1>2, <1>3, <1>4, <1>5 DEF LogInv
<1> QED BY <1>1, <1>6 DEF LogInv, Kept

\* The parts of LogInv that follow when one record and its row are added.
LEMMA AddedEvents ==
  ASSUME LogInv, NEW e, NEW r, r.event_id = e, NEW s, s.event_id = e, ~InTable(e),
         FirstRecords' = FirstRecords \cup {r}, rows' = rows \cup {s}
  PROVE  /\ SameEvents' /\ s \notin rows
         /\ \A p, q \in rows' : p.event_id = q.event_id => p = q
         /\ \A p \in FirstRecords \cup rows : p.event_id # e
<1>1. ASSUME NEW d PROVE InMemory(d)' <=> InMemory(d) \/ d = e
  BY DEF InMemory
<1>2. ASSUME NEW d PROVE InTable(d)' <=> InTable(d) \/ d = e
  BY DEF InTable
<1>3. ASSUME NEW d PROVE InMemory(d) <=> InTable(d)
  BY DEF LogInv, SameEvents
<1>4. ASSUME NEW d PROVE InMemory(d)' <=> InTable(d)'
  BY <1>1, <1>2, <1>3
<1>5. SameEvents'
  BY <1>4 DEF SameEvents
<1>6. ~InMemory(e)
  BY <1>3
<1>7. s \notin rows /\ \A p \in FirstRecords \cup rows : p.event_id # e
  BY <1>6 DEF InMemory, InTable
<1>8. ASSUME NEW p \in rows', NEW q \in rows', p.event_id = q.event_id PROVE p = q
  BY <1>7, <1>8 DEF LogInv
<1> QED BY <1>5, <1>7, <1>8

LEMMA AddStep ==
  ASSUME LogInv, NEW e, NEW kind, DOMAIN kind = KindFields, NEW occurred_at \in Times, NEW actor,
         Add(DraftOf(e, kind, occurred_at, actor)), now' = now
  PROVE  LogInv' /\ Kept
<1> DEFINE draft == DraftOf(e, kind, occurred_at, actor)
           n == Len(records)
           r == BuildRecord(draft, n + 1)
           s == BuildRecord(draft, serial)
<1>1. now \in Times /\ serial \in Nat /\ n \in Nat /\ serial' = serial + 1
  BY DEF LogInv, Add
<1>2. /\ draft.event_id = e /\ r.event_id = e /\ s.event_id = e
      /\ IsRecord(r) /\ r.audit_id = n + 1 /\ IsRecord(s) /\ s.audit_id = serial
      /\ Content(r) = Content(s)
  <2>1. ASSUME NEW id \in Nat
        PROVE  /\ draft.event_id = e
               /\ IsRecord(BuildRecord(draft, id)) /\ BuildRecord(draft, id).event_id = e
               /\ BuildRecord(draft, id).audit_id = id
               /\ Content(BuildRecord(draft, id)) = ContentOf(draft)
    BY <1>1, DraftBecomesRecord
  <2>2. n + 1 \in Nat /\ serial \in Nat
    BY <1>1
  <2> HIDE DEF draft, n
  <2> QED BY <2>1, <2>2
<1>3. /\ records' = IF InMemory(e) THEN records ELSE Append(records, r)
      /\ rows' = IF InTable(e) THEN rows ELSE rows \cup {s}
  BY <1>2 DEF Add, MemoryAdd, TableAdd, InMemory, InTable
<1>4. InMemory(e) <=> InTable(e)
  BY DEF LogInv, SameEvents
<1> HIDE DEF draft, r, s
<1>5. CASE InTable(e)
  <2>1. UNCHANGED <<records, rows>> /\ now' \in Times /\ serial' \in Nat /\ serial' >= serial
    BY <1>1, <1>3, <1>4, <1>5
  <2> QED BY <2>1, SameRecordsStep
<1>6. CASE ~InTable(e)
  <2>1. records' = Append(records, r) /\ rows' = rows \cup {s}
    BY <1>3, <1>4, <1>6
  <2>2. /\ records' \in Seq(FirstRecords') /\ FirstRecords' = FirstRecords \cup {r}
        /\ Len(records') = n + 1 /\ IsPrefix(records, records')
        /\ DOMAIN records = 1 .. n /\ DOMAIN records' = 1 .. n + 1
        /\ \A i \in 1 .. n : records'[i] = records[i]
        /\ records'[n + 1] = r
    BY <2>1, Extended DEF LogInv
  <2>3. /\ SameEvents' /\ s \notin rows
        /\ \A p, q \in rows' : p.event_id = q.event_id => p = q
        /\ \A p \in FirstRecords \cup rows : p.event_id # e
    BY <1>2, <1>6, <2>1, <2>2, AddedEvents
  <2>4. IsFiniteSet(rows') /\ Cardinality(rows') = n + 1
    BY <2>1, <2>3, FS_AddElement DEF LogInv
  <2>5. \A p \in FirstRecords : p.audit_id \in 1 .. n
    BY <2>2 DEF LogInv, TypedRecords, FirstRecords
  <2>6. \A q \in rows : q.audit_id \in Nat /\ q.audit_id < serial
    BY DEF LogInv, TypedRecords, IsRecord
  <2>7. TypedRecords'
    <3>1. \A i \in 1 .. n + 1 : IsRecord(records'[i]) /\ records'[i].audit_id = i
      <4> TAKE i \in 1 .. n + 1
      <4>1. CASE i \in 1 .. n
        BY <2>2, <4>1 DEF LogInv, TypedRecords
      <4>2. CASE i = n + 1
        BY <1>2, <2>2, <4>2
      <4> QED BY <1>1, <4>1, <4>2
    <3>2. \A q \in rows' : IsRecord(q) /\ q.audit_id < serial'
      <4> TAKE q \in rows'
      <4>1. CASE q \in rows
        BY <1>1, <2>6, <4>1 DEF LogInv, TypedRecords
      <4>2. CASE q = s
        BY <1>1, <1>2, <4>2
      <4> QED BY <2>1, <4>1, <4>2
    <3>3. \A p, q \in rows' : p.audit_id = q.audit_id => p = q
      <4>1. \A p \in rows : p.audit_id # s.audit_id
        BY <1>1, <1>2, <2>6
      <4> QED BY <2>1, <4>1 DEF LogInv, TypedRecords
    <3> QED BY <2>2, <3>1, <3>2, <3>3 DEF TypedRecords, IsRecord
  <2>8. SameContents'
    <3> SUFFICES ASSUME NEW p \in FirstRecords', NEW q \in rows', q.event_id = p.event_id
                 PROVE  Content(q) = Content(p)
      BY DEF SameContents, Content
    <3>1. CASE p \in FirstRecords /\ q \in rows
      BY <3>1 DEF LogInv, SameContents
    <3>2. CASE p = r /\ q = s
      BY <1>2, <3>2
    <3>3. (p = r <=> q = s)
      BY <1>2, <2>1, <2>2, <2>3
    <3> QED BY <2>1, <2>2, <3>1, <3>2, <3>3
  <2>9. SameOrder'
    <3> SUFFICES ASSUME NEW a \in FirstRecords', NEW b \in FirstRecords',
                        NEW p \in rows', NEW q \in rows',
                        p.event_id = a.event_id, q.event_id = b.event_id
                 PROVE  a.audit_id < b.audit_id <=> p.audit_id < q.audit_id
      BY DEF SameOrder
    <3>1. (a = r <=> p = s) /\ (b = r <=> q = s)
      BY <1>2, <2>1, <2>2, <2>3
    <3>2. /\ a \in FirstRecords \/ a = r
          /\ b \in FirstRecords \/ b = r
          /\ p \in rows \/ p = s
          /\ q \in rows \/ q = s
      BY <2>1, <2>2
    <3>3. CASE a # r /\ b # r
      BY <3>1, <3>2, <3>3 DEF LogInv, SameOrder
    <3>4. CASE a = r /\ b = r
      BY <1>1, <1>2, <3>1, <3>4
    <3>5. CASE a # r /\ b = r
      <4>1. a.audit_id \in 1 .. n /\ b.audit_id = n + 1 /\ q.audit_id = serial
        BY <1>2, <2>5, <3>1, <3>2, <3>5
      <4>2. p.audit_id \in Nat /\ p.audit_id < serial
        BY <2>6, <3>1, <3>2, <3>5
      <4> QED BY <1>1, <4>1, <4>2
    <3>6. CASE a = r /\ b # r
      <4>1. b.audit_id \in 1 .. n /\ a.audit_id = n + 1 /\ p.audit_id = serial
        BY <1>2, <2>5, <3>1, <3>2, <3>6
      <4>2. q.audit_id \in Nat /\ q.audit_id < serial
        BY <2>6, <3>1, <3>2, <3>6
      <4> QED BY <1>1, <4>1, <4>2
    <3> QED BY <3>3, <3>4, <3>5, <3>6
  <2>10. now' \in Times /\ serial' \in Nat
    BY <1>1
  <2>11. LogInv'
    BY <2>2, <2>3, <2>4, <2>7, <2>8, <2>9, <2>10 DEF LogInv
  <2> QED BY <2>1, <2>2, <2>4, <2>11 DEF Kept
<1> QED BY <1>5, <1>6

LEMMA InitLog == Init => LogInv
<1> SUFFICES ASSUME Init PROVE LogInv
  OBVIOUS
<1>1. records = <<>> /\ rows = {} /\ FirstRecords = {} /\ DOMAIN records = {}
  BY DEF Init, FirstRecords
<1>2. IsFiniteSet({}) /\ Cardinality({}) = 0
  BY FS_EmptySet
<1>3. SameEvents
  <2>1. ASSUME NEW e PROVE ~InMemory(e) /\ ~InTable(e)
    BY <1>1 DEF InMemory, InTable
  <2> QED BY <2>1 DEF SameEvents
<1>4. TypedRecords /\ SameContents /\ SameOrder
  BY <1>1 DEF TypedRecords, SameContents, SameOrder
<1>5. now \in Times /\ serial \in Nat
  BY DEF Init
<1> QED BY <1>1, <1>2, <1>3, <1>4, <1>5 DEF LogInv

LEMMA NextLog == LogInv /\ [Next]_vars => LogInv' /\ (vars' = vars \/ Kept)
<1> SUFFICES ASSUME LogInv, [Next]_vars PROVE LogInv' /\ (vars' = vars \/ Kept)
  OBVIOUS
<1>1. ASSUME NEW kind \in Kinds, NEW occurred_at \in Times, NEW actor,
             Deliver(kind, occurred_at, actor)
      PROVE  LogInv' /\ Kept
  <2>1. DOMAIN kind = KindFields
    BY AuditLogAssumption
  <2> QED BY <1>1, <2>1, AddStep DEF Deliver
<1>2. ASSUME NEW first \in FirstRecords, NEW actor, Redeliver(first, actor)
      PROVE  LogInv' /\ Kept
  <2> DEFINE kind == [f \in KindFields |-> first[f]]
  <2>1. first.occurred_at \in Times
    BY DEF LogInv, TypedRecords, IsRecord, FirstRecords
  <2>2. DOMAIN kind = KindFields /\ now' = now
        /\ Add(DraftOf(first.event_id, kind, first.occurred_at, actor))
    BY <1>2 DEF Redeliver
  <2> HIDE DEF kind
  <2> QED BY <2>1, <2>2, AddStep
<1>3. ASSUME UNCHANGED <<records, rows, serial>>, now' \in Times
      PROVE  LogInv' /\ Kept
  <2>1. serial \in Nat /\ serial' >= serial
    BY <1>3 DEF LogInv
  <2> QED BY <1>3, <2>1, SameRecordsStep
<1>4. CASE Tick
  BY <1>3, <1>4 DEF Tick
<1>5. ASSUME NEW viewer, NEW filters, NEW page, View(viewer, filters, page)
      PROVE  LogInv' /\ Kept
  <2>1. ASSUME NEW type, NEW id, Refuse(viewer, filters, Denial(type, id)) PROVE LogInv' /\ Kept
    <3>1. DOMAIN Denial(type, id) = KindFields /\ now \in Times
      BY DEF Denial, KindFields, LogInv
    <3> QED BY <2>1, <3>1, AddStep DEF Refuse
  <2>2. CASE UNCHANGED <<records, rows, serial, now>>
    BY <1>3, <2>2 DEF LogInv
  <2> QED BY <1>5, <2>1, <2>2 DEF View
<1>6. CASE Answered
  BY <1>3, <1>6 DEF Answered, LogInv
<1>7. CASE UNCHANGED vars
  BY <1>3, <1>7 DEF vars, LogInv
<1> QED BY <1>1, <1>2, <1>4, <1>5, <1>6, <1>7 DEF Next

-----------------------------------------------------------------------------
(* What is shown.                                                          *)

\* Filters that the code can be given: no field is given as None.
ProperFilters(filters) == \A f \in DOMAIN filters : filters[f] # None

\* The same records match in memory and in the table, where a comparison with
\* NULL fails: what a filter gives is never NULL.
LEMMA MatchesAgree ==
  ASSUME LogInv, NEW filters, ProperFilters(filters), NEW r \in FirstRecords, NEW q \in rows,
         Content(q) = Content(r)
  PROVE  q \in Selected(filters) <=> Matches(r, filters)
<1>1. IsRecord(r) /\ IsRecord(q)
  BY DEF LogInv, TypedRecords, FirstRecords
<1>2. "total" \notin RecordFields
  BY DEF RecordFields, KindFields
<1>3. /\ Content(r) = [f \in RecordFields \ {"audit_id"} |-> r[f]]
      /\ Content(q) = [f \in RecordFields \ {"audit_id"} |-> q[f]]
  BY <1>1, <1>2 DEF Content, IsRecord
<1>4. \A f \in RecordFields \ {"audit_id"} : q[f] = r[f]
  BY <1>3
<1>5. q.occurred_at = r.occurred_at /\ q.created_at = r.created_at
  BY <1>4 DEF RecordFields
<1>6. \A f \in Equalities : q[f] = r[f]
  BY <1>4 DEF Equalities, RecordFields, KindFields
<1>7. r.occurred_at # None /\ r.created_at # None
  BY <1>1, AuditLogAssumption DEF IsRecord
<1>8. ASSUME NEW f PROVE Given(filters, f) => filters[f] # None
  BY DEF Given, ProperFilters
<1>9. (\A f \in Equalities : Given(filters, f) => q[f] # None /\ q[f] = filters[f])
        <=> (\A f \in Equalities : Given(filters, f) => r[f] = filters[f])
  BY <1>6, <1>8
<1>10. WhereClause(q, filters) <=>
         /\ \A f \in Equalities : Given(filters, f) => q[f] # None /\ q[f] = filters[f]
         /\ Given(filters, "occurred_from") =>
              q.occurred_at # None /\ q.occurred_at >= filters["occurred_from"]
         /\ Given(filters, "occurred_to") =>
              q.occurred_at # None /\ q.occurred_at <= filters["occurred_to"]
         /\ Given(filters, "created_from") =>
              q.created_at # None /\ q.created_at >= filters["created_from"]
         /\ Given(filters, "created_to") =>
              q.created_at # None /\ q.created_at <= filters["created_to"]
  BY DEF WhereClause, SqlTest
<1>11. WhereClause(q, filters) <=> Matches(r, filters)
  BY <1>5, <1>7, <1>9, <1>10 DEF InRange, Matches
<1> QED BY <1>11 DEF Selected

LEMMA RecordsOrderable ==
  ASSUME LogInv
  PROVE  Orderable(FirstRecords) /\ Orderable(rows)
<1> DEFINE Typed(r) == r.occurred_at \in Int /\ r.audit_id \in Nat
<1>0. ASSUME NEW r, IsRecord(r) PROVE Typed(r)
  <2>1. \A t \in Times : t \in Nat
    BY AuditLogAssumption
  <2>2. r.occurred_at \in Times /\ r.audit_id \in Nat
    BY <1>0 DEF IsRecord
  <2>3. r.occurred_at \in Nat
    BY <2>1, <2>2
  <2> QED BY <2>2, <2>3
<1>1. Orderable(rows)
  <2>1. \A r \in rows : IsRecord(r)
    BY DEF LogInv, TypedRecords
  <2>2. \A r \in rows : Typed(r)
    BY <1>0, <2>1
  <2> QED BY <2>2 DEF LogInv, TypedRecords, Orderable
<1>2. records \in Seq(FirstRecords) /\ DOMAIN records = 1 .. Len(records) /\ Len(records) \in Nat
  BY DEF LogInv
<1>3. \A r \in FirstRecords : r.occurred_at \in Int /\ r.audit_id \in Nat
  <2>1. \A r \in FirstRecords : IsRecord(r)
    BY DEF LogInv, TypedRecords, FirstRecords
  <2>2. \A r \in FirstRecords : Typed(r)
    BY <1>0, <2>1
  <2> QED BY <2>2
<1>4. \A r, s \in FirstRecords : r.audit_id = s.audit_id => r = s
  BY DEF LogInv, TypedRecords, FirstRecords
<1>5. IsFiniteSet(FirstRecords)
  <2>1. records \in Surjection(1 .. Len(records), FirstRecords)
    <3>1. records \in [1 .. Len(records) -> FirstRecords]
      BY <1>2
    <3>2. \A r \in FirstRecords : \E i \in 1 .. Len(records) : records[i] = r
      BY <1>2 DEF FirstRecords
    <3> QED BY <3>1, <3>2, Fun_IsSurj
  <2>2. IsFiniteSet(1 .. Len(records))
    BY <1>2, FS_Interval
  <2> QED BY <2>1, <2>2, FS_Surjection
<1> QED BY <1>1, <1>3, <1>4, <1>5 DEF Orderable

LEMMA SelectionsPaired ==
  ASSUME LogInv, NEW filters, ProperFilters(filters)
  PROVE  Paired({r \in FirstRecords : Matches(r, filters)}, Selected(filters))
<1> DEFINE M == {r \in FirstRecords : Matches(r, filters)}
           T == Selected(filters)
<1>1. ASSUME NEW r \in FirstRecords PROVE \E q \in rows : q.event_id = r.event_id /\ Content(q) = Content(r)
  <2>1. InMemory(r.event_id)
    BY DEF InMemory
  <2>2. InTable(r.event_id)
    BY <2>1 DEF LogInv, SameEvents
  <2> QED BY <2>2 DEF InTable, LogInv, SameContents
<1>2. ASSUME NEW q \in rows PROVE \E r \in FirstRecords : q.event_id = r.event_id /\ Content(q) = Content(r)
  <2>1. InTable(q.event_id)
    BY DEF InTable
  <2>2. InMemory(q.event_id)
    BY <2>1 DEF LogInv, SameEvents
  <2> QED BY <2>2 DEF InMemory, LogInv, SameContents
<1>3. ASSUME NEW r \in FirstRecords, NEW q \in rows, Content(q) = Content(r)
      PROVE  q.event_id = r.event_id /\ q.occurred_at = r.occurred_at
  <2>1. IsRecord(r) /\ IsRecord(q) /\ "total" \notin RecordFields
    BY DEF LogInv, TypedRecords, FirstRecords, RecordFields, KindFields
  <2>2. /\ Content(r) = [f \in RecordFields \ {"audit_id"} |-> r[f]]
        /\ Content(q) = [f \in RecordFields \ {"audit_id"} |-> q[f]]
    BY <2>1 DEF Content, IsRecord
  <2>3. \A f \in RecordFields \ {"audit_id"} : q[f] = r[f]
    BY <1>3, <2>2
  <2> QED BY <2>3 DEF RecordFields
<1>4. Orderable(M) /\ Orderable(T)
  BY RecordsOrderable, SubsetOrderable DEF Selected
<1>5. \A r \in M : \E q \in T : Content(q) = Content(r)
  BY <1>1, MatchesAgree
<1>6. \A q \in T : \E r \in M : Content(q) = Content(r)
  BY <1>2, MatchesAgree DEF Selected
<1>7. ASSUME NEW r \in FirstRecords, NEW s \in FirstRecords, NEW p \in rows, NEW q \in rows,
             Content(p) = Content(r), Content(q) = Content(s)
      PROVE  Before(r, s) <=> Before(p, q)
  <2>1. /\ p.event_id = r.event_id /\ p.occurred_at = r.occurred_at
        /\ q.event_id = s.event_id /\ q.occurred_at = s.occurred_at
    BY <1>3, <1>7
  <2>2. s.audit_id < r.audit_id <=> q.audit_id < p.audit_id
    BY <2>1 DEF LogInv, SameOrder
  <2>3. /\ r.audit_id \in Int /\ s.audit_id \in Int /\ p.audit_id \in Int /\ q.audit_id \in Int
    BY RecordsOrderable DEF Orderable
  <2> QED BY <2>1, <2>2, <2>3 DEF Before
<1>8. T \subseteq rows
  BY DEF Selected
<1> HIDE DEF T
<1> QED BY <1>4, <1>5, <1>6, <1>7, <1>8 DEF Paired, T

-----------------------------------------------------------------------------
(* The answer to a request.                                                *)

\* Filters of the code, and of a viewer who asks for the own records only.
LEMMA EffectiveIsProper ==
  ASSUME NEW viewer \in Users, NEW filters \in Filters
  PROVE  ProperFilters(EffectiveFilters(viewer, filters))
<1>1. ProperFilters(filters)
  BY AuditLogAssumption DEF ProperFilters
<1>2. viewer.user_id # None
  BY AuditLogAssumption
<1> DEFINE own == [actor_user_id |-> viewer.user_id]
<1>3. DOMAIN own = {"actor_user_id"} /\ own["actor_user_id"] = viewer.user_id
  OBVIOUS
<1> HIDE DEF own
<1>4. ProperFilters(With(own, filters))
  BY <1>1, <1>2, <1>3 DEF ProperFilters, With
<1> QED BY <1>1, <1>4 DEF EffectiveFilters, own

\* The restriction to the viewer's own records leaves the other filters.
LEMMA EffectiveMatches ==
  ASSUME NEW viewer \in Users, NEW filters, NEW r,
         viewer \in Auditors \/ ~AsksForOthers(viewer, filters)
  PROVE  Matches(r, EffectiveFilters(viewer, filters)) <=>
           /\ viewer \in Auditors \/ r.actor_user_id = viewer.user_id
           /\ Matches(r, filters)
<1> DEFINE own == [actor_user_id |-> viewer.user_id]
           effective == With(own, filters)
<1>1. CASE viewer \in Auditors
  BY <1>1 DEF EffectiveFilters
<1>2. CASE viewer \notin Auditors
  <2>1. EffectiveFilters(viewer, filters) = effective
    BY <1>2 DEF EffectiveFilters
  <2>2. DOMAIN own = {"actor_user_id"} /\ own["actor_user_id"] = viewer.user_id
    OBVIOUS
  <2>3. "actor_user_id" \in DOMAIN filters => filters["actor_user_id"] = viewer.user_id
    BY <1>2 DEF AsksForOthers, Given
  <2> HIDE DEF own
  <2>4. effective = With(own, filters)
    BY DEF effective
  <2> HIDE DEF effective
  <2>5. /\ DOMAIN effective = {"actor_user_id"} \cup DOMAIN filters
        /\ effective["actor_user_id"] = viewer.user_id
        /\ \A f \in DOMAIN filters \ {"actor_user_id"} : effective[f] = filters[f]
    BY <2>2, <2>4 DEF With
  <2>6. \A f \in DOMAIN filters : effective[f] = filters[f]
    BY <2>3, <2>5
  <2>7. \A f : f # "actor_user_id" => (Given(effective, f) <=> Given(filters, f))
    BY <2>5 DEF Given
  <2>8. (\A f \in Equalities : Given(effective, f) => r[f] = effective[f]) <=>
          /\ r["actor_user_id"] = viewer.user_id
          /\ \A f \in Equalities : Given(filters, f) => r[f] = filters[f]
    BY <2>3, <2>5, <2>6, <2>7 DEF Equalities, Given
  <2>9. /\ InRange(r, effective, "occurred_at", "occurred_from", "occurred_to") <=>
             InRange(r, filters, "occurred_at", "occurred_from", "occurred_to")
        /\ InRange(r, effective, "created_at", "created_from", "created_to") <=>
             InRange(r, filters, "created_at", "created_from", "created_to")
    BY <2>6, <2>7 DEF InRange, Given
  <2> QED BY <1>2, <2>1, <2>8, <2>9 DEF Matches
<1> QED BY <1>1, <1>2

\* The items of a page are the records of its places among those asked for, all
\* of them, and the total counts the asked.
Placed(shown, asked, page) ==
  /\ \A i \in DOMAIN shown.items :
       shown.items[i] \in asked /\ Rank(asked, shown.items[i]) = page.offset + i - 1
  /\ Len(shown.items) = ItemsDue(page, Cardinality(asked))
  /\ shown.total = IF page.limit # None /\ page.include_total THEN Cardinality(asked) ELSE None

\* A slice is as long as its limit and what is left of the list allow.
LEMMA SliceLength ==
  ASSUME NEW S, NEW s \in Seq(S), NEW limit \in Int, limit >= 1, NEW offset \in Nat
  PROVE  Len(Slice(s, limit, offset)) =
           IF Len(s) <= offset THEN 0
           ELSE IF Len(s) <= offset + limit THEN Len(s) - offset ELSE limit
<1> DEFINE last == IF offset + limit < Len(s) THEN offset + limit ELSE Len(s)
           slice == Slice(s, limit, offset)
<1>1. last \in Nat /\ last <= Len(s) /\ Len(s) \in Nat
  OBVIOUS
<1>2. slice = SubSeq(s, offset + 1, last)
  BY DEF Slice
<1> HIDE DEF last, slice
<1>3. \A i \in offset + 1 .. last : s[i] \in S
  BY <1>1
<1>4. Len(slice) = IF offset + 1 <= last THEN last - (offset + 1) + 1 ELSE 0
  BY <1>1, <1>2, <1>3, SubSeqProperties
<1>5. Len(slice) = IF Len(s) <= offset THEN 0
                   ELSE IF Len(s) <= offset + limit THEN Len(s) - offset ELSE limit
  BY <1>1, <1>4 DEF last
<1> QED BY <1>5 DEF slice

\* A page of the in-memory repository: the matching records of its places.
LEMMA MemoryPageRanks ==
  ASSUME LogInv, NEW filters, NEW page, ValidPage(page),
         page.limit # None => page.limit \in Int, page.offset \in Int,
         NEW asked, asked = {r \in FirstRecords : Matches(r, filters)}
  PROVE  Placed(MemoryPage(filters, page), asked, page)
<1> DEFINE all == Sorted(asked)
           shown == MemoryPage(filters, page)
<1>1. Orderable(asked)
  BY RecordsOrderable, SubsetOrderable
<1>2. /\ all \in Seq(asked) /\ Len(all) = Cardinality(asked) /\ DOMAIN all = 1 .. Len(all)
      /\ \A i \in 1 .. Len(all) : all[i] \in asked /\ Rank(asked, all[i]) = i - 1
  BY <1>1, SortedRanks
<1>3. MemoryListAll(filters) = all
  BY DEF MemoryListAll
<1> HIDE DEF all
<1>4. CASE page.limit = None
  <2>1. shown.items = all /\ shown.total = None /\ page.offset = 0
    BY <1>3, <1>4 DEF MemoryPage, ValidPage
  <2>2. \A i \in 1 .. Len(all) : i - 1 = 0 + i - 1
    BY <1>2
  <2>3. ItemsDue(page, Cardinality(asked)) = Cardinality(asked)
    BY <1>4 DEF ItemsDue
  <2> HIDE DEF shown
  <2>4. Placed(shown, asked, page)
    BY <1>2, <1>4, <2>1, <2>2, <2>3 DEF Placed
  <2> QED BY <2>4 DEF shown
<1>5. CASE page.limit # None
  <2> DEFINE limit == page.limit
             offset == page.offset
             slice == Slice(all, limit, offset)
  <2>1. limit \in Int /\ limit >= 1 /\ offset \in Nat
    BY <1>5 DEF ValidPage
  <2>2. /\ shown.items = slice
        /\ shown.total = IF page.include_total THEN Len(all) ELSE None
    BY <1>3, <1>5 DEF MemoryPage, MemoryListPage
  <2> HIDE DEF limit, offset
  <2>3. all \in Seq(asked)
    BY <1>2
  <2>4. /\ slice \in Seq(asked)
        /\ \A i \in 1 .. Len(slice) : offset + i \in 1 .. Len(all) /\ slice[i] = all[offset + i]
    BY <2>1, <2>3, SlicePositions
  <2>5. Len(slice) = IF Len(all) <= offset THEN 0
                     ELSE IF Len(all) <= offset + limit THEN Len(all) - offset ELSE limit
    BY <2>1, <2>3, SliceLength
  <2> HIDE DEF slice, shown
  <2>6. ASSUME NEW i \in 1 .. Len(slice)
        PROVE  slice[i] \in asked /\ Rank(asked, slice[i]) = offset + i - 1
    <3> DEFINE j == offset + i
    <3>1. j \in 1 .. Len(all) /\ slice[i] = all[j] /\ j - 1 = offset + i - 1
      BY <2>1, <2>4
    <3> HIDE DEF j
    <3>2. all[j] \in asked /\ Rank(asked, all[j]) = j - 1
      BY <1>2, <3>1
    <3> QED BY <3>1, <3>2
  <2>7. DOMAIN shown.items = 1 .. Len(slice)
    BY <2>2, <2>4
  <2>8. \A i \in DOMAIN shown.items :
          shown.items[i] \in asked /\ Rank(asked, shown.items[i]) = page.offset + i - 1
    BY <2>2, <2>6, <2>7 DEF offset
  <2>9. Len(shown.items) = ItemsDue(page, Cardinality(asked))
    BY <1>2, <1>5, <2>2, <2>5 DEF ItemsDue, limit, offset
  <2>10. Placed(shown, asked, page)
    BY <1>2, <1>5, <2>2, <2>8, <2>9 DEF Placed
  <2> QED BY <2>10 DEF shown
<1> QED BY <1>4, <1>5

\* A view that is answered with a page.
LEMMA PageShown ==
  ASSUME LogInv, NEW viewer \in Users, NEW filters \in Filters, NEW page \in Pages,
         viewer \in Auditors \/ ~AsksForOthers(viewer, filters), ValidPage(page),
         UNCHANGED <<records, rows>>, answer'.outcome = "page", answer'.viewer = viewer,
         answer'.filters = filters, answer'.page = page,
         answer'.memory = MemoryPage(EffectiveFilters(viewer, filters), page),
         answer'.table = TablePage(EffectiveFilters(viewer, filters), page)
  PROVE  BackendsAgree' /\ PageIsExact'
<1> DEFINE effective == EffectiveFilters(viewer, filters)
           asked == {r \in FirstRecords : Matches(r, effective)}
<1>1. (page.limit # None => page.limit \in Int) /\ page.offset \in Int
  BY AuditLogAssumption
<1>2. Paired(asked, Selected(effective))
  BY EffectiveIsProper, SelectionsPaired
<1>3. \A q \in Selected(effective) : "audit_id" \in DOMAIN q /\ "total" \notin DOMAIN q
  <2>1. "audit_id" \in RecordFields /\ "total" \notin RecordFields
    BY DEF RecordFields, KindFields
  <2>2. \A q \in rows : DOMAIN q = RecordFields
    BY DEF LogInv, TypedRecords, IsRecord
  <2> QED BY <2>1, <2>2 DEF Selected
<1> HIDE DEF effective
<1>4. SamePage(MemoryPage(effective, page), TablePage(effective, page))
  BY <1>1, <1>2, <1>3, PairedPages
<1>5. BackendsAgree'
  BY <1>4 DEF BackendsAgree, SamePage, Content, effective
<1> DEFINE shown == MemoryPage(effective, page)
<1>6. Placed(shown, asked, page)
  <2>1. asked = {r \in FirstRecords : Matches(r, effective)}
    OBVIOUS
  <2> HIDE DEF asked
  <2> QED BY <1>1, <2>1, MemoryPageRanks
<1> DEFINE allowed == {r \in FirstRecords : viewer \in Auditors \/ r.actor_user_id = viewer.user_id}
           wanted == {r \in allowed : Matches(r, filters)}
<1>7. asked = wanted
  <2>1. \A r \in FirstRecords : r \in asked <=> r \in wanted
    BY EffectiveMatches DEF effective
  <2> QED BY <2>1
<1>8. FirstRecords' = FirstRecords
  BY DEF FirstRecords
<1>9. answer'.memory = shown
  BY DEF effective
<1>10. PageIsExact'
  <2>1. \A i \in DOMAIN shown.items :
          /\ shown.items[i] \in wanted
          /\ Cardinality({r \in wanted : Before(r, shown.items[i])}) = page.offset + i - 1
    BY <1>6, <1>7 DEF Placed, Rank
  <2>2. /\ Len(shown.items) = ItemsDue(page, Cardinality(wanted))
        /\ shown.total = IF page.limit # None /\ page.include_total THEN Cardinality(wanted) ELSE None
    BY <1>6, <1>7 DEF Placed
  <2>3. /\ wanted = {r \in {s \in FirstRecords' : answer'.viewer \in Auditors
                                      \/ s.actor_user_id = answer'.viewer.user_id} :
                      Matches(r, answer'.filters)}
        /\ page = answer'.page /\ shown = answer'.memory
    BY <1>8, <1>9
  <2> HIDE DEF shown, wanted
  <2> QED BY <2>1, <2>2, <2>3 DEF PageIsExact, ItemsDue, Matches, InRange, Given, Before
<1> QED BY <1>5, <1>10

\* PageIsExact, of the answer a and the records of log.
ExactOn(a, log) ==
  a # None /\ a.outcome = "page" =>
    LET allowed == {r \in log : a.viewer \in Auditors \/ r.actor_user_id = a.viewer.user_id}
        asked == {r \in allowed : Matches(r, a.filters)}
    IN  /\ \A i \in DOMAIN a.memory.items :
             /\ a.memory.items[i] \in asked
             /\ Cardinality({r \in asked : Before(r, a.memory.items[i])}) = a.page.offset + i - 1
        /\ Len(a.memory.items) = ItemsDue(a.page, Cardinality(asked))
        /\ a.memory.total =
             IF a.page.limit # None /\ a.page.include_total THEN Cardinality(asked) ELSE None

\* Between a page and its being sent nothing is delivered: the next request
\* reads the log again.
LEMMA PagesStep ==
  LogInv /\ BackendsAgree /\ PageIsExact /\ [Next]_vars => BackendsAgree' /\ PageIsExact'
<1> SUFFICES ASSUME LogInv, BackendsAgree, PageIsExact, [Next]_vars
             PROVE  BackendsAgree' /\ PageIsExact'
  OBVIOUS
<1>1. ASSUME answer' = None \/ answer'.outcome # "page" PROVE BackendsAgree' /\ PageIsExact'
  BY <1>1 DEF BackendsAgree, PageIsExact
<1>2. CASE UNCHANGED vars
  <2>1. FirstRecords' = FirstRecords /\ answer' = answer
    BY <1>2 DEF FirstRecords, vars
  <2>2. BackendsAgree'
    BY <2>1 DEF BackendsAgree, SamePage, Content
  <2>3. PageIsExact = ExactOn(answer, FirstRecords)
    BY DEF PageIsExact, ExactOn
  <2>4. PageIsExact' = ExactOn(answer', FirstRecords')
    BY DEF PageIsExact, ExactOn, ItemsDue, Matches, InRange, Given, Before
  <2>5. ExactOn(answer', FirstRecords') = ExactOn(answer, FirstRecords)
    BY <2>1
  <2> QED BY <2>2, <2>3, <2>4, <2>5
<1>3. CASE Answered
  BY <1>1, <1>3 DEF Answered
<1>4. ASSUME answer = None, answer' = answer PROVE BackendsAgree' /\ PageIsExact'
  BY <1>1, <1>4
<1>5. ASSUME NEW viewer, NEW filters \in Filters, NEW page \in Pages, View(viewer, filters, page)
      PROVE  BackendsAgree' /\ PageIsExact'
  <2>1. ASSUME NEW denial, Refuse(viewer, filters, denial) PROVE BackendsAgree' /\ PageIsExact'
    <3>1. answer'.outcome = "denied"
      BY <2>1 DEF Refuse
    <3> QED BY <1>1, <3>1
  <2>2. ASSUME viewer \in Users, viewer \in Auditors \/ ~AsksForOthers(viewer, filters),
               UNCHANGED <<records, rows, serial, now>>,
               answer' = IF ValidPage(page)
                         THEN [viewer |-> viewer, filters |-> filters, page |-> page,
                               outcome |-> "page",
                               memory |-> MemoryPage(EffectiveFilters(viewer, filters), page),
                               table |-> TablePage(EffectiveFilters(viewer, filters), page)]
                         ELSE [viewer |-> viewer, filters |-> filters, outcome |-> "invalid page"]
        PROVE  BackendsAgree' /\ PageIsExact'
    <3>1. CASE ~ValidPage(page)
      <4>1. answer'.outcome = "invalid page"
        BY <2>2, <3>1
      <4> QED BY <1>1, <4>1
    <3>2. CASE ValidPage(page)
      <4>1. /\ answer'.outcome = "page" /\ answer'.viewer = viewer
            /\ answer'.filters = filters /\ answer'.page = page
            /\ answer'.memory = MemoryPage(EffectiveFilters(viewer, filters), page)
            /\ answer'.table = TablePage(EffectiveFilters(viewer, filters), page)
        BY <2>2, <3>2
      <4>2. UNCHANGED <<records, rows>>
        BY <2>2
      <4> QED BY <2>2, <3>2, <4>1, <4>2, PageShown
    <3> QED BY <3>1, <3>2
  <2> QED BY <1>5, <2>1, <2>2 DEF View
<1>6. CASE answer = None /\ \E kind \in Kinds, occurred_at \in Times, actor \in Actors :
                              Deliver(kind, occurred_at, actor)
  BY <1>4, <1>6 DEF Deliver
<1>7. CASE answer = None /\ \E first \in FirstRecords, actor \in Actors : Redeliver(first, actor)
  BY <1>4, <1>7 DEF Redeliver
<1>8. CASE answer = None /\ Tick
  BY <1>4, <1>8 DEF Tick
<1> QED BY <1>2, <1>3, <1>5, <1>6, <1>7, <1>8 DEF Next

-----------------------------------------------------------------------------
(* The theorems.                                                           *)

\* In every reachable state both repositories hold the same events, each of
\* them once, with the same content and in the same order, whatever audit ids
\* the repeated deliveries have used up (AuditRepositoryPort.add of both).
THEOREM RepositoriesKeepStep == Spec => []LogInv
<1> QED BY InitLog, NextLog, PTL DEF Spec

\* No delivery, repeat, denial or view changes or drops a record, in memory or
\* in the table, and none is in only one of them.
THEOREM LogOnlyGrows == Spec => RecordsAreKept
<1>1. LogInv /\ [Next]_vars => [Kept]_vars
  BY NextLog
<1>2. Spec => [][Kept]_vars
  BY <1>1, RepositoriesKeepStep, PTL DEF Spec
<1> QED BY <1>2 DEF RecordsAreKept, Kept

LEMMA PagesHold == Spec => [](BackendsAgree /\ PageIsExact)
<1>1. Init => BackendsAgree /\ PageIsExact
  BY DEF Init, BackendsAgree, PageIsExact
<1>2. Spec => [](LogInv)
  BY RepositoriesKeepStep
<1> QED BY <1>1, <1>2, PagesStep, PTL DEF Spec

\* Every page of the table is the page of the in-memory repository, record by
\* record and with the same total, for every filter, limit and offset: where
\* the WHERE clause meets a NULL, where the page is empty and its total comes
\* from the outer join, and where the audit ids that break ties differ.
THEOREM BackendsShowTheSame == Spec => []BackendsAgree
<1> QED BY PagesHold, PTL

\* A page has the records of its places among those the viewer may see and
\* asked for, none left out and none of another user's (view_audits.py).
THEOREM PagesAreExact == Spec => []PageIsExact
<1> QED BY PagesHold, PTL

=============================================================================
