----------------------------- MODULE VerifyProofs -----------------------------
(***************************************************************************)
(* Anchoring, verification and evidence beside the collector, for any      *)
(* number of calls, days, anchors, damaged rows and pages: what is         *)
(* anchored is a part of the record, a positive verdict is one on the      *)
(* record, and an intact log without orphans raises no false alarm.        *)
(***************************************************************************)
EXTENDS Verify, IngestProofs, NaturalsInduction, WellFoundedInduction

-----------------------------------------------------------------------------
(* What a query returns, for every set of rows of the log. *)

\* No row is kept twice by one insert.
Distinct(rows) == \A x, y \in rows : x.seq = y.seq /\ x.ins = y.ins => x = y

LEMMA BeforeIsOrder ==
  ASSUME NEW X \in SUBSET Rows, Distinct(X), IsFiniteSet(X),
         NEW rank \in Injection({row.ins : row \in X}, 1 .. Cardinality({row.ins : row \in X}))
  PROVE  /\ \A x \in X : ~RowBefore(x, x, rank)
         /\ \A x, y, z \in X : RowBefore(x, y, rank) /\ RowBefore(y, z, rank)
                                 => RowBefore(x, z, rank)
         /\ \A x, y \in X : x = y \/ RowBefore(x, y, rank) \/ RowBefore(y, x, rank)
<1> DEFINE I == {row.ins : row \in X}
<1>1. \A x \in X : x.seq \in Nat /\ x.ins \in I
  BY DEF Rows
<1>2. IsFiniteSet(I)
  <2> DEFINE insert == [row \in X |-> row.ins]
  <2>1. insert \in Surjection(X, I)
    BY Zenon DEF Surjection
  <2> HIDE DEF insert, I
  <2>2. QED
    BY <2>1, FS_Surjection
<1>3. Cardinality(I) \in Nat
  BY <1>2, FS_CardinalityType
<1>4. rank \in [I -> 1 .. Cardinality(I)] /\ \A a, b \in I : rank[a] = rank[b] => a = b
  BY Zenon DEF Injection, IsInjective
<1> HIDE DEF I
<1>5. \A a \in I : rank[a] \in Nat
  BY <1>3, <1>4
<1>6. \A x, y \in X : x = y \/ x.seq # y.seq \/ rank[x.ins] # rank[y.ins]
  BY <1>1, <1>4 DEF Distinct
<1>7. QED
  BY <1>1, <1>5, <1>6 DEF RowBefore

\* A row's place in the order tells the row.
LEMMA PlacesDiffer ==
  ASSUME NEW X \in SUBSET Rows, Distinct(X), IsFiniteSet(X),
         NEW rank \in Injection({row.ins : row \in X}, 1 .. Cardinality({row.ins : row \in X})),
         NEW a \in X, NEW b \in X, RowBefore(a, b, rank)
  PROVE  /\ Cardinality({x \in X : RowBefore(x, a, rank)}) \in Nat
         /\ Cardinality({x \in X : RowBefore(x, b, rank)}) \in Nat
         /\ Cardinality({x \in X : RowBefore(x, a, rank)})
              < Cardinality({x \in X : RowBefore(x, b, rank)})
<1> DEFINE A == {x \in X : RowBefore(x, a, rank)}
           B == {x \in X : RowBefore(x, b, rank)}
<1>1. A \subseteq B /\ a \in B /\ a \notin A /\ B \subseteq X
  BY BeforeIsOrder
<1> HIDE DEF A, B
<1>2. IsFiniteSet(B) /\ IsFiniteSet(A)
  BY <1>1, FS_Subset
<1>3. Cardinality(A) \in Nat /\ Cardinality(B) \in Nat /\ Cardinality(A) < Cardinality(B)
  BY <1>1, <1>2, FS_Subset, FS_CardinalityType
<1>4. QED
  BY <1>3 DEF A, B

\* A query returns every row of its range once, each at its place in the order.
LEMMA ScanOrder ==
  ASSUME NEW X \in SUBSET Rows, Distinct(X), IsFiniteSet(X), NEW s \in ScanOf(X)
  PROVE  /\ s \in Seq(X) /\ Len(s) = Cardinality(X)
         /\ \A x \in X : \E i \in 1 .. Len(s) : s[i] = x
         /\ \E rank \in Injection({row.ins : row \in X}, 1 .. Cardinality({row.ins : row \in X})) :
              \A i \in 1 .. Len(s) : Cardinality({x \in X : RowBefore(x, s[i], rank)}) = i - 1
<1> DEFINE I == {row.ins : row \in X}
           n == Cardinality(X)
<1>1. PICK rank \in Injection(I, 1 .. Cardinality(I)) :
        s = [i \in 1 .. n |->
               CHOOSE row \in X : Cardinality({x \in X : RowBefore(x, row, rank)}) = i - 1]
  BY Zenon DEF ScanOf
<1> DEFINE P(row) == Cardinality({x \in X : RowBefore(x, row, rank)})
           place == [row \in X |-> P(row) + 1]
<1>2. n \in Nat
  BY FS_CardinalityType
<1>3. \A row \in X : P(row) \in 0 .. n - 1
  <2> TAKE row \in X
  <2> DEFINE B == {x \in X : RowBefore(x, row, rank)}
  <2>1. B \subseteq X /\ row \notin B
    BY BeforeIsOrder
  <2> HIDE DEF B
  <2>2. IsFiniteSet(B) /\ Cardinality(B) \in Nat /\ Cardinality(B) < n
    BY <1>2, <2>1, FS_Subset, FS_CardinalityType
  <2>3. QED
    BY <1>2, <2>2 DEF B
<1>4. \A a, b \in X : RowBefore(a, b, rank) => P(a) < P(b)
  BY PlacesDiffer
<1>5. \A a, b \in X : a = b \/ RowBefore(a, b, rank) \/ RowBefore(b, a, rank)
  BY BeforeIsOrder
<1> HIDE DEF P
<1>6. \A a, b \in X : P(a) = P(b) => a = b
  BY <1>3, <1>4, <1>5
<1> DEFINE T == 1 .. n
<1>7. place \in Injection(X, T)
  <2>1. place \in [X -> T]
    BY <1>2, <1>3
  <2>2. \A a, b \in X : place[a] = place[b] => a = b
    BY <1>2, <1>3, <1>6
  <2> HIDE DEF place, T
  <2>3. QED
    BY <2>1, <2>2, Fun_IsInj
<1>8. IsFiniteSet(T) /\ Cardinality(T) = n
  <2>1. 1 \in Int /\ n \in Int
    BY <1>2
  <2> HIDE DEF n
  <2>2. IsFiniteSet(T) /\ Cardinality(T) = IF 1 > n THEN 0 ELSE n - 1 + 1
    BY <2>1, FS_Interval
  <2>3. QED
    BY <1>2, <2>2
<1>9. place \in Surjection(X, T)
  <2> HIDE DEF place, T
  <2>1. QED
    BY <1>7, <1>8, FS_Injection
<1>10. \A i \in T : \E row \in X : P(row) = i - 1
  <2>1. \A i \in T : \E row \in X : place[row] = i
    <3> HIDE DEF place, T
    <3>1. QED
      BY <1>9, Fun_SurjectionProperties
  <2>2. QED
    BY <1>2, <1>3, <2>1
<1>11. \A i \in T : s[i] \in X /\ P(s[i]) = i - 1
  <2> TAKE i \in T
  <2>1. s[i] = CHOOSE row \in X : P(row) = i - 1
    BY <1>1, Zenon DEF P
  <2>2. \E row \in X : P(row) = i - 1
    BY <1>10
  <2>3. QED
    BY <2>1, <2>2, Zenon
<1>12. s \in Seq(X) /\ Len(s) = n
  <2>1. s \in [T -> X]
    BY <1>1, <1>11
  <2> HIDE DEF n
  <2>2. QED
    BY <1>2, <2>1
<1>13. \A x \in X : \E i \in T : s[i] = x
  <2> TAKE x \in X
  <2>1. P(x) + 1 \in T
    BY <1>2, <1>3
  <2>2. P(s[P(x) + 1]) = P(x) /\ s[P(x) + 1] \in X
    BY <1>2, <1>3, <1>11, <2>1
  <2>3. QED
    BY <1>6, <2>1, <2>2
<1>14. QED
  BY <1>11, <1>12, <1>13 DEF P

\* The rows carry the numbers of a range, one each.
Numbered(rows, lo, hi) ==
  /\ \A x \in rows : x.seq \in lo .. hi
  /\ \A n \in lo .. hi : \E x \in rows : x.seq = n
  /\ \A x, y \in rows : x.seq = y.seq => x = y

\* There are as many of them as the range has numbers.
LEMMA RowsNumbered ==
  ASSUME NEW X, NEW lo \in Nat, NEW hi \in Int, hi >= lo - 1, Numbered(X, lo, hi)
  PROVE  IsFiniteSet(X) /\ Cardinality(X) = hi - lo + 1
<1> DEFINE N == lo .. hi
           number == [x \in X |-> x.seq]
<1>1. number \in Bijection(X, N)
  <2>1. /\ number \in [X -> N]
        /\ \A x, y \in X : number[x] = number[y] => x = y
        /\ \A n \in N : \E x \in X : number[x] = n
    BY DEF Numbered
  <2> HIDE DEF number, N
  <2>2. QED
    BY <2>1, Fun_IsBij
<1>2. ExistsBijection(N, X)
  BY <1>1, Fun_ExistsBijSymmetric DEF ExistsBijection
<1>3. IsFiniteSet(N) /\ Cardinality(N) = hi - lo + 1
  <2>1. lo \in Int /\ hi \in Int
    OBVIOUS
  <2>2. IsFiniteSet(N) /\ Cardinality(N) = IF lo > hi THEN 0 ELSE hi - lo + 1
    BY <2>1, FS_Interval
  <2>3. QED
    BY <2>2
<1>4. QED
  BY <1>2, <1>3, FS_Bijection

\* A query of a range in which every number has one row returns the rows by their numbers.
LEMMA ScanExact ==
  ASSUME NEW X \in SUBSET Rows, NEW lo \in Nat, NEW hi \in Int, hi >= lo - 1, Numbered(X, lo, hi),
         NEW s \in ScanOf(X)
  PROVE  /\ s \in Seq(X) /\ Len(s) = hi - lo + 1
         /\ \A i \in 1 .. Len(s) : s[i].seq = lo + i - 1
<1>1. Distinct(X) /\ IsFiniteSet(X) /\ Cardinality(X) = hi - lo + 1
  BY RowsNumbered DEF Distinct, Numbered
<1>2. s \in Seq(X) /\ Len(s) = hi - lo + 1
  BY <1>1, ScanOrder
<1>3. PICK rank \in Injection({row.ins : row \in X}, 1 .. Cardinality({row.ins : row \in X})) :
        \A i \in 1 .. Len(s) : Cardinality({x \in X : RowBefore(x, s[i], rank)}) = i - 1
  BY <1>1, ScanOrder
<1>4. ASSUME NEW i \in 1 .. Len(s)
      PROVE  s[i].seq = lo + i - 1
  <2> DEFINE before == {x \in X : RowBefore(x, s[i], rank)}
             top == s[i].seq - 1
  <2>1. s[i] \in X /\ s[i].seq \in lo .. hi /\ top \in Int /\ top >= lo - 1
    BY <1>2, ElementOfSeq DEF Numbered
  <2>2. \A x \in X : RowBefore(x, s[i], rank) <=> x.seq < s[i].seq
    <3> TAKE x \in X
    <3>1. RowBefore(x, s[i], rank) /\ x.seq = s[i].seq => RowBefore(s[i], s[i], rank)
      BY <2>1 DEF Numbered
    <3>2. ~RowBefore(s[i], s[i], rank)
      BY <1>1, <2>1, BeforeIsOrder
    <3>3. QED
      BY <3>1, <3>2 DEF RowBefore
  <2>3. Numbered(before, lo, top)
    BY <2>1, <2>2 DEF Numbered
  <2>4. Cardinality(before) = top - lo + 1
    <3>1. top \in Int /\ top >= lo - 1
      BY <2>1
    <3> HIDE DEF before, top
    <3>2. QED
      BY <2>3, <3>1, RowsNumbered
  <2>5. Cardinality(before) = i - 1
    BY <1>3 DEF before
  <2>6. QED
    BY <2>1, <2>4, <2>5
<1>5. QED
  BY <1>2, <1>4

-----------------------------------------------------------------------------
(* What a chain of rows says of its events. *)

LEMMA LeastNumber ==
  ASSUME NEW S \in SUBSET Nat, S # {}
  PROVE  \E n \in S : \A m \in S : n <= m
<1>1. \E n \in S : \A m \in S : ~(<<m, n>> \in OpToRel(<, Nat))
  BY NatLessThanWellFounded, WFMin
<1>2. \E n \in S : \A m \in S : ~(m < n)
  BY <1>1, Zenon DEF OpToRel
<1>3. QED
  BY <1>2

LEMMA OneMore ==
  ASSUME NEW S, NEW w \in Seq(S), NEW k \in 1 .. Len(w)
  PROVE  Append(SubSeq(w, 1, k - 1), w[k]) = SubSeq(w, 1, k)
<1>1. << >> \in Seq(S) /\ Len(<< >>) = 0 /\ k \in Nat
  BY EmptySeq, LenProperties
<1>2. Append(<< >> \o SubSeq(w, 1, k - 1), w[k]) = SubSeq(<< >> \o w, 1, 0 + k)
  BY <1>1, HashIsHistory
<1>3. SubSeq(w, 1, k - 1) \in Seq(S)
  <2>1. 1 \in Int /\ k - 1 \in Int /\ \A i \in 1 .. k - 1 : w[i] \in S
    BY <1>1, LenProperties, ElementOfSeq
  <2>2. QED
    BY <2>1, SubSeqProperties
<1>4. << >> \o SubSeq(w, 1, k - 1) = SubSeq(w, 1, k - 1) /\ << >> \o w = w /\ 0 + k = k
  BY <1>1, <1>3, ConcatEmptySeq
<1>5. QED
  BY <1>2, <1>4

LEMMA BodiesType ==
  ASSUME NEW rows \in Seq(Rows)
  PROVE  /\ BodiesOf(rows) \in Seq(Body) /\ Len(BodiesOf(rows)) = Len(rows)
         /\ \A i \in 1 .. Len(rows) : BodiesOf(rows)[i] = rows[i].body
<1>1. Len(rows) \in Nat /\ \A i \in 1 .. Len(rows) : rows[i] \in Rows
  BY LenProperties, ElementOfSeq
<1>2. \A i \in 1 .. Len(rows) : rows[i].body \in Body
  BY <1>1 DEF Rows
<1> DEFINE n == Len(rows)
           body(i) == rows[i].body
<1>3. BodiesOf(rows) = [i \in 1 .. n |-> body(i)] /\ n \in Nat /\ \A i \in 1 .. n : body(i) \in Body
  BY <1>1, <1>2 DEF BodiesOf
<1> HIDE DEF n, body
<1>4. BodiesOf(rows) \in Seq(Body) /\ Len(BodiesOf(rows)) = n /\ \A i \in 1 .. n : BodiesOf(rows)[i] = body(i)
  BY <1>3
<1>5. QED
  BY <1>4 DEF n, body

\* Rows that pass verify_chain commit to one history: what the first continues, and then their
\* own events.
LEMMA ChainedHistory ==
  ASSUME NEW rows \in Seq(Rows), NEW p \in Hash, verify_chain(rows),
         rows # << >> => rows[1].prev = p
  PROVE  /\ \A i \in 1 .. Len(rows) : rows[i].hash = SubSeq(p \o BodiesOf(rows), 1, Len(p) + i)
         /\ rows # << >> => LastOf(rows).hash = p \o BodiesOf(rows)
<1> DEFINE w == p \o BodiesOf(rows)
           bad == {i \in 1 .. Len(rows) : rows[i].hash # SubSeq(w, 1, Len(p) + i)}
<1>1. /\ Len(rows) \in Nat /\ p \in Seq(Body) /\ Len(p) \in Nat
      /\ BodiesOf(rows) \in Seq(Body) /\ Len(BodiesOf(rows)) = Len(rows)
      /\ \A i \in 1 .. Len(rows) : BodiesOf(rows)[i] = rows[i].body
  BY LenProperties, BodiesType DEF Hash
<1>2. /\ w \in Seq(Body) /\ Len(w) = Len(p) + Len(rows)
      /\ \A i \in 1 .. Len(rows) : w[Len(p) + i] = rows[i].body
  <2>1. /\ w \in Seq(Body) /\ Len(w) = Len(p) + Len(BodiesOf(rows))
        /\ \A i \in 1 .. Len(p) + Len(BodiesOf(rows)) :
             w[i] = IF i <= Len(p) THEN p[i] ELSE BodiesOf(rows)[i - Len(p)]
    BY <1>1, ConcatProperties
  <2> HIDE DEF w
  <2>2. ASSUME NEW i \in 1 .. Len(rows) PROVE w[Len(p) + i] = BodiesOf(rows)[i]
    <3>1. /\ Len(p) + i \in 1 .. Len(p) + Len(BodiesOf(rows))
          /\ ~(Len(p) + i <= Len(p)) /\ Len(p) + i - Len(p) = i
      BY <1>1
    <3>2. QED
      BY <2>1, <3>1
  <2>3. QED
    BY <1>1, <2>1, <2>2
<1>3. SubSeq(w, 1, Len(p)) = p
  <2>1. SubSeq(w, 1, Len(p)) = SubSeq(p, 1, Len(p))
    BY <1>1, PrefixOfConcat
  <2>2. QED
    BY <1>1, <2>1, SubSeqFull
<1> HIDE DEF w
<1>4. \A i \in 1 .. Len(rows) :
        rows[i].prev = SubSeq(w, 1, Len(p) + i - 1) => rows[i].hash = SubSeq(w, 1, Len(p) + i)
  <2> SUFFICES ASSUME NEW i \in 1 .. Len(rows), rows[i].prev = SubSeq(w, 1, Len(p) + i - 1)
               PROVE  rows[i].hash = SubSeq(w, 1, Len(p) + i)
    OBVIOUS
  <2> DEFINE k == Len(p) + i
  <2>1. k \in 1 .. Len(w) /\ w[k] = rows[i].body
    BY <1>1, <1>2
  <2>2. Append(SubSeq(w, 1, k - 1), w[k]) = SubSeq(w, 1, k)
    BY <1>2, <2>1, OneMore
  <2>3. rows[i].hash = Append(rows[i].prev, rows[i].body)
    BY DEF verify_chain, SelfConsistent, compute_event_hash
  <2>4. QED
    BY <2>1, <2>2, <2>3
<1>5. bad = {}
  <2> SUFFICES ASSUME bad # {} PROVE FALSE
    OBVIOUS
  <2>0. bad \subseteq Nat
    BY <1>1
  <2>1. PICK n \in bad : \A m \in bad : n <= m
    <3> HIDE DEF bad
    <3>1. QED
      BY <2>0, LeastNumber
  <2>2. n \in 1 .. Len(rows) /\ rows[n].hash # SubSeq(w, 1, Len(p) + n)
    OBVIOUS
  <2>3. CASE n = 1
    <3>1. rows # << >>
      BY <2>2, EmptySeq
    <3>2. Len(p) + n - 1 = Len(p)
      BY <1>1, <2>3
    <3>3. QED
      BY <1>3, <1>4, <2>2, <2>3, <3>1, <3>2
  <2>4. CASE n # 1
    <3>0. n \in Int /\ ~(n <= n - 1)
      BY <1>1, <2>2
    <3>1. n - 1 \in 1 .. Len(rows) /\ n \in 2 .. Len(rows)
      BY <1>1, <2>2, <2>4
    <3>2. rows[n - 1].hash = SubSeq(w, 1, Len(p) + (n - 1))
      <4>1. n - 1 \notin bad
        BY <2>1, <3>0
      <4>2. QED
        BY <3>1, <4>1
    <3>3. rows[n].prev = rows[n - 1].hash
      BY <3>1 DEF verify_chain
    <3>4. Len(p) + (n - 1) = Len(p) + n - 1
      BY <1>1, <2>2
    <3>5. QED
      BY <1>4, <2>2, <3>2, <3>3, <3>4
  <2>5. QED
    BY <2>3, <2>4
<1>6. rows # << >> => LastOf(rows).hash = w
  <2> SUFFICES ASSUME rows # << >> PROVE LastOf(rows).hash = w
    OBVIOUS
  <2>1. Len(rows) \in 1 .. Len(rows)
    BY EmptySeq
  <2>2. rows[Len(rows)].hash = SubSeq(w, 1, Len(w))
    BY <1>2, <1>5, <2>1
  <2>3. QED
    BY <1>2, <2>2, SubSeqFull DEF LastOf
<1>7. QED
  BY <1>5, <1>6 DEF w

\* The events after a prefix of known length.
LEMMA SuffixOfConcat ==
  ASSUME NEW S, NEW p \in Seq(S), NEW b \in Seq(S), NEW n \in Nat,
         n = Len(p) + Len(b)
  PROVE  SubSeq(p \o b, Len(p) + 1, n) = b
<1> DEFINE w == p \o b
           r == SubSeq(w, Len(p) + 1, n)
<1>1. Len(p) \in Nat /\ Len(b) \in Nat
  BY LenProperties
<1>2. /\ w \in Seq(S) /\ Len(w) = Len(p) + Len(b)
      /\ \A i \in 1 .. Len(p) + Len(b) : w[i] = IF i <= Len(p) THEN p[i] ELSE b[i - Len(p)]
  BY ConcatProperties
<1>3. \A i \in Len(p) + 1 .. n : w[i] \in S
  BY <1>1, <1>2, ElementOfSeq
<1> HIDE DEF w
<1>4. /\ r \in Seq(S)
      /\ Len(r) = IF Len(p) + 1 <= n THEN n - (Len(p) + 1) + 1 ELSE 0
      /\ \A i \in 1 .. n - (Len(p) + 1) + 1 : r[i] = w[Len(p) + 1 + i - 1]
  <2>1. Len(p) + 1 \in Int /\ n \in Int
    BY <1>1
  <2> HIDE DEF r
  <2>2. QED
    BY <1>3, <2>1, SubSeqProperties DEF r
<1> HIDE DEF r
<1>5. Len(r) = Len(b)
  BY <1>1, <1>4
<1>6. ASSUME NEW i \in 1 .. Len(r) PROVE r[i] = b[i]
  <2>1. /\ i \in 1 .. n - (Len(p) + 1) + 1 /\ Len(p) + 1 + i - 1 = Len(p) + i
        /\ Len(p) + i \in 1 .. Len(p) + Len(b) /\ ~(Len(p) + i <= Len(p)) /\ Len(p) + i - Len(p) = i
    BY <1>1, <1>5
  <2>2. r[i] = w[Len(p) + i]
    BY <1>4, <2>1
  <2>3. w[Len(p) + i] = b[i]
    BY <1>2, <2>1
  <2>4. QED
    BY <2>2, <2>3
<1>7. r = b
  BY <1>4, <1>5, <1>6, SeqEqual
<1>8. QED
  BY <1>7 DEF r, w

-----------------------------------------------------------------------------
(* The collector beside a reader. *)

\* What a damaged log does not touch: unlike NoFork and HistoryInLog, none of it is about rows.
HeadInv == TypeOK /\ LockHeld /\ SnapshotCurrent /\ HeadLength

LEMMA HeadInvInit == VerifyInit => HeadInv
<1> SUFFICES ASSUME Init PROVE HeadInv
  BY DEF VerifyInit
<1>1. TypeOK /\ LockHeld
  BY InitType, LockInit
<1>2. SnapshotCurrent /\ HeadLength
  BY DEF Init, SnapshotCurrent, Holding, HeadLength, EmptyHead, GENESIS_HASH
<1>3. QED
  BY <1>1, <1>2 DEF HeadInv

\* The chain grows by the bodies of the call that holds the row, or stays as it is.
LEMMA HeadGrows ==
  ASSUME HeadInv, [Next]_vars
  PROVE  head' = head \/ \E bodies \in Seq(Body) : head' = AdvanceHead(head, bodies)
<1>1. CASE QuietStep
  BY <1>1, QuietStepFrame
<1>2. ASSUME NEW r \in Requests, InsertRows(r)
      PROVE  head' = head
  BY <1>2 DEF InsertRows
<1>3. ASSUME NEW r \in Requests, Commit(r)
      PROVE  \E bodies \in Seq(Body) : head' = AdvanceHead(head, bodies)
  <2>1. head' = AdvanceHead(txn[r].head, txn[r].bodies) /\ pc[r] \in Holding
    BY <1>3 DEF Commit, Holding
  <2>2. txn[r].head = head
    BY <2>1 DEF HeadInv, SnapshotCurrent
  <2>3. txn[r].bodies \in Seq(Body)
    BY DEF HeadInv, TypeOK, Txns
  <2>4. QED
    BY <2>1, <2>2, <2>3
<1>4. QED
  BY <1>1, <1>2, <1>3, StepCases

LEMMA CollectorKeeps ==
  ASSUME HeadInv, [Next]_vars
  PROVE  HeadInv'
<1>1. TypeOK' /\ LockHeld' /\ SnapshotCurrent'
  BY StepType, LockStep, SnapshotStep DEF HeadInv
<1>2. HeadLength'
  <2>1. CASE head' = head
    BY <2>1 DEF HeadInv, HeadLength
  <2>2. ASSUME NEW bodies \in Seq(Body), head' = AdvanceHead(head, bodies)
        PROVE  HeadLength'
    <3>1. head \in ChainHeads /\ Len(head.hash) = head.seq
      BY DEF HeadInv, TypeOK, HeadLength
    <3>2. Len(AdvanceHead(head, bodies).hash) = AdvanceHead(head, bodies).seq
      BY <3>1, AdvanceHeadType
    <3>3. QED
      BY <2>2, <3>2 DEF HeadLength
  <2>3. QED
    BY <2>1, <2>2, HeadGrows
<1>3. QED
  BY <1>1, <1>2 DEF HeadInv

\* A damaged row is a row.
LEMMA DamageKeeps ==
  ASSUME HeadInv, NEW row \in log, DamageRow(row)
  PROVE  HeadInv' /\ UNCHANGED <<head, anchors, job>>
<1> DEFINE changed   == [row EXCEPT !.body.ref = ~@]
           rewritten == [changed EXCEPT !.hash = compute_event_hash(row.prev, changed.body)]
<1>1. row \in Rows /\ log \subseteq Rows
  BY DEF HeadInv, TypeOK
<1>2. changed \in Rows
  BY <1>1 DEF Rows, Body
<1>3. rewritten \in Rows
  <2>1. row.prev \in Seq(Body) /\ changed.body \in Body
    BY <1>1, <1>2 DEF Rows, Hash
  <2>2. Append(row.prev, changed.body) \in Seq(Body)
    BY <2>1, AppendProperties
  <2> HIDE DEF changed
  <2>3. QED
    BY <1>2, <2>2 DEF Rows, Hash, compute_event_hash
<1>4. log' \in {(log \ {row}) \cup kept : kept \in {{}, {changed}, {rewritten}}}
  BY DEF DamageRow
<1> HIDE DEF changed, rewritten
<1>5. log' \subseteq Rows
  BY <1>1, <1>2, <1>3, <1>4
<1>6. UNCHANGED <<pc, try, txn, lock, head, config, usage, metered, segments, objects, commits,
                  anchors, job>>
  BY DEF DamageRow
<1>7. TypeOK'
  BY <1>5, <1>6 DEF HeadInv, TypeOK, config
<1>8. LockHeld' /\ SnapshotCurrent' /\ HeadLength'
  BY <1>6 DEF HeadInv, LockHeld, SnapshotCurrent, HeadLength
<1>9. QED
  BY <1>6, <1>7, <1>8 DEF HeadInv

-----------------------------------------------------------------------------
(* Anchors. *)

\* A head that the record has had.
Past(a) == 0 < a.seq /\ a.seq <= head.seq /\ a.hash = SubSeq(head.hash, 1, a.seq)

\* The anchors and the head that a job has read are past heads.
AnchorInv ==
  /\ anchors \in [Days -> ChainHeads \cup {NoAnchor}]
  /\ job \in [day : Days, head : ChainHeads] \cup {NoJob}
  /\ \A d \in Days : anchors[d] # NoAnchor => Past(anchors[d])
  /\ job # NoJob => Past(job.head)

\* The head itself is one, once there is something to anchor.
LEMMA HeadIsPast ==
  ASSUME HeadInv, head.seq > 0
  PROVE  Past(head)
<1>1. head.hash \in Seq(Body) /\ Len(head.hash) = head.seq /\ head.seq \in Nat
  BY DEF HeadInv, TypeOK, HeadLength, ChainHeads, Hash
<1>2. SubSeq(head.hash, 1, Len(head.hash)) = head.hash
  BY <1>1, SubSeqFull
<1>3. QED
  BY <1>1, <1>2 DEF Past

\* Past heads stay past: the record is only appended to.
LEMMA PastStays ==
  ASSUME HeadInv, [Next]_vars, NEW a \in ChainHeads, Past(a)
  PROVE  /\ 0 < a.seq /\ a.seq <= head'.seq
         /\ a.hash = SubSeq(head'.hash, 1, a.seq)
<1>1. head.hash \in Seq(Body) /\ Len(head.hash) = head.seq /\ head.seq \in Nat /\ a.seq \in Nat
  BY DEF HeadInv, TypeOK, HeadLength, ChainHeads, Hash
<1>2. CASE head' = head
  BY <1>2 DEF Past
<1>3. ASSUME NEW bodies \in Seq(Body), head' = AdvanceHead(head, bodies)
      PROVE  0 < a.seq /\ a.seq <= head'.seq /\ a.hash = SubSeq(head'.hash, 1, a.seq)
  <2>1. head'.hash = head.hash \o bodies /\ head'.seq = head.seq + Len(bodies)
    BY <1>3 DEF AdvanceHead
  <2>2. Len(bodies) \in Nat /\ a.seq \in 0 .. Len(head.hash)
    BY <1>1, LenProperties DEF Past
  <2>3. SubSeq(head.hash \o bodies, 1, a.seq) = SubSeq(head.hash, 1, a.seq)
    BY <1>1, <2>2, PrefixOfConcat
  <2>4. QED
    BY <1>1, <2>1, <2>2, <2>3 DEF Past
<1>4. QED
  BY <1>2, <1>3, HeadGrows

\* Steps of a reader change neither the record nor the anchors.
Reads ==
  \/ \E op \in {"verify", "export"} : ReadHead(op)
  \/ ReadAnchors
  \/ RejectAnchor \/ AcceptAnchor \/ VerifySuffix
  \/ VerifyAll \/ CompareHead
  \/ RefuseExport \/ StartExport \/ StreamPage \/ FinishExport

LEMMA ReadsFrame == Reads => UNCHANGED <<vars, anchors, job, damage>>
BY DEF Reads, ReadHead, ReadAnchors, RejectAnchor, AcceptAnchor, VerifySuffix, VerifyAll, CompareHead,
       RefuseExport, StartExport, StreamPage, FinishExport, Verdict, Reading

LEMMA AnchorInvStep ==
  ASSUME HeadInv, AnchorInv, [VerifyNext]_allVars
  PROVE  HeadInv' /\ AnchorInv'
<1>1. CASE Reads \/ Collect \/ AnchorFail \/ UNCHANGED allVars
  <2>1. [Next]_vars
    BY <1>1, ReadsFrame DEF Collect, AnchorFail, allVars
  <2>2. anchors' = anchors /\ job' \in {job, NoJob}
    BY <1>1, ReadsFrame DEF Collect, AnchorFail, allVars, readerVars
  <2>3. HeadInv'
    BY <2>1, CollectorKeeps
  <2>4. \A d \in Days : anchors'[d] # NoAnchor => Past(anchors[d])'
    BY <2>1, <2>2, PastStays DEF AnchorInv, Past
  <2>5. job' # NoJob => Past(job.head)'
    BY <2>1, <2>2, PastStays DEF AnchorInv, Past
  <2>6. QED
    BY <2>2, <2>3, <2>4, <2>5 DEF AnchorInv
<1>2. ASSUME NEW d \in Days, AnchorRead(d)
      PROVE  HeadInv' /\ AnchorInv'
  <2>1. /\ UNCHANGED vars /\ UNCHANGED anchors /\ head.seq > 0
        /\ job' = [day |-> d, head |-> head]
    BY <1>2 DEF AnchorRead, JobDate, AnchoredHead
  <2>2. HeadInv' /\ head \in ChainHeads /\ head' = head
    BY <2>1, CollectorKeeps DEF HeadInv, TypeOK, vars
  <2>3. Past(head)
    BY <2>1, HeadIsPast
  <2>4. job'.head = head /\ job' \in [day : Days, head : ChainHeads]
    BY <2>1, <2>2
  <2>5. QED
    BY <2>1, <2>2, <2>3, <2>4 DEF AnchorInv, Past
<1>3. CASE AnchorPut
  <2>1. /\ UNCHANGED vars /\ job # NoJob /\ job' = NoJob
        /\ anchors' = [anchors EXCEPT ![job.day] = job.head]
    BY <1>3 DEF AnchorPut
  <2>2. HeadInv' /\ head' = head
    BY <2>1, CollectorKeeps DEF vars
  <2>3. job.day \in Days /\ job.head \in ChainHeads /\ Past(job.head)
    BY <2>1 DEF AnchorInv
  <2>4. QED
    BY <2>1, <2>2, <2>3 DEF AnchorInv, Past
<1>4. ASSUME NEW row \in log, DamageRow(row)
      PROVE  HeadInv' /\ AnchorInv'
  <2>1. HeadInv' /\ UNCHANGED <<head, anchors, job>>
    BY <1>4, DamageKeeps
  <2>2. QED
    BY <2>1 DEF AnchorInv, Past
<1>5. QED
  BY <1>1, <1>2, <1>3, <1>4 DEF VerifyNext, Reads

\* Every anchor is a part of the record, for any number of calls, roll-backs and jobs, and
\* whatever is damaged in the log (anchor.py:16-38).
THEOREM AnchorsAreRecord == VerifySpec => []AnchorsOnChain
<1>1. VerifyInit => HeadInv /\ AnchorInv
  <2>1. VerifyInit => AnchorInv
    BY DEF VerifyInit, AnchorInv
  <2>2. QED
    BY <2>1, HeadInvInit
<1>2. HeadInv /\ AnchorInv /\ [VerifyNext]_allVars => (HeadInv /\ AnchorInv)'
  BY AnchorInvStep
<1>3. AnchorInv => AnchorsOnChain
  BY DEF AnchorInv, AnchorsOnChain, Past
<1>4. QED
  BY <1>1, <1>2, <1>3, PTL DEF VerifySpec
-----------------------------------------------------------------------------
(* The event log beside a reader. *)

\* What holds of the log, damaged or not.
LogInv == HeadInv /\ SubmissionsFresh /\ IsFiniteSet(log) /\ Distinct(log)

\* What holds of the log as long as no row of it is damaged.
IntactInv ==
  /\ damage \in Nat
  /\ damage = 0 =>
       RowsLanded /\ HistoryInLog /\ NoFork /\ \A row \in log : SelfConsistent(row)

LEMMA VerifyCases ==
  ASSUME [VerifyNext]_allVars
  PROVE  \/ [Next]_vars /\ damage' = damage
         \/ \E row \in log : DamageRow(row)
BY ReadsFrame DEF VerifyNext, Reads, Collect, AnchorRead, AnchorPut, AnchorFail, allVars, readerVars,
   ReadHead, ReadAnchors, RejectAnchor, AcceptAnchor, VerifySuffix, VerifyAll, CompareHead,
   RefuseExport, StartExport, StreamPage, FinishExport, Verdict, Reading

\* The rows of an insert are new, as many as the batch has events, and consistent.
LEMMA NewRows ==
  ASSUME LogInv, NEW r \in Requests, pc[r] \in Holding
  PROVE  LET new == ChainRows(txn[r].head, txn[r].bodies, Sub(r))
         IN  /\ new \subseteq Rows /\ IsFiniteSet(new)
             /\ \A row \in new : row.ins = Sub(r) /\ SelfConsistent(row)
             /\ \A x, y \in new : x.seq = y.seq => x = y
             /\ \A row \in new : head.seq < row.seq
<1> DEFINE h == txn[r].head
           b == txn[r].bodies
           ins == Sub(r)
           new == ChainRows(h, b, ins)
<1>1. /\ h \in ChainHeads /\ b \in Seq(Body) /\ h = head /\ Len(h.hash) = h.seq
      /\ ins \in Submissions
  BY DEF LogInv, HeadInv, TypeOK, Txns, SnapshotCurrent, HeadLength, Sub, Submissions
<1>2. \A row \in new : SelfConsistent(row)
  <2> TAKE row \in new
  <2>1. PICK i \in 1 .. Len(b) :
          row = [ seq  |-> h.seq + i,
                  prev |-> h.hash \o SubSeq(b, 1, i - 1),
                  body |-> b[i],
                  hash |-> compute_event_hash(h.hash \o SubSeq(b, 1, i - 1), b[i]),
                  ins  |-> ins ]
    BY DEF ChainRows
  <2>2. QED
    BY <2>1, Zenon DEF SelfConsistent
<1> HIDE DEF h, b, ins
<1>3. new \subseteq Rows
  BY <1>1, ChainRowsType DEF Rows
<1>4. IsFiniteSet(new)
  BY <1>1, RowsCounted
<1>5. /\ \A row \in new :
           /\ row.ins = ins
           /\ row.seq \in h.seq + 1 .. h.seq + Len(b)
           /\ row.hash = SubSeq(h.hash \o b, 1, row.seq)
           /\ row.body = b[row.seq - h.seq]
      /\ \A n \in h.seq + 1 .. h.seq + Len(b) : \E row \in new : row.seq = n
      /\ \A x, y \in new : x.seq = y.seq => x = y
  BY ONLY <1>1, ChainRowsOnHead
<1> HIDE DEF new
<1>6. \A row \in new : head.seq < row.seq
  <2>1. h.seq \in Nat /\ Len(b) \in Nat
    BY <1>1, LenProperties DEF ChainHeads
  <2>2. QED
    BY <1>1, <1>5, <2>1
<1>7. QED
  BY <1>2, <1>3, <1>4, <1>5, <1>6 DEF new, h, b, ins

LEMMA LogInvStep ==
  ASSUME LogInv, IntactInv, [VerifyNext]_allVars
  PROVE  LogInv' /\ IntactInv'
<1>1. ASSUME [Next]_vars, damage' = damage
      PROVE  LogInv' /\ IntactInv'
  <2>1. HeadInv' /\ SubmissionsFresh'
    BY <1>1, CollectorKeeps, FreshStep DEF LogInv, HeadInv
  <2>2. damage' = 0 => RowsLanded' /\ HistoryInLog' /\ NoFork'
    BY <1>1, ChainInvStep DEF LogInv, HeadInv, IntactInv, ChainInv
  <2>3. ASSUME log' = log
        PROVE  /\ IsFiniteSet(log') /\ Distinct(log)'
               /\ damage' = 0 => \A row \in log' : SelfConsistent(row)
    BY <1>1, <2>3 DEF LogInv, IntactInv
  <2>4. ASSUME NEW r \in Requests, InsertRows(r)
        PROVE  /\ IsFiniteSet(log') /\ Distinct(log)'
               /\ damage' = 0 => \A row \in log' : SelfConsistent(row)
    <3> DEFINE new == ChainRows(txn[r].head, txn[r].bodies, Sub(r))
    <3>1. pc[r] = "stored" /\ log' = log \cup new
      BY <2>4 DEF InsertRows
    <3>2. /\ IsFiniteSet(new)
          /\ \A row \in new : row.ins = Sub(r) /\ SelfConsistent(row)
          /\ \A x, y \in new : x.seq = y.seq => x = y
      BY <3>1, NewRows DEF Holding
    <3>3. \A row \in log : row.ins # Sub(r)
      BY <3>1 DEF LogInv, SubmissionsFresh
    <3> HIDE DEF new
    <3>4. IsFiniteSet(log')
      BY <3>1, <3>2, FS_Union DEF LogInv
    <3>5. Distinct(log')
      BY <3>1, <3>2, <3>3 DEF LogInv, Distinct
    <3>6. damage' = 0 => \A row \in log' : SelfConsistent(row)
      BY <1>1, <3>1, <3>2 DEF IntactInv
    <3>7. QED
      BY <3>4, <3>5, <3>6 DEF Distinct
  <2>5. log' = log \/ \E r \in Requests : InsertRows(r)
    BY <1>1, StepCases, QuietStepFrame DEF Commit
  <2>6. QED
    BY <1>1, <2>1, <2>2, <2>3, <2>4, <2>5 DEF LogInv, IntactInv, Distinct
<1>2. ASSUME NEW row \in log, DamageRow(row)
      PROVE  LogInv' /\ IntactInv'
  <2> DEFINE changed   == [row EXCEPT !.body.ref = ~@]
             rewritten == [changed EXCEPT !.hash = compute_event_hash(row.prev, changed.body)]
  <2>1. /\ HeadInv' /\ UNCHANGED <<pc, try, commits>>
        /\ damage' = damage + 1
        /\ log' \in {(log \ {row}) \cup kept : kept \in {{}, {changed}, {rewritten}}}
    BY <1>2, DamageKeeps DEF DamageRow, LogInv
  <2>2. row \in Rows
    BY DEF LogInv, HeadInv, TypeOK
  <2>3. /\ changed.seq = row.seq /\ changed.ins = row.ins
        /\ rewritten.seq = row.seq /\ rewritten.ins = row.ins
    BY <2>2 DEF Rows
  <2> HIDE DEF changed, rewritten
  <2>4. PICK kept \in {{}, {changed}, {rewritten}} : log' = (log \ {row}) \cup kept
    BY <2>1
  <2>5. IsFiniteSet(log')
    <3>1. IsFiniteSet(kept)
      <4>1. CASE kept = {}
        BY <4>1, FS_EmptySet
      <4>2. ASSUME NEW x, kept = {x} PROVE IsFiniteSet(kept)
        BY <4>2, FS_Singleton
      <4>3. QED
        BY <4>1, <4>2
    <3>2. IsFiniteSet(log \ {row})
      BY FS_Subset DEF LogInv
    <3>3. QED
      BY <2>4, <3>1, <3>2, FS_Union
  <2>6. \A x \in kept : x.seq = row.seq /\ x.ins = row.ins
    BY <2>3
  <2>7. \A x, y \in kept : x = y
    OBVIOUS
  <2>8. Distinct(log')
    BY <2>4, <2>6, <2>7 DEF LogInv, Distinct
  <2>9. SubmissionsFresh'
    BY <2>1, <2>4, <2>6 DEF LogInv, SubmissionsFresh, Sub
  <2>10. damage' # 0
    BY <2>1 DEF IntactInv
  <2>11. QED
    BY <2>1, <2>5, <2>8, <2>9, <2>10 DEF LogInv, IntactInv, Distinct
<1>3. QED
  BY <1>1, <1>2, VerifyCases

-----------------------------------------------------------------------------
(* What a reader has read. *)

\* A chain from the first event.
GenesisChain(rows) == rows # << >> /\ verify_chain(rows) /\ StartsAtGenesis(rows)

\* How far a reader has come, and what it has found on the way.
ReadSoFar(d) ==
  /\ d.at \in {"anchor", "suffix", "stream", "broken"} => d.anchor # NoAnchor
  /\ d.at \in {"suffix", "full", "scanned"} => d.op = "verify"
  /\ d.at \in {"stream", "broken"} => d.op = "export"
  /\ d.at = "suffix" => d.anchor.seq <= d.head.seq
  /\ d.at = "scanned" => GenesisChain(d.rows)
  /\ d.at = "done" /\ d.op = "export" => d.anchor # NoAnchor

\* What a positive verdict says of the rows that were read.
VerdictOf(d) ==
  /\ d.op = "verify" /\ d.at = "done" /\ d.valid /\ d.mode = "anchored_suffix" =>
       /\ d.anchor # NoAnchor /\ d.anchor.seq <= d.head.seq
       /\ SuffixValid(d.rows, d.anchor, d.head)
  /\ d.op = "verify" /\ d.at = "done" /\ d.valid /\ d.mode = "full" /\ d.matches =>
       GenesisChain(d.rows) /\ LastOf(d.rows).hash = d.head.hash

ReaderOK(d) ==
  /\ d \in ReadersType
  /\ d.head # EmptyHead => Past(d.head)
  /\ d.anchor # NoAnchor => Past(d.anchor)
  /\ ReadSoFar(d)
  /\ VerdictOf(d)

\* A reader has read heads the record has had, and rows.
ReaderInv == ReaderOK(reader)

\* A query returns rows of the log.
LEMMA ScanRows ==
  ASSUME LogInv, NEW X \in SUBSET log, NEW s \in ScanOf(X)
  PROVE  s \in Seq(X) /\ s \in Seq(Rows) /\ Len(s) = Cardinality(X)
         /\ \A x \in X : \E i \in 1 .. Len(s) : s[i] = x
<1>1. X \in SUBSET Rows /\ IsFiniteSet(X) /\ Distinct(X)
  BY FS_Subset DEF LogInv, HeadInv, TypeOK, Distinct
<1>2. s \in Seq(X) /\ Len(s) = Cardinality(X) /\ \A x \in X : \E i \in 1 .. Len(s) : s[i] = x
  BY <1>1, ScanOrder
<1>3. s \in Seq(Rows)
  BY <1>1, <1>2, SeqMonotonic
<1>4. QED
  BY <1>2, <1>3

\* A page is the first rows of what a query returns, as many as fit.
LEMMA PageOf ==
  ASSUME NEW S, NEW s \in Seq(S)
  PROVE  /\ Limited(s) \in Seq(S)
         /\ Len(Limited(s)) = IF Len(s) < PageSize THEN Len(s) ELSE PageSize
         /\ \A i \in 1 .. Len(Limited(s)) : i \in 1 .. Len(s) /\ Limited(s)[i] = s[i]
<1> DEFINE k == IF Len(s) < PageSize THEN Len(s) ELSE PageSize
           page == SubSeq(s, 1, k)
<1>1. Len(s) \in Nat /\ k \in Nat /\ k <= Len(s)
  BY LenProperties, VerifyAssumption
<1>2. Limited(s) = page
  BY DEF Limited
<1>3. \A i \in 1 .. k : s[i] \in S
  BY <1>1, ElementOfSeq
<1>4. /\ page \in Seq(S)
      /\ Len(page) = IF 1 <= k THEN k - 1 + 1 ELSE 0
      /\ \A i \in 1 .. k - 1 + 1 : page[i] = s[1 + i - 1]
  <2> HIDE DEF k
  <2>1. 1 \in Int /\ k \in Int
    BY <1>1
  <2> HIDE DEF page
  <2>2. QED
    BY <1>3, <2>1, SubSeqProperties DEF page
<1> HIDE DEF k, page
<1>5. Len(page) = k
  BY <1>1, <1>4
<1>6. \A i \in 1 .. k : i \in 1 .. Len(s) /\ page[i] = s[i]
  <2> TAKE i \in 1 .. k
  <2>1. i \in 1 .. k - 1 + 1 /\ 1 + i - 1 = i /\ i \in 1 .. Len(s)
    BY <1>1
  <2>2. QED
    BY <1>4, <2>1
<1>7. QED
  BY <1>2, <1>4, <1>5, <1>6 DEF k

\* The latest anchor is one that was put.
LEMMA LatestIsPut ==
  ASSUME HeadInv, AnchorInv, LatestAnchor # NoAnchor
  PROVE  LatestAnchor \in ChainHeads /\ Past(LatestAnchor)
<1> DEFINE put == {anchors[d] : d \in Days} \ {NoAnchor}
           seqs == {a.seq : a \in put}
<1>1. put # {}
  BY DEF LatestAnchor
<1>2. \A a \in put : a \in ChainHeads /\ Past(a)
  BY DEF AnchorInv
<1>3. LatestAnchor = CHOOSE a \in put : \A b \in put : b.seq <= a.seq
  BY <1>1, Zenon DEF LatestAnchor
<1> HIDE DEF put
<1>4. seqs \in SUBSET (1 .. head.seq) /\ seqs # {} /\ head.seq \in Nat
  BY <1>1, <1>2 DEF Past, ChainHeads, HeadInv, TypeOK
<1>5. \E m \in seqs : \A k \in seqs : k <= m
  <2> HIDE DEF seqs
  <2>1. QED
    BY <1>4, GreatestElement
<1>6. \E a \in put : \A b \in put : b.seq <= a.seq
  BY <1>5
<1>7. LatestAnchor \in put
  BY <1>3, <1>6, Zenon
<1>8. QED
  BY <1>2, <1>7

\* The record that the reader is, field by field.
LEMMA ReaderFields ==
  ASSUME NEW d \in ReadersType
  PROVE  /\ d.op \in {"none", "verify", "export"} /\ d.at \in ReaderPhases /\ d.head \in ChainHeads
         /\ d.anchor \in ChainHeads \cup {NoAnchor} /\ d.rows \in Seq(Rows) /\ d.mode \in Modes
         /\ d.valid \in BOOLEAN /\ d.matches \in BOOLEAN
BY Zenon DEF ReadersType

\* The bounds and the hash of a head that the record has had.
LEMMA PastType ==
  ASSUME HeadInv, NEW a \in ChainHeads, Past(a)
  PROVE  /\ a.seq \in Nat /\ 0 < a.seq /\ a.seq <= head.seq /\ head.seq \in Nat
         /\ a.hash \in Seq(Body) /\ Len(a.hash) = a.seq
         /\ \A i \in 1 .. a.seq : a.hash[i] = head.hash[i]
<1>1. /\ head.hash \in Seq(Body) /\ Len(head.hash) = head.seq /\ head.seq \in Nat /\ a.seq \in Nat
      /\ a.hash \in Seq(Body)
  BY DEF HeadInv, TypeOK, HeadLength, ChainHeads, Hash
<1>2. 0 < a.seq /\ a.seq <= head.seq /\ a.hash = SubSeq(head.hash, 1, a.seq)
  BY DEF Past
<1>3. 1 \in Int /\ a.seq \in Int /\ \A i \in 1 .. a.seq : head.hash[i] \in Body
  BY <1>1, <1>2, ElementOfSeq
<1>4. /\ Len(a.hash) = IF 1 <= a.seq THEN a.seq - 1 + 1 ELSE 0
      /\ \A i \in 1 .. a.seq - 1 + 1 : a.hash[i] = head.hash[1 + i - 1]
  BY <1>2, <1>3, SubSeqProperties
<1>5. \A i \in 1 .. a.seq : i \in 1 .. a.seq - 1 + 1 /\ 1 + i - 1 = i
  BY <1>1
<1>6. QED
  BY <1>1, <1>2, <1>4, <1>5

\* What is read of the head is nothing yet, or a head that the record has had.
LEMMA HeadReads ==
  ASSUME HeadInv
  PROVE  head \in ChainHeads /\ (head # EmptyHead => Past(head))
<1>1. head \in ChainHeads /\ head.hash \in Seq(Body) /\ head.seq \in Nat /\ Len(head.hash) = head.seq
  BY DEF HeadInv, TypeOK, HeadLength, ChainHeads, Hash
<1>2. CASE head.seq > 0
  BY <1>1, <1>2, HeadIsPast
<1>3. CASE ~(head.seq > 0)
  <2>1. head.seq = 0 /\ head.hash = << >>
    BY <1>1, <1>3, EmptySeq
  <2>2. head = EmptyHead
    BY <1>1, <2>1 DEF ChainHeads, EmptyHead, GENESIS_HASH
  <2>3. QED
    BY <1>1, <2>2
<1>4. QED
  BY <1>2, <1>3

\* A verdict changes neither the heads nor what was asked for.
LEMMA VerdictOK ==
  ASSUME ReaderInv, NEW mode \in Modes, NEW valid \in BOOLEAN, NEW matches \in BOOLEAN,
         NEW rows \in Seq(Rows), reader.op = "verify",
         Verdict(mode, valid, matches, rows),
         valid /\ mode = "anchored_suffix" =>
           /\ reader.anchor # NoAnchor /\ reader.anchor.seq <= reader.head.seq
           /\ SuffixValid(rows, reader.anchor, reader.head),
         ~(valid /\ mode = "full" /\ matches)
  PROVE  \E new : reader' = new /\ ReaderOK(new)
<1> DEFINE new == [reader EXCEPT !.at = "done", !.mode = mode, !.valid = valid, !.matches = matches,
                                 !.rows = rows]
<1>1. reader' = new
  BY Zenon DEF Verdict, Reading
<1>2. reader \in ReadersType
  BY DEF ReaderInv, ReaderOK
<1>3. /\ new \in ReadersType
      /\ new.op = reader.op /\ new.at = "done" /\ new.head = reader.head /\ new.anchor = reader.anchor
      /\ new.rows = rows /\ new.mode = mode /\ new.valid = valid
      /\ new.matches = matches
  BY <1>2, Zenon DEF ReadersType, ReaderPhases
<1> HIDE DEF new
<1>4. ReadSoFar(new)
  BY <1>3 DEF ReadSoFar
<1>5. VerdictOf(new)
  BY <1>3 DEF VerdictOf
<1>6. ReaderOK(new)
  BY <1>3, <1>4, <1>5 DEF ReaderInv, ReaderOK
<1>7. QED
  BY <1>1, <1>6

\* A move that keeps what was read, to a place that what was read allows.
LEMMA MoveOK ==
  ASSUME ReaderInv, NEW at \in ReaderPhases, Reading([reader EXCEPT !.at = at]),
         at \in {"suffix", "stream", "refused", "broken", "done"},
         at \in {"suffix", "stream", "broken", "done"} => reader.anchor # NoAnchor,
         at = "suffix" => reader.op = "verify" /\ reader.anchor.seq <= reader.head.seq,
         at \in {"stream", "broken", "done"} => reader.op = "export"
  PROVE  \E new : reader' = new /\ ReaderOK(new)
<1> DEFINE new == [reader EXCEPT !.at = at]
<1>1. reader' = new
  BY Zenon DEF Reading
<1>2. reader \in ReadersType
  BY DEF ReaderInv, ReaderOK
<1>3. /\ new \in ReadersType
      /\ new.op = reader.op /\ new.at = at /\ new.head = reader.head /\ new.anchor = reader.anchor
  BY <1>2, Zenon DEF ReadersType
<1> HIDE DEF new
<1>4. ReadSoFar(new)
  BY <1>3 DEF ReadSoFar
<1>5. VerdictOf(new)
  BY <1>3 DEF VerdictOf
<1>6. ReaderOK(new)
  BY <1>3, <1>4, <1>5 DEF ReaderInv, ReaderOK
<1>7. QED
  BY <1>1, <1>6

LEMMA VerifyReads ==
  ASSUME HeadInv, AnchorInv, LogInv, ReaderInv,
         RejectAnchor \/ AcceptAnchor \/ VerifySuffix \/ VerifyAll \/ CompareHead
  PROVE  \E new : reader' = new /\ ReaderOK(new)
<1>0. /\ reader \in ReadersType /\ ReadSoFar(reader)
      /\ reader.head \in ChainHeads /\ reader.anchor \in ChainHeads \cup {NoAnchor}
      /\ reader.rows \in Seq(Rows)
  BY ReaderFields DEF ReaderInv, ReaderOK
<1>1. CASE RejectAnchor
  <2>1. << >> \in Seq(Rows) /\ "anchor_failed" \in Modes /\ FALSE \in BOOLEAN
    BY EmptySeq DEF Modes
  <2>2. reader.op = "verify" /\ Verdict("anchor_failed", FALSE, FALSE, << >>)
    BY <1>1 DEF RejectAnchor
  <2>3. QED
    BY <2>1, <2>2, VerdictOK
<1>2. CASE AcceptAnchor
  <2>1. /\ reader.op = "verify" /\ reader.at = "anchor" /\ ~(reader.anchor.seq > reader.head.seq)
        /\ Reading([reader EXCEPT !.at = "suffix"])
    BY <1>2 DEF AcceptAnchor, AnchorAhead
  <2>2. reader.anchor # NoAnchor /\ reader.anchor \in ChainHeads
    BY <1>0, <2>1 DEF ReadSoFar
  <2>3. reader.anchor.seq <= reader.head.seq
    BY <1>0, <2>1, <2>2 DEF ChainHeads
  <2>4. "suffix" \in ReaderPhases
    BY DEF ReaderPhases
  <2>5. QED
    BY <2>1, <2>2, <2>3, <2>4, MoveOK
<1>3. CASE VerifySuffix
  <2>1. reader.op = "verify" /\ reader.at = "suffix"
    BY <1>3 DEF VerifySuffix
  <2>2. PICK rows \in SuffixOf(reader.anchor, reader.head) :
          LET valid == SuffixValid(rows, reader.anchor, reader.head)
          IN  Verdict("anchored_suffix", valid, valid, rows)
    BY <1>3, Zenon DEF VerifySuffix
  <2> DEFINE valid == SuffixValid(rows, reader.anchor, reader.head)
  <2>3. Verdict("anchored_suffix", valid, valid, rows)
    BY <2>2, Zenon
  <2>4. rows \in Seq(Rows)
    <3>1. RowsBetween(reader.anchor.seq + 1, reader.head.seq) \in SUBSET log
      BY DEF RowsBetween
    <3>2. QED
      BY <3>1, ScanRows DEF SuffixOf
  <2>5. valid \in BOOLEAN /\ "anchored_suffix" \in Modes
    BY DEF SuffixValid, Modes
  <2>6. reader.anchor # NoAnchor /\ reader.anchor.seq <= reader.head.seq
    BY <1>0, <2>1 DEF ReadSoFar
  <2>7. valid => SuffixValid(rows, reader.anchor, reader.head)
    OBVIOUS
  <2> HIDE DEF valid
  <2>8. QED
    BY <2>1, <2>3, <2>4, <2>5, <2>6, <2>7, VerdictOK
<1>4. CASE VerifyAll
  <2>1. reader.op = "verify" /\ reader.at = "full"
    BY <1>4 DEF VerifyAll
  <2>2. PICK rows \in ScanOf(log) :
          IF verify_chain(rows) /\ StartsAtGenesis(rows) /\ rows # << >>
          THEN Reading([reader EXCEPT !.at = "scanned", !.rows = rows])
          ELSE Verdict("full", verify_chain(rows) /\ StartsAtGenesis(rows), FALSE, rows)
    BY <1>4, Zenon DEF VerifyAll
  <2>3. rows \in Seq(Rows)
    BY ScanRows
  <2>4. CASE verify_chain(rows) /\ StartsAtGenesis(rows) /\ rows # << >>
    <3> DEFINE new == [reader EXCEPT !.at = "scanned", !.rows = rows]
    <3>1. reader' = new
      BY <2>2, <2>4, Zenon DEF Reading
    <3>2. /\ new \in ReadersType
          /\ new.op = reader.op /\ new.at = "scanned" /\ new.head = reader.head
          /\ new.anchor = reader.anchor /\ new.rows = rows
      BY <1>0, <2>3, Zenon DEF ReadersType, ReaderPhases
    <3> HIDE DEF new
    <3>3. ReadSoFar(new)
      BY <2>1, <2>4, <3>2 DEF ReadSoFar, GenesisChain
    <3>4. VerdictOf(new)
      BY <3>2 DEF VerdictOf
    <3>5. ReaderOK(new)
      BY <3>2, <3>3, <3>4 DEF ReaderInv, ReaderOK
    <3>6. QED
      BY <3>1, <3>5
  <2>5. CASE ~(verify_chain(rows) /\ StartsAtGenesis(rows) /\ rows # << >>)
    <3> DEFINE valid == verify_chain(rows) /\ StartsAtGenesis(rows)
    <3>1. Verdict("full", valid, FALSE, rows)
      BY <2>2, <2>5, Zenon
    <3>2. valid \in BOOLEAN /\ "full" \in Modes /\ FALSE \in BOOLEAN /\ "full" # "anchored_suffix"
      BY DEF Modes
    <3> HIDE DEF valid
    <3>3. QED
      BY <2>1, <2>3, <3>1, <3>2, VerdictOK
  <2>6. QED
    BY <2>4, <2>5
<1>5. CASE CompareHead
  <2> DEFINE last    == LastOf(reader.rows)
             reached == head.seq > 0 /\ head.seq = last.seq
             matches == reached /\ last.hash = head.hash
             new == [reader EXCEPT !.at = "done", !.mode = "full", !.head = head,
                                   !.valid = reached => matches, !.matches = matches]
  <2>1. reader.at = "scanned" /\ reader' = new
    BY <1>5, Zenon DEF CompareHead, Reading
  <2>2. matches \in BOOLEAN /\ (reached => matches) \in BOOLEAN
    OBVIOUS
  <2>3. reader.op = "verify" /\ GenesisChain(reader.rows)
    BY <1>0, <2>1 DEF ReadSoFar
  <2>4. head \in ChainHeads /\ (head # EmptyHead => Past(head))
    BY HeadReads
  <2>5. /\ new \in ReadersType
        /\ new.op = reader.op /\ new.at = "done" /\ new.head = head /\ new.anchor = reader.anchor
        /\ new.rows = reader.rows /\ new.mode = "full" /\ new.matches = matches
    <3> DEFINE valid == reached => matches
    <3>1. new = [reader EXCEPT !.at = "done", !.mode = "full", !.head = head,
                               !.valid = valid, !.matches = matches]
      OBVIOUS
    <3>2. valid \in BOOLEAN
      OBVIOUS
    <3> HIDE DEF new, valid, matches
    <3>3. QED
      BY <1>0, <2>2, <2>4, <3>1, <3>2, Zenon DEF ReadersType, ReaderPhases, Modes
  <2>6. matches => LastOf(reader.rows).hash = head.hash
    OBVIOUS
  <2> HIDE DEF new, matches, reached
  <2>7. ReadSoFar(new)
    BY <2>3, <2>5 DEF ReadSoFar
  <2>8. VerdictOf(new)
    BY <2>3, <2>5, <2>6 DEF VerdictOf
  <2>9. ReaderOK(new)
    BY <2>4, <2>5, <2>7, <2>8 DEF ReaderInv, ReaderOK
  <2>10. QED
    BY <2>1, <2>9
<1>6. QED
  BY <1>1, <1>2, <1>3, <1>4, <1>5

LEMMA HeadsRead ==
  ASSUME HeadInv, AnchorInv, LogInv, ReaderInv,
         (\E op \in {"verify", "export"} : ReadHead(op)) \/ ReadAnchors
  PROVE  \E new : reader' = new /\ ReaderOK(new)
<1>0. /\ reader \in ReadersType /\ ReadSoFar(reader)
      /\ reader.head \in ChainHeads /\ reader.anchor \in ChainHeads \cup {NoAnchor}
      /\ reader.rows \in Seq(Rows)
  BY ReaderFields DEF ReaderInv, ReaderOK
<1>1. ASSUME NEW op \in {"verify", "export"}, ReadHead(op)
      PROVE  \E new : reader' = new /\ ReaderOK(new)
  <2> DEFINE at == IF head.seq >= 1 THEN "head" ELSE IF op = "verify" THEN "full" ELSE "refused"
             new == [reader EXCEPT !.op = op, !.head = head, !.at = at]
  <2>1. reader' = new
    BY <1>1, Zenon DEF ReadHead, Reading
  <2>2. head \in ChainHeads /\ (head # EmptyHead => Past(head))
    BY HeadReads
  <2>3. at \in {"head", "full", "refused"} /\ (at = "full" => op = "verify") /\ at \in ReaderPhases
    BY DEF ReaderPhases
  <2> HIDE DEF at
  <2>4. /\ new \in ReadersType
        /\ new.op = op /\ new.at = at /\ new.head = head /\ new.anchor = reader.anchor
    BY <1>0, <2>2, <2>3, Zenon DEF ReadersType
  <2> HIDE DEF new
  <2>5. ReadSoFar(new) /\ VerdictOf(new)
    BY <2>3, <2>4 DEF ReadSoFar, VerdictOf
  <2>6. ReaderOK(new)
    BY <2>2, <2>4, <2>5 DEF ReaderInv, ReaderOK
  <2>7. QED
    BY <2>1, <2>6
<1>2. CASE ReadAnchors
  <2>1. PICK found \in {LatestAnchor, NoAnchor} :
          Reading([reader EXCEPT
                     !.anchor = found,
                     !.at = IF found # NoAnchor THEN "anchor"
                            ELSE IF reader.op = "verify" THEN "full" ELSE "refused"])
    BY <1>2, Zenon DEF ReadAnchors
  <2> DEFINE at == IF found # NoAnchor THEN "anchor"
                   ELSE IF reader.op = "verify" THEN "full" ELSE "refused"
             new == [reader EXCEPT !.anchor = found, !.at = at]
  <2>2. reader' = new
    BY <2>1, Zenon DEF Reading
  <2>3. found # NoAnchor => found \in ChainHeads /\ Past(found)
    BY LatestIsPut
  <2>4. /\ at \in {"anchor", "full", "refused"} /\ at \in ReaderPhases
        /\ at = "anchor" => found # NoAnchor
        /\ at = "full" => reader.op = "verify"
    BY DEF ReaderPhases
  <2> HIDE DEF at
  <2>5. /\ new \in ReadersType
        /\ new.op = reader.op /\ new.at = at /\ new.head = reader.head /\ new.anchor = found
    <3>1. found \in ChainHeads \cup {NoAnchor}
      BY <2>3
    <3>2. QED
      BY <1>0, <2>4, <3>1, Zenon DEF ReadersType
  <2> HIDE DEF new
  <2>6. ReadSoFar(new) /\ VerdictOf(new)
    BY <2>4, <2>5 DEF ReadSoFar, VerdictOf
  <2>7. ReaderOK(new)
    BY <2>3, <2>5, <2>6 DEF ReaderInv, ReaderOK
  <2>8. QED
    BY <2>2, <2>7
<1>3. QED
  BY <1>1, <1>2

LEMMA ExportReads ==
  ASSUME HeadInv, AnchorInv, LogInv, ReaderInv,
         RefuseExport \/ StartExport \/ StreamPage \/ FinishExport
  PROVE  \E new : reader' = new /\ ReaderOK(new)
<1>0. /\ reader \in ReadersType /\ ReadSoFar(reader)
      /\ reader.rows \in Seq(Rows)
  BY ReaderFields DEF ReaderInv, ReaderOK
<1> USE DEF ReaderPhases
<1>1. CASE RefuseExport
  <2>1. Reading([reader EXCEPT !.at = "refused"])
    BY <1>1 DEF RefuseExport
  <2>2. QED
    BY <2>1, MoveOK
<1>2. CASE StartExport
  <2>1. reader.op = "export" /\ reader.at = "anchor" /\ Reading([reader EXCEPT !.at = "stream"])
    BY <1>2 DEF StartExport
  <2>2. reader.anchor # NoAnchor
    BY <1>0, <2>1 DEF ReadSoFar
  <2>3. QED
    BY <2>1, <2>2, MoveOK
<1>3. CASE StreamPage
  <2> DEFINE sent == Len(reader.rows)
  <2>1. reader.at = "stream" /\ reader.anchor # NoAnchor /\ reader.op = "export"
    BY <1>0, <1>3 DEF StreamPage, ReadSoFar
  <2>2. PICK page \in NextPage(sent + 1, reader.anchor.seq) :
          IF page # << >> /\ \A i \in 1 .. Len(page) : page[i].seq = sent + i
          THEN Reading([reader EXCEPT !.rows = @ \o page])
          ELSE Reading([reader EXCEPT !.at = "broken"])
    BY <1>3, Zenon DEF StreamPage
  <2>3. page \in Seq(Rows)
    <3>1. RowsBetween(sent + 1, reader.anchor.seq) \in SUBSET log
      BY DEF RowsBetween
    <3>2. PICK rows \in ScanOf(RowsBetween(sent + 1, reader.anchor.seq)) : page = Limited(rows)
      BY DEF NextPage
    <3>3. QED
      BY <3>1, <3>2, ScanRows, PageOf
  <2>4. CASE Reading([reader EXCEPT !.at = "broken"])
    BY <2>1, <2>4, MoveOK
  <2>5. CASE Reading([reader EXCEPT !.rows = @ \o page])
    <3> DEFINE rows == reader.rows \o page
               new == [reader EXCEPT !.rows = rows]
    <3>1. reader' = new
      BY <2>5, Zenon DEF Reading
    <3>2. rows \in Seq(Rows)
      BY <1>0, <2>3, ConcatProperties
    <3> HIDE DEF rows
    <3>3. /\ new \in ReadersType
          /\ new.op = reader.op /\ new.at = reader.at /\ new.head = reader.head
          /\ new.anchor = reader.anchor
      BY <1>0, <3>2, Zenon DEF ReadersType
    <3> HIDE DEF new
    <3>4. ReadSoFar(new) /\ VerdictOf(new)
      BY <2>1, <3>3 DEF ReadSoFar, VerdictOf
    <3>5. ReaderOK(new)
      BY <3>3, <3>4 DEF ReaderInv, ReaderOK
    <3>6. QED
      BY <3>1, <3>5
  <2>6. QED
    BY <2>2, <2>4, <2>5
<1>4. CASE FinishExport
  <2>1. reader.at = "stream" /\ Reading([reader EXCEPT !.at = "done"])
    BY <1>4 DEF FinishExport
  <2>2. reader.anchor # NoAnchor /\ reader.op = "export"
    BY <1>0, <2>1 DEF ReadSoFar
  <2>3. QED
    BY <2>1, <2>2, MoveOK
<1>5. QED
  BY <1>1, <1>2, <1>3, <1>4

LEMMA ReaderInvStep ==
  ASSUME HeadInv, AnchorInv, LogInv, ReaderInv, [VerifyNext]_allVars
  PROVE  ReaderInv'
<1>1. CASE Reads
  <2>1. head' = head
    BY <1>1, ReadsFrame DEF vars
  <2>2. PICK new : reader' = new /\ ReaderOK(new)
    BY <1>1, VerifyReads, HeadsRead, ExportReads DEF Reads
  <2>3. QED
    BY <2>1, <2>2 DEF ReaderInv, ReaderOK, Past
<1>2. ASSUME reader' = reader, [Next]_vars
      PROVE  ReaderInv'
  <2>1. reader.head \in ChainHeads /\ reader.anchor \in ChainHeads \cup {NoAnchor}
    BY ReaderFields DEF ReaderInv, ReaderOK
  <2>2. /\ reader.head # EmptyHead => Past(reader.head)'
        /\ reader.anchor # NoAnchor => Past(reader.anchor)'
    BY <1>2, <2>1, PastStays DEF ReaderInv, ReaderOK, Past
  <2>3. QED
    BY <1>2, <2>2 DEF ReaderInv, ReaderOK, Past
<1>3. ASSUME NEW row \in log, DamageRow(row)
      PROVE  ReaderInv'
  <2>1. head' = head /\ reader' = reader
    BY <1>3, DamageKeeps DEF DamageRow
  <2>2. QED
    BY <2>1 DEF ReaderInv, ReaderOK, Past
<1>4. [VerifyNext]_allVars =>
        Reads \/ (reader' = reader /\ [Next]_vars) \/ \E row \in log : DamageRow(row)
  BY DEF VerifyNext, Reads, Collect, AnchorRead, AnchorPut, AnchorFail, allVars, readerVars
<1>5. QED
  BY <1>1, <1>2, <1>3, <1>4

LEMMA ReaderInvInit == VerifyInit => LogInv /\ IntactInv /\ ReaderInv
<1> SUFFICES ASSUME VerifyInit PROVE LogInv /\ IntactInv /\ ReaderInv
  OBVIOUS
<1>1. log = {} /\ Init /\ damage = 0 /\ reader = NewReader
  BY DEF VerifyInit, Init
<1>2. ChainInv
  BY <1>1, ChainInvInit
<1>3. LogInv
  BY <1>1, <1>2, HeadInvInit, FS_EmptySet DEF LogInv, ChainInv, HeadInv, Distinct
<1>4. IntactInv
  BY <1>1, <1>2 DEF IntactInv, ChainInv
<1>5. NewReader \in ReadersType
  <2>1. EmptyHead \in ChainHeads /\ << >> \in Seq(Rows)
    BY EmptySeq DEF EmptyHead, ChainHeads, Hash, GENESIS_HASH
  <2>2. QED
    BY <2>1 DEF NewReader, ReadersType, ReaderPhases, Modes
<1>6. ReaderOK(NewReader)
  <2>1. /\ NewReader.at = "idle" /\ NewReader.head = EmptyHead /\ NewReader.anchor = NoAnchor
    BY DEF NewReader
  <2>2. QED
    BY <1>5, <2>1 DEF ReaderOK, ReadSoFar, VerdictOf
<1>7. QED
  BY <1>1, <1>3, <1>4, <1>6 DEF ReaderInv

-----------------------------------------------------------------------------
(* Positive verdicts. *)

\* The record beside a reader.
AuditInv == HeadInv /\ AnchorInv /\ LogInv /\ IntactInv /\ ReaderInv

LEMMA AuditInvariant == VerifySpec => []AuditInv
<1>1. VerifyInit => AuditInv
  <2>1. VerifyInit => AnchorInv
    BY DEF VerifyInit, AnchorInv
  <2>2. QED
    BY <2>1, HeadInvInit, ReaderInvInit DEF AuditInv
<1>2. AuditInv /\ [VerifyNext]_allVars => AuditInv'
  BY AnchorInvStep, LogInvStep, ReaderInvStep DEF AuditInv
<1>3. QED
  BY <1>1, <1>2, PTL DEF VerifySpec

\* The length of a head that was read is its number.
LEMMA ReadLengths ==
  ASSUME AuditInv
  PROVE  /\ reader.head \in ChainHeads /\ reader.head.hash \in Seq(Body)
         /\ reader.head.seq \in Nat /\ Len(reader.head.hash) = reader.head.seq
         /\ reader.anchor # NoAnchor =>
              /\ reader.anchor \in ChainHeads /\ Past(reader.anchor)
              /\ reader.anchor.hash \in Seq(Body) /\ reader.anchor.seq \in Nat
              /\ Len(reader.anchor.hash) = reader.anchor.seq /\ 0 < reader.anchor.seq
<1>1. /\ reader.head \in ChainHeads /\ reader.anchor \in ChainHeads \cup {NoAnchor}
      /\ reader.head # EmptyHead => Past(reader.head)
      /\ reader.anchor # NoAnchor => Past(reader.anchor)
  BY ReaderFields DEF AuditInv, ReaderInv, ReaderOK
<1>2. reader.head = EmptyHead =>
        /\ reader.head.hash \in Seq(Body) /\ reader.head.seq \in Nat
        /\ Len(reader.head.hash) = reader.head.seq
  BY EmptySeq DEF EmptyHead, GENESIS_HASH
<1>3. QED
  BY <1>1, <1>2, PastType DEF AuditInv

\* What a suffix that passes the verifier's checks says of the events after the anchor.
LEMMA SuffixEvents ==
  ASSUME NEW rows \in Seq(Rows), NEW anchor \in ChainHeads, NEW to \in ChainHeads,
         anchor.hash \in Seq(Body), to.hash \in Seq(Body), anchor.seq \in Nat, to.seq \in Nat,
         Len(anchor.hash) = anchor.seq, Len(to.hash) = to.seq, SuffixValid(rows, anchor, to)
  PROVE  /\ to.hash = anchor.hash \o BodiesOf(rows)
         /\ Len(rows) = to.seq - anchor.seq
<1>1. /\ BodiesOf(rows) \in Seq(Body) /\ Len(BodiesOf(rows)) = Len(rows) /\ Len(rows) \in Nat
  BY BodiesType, LenProperties
<1>2. to.hash = anchor.hash \o BodiesOf(rows)
  <2>1. CASE rows = << >>
    <3>1. BodiesOf(rows) = << >>
      BY <1>1, <2>1, EmptySeq
    <3>2. to.hash = anchor.hash
      BY <2>1 DEF SuffixValid
    <3>3. QED
      BY <3>1, <3>2, ConcatEmptySeq
  <2>2. CASE rows # << >>
    <3>1. /\ verify_chain(rows) /\ rows[1].prev = anchor.hash
          /\ LastOf(rows).hash = to.hash
      BY <2>2 DEF SuffixValid
    <3>2. LastOf(rows).hash = anchor.hash \o BodiesOf(rows)
      BY <2>2, <3>1, ChainedHistory DEF Hash
    <3>3. QED
      BY <3>1, <3>2
  <2>3. QED
    BY <2>1, <2>2
<1>3. Len(to.hash) = Len(anchor.hash) + Len(BodiesOf(rows))
  BY <1>1, <1>2, ConcatProperties
<1>4. QED
  BY <1>1, <1>2, <1>3

LEMMA SuffixHistory ==
  ASSUME AuditInv, Verified, reader.valid, reader.mode = "anchored_suffix"
  PROVE  /\ reader.anchor # NoAnchor
         /\ reader.head.hash = reader.anchor.hash \o BodiesOf(reader.rows)
         /\ Len(reader.rows) = reader.head.seq - reader.anchor.seq
<1>1. /\ reader.rows \in Seq(Rows) /\ reader.anchor # NoAnchor
      /\ SuffixValid(reader.rows, reader.anchor, reader.head)
  BY ReaderFields DEF AuditInv, ReaderInv, ReaderOK, VerdictOf, Verified
<1>2. QED
  BY <1>1, ReadLengths, SuffixEvents

\* A positive anchored verdict is one on the record, event by event, for any number of calls,
\* anchors and damaged rows (verify.py:99-181).
THEOREM AnchoredVerdictsSound == VerifySpec => []AnchoredVerdictSound
<1>1. ASSUME AuditInv, Verified, reader.valid, reader.mode = "anchored_suffix"
      PROVE  BodiesOf(reader.rows)
               = SubSeq(reader.head.hash, reader.anchor.seq + 1, reader.head.seq)
  <2> DEFINE p == reader.anchor.hash
             b == BodiesOf(reader.rows)
             n == reader.head.seq
  <2>1. reader.anchor # NoAnchor /\ reader.head.hash = p \o b /\ Len(reader.rows) = n - reader.anchor.seq
    BY <1>1, SuffixHistory
  <2>2. p \in Seq(Body) /\ n \in Nat /\ Len(p) = reader.anchor.seq /\ reader.anchor.seq \in Nat
    BY <1>1, <2>1, ReadLengths
  <2>3. b \in Seq(Body) /\ Len(b) = Len(reader.rows)
    BY <1>1, ReaderFields, BodiesType DEF AuditInv, ReaderInv, ReaderOK
  <2> HIDE DEF p, b, n
  <2>4. n = Len(p) + Len(b)
    BY <2>1, <2>2, <2>3
  <2>5. SubSeq(p \o b, Len(p) + 1, n) = b
    BY <2>2, <2>3, <2>4, SuffixOfConcat
  <2>6. QED
    BY <2>1, <2>2, <2>5 DEF b, n
<1>2. AuditInv => AnchoredVerdictSound
  BY <1>1 DEF AnchoredVerdictSound
<1>3. QED
  BY <1>2, AuditInvariant, PTL

LEMMA WholeHistory ==
  ASSUME NEW rows \in Seq(Rows), GenesisChain(rows)
  PROVE  LastOf(rows).hash = BodiesOf(rows)
<1>1. << >> \in Hash /\ rows[1].prev = << >>
  BY EmptySeq DEF GenesisChain, StartsAtGenesis, GENESIS_HASH, Hash
<1>2. LastOf(rows).hash = << >> \o BodiesOf(rows)
  BY <1>1, ChainedHistory DEF GenesisChain
<1>3. BodiesOf(rows) \in Seq(Body)
  BY BodiesType
<1>4. QED
  BY <1>2, <1>3, ConcatEmptySeq

\* A full verification that the checkpoint confirms is one of the whole record
\* (verify.py:65-96).
THEOREM FullVerdictsSound == VerifySpec => []FullVerdictSound
<1>1. AuditInv => FullVerdictSound
  BY ReaderFields, WholeHistory
     DEF AuditInv, ReaderInv, ReaderOK, VerdictOf, FullVerdictSound, Verified
<1>2. QED
  BY <1>1, AuditInvariant, PTL

\* A bundle that abx_verify accepts against an anchored hash holds the record up to that anchor
\* (evidence.py:60-98, abx_verify.py:102-194).
THEOREM EvidenceIsSound == VerifySpec => []EvidenceSound
<1>1. ASSUME NEW rows \in Seq(Rows), NEW footer, NEW anchor, NEW trusted,
             verify_file(rows, footer, anchor, trusted)
      PROVE  BodiesOf(rows) = trusted
  <2>1. /\ rows # << >> /\ LastOf(rows).hash = trusted /\ Len(rows) \in Nat
        /\ \A i \in 1 .. Len(rows) :
             /\ rows[i].prev = IF i = 1 THEN GENESIS_HASH ELSE rows[i - 1].hash
             /\ SelfConsistent(rows[i])
    BY <1>1, LenProperties DEF verify_file, Recomputes
  <2>2. 1 \in 1 .. Len(rows)
    BY <2>1, EmptySeq
  <2>3. GenesisChain(rows)
    BY <2>1, <2>2 DEF GenesisChain, verify_chain, StartsAtGenesis
  <2>4. QED
    BY <2>1, <2>3, WholeHistory
<1>2. AuditInv => EvidenceSound
  <2>1. AuditInv => reader.rows \in Seq(Rows)
    BY ReaderFields DEF AuditInv, ReaderInv, ReaderOK
  <2>2. QED
    BY <1>1, <2>1 DEF EvidenceSound
<1>3. QED
  BY <1>2, AuditInvariant, PTL

-----------------------------------------------------------------------------
(* An intact log. *)

\* A row's prev_hash is the history before it.
LEMMA PrevIsHistory ==
  ASSUME NEW H \in Seq(Body), NEW x \in Rows, SelfConsistent(x),
         x.hash = SubSeq(H, 1, x.seq), x.seq <= Len(H)
  PROVE  0 < x.seq /\ x.prev = SubSeq(H, 1, x.seq - 1)
<1>1. /\ x.seq \in Nat /\ x.prev \in Seq(Body) /\ x.body \in Body /\ Len(H) \in Nat
      /\ x.hash = Append(x.prev, x.body)
  BY LenProperties DEF Rows, Hash, SelfConsistent, compute_event_hash
<1>2. x.seq # 0
  <2>1. x.hash # << >>
    BY <1>1, AppendProperties
  <2>2. SubSeq(H, 1, 0) = << >>
    BY SubSeqEmpty
  <2>3. QED
    BY <2>1, <2>2
<1>3. x.seq \in 1 .. Len(H)
  BY <1>1, <1>2
<1>4. Append(SubSeq(H, 1, x.seq - 1), H[x.seq]) = SubSeq(H, 1, x.seq)
  BY <1>3, OneMore
<1>5. SubSeq(H, 1, x.seq - 1) \in Seq(Body) /\ H[x.seq] \in Body
  <2>1. 1 \in Int /\ x.seq - 1 \in Int /\ \A i \in 1 .. x.seq - 1 : H[i] \in Body
    BY <1>1, <1>3, ElementOfSeq
  <2>2. QED
    BY <1>3, <2>1, SubSeqProperties, ElementOfSeq
<1>6. x.prev = SubSeq(H, 1, x.seq - 1)
  <2> DEFINE p == SubSeq(H, 1, x.seq - 1)
             q == x.prev
             e == H[x.seq]
             f == x.body
  <2>1. /\ p \in Seq(Body) /\ q \in Seq(Body) /\ e \in Body /\ f \in Body
        /\ Append(q, f) = Append(p, e)
    BY <1>1, <1>4, <1>5
  <2> HIDE DEF p, q, e, f
  <2>2. q = p
    BY <2>1, AppendInjective
  <2>3. QED
    BY <2>2 DEF p, q
<1>7. QED
  BY <1>1, <1>2, <1>6

\* Each row carries the hash of the history that it is part of.
OnHistory(rows, H) == \A x \in rows : SelfConsistent(x) /\ x.hash = SubSeq(H, 1, x.seq)

\* Rows of one history, one for every number of a range, pass verify_chain.
LEMMA ExactChain ==
  ASSUME NEW H \in Seq(Body), NEW X \in SUBSET Rows,
         NEW lo \in Nat, NEW hi \in Int, 0 < lo, hi >= lo - 1, hi <= Len(H),
         Numbered(X, lo, hi), OnHistory(X, H),
         NEW s \in ScanOf(X)
  PROVE  /\ s \in Seq(X) /\ Len(s) = hi - lo + 1
         /\ \A i \in 1 .. Len(s) : s[i].seq = lo + i - 1
         /\ verify_chain(s)
         /\ s # << >> => /\ s[1].prev = SubSeq(H, 1, lo - 1)
                         /\ LastOf(s).hash = SubSeq(H, 1, hi) /\ LastOf(s).seq = hi
<1>1. /\ s \in Seq(X) /\ Len(s) = hi - lo + 1 /\ Len(s) \in Nat
      /\ \A i \in 1 .. Len(s) : s[i].seq = lo + i - 1
  <2>1. /\ s \in Seq(X) /\ Len(s) = hi - lo + 1
        /\ \A i \in 1 .. Len(s) : s[i].seq = lo + i - 1
    BY ScanExact
  <2>2. QED
    BY <2>1, LenProperties
<1>2. \A i \in 1 .. Len(s) :
        /\ s[i] \in X /\ s[i] \in Rows /\ SelfConsistent(s[i])
        /\ s[i].hash = SubSeq(H, 1, s[i].seq) /\ s[i].seq \in lo .. hi
  BY <1>1, ElementOfSeq DEF Numbered, OnHistory
<1>3. \A i \in 1 .. Len(s) : s[i].prev = SubSeq(H, 1, s[i].seq - 1)
  <2> TAKE i \in 1 .. Len(s)
  <2>1. s[i].seq <= Len(H)
    BY <1>2, LenProperties
  <2>2. QED
    BY <1>2, <2>1, PrevIsHistory
<1>4. \A i \in 2 .. Len(s) : s[i].prev = s[i - 1].hash
  <2> TAKE i \in 2 .. Len(s)
  <2>1. i \in 1 .. Len(s) /\ i - 1 \in 1 .. Len(s)
    BY <1>1
  <2>2. s[i].seq - 1 = s[i - 1].seq
    BY <1>1, <2>1
  <2>3. s[i].prev = SubSeq(H, 1, s[i].seq - 1) /\ s[i - 1].hash = SubSeq(H, 1, s[i - 1].seq)
    BY <1>2, <1>3, <2>1
  <2>4. QED
    BY <2>2, <2>3
<1>5. verify_chain(s)
  BY <1>2, <1>4 DEF verify_chain
<1>6. ASSUME s # << >>
      PROVE  /\ s[1].prev = SubSeq(H, 1, lo - 1)
             /\ LastOf(s).hash = SubSeq(H, 1, hi) /\ LastOf(s).seq = hi
  <2>1. 1 \in 1 .. Len(s) /\ Len(s) \in 1 .. Len(s)
    BY <1>1, <1>6, EmptySeq
  <2>2. s[1].seq = lo /\ s[Len(s)].seq = hi
    <3>1. s[1].seq = lo + 1 - 1 /\ s[Len(s)].seq = lo + Len(s) - 1
      BY <1>1, <2>1
    <3>2. QED
      BY <1>1, <3>1
  <2>3. QED
    BY <1>2, <1>3, <2>1, <2>2 DEF LastOf
<1>7. QED
  BY <1>1, <1>5, <1>6

\* A committed row of an intact log is where the record has it.
LEMMA CommittedRow ==
  ASSUME AuditInv, damage = 0, NEW row \in CommittedRows
  PROVE  /\ row \in Rows /\ row \in log /\ SelfConsistent(row)
         /\ row.seq \in 1 .. head.seq /\ row.hash = SubSeq(head.hash, 1, row.seq)
         /\ row.prev = SubSeq(head.hash, 1, row.seq - 1)
<1>1. row \in log /\ row \in Rows /\ SelfConsistent(row)
  BY DEF CommittedRows, AuditInv, IntactInv, HeadInv, TypeOK
<1>2. row.seq <= head.seq /\ row.hash = SubSeq(head.hash, 1, row.seq)
  BY DEF AuditInv, IntactInv, NoFork
<1>3. head.hash \in Seq(Body) /\ Len(head.hash) = head.seq /\ head.seq \in Nat /\ row.seq \in Nat
  BY <1>1 DEF AuditInv, HeadInv, TypeOK, HeadLength, ChainHeads, Hash, Rows
<1>4. 0 < row.seq /\ row.prev = SubSeq(head.hash, 1, row.seq - 1)
  BY <1>1, <1>2, <1>3, PrevIsHistory
<1>5. QED
  BY <1>1, <1>2, <1>3, <1>4

\* In an intact log without orphans the rows up to the head are the committed ones.
LEMMA RowsUpToHead ==
  ASSUME AuditInv, damage = 0, Orphans = {}, NEW row \in log, row.seq <= head.seq
  PROVE  row \in CommittedRows
<1> SUFFICES ASSUME row.ins \notin commits PROVE FALSE
  BY DEF CommittedRows
<1>1. PICK r \in Requests : pc[r] = "inserted" /\ Sub(r) = row.ins
  BY DEF Orphans
<1>2. row \in ChainRows(txn[r].head, txn[r].bodies, Sub(r))
  BY <1>1 DEF AuditInv, IntactInv, RowsLanded
<1>3. head.seq < row.seq
  BY <1>1, <1>2, NewRows DEF AuditInv, Holding
<1>4. head.seq \in Nat /\ row.seq \in Nat
  BY DEF AuditInv, HeadInv, TypeOK, ChainHeads, Rows
<1>5. QED
  BY <1>3, <1>4

\* A query of a part of the record returns it.
LEMMA RangeExact ==
  ASSUME AuditInv, damage = 0, Orphans = {},
         NEW lo \in Nat, NEW hi \in Int, 0 < lo, hi >= lo - 1, hi <= head.seq,
         NEW s \in ScanOf(RowsBetween(lo, hi))
  PROVE  /\ s \in Seq(CommittedRows) /\ Len(s) = hi - lo + 1
         /\ \A i \in 1 .. Len(s) : s[i].seq = lo + i - 1
         /\ verify_chain(s)
         /\ s # << >> => /\ s[1].prev = SubSeq(head.hash, 1, lo - 1)
                         /\ LastOf(s).hash = SubSeq(head.hash, 1, hi) /\ LastOf(s).seq = hi
<1> DEFINE X == RowsBetween(lo, hi)
           H == head.hash
<1>1. H \in Seq(Body) /\ Len(H) = head.seq /\ head.seq \in Nat
  BY DEF AuditInv, HeadInv, TypeOK, HeadLength, ChainHeads, Hash
<1>2. \A x \in X : x \in log /\ x.seq \in lo .. hi /\ x.seq <= head.seq
  BY <1>1 DEF RowsBetween
<1>3. X \subseteq CommittedRows
  BY <1>2, RowsUpToHead
<1>4. X \in SUBSET Rows /\ OnHistory(X, H)
  BY <1>3, CommittedRow DEF OnHistory
<1>5. \A n \in lo .. hi : \E x \in X : x.seq = n
  <2> TAKE n \in lo .. hi
  <2>1. n \in 1 .. head.seq
    BY <1>1
  <2>2. PICK row \in CommittedRows : row.seq = n
    BY <2>1 DEF AuditInv, IntactInv, HistoryInLog
  <2>3. row \in X
    BY <2>2, CommittedRow DEF RowsBetween
  <2>4. QED
    BY <2>2, <2>3
<1>6. Numbered(X, lo, hi)
  BY <1>2, <1>3, <1>5 DEF Numbered, AuditInv, IntactInv, NoFork
<1> HIDE DEF X, H
<1>7. s \in ScanOf(X) /\ hi <= Len(H)
  BY <1>1 DEF X
<1>8. /\ s \in Seq(X) /\ Len(s) = hi - lo + 1
      /\ \A i \in 1 .. Len(s) : s[i].seq = lo + i - 1
      /\ verify_chain(s)
      /\ s # << >> => /\ s[1].prev = SubSeq(H, 1, lo - 1)
                      /\ LastOf(s).hash = SubSeq(H, 1, hi) /\ LastOf(s).seq = hi
  BY <1>1, <1>4, <1>6, <1>7, ExactChain
<1>9. s \in Seq(CommittedRows)
  BY <1>3, <1>8, SeqMonotonic
<1>10. QED
  BY <1>8, <1>9 DEF H

\* With a batch in flight the log is the record and that batch.
LEMMA WholeLogExact ==
  ASSUME AuditInv, damage = 0, Orphans = {}, NEW s \in ScanOf(log)
  PROVE  verify_chain(s) /\ StartsAtGenesis(s)
<1>1. /\ head \in ChainHeads /\ head.hash \in Seq(Body) /\ Len(head.hash) = head.seq
      /\ head.seq \in Nat /\ log \in SUBSET Rows
  BY DEF AuditInv, HeadInv, TypeOK, HeadLength, ChainHeads, Hash
<1>2. ASSUME NEW H \in Seq(Body), Numbered(log, 1, Len(H)), OnHistory(log, H)
      PROVE  verify_chain(s) /\ StartsAtGenesis(s)
  <2> DEFINE hi == Len(H)
             lo == 1
  <2>1. hi \in Int /\ 0 < lo /\ hi >= lo - 1 /\ hi <= Len(H) /\ lo \in Nat /\ lo - 1 = 0
    BY LenProperties
  <2>2. Numbered(log, lo, hi)
    BY <1>2
  <2> HIDE DEF hi, lo
  <2>3. verify_chain(s) /\ (s # << >> => s[1].prev = SubSeq(H, 1, lo - 1))
    BY <1>1, <1>2, <2>1, <2>2, ExactChain
  <2>4. SubSeq(H, 1, 0) = << >>
    BY SubSeqEmpty
  <2>5. QED
    BY <2>1, <2>3, <2>4 DEF StartsAtGenesis, GENESIS_HASH
<1>3. Numbered(CommittedRows, 1, head.seq) /\ OnHistory(CommittedRows, head.hash)
  <2>1. \A row \in CommittedRows : row.seq \in 1 .. head.seq
    BY CommittedRow
  <2>2. \A n \in 1 .. head.seq : \E row \in CommittedRows : row.seq = n
    BY DEF AuditInv, IntactInv, HistoryInLog
  <2>3. \A x, y \in CommittedRows : x.seq = y.seq => x = y
    BY DEF AuditInv, IntactInv, NoFork
  <2>4. OnHistory(CommittedRows, head.hash)
    BY CommittedRow DEF OnHistory
  <2>5. QED
    BY <2>1, <2>2, <2>3, <2>4 DEF Numbered
<1>4. CASE \A r \in Requests : pc[r] # "inserted"
  <2>1. log = CommittedRows
    BY <1>4 DEF Orphans, CommittedRows
  <2>2. QED
    BY <1>1, <1>2, <1>3, <2>1
<1>5. ASSUME NEW r \in Requests, pc[r] = "inserted"
      PROVE  verify_chain(s) /\ StartsAtGenesis(s)
  <2> DEFINE h == txn[r].head
             b == txn[r].bodies
             ins == Sub(r)
             new == ChainRows(h, b, ins)
             H == head.hash \o b
  <2>1. /\ h = head /\ b \in Seq(Body) /\ {row \in log : row.ins = ins} = new
        /\ \A q \in Requests : pc[q] = "inserted" => q = r
    BY <1>5, OneHolder
       DEF AuditInv, HeadInv, IntactInv, TypeOK, Txns, SnapshotCurrent, Holding, RowsLanded
  <2>2. log = CommittedRows \cup new
    BY <1>5, <2>1 DEF Orphans, CommittedRows
  <2>3. \A row \in new : SelfConsistent(row)
    BY <1>5, NewRows DEF AuditInv, Holding
  <2>0. ins \in Submissions
    BY DEF AuditInv, HeadInv, TypeOK, Sub, Submissions
  <2> HIDE DEF h, b, ins
  <2>4. /\ H \in Seq(Body) /\ Len(H) = head.seq + Len(b) /\ Len(b) \in Nat
    BY <1>1, <2>1, ConcatProperties, LenProperties
  <2>5. /\ \A row \in new :
             /\ row.ins = ins
             /\ row.seq \in head.seq + 1 .. head.seq + Len(b)
             /\ row.hash = SubSeq(H, 1, row.seq)
             /\ row.body = b[row.seq - head.seq]
        /\ \A n \in head.seq + 1 .. head.seq + Len(b) : \E row \in new : row.seq = n
        /\ \A x, y \in new : x.seq = y.seq => x = y
    <3>1. h \in ChainHeads /\ b \in Seq(Body) /\ Len(h.hash) = h.seq /\ ins \in Submissions
      BY <1>1, <2>0, <2>1
    <3>2. /\ \A row \in new :
               /\ row.ins = ins
               /\ row.seq \in h.seq + 1 .. h.seq + Len(b)
               /\ row.hash = SubSeq(h.hash \o b, 1, row.seq)
               /\ row.body = b[row.seq - h.seq]
          /\ \A n \in h.seq + 1 .. h.seq + Len(b) : \E row \in new : row.seq = n
          /\ \A x, y \in new : x.seq = y.seq => x = y
      BY ONLY <3>1, ChainRowsOnHead
    <3> HIDE DEF new
    <3>3. QED
      BY <2>1, <3>2
  <2>6. \A row \in CommittedRows : row.hash = SubSeq(H, 1, row.seq)
    <3> TAKE row \in CommittedRows
    <3>1. row.seq \in 0 .. Len(head.hash) /\ row.hash = SubSeq(head.hash, 1, row.seq)
      BY <1>1, CommittedRow
    <3>2. QED
      BY <1>1, <2>1, <3>1, PrefixOfConcat
  <2> HIDE DEF new, H
  <2>7. OnHistory(log, H)
    BY <1>3, <2>2, <2>3, <2>5, <2>6 DEF OnHistory
  <2>8. Numbered(log, 1, Len(H))
    <3>1. \A x \in log : x.seq \in 1 .. Len(H)
      BY <1>1, <1>3, <2>2, <2>4, <2>5 DEF Numbered
    <3>2. \A n \in 1 .. Len(H) : \E x \in log : x.seq = n
      BY <1>1, <1>3, <2>2, <2>4, <2>5 DEF Numbered
    <3>3. ASSUME NEW x \in log, NEW y \in log, x.seq = y.seq
          PROVE  x = y
      <4>1. \A row \in CommittedRows : row.seq <= head.seq
        BY <1>1, <1>3 DEF Numbered
      <4>2. \A row \in new : row.seq > head.seq
        BY <1>1, <2>4, <2>5
      <4>3. (x \in new) <=> (y \in new)
        <5>1. x.seq \in Nat /\ head.seq \in Nat
          BY <1>1 DEF Rows
        <5>2. QED
          BY <2>2, <3>3, <4>1, <4>2, <5>1
      <4>4. QED
        BY <1>3, <2>2, <2>5, <3>3, <4>3 DEF Numbered
    <3>4. QED
      BY <3>1, <3>2, <3>3 DEF Numbered
  <2>9. QED
    BY <1>2, <2>4, <2>7, <2>8
<1>6. QED
  BY <1>4, <1>5

\* What a transaction that was rolled back has left stays in the log.
LEMMA OrphansStay ==
  ASSUME LogInv, [Next]_vars
  PROVE  log \subseteq log' /\ commits \subseteq commits' /\ (Orphans # {} => Orphans' # {})
<1>0. pc \in [Requests -> Phases] /\ try \in [Requests -> Nat]
  BY DEF LogInv, HeadInv, TypeOK
<1>1. CASE QuietStep
  <2>1. log' = log /\ commits' = commits
    BY <1>1, QuietStepFrame
  <2>2. \A q \in Requests : pc'[q] = "inserted" => pc[q] = "inserted" /\ Sub(q)' = Sub(q)
    BY <1>1, QuietStepCalls DEF Sub, LogInv, HeadInv
  <2>3. Orphans \subseteq Orphans'
    BY <2>1, <2>2 DEF Orphans
  <2>4. QED
    BY <2>1, <2>3
<1>2. ASSUME NEW r \in Requests, InsertRows(r)
      PROVE  log \subseteq log' /\ commits \subseteq commits' /\ (Orphans # {} => Orphans' # {})
  <2>1. /\ pc[r] = "stored" /\ pc' = [pc EXCEPT ![r] = "inserted"] /\ try' = try
        /\ commits' = commits /\ log \subseteq log'
    BY <1>2 DEF InsertRows, Goto
  <2>2. \A row \in log : row.ins # Sub(r)
    BY <2>1 DEF LogInv, SubmissionsFresh
  <2>3. \A q \in Requests : Sub(q)' = Sub(q) /\ (q # r => pc'[q] = pc[q])
    BY <1>0, <2>1 DEF Sub
  <2>4. Orphans \subseteq Orphans'
    BY <2>1, <2>2, <2>3 DEF Orphans
  <2>5. QED
    BY <2>1, <2>4
<1>3. ASSUME NEW r \in Requests, Commit(r)
      PROVE  log \subseteq log' /\ commits \subseteq commits' /\ (Orphans # {} => Orphans' # {})
  <2>1. /\ pc[r] = "inserted" /\ pc' = [pc EXCEPT ![r] = "done"] /\ try' = try
        /\ commits' = commits \cup {Sub(r)} /\ log' = log
    BY <1>3 DEF Commit, Goto
  <2>2. \A q \in Requests : Sub(q)' = Sub(q) /\ (pc'[q] = "inserted" => pc[q] = "inserted")
    BY <1>0, <2>1 DEF Sub
  <2>3. Orphans \subseteq Orphans'
    BY <2>1, <2>2 DEF Orphans
  <2>4. QED
    BY <2>1, <2>3
<1>4. QED
  BY <1>1, <1>2, <1>3, StepCases

-----------------------------------------------------------------------------
(* What an intact log without orphans answers. *)

\* The row under an anchor bears it out.
LEMMA CheckpointExact ==
  ASSUME AuditInv, damage = 0, Orphans = {}, reader.anchor # NoAnchor
  PROVE  FALSE \notin CheckpointMatches
<1> DEFINE a == reader.anchor
           found == {row \in log : row.seq = a.seq}
<1>1. /\ Past(a) /\ a.seq \in Nat /\ 0 < a.seq /\ a.seq <= head.seq /\ head.seq \in Nat
      /\ a.hash = SubSeq(head.hash, 1, a.seq)
  BY ReadLengths, PastType DEF Past, AuditInv
<1>2. PICK row \in CommittedRows : row.seq = a.seq
  BY <1>1 DEF AuditInv, IntactInv, HistoryInLog
<1>3. row \in found
  BY <1>2, CommittedRow
<1>4. \A x \in found : x.hash = a.hash
  <2> TAKE x \in found
  <2>1. x \in CommittedRows
    BY <1>1, RowsUpToHead
  <2>2. QED
    BY <1>1, <2>1, CommittedRow
<1>5. found # {}
  BY <1>3
<1>6. CheckpointMatches = {x.hash = a.hash : x \in found}
  BY <1>5, Zenon DEF CheckpointMatches
<1> HIDE DEF found, a
<1>7. QED
  BY <1>4, <1>6

\* The suffix that a reader is after.
LEMMA SuffixRead ==
  ASSUME AuditInv, reader.anchor # NoAnchor, reader.anchor.seq <= reader.head.seq
  PROVE  /\ Past(reader.anchor) /\ Past(reader.head) /\ reader.head.seq <= head.seq
         /\ reader.anchor.seq + 1 \in Nat /\ reader.head.seq \in Int /\ 0 < reader.anchor.seq + 1
         /\ reader.head.seq >= reader.anchor.seq + 1 - 1
<1>1. reader.head # EmptyHead
  BY ReadLengths DEF EmptyHead
<1>2. Past(reader.head)
  BY <1>1 DEF AuditInv, ReaderInv, ReaderOK
<1>3. QED
  BY <1>2, ReadLengths DEF Past

\* What lies between an anchor and a head is found valid.
LEMMA SuffixExact ==
  ASSUME AuditInv, damage = 0, Orphans = {},
         reader.anchor # NoAnchor, reader.anchor.seq <= reader.head.seq,
         NEW rows \in SuffixOf(reader.anchor, reader.head)
  PROVE  SuffixValid(rows, reader.anchor, reader.head)
<1> DEFINE anchor == reader.anchor
           to == reader.head
           lo == anchor.seq + 1
           hi == to.seq
<1>0. Past(anchor) /\ Past(to)
  BY SuffixRead
<1>1. /\ hi <= head.seq
      /\ lo \in Nat /\ hi \in Int /\ 0 < lo /\ hi >= lo - 1
  BY SuffixRead, ReadLengths
<1>2. /\ anchor.hash = SubSeq(head.hash, 1, anchor.seq) /\ to.hash = SubSeq(head.hash, 1, to.seq)
      /\ anchor.seq \in Nat
  BY <1>0, ReadLengths DEF Past
<1>3. rows \in ScanOf(RowsBetween(lo, hi))
  BY DEF SuffixOf
<1>4. lo - 1 = anchor.seq
  BY <1>2
<1> HIDE DEF lo, hi
<1>5. /\ rows \in Seq(CommittedRows) /\ Len(rows) = hi - lo + 1
      /\ verify_chain(rows)
      /\ rows # << >> => /\ rows[1].prev = SubSeq(head.hash, 1, lo - 1)
                         /\ LastOf(rows).hash = SubSeq(head.hash, 1, hi) /\ LastOf(rows).seq = hi
  BY <1>1, <1>3, RangeExact
<1>6. rows = << >> => to.seq = anchor.seq
  <2>1. rows = << >> => Len(rows) = 0
    BY EmptySeq
  <2>2. QED
    BY <1>1, <1>2, <1>5, <2>1 DEF lo, hi
<1>7. to.seq > anchor.seq => rows # << >> /\ LastOf(rows).seq = to.seq
  BY <1>2, <1>5, <1>6 DEF hi
<1>8. CASE rows = << >>
  BY <1>2, <1>5, <1>6, <1>7, <1>8 DEF SuffixValid
<1>9. CASE rows # << >>
  <2>1. rows[1].prev = anchor.hash /\ LastOf(rows).hash = to.hash
    BY <1>2, <1>4, <1>5, <1>9 DEF hi
  <2>2. QED
    BY <1>5, <1>7, <1>9, <2>1 DEF SuffixValid
<1>10. QED
  BY <1>8, <1>9

\* Where a suffix is found valid there is no row beside the committed ones.
LEMMA SuffixCommitted ==
  ASSUME AuditInv, damage = 0,
         reader.anchor # NoAnchor, reader.anchor.seq <= reader.head.seq,
         NEW rows \in SuffixOf(reader.anchor, reader.head),
         SuffixValid(rows, reader.anchor, reader.head)
  PROVE  \A i \in 1 .. Len(rows) : rows[i].ins \in commits
<1> DEFINE lo == reader.anchor.seq + 1
           hi == reader.head.seq
           X == RowsBetween(lo, hi)
           C == {x \in X : x \in CommittedRows}
<1>1. /\ hi <= head.seq /\ head.seq \in Nat /\ reader.anchor.seq \in Nat
      /\ lo \in Nat /\ hi \in Int /\ 0 < lo /\ hi >= lo - 1
  BY SuffixRead, ReadLengths DEF AuditInv, HeadInv, TypeOK, ChainHeads
<1>2. rows \in Seq(X) /\ rows \in Seq(Rows) /\ Len(rows) = Cardinality(X)
  <2>1. X \in SUBSET log
    BY DEF RowsBetween
  <2>2. rows \in ScanOf(X)
    BY DEF SuffixOf
  <2> HIDE DEF X
  <2>3. QED
    BY <2>1, <2>2, ScanRows DEF AuditInv
<1>3. Len(rows) = hi - lo + 1
  <2>1. Len(rows) = reader.head.seq - reader.anchor.seq
    BY <1>2, ReadLengths, SuffixEvents
  <2>2. QED
    BY <1>1, <2>1
<1>4. IsFiniteSet(X)
  BY FS_Subset DEF AuditInv, LogInv, RowsBetween
<1>5. Numbered(C, lo, hi)
  <2>1. \A x \in C : x.seq \in lo .. hi
    BY DEF RowsBetween
  <2>2. \A n \in lo .. hi : \E x \in C : x.seq = n
    <3> TAKE n \in lo .. hi
    <3>1. n \in 1 .. head.seq
      BY <1>1
    <3>2. PICK row \in CommittedRows : row.seq = n
      BY <3>1 DEF AuditInv, IntactInv, HistoryInLog
    <3>3. row \in C
      BY <3>2, CommittedRow DEF RowsBetween
    <3>4. QED
      BY <3>2, <3>3
  <2>3. \A x, y \in C : x.seq = y.seq => x = y
    BY DEF AuditInv, IntactInv, NoFork
  <2>4. QED
    BY <2>1, <2>2, <2>3 DEF Numbered
<1> HIDE DEF lo, hi, X
<1>6. C = X
  <2>1. C \subseteq X
    OBVIOUS
  <2> HIDE DEF C
  <2>2. Cardinality(C) = Cardinality(X)
    BY <1>1, <1>2, <1>3, <1>5, RowsNumbered
  <2>3. QED
    BY <1>4, <2>1, <2>2, FS_Subset
<1>7. \A i \in 1 .. Len(rows) : rows[i] \in X
  BY <1>2, ElementOfSeq
<1>8. QED
  BY <1>6, <1>7 DEF CommittedRows

\* The last row of a scan is the one under the head, if it has its number.
LEMMA LastExact ==
  ASSUME AuditInv, damage = 0, Orphans = {}, NEW row \in log, row.seq = head.seq
  PROVE  row.hash = head.hash
<1>1. /\ head.hash \in Seq(Body) /\ Len(head.hash) = head.seq /\ head.seq \in Nat
  BY DEF AuditInv, HeadInv, TypeOK, HeadLength, ChainHeads, Hash
<1>2. row \in CommittedRows
  BY <1>1, RowsUpToHead
<1>3. row.hash = SubSeq(head.hash, 1, Len(head.hash))
  BY <1>1, <1>2, CommittedRow
<1>4. QED
  BY <1>1, <1>3, SubSeqFull

\* A page holds the rows that come next.
LEMMA PageExact ==
  ASSUME AuditInv, damage = 0, Orphans = {}, NEW sent \in Nat,
         reader.anchor # NoAnchor, sent < reader.anchor.seq,
         NEW page \in NextPage(sent + 1, reader.anchor.seq)
  PROVE  page # << >> /\ \A i \in 1 .. Len(page) : page[i].seq = sent + i
<1> DEFINE lo == sent + 1
           hi == reader.anchor.seq
<1>1. /\ hi \in Nat /\ hi <= head.seq /\ lo \in Nat /\ 0 < lo /\ hi \in Int /\ hi >= lo - 1 /\ lo <= hi
  BY ReadLengths DEF Past
<1>2. PICK rows \in ScanOf(RowsBetween(lo, hi)) : page = Limited(rows)
  BY DEF NextPage
<1> HIDE DEF lo, hi
<1>3. /\ rows \in Seq(CommittedRows) /\ Len(rows) = hi - lo + 1
      /\ \A i \in 1 .. Len(rows) : rows[i].seq = lo + i - 1
  BY <1>1, <1>2, RangeExact
<1>4. /\ page \in Seq(CommittedRows)
      /\ Len(page) = IF Len(rows) < PageSize THEN Len(rows) ELSE PageSize
      /\ \A i \in 1 .. Len(page) : i \in 1 .. Len(rows) /\ page[i] = rows[i]
  BY <1>2, <1>3, PageOf
<1>5. Len(page) > 0
  BY <1>1, <1>3, <1>4, VerifyAssumption
<1>6. page # << >>
  BY <1>4, <1>5, EmptySeq
<1>7. \A i \in 1 .. Len(page) : page[i].seq = sent + i
  <2> TAKE i \in 1 .. Len(page)
  <2>1. page[i].seq = lo + i - 1
    BY <1>3, <1>4
  <2>2. i \in Nat
    BY <1>4, LenProperties
  <2>3. QED
    BY <2>1, <2>2 DEF lo
<1>8. QED
  BY <1>6, <1>7

-----------------------------------------------------------------------------
(* Alarms: what a reader of an intact log may find. *)

\* The rows an export has sent.
SentOK(d) ==
  d.op = "export" /\ d.at \in {"stream", "done"} =>
    /\ Len(d.rows) <= d.anchor.seq
    /\ \A i \in 1 .. Len(d.rows) : d.rows[i] \in log /\ d.rows[i].seq = i
    /\ d.at = "done" => Len(d.rows) = d.anchor.seq

\* What a negative verdict means, and a positive one.
AlarmOK(d) ==
  d.op = "verify" /\ d.at = "done" =>
    /\ ~d.valid => Orphans # {} \/ (d.mode = "anchor_failed" /\ d.anchor.seq > d.head.seq)
    /\ d.valid /\ d.mode = "anchored_suffix" =>
         \A i \in 1 .. Len(d.rows) : d.rows[i].ins \in commits

IntactRead(d) ==
  /\ d.at \in {"idle", "head", "anchor"} => d.rows = << >>
  /\ d.at = "scanned" => \A i \in 1 .. Len(d.rows) : d.rows[i] \in log
  /\ d.at = "broken" => Orphans # {}
  /\ SentOK(d)
  /\ AlarmOK(d)

\* As long as no row is damaged, what a reader has found is so.
IntactReadInv == damage = 0 => IntactRead(reader)

LEMMA VerdictRead ==
  ASSUME ReaderInv, NEW mode \in Modes, NEW valid \in BOOLEAN, NEW matches \in BOOLEAN,
         NEW rows \in Seq(Rows), reader.op = "verify",
         Verdict(mode, valid, matches, rows),
         damage = 0 /\ ~valid =>
           Orphans # {} \/ (mode = "anchor_failed" /\ reader.anchor.seq > reader.head.seq),
         damage = 0 /\ valid /\ mode = "anchored_suffix" =>
           \A i \in 1 .. Len(rows) : rows[i].ins \in commits
  PROVE  \E new : reader' = new /\ (damage = 0 => IntactRead(new))
<1> DEFINE new == [reader EXCEPT !.at = "done", !.mode = mode, !.valid = valid, !.matches = matches,
                                 !.rows = rows]
<1>1. reader' = new
  BY Zenon DEF Verdict, Reading
<1>2. reader \in ReadersType
  BY DEF ReaderInv, ReaderOK
<1>3. /\ new.op = reader.op /\ new.at = "done" /\ new.head = reader.head /\ new.anchor = reader.anchor
      /\ new.rows = rows /\ new.mode = mode /\ new.valid = valid
  BY <1>2, Zenon DEF ReadersType
<1> HIDE DEF new
<1>4. SentOK(new)
  BY <1>3 DEF SentOK
<1>5. damage = 0 => AlarmOK(new)
  BY <1>3 DEF AlarmOK
<1>6. damage = 0 => IntactRead(new)
  BY <1>3, <1>4, <1>5 DEF IntactRead
<1>7. QED
  BY <1>1, <1>6

LEMMA MoveRead ==
  ASSUME ReaderInv, IntactReadInv, NEW at \in ReaderPhases, Reading([reader EXCEPT !.at = at]),
         at \in {"suffix", "stream", "refused", "broken", "done"},
         at = "stream" => reader.at = "anchor",
         at = "broken" /\ damage = 0 => Orphans # {},
         at = "done" => /\ reader.op = "export" /\ reader.at = "stream" /\ reader.anchor # NoAnchor
                        /\ Len(reader.rows) >= reader.anchor.seq
  PROVE  \E new : reader' = new /\ (damage = 0 => IntactRead(new))
<1> DEFINE new == [reader EXCEPT !.at = at]
<1>1. reader' = new
  BY Zenon DEF Reading
<1>2. /\ reader \in ReadersType /\ reader.rows \in Seq(Rows)
      /\ reader.at \in {"anchor", "stream"} => reader.anchor \in ChainHeads
  BY ReaderFields DEF ReaderInv, ReaderOK, ReadSoFar
<1>3. /\ new.op = reader.op /\ new.at = at /\ new.anchor = reader.anchor /\ new.rows = reader.rows
  BY <1>2, Zenon DEF ReadersType
<1> HIDE DEF new
<1>4. damage = 0 => SentOK(new)
  <2> SUFFICES ASSUME damage = 0, reader.op = "export", at \in {"stream", "done"}
               PROVE  /\ Len(reader.rows) <= reader.anchor.seq
                      /\ \A i \in 1 .. Len(reader.rows) :
                           reader.rows[i] \in log /\ reader.rows[i].seq = i
                      /\ at = "done" => Len(reader.rows) = reader.anchor.seq
    BY <1>3 DEF SentOK
  <2>1. CASE at = "stream"
    <3>1. reader.rows = << >> /\ reader.anchor.seq \in Nat
      BY <1>2, <2>1 DEF IntactReadInv, IntactRead, ChainHeads
    <3>2. Len(reader.rows) = 0
      BY <3>1, EmptySeq
    <3>3. QED
      BY <2>1, <3>1, <3>2
  <2>2. CASE at = "done"
    <3>1. /\ Len(reader.rows) <= reader.anchor.seq
          /\ \A i \in 1 .. Len(reader.rows) : reader.rows[i] \in log /\ reader.rows[i].seq = i
      BY <2>2 DEF IntactReadInv, IntactRead, SentOK
    <3>2. reader.anchor.seq \in Nat /\ Len(reader.rows) \in Nat
      BY <1>2, <2>2, LenProperties DEF ChainHeads
    <3>3. QED
      BY <2>2, <3>1, <3>2
  <2>3. QED
    BY <2>1, <2>2
<1>5. AlarmOK(new)
  BY <1>3 DEF AlarmOK
<1>6. damage = 0 => IntactRead(new)
  BY <1>3, <1>4, <1>5 DEF IntactRead
<1>7. QED
  BY <1>1, <1>6

LEMMA VerifyIntact ==
  ASSUME AuditInv, IntactReadInv,
         RejectAnchor \/ AcceptAnchor \/ VerifySuffix \/ VerifyAll \/ CompareHead
  PROVE  \E new : reader' = new /\ (damage = 0 => IntactRead(new))
<1>0. /\ ReaderInv /\ reader \in ReadersType /\ ReadSoFar(reader)
      /\ reader.head \in ChainHeads /\ reader.anchor \in ChainHeads \cup {NoAnchor}
      /\ reader.rows \in Seq(Rows)
  BY ReaderFields DEF AuditInv, ReaderInv, ReaderOK
<1>1. CASE RejectAnchor
  <2>1. << >> \in Seq(Rows) /\ "anchor_failed" \in Modes /\ FALSE \in BOOLEAN
    BY EmptySeq DEF Modes
  <2>2. /\ reader.op = "verify" /\ reader.at = "anchor"
        /\ AnchorAhead \/ FALSE \in CheckpointMatches
        /\ Verdict("anchor_failed", FALSE, FALSE, << >>)
    BY <1>1 DEF RejectAnchor
  <2>3. damage = 0 => Orphans # {} \/ reader.anchor.seq > reader.head.seq
    BY <1>0, <2>2, CheckpointExact DEF ReadSoFar, AnchorAhead
  <2>4. QED
    BY <1>0, <2>1, <2>2, <2>3, VerdictRead
<1>2. CASE AcceptAnchor
  <2>1. Reading([reader EXCEPT !.at = "suffix"])
    BY <1>2 DEF AcceptAnchor
  <2>2. "suffix" \in ReaderPhases
    BY DEF ReaderPhases
  <2>3. QED
    BY <1>0, <2>1, <2>2, MoveRead
<1>3. CASE VerifySuffix
  <2>1. reader.op = "verify" /\ reader.at = "suffix"
    BY <1>3 DEF VerifySuffix
  <2>2. PICK rows \in SuffixOf(reader.anchor, reader.head) :
          LET valid == SuffixValid(rows, reader.anchor, reader.head)
          IN  Verdict("anchored_suffix", valid, valid, rows)
    BY <1>3, Zenon DEF VerifySuffix
  <2> DEFINE valid == SuffixValid(rows, reader.anchor, reader.head)
  <2>3. Verdict("anchored_suffix", valid, valid, rows)
    BY <2>2, Zenon
  <2>4. rows \in Seq(Rows)
    <3>1. RowsBetween(reader.anchor.seq + 1, reader.head.seq) \in SUBSET log
      BY DEF RowsBetween
    <3>2. QED
      BY <3>1, ScanRows DEF SuffixOf, AuditInv
  <2>5. valid \in BOOLEAN /\ "anchored_suffix" \in Modes
    BY DEF SuffixValid, Modes
  <2>6. reader.anchor # NoAnchor /\ reader.anchor.seq <= reader.head.seq
    BY <1>0, <2>1 DEF ReadSoFar
  <2>7. damage = 0 /\ ~valid => Orphans # {}
    BY <2>6, SuffixExact
  <2>8. damage = 0 /\ valid => \A i \in 1 .. Len(rows) : rows[i].ins \in commits
    BY <2>6, SuffixCommitted
  <2> HIDE DEF valid
  <2>9. QED
    BY <1>0, <2>1, <2>3, <2>4, <2>5, <2>7, <2>8, VerdictRead
<1>4. CASE VerifyAll
  <2>1. reader.op = "verify"
    BY <1>4 DEF VerifyAll
  <2>2. PICK rows \in ScanOf(log) :
          IF verify_chain(rows) /\ StartsAtGenesis(rows) /\ rows # << >>
          THEN Reading([reader EXCEPT !.at = "scanned", !.rows = rows])
          ELSE Verdict("full", verify_chain(rows) /\ StartsAtGenesis(rows), FALSE, rows)
    BY <1>4, Zenon DEF VerifyAll
  <2>3. rows \in Seq(Rows) /\ rows \in Seq(log)
    BY ScanRows DEF AuditInv
  <2>4. CASE verify_chain(rows) /\ StartsAtGenesis(rows) /\ rows # << >>
    <3> DEFINE new == [reader EXCEPT !.at = "scanned", !.rows = rows]
    <3>1. reader' = new
      BY <2>2, <2>4, Zenon DEF Reading
    <3>2. new.op = reader.op /\ new.at = "scanned" /\ new.rows = rows
      BY <1>0, Zenon DEF ReadersType
    <3> HIDE DEF new
    <3>3. \A i \in 1 .. Len(rows) : rows[i] \in log
      BY <2>3, ElementOfSeq
    <3>4. SentOK(new) /\ AlarmOK(new)
      BY <3>2 DEF SentOK, AlarmOK
    <3>5. IntactRead(new)
      BY <3>2, <3>3, <3>4 DEF IntactRead
    <3>6. QED
      BY <3>1, <3>5
  <2>5. CASE ~(verify_chain(rows) /\ StartsAtGenesis(rows) /\ rows # << >>)
    <3> DEFINE valid == verify_chain(rows) /\ StartsAtGenesis(rows)
    <3>1. Verdict("full", valid, FALSE, rows)
      BY <2>2, <2>5, Zenon
    <3>2. valid \in BOOLEAN /\ "full" \in Modes /\ FALSE \in BOOLEAN /\ "full" # "anchored_suffix"
      BY DEF Modes, verify_chain, StartsAtGenesis
    <3>3. damage = 0 /\ ~valid => Orphans # {}
      BY WholeLogExact
    <3> HIDE DEF valid
    <3>4. QED
      BY <1>0, <2>1, <2>3, <3>1, <3>2, <3>3, VerdictRead
  <2>6. QED
    BY <2>4, <2>5
<1>5. CASE CompareHead
  <2> DEFINE last    == LastOf(reader.rows)
             reached == head.seq > 0 /\ head.seq = last.seq
             matches == reached /\ last.hash = head.hash
             valid   == reached => matches
             new == [reader EXCEPT !.at = "done", !.mode = "full", !.head = head,
                                   !.valid = valid, !.matches = matches]
  <2>1. reader.at = "scanned" /\ reader' = new
    BY <1>5, Zenon DEF CompareHead, Reading
  <2>2. damage = 0 /\ ~valid => Orphans # {}
    <3> SUFFICES ASSUME damage = 0, Orphans = {}, head.seq = last.seq PROVE last.hash = head.hash
      OBVIOUS
    <3>1. reader.rows # << >> /\ \A i \in 1 .. Len(reader.rows) : reader.rows[i] \in log
      BY <1>0, <2>1 DEF ReadSoFar, GenesisChain, IntactReadInv, IntactRead
    <3>2. Len(reader.rows) \in 1 .. Len(reader.rows)
      BY <1>0, <3>1, EmptySeq, LenProperties
    <3>3. last \in log
      BY <3>1, <3>2 DEF LastOf
    <3> HIDE DEF last
    <3>4. QED
      BY <3>3, LastExact
  <2>3. /\ new.op = reader.op /\ new.at = "done" /\ new.mode = "full" /\ new.valid = valid
    <3> HIDE DEF valid, matches
    <3>1. QED
      BY <1>0, Zenon DEF ReadersType
  <2>4. reader.op = "verify"
    BY <1>0, <2>1 DEF ReadSoFar
  <2> HIDE DEF new, valid
  <2>5. damage = 0 => SentOK(new) /\ AlarmOK(new)
    BY <2>2, <2>3, <2>4 DEF SentOK, AlarmOK
  <2>6. damage = 0 => IntactRead(new)
    BY <2>3, <2>5 DEF IntactRead
  <2>7. QED
    BY <2>1, <2>6
<1>6. QED
  BY <1>1, <1>2, <1>3, <1>4, <1>5

LEMMA HeadsIntact ==
  ASSUME AuditInv, IntactReadInv,
         (\E op \in {"verify", "export"} : ReadHead(op)) \/ ReadAnchors
  PROVE  \E new : reader' = new /\ (damage = 0 => IntactRead(new))
<1>0. reader \in ReadersType
  BY DEF AuditInv, ReaderInv, ReaderOK
<1>1. ASSUME NEW op \in {"verify", "export"}, ReadHead(op)
      PROVE  \E new : reader' = new /\ (damage = 0 => IntactRead(new))
  <2> DEFINE at == IF head.seq >= 1 THEN "head" ELSE IF op = "verify" THEN "full" ELSE "refused"
             new == [reader EXCEPT !.op = op, !.head = head, !.at = at]
  <2>1. reader.at = "idle" /\ reader' = new
    BY <1>1, Zenon DEF ReadHead, Reading
  <2>2. at \in {"head", "full", "refused"}
    OBVIOUS
  <2> HIDE DEF at
  <2>3. new.at = at /\ new.rows = reader.rows
    BY <1>0, Zenon DEF ReadersType
  <2> HIDE DEF new
  <2>4. damage = 0 => IntactRead(new)
    BY <2>1, <2>2, <2>3 DEF IntactReadInv, IntactRead, SentOK, AlarmOK
  <2>5. QED
    BY <2>1, <2>4
<1>2. CASE ReadAnchors
  <2>1. PICK found \in {LatestAnchor, NoAnchor} :
          Reading([reader EXCEPT
                     !.anchor = found,
                     !.at = IF found # NoAnchor THEN "anchor"
                            ELSE IF reader.op = "verify" THEN "full" ELSE "refused"])
    BY <1>2, Zenon DEF ReadAnchors
  <2> DEFINE at == IF found # NoAnchor THEN "anchor"
                   ELSE IF reader.op = "verify" THEN "full" ELSE "refused"
             new == [reader EXCEPT !.anchor = found, !.at = at]
  <2>2. reader.at = "head" /\ reader' = new
    BY <1>2, <2>1, Zenon DEF ReadAnchors, Reading
  <2>3. at \in {"anchor", "full", "refused"}
    OBVIOUS
  <2> HIDE DEF at
  <2>4. new.at = at /\ new.rows = reader.rows
    BY <1>0, Zenon DEF ReadersType
  <2> HIDE DEF new
  <2>5. damage = 0 => IntactRead(new)
    BY <2>2, <2>3, <2>4 DEF IntactReadInv, IntactRead, SentOK, AlarmOK
  <2>6. QED
    BY <2>2, <2>5
<1>3. QED
  BY <1>1, <1>2

LEMMA ExportIntact ==
  ASSUME AuditInv, IntactReadInv,
         RefuseExport \/ StartExport \/ StreamPage \/ FinishExport
  PROVE  \E new : reader' = new /\ (damage = 0 => IntactRead(new))
<1>0. /\ ReaderInv /\ reader \in ReadersType /\ ReadSoFar(reader) /\ reader.rows \in Seq(Rows)
      /\ Len(reader.rows) \in Nat
  BY ReaderFields, LenProperties DEF AuditInv, ReaderInv, ReaderOK
<1> USE DEF ReaderPhases
<1>1. CASE RefuseExport
  <2>1. Reading([reader EXCEPT !.at = "refused"])
    BY <1>1 DEF RefuseExport
  <2>2. QED
    BY <1>0, <2>1, MoveRead
<1>2. CASE StartExport
  <2>1. reader.at = "anchor" /\ Reading([reader EXCEPT !.at = "stream"])
    BY <1>2 DEF StartExport
  <2>2. QED
    BY <1>0, <2>1, MoveRead
<1>3. CASE StreamPage
  <2> DEFINE sent == Len(reader.rows)
  <2>1. /\ reader.at = "stream" /\ reader.anchor # NoAnchor /\ reader.op = "export"
        /\ sent < reader.anchor.seq
    BY <1>0, <1>3 DEF StreamPage, ReadSoFar
  <2>2. PICK page \in NextPage(sent + 1, reader.anchor.seq) :
          IF page # << >> /\ \A i \in 1 .. Len(page) : page[i].seq = sent + i
          THEN Reading([reader EXCEPT !.rows = @ \o page])
          ELSE Reading([reader EXCEPT !.at = "broken"])
    BY <1>3, Zenon DEF StreamPage
  <2>3. CASE ~(page # << >> /\ \A i \in 1 .. Len(page) : page[i].seq = sent + i)
    <3>1. damage = 0 => Orphans # {}
      BY <1>0, <2>1, <2>3, PageExact
    <3>2. Reading([reader EXCEPT !.at = "broken"])
      BY <2>2, <2>3, Zenon
    <3>3. QED
      BY <1>0, <3>1, <3>2, MoveRead
  <2>4. CASE page # << >> /\ \A i \in 1 .. Len(page) : page[i].seq = sent + i
    <3> DEFINE X == RowsBetween(sent + 1, reader.anchor.seq)
               rows == reader.rows \o page
               new == [reader EXCEPT !.rows = rows]
    <3>1. reader' = new
      BY <2>2, <2>4, Zenon DEF Reading
    <3>2. page \in Seq(X) /\ page \in Seq(Rows)
      <4>1. X \in SUBSET log
        BY DEF RowsBetween
      <4>2. PICK all \in ScanOf(X) : page = Limited(all)
        BY DEF NextPage
      <4> HIDE DEF X
      <4>3. QED
        BY <4>1, <4>2, ScanRows, PageOf DEF AuditInv
    <3>3. /\ rows \in Seq(Rows) /\ Len(rows) = sent + Len(page) /\ Len(page) \in Nat
          /\ \A i \in 1 .. sent + Len(page) :
               rows[i] = IF i <= sent THEN reader.rows[i] ELSE page[i - sent]
      BY <1>0, <3>2, ConcatProperties, LenProperties
    <3>4. \A i \in 1 .. Len(page) : page[i] \in log /\ page[i].seq <= reader.anchor.seq
      <4>1. \A i \in 1 .. Len(page) : page[i] \in X
        BY <3>2, ElementOfSeq
      <4>2. QED
        BY <4>1 DEF RowsBetween
    <3> HIDE DEF rows, X
    <3>5. new.op = reader.op /\ new.at = reader.at /\ new.anchor = reader.anchor /\ new.rows = rows
      BY <1>0, Zenon DEF ReadersType
    <3> HIDE DEF new
    <3>6. damage = 0 => SentOK(new)
      <4> SUFFICES ASSUME damage = 0
                   PROVE  /\ Len(rows) <= reader.anchor.seq
                          /\ \A i \in 1 .. Len(rows) : rows[i] \in log /\ rows[i].seq = i
        BY <2>1, <3>5 DEF SentOK
      <4>1. \A i \in 1 .. sent : reader.rows[i] \in log /\ reader.rows[i].seq = i
        BY <2>1 DEF IntactReadInv, IntactRead, SentOK
      <4>2. Len(page) \in 1 .. Len(page)
        BY <2>4, <3>2, <3>3, EmptySeq
      <4>3. page[Len(page)].seq = sent + Len(page)
        BY <2>4, <4>2
      <4>4. Len(rows) <= reader.anchor.seq
        BY <3>3, <3>4, <4>2, <4>3
      <4>5. ASSUME NEW i \in 1 .. Len(rows)
            PROVE  rows[i] \in log /\ rows[i].seq = i
        <5>1. CASE i <= sent
          BY <1>0, <3>3, <4>1, <5>1
        <5>2. CASE ~(i <= sent)
          <6>1. i - sent \in 1 .. Len(page) /\ sent + (i - sent) = i /\ i \in 1 .. sent + Len(page)
            BY <1>0, <3>3, <5>2
          <6>2. rows[i] = page[i - sent]
            BY <3>3, <5>2, <6>1
          <6>3. page[i - sent].seq = sent + (i - sent)
            BY <2>4, <6>1
          <6>4. QED
            BY <3>4, <6>1, <6>2, <6>3
        <5>3. QED
          BY <5>1, <5>2
      <4>6. QED
        BY <4>4, <4>5
    <3>7. AlarmOK(new)
      BY <2>1, <3>5 DEF AlarmOK
    <3>8. damage = 0 => IntactRead(new)
      BY <2>1, <3>5, <3>6, <3>7 DEF IntactRead
    <3>9. QED
      BY <3>1, <3>8
  <2>5. QED
    BY <2>3, <2>4
<1>4. CASE FinishExport
  <2>1. /\ reader.at = "stream" /\ Reading([reader EXCEPT !.at = "done"])
        /\ Len(reader.rows) >= reader.anchor.seq
    BY <1>4 DEF FinishExport
  <2>2. reader.anchor # NoAnchor /\ reader.op = "export"
    BY <1>0, <2>1 DEF ReadSoFar
  <2>3. QED
    BY <1>0, <2>1, <2>2, MoveRead
<1>5. QED
  BY <1>1, <1>2, <1>3, <1>4

LEMMA IntactReadStep ==
  ASSUME AuditInv, IntactReadInv, [VerifyNext]_allVars
  PROVE  IntactReadInv'
<1>1. CASE Reads
  <2>1. UNCHANGED vars /\ damage' = damage
    BY <1>1, ReadsFrame
  <2>2. PICK new : reader' = new /\ (damage = 0 => IntactRead(new))
    BY <1>1, VerifyIntact, HeadsIntact, ExportIntact DEF Reads
  <2>3. QED
    BY <2>1, <2>2 DEF IntactReadInv, IntactRead, SentOK, AlarmOK, Orphans, Sub, vars
<1>2. ASSUME reader' = reader, damage' = damage, [Next]_vars
      PROVE  IntactReadInv'
  <2>1. log \subseteq log' /\ commits \subseteq commits' /\ (Orphans # {} => Orphans' # {})
    BY <1>2, OrphansStay DEF AuditInv
  <2>2. QED
    BY <1>2, <2>1 DEF IntactReadInv, IntactRead, SentOK, AlarmOK
<1>3. ASSUME NEW row \in log, DamageRow(row)
      PROVE  IntactReadInv'
  <2>1. damage' = damage + 1 /\ damage \in Nat
    BY <1>3 DEF DamageRow, AuditInv, IntactInv
  <2>2. QED
    BY <2>1 DEF IntactReadInv
<1>4. [VerifyNext]_allVars =>
        Reads \/ (reader' = reader /\ damage' = damage /\ [Next]_vars) \/ \E row \in log : DamageRow(row)
  BY DEF VerifyNext, Reads, Collect, AnchorRead, AnchorPut, AnchorFail, allVars, readerVars
<1>5. QED
  BY <1>1, <1>2, <1>3, <1>4

LEMMA IntactReadInvariant == VerifySpec => [](AuditInv /\ IntactReadInv)
<1>1. VerifyInit => IntactReadInv
  BY DEF VerifyInit, NewReader, IntactReadInv, IntactRead, SentOK, AlarmOK
<1>2. IntactReadInv /\ AuditInv /\ [VerifyNext]_allVars => IntactReadInv'
  BY IntactReadStep
<1>3. QED
  BY <1>1, <1>2, AuditInvariant, PTL DEF VerifySpec

\* With an intact log a positive anchored verdict is one on committed rows only: what a
\* rolled-back transaction left is never taken for the record (verify.py:99-181).
THEOREM AnchoredRowsAreCommitted == VerifySpec => []AnchoredRowsCommitted
<1>1. IntactReadInv => AnchoredRowsCommitted
  BY DEF IntactReadInv, IntactRead, AlarmOK, AnchoredRowsCommitted, Verified
<1>2. QED
  BY <1>1, IntactReadInvariant, PTL

\* With an intact log and no orphans a verification fails only on an anchor younger than the
\* head it has read, whatever is inserted, committed and anchored between its reads
\* (verify.py:65-181).
THEOREM AlarmsAreTrue == VerifySpec => []NoFalseAlarm
<1>1. IntactReadInv => NoFalseAlarm
  BY DEF IntactReadInv, IntactRead, AlarmOK, NoFalseAlarm, Verified, AnchorAhead
<1>2. QED
  BY <1>1, IntactReadInvariant, PTL

\* With an intact log and no orphans an export that has begun is not broken off, and what it
\* has delivered at its end is a bundle that abx_verify accepts
\* (evidence.py:60-98, abx_verify.py:102-194).
THEOREM ExportsAreComplete == VerifySpec => []EvidenceComplete
<1>1. ASSUME AuditInv, IntactReadInv, reader.op = "export", damage = 0, Orphans = {},
             reader.at = "done"
      PROVE  verify_file(reader.rows, TRUE, reader.anchor, reader.anchor.hash)
  <2> DEFINE rows == reader.rows
             a == reader.anchor
             H == head.hash
  <2>1. rows \in Seq(Rows) /\ Len(rows) \in Nat /\ a # NoAnchor
    BY <1>1, ReaderFields, LenProperties DEF AuditInv, ReaderInv, ReaderOK, ReadSoFar
  <2>2. /\ a.seq \in Nat /\ 0 < a.seq /\ a.seq <= head.seq /\ head.seq \in Nat
        /\ a.hash = SubSeq(H, 1, a.seq)
    BY <1>1, <2>1, ReadLengths, PastType DEF Past, AuditInv
  <2>3. /\ Len(rows) = a.seq
        /\ \A i \in 1 .. Len(rows) : rows[i] \in log /\ rows[i].seq = i
    BY <1>1 DEF IntactReadInv, IntactRead, SentOK
  <2>4. \A i \in 1 .. Len(rows) : rows[i] \in CommittedRows
    <3> TAKE i \in 1 .. Len(rows)
    <3>1. rows[i] \in log /\ rows[i].seq <= head.seq
      BY <2>2, <2>3
    <3>2. QED
      BY <1>1, <3>1, RowsUpToHead
  <2>5. \A i \in 1 .. Len(rows) :
          /\ SelfConsistent(rows[i]) /\ rows[i].hash = SubSeq(H, 1, i)
          /\ rows[i].prev = SubSeq(H, 1, i - 1)
    BY <1>1, <2>3, <2>4, CommittedRow
  <2>6. \A i \in 1 .. Len(rows) : rows[i].prev = IF i = 1 THEN GENESIS_HASH ELSE rows[i - 1].hash
    <3> TAKE i \in 1 .. Len(rows)
    <3>1. CASE i = 1
      <4>1. SubSeq(H, 1, 0) = << >> /\ i - 1 = 0
        BY <3>1, SubSeqEmpty
      <4>2. QED
        BY <2>5, <3>1, <4>1 DEF GENESIS_HASH
    <3>2. CASE i # 1
      <4>1. i - 1 \in 1 .. Len(rows)
        BY <2>1, <3>2
      <4>2. QED
        BY <2>5, <3>2, <4>1
    <3>3. QED
      BY <3>1, <3>2
  <2>7. rows # << >> /\ LastOf(rows).hash = a.hash
    <3>1. Len(rows) \in 1 .. Len(rows)
      BY <2>1, <2>2, <2>3
    <3>2. rows[Len(rows)].hash = a.hash
      BY <2>2, <2>3, <2>5, <3>1
    <3>3. QED
      BY <2>2, <2>3, <3>2, EmptySeq DEF LastOf
  <2> HIDE DEF rows, a, H
  <2>8. verify_file(rows, TRUE, a, a.hash)
    BY <2>3, <2>5, <2>6, <2>7 DEF verify_file, Recomputes
  <2>9. QED
    BY <2>8 DEF rows, a
<1>2. AuditInv /\ IntactReadInv => EvidenceComplete
  BY <1>1 DEF EvidenceComplete, IntactReadInv, IntactRead
<1>3. QED
  BY <1>2, IntactReadInvariant, PTL
===============================================================================
