----------------------------- MODULE IngestProofs -----------------------------
(***************************************************************************)
(* Proofs about the collector, for every set of calls, batches, tokens and *)
(* plans.                                                                  *)
(***************************************************************************)
EXTENDS Ingest, SequenceTheorems, FunctionTheorems, FiniteSetTheorems, TLAPS

-----------------------------------------------------------------------------
(* What the operators of Chain return, for every set of event ids, every head and *)
(* every batch. *)

\* What a sequence starts with does not change when it is extended.
LEMMA PrefixOfConcat ==
  ASSUME NEW S, NEW s \in Seq(S), NEW t \in Seq(S), NEW n \in 0 .. Len(s)
  PROVE  SubSeq(s \o t, 1, n) = SubSeq(s, 1, n)
<1>1. CASE n = 0
  BY <1>1, SubSeqEmpty
<1>2. CASE n # 0
  <2>1. n \in 1 .. Len(s) /\ 1 \in 1 .. Len(s)
    BY <1>2, LenProperties
  <2> QED
    BY <2>1, SubSeqOfConcat1
<1> QED
  BY <1>1, <1>2

\* The hash of the i-th event of a batch is the history up to that event.
LEMMA HashIsHistory ==
  ASSUME NEW S, NEW s \in Seq(S), NEW b \in Seq(S), NEW i \in 1 .. Len(b)
  PROVE  Append(s \o SubSeq(b, 1, i - 1), b[i]) = SubSeq(s \o b, 1, Len(s) + i)
<1> DEFINE p == SubSeq(b, 1, i - 1)
           l == Append(s \o p, b[i])
           r == SubSeq(s \o b, 1, Len(s) + i)
<1>1. Len(s) \in Nat /\ Len(b) \in Nat /\ b[i] \in S
  BY LenProperties, ElementOfSeq
<1>2. p \in Seq(S) /\ Len(p) = i - 1 /\ \A k \in 1 .. i - 1 : p[k] = b[k]
  <2>1. \A k \in 1 .. i - 1 : b[k] \in S
    BY <1>1, ElementOfSeq
  <2>2. 1 \in Int /\ i - 1 \in Int
    BY <1>1
  <2> HIDE DEF p
  <2>3. /\ p \in Seq(S)
        /\ Len(p) = IF 1 <= i - 1 THEN (i - 1) - 1 + 1 ELSE 0
        /\ \A k \in 1 .. (i - 1) - 1 + 1 : p[k] = b[1 + k - 1]
    BY <2>1, <2>2, SubSeqProperties DEF p
  <2> QED
    BY <2>3, <1>1
<1> HIDE DEF p
<1>3. /\ s \o p \in Seq(S)
      /\ Len(s \o p) = Len(s) + Len(p)
      /\ \A k \in 1 .. Len(s) + Len(p) :
           (s \o p)[k] = IF k <= Len(s) THEN s[k] ELSE p[k - Len(s)]
  BY <1>2, ConcatProperties
<1>4. /\ l \in Seq(S)
      /\ Len(l) = Len(s \o p) + 1
      /\ \A k \in 1 .. Len(s \o p) : l[k] = (s \o p)[k]
      /\ l[Len(s \o p) + 1] = b[i]
  BY <1>1, <1>3, AppendProperties
<1>5. /\ s \o b \in Seq(S)
      /\ Len(s \o b) = Len(s) + Len(b)
      /\ \A k \in 1 .. Len(s) + Len(b) :
           (s \o b)[k] = IF k <= Len(s) THEN s[k] ELSE b[k - Len(s)]
  BY ConcatProperties
<1>6. \A k \in 1 .. Len(s) + i : (s \o b)[k] \in S
  BY <1>1, <1>5, ElementOfSeq
<1>7. /\ r \in Seq(S)
      /\ Len(r) = Len(s) + i
      /\ \A k \in 1 .. Len(s) + i : r[k] = (s \o b)[k]
  <2>1. 1 \in Int /\ Len(s) + i \in Int
    BY <1>1
  <2> HIDE DEF r
  <2>2. /\ r \in Seq(S)
        /\ Len(r) = IF 1 <= Len(s) + i THEN (Len(s) + i) - 1 + 1 ELSE 0
        /\ \A k \in 1 .. (Len(s) + i) - 1 + 1 : r[k] = (s \o b)[1 + k - 1]
    BY <2>1, <1>6, SubSeqProperties DEF r
  <2> QED
    BY <2>2, <1>1
<1> HIDE DEF l, r
<1>8. Len(l) = Len(r)
  BY <1>1, <1>2, <1>3, <1>4, <1>7
<1>9. ASSUME NEW k \in 1 .. Len(l) PROVE l[k] = r[k]
  <2>0. Len(l) = Len(s) + i /\ Len(s \o p) = Len(s) + (i - 1) /\ k \in 1 .. Len(s) + i
    BY <1>1, <1>2, <1>3, <1>4
  <2>1. CASE k <= Len(s)
    <3>1. k \in 1 .. Len(s \o p) /\ k \in 1 .. Len(s) + Len(p) /\ k \in 1 .. Len(s) + Len(b)
      BY <2>0, <2>1, <1>1, <1>2
    <3>2. l[k] = s[k]
      BY <2>1, <3>1, <1>3, <1>4
    <3>3. r[k] = s[k]
      BY <2>0, <2>1, <3>1, <1>5, <1>7
    <3> QED
      BY <3>2, <3>3
  <2>2. CASE k > Len(s) /\ k < Len(s) + i
    <3>1. k - Len(s) \in 1 .. i - 1
      BY <2>2, <1>1
    <3>2. l[k] = p[k - Len(s)]
      BY <2>2, <3>1, <1>1, <1>2, <1>3, <1>4
    <3>3. r[k] = b[k - Len(s)]
      BY <2>2, <3>1, <1>1, <1>5, <1>7
    <3> QED
      BY <3>1, <3>2, <3>3, <1>2
  <2>3. CASE k = Len(s) + i
    <3>1. k = Len(s \o p) + 1
      BY <2>0, <2>3, <1>1
    <3>2. l[k] = b[i]
      BY <3>1, <1>4
    <3>3. ~(k <= Len(s)) /\ k - Len(s) = i /\ k \in 1 .. Len(s) + Len(b)
      BY <2>3, <1>1
    <3>4. r[k] = b[i]
      BY <2>0, <3>3, <1>5, <1>7
    <3> QED
      BY <3>2, <3>4
  <2> QED
    BY <2>0, <2>1, <2>2, <2>3, <1>1
<1>10. l = r
  BY <1>4, <1>7, <1>8, <1>9, SeqEqual
<1> QED
  BY <1>10 DEF l, r, p

\* Chaining a batch gives a head again, and keeps its length and its sequence
\* number together.
LEMMA AdvanceHeadType ==
  ASSUME NEW h \in ChainHeads, NEW bodies \in Seq(Body)
  PROVE  /\ AdvanceHead(h, bodies) \in ChainHeads
         /\ Len(h.hash) = h.seq =>
              Len(AdvanceHead(h, bodies).hash) = AdvanceHead(h, bodies).seq
<1>1. h.hash \in Seq(Body) /\ h.seq \in Nat
  BY DEF ChainHeads, Hash
<1>2. /\ h.hash \o bodies \in Seq(Body)
      /\ Len(h.hash \o bodies) = Len(h.hash) + Len(bodies)
      /\ Len(bodies) \in Nat
  BY <1>1, ConcatProperties, LenProperties
<1> QED
  BY <1>1, <1>2 DEF AdvanceHead, ChainHeads, Hash

\* Every row of a batch has the type of a row of the event log.
LEMMA ChainRowsType ==
  ASSUME NEW Ins, NEW ins \in Ins, NEW h \in ChainHeads, NEW bodies \in Seq(Body)
  PROVE  ChainRows(h, bodies, ins) \subseteq
           [seq : Nat, prev : Hash, hash : Hash, body : Body, ins : Ins]
<1>1. h.hash \in Seq(Body) /\ h.seq \in Nat
  BY DEF ChainHeads, Hash
<1> SUFFICES ASSUME NEW i \in 1 .. Len(bodies)
             PROVE  [ seq  |-> h.seq + i,
                      prev |-> h.hash \o SubSeq(bodies, 1, i - 1),
                      body |-> bodies[i],
                      hash |-> compute_event_hash(h.hash \o SubSeq(bodies, 1, i - 1), bodies[i]),
                      ins  |-> ins ]
                    \in [seq : Nat, prev : Hash, hash : Hash, body : Body, ins : Ins]
  BY DEF ChainRows
<1>2. Len(bodies) \in Nat /\ bodies[i] \in Body
  BY LenProperties, ElementOfSeq
<1>3. SubSeq(bodies, 1, i - 1) \in Seq(Body)
  <2>1. \A k \in 1 .. i - 1 : bodies[k] \in Body
    BY <1>2, ElementOfSeq
  <2>2. 1 \in Int /\ i - 1 \in Int
    BY <1>2
  <2> QED
    BY <2>1, <2>2, SubSeqProperties
<1>4. h.hash \o SubSeq(bodies, 1, i - 1) \in Seq(Body)
  BY <1>1, <1>3, ConcatProperties
<1>5. compute_event_hash(h.hash \o SubSeq(bodies, 1, i - 1), bodies[i]) \in Seq(Body)
  BY <1>2, <1>4, AppendProperties DEF compute_event_hash
<1>6. h.seq + i \in Nat
  BY <1>1, <1>2
<1> QED
  BY <1>2, <1>4, <1>5, <1>6 DEF Hash

\* The rows of a batch carry the sequence numbers after the head, one each, and
\* the hash of each is the part of the new history it commits to.
LEMMA ChainRowsOnHead ==
  ASSUME NEW ins, NEW h \in ChainHeads, NEW bodies \in Seq(Body), Len(h.hash) = h.seq
  PROVE  /\ \A row \in ChainRows(h, bodies, ins) :
              /\ row.ins = ins
              /\ row.seq \in h.seq + 1 .. h.seq + Len(bodies)
              /\ row.hash = SubSeq(h.hash \o bodies, 1, row.seq)
              /\ row.body = bodies[row.seq - h.seq]
         /\ \A n \in h.seq + 1 .. h.seq + Len(bodies) :
              \E row \in ChainRows(h, bodies, ins) : row.seq = n
         /\ \A row1, row2 \in ChainRows(h, bodies, ins) :
              row1.seq = row2.seq => row1 = row2
<1> DEFINE Row(i) ==
      [ seq  |-> h.seq + i,
        prev |-> h.hash \o SubSeq(bodies, 1, i - 1),
        body |-> bodies[i],
        hash |-> compute_event_hash(h.hash \o SubSeq(bodies, 1, i - 1), bodies[i]),
        ins  |-> ins ]
<1>1. h.hash \in Seq(Body) /\ h.seq \in Nat /\ Len(bodies) \in Nat
  BY LenProperties DEF ChainHeads, Hash
<1>2. ChainRows(h, bodies, ins) = {Row(i) : i \in 1 .. Len(bodies)}
  BY DEF ChainRows
<1>3. ASSUME NEW i \in 1 .. Len(bodies)
      PROVE  /\ Row(i).seq = h.seq + i
             /\ Row(i).ins = ins
             /\ Row(i).body = bodies[i]
             /\ Row(i).hash = SubSeq(h.hash \o bodies, 1, h.seq + i)
  BY <1>1, HashIsHistory DEF compute_event_hash
<1> HIDE DEF Row
<1>4. ASSUME NEW row \in ChainRows(h, bodies, ins)
      PROVE  /\ row.ins = ins
             /\ row.seq \in h.seq + 1 .. h.seq + Len(bodies)
             /\ row.hash = SubSeq(h.hash \o bodies, 1, row.seq)
             /\ row.body = bodies[row.seq - h.seq]
  <2>1. PICK i \in 1 .. Len(bodies) : row = Row(i)
    BY <1>2
  <2>2. row.seq = h.seq + i
    BY <2>1, <1>3
  <2>3. i = row.seq - h.seq /\ row.seq \in h.seq + 1 .. h.seq + Len(bodies)
    BY <2>2, <1>1
  <2> QED
    BY <2>1, <2>2, <2>3, <1>3
<1>5. ASSUME NEW n \in h.seq + 1 .. h.seq + Len(bodies)
      PROVE  \E row \in ChainRows(h, bodies, ins) : row.seq = n
  <2>1. n - h.seq \in 1 .. Len(bodies) /\ h.seq + (n - h.seq) = n
    BY <1>1
  <2>2. Row(n - h.seq) \in ChainRows(h, bodies, ins)
    BY <2>1, <1>2
  <2> QED
    BY <2>1, <2>2, <1>3
<1>6. ASSUME NEW row1 \in ChainRows(h, bodies, ins),
             NEW row2 \in ChainRows(h, bodies, ins), row1.seq = row2.seq
      PROVE  row1 = row2
  <2>1. PICK i \in 1 .. Len(bodies) : row1 = Row(i)
    BY <1>2
  <2>2. PICK j \in 1 .. Len(bodies) : row2 = Row(j)
    BY <1>2
  <2>3. i = j
    BY <2>1, <2>2, <1>1, <1>3, <1>6
  <2> QED
    BY <2>1, <2>2, <2>3
<1> QED
  BY <1>4, <1>5, <1>6

\* Every row of a batch names the insert it came with and carries one of the
\* batch's bodies.
LEMMA ChainRowsIns ==
  ASSUME NEW ins, NEW h, NEW bodies, NEW row \in ChainRows(h, bodies, ins)
  PROVE  row.ins = ins /\ \E i \in 1 .. Len(bodies) : row.body = bodies[i]
<1>1. PICK i \in 1 .. Len(bodies) :
        row = [ seq  |-> h.seq + i,
                prev |-> h.hash \o SubSeq(bodies, 1, i - 1),
                body |-> bodies[i],
                hash |-> compute_event_hash(h.hash \o SubSeq(bodies, 1, i - 1), bodies[i]),
                ins  |-> ins ]
  BY DEF ChainRows
<1> QED
  BY <1>1

-----------------------------------------------------------------------------
(* What the operators of Ingest return. *)

LEMMA BatchType ==
  ASSUME NEW r \in Requests
  PROVE  /\ Batch[r] \in Seq(Events)
         /\ Len(Batch[r]) \in Nat
         /\ \A i \in 1 .. Len(Batch[r]) : Batch[r][i] \in Events
<1>1. Batch[r] \in Seq(Events)
  BY IngestAssumption
<1> QED
  BY <1>1, LenProperties, ElementOfSeq

\* Preparing a batch keeps its events, in their order, and captures a payload
\* only if the event carries one and capture is on.
LEMMA PreparedBodies ==
  ASSUME NEW r \in Requests, NEW on \in BOOLEAN, NEW slots
  PROVE  LET bodies == prepare_events(Batch[r], on, slots)
         IN  /\ bodies \in Seq(Body)
             /\ Len(bodies) = Len(Batch[r])
             /\ \A i \in 1 .. Len(Batch[r]) :
                  /\ bodies[i].id = Batch[r][i].id
                  /\ bodies[i].ref \in BOOLEAN
                  /\ bodies[i].ref => on /\ Batch[r][i].payload
<1> DEFINE body(i) == [id  |-> Batch[r][i].id,
                       ref |-> on /\ Batch[r][i].payload /\ PayloadsIn(Batch[r], i) <= slots]
<1>1. \A i \in 1 .. Len(Batch[r]) : body(i) \in Body
  BY BatchType DEF Events, Body
<1>2. Len(Batch[r]) \in Nat
  BY BatchType
<1>3. prepare_events(Batch[r], on, slots) = [i \in 1 .. Len(Batch[r]) |-> body(i)]
  BY DEF prepare_events
<1>4. [i \in 1 .. Len(Batch[r]) |-> body(i)] \in Seq(Body)
  <2> HIDE DEF body
  <2> QED
    BY <1>1, <1>2
<1>5. Len([i \in 1 .. Len(Batch[r]) |-> body(i)]) = Len(Batch[r])
  <2> HIDE DEF body
  <2> QED
    BY <1>1, <1>2
<1>6. \A i \in 1 .. Len(Batch[r]) :
        /\ body(i).id = Batch[r][i].id
        /\ body(i).ref \in BOOLEAN
        /\ body(i).ref => on /\ Batch[r][i].payload
  <2> TAKE i \in 1 .. Len(Batch[r])
  <2>1. body(i).ref \in BOOLEAN
    BY <1>1 DEF Body
  <2> QED
    BY <2>1
<1> HIDE DEF body
<1> QED
  BY <1>3, <1>4, <1>5, <1>6

\* Degrading a batch keeps its events and drops every payload reference.
LEMMA DegradedBodies ==
  ASSUME NEW bodies \in Seq(Body)
  PROVE  LET bare == WithoutPayloads(bodies)
         IN  /\ bare \in Seq(Body)
             /\ Len(bare) = Len(bodies)
             /\ \A i \in 1 .. Len(bodies) : bare[i].id = bodies[i].id /\ bare[i].ref = FALSE
<1> DEFINE body(i) == [id |-> bodies[i].id, ref |-> FALSE]
<1>1. Len(bodies) \in Nat /\ \A i \in 1 .. Len(bodies) : bodies[i] \in Body
  BY LenProperties, ElementOfSeq
<1>2. \A i \in 1 .. Len(bodies) : body(i) \in Body
  BY <1>1 DEF Body
<1>3. WithoutPayloads(bodies) = [i \in 1 .. Len(bodies) |-> body(i)]
  BY DEF WithoutPayloads
<1>4. /\ [i \in 1 .. Len(bodies) |-> body(i)] \in Seq(Body)
      /\ Len([i \in 1 .. Len(bodies) |-> body(i)]) = Len(bodies)
  <2> HIDE DEF body
  <2> QED
    BY <1>1, <1>2
<1> QED
  BY <1>1, <1>3, <1>4

LEMMA CountIsNat ==
  ASSUME NEW n \in Nat, NEW T \in SUBSET (1 .. n)
  PROVE  Cardinality(T) \in Nat
<1>1. IsFiniteSet(1 .. n)
  BY FS_Interval
<1>2. IsFiniteSet(T)
  BY <1>1, FS_Subset
<1> QED
  BY <1>2, FS_CardinalityType

\* The meters only ever grow by a count.
LEMMA CountsAreNat ==
  ASSUME NEW r \in Requests, NEW bodies \in Seq(Body)
  PROVE  CapturedCount(bodies) \in Nat /\ MeteredCount(Batch[r]) \in Nat
<1>1. CapturedCount(bodies) \in Nat
  <2>1. Len(bodies) \in Nat
    BY LenProperties
  <2> QED
    BY <2>1, CountIsNat DEF CapturedCount
<1>2. MeteredCount(Batch[r]) \in Nat
  BY BatchType, CountIsNat DEF MeteredCount
<1> QED
  BY <1>1, <1>2

LEMMA RefsAreIds ==
  ASSUME NEW bodies \in Seq(Body)
  PROVE  Refs(bodies) \subseteq EventIds
<1>1. \A i \in 1 .. Len(bodies) : bodies[i] \in Body
  BY ElementOfSeq
<1> QED
  BY <1>1 DEF Refs, Body

-----------------------------------------------------------------------------
(* The type invariant. *)

LEMMA InitType == Init => TypeOK
<1> SUFFICES ASSUME Init PROVE TypeOK
  OBVIOUS
<1>1. 1 \in Days
  BY IngestAssumption DEF Days
<1>2. EmptyHead \in ChainHeads
  BY EmptySeq DEF EmptyHead, ChainHeads, Hash, GENESIS_HASH
<1>3. NoTxn \in Txns
  BY <1>1, <1>2, EmptySeq DEF NoTxn, Txns
<1> QED
  BY <1>1, <1>2, <1>3 DEF Init, TypeOK, Phases

LEMMA StepType == TypeOK /\ [Next]_vars => TypeOK'
<1> SUFFICES ASSUME TypeOK, [Next]_vars PROVE TypeOK'
  OBVIOUS
<1> USE DEF TypeOK
<1>0. \A r \in Requests : Sub(r) \in Submissions
  BY DEF Sub, Submissions
<1>1. CASE UNCHANGED vars
  BY <1>1 DEF vars
<1>2. ASSUME NEW r \in Requests, NEW on \in BOOLEAN, UpdateSettings(r, on)
      PROVE  TypeOK'
  BY <1>2 DEF UpdateSettings, Goto, Phases, stores
<1>3. ASSUME NEW r \in Requests, Open(r) PROVE TypeOK'
  <2>1. [NoTxn EXCEPT !.day = CurrentDate] \in Txns
    BY EmptySeq DEF NoTxn, Txns, CurrentDate, EmptyHead, ChainHeads, Hash, GENESIS_HASH
  <2> QED
    BY <1>3, <2>1 DEF Open, Goto, Phases, stores, config
<1>4. ASSUME NEW r \in Requests, Prepare(r) PROVE TypeOK'
  <2>1. prepare_events(Batch[r], capture, Slots(r)) \in Seq(Body)
    BY PreparedBodies
  <2>2. txn' \in [Requests -> Txns]
    <3>1. txn[r] \in Txns
      OBVIOUS
    <3>2. txn' = [txn EXCEPT ![r] = [@ EXCEPT !.head = head,
                                          !.bodies = prepare_events(Batch[r], capture, Slots(r))]]
      BY <1>4 DEF Prepare
    <3> QED
      BY <2>1, <3>1, <3>2 DEF Txns
  <2> QED
    BY <1>4, <2>2 DEF Prepare, Goto, Phases, Holding, stores, config
<1>5. ASSUME NEW r \in Requests, SkipPayloads(r) PROVE TypeOK'
  BY <1>5 DEF SkipPayloads, Goto, Phases, Holding, stores, config
<1>6. ASSUME NEW r \in Requests, StorePayloads(r) PROVE TypeOK'
  <2>1. txn' \in [Requests -> Txns]
    BY <1>6 DEF StorePayloads, Txns
  <2> QED
    BY <1>0, <1>6, <2>1 DEF StorePayloads, Goto, Phases, Holding, config
<1>7. ASSUME NEW r \in Requests, StoreConflict(r) PROVE TypeOK'
  <2>1. NoTxn \in Txns
    BY IngestAssumption, EmptySeq
       DEF NoTxn, Txns, EmptyHead, ChainHeads, Hash, GENESIS_HASH, Days
  <2> QED
    BY <1>0, <1>7, <2>1 DEF StoreConflict, Goto, Phases, config
<1>8. ASSUME NEW r \in Requests, DegradePayloads(r) PROVE TypeOK'
  <2>1. WithoutPayloads(txn[r].bodies) \in Seq(Body)
    BY DegradedBodies DEF Txns
  <2>2. txn' \in [Requests -> Txns]
    BY <1>8, <2>1 DEF DegradePayloads, Txns
  <2> QED
    BY <1>0, <1>8, <2>2 DEF DegradePayloads, Goto, Phases, Holding, config
<1>9. ASSUME NEW r \in Requests, InsertRows(r) PROVE TypeOK'
  <2>1. txn[r].head \in ChainHeads /\ txn[r].bodies \in Seq(Body)
    BY DEF Txns
  <2>2. ChainRows(txn[r].head, txn[r].bodies, Sub(r)) \subseteq Rows
    BY <1>0, <2>1, ChainRowsType DEF Rows
  <2> QED
    BY <1>9, <2>2 DEF InsertRows, Goto, Phases, Holding, config
<1>10. ASSUME NEW r \in Requests, Commit(r) PROVE TypeOK'
  <2>1. txn[r].head \in ChainHeads /\ txn[r].bodies \in Seq(Body) /\ txn[r].day \in Days
    BY DEF Txns
  <2>2. head' \in ChainHeads
    BY <1>10, <2>1, AdvanceHeadType DEF Commit
  <2>3. Charge(r) \in Nat /\ MeteredCount(Batch[r]) \in Nat
    BY <2>1, CountsAreNat DEF Charge
  <2>4. metered' \in [Days -> Nat]
    BY <1>10, <2>1, <2>3 DEF Commit
  <2>5. usage' \in [Tokens \X Days -> Nat]
    <3>1. CASE Token[r] = NoToken
      BY <1>10, <3>1 DEF Commit
    <3>2. CASE Token[r] # NoToken
      <4>1. <<Token[r], ChargeDate(r)>> \in Tokens \X Days
        BY <2>1, <3>2, IngestAssumption DEF ChargeDate
      <4>2. usage' = [usage EXCEPT ![<<Token[r], ChargeDate(r)>>] = @ + Charge(r)]
        BY <1>10, <3>2 DEF Commit
      <4> QED
        BY <2>3, <4>1, <4>2
    <3> QED
      BY <3>1, <3>2
  <2>6. segments' \subseteq [ref : EventIds, obj : Submissions]
    <3>1. segments' = segments \cup
            {[ref |-> id, obj |-> Sub(r)] :
               id \in IF txn[r].stored THEN Refs(txn[r].bodies) ELSE {}}
      BY <1>10 DEF Commit
    <3> QED
      BY <1>0, <2>1, <3>1, RefsAreIds
  <2>7. NoTxn \in Txns
    BY IngestAssumption, EmptySeq
       DEF NoTxn, Txns, EmptyHead, ChainHeads, Hash, GENESIS_HASH, Days
  <2>8. /\ pc' \in [Requests -> Phases]
        /\ txn' \in [Requests -> Txns]
        /\ lock' \in Requests \cup {Free}
        /\ commits' \subseteq Submissions
    BY <1>0, <1>10, <2>7 DEF Commit, Goto, Phases
  <2> QED
    BY <1>10, <2>2, <2>4, <2>5, <2>6, <2>8 DEF Commit, config
<1>11. ASSUME NEW r \in Requests, Abort(r) PROVE TypeOK'
  <2>1. NoTxn \in Txns
    BY IngestAssumption, EmptySeq
       DEF NoTxn, Txns, EmptyHead, ChainHeads, Hash, GENESIS_HASH, Days
  <2> QED
    BY <1>11, <2>1 DEF Abort, Rollback, Goto, Phases, config, stores
<1>12. ASSUME NEW r \in Requests, Retry(r) PROVE TypeOK'
  BY <1>12 DEF Retry, Goto, Phases, config, stores
<1>13. ASSUME NEW cap \in Limits \cup {Unlimited}, SetPlan(cap) PROVE TypeOK'
  BY <1>13 DEF SetPlan, stores
<1>14. CASE NextDay
  BY <1>14, IngestAssumption DEF NextDay, Days, stores
<1> QED
  BY <1>1, <1>2, <1>3, <1>4, <1>5, <1>6, <1>7, <1>8, <1>9, <1>10, <1>11, <1>12,
     <1>13, <1>14 DEF Next, Run

\* Every variable keeps its type.
THEOREM TypeCorrect == Spec => []TypeOK
<1>1. Init => TypeOK
  BY InitType
<1>2. TypeOK /\ [Next]_vars => TypeOK'
  BY StepType
<1> QED
  BY <1>1, <1>2, PTL DEF Spec

-----------------------------------------------------------------------------
(***************************************************************************)
(* The inductive invariant of the chain.  NoFork and HistoryInLog are not  *)
(* inductive: whether a commit keeps them depends on what the call read    *)
(* when it took the row, on the rows it has inserted since, and on no      *)
(* submission ever being used twice.                                       *)
(***************************************************************************)

\* The chain sequence number counts the history.
HeadLength == Len(head.hash) = head.seq

\* While a call holds the row, the head it read is still the head.
SnapshotCurrent == \A r \in Requests : pc[r] \in Holding => txn[r].head = head

\* Before a commit the log holds exactly the rows the call computed.
RowsLanded ==
  \A r \in Requests : pc[r] = "inserted" =>
    {row \in log : row.ins = Sub(r)} = ChainRows(txn[r].head, txn[r].bodies, Sub(r))

\* A submission that has not inserted has left no rows, one that has not
\* committed is not among the commits, and none is of the future.
SubmissionsFresh ==
  /\ \A s \in commits : s.try <= try[s.req]
  /\ \A row \in log : row.ins.try <= try[row.ins.req]
  /\ \A r \in Requests :
       /\ pc[r] # "done" => Sub(r) \notin commits
       /\ pc[r] \notin {"inserted", "done", "failed"} => \A row \in log : row.ins # Sub(r)

\* The tenant's row is locked by exactly the call whose transaction has taken it: what the
\* snapshots rest on.
LockHeld == \A r \in Requests : lock = r <=> pc[r] \in Holding

ChainInv ==
  /\ TypeOK
  /\ LockHeld
  /\ HeadLength
  /\ SnapshotCurrent
  /\ RowsLanded
  /\ SubmissionsFresh
  /\ HistoryInLog
  /\ NoFork

-----------------------------------------------------------------------------
(* The lock, and what is stable while it is held. *)

LEMMA LockInit == Init => LockHeld
BY IngestAssumption DEF Init, LockHeld, Holding

LEMMA LockStep == TypeOK /\ LockHeld /\ [Next]_vars => LockHeld'
<1> SUFFICES ASSUME TypeOK, LockHeld, [Next]_vars, NEW q \in Requests
             PROVE  (lock = q <=> pc[q] \in Holding)'
  BY DEF LockHeld
<1> USE DEF Holding, Goto
<1>0. /\ pc \in [Requests -> Phases]
      /\ lock = q <=> pc[q] \in Holding
      /\ \A r \in Requests : lock = r <=> pc[r] \in Holding
      /\ Free \notin Requests
  BY IngestAssumption DEF TypeOK, LockHeld
<1>1. CASE UNCHANGED vars
  BY <1>0, <1>1 DEF vars
<1>2. ASSUME NEW r \in Requests, NEW on \in BOOLEAN, UpdateSettings(r, on)
      PROVE  (lock = q <=> pc[q] \in Holding)'
  BY <1>0, <1>2 DEF UpdateSettings, stores
<1>3. ASSUME NEW r \in Requests, Open(r) PROVE (lock = q <=> pc[q] \in Holding)'
  BY <1>0, <1>3 DEF Open, Arrived, stores
<1>4. ASSUME NEW r \in Requests, Prepare(r) PROVE (lock = q <=> pc[q] \in Holding)'
  BY <1>0, <1>4 DEF Prepare
<1>5. ASSUME NEW r \in Requests, SkipPayloads(r) PROVE (lock = q <=> pc[q] \in Holding)'
  BY <1>0, <1>5 DEF SkipPayloads
<1>6. ASSUME NEW r \in Requests, StorePayloads(r) PROVE (lock = q <=> pc[q] \in Holding)'
  BY <1>0, <1>6 DEF StorePayloads
<1>7. ASSUME NEW r \in Requests, StoreConflict(r) PROVE (lock = q <=> pc[q] \in Holding)'
  BY <1>0, <1>7 DEF StoreConflict
<1>8. ASSUME NEW r \in Requests, DegradePayloads(r) PROVE (lock = q <=> pc[q] \in Holding)'
  BY <1>0, <1>8 DEF DegradePayloads
<1>9. ASSUME NEW r \in Requests, InsertRows(r) PROVE (lock = q <=> pc[q] \in Holding)'
  BY <1>0, <1>9 DEF InsertRows
<1>10. ASSUME NEW r \in Requests, Commit(r) PROVE (lock = q <=> pc[q] \in Holding)'
  <2>1. pc[r] = "inserted" /\ lock' = Free /\ pc' = [pc EXCEPT ![r] = "done"]
    BY <1>10 DEF Commit
  <2> QED
    BY <1>0, <2>1
<1>11. ASSUME NEW r \in Requests, Abort(r) PROVE (lock = q <=> pc[q] \in Holding)'
  BY <1>0, <1>11 DEF Abort, Rollback
<1>12. ASSUME NEW r \in Requests, Retry(r) PROVE (lock = q <=> pc[q] \in Holding)'
  BY <1>0, <1>12 DEF Retry
<1>13. ASSUME NEW cap \in Limits \cup {Unlimited}, SetPlan(cap)
       PROVE  (lock = q <=> pc[q] \in Holding)'
  BY <1>0, <1>13 DEF SetPlan
<1>14. CASE NextDay
  BY <1>0, <1>14 DEF NextDay
<1> QED
  BY <1>1, <1>2, <1>3, <1>4, <1>5, <1>6, <1>7, <1>8, <1>9, <1>10, <1>11, <1>12,
     <1>13, <1>14 DEF Next, Run

\* The row is the property of one call: no other call can be in the middle of
\* its transaction.
LEMMA OneHolder ==
  ASSUME LockHeld, NEW r \in Requests, NEW q \in Requests,
         pc[r] \in Holding, pc[q] \in Holding
  PROVE  r = q
BY DEF LockHeld

LEMMA SnapshotStep ==
  TypeOK /\ LockHeld /\ SnapshotCurrent /\ [Next]_vars => SnapshotCurrent'
<1> SUFFICES ASSUME TypeOK, LockHeld, SnapshotCurrent, [Next]_vars,
                    NEW q \in Requests, (pc[q] \in Holding)'
             PROVE  (txn[q].head = head)'
  BY DEF SnapshotCurrent
<1> USE DEF Goto
<1>0. /\ pc \in [Requests -> Phases]
      /\ txn \in [Requests -> Txns]
      /\ \A r \in Requests : pc[r] \in Holding => txn[r].head = head
  BY DEF TypeOK, SnapshotCurrent
<1>1. CASE UNCHANGED vars
  BY <1>0, <1>1 DEF vars
<1>2. ASSUME NEW r \in Requests, NEW on \in BOOLEAN, UpdateSettings(r, on)
      PROVE  (txn[q].head = head)'
  BY <1>0, <1>2 DEF UpdateSettings, stores, Holding
<1>3. ASSUME NEW r \in Requests, Open(r) PROVE (txn[q].head = head)'
  BY <1>0, <1>3 DEF Open, stores, Holding
<1>4. ASSUME NEW r \in Requests, Prepare(r) PROVE (txn[q].head = head)'
  <2>1. CASE q = r
    <3>1. txn'[r] = [txn[r] EXCEPT !.head = head,
                                   !.bodies = prepare_events(Batch[r], capture, Slots(r))]
      BY <1>0, <1>4 DEF Prepare
    <3>2. txn[r] \in Txns
      BY <1>0
    <3> QED
      BY <1>4, <2>1, <3>1, <3>2 DEF Prepare, stores, Txns
  <2>2. CASE q # r
    BY <1>0, <1>4, <2>2 DEF Prepare, stores
  <2> QED
    BY <2>1, <2>2
<1>5. ASSUME NEW r \in Requests, SkipPayloads(r) PROVE (txn[q].head = head)'
  BY <1>0, <1>5 DEF SkipPayloads, stores, Holding
<1>6. ASSUME NEW r \in Requests, StorePayloads(r) PROVE (txn[q].head = head)'
  BY <1>0, <1>6 DEF StorePayloads, Holding, Txns
<1>7. ASSUME NEW r \in Requests, StoreConflict(r) PROVE (txn[q].head = head)'
  BY <1>0, <1>7 DEF StoreConflict, Holding
<1>8. ASSUME NEW r \in Requests, DegradePayloads(r) PROVE (txn[q].head = head)'
  BY <1>0, <1>8 DEF DegradePayloads, Holding, Txns
<1>9. ASSUME NEW r \in Requests, InsertRows(r) PROVE (txn[q].head = head)'
  BY <1>0, <1>9 DEF InsertRows, Holding
<1>10. ASSUME NEW r \in Requests, Commit(r) PROVE (txn[q].head = head)'
  <2>1. pc[r] \in Holding /\ pc'[r] = "done" /\ (q # r => pc'[q] = pc[q])
    BY <1>0, <1>10 DEF Commit, Holding
  <2>2. q # r /\ pc[q] \in Holding
    BY <2>1 DEF Holding
  <2> QED
    BY <2>1, <2>2, OneHolder
<1>11. ASSUME NEW r \in Requests, Abort(r) PROVE (txn[q].head = head)'
  BY <1>0, <1>11 DEF Abort, stores, Holding
<1>12. ASSUME NEW r \in Requests, Retry(r) PROVE (txn[q].head = head)'
  BY <1>0, <1>12 DEF Retry, stores, Holding
<1>13. ASSUME NEW cap \in Limits \cup {Unlimited}, SetPlan(cap) PROVE (txn[q].head = head)'
  BY <1>0, <1>13 DEF SetPlan, stores
<1>14. CASE NextDay
  BY <1>0, <1>14 DEF NextDay, stores
<1> QED
  BY <1>1, <1>2, <1>3, <1>4, <1>5, <1>6, <1>7, <1>8, <1>9, <1>10, <1>11, <1>12,
     <1>13, <1>14 DEF Next, Run

-----------------------------------------------------------------------------
(* Submissions and the rows they leave. *)

\* The steps that leave the log, the head and the commits alone.
QuietStep ==
  \/ UNCHANGED vars
  \/ \E r \in Requests :
       \/ \E on \in BOOLEAN : UpdateSettings(r, on)
       \/ Open(r) \/ Prepare(r) \/ SkipPayloads(r) \/ StorePayloads(r)
       \/ StoreConflict(r) \/ DegradePayloads(r) \/ Abort(r) \/ Retry(r)
  \/ \E cap \in Limits \cup {Unlimited} : SetPlan(cap)
  \/ NextDay

LEMMA StepCases ==
  [Next]_vars => QuietStep \/ \E r \in Requests : InsertRows(r) \/ Commit(r)
BY DEF Next, Run, QuietStep

LEMMA QuietStepFrame == QuietStep => UNCHANGED <<log, head, commits>>
BY DEF QuietStep, vars, UpdateSettings, Open, Prepare, SkipPayloads, StorePayloads,
       StoreConflict, DegradePayloads, Abort, Retry, SetPlan, NextDay, stores

\* A quiet step moves at most one call, and only a retry changes the submission.
LEMMA QuietStepCalls ==
  ASSUME TypeOK, QuietStep
  PROVE  \A q \in Requests :
           \/ /\ try'[q] = try[q]
              /\ pc'[q] = "done" => pc[q] = "done"
              /\ pc[q] = "done" => pc'[q] = "done"
              /\ pc'[q] = "inserted" => pc[q] = "inserted" /\ txn'[q] = txn[q]
              /\ pc'[q] \notin {"inserted", "done", "failed"} =>
                   pc[q] \notin {"inserted", "done", "failed"}
           \/ /\ try'[q] = try[q] + 1
              /\ pc'[q] = "new"
<1> SUFFICES ASSUME NEW q \in Requests
             PROVE  \/ /\ try'[q] = try[q]
                       /\ pc'[q] = "done" => pc[q] = "done"
                       /\ pc[q] = "done" => pc'[q] = "done"
                       /\ pc'[q] = "inserted" => pc[q] = "inserted" /\ txn'[q] = txn[q]
                       /\ pc'[q] \notin {"inserted", "done", "failed"} =>
                            pc[q] \notin {"inserted", "done", "failed"}
                    \/ /\ try'[q] = try[q] + 1
                       /\ pc'[q] = "new"
  OBVIOUS
<1> USE DEF Goto
<1>0. pc \in [Requests -> Phases] /\ txn \in [Requests -> Txns] /\ try \in [Requests -> Nat]
  BY DEF TypeOK
<1>1. CASE UNCHANGED vars
  BY <1>0, <1>1 DEF vars
<1>2. ASSUME NEW r \in Requests, NEW on \in BOOLEAN, UpdateSettings(r, on)
      PROVE  /\ try'[q] = try[q]
             /\ txn'[q] = txn[q]
             /\ pc'[q] = pc[q] \/ (pc[q] = "new" /\ pc'[q] = "ready")
  BY <1>0, <1>2 DEF UpdateSettings
<1>3. ASSUME NEW r \in Requests, Open(r)
      PROVE  /\ try'[q] = try[q]
             /\ \/ pc'[q] = pc[q] /\ txn'[q] = txn[q]
                \/ pc[q] \in {"new", "ready"} /\ pc'[q] = "waiting"
  BY <1>0, <1>3 DEF Open, Arrived
<1>4. ASSUME NEW r \in Requests, Prepare(r)
      PROVE  /\ try'[q] = try[q]
             /\ \/ pc'[q] = pc[q] /\ txn'[q] = txn[q]
                \/ pc[q] = "waiting" /\ pc'[q] = "prepared"
  BY <1>0, <1>4 DEF Prepare
<1>5. ASSUME NEW r \in Requests,
             SkipPayloads(r) \/ StorePayloads(r) \/ DegradePayloads(r)
      PROVE  /\ try'[q] = try[q]
             /\ \/ pc'[q] = pc[q] /\ txn'[q] = txn[q]
                \/ pc[q] = "prepared" /\ pc'[q] = "stored"
  BY <1>0, <1>5 DEF SkipPayloads, StorePayloads, DegradePayloads
<1>6. ASSUME NEW r \in Requests, StoreConflict(r) \/ Abort(r)
      PROVE  /\ try'[q] = try[q]
             /\ \/ pc'[q] = pc[q] /\ txn'[q] = txn[q]
                \/ pc[q] # "done" /\ pc'[q] = "failed"
  BY <1>0, <1>6 DEF StoreConflict, Abort, Holding
<1>7. ASSUME NEW r \in Requests, Retry(r)
      PROVE  \/ pc'[q] = pc[q] /\ txn'[q] = txn[q] /\ try'[q] = try[q]
             \/ try'[q] = try[q] + 1 /\ pc'[q] = "new"
  BY <1>0, <1>7 DEF Retry
<1>8. ASSUME (\E cap \in Limits \cup {Unlimited} : SetPlan(cap)) \/ NextDay
      PROVE  pc'[q] = pc[q] /\ txn'[q] = txn[q] /\ try'[q] = try[q]
  BY <1>0, <1>8 DEF SetPlan, NextDay
<1> QED
  BY <1>1, <1>2, <1>3, <1>4, <1>5, <1>6, <1>7, <1>8 DEF QuietStep

LEMMA SubEqual ==
  ASSUME NEW r \in Requests, NEW q \in Requests
  PROVE  Sub(r) = Sub(q) <=> r = q
BY DEF Sub

LEMMA FreshStep ==
  TypeOK /\ LockHeld /\ SubmissionsFresh /\ [Next]_vars => SubmissionsFresh'
<1> SUFFICES ASSUME TypeOK, LockHeld, SubmissionsFresh, [Next]_vars
             PROVE  SubmissionsFresh'
  OBVIOUS
<1>0. /\ pc \in [Requests -> Phases]
      /\ try \in [Requests -> Nat]
      /\ commits \subseteq Submissions
      /\ log \subseteq Rows
  BY DEF TypeOK
<1>1. /\ \A s \in commits : s.req \in Requests /\ s.try \in Nat /\ s.try <= try[s.req]
      /\ \A row \in log : /\ row.ins.req \in Requests /\ row.ins.try \in Nat
                          /\ row.ins.try <= try[row.ins.req]
  BY <1>0 DEF SubmissionsFresh, Submissions, Rows
<1>2. CASE QuietStep
  <2>1. UNCHANGED <<log, head, commits>>
    BY <1>2, QuietStepFrame
  <2>2. \A q \in Requests : try'[q] \in Nat /\ try'[q] >= try[q]
    BY <1>0, <1>2, QuietStepCalls
  <2>3. /\ \A s \in commits : s.try <= try'[s.req]
        /\ \A row \in log : row.ins.try <= try'[row.ins.req]
    BY <1>0, <1>1, <2>2
  <2>4. ASSUME NEW q \in Requests
        PROVE  /\ pc'[q] # "done" => Sub(q)' \notin commits
               /\ pc'[q] \notin {"inserted", "done", "failed"} =>
                    \A row \in log : row.ins # Sub(q)'
    <3>1. CASE try'[q] = try[q] + 1 /\ pc'[q] = "new"
      <4>1. Sub(q)'.req = q /\ Sub(q)'.try = try[q] + 1
        BY <3>1 DEF Sub
      <4> QED
        BY <1>0, <1>1, <4>1
    <3>2. CASE ~(try'[q] = try[q] + 1 /\ pc'[q] = "new")
      <4>1. /\ try'[q] = try[q]
            /\ pc[q] = "done" => pc'[q] = "done"
            /\ pc'[q] \notin {"inserted", "done", "failed"} =>
                 pc[q] \notin {"inserted", "done", "failed"}
        BY <1>2, <3>2, QuietStepCalls
      <4>2. Sub(q)' = Sub(q)
        BY <4>1 DEF Sub
      <4> QED
        BY <4>1, <4>2 DEF SubmissionsFresh
    <3> QED
      BY <3>1, <3>2
  <2> QED
    BY <2>1, <2>3, <2>4 DEF SubmissionsFresh
<1>3. ASSUME NEW r \in Requests, InsertRows(r) PROVE SubmissionsFresh'
  <2>1. /\ pc[r] = "stored" /\ pc' = [pc EXCEPT ![r] = "inserted"]
        /\ log' = log \cup ChainRows(txn[r].head, txn[r].bodies, Sub(r))
        /\ try' = try /\ commits' = commits
    BY <1>3 DEF InsertRows, Goto
  <2>2. \A row \in ChainRows(txn[r].head, txn[r].bodies, Sub(r)) : row.ins = Sub(r)
    BY ChainRowsIns
  <2>3. \A row \in log' : row.ins.try <= try[row.ins.req]
    <3>1. Sub(r).try <= try[Sub(r).req]
      BY <1>0 DEF Sub
    <3> QED
      BY <1>1, <2>1, <2>2, <3>1
  <2>4. ASSUME NEW q \in Requests
        PROVE  /\ pc'[q] # "done" => Sub(q)' \notin commits
               /\ pc'[q] \notin {"inserted", "done", "failed"} =>
                    \A row \in log' : row.ins # Sub(q)'
    <3>1. Sub(q)' = Sub(q)
      BY <2>1 DEF Sub
    <3>2. pc'[q] # "done" => pc[q] # "done"
      BY <1>0, <2>1
    <3>3. pc'[q] \notin {"inserted", "done", "failed"} =>
            q # r /\ pc[q] \notin {"inserted", "done", "failed"}
      BY <1>0, <2>1
    <3> QED
      BY <2>1, <2>2, <3>1, <3>2, <3>3, SubEqual DEF SubmissionsFresh
  <2> QED
    BY <1>1, <2>1, <2>3, <2>4 DEF SubmissionsFresh
<1>4. ASSUME NEW r \in Requests, Commit(r) PROVE SubmissionsFresh'
  <2>1. /\ pc[r] = "inserted" /\ pc' = [pc EXCEPT ![r] = "done"]
        /\ commits' = commits \cup {Sub(r)}
        /\ try' = try /\ log' = log
    BY <1>4 DEF Commit, Goto
  <2>2. \A s \in commits' : s.try <= try[s.req]
    <3>1. Sub(r).try <= try[Sub(r).req]
      BY <1>0 DEF Sub
    <3> QED
      BY <1>1, <2>1, <3>1
  <2>3. ASSUME NEW q \in Requests
        PROVE  /\ pc'[q] # "done" => Sub(q)' \notin commits'
               /\ pc'[q] \notin {"inserted", "done", "failed"} =>
                    \A row \in log : row.ins # Sub(q)'
    <3>1. Sub(q)' = Sub(q)
      BY <2>1 DEF Sub
    <3>2. pc'[q] # "done" => q # r /\ pc[q] # "done"
      BY <1>0, <2>1
    <3>3. pc'[q] \notin {"inserted", "done", "failed"} =>
            pc[q] \notin {"inserted", "done", "failed"}
      BY <1>0, <2>1
    <3> QED
      BY <2>1, <3>1, <3>2, <3>3, SubEqual DEF SubmissionsFresh
  <2> QED
    BY <1>1, <2>1, <2>2, <2>3 DEF SubmissionsFresh
<1> QED
  BY <1>2, <1>3, <1>4, StepCases

LEMMA LandedStep ==
  TypeOK /\ LockHeld /\ SubmissionsFresh /\ RowsLanded /\ [Next]_vars => RowsLanded'
<1> SUFFICES ASSUME TypeOK, LockHeld, SubmissionsFresh, RowsLanded, [Next]_vars,
                    NEW q \in Requests, pc'[q] = "inserted"
             PROVE  {row \in log' : row.ins = Sub(q)'} =
                      ChainRows(txn'[q].head, txn'[q].bodies, Sub(q)')
  BY DEF RowsLanded, ChainRows, compute_event_hash
<1>0. pc \in [Requests -> Phases] /\ txn \in [Requests -> Txns] /\ try \in [Requests -> Nat]
  BY DEF TypeOK
<1>1. CASE QuietStep
  <2>1. log' = log
    BY <1>1, QuietStepFrame
  <2>2. pc[q] = "inserted" /\ txn'[q] = txn[q] /\ try'[q] = try[q]
    BY <1>1, QuietStepCalls
  <2>3. Sub(q)' = Sub(q)
    BY <2>2 DEF Sub
  <2> QED
    BY <2>1, <2>2, <2>3 DEF RowsLanded
<1>2. ASSUME NEW r \in Requests, InsertRows(r)
      PROVE  {row \in log' : row.ins = Sub(q)'} =
               ChainRows(txn'[q].head, txn'[q].bodies, Sub(q)')
  <2>1. /\ pc[r] = "stored" /\ pc' = [pc EXCEPT ![r] = "inserted"]
        /\ log' = log \cup ChainRows(txn[r].head, txn[r].bodies, Sub(r))
        /\ try' = try /\ txn' = txn
    BY <1>2 DEF InsertRows, Goto
  <2>2. q = r
    BY <1>0, <2>1, OneHolder DEF Holding
  <2>3. \A row \in log : row.ins # Sub(r)
    BY <2>1 DEF SubmissionsFresh
  <2>4. \A row \in ChainRows(txn[r].head, txn[r].bodies, Sub(r)) : row.ins = Sub(r)
    BY ChainRowsIns
  <2>5. Sub(q)' = Sub(r)
    BY <2>1, <2>2 DEF Sub
  <2> QED
    BY <2>1, <2>2, <2>3, <2>4, <2>5
<1>3. ASSUME NEW r \in Requests, Commit(r)
      PROVE  {row \in log' : row.ins = Sub(q)'} =
               ChainRows(txn'[q].head, txn'[q].bodies, Sub(q)')
  <2>1. pc[r] = "inserted" /\ pc' = [pc EXCEPT ![r] = "done"]
    BY <1>3 DEF Commit, Goto
  <2>2. q # r /\ pc[q] = "inserted"
    BY <1>0, <2>1
  <2> QED
    BY <2>1, <2>2, OneHolder DEF Holding
<1> QED
  BY <1>1, <1>2, <1>3, StepCases

-----------------------------------------------------------------------------
(* The chain. *)

\* Only a commit adds to the committed rows, and it adds the rows of its batch.
LEMMA CommittedRowsStep ==
  ASSUME TypeOK, SubmissionsFresh, RowsLanded, [Next]_vars
  PROVE  \/ CommittedRows' = CommittedRows /\ head' = head
         \/ \E r \in Requests :
              /\ pc[r] = "inserted"
              /\ head' = AdvanceHead(txn[r].head, txn[r].bodies)
              /\ CommittedRows' = CommittedRows
                   \cup ChainRows(txn[r].head, txn[r].bodies, Sub(r))
<1>1. CASE QuietStep
  BY <1>1, QuietStepFrame DEF CommittedRows
<1>2. ASSUME NEW r \in Requests, InsertRows(r)
      PROVE  CommittedRows' = CommittedRows /\ head' = head
  <2>1. /\ pc[r] = "stored" /\ commits' = commits /\ head' = head
        /\ log' = log \cup ChainRows(txn[r].head, txn[r].bodies, Sub(r))
    BY <1>2 DEF InsertRows
  <2>2. Sub(r) \notin commits
    BY <2>1 DEF SubmissionsFresh
  <2>3. \A row \in ChainRows(txn[r].head, txn[r].bodies, Sub(r)) : row.ins = Sub(r)
    BY ChainRowsIns
  <2> QED
    BY <2>1, <2>2, <2>3 DEF CommittedRows
<1>3. ASSUME NEW r \in Requests, Commit(r)
      PROVE  /\ pc[r] = "inserted"
             /\ head' = AdvanceHead(txn[r].head, txn[r].bodies)
             /\ CommittedRows' = CommittedRows
                  \cup ChainRows(txn[r].head, txn[r].bodies, Sub(r))
  <2>1. /\ pc[r] = "inserted" /\ log' = log
        /\ commits' = commits \cup {Sub(r)}
        /\ head' = AdvanceHead(txn[r].head, txn[r].bodies)
    BY <1>3 DEF Commit
  <2>2. {row \in log : row.ins = Sub(r)} =
          ChainRows(txn[r].head, txn[r].bodies, Sub(r))
    BY <2>1 DEF RowsLanded
  <2> QED
    BY <2>1, <2>2 DEF CommittedRows
<1> QED
  BY <1>1, <1>2, <1>3, StepCases

LEMMA RecordStep == ChainInv /\ [Next]_vars => (HeadLength /\ HistoryInLog /\ NoFork)'
<1> SUFFICES ASSUME ChainInv, [Next]_vars
             PROVE  (HeadLength /\ HistoryInLog /\ NoFork)'
  OBVIOUS
<1>1. CASE CommittedRows' = CommittedRows /\ head' = head
  BY <1>1 DEF ChainInv, HeadLength, HistoryInLog, NoFork
<1>2. ASSUME NEW r \in Requests, pc[r] = "inserted",
             head' = AdvanceHead(txn[r].head, txn[r].bodies),
             CommittedRows' = CommittedRows
               \cup ChainRows(txn[r].head, txn[r].bodies, Sub(r))
      PROVE  (HeadLength /\ HistoryInLog /\ NoFork)'
  <2> DEFINE b == txn[r].bodies
             new == ChainRows(head, b, Sub(r))
  <2>1. txn[r].head = head
    BY <1>2 DEF ChainInv, SnapshotCurrent, Holding
  <2>2. /\ b \in Seq(Body) /\ Len(b) \in Nat
        /\ head \in ChainHeads /\ head.hash \in Seq(Body) /\ head.seq \in Nat
        /\ Len(head.hash) = head.seq
    <3>1. txn[r] \in Txns /\ head \in ChainHeads /\ Len(head.hash) = head.seq
      BY DEF ChainInv, TypeOK, HeadLength
    <3> QED
      BY <3>1, LenProperties DEF Txns, ChainHeads, Hash
  <2>3. /\ head'.hash = head.hash \o b
        /\ head'.seq = head.seq + Len(b)
        /\ CommittedRows' = CommittedRows \cup new
    BY <1>2, <2>1 DEF AdvanceHead
  <2> HIDE DEF b, new
  <2>4. Len(head'.hash) = head'.seq
    <3>1. Len(head.hash \o b) = Len(head.hash) + Len(b)
      BY <2>2, ConcatProperties
    <3> QED
      BY <2>2, <2>3, <3>1
  <2>5. /\ \A row \in new :
             /\ row.seq \in head.seq + 1 .. head.seq + Len(b)
             /\ row.hash = SubSeq(head.hash \o b, 1, row.seq)
        /\ \A n \in head.seq + 1 .. head.seq + Len(b) : \E row \in new : row.seq = n
        /\ \A row1, row2 \in new : row1.seq = row2.seq => row1 = row2
    <3>1. head \in ChainHeads /\ b \in Seq(Body) /\ Len(head.hash) = head.seq
      BY <2>2
    <3>2. /\ \A row \in new :
               /\ row.ins = Sub(r)
               /\ row.seq \in head.seq + 1 .. head.seq + Len(b)
               /\ row.hash = SubSeq(head.hash \o b, 1, row.seq)
               /\ row.body = b[row.seq - head.seq]
          /\ \A n \in head.seq + 1 .. head.seq + Len(b) : \E row \in new : row.seq = n
          /\ \A row1, row2 \in new : row1.seq = row2.seq => row1 = row2
      BY <3>1, ChainRowsOnHead, Zenon DEF new
    <3> QED
      BY <3>2
  <2>6. CommittedRows \subseteq Rows
    BY DEF ChainInv, TypeOK, CommittedRows
  <2>7. ASSUME NEW n \in 1 .. head'.seq
        PROVE  \E row \in CommittedRows' : row.seq = n /\ row.hash = SubSeq(head'.hash, 1, n)
    <3>0. n \in Nat /\ n \in 1 .. head.seq + Len(b)
      BY <2>2, <2>3
    <3>1. CASE n <= head.seq
      <4>1. PICK row \in CommittedRows : row.seq = n /\ row.hash = SubSeq(head.hash, 1, n)
        BY <2>2, <3>1 DEF ChainInv, HistoryInLog
      <4>2. SubSeq(head'.hash, 1, n) = SubSeq(head.hash, 1, n)
        BY <2>2, <2>3, <3>1, PrefixOfConcat
      <4> QED
        BY <2>3, <4>1, <4>2
    <3>2. CASE n > head.seq
      <4>1. n \in head.seq + 1 .. head.seq + Len(b)
        BY <2>2, <3>0, <3>2
      <4>2. PICK row \in new : row.seq = n
        BY <2>5, <4>1
      <4> QED
        BY <2>3, <2>5, <4>2
    <3> QED
      BY <2>2, <3>0, <3>1, <3>2
  <2>8. ASSUME NEW row \in CommittedRows
        PROVE  /\ row.seq \in Nat /\ row.seq <= head.seq
               /\ row.hash = SubSeq(head'.hash, 1, row.seq)
    <3>1. row.seq \in Nat /\ row.seq <= head.seq /\ row.hash = SubSeq(head.hash, 1, row.seq)
      BY <2>6 DEF ChainInv, NoFork, Rows
    <3>2. SubSeq(head'.hash, 1, row.seq) = SubSeq(head.hash, 1, row.seq)
      BY <2>2, <2>3, <3>1, PrefixOfConcat
    <3> QED
      BY <3>1, <3>2
  <2>9. ASSUME NEW row \in CommittedRows'
        PROVE  row.seq <= head'.seq /\ row.hash = SubSeq(head'.hash, 1, row.seq)
    <3>1. CASE row \in CommittedRows
      BY <2>2, <2>3, <2>8, <3>1
    <3>2. CASE row \in new
      BY <2>2, <2>3, <2>5, <3>2
    <3> QED
      BY <2>3, <3>1, <3>2
  <2>10. ASSUME NEW row1 \in CommittedRows', NEW row2 \in CommittedRows',
                row1.seq = row2.seq
         PROVE  row1 = row2
    <3>1. CASE row1 \in CommittedRows /\ row2 \in CommittedRows
      BY <2>10, <3>1 DEF ChainInv, NoFork
    <3>2. CASE row1 \in new /\ row2 \in new
      BY <2>5, <2>10, <3>2
    <3>3. CASE (row1 \in CommittedRows /\ row2 \in new) \/ (row2 \in CommittedRows /\ row1 \in new)
      <4>1. \A x \in CommittedRows, y \in new : x.seq # y.seq
        BY <2>2, <2>5, <2>8
      <4> QED
        BY <2>10, <3>3, <4>1
    <3> QED
      BY <2>3, <3>1, <3>2, <3>3
  <2>11. HistoryInLog'
    BY <2>4, <2>7 DEF HistoryInLog
  <2>12. NoFork'
    BY <2>9, <2>10 DEF NoFork
  <2> QED
    BY <2>4, <2>11, <2>12 DEF HeadLength
<1> QED
  BY <1>1, <1>2, CommittedRowsStep DEF ChainInv

LEMMA ChainInvInit == Init => ChainInv
<1> SUFFICES ASSUME Init PROVE ChainInv
  OBVIOUS
<1>1. TypeOK /\ LockHeld
  BY InitType, LockInit
<1>2. Len(head.hash) = head.seq /\ head.seq = 0
  BY EmptySeq DEF Init, EmptyHead, GENESIS_HASH
<1>3. CommittedRows = {} /\ log = {} /\ commits = {}
  BY DEF Init, CommittedRows
<1>4. HistoryInLog /\ NoFork /\ HeadLength
  BY <1>2, <1>3 DEF HistoryInLog, NoFork, HeadLength
<1>5. SnapshotCurrent /\ RowsLanded
  BY DEF Init, SnapshotCurrent, RowsLanded, Holding
<1>6. SubmissionsFresh
  BY <1>3 DEF SubmissionsFresh
<1> QED
  BY <1>1, <1>4, <1>5, <1>6 DEF ChainInv

LEMMA ChainInvStep == ChainInv /\ [Next]_vars => ChainInv'
BY StepType, LockStep, SnapshotStep, FreshStep, LandedStep, RecordStep DEF ChainInv

LEMMA ChainInvariant == Spec => []ChainInv
<1>1. Init => ChainInv
  BY ChainInvInit
<1>2. ChainInv /\ [Next]_vars => ChainInv'
  BY ChainInvStep
<1> QED
  BY <1>1, <1>2, PTL DEF Spec

\* Calls of one tenant never fork the chain.
THEOREM ChainNeverForks == Spec => []NoFork
<1>1. ChainInv => NoFork
  BY DEF ChainInv
<1> QED
  BY <1>1, ChainInvariant, PTL

\* The log always holds every event that the head commits to, although it is
\* written before the transaction that moves the head.
THEOREM HistoryAlwaysInLog == Spec => []HistoryInLog
<1>1. ChainInv => HistoryInLog
  BY DEF ChainInv
<1> QED
  BY <1>1, ChainInvariant, PTL

-----------------------------------------------------------------------------
(* The batch a call carries from its reads to its commit. *)

\* What the call is about to record are the events that were submitted, in
\* their order, and no payload that an event did not carry.
BatchKept ==
  \A r \in Requests : pc[r] \in Holding =>
    /\ Len(txn[r].bodies) = Len(Batch[r])
    /\ \A i \in 1 .. Len(Batch[r]) :
         /\ txn[r].bodies[i].id = Batch[r][i].id
         /\ txn[r].bodies[i].ref => Batch[r][i].payload

\* Until it has inserted, a call has payloads in hand only while capture is on.
CaptureInForce ==
  \A r \in Requests : pc[r] \in {"prepared", "stored"} =>
    \A i \in 1 .. Len(Batch[r]) : txn[r].bodies[i].ref => capture

CallInv == TypeOK /\ LockHeld /\ BatchKept /\ CaptureInForce

LEMMA CallInvInit == Init => CallInv
<1>1. Init => BatchKept /\ CaptureInForce
  BY DEF Init, BatchKept, CaptureInForce, Holding
<1> QED
  BY <1>1, InitType, LockInit DEF CallInv

\* While some call is past its reads, the settings and the plan stand still.
LEMMA ConfigStable ==
  ASSUME TypeOK, LockHeld, [Next]_vars, NEW r \in Requests, pc[r] \in Holding
  PROVE  capture' = capture /\ limit' = limit
<1>1. lock = r /\ lock # Free
  BY IngestAssumption DEF LockHeld
<1> QED
  BY <1>1 DEF Next, Run, vars, config, stores, UpdateSettings, Open, Prepare, SkipPayloads,
     StorePayloads, StoreConflict, DegradePayloads, InsertRows, Commit, Abort, Retry,
     SetPlan, NextDay

\* What a step may do to the batch a call holds.
LEMMA HeldBatchStep ==
  ASSUME TypeOK, [Next]_vars, NEW q \in Requests, pc'[q] \in Holding
  PROVE  \/ /\ pc[q] = "waiting" /\ pc'[q] = "prepared"
            /\ UNCHANGED <<capture, limit, usage>> /\ txn'[q].day = txn[q].day
            /\ txn'[q].bodies = prepare_events(Batch[q], capture, Slots(q))
         \/ /\ pc[q] = "prepared" /\ pc'[q] = "stored"
            /\ txn'[q].bodies = WithoutPayloads(txn[q].bodies)
         \/ /\ pc[q] \in Holding
            /\ pc'[q] \in {"prepared", "stored"} => pc[q] \in {"prepared", "stored"}
            /\ txn'[q].bodies = txn[q].bodies /\ txn'[q].day = txn[q].day
<1> DEFINE Goal ==
         \/ /\ pc[q] = "waiting" /\ pc'[q] = "prepared"
            /\ UNCHANGED <<capture, limit, usage>> /\ txn'[q].day = txn[q].day
            /\ txn'[q].bodies = prepare_events(Batch[q], capture, Slots(q))
         \/ /\ pc[q] = "prepared" /\ pc'[q] = "stored"
            /\ txn'[q].bodies = WithoutPayloads(txn[q].bodies)
         \/ /\ pc[q] \in Holding
            /\ pc'[q] \in {"prepared", "stored"} => pc[q] \in {"prepared", "stored"}
            /\ txn'[q].bodies = txn[q].bodies /\ txn'[q].day = txn[q].day
<1> USE DEF Goto, Holding
<1>0. pc \in [Requests -> Phases] /\ txn \in [Requests -> Txns]
  BY DEF TypeOK
<1>1. CASE UNCHANGED vars
  BY <1>0, <1>1 DEF vars
<1>2. ASSUME NEW r \in Requests, NEW on \in BOOLEAN, UpdateSettings(r, on) PROVE Goal
  BY <1>0, <1>2 DEF UpdateSettings
<1>3. ASSUME NEW r \in Requests, Open(r) PROVE Goal
  BY <1>0, <1>3 DEF Open
<1>4. ASSUME NEW r \in Requests, Prepare(r) PROVE Goal
  <2>1. CASE q = r
    <3>1. txn'[r] = [txn[r] EXCEPT !.head = head,
                                   !.bodies = prepare_events(Batch[r], capture, Slots(r))]
      BY <1>0, <1>4 DEF Prepare
    <3>2. /\ txn'[r].bodies = prepare_events(Batch[r], capture, Slots(r))
          /\ txn'[r].day = txn[r].day
      BY <1>0, <3>1 DEF Txns
    <3>3. /\ pc[r] = "waiting" /\ pc'[r] = "prepared"
          /\ UNCHANGED <<capture, limit, usage>>
      BY <1>0, <1>4 DEF Prepare, config, stores
    <3> QED
      BY <2>1, <3>2, <3>3
  <2>2. CASE q # r
    <3>1. pc'[q] = pc[q] /\ txn'[q] = txn[q]
      BY <1>0, <1>4, <2>2 DEF Prepare
    <3> QED
      BY <3>1
  <2> QED
    BY <2>1, <2>2
<1>5. ASSUME NEW r \in Requests, SkipPayloads(r) PROVE Goal
  BY <1>0, <1>5 DEF SkipPayloads
<1>6. ASSUME NEW r \in Requests, StorePayloads(r) PROVE Goal
  BY <1>0, <1>6 DEF StorePayloads, Txns
<1>7. ASSUME NEW r \in Requests, StoreConflict(r) PROVE Goal
  BY <1>0, <1>7 DEF StoreConflict
<1>8. ASSUME NEW r \in Requests, DegradePayloads(r) PROVE Goal
  BY <1>0, <1>8 DEF DegradePayloads, Txns
<1>9. ASSUME NEW r \in Requests, InsertRows(r) PROVE Goal
  BY <1>0, <1>9 DEF InsertRows
<1>10. ASSUME NEW r \in Requests, Commit(r) PROVE Goal
  <2>1. pc' = [pc EXCEPT ![r] = "done"] /\ txn' = [txn EXCEPT ![r] = NoTxn]
    BY <1>10 DEF Commit
  <2> QED
    BY <1>0, <2>1
<1>11. ASSUME NEW r \in Requests, Abort(r) PROVE Goal
  BY <1>0, <1>11 DEF Abort
<1>12. ASSUME NEW r \in Requests, Retry(r) PROVE Goal
  BY <1>0, <1>12 DEF Retry
<1>13. ASSUME NEW cap \in Limits \cup {Unlimited}, SetPlan(cap) PROVE Goal
  BY <1>0, <1>13 DEF SetPlan
<1>14. CASE NextDay
  BY <1>0, <1>14 DEF NextDay
<1> QED
  BY <1>1, <1>2, <1>3, <1>4, <1>5, <1>6, <1>7, <1>8, <1>9, <1>10, <1>11, <1>12,
     <1>13, <1>14 DEF Next, Run

LEMMA CallInvStep == CallInv /\ [Next]_vars => CallInv'
<1> SUFFICES ASSUME CallInv, [Next]_vars PROVE CallInv'
  OBVIOUS
<1>0. TypeOK /\ LockHeld /\ BatchKept /\ CaptureInForce
  BY DEF CallInv
<1>1. TypeOK' /\ LockHeld'
  BY <1>0, StepType, LockStep
<1>2. ASSUME NEW q \in Requests, pc'[q] \in Holding
      PROVE  /\ Len(txn'[q].bodies) = Len(Batch[q])
             /\ \A i \in 1 .. Len(Batch[q]) :
                  /\ txn'[q].bodies[i].id = Batch[q][i].id
                  /\ txn'[q].bodies[i].ref => Batch[q][i].payload
                  /\ pc'[q] \in {"prepared", "stored"} => (txn'[q].bodies[i].ref => capture')
  <2>0. txn[q].bodies \in Seq(Body) /\ capture \in BOOLEAN
    BY <1>0 DEF TypeOK, Txns
  <2>1. CASE /\ pc[q] = "waiting" /\ pc'[q] = "prepared"
             /\ UNCHANGED <<capture, limit, usage>> /\ txn'[q].day = txn[q].day
             /\ txn'[q].bodies = prepare_events(Batch[q], capture, Slots(q))
    <3> DEFINE p == prepare_events(Batch[q], capture, Slots(q))
    <3>1. /\ Len(p) = Len(Batch[q])
          /\ \A i \in 1 .. Len(Batch[q]) :
               p[i].id = Batch[q][i].id /\ (p[i].ref => capture /\ Batch[q][i].payload)
      BY <2>0, PreparedBodies
    <3> HIDE DEF p
    <3>2. txn'[q].bodies = p
      BY <2>1 DEF p
    <3> QED
      BY <2>1, <3>1, <3>2
  <2>2. CASE /\ pc[q] = "prepared" /\ pc'[q] = "stored"
             /\ txn'[q].bodies = WithoutPayloads(txn[q].bodies)
    <3>1. /\ Len(txn[q].bodies) = Len(Batch[q])
          /\ \A i \in 1 .. Len(Batch[q]) : txn[q].bodies[i].id = Batch[q][i].id
      BY <1>0, <2>2 DEF BatchKept, Holding
    <3>2. /\ Len(txn'[q].bodies) = Len(txn[q].bodies)
          /\ \A i \in 1 .. Len(txn[q].bodies) :
               txn'[q].bodies[i].id = txn[q].bodies[i].id /\ txn'[q].bodies[i].ref = FALSE
      BY <2>0, <2>2, DegradedBodies
    <3> QED
      BY <3>1, <3>2
  <2>3. CASE /\ pc[q] \in Holding
             /\ pc'[q] \in {"prepared", "stored"} => pc[q] \in {"prepared", "stored"}
             /\ txn'[q].bodies = txn[q].bodies /\ txn'[q].day = txn[q].day
    <3>1. capture' = capture
      BY <1>0, <2>3, ConfigStable
    <3> QED
      BY <1>0, <2>3, <3>1 DEF BatchKept, CaptureInForce
  <2> QED
    BY <1>0, <1>2, <2>1, <2>2, <2>3, HeldBatchStep
<1>3. BatchKept' /\ CaptureInForce'
  BY <1>2 DEF BatchKept, CaptureInForce, Holding
<1> QED
  BY <1>1, <1>3 DEF CallInv

LEMMA CallInvariant == Spec => []CallInv
<1>1. Init => CallInv
  BY CallInvInit
<1>2. CallInv /\ [Next]_vars => CallInv'
  BY CallInvStep
<1> QED
  BY <1>1, <1>2, PTL DEF Spec

\* No batch that read the old setting writes a payload reference after capture
\* was turned off.
THEOREM CaptureBarrierHolds == Spec => CaptureBarrier
<1>1. CallInv /\ [Next]_vars => [NoLatePayload]_vars
  <2> SUFFICES ASSUME CallInv, [Next]_vars, NEW row \in log' \ log, row.body.ref
               PROVE  capture
    BY DEF NoLatePayload
  <2>0. TypeOK /\ LockHeld /\ BatchKept /\ CaptureInForce
    BY DEF CallInv
  <2>1. PICK r \in Requests : InsertRows(r) \/ Commit(r)
    BY StepCases, QuietStepFrame
  <2>2. InsertRows(r)
    <3>1. Commit(r) => log' = log
      BY DEF Commit
    <3> QED
      BY <2>1, <3>1
  <2>3. pc[r] = "stored" /\ row \in ChainRows(txn[r].head, txn[r].bodies, Sub(r))
    BY <2>2 DEF InsertRows
  <2>4. PICK i \in 1 .. Len(txn[r].bodies) : row.body = txn[r].bodies[i]
    BY <2>3, ChainRowsIns
  <2>5. i \in 1 .. Len(Batch[r])
    BY <2>0, <2>3, <2>4 DEF BatchKept, Holding
  <2> QED
    BY <2>0, <2>3, <2>4, <2>5 DEF CaptureInForce
<1> QED
  BY <1>1, CallInvariant, PTL DEF Spec, CaptureBarrier

\* The collector implements the append-only record: a commit appends the events
\* of one batch, and every other step leaves the record as it is.
THEOREM CollectorImplementsRecord == Spec => RecordsWholeBatches
<1>1. Init => Abstract!Init
  BY DEF Init, Abstract!Init, EmptyHead, GENESIS_HASH
<1>2. CallInv /\ ChainInv /\ [Next]_vars => [Abstract!Next]_(head.hash)
  <2> SUFFICES ASSUME CallInv, ChainInv, [Next]_vars, head'.hash # head.hash
               PROVE  Abstract!Next
    OBVIOUS
  <2>0. TypeOK /\ BatchKept /\ SnapshotCurrent
    BY DEF CallInv, ChainInv
  <2>1. PICK r \in Requests : InsertRows(r) \/ Commit(r)
    BY StepCases, QuietStepFrame
  <2>2. Commit(r)
    <3>1. InsertRows(r) => head' = head
      BY DEF InsertRows
    <3> QED
      BY <2>1, <3>1
  <2> DEFINE b == txn[r].bodies
             kept == [i \in 1 .. Len(Batch[r]) |-> b[i].ref]
             recorded == [i \in 1 .. Len(Batch[r]) |->
                            [id |-> Batch[r][i].id, ref |-> kept[i]]]
  <2>3. /\ pc[r] \in Holding
        /\ head' = AdvanceHead(txn[r].head, b)
    BY <2>2 DEF Commit, Holding
  <2>4. head'.hash = head.hash \o b
    BY <2>0, <2>3 DEF AdvanceHead, SnapshotCurrent
  <2>5. /\ b \in Seq(Body)
        /\ Len(b) = Len(Batch[r])
        /\ \A i \in 1 .. Len(Batch[r]) :
             /\ b[i].id = Batch[r][i].id
             /\ b[i].ref => Batch[r][i].payload
    BY <2>0, <2>3 DEF BatchKept, TypeOK, Txns
  <2> HIDE DEF b
  <2>6. \A i \in 1 .. Len(Batch[r]) : b[i] = [id |-> b[i].id, ref |-> b[i].ref] /\ b[i].ref \in BOOLEAN
    <3>1. \A i \in 1 .. Len(Batch[r]) : b[i] \in Body
      BY <2>5, ElementOfSeq
    <3> QED
      BY <3>1 DEF Body
  <2>7. kept \in [1 .. Len(Batch[r]) -> BOOLEAN]
    BY <2>6
  <2>8. b = recorded
    <3>1. \A i \in 1 .. Len(Batch[r]) : b[i] = [id |-> Batch[r][i].id, ref |-> kept[i]]
      BY <2>5, <2>6
    <3>2. b = [i \in 1 .. Len(Batch[r]) |-> b[i]]
      BY <2>5, LenProperties
    <3> QED
      BY <3>1, <3>2
  <2>9. \A i \in 1 .. Len(Batch[r]) : kept[i] => Batch[r][i].payload
    BY <2>5
  <2>10. Abstract!Record(r)
    BY <2>4, <2>7, <2>8, <2>9 DEF Abstract!Record
  <2> QED
    BY <2>10 DEF Abstract!Next
<1> QED
  BY <1>1, <1>2, CallInvariant, ChainInvariant, PTL
     DEF Spec, RecordsWholeBatches, Abstract!Spec

-----------------------------------------------------------------------------
(* The payload allowance of a token. *)

LEMMA GreatestElement ==
  ASSUME NEW n \in Nat, NEW T \in SUBSET (1 .. n), T # {}
  PROVE  \E m \in T : \A k \in T : k <= m
<1> DEFINE Above(i) == {k \in T : k > i}
           F == {Above(i) : i \in T}
<1>1. IsFiniteSet(T)
  <2>1. IsFiniteSet(1 .. n)
    BY FS_Interval
  <2> QED
    BY <2>1, FS_Subset
<1>2. F \subseteq FiniteSubsetsOf(T) /\ F # {}
  <2>1. FiniteSubsetsOf(T) = SUBSET T
    BY <1>1, FS_FiniteSubsetsOfFinite
  <2>2. \A i \in T : Above(i) \in SUBSET T
    OBVIOUS
  <2>3. \E i : i \in T
    OBVIOUS
  <2> HIDE DEF Above
  <2>4. F # {}
    BY <2>3
  <2>5. F \subseteq SUBSET T
    BY <2>2
  <2> QED
    BY <2>1, <2>4, <2>5
<1>3. IsWellFoundedOn(StrictSubsetOrdering(T), FiniteSubsetsOf(T))
  BY FS_StrictSubsetOrderingWellFounded
<1>4. PICK X \in F : \A Y \in F : ~ (<<Y, X>> \in StrictSubsetOrdering(T))
  <2> HIDE DEF F
  <2> QED
    BY <1>2, <1>3, WFMin
<1>5. PICK m \in T : X = Above(m)
  BY <1>4
<1>6. ASSUME NEW k \in T, k > m PROVE FALSE
  <2>1. Above(k) \in F /\ Above(k) \subseteq T /\ Above(m) \subseteq T
    OBVIOUS
  <2>2. Above(k) \subseteq Above(m)
    <3>1. \A x \in T : x \in Int
      OBVIOUS
    <3>2. \A x \in T : x > k => x > m
      BY <1>6, <3>1
    <3> QED
      BY <3>2
  <2>3. k \in Above(m) /\ k \notin Above(k)
    BY <1>6
  <2>4. <<Above(k), X>> \in StrictSubsetOrdering(T)
    BY <1>5, <2>1, <2>2, <2>3 DEF StrictSubsetOrdering
  <2> QED
    BY <1>4, <2>1, <2>4
<1> QED
  BY <1>6

\* A batch keeps at most as many payloads as it was given slots, and none while
\* capture is off.
LEMMA CapturedWithinSlots ==
  ASSUME NEW r \in Requests, NEW on \in BOOLEAN, NEW slots \in Nat
  PROVE  LET count == CapturedCount(prepare_events(Batch[r], on, slots))
         IN  count \in Nat /\ count <= slots /\ (count > 0 => on)
<1> DEFINE p == prepare_events(Batch[r], on, slots)
           T == {i \in 1 .. Len(p) : p[i].ref}
<1>1. /\ p \in Seq(Body) /\ Len(p) = Len(Batch[r]) /\ Len(p) \in Nat
      /\ \A i \in 1 .. Len(p) : p[i].ref => on /\ Batch[r][i].payload
  BY PreparedBodies, BatchType
<1>2. \A i \in 1 .. Len(p) : p[i].ref => PayloadsIn(Batch[r], i) <= slots
  <2> SUFFICES ASSUME NEW i \in 1 .. Len(p), p[i].ref
               PROVE  PayloadsIn(Batch[r], i) <= slots
    OBVIOUS
  <2>1. p[i].ref = (on /\ Batch[r][i].payload /\ PayloadsIn(Batch[r], i) <= slots)
    BY <1>1 DEF prepare_events
  <2> QED
    BY <2>1
<1>3. CapturedCount(p) = Cardinality(T) /\ T \in SUBSET (1 .. Len(p))
  BY DEF CapturedCount
<1> HIDE DEF p
<1>4. Cardinality(T) \in Nat
  BY <1>1, CountIsNat
<1>5. CASE T = {}
  <2>1. CapturedCount(p) = 0
    BY <1>3, <1>5, FS_EmptySet
  <2> QED
    BY <2>1 DEF p
<1>6. CASE T # {}
  <2>1. PICK m \in T : \A k \in T : k <= m
    BY <1>1, <1>6, GreatestElement
  <2> DEFINE U == {j \in 1 .. m : Batch[r][j].payload}
  <2>2. m \in 1 .. Len(p) /\ m \in Nat
    BY <1>1, <2>1
  <2>3. T \subseteq U
    BY <1>1, <2>1, <2>2
  <2>4. IsFiniteSet(U)
    <3>1. IsFiniteSet(1 .. m)
      BY <2>2, FS_Interval
    <3> QED
      BY <3>1, FS_Subset
  <2>5. Cardinality(T) <= Cardinality(U)
    BY <2>3, <2>4, FS_Subset
  <2>6. Cardinality(U) <= slots
    BY <1>2, <2>1, <2>2 DEF PayloadsIn
  <2>7. Cardinality(U) \in Nat
    BY <2>4, FS_CardinalityType
  <2>8. on
    BY <1>1, <2>1, <2>2
  <2> QED
    BY <1>3, <1>4, <2>5, <2>6, <2>7, <2>8 DEF p
<1> QED
  BY <1>5, <1>6

\* The plan never grants more than what is left of the allowance.
LEMMA SlotsWithinAllowance ==
  ASSUME NEW current \in Nat, NEW wanted \in Nat, NEW cap \in Nat \cup {Unlimited}
  PROVE  LET slots == decide_capture(current, wanted, cap)
         IN  /\ slots \in Nat
             /\ slots > 0 => cap = Unlimited \/ current + slots <= cap
BY IngestAssumption DEF decide_capture

\* What the call is about to charge its token fits within the limit.
ChargeFits ==
  \A r \in Requests : pc[r] \in Holding /\ Token[r] # NoToken =>
    LET count == CapturedCount(txn[r].bodies)
    IN  count > 0 =>
          limit = Unlimited \/ usage[<<Token[r], txn[r].day>>] + count <= limit

AllowanceInv == TypeOK /\ LockHeld /\ ChargeFits

LEMMA PrepareFits ==
  ASSUME TypeOK, NEW r \in Requests, Token[r] # NoToken,
         CapturedCount(prepare_events(Batch[r], capture, Slots(r))) > 0
  PROVE  \/ limit = Unlimited
         \/ usage[<<Token[r], txn[r].day>>]
              + CapturedCount(prepare_events(Batch[r], capture, Slots(r))) <= limit
<1> DEFINE current == usage[<<Token[r], txn[r].day>>]
           wanted == PayloadsIn(Batch[r], Len(Batch[r]))
           count == CapturedCount(prepare_events(Batch[r], capture, Slots(r)))
<1>1. current \in Nat
  BY IngestAssumption DEF TypeOK, Txns
<1>2. wanted \in Nat
  BY BatchType, CountIsNat DEF PayloadsIn
<1>3. limit \in Nat \cup {Unlimited} /\ capture \in BOOLEAN
  BY IngestAssumption DEF TypeOK
<1>4. Slots(r) \in Nat
  BY <1>1, <1>2, <1>3, SlotsWithinAllowance DEF Slots
<1>5. count \in Nat /\ count <= Slots(r) /\ capture
  BY <1>3, <1>4, CapturedWithinSlots
<1>6. Slots(r) = decide_capture(current, wanted, limit)
  BY <1>5 DEF Slots
<1>7. count > 0
  OBVIOUS
<1> HIDE DEF current, wanted, count
<1>8. Slots(r) > 0 => limit = Unlimited \/ current + Slots(r) <= limit
  BY <1>1, <1>2, <1>3, <1>6, SlotsWithinAllowance
<1>9. limit = Unlimited \/ current + count <= limit
  BY <1>1, <1>3, <1>4, <1>5, <1>7, <1>8
<1> QED
  BY <1>9 DEF current, count

LEMMA UsageStep ==
  ASSUME TypeOK, [Next]_vars
  PROVE  \/ usage' = usage
         \/ \E r \in Requests : Commit(r)
BY DEF Next, Run, vars, stores, UpdateSettings, Open, Prepare, SkipPayloads, StorePayloads,
       StoreConflict, DegradePayloads, InsertRows, Abort, Retry, SetPlan, NextDay

LEMMA AllowanceInvStep == AllowanceInv /\ [Next]_vars => AllowanceInv'
<1> SUFFICES ASSUME AllowanceInv, [Next]_vars PROVE AllowanceInv'
  OBVIOUS
<1>0. TypeOK /\ LockHeld /\ ChargeFits
  BY DEF AllowanceInv
<1>1. TypeOK' /\ LockHeld'
  BY <1>0, StepType, LockStep
<1>2. ASSUME NEW q \in Requests, pc'[q] \in Holding, Token[q] # NoToken,
             CapturedCount(txn'[q].bodies) > 0
      PROVE  \/ limit' = Unlimited
             \/ usage'[<<Token[q], txn'[q].day>>] + CapturedCount(txn'[q].bodies) <= limit'
  <2>1. CASE /\ pc[q] = "waiting" /\ pc'[q] = "prepared"
             /\ UNCHANGED <<capture, limit, usage>> /\ txn'[q].day = txn[q].day
             /\ txn'[q].bodies = prepare_events(Batch[q], capture, Slots(q))
    BY <1>0, <1>2, <2>1, PrepareFits
  <2>2. CASE /\ pc[q] = "prepared" /\ pc'[q] = "stored"
             /\ txn'[q].bodies = WithoutPayloads(txn[q].bodies)
    <3> DEFINE b == txn'[q].bodies
    <3>0. txn[q].bodies \in Seq(Body) /\ b = WithoutPayloads(txn[q].bodies)
      BY <1>0, <2>2 DEF TypeOK, Txns
    <3> HIDE DEF b
    <3>1. /\ Len(b) = Len(txn[q].bodies)
          /\ \A i \in 1 .. Len(txn[q].bodies) : b[i].ref = FALSE
      BY <3>0, DegradedBodies
    <3>2. {i \in 1 .. Len(b) : b[i].ref} = {}
      BY <3>1
    <3>3. CapturedCount(b) = 0
      BY <3>2, FS_EmptySet DEF CapturedCount
    <3> QED
      BY <1>2, <3>3 DEF b
  <2>3. CASE /\ pc[q] \in Holding
             /\ pc'[q] \in {"prepared", "stored"} => pc[q] \in {"prepared", "stored"}
             /\ txn'[q].bodies = txn[q].bodies /\ txn'[q].day = txn[q].day
    <3>1. limit' = limit
      BY <1>0, <2>3, ConfigStable
    <3>2. usage' = usage
      <4>1. ASSUME NEW r \in Requests, Commit(r) PROVE FALSE
        <5>1. pc[r] \in Holding /\ pc' = [pc EXCEPT ![r] = "done"]
          BY <4>1 DEF Commit, Goto, Holding
        <5>2. r = q
          BY <1>0, <2>3, <5>1, OneHolder
        <5> QED
          BY <1>0, <1>2, <5>1, <5>2 DEF TypeOK, Holding
      <4> QED
        BY <1>0, <4>1, UsageStep
    <3>3. \/ limit = Unlimited
          \/ usage[<<Token[q], txn[q].day>>] + CapturedCount(txn[q].bodies) <= limit
      BY <1>0, <1>2, <2>3 DEF ChargeFits
    <3> QED
      BY <2>3, <3>1, <3>2, <3>3
  <2> QED
    BY <1>0, <1>2, <2>1, <2>2, <2>3, HeldBatchStep
<1>3. ChargeFits'
  BY <1>2 DEF ChargeFits, CapturedCount
<1> QED
  BY <1>1, <1>3 DEF AllowanceInv

\* No token is ever charged for more payloads on a day than the plan in force
\* allows, whatever calls, plan changes and midnights come between.
THEOREM AllowanceIsRespected == Spec => AllowanceRespected
<1>1. Init => AllowanceInv
  <2>1. Init => ChargeFits
    BY DEF Init, ChargeFits, Holding
  <2> QED
    BY <2>1, InitType, LockInit DEF AllowanceInv
<1>2. AllowanceInv /\ [Next]_vars => AllowanceInv'
  BY AllowanceInvStep
<1>3. AllowanceInv /\ [Next]_vars => [ChargedWithinLimit]_vars
  <2> SUFFICES ASSUME AllowanceInv, [Next]_vars, NEW t \in Tokens, NEW d \in Days,
                      usage'[<<t, d>>] > usage[<<t, d>>]
               PROVE  limit = Unlimited \/ usage'[<<t, d>>] <= limit
    BY DEF ChargedWithinLimit
  <2>0. TypeOK /\ ChargeFits
    BY DEF AllowanceInv
  <2>1. usage[<<t, d>>] \in Nat
    BY <2>0 DEF TypeOK
  <2>2. PICK r \in Requests : Commit(r)
    <3>1. usage' # usage
      BY <2>1
    <3> QED
      BY <2>0, <3>1, UsageStep
  <2> DEFINE count == CapturedCount(txn[r].bodies)
  <2>3. count \in Nat
    BY <2>0, CountsAreNat DEF TypeOK, Txns
  <2>4. /\ pc[r] \in Holding
        /\ usage' = IF Token[r] = NoToken THEN usage
                    ELSE [usage EXCEPT ![<<Token[r], txn[r].day>>] = @ + count]
    BY <2>2 DEF Commit, Holding, ChargeDate, Charge
  <2> HIDE DEF count
  <2>5. Token[r] # NoToken /\ <<Token[r], txn[r].day>> = <<t, d>>
    <3>1. CASE Token[r] = NoToken
      BY <2>1, <2>4, <3>1
    <3>2. CASE Token[r] # NoToken /\ <<Token[r], txn[r].day>> # <<t, d>>
      <4>1. usage'[<<t, d>>] = usage[<<t, d>>]
        BY <2>0, <2>4, <3>2 DEF TypeOK
      <4> QED
        BY <2>1, <4>1
    <3> QED
      BY <3>1, <3>2
  <2>6. usage'[<<t, d>>] = usage[<<t, d>>] + count
    BY <2>0, <2>4, <2>5 DEF TypeOK
  <2>7. count > 0
    BY <2>1, <2>3, <2>6
  <2>8. limit = Unlimited \/ usage[<<t, d>>] + count <= limit
    BY <2>0, <2>4, <2>5, <2>7 DEF ChargeFits, count
  <2> QED
    BY <2>6, <2>8
<1> QED
  BY <1>1, <1>2, <1>3, PTL DEF Spec, AllowanceRespected

-----------------------------------------------------------------------------
(* Payloads. *)

\* A call that has payload references in hand has stored their object; one that has not
\* come so far has stored nothing.
PayloadsStored ==
  \A r \in Requests :
    /\ pc[r] \in {"waiting", "prepared"} => ~txn[r].stored
    /\ pc[r] \in {"stored", "inserted"} =>
         /\ Refs(txn[r].bodies) # {} => txn[r].stored
         /\ txn[r].stored => Sub(r) \in objects

PayloadInv == ChainInv /\ PayloadsStored /\ PayloadsResolve

\* Without payload references nothing is referred to.
LEMMA DegradedRefs ==
  ASSUME NEW bodies \in Seq(Body)
  PROVE  Refs(WithoutPayloads(bodies)) = {}
BY DegradedBodies DEF Refs

LEMMA PayloadsStoredStep ==
  TypeOK /\ LockHeld /\ PayloadsStored /\ [Next]_vars => PayloadsStored'
<1> SUFFICES ASSUME TypeOK, LockHeld, PayloadsStored, [Next]_vars, NEW q \in Requests
             PROVE  /\ pc'[q] \in {"waiting", "prepared"} => ~txn'[q].stored
                    /\ pc'[q] \in {"stored", "inserted"} =>
                         /\ Refs(txn'[q].bodies) # {} => txn'[q].stored
                         /\ txn'[q].stored => Sub(q)' \in objects'
  BY DEF PayloadsStored, Refs
<1> DEFINE Goal == /\ pc'[q] \in {"waiting", "prepared"} => ~txn'[q].stored
                   /\ pc'[q] \in {"stored", "inserted"} =>
                        /\ Refs(txn'[q].bodies) # {} => txn'[q].stored
                        /\ txn'[q].stored => Sub(q)' \in objects'
<1> USE DEF Goto
<1>0. /\ pc \in [Requests -> Phases] /\ txn \in [Requests -> Txns] /\ try \in [Requests -> Nat]
      /\ pc[q] \in {"waiting", "prepared"} => ~txn[q].stored
      /\ pc[q] \in {"stored", "inserted"} =>
           /\ Refs(txn[q].bodies) # {} => txn[q].stored
           /\ txn[q].stored => Sub(q) \in objects
  BY DEF TypeOK, PayloadsStored
\* A call that the step leaves alone.
<1>1. ASSUME pc'[q] = pc[q], txn'[q] = txn[q], try'[q] = try[q], objects \subseteq objects'
      PROVE  Goal
  <2>1. Sub(q)' = Sub(q)
    BY <1>1 DEF Sub
  <2>2. QED
    BY <1>0, <1>1, <2>1
\* A call that goes where it holds nothing.
<1>2. ASSUME pc'[q] \in {"new", "ready", "failed", "done"}
      PROVE  Goal
  BY <1>2
<1>3. ASSUME NEW r \in Requests, Open(r) PROVE Goal
  <2>1. CASE q = r
    <3>1. txn'[r] = [NoTxn EXCEPT !.day = CurrentDate]
      BY <1>0, <1>3 DEF Open
    <3>2. ~txn'[r].stored
      BY <3>1 DEF NoTxn
    <3>3. pc'[r] = "waiting"
      BY <1>0, <1>3 DEF Open
    <3>4. QED
      BY <2>1, <3>2, <3>3
  <2>2. CASE q # r
    BY <1>0, <1>1, <1>3, <2>2 DEF Open, stores
  <2>3. QED
    BY <2>1, <2>2
<1>4. ASSUME NEW r \in Requests, Prepare(r) PROVE Goal
  <2>1. CASE q = r
    <3>1. txn'[r] = [txn[r] EXCEPT !.head = head,
                                   !.bodies = prepare_events(Batch[r], capture, Slots(r))]
      BY <1>0, <1>4 DEF Prepare
    <3>2. txn'[r].stored = txn[r].stored
      BY <1>0, <3>1 DEF Txns
    <3>3. pc'[r] = "prepared" /\ pc[r] = "waiting"
      BY <1>0, <1>4 DEF Prepare
    <3>4. QED
      BY <1>0, <2>1, <3>2, <3>3
  <2>2. CASE q # r
    BY <1>0, <1>1, <1>4, <2>2 DEF Prepare, stores
  <2>3. QED
    BY <2>1, <2>2
<1>5. ASSUME NEW r \in Requests, SkipPayloads(r) PROVE Goal
  <2>1. CASE q = r
    BY <1>0, <1>5, <2>1 DEF SkipPayloads
  <2>2. CASE q # r
    BY <1>0, <1>1, <1>5, <2>2 DEF SkipPayloads, stores
  <2>3. QED
    BY <2>1, <2>2
<1>6. ASSUME NEW r \in Requests, StorePayloads(r) PROVE Goal
  <2>1. CASE q = r
    <3>1. txn'[r] = [txn[r] EXCEPT !.stored = TRUE] /\ pc'[r] = "stored" /\ try' = try
          /\ objects' = objects \cup {Sub(r)}
      BY <1>0, <1>6 DEF StorePayloads
    <3>2. txn'[r].stored /\ Sub(r)' = Sub(r)
      BY <1>0, <3>1 DEF Txns, Sub
    <3>3. QED
      BY <2>1, <3>1, <3>2
  <2>2. CASE q # r
    BY <1>0, <1>1, <1>6, <2>2 DEF StorePayloads
  <2>3. QED
    BY <2>1, <2>2
<1>7. ASSUME NEW r \in Requests, StoreConflict(r) PROVE Goal
  <2>1. CASE q = r
    BY <1>0, <1>2, <1>7, <2>1 DEF StoreConflict
  <2>2. CASE q # r
    BY <1>0, <1>1, <1>7, <2>2 DEF StoreConflict
  <2>3. QED
    BY <2>1, <2>2
<1>8. ASSUME NEW r \in Requests, DegradePayloads(r) PROVE Goal
  <2>1. CASE q = r
    <3>1. /\ txn'[r] = [txn[r] EXCEPT !.bodies = WithoutPayloads(txn[r].bodies)]
          /\ pc'[r] = "stored" /\ pc[r] = "prepared"
      BY <1>0, <1>8 DEF DegradePayloads
    <3>2. txn'[r].stored = txn[r].stored /\ txn'[r].bodies = WithoutPayloads(txn[r].bodies)
      BY <1>0, <3>1 DEF Txns
    <3>3. Refs(txn'[r].bodies) = {}
      BY <1>0, <3>2, DegradedRefs DEF Txns
    <3>4. QED
      BY <1>0, <2>1, <3>1, <3>2, <3>3
  <2>2. CASE q # r
    BY <1>0, <1>1, <1>8, <2>2 DEF DegradePayloads
  <2>3. QED
    BY <2>1, <2>2
<1>9. ASSUME NEW r \in Requests, InsertRows(r) PROVE Goal
  <2>1. CASE q = r
    <3>1. Sub(r)' = Sub(r)
      BY <1>9 DEF InsertRows, Sub
    <3>2. QED
      BY <1>0, <1>9, <2>1, <3>1 DEF InsertRows
  <2>2. CASE q # r
    BY <1>0, <1>1, <1>9, <2>2 DEF InsertRows
  <2>3. QED
    BY <2>1, <2>2
<1>10. ASSUME NEW r \in Requests, Commit(r) PROVE Goal
  <2>1. /\ pc' = [pc EXCEPT ![r] = "done"] /\ txn' = [txn EXCEPT ![r] = NoTxn] /\ try' = try
        /\ objects' = objects
    BY <1>10 DEF Commit
  <2>2. CASE q = r
    BY <1>0, <1>2, <2>1, <2>2
  <2>3. CASE q # r
    BY <1>0, <1>1, <2>1, <2>3
  <2>4. QED
    BY <2>2, <2>3
<1>11. ASSUME NEW r \in Requests, NEW on \in BOOLEAN,
              UpdateSettings(r, on) \/ Abort(r) \/ Retry(r)
       PROVE  Goal
  <2>1. CASE q = r
    BY <1>0, <1>2, <1>11, <2>1 DEF UpdateSettings, Abort, Retry
  <2>2. CASE q # r
    BY <1>0, <1>1, <1>11, <2>2 DEF UpdateSettings, Abort, Retry, stores
  <2>3. QED
    BY <2>1, <2>2
<1>12. CASE NextDay \/ UNCHANGED vars \/ \E cap \in Limits \cup {Unlimited} : SetPlan(cap)
  BY <1>1, <1>12 DEF NextDay, SetPlan, vars, stores
<1>13. QED
  BY <1>3, <1>4, <1>5, <1>6, <1>7, <1>8, <1>9, <1>10, <1>11, <1>12 DEF Next, Run

\* What a commit promises of its payloads is stored, and is what its rows say.
LEMMA ResolveCommit ==
  ASSUME PayloadInv, NEW r \in Requests, Commit(r)
  PROVE  PayloadsResolve'
<1> DEFINE b == txn[r].bodies
           new == ChainRows(txn[r].head, b, Sub(r))
<1>1. /\ pc[r] = "inserted" /\ objects' = objects /\ log' = log
      /\ commits' = commits \cup {Sub(r)}
      /\ segments' = segments \cup
           {[ref |-> id, obj |-> Sub(r)] : id \in IF txn[r].stored THEN Refs(b) ELSE {}}
  BY DEF Commit
<1>2. /\ Refs(b) # {} => txn[r].stored
      /\ txn[r].stored => Sub(r) \in objects
  BY <1>1 DEF PayloadInv, PayloadsStored
<1>3. segments' = segments \cup {[ref |-> id, obj |-> Sub(r)] : id \in Refs(b)}
  BY <1>1, <1>2
<1>4. CommittedRows' = CommittedRows \cup new
  <2>1. {row \in log : row.ins = Sub(r)} = new
    BY <1>1 DEF PayloadInv, ChainInv, RowsLanded
  <2>2. QED
    BY <1>1, <2>1 DEF CommittedRows
<1>5. /\ b \in Seq(Body) /\ Len(b) \in Nat
      /\ txn[r].head \in ChainHeads /\ Len(txn[r].head.hash) = txn[r].head.seq
  <2>1. txn[r] \in Txns /\ txn[r].head = head /\ head \in ChainHeads /\ Len(head.hash) = head.seq
    BY <1>1 DEF PayloadInv, ChainInv, TypeOK, HeadLength, SnapshotCurrent, Holding
  <2>2. QED
    BY <2>1, LenProperties DEF Txns
<1>6. \A row \in new : row.ins = Sub(r) /\ \E i \in 1 .. Len(b) : row.body = b[i]
  BY ChainRowsIns
<1>7. \A i \in 1 .. Len(b) : \E row \in new : row.ins = Sub(r) /\ row.body = b[i]
  <2> SUFFICES ASSUME NEW i \in 1 .. Len(b)
               PROVE  \E row \in new : row.ins = Sub(r) /\ row.body = b[i]
    OBVIOUS
  <2>1. [ seq  |-> txn[r].head.seq + i,
          prev |-> txn[r].head.hash \o SubSeq(b, 1, i - 1),
          body |-> b[i],
          hash |-> compute_event_hash(txn[r].head.hash \o SubSeq(b, 1, i - 1), b[i]),
          ins  |-> Sub(r) ] \in new
    BY DEF ChainRows
  <2>2. QED
    BY <2>1
<1> HIDE DEF b, new
<1>8. ASSUME NEW row \in CommittedRows', row.body.ref
      PROVE  [ref |-> row.body.id, obj |-> row.ins] \in segments'
  <2>1. CASE row \in CommittedRows
    BY <1>3, <1>8, <2>1 DEF PayloadInv, PayloadsResolve
  <2>2. CASE row \in new
    <3>1. PICK i \in 1 .. Len(b) : row.ins = Sub(r) /\ row.body = b[i]
      BY <1>6, <2>2
    <3>2. row.body.id \in Refs(b)
      BY <1>8, <3>1 DEF Refs
    <3>3. QED
      BY <1>3, <3>1, <3>2
  <2>3. QED
    BY <1>4, <2>1, <2>2
<1>9. ASSUME NEW s \in segments'
      PROVE  /\ s.obj \in objects'
             /\ \E row \in CommittedRows' :
                  row.ins = s.obj /\ row.body = [id |-> s.ref, ref |-> TRUE]
  <2>1. CASE s \in segments
    BY <1>1, <1>4, <2>1 DEF PayloadInv, PayloadsResolve
  <2>2. CASE s \notin segments
    <3>1. PICK id \in Refs(b) : s = [ref |-> id, obj |-> Sub(r)]
      BY <1>3, <2>2
    <3>2. PICK i \in 1 .. Len(b) : b[i].ref /\ b[i].id = id
      BY DEF Refs
    <3>3. b[i] = [id |-> id, ref |-> TRUE]
      <4>1. b[i] \in Body
        BY <1>5, ElementOfSeq
      <4>2. QED
        BY <3>2, <4>1 DEF Body
    <3>4. PICK row \in new : row.ins = Sub(r) /\ row.body = b[i]
      BY <1>7
    <3>5. s.obj = Sub(r) /\ s.ref = id
      BY <3>1
    <3>6. Sub(r) \in objects'
      BY <1>1, <1>2, <3>1
    <3>7. QED
      BY <1>4, <3>3, <3>4, <3>5, <3>6
  <2>3. QED
    BY <2>1, <2>2
<1>10. QED
  BY <1>8, <1>9 DEF PayloadsResolve

LEMMA PayloadInvStep == PayloadInv /\ [Next]_vars => PayloadInv'
<1> SUFFICES ASSUME PayloadInv, [Next]_vars PROVE PayloadInv'
  OBVIOUS
<1>1. ChainInv' /\ PayloadsStored'
  BY ChainInvStep, PayloadsStoredStep DEF PayloadInv, ChainInv
<1>2. ASSUME CommittedRows' = CommittedRows, segments' = segments, objects \subseteq objects'
      PROVE  PayloadsResolve'
  BY <1>2 DEF PayloadInv, PayloadsResolve
<1>3. CASE QuietStep
  <2>1. CommittedRows' = CommittedRows
    BY <1>3, QuietStepFrame DEF CommittedRows
  <2>2. segments' = segments /\ objects \subseteq objects'
    BY <1>3 DEF QuietStep, vars, UpdateSettings, Open, Prepare, SkipPayloads, StorePayloads,
       StoreConflict, DegradePayloads, Abort, Retry, SetPlan, NextDay, stores
  <2>3. QED
    BY <1>1, <1>2, <2>1, <2>2 DEF PayloadInv
<1>4. ASSUME NEW r \in Requests, InsertRows(r) PROVE PayloadsResolve'
  <2>1. /\ pc[r] = "stored" /\ commits' = commits /\ segments' = segments /\ objects' = objects
        /\ log' = log \cup ChainRows(txn[r].head, txn[r].bodies, Sub(r))
    BY <1>4 DEF InsertRows
  <2>2. Sub(r) \notin commits
    BY <2>1 DEF PayloadInv, ChainInv, SubmissionsFresh
  <2>3. \A row \in ChainRows(txn[r].head, txn[r].bodies, Sub(r)) : row.ins = Sub(r)
    BY ChainRowsIns
  <2>4. CommittedRows' = CommittedRows
    BY <2>1, <2>2, <2>3 DEF CommittedRows
  <2>5. QED
    BY <1>2, <2>1, <2>4
<1>5. ASSUME NEW r \in Requests, Commit(r) PROVE PayloadsResolve'
  BY <1>5, ResolveCommit
<1>6. QED
  BY <1>1, <1>3, <1>4, <1>5, StepCases DEF PayloadInv

\* What a committed row promises can be fetched, and nothing is kept that no committed row
\* refers to (PayloadsResolve).
THEOREM PayloadsAlwaysResolve == Spec => []PayloadsResolve
<1>1. Init => PayloadInv
  <2>1. Init => PayloadsStored /\ PayloadsResolve
    BY DEF Init, PayloadsStored, PayloadsResolve, CommittedRows
  <2>2. QED
    BY <2>1, ChainInvInit DEF PayloadInv
<1>2. PayloadInv /\ [Next]_vars => PayloadInv'
  BY PayloadInvStep
<1>3. PayloadInv => PayloadsResolve
  BY DEF PayloadInv
<1>4. QED
  BY <1>1, <1>2, <1>3, PTL DEF Spec

-----------------------------------------------------------------------------
(* Meters. *)

\* A batch with a token that is past the route holds no event of the control plane.
ProducersOnly ==
  \A r \in Requests : Token[r] # NoToken =>
    /\ pc[r] # "ready"
    /\ pc[r] \in {"waiting"} \cup Holding => ~ClaimsControlPlane(r)

MetersFinite ==
  /\ IsFiniteSet(CommittedRows)
  /\ IsFiniteSet(Counted(metered))
  /\ \A t \in Tokens : IsFiniteSet(Counted([d \in Days |-> usage[<<t, d>>]]))

MeterInv ==
  ChainInv /\ CallInv /\ ProducersOnly /\ MetersFinite /\ MetersMatchRecord

\* What two sets without a common element hold together.
LEMMA RowsAdded ==
  ASSUME NEW old, NEW new, IsFiniteSet(old), IsFiniteSet(new), old \cap new = {}
  PROVE  /\ IsFiniteSet(old \cup new)
         /\ Cardinality(old \cup new) = Cardinality(old) + Cardinality(new)
<1>1. Cardinality(old) \in Nat /\ Cardinality(new) \in Nat
  BY FS_CardinalityType
<1>2. Cardinality(old \cap new) = 0
  BY FS_EmptySet
<1>3. /\ IsFiniteSet(old \cup new)
      /\ Cardinality(old \cup new) = Cardinality(old) + Cardinality(new) - Cardinality(old \cap new)
  BY FS_Union
<1>4. QED
  BY <1>1, <1>2, <1>3

\* A meter that is raised by c has counted c events more.
LEMMA CountedGrows ==
  ASSUME NEW m \in [Days -> Nat], NEW d \in Days, NEW c \in Nat, IsFiniteSet(Counted(m))
  PROVE  LET n == [m EXCEPT ![d] = @ + c]
         IN  /\ IsFiniteSet(Counted(n))
             /\ Cardinality(Counted(n)) = Cardinality(Counted(m)) + c
<1> DEFINE n == [m EXCEPT ![d] = @ + c]
           new == m[d] + 1 .. m[d] + c
           more == {d} \X new
<1>1. m[d] \in Nat /\ n[d] = m[d] + c /\ \A e \in Days : e # d => n[e] = m[e]
  OBVIOUS
<1>2. IsFiniteSet(new) /\ Cardinality(new) = c
  <2>1. m[d] + 1 \in Int /\ m[d] + c \in Int
    BY <1>1
  <2>2. /\ IsFiniteSet(new)
        /\ Cardinality(new) = IF m[d] + 1 > m[d] + c THEN 0 ELSE (m[d] + c) - (m[d] + 1) + 1
    BY <2>1, FS_Interval
  <2>3. QED
    BY <1>1, <2>2
<1>3. IsFiniteSet(more) /\ Cardinality(more) = c
  <2>1. IsFiniteSet({d}) /\ Cardinality({d}) = 1
    BY FS_Singleton
  <2>2. IsFiniteSet(more) /\ Cardinality(more) = Cardinality({d}) * Cardinality(new)
    BY <1>2, <2>1, FS_Product
  <2>3. QED
    BY <1>2, <2>1, <2>2
<1>4. 1 .. n[d] = (1 .. m[d]) \cup new /\ (1 .. m[d]) \cap new = {}
  BY <1>1
<1> HIDE DEF n, new
<1>5. Counted(n) = Counted(m) \cup more
  <2>1. ASSUME NEW x \in Counted(n) PROVE x \in Counted(m) \cup more
    <3>1. PICK e \in Days : x \in {e} \X (1 .. n[e])
      BY <2>1 DEF Counted
    <3>2. CASE e = d
      BY <1>4, <3>1, <3>2 DEF Counted
    <3>3. CASE e # d
      BY <1>1, <3>1, <3>3 DEF Counted
    <3>4. QED
      BY <3>2, <3>3
  <2>2. ASSUME NEW x \in Counted(m) PROVE x \in Counted(n)
    <3>1. PICK e \in Days : x \in {e} \X (1 .. m[e])
      BY <2>2 DEF Counted
    <3>2. CASE e = d
      BY <1>4, <3>1, <3>2 DEF Counted
    <3>3. CASE e # d
      BY <1>1, <3>1, <3>3 DEF Counted
    <3>4. QED
      BY <3>2, <3>3
  <2>3. more \subseteq Counted(n)
    BY <1>4 DEF Counted
  <2>4. QED
    BY <2>1, <2>2, <2>3
<1>6. Counted(m) \cap more = {}
  BY <1>4 DEF Counted
<1> HIDE DEF more
<1>7. /\ IsFiniteSet(Counted(n))
      /\ Cardinality(Counted(n)) = Cardinality(Counted(m)) + Cardinality(more)
  BY <1>3, <1>5, <1>6, RowsAdded
<1>8. QED
  BY <1>3, <1>7 DEF n

\* As many rows of a batch lie at given places as there are places.
LEMMA RowsAtPlaces ==
  ASSUME NEW ins, NEW h \in ChainHeads, NEW b \in Seq(Body), Len(h.hash) = h.seq,
         NEW I \in SUBSET (1 .. Len(b))
  PROVE  LET at == {row \in ChainRows(h, b, ins) : row.seq - h.seq \in I}
         IN  IsFiniteSet(at) /\ Cardinality(at) = Cardinality(I)
<1> DEFINE rows == ChainRows(h, b, ins)
           at == {row \in rows : row.seq - h.seq \in I}
           place == [row \in at |-> row.seq - h.seq]
<1>1. /\ \A row \in rows : row.seq \in h.seq + 1 .. h.seq + Len(b)
      /\ \A k \in h.seq + 1 .. h.seq + Len(b) : \E row \in rows : row.seq = k
      /\ \A row1, row2 \in rows : row1.seq = row2.seq => row1 = row2
  <2>1. /\ \A row \in rows :
             /\ row.ins = ins
             /\ row.seq \in h.seq + 1 .. h.seq + Len(b)
             /\ row.hash = SubSeq(h.hash \o b, 1, row.seq)
             /\ row.body = b[row.seq - h.seq]
        /\ \A n \in h.seq + 1 .. h.seq + Len(b) : \E row \in rows : row.seq = n
        /\ \A row1, row2 \in rows : row1.seq = row2.seq => row1 = row2
    BY ChainRowsOnHead, Zenon
  <2> HIDE DEF rows
  <2>2. QED
    BY <2>1
<1>2. h.seq \in Nat /\ Len(b) \in Nat
  BY LenProperties DEF ChainHeads
<1> HIDE DEF rows
<1>3. place \in [at -> I]
  OBVIOUS
<1>4. \A x, y \in at : place[x] = place[y] => x = y
  BY <1>1, <1>2
<1>5. \A i \in I : \E x \in at : place[x] = i
  <2> SUFFICES ASSUME NEW i \in I PROVE \E x \in at : place[x] = i
    OBVIOUS
  <2>1. h.seq + i \in h.seq + 1 .. h.seq + Len(b)
    BY <1>2
  <2>2. PICK row \in rows : row.seq = h.seq + i
    BY <1>1, <2>1
  <2>3. row.seq - h.seq = i
    BY <1>2, <2>2
  <2>4. QED
    BY <2>3
<1>6. place \in Bijection(at, I)
  BY <1>3, <1>4, <1>5, Fun_IsBij
<1>7. ExistsBijection(I, at)
  BY <1>6, Fun_ExistsBijSymmetric DEF ExistsBijection
<1>8. IsFiniteSet(I)
  <2>1. 1 \in Int /\ Len(b) \in Int
    BY <1>2
  <2>2. IsFiniteSet(1 .. Len(b))
    BY <2>1, FS_Interval
  <2>3. QED
    BY <2>2, FS_Subset
<1>9. QED
  BY <1>7, <1>8, FS_Bijection DEF rows

\* The rows of a batch, and those of them that refer to a payload, counted.
LEMMA RowsCounted ==
  ASSUME NEW ins, NEW h \in ChainHeads, NEW b \in Seq(Body), Len(h.hash) = h.seq
  PROVE  LET rows == ChainRows(h, b, ins)
         IN  /\ IsFiniteSet(rows) /\ Cardinality(rows) = Len(b)
             /\ IsFiniteSet({row \in rows : row.body.ref})
             /\ Cardinality({row \in rows : row.body.ref}) = CapturedCount(b)
<1> DEFINE rows == ChainRows(h, b, ins)
           I == {i \in 1 .. Len(b) : b[i].ref}
<1>1. h.seq \in Nat /\ Len(b) \in Nat
  BY LenProperties DEF ChainHeads
<1>2. \A row \in rows : /\ row.seq \in h.seq + 1 .. h.seq + Len(b)
                        /\ row.body = b[row.seq - h.seq]
  BY ChainRowsOnHead
<1>3. \A row \in rows : row.seq - h.seq \in 1 .. Len(b)
  BY <1>1, <1>2
<1> HIDE DEF rows
<1>4. rows = {row \in rows : row.seq - h.seq \in 1 .. Len(b)}
  BY <1>3
<1>5. {row \in rows : row.body.ref} = {row \in rows : row.seq - h.seq \in I}
  BY <1>2, <1>3
<1>6. Cardinality(1 .. Len(b)) = Len(b)
  <2>1. 1 \in Int /\ Len(b) \in Int
    BY <1>1
  <2>2. Cardinality(1 .. Len(b)) = IF 1 > Len(b) THEN 0 ELSE Len(b) - 1 + 1
    BY <2>1, FS_Interval
  <2>3. QED
    BY <1>1, <2>2
<1>7. IsFiniteSet(rows) /\ Cardinality(rows) = Len(b)
  <2> DEFINE J == 1 .. Len(b)
  <2>1. J \in SUBSET (1 .. Len(b)) /\ rows = {row \in rows : row.seq - h.seq \in J}
    BY <1>4
  <2> HIDE DEF J
  <2>2. /\ IsFiniteSet({row \in rows : row.seq - h.seq \in J})
        /\ Cardinality({row \in rows : row.seq - h.seq \in J}) = Cardinality(J)
    BY <2>1, RowsAtPlaces DEF rows
  <2>3. QED
    BY <1>6, <2>1, <2>2 DEF J
<1>8. /\ IsFiniteSet({row \in rows : row.body.ref})
      /\ Cardinality({row \in rows : row.body.ref}) = CapturedCount(b)
  <2>1. I \in SUBSET (1 .. Len(b))
    OBVIOUS
  <2>2. CapturedCount(b) = Cardinality(I)
    BY DEF CapturedCount
  <2> HIDE DEF I
  <2>3. QED
    BY <1>5, <2>1, <2>2, RowsAtPlaces DEF rows
<1>9. QED
  BY <1>7, <1>8 DEF rows

\* A batch is metered as a whole, or not at all.
LEMMA MeteredWhole ==
  ASSUME NEW r \in Requests, Token[r] # NoToken => ~ClaimsControlPlane(r)
  PROVE  MeteredCount(Batch[r]) = IF ClaimsControlPlane(r) THEN 0 ELSE Len(Batch[r])
<1> DEFINE plain == {i \in 1 .. Len(Batch[r]) : ~Batch[r][i].admin}
<1>1. Len(Batch[r]) \in Nat
  BY BatchType
<1>2. CASE ClaimsControlPlane(r)
  <2>1. Len(Batch[r]) = 1
    BY <1>2, IngestAssumption
  <2>2. plain = {}
    BY <1>2, <2>1 DEF ClaimsControlPlane
  <2>3. QED
    BY <1>2, <2>2, FS_EmptySet DEF MeteredCount
<1>3. CASE ~ClaimsControlPlane(r)
  <2>1. plain = 1 .. Len(Batch[r])
    BY <1>3 DEF ClaimsControlPlane
  <2>2. Cardinality(1 .. Len(Batch[r])) = Len(Batch[r])
    BY <1>1, FS_Interval
  <2>3. QED
    BY <1>3, <2>1, <2>2 DEF MeteredCount
<1>4. QED
  BY <1>2, <1>3

LEMMA ProducersStep ==
  TypeOK /\ ProducersOnly /\ [Next]_vars => ProducersOnly'
<1> SUFFICES ASSUME TypeOK, ProducersOnly, [Next]_vars, NEW q \in Requests, Token[q] # NoToken
             PROVE  /\ pc'[q] # "ready"
                    /\ pc'[q] \in {"waiting"} \cup Holding => ~ClaimsControlPlane(q)
  BY DEF ProducersOnly, ClaimsControlPlane
<1> DEFINE Goal == /\ pc'[q] # "ready"
                   /\ pc'[q] \in {"waiting"} \cup Holding => ~ClaimsControlPlane(q)
<1> USE DEF Goto, Holding
<1>1. /\ pc \in [Requests -> Phases]
      /\ pc[q] # "ready"
      /\ pc[q] \in {"waiting"} \cup Holding => ~ClaimsControlPlane(q)
  BY DEF TypeOK, ProducersOnly
<1>2. ASSUME NEW r \in Requests, NEW on \in BOOLEAN, UpdateSettings(r, on) PROVE Goal
  BY <1>1, <1>2 DEF UpdateSettings
<1>3. ASSUME NEW r \in Requests, Open(r) PROVE Goal
  <2>1. CASE q = r
    <3>1. ~ClaimsControlPlane(q)
      BY <1>1, <1>3, <2>1 DEF Open, Arrived
    <3>2. pc'[q] = "waiting"
      BY <1>1, <1>3, <2>1 DEF Open
    <3>3. QED
      BY <3>1, <3>2
  <2>2. CASE q # r
    BY <1>1, <1>3, <2>2 DEF Open
  <2>3. QED
    BY <2>1, <2>2
<1>4. ASSUME NEW r \in Requests, Prepare(r) PROVE Goal
  BY <1>1, <1>4 DEF Prepare
<1>5. ASSUME NEW r \in Requests,
             SkipPayloads(r) \/ StorePayloads(r) \/ DegradePayloads(r) \/ InsertRows(r)
      PROVE  Goal
  BY <1>1, <1>5 DEF SkipPayloads, StorePayloads, DegradePayloads, InsertRows
<1>6. ASSUME NEW r \in Requests, StoreConflict(r) \/ Abort(r) \/ Retry(r)
      PROVE  Goal
  BY <1>1, <1>6 DEF StoreConflict, Abort, Retry
<1>7. ASSUME NEW r \in Requests, Commit(r) PROVE Goal
  <2>1. pc' = [pc EXCEPT ![r] = "done"]
    BY <1>7 DEF Commit
  <2>2. QED
    BY <1>1, <2>1
<1>8. CASE UNCHANGED pc
  BY <1>1, <1>8
<1>9. QED
  BY <1>2, <1>3, <1>4, <1>5, <1>6, <1>7, <1>8 DEF Next, Run, SetPlan, NextDay, vars

\* Only a commit writes the meters, and it counts the rows it adds to the record.
LEMMA MetersCommit ==
  ASSUME MeterInv, NEW r \in Requests, Commit(r)
  PROVE  MetersFinite' /\ MetersMatchRecord'
<1> DEFINE b == txn[r].bodies
           c == CapturedCount(b)
           k == MeteredCount(Batch[r])
           new == ChainRows(txn[r].head, b, Sub(r))
           meter(t) == [d \in Days |-> usage[<<t, d>>]]
           sent(rows, t) == {row \in rows : Token[row.ins.req] = t /\ row.body.ref}
           plain(rows) == {row \in rows : ~ClaimsControlPlane(row.ins.req)}
<1>1. /\ pc[r] = "inserted" /\ log' = log /\ commits' = commits \cup {Sub(r)}
      /\ metered' = [metered EXCEPT ![txn[r].day] = @ + k]
      /\ usage' = IF Token[r] = NoToken THEN usage
                  ELSE [usage EXCEPT ![<<Token[r], txn[r].day>>] = @ + c]
  BY DEF Commit, Charge, ChargeDate
<1>2. CommittedRows' = CommittedRows \cup new /\ CommittedRows \cap new = {}
  <2>1. {row \in log : row.ins = Sub(r)} = new /\ Sub(r) \notin commits
    BY <1>1 DEF MeterInv, ChainInv, RowsLanded, SubmissionsFresh
  <2>2. QED
    BY <1>1, <2>1 DEF CommittedRows
<1>3. /\ b \in Seq(Body) /\ txn[r].day \in Days /\ Len(b) = Len(Batch[r])
      /\ txn[r].head \in ChainHeads /\ Len(txn[r].head.hash) = txn[r].head.seq
  <2>1. txn[r] \in Txns /\ txn[r].head = head /\ head \in ChainHeads /\ Len(head.hash) = head.seq
    BY <1>1 DEF MeterInv, ChainInv, TypeOK, HeadLength, SnapshotCurrent, Holding
  <2>2. Len(b) = Len(Batch[r])
    BY <1>1 DEF MeterInv, CallInv, BatchKept, Holding
  <2>3. QED
    BY <2>1, <2>2 DEF Txns
<1>4. c \in Nat /\ k \in Nat
  BY <1>3, CountsAreNat
<1>5. /\ IsFiniteSet(new) /\ Cardinality(new) = Len(b)
      /\ IsFiniteSet({row \in new : row.body.ref})
      /\ Cardinality({row \in new : row.body.ref}) = c
  BY <1>3, RowsCounted
<1>6. k = IF ClaimsControlPlane(r) THEN 0 ELSE Len(b)
  BY <1>1, <1>3, MeteredWhole DEF MeterInv, ProducersOnly, Holding
<1>7. \A row \in new : row.ins.req = r
  BY ChainRowsIns DEF Sub
<1>8. /\ metered \in [Days -> Nat] /\ \A t \in Tokens : meter(t) \in [Days -> Nat]
      /\ usage \in [Tokens \X Days -> Nat]
  BY DEF MeterInv, ChainInv, TypeOK
<1>9. /\ IsFiniteSet(CommittedRows) /\ IsFiniteSet(Counted(metered))
      /\ \A t \in Tokens : IsFiniteSet(Counted(meter(t)))
      /\ \A t \in Tokens : Cardinality(Counted(meter(t))) = Cardinality(sent(CommittedRows, t))
      /\ Cardinality(Counted(metered)) = Cardinality(plain(CommittedRows))
  BY DEF MeterInv, MetersFinite, MetersMatchRecord
<1> HIDE DEF b, c, k, new
<1>10. IsFiniteSet(CommittedRows')
  BY <1>2, <1>5, <1>9, RowsAdded
<1>11. /\ IsFiniteSet(Counted(metered'))
       /\ Cardinality(Counted(metered')) = Cardinality(plain(CommittedRows'))
  <2>1. /\ IsFiniteSet(Counted(metered'))
        /\ Cardinality(Counted(metered')) = Cardinality(Counted(metered)) + k
    BY <1>1, <1>3, <1>4, <1>8, <1>9, CountedGrows
  <2>2. plain(new) = IF ClaimsControlPlane(r) THEN {} ELSE new
    BY <1>7
  <2>3. IsFiniteSet(plain(new)) /\ Cardinality(plain(new)) = k
    BY <1>5, <1>6, <2>2, FS_EmptySet
  <2>4. /\ plain(CommittedRows') = plain(CommittedRows) \cup plain(new)
        /\ plain(CommittedRows) \cap plain(new) = {}
    BY <1>2
  <2>5. IsFiniteSet(plain(CommittedRows))
    BY <1>9, FS_Subset
  <2> HIDE DEF plain
  <2>6. Cardinality(plain(CommittedRows')) = Cardinality(plain(CommittedRows)) + k
    BY <2>3, <2>4, <2>5, RowsAdded
  <2>7. QED
    BY <1>9, <2>1, <2>6
<1>12. ASSUME NEW t \in Tokens
       PROVE  LET after == [d \in Days |-> usage'[<<t, d>>]]
              IN  /\ IsFiniteSet(Counted(after))
                  /\ Cardinality(Counted(after)) = Cardinality(sent(CommittedRows', t))
  <2> DEFINE after == [d \in Days |-> usage'[<<t, d>>]]
  <2>1. /\ sent(CommittedRows', t) = sent(CommittedRows, t) \cup sent(new, t)
        /\ sent(CommittedRows, t) \cap sent(new, t) = {}
    BY <1>2
  <2>2. IsFiniteSet(sent(CommittedRows, t))
    BY <1>9, FS_Subset
  <2>3. CASE Token[r] = t
    <3>1. sent(new, t) = {row \in new : row.body.ref}
      BY <1>7, <2>3
    <3>2. after = [meter(t) EXCEPT ![txn[r].day] = @ + c]
      <4>1. t # NoToken
        BY IngestAssumption
      <4>2. usage' = [usage EXCEPT ![<<t, txn[r].day>>] = @ + c]
        BY <1>1, <2>3, <4>1
      <4>3. \A d \in Days : <<t, d>> \in Tokens \X Days
        OBVIOUS
      <4>4. \A d \in Days : usage'[<<t, d>>] = IF d = txn[r].day THEN usage[<<t, d>>] + c
                                               ELSE usage[<<t, d>>]
        BY <1>3, <1>8, <4>2, <4>3
      <4>5. QED
        BY <1>3, <4>4
    <3>3. /\ IsFiniteSet(Counted(after))
          /\ Cardinality(Counted(after)) = Cardinality(Counted(meter(t))) + c
      <4> DEFINE m == meter(t)
      <4>1. m \in [Days -> Nat] /\ IsFiniteSet(Counted(m)) /\ after = [m EXCEPT ![txn[r].day] = @ + c]
        BY <1>8, <1>9, <3>2
      <4> HIDE DEF m, after
      <4>2. QED
        BY <1>3, <1>4, <4>1, CountedGrows DEF m
    <3> HIDE DEF sent, meter, after
    <3>4. Cardinality(sent(CommittedRows', t)) = Cardinality(sent(CommittedRows, t)) + c
      BY <1>5, <2>1, <2>2, <3>1, RowsAdded
    <3>5. QED
      BY <1>9, <3>3, <3>4 DEF after
  <2>4. CASE Token[r] # t
    <3>1. sent(new, t) = {}
      BY <1>7, <2>4
    <3>2. \A d \in Days : usage'[<<t, d>>] = usage[<<t, d>>]
      BY <1>1, <1>8, <2>4
    <3>3. after = meter(t)
      BY <3>2
    <3>4. sent(CommittedRows', t) = sent(CommittedRows, t)
      BY <2>1, <3>1
    <3>5. QED
      BY <1>9, <3>3, <3>4
  <2>5. QED
    BY <2>3, <2>4
<1>13. QED
  BY <1>10, <1>11, <1>12 DEF MetersFinite, MetersMatchRecord

LEMMA MeterInvStep == MeterInv /\ [Next]_vars => MeterInv'
<1> SUFFICES ASSUME MeterInv, [Next]_vars PROVE MeterInv'
  OBVIOUS
<1>1. ChainInv' /\ CallInv' /\ ProducersOnly'
  BY ChainInvStep, CallInvStep, ProducersStep DEF MeterInv, ChainInv
<1>2. ASSUME CommittedRows' = CommittedRows, usage' = usage, metered' = metered
      PROVE  MetersFinite' /\ MetersMatchRecord'
  <2>1. Counted(metered)' = Counted(metered)
    BY <1>2 DEF Counted
  <2>2. \A t : Counted([d \in Days |-> usage[<<t, d>>]])' = Counted([d \in Days |-> usage[<<t, d>>]])
    BY <1>2 DEF Counted
  <2>3. MetersFinite'
    BY <1>2, <2>1, <2>2 DEF MeterInv, MetersFinite
  <2>4. /\ \A t : {row \in CommittedRows : Token[row.ins.req] = t /\ row.body.ref}'
                  = {row \in CommittedRows : Token[row.ins.req] = t /\ row.body.ref}
        /\ {row \in CommittedRows : ~ClaimsControlPlane(row.ins.req)}'
             = {row \in CommittedRows : ~ClaimsControlPlane(row.ins.req)}
    BY <1>2 DEF ClaimsControlPlane
  <2>5. MetersMatchRecord'
    BY <2>1, <2>2, <2>4 DEF MeterInv, MetersMatchRecord
  <2>6. QED
    BY <2>3, <2>5
<1>3. CASE QuietStep
  <2>1. CommittedRows' = CommittedRows
    BY <1>3, QuietStepFrame DEF CommittedRows
  <2>2. usage' = usage /\ metered' = metered
    BY <1>3 DEF QuietStep, vars, UpdateSettings, Open, Prepare, SkipPayloads, StorePayloads,
       StoreConflict, DegradePayloads, Abort, Retry, SetPlan, NextDay, stores
  <2>3. QED
    BY <1>1, <1>2, <2>1, <2>2 DEF MeterInv
<1>4. ASSUME NEW r \in Requests, InsertRows(r) PROVE MetersFinite' /\ MetersMatchRecord'
  <2>1. /\ pc[r] = "stored" /\ commits' = commits /\ usage' = usage /\ metered' = metered
        /\ log' = log \cup ChainRows(txn[r].head, txn[r].bodies, Sub(r))
    BY <1>4 DEF InsertRows
  <2>2. Sub(r) \notin commits
    BY <2>1 DEF MeterInv, ChainInv, SubmissionsFresh
  <2>3. \A row \in ChainRows(txn[r].head, txn[r].bodies, Sub(r)) : row.ins = Sub(r)
    BY ChainRowsIns
  <2>4. CommittedRows' = CommittedRows
    BY <2>1, <2>2, <2>3 DEF CommittedRows
  <2>5. QED
    BY <1>2, <2>1, <2>4
<1>5. ASSUME NEW r \in Requests, Commit(r) PROVE MetersFinite' /\ MetersMatchRecord'
  BY <1>5, MetersCommit
<1>6. QED
  BY <1>1, <1>3, <1>4, <1>5, StepCases DEF MeterInv

LEMMA MeterInvInit == Init => MeterInv
<1> SUFFICES ASSUME Init PROVE MeterInv
  OBVIOUS
<1>1. CommittedRows = {}
  BY DEF Init, CommittedRows
<1>2. ProducersOnly
  BY DEF Init, ProducersOnly, Holding
<1>3. \A m : (\A d \in Days : m[d] = 0) => Counted(m) = {}
  BY DEF Counted
<1>4. Counted(metered) = {} /\ \A t \in Tokens : Counted([d \in Days |-> usage[<<t, d>>]]) = {}
  <2>1. \A d \in Days : metered[d] = 0
    BY DEF Init
  <2>2. \A t \in Tokens, d \in Days : usage[<<t, d>>] = 0
    BY DEF Init
  <2>3. QED
    BY <1>3, <2>1, <2>2
<1>5. MetersFinite
  BY <1>1, <1>4, FS_EmptySet DEF MetersFinite
<1>6. MetersMatchRecord
  <2>1. \A t : {row \in CommittedRows : Token[row.ins.req] = t /\ row.body.ref} = {}
    BY <1>1
  <2>2. {row \in CommittedRows : ~ClaimsControlPlane(row.ins.req)} = {}
    BY <1>1
  <2>3. QED
    BY <1>4, <2>1, <2>2 DEF MetersMatchRecord
<1>7. QED
  BY <1>2, <1>5, <1>6, ChainInvInit, CallInvInit DEF MeterInv

\* The meters say what the log holds (MetersMatchRecord).
THEOREM MetersAlwaysMatch == Spec => []MetersMatchRecord
<1>1. Init => MeterInv
  BY MeterInvInit
<1>2. MeterInv /\ [Next]_vars => MeterInv'
  BY MeterInvStep
<1>3. MeterInv => MetersMatchRecord
  BY DEF MeterInv
<1>4. QED
  BY <1>1, <1>2, <1>3, PTL DEF Spec
==============================================================================
