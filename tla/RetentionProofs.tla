---------------------------- MODULE RetentionProofs ----------------------------
(***************************************************************************)
(* Retention, for any uploads, policies and bounds: types, rows that never *)
(* outlive their objects unless a sweep has died between its two deletes,  *)
(* and that nothing is deleted early.                                      *)
(***************************************************************************)
EXTENDS Retention, TLAPS

-----------------------------------------------------------------------------
(* Types. *)

\* Every step keeps the types.
LEMMA TypeStep == TypeOK /\ [Next]_vars => TypeOK'
<1> SUFFICES ASSUME TypeOK, [Next]_vars PROVE TypeOK'
  OBVIOUS
<1> USE RetentionAssumption DEF TypeOK, Days, PolicyType, SweepType, NewSweep,
        NewPolicy, NewTier
<1>1. CASE NextDay
  BY <1>1 DEF NextDay, stored, jobs
<1>2. ASSUME NEW b \in Batches, Put(b)
      PROVE  TypeOK'
  BY <1>2 DEF Put, jobs
<1>3. ASSUME NEW b \in Batches, Commit(b)
      PROVE  TypeOK'
  BY <1>3 DEF Commit, RecordedOn, jobs
<1>4. ASSUME NEW b \in Batches, Abort(b)
      PROVE  TypeOK'
  BY <1>4 DEF Abort, stored, jobs
<1>5. ASSUME NEW b \in Batches, delete_payload(b)
      PROVE  TypeOK'
  BY <1>5 DEF delete_payload, jobs
<1>6. ASSUME NEW b \in Batches, TierPick(b)
      PROVE  TypeOK'
  BY <1>6 DEF TierPick, stored
<1>7. ASSUME NEW days \in Policies, UpdateSettings(days)
      PROVE  TypeOK'
  BY <1>7 DEF UpdateSettings, stored, jobs
<1>8. CASE SweepBegin
  BY <1>8 DEF SweepBegin, stored
<1>9. CASE SweepList
  BY <1>9 DEF SweepList, stored, Items
<1>10. CASE SweepRead
  BY <1>10 DEF SweepRead, stored
<1>11. CASE SweepDelete
  BY <1>11 DEF SweepDelete
<1>12. CASE SweepCancel
  BY <1>12 DEF SweepCancel, stored
<1>13. CASE SweepCommit
  BY <1>13 DEF SweepCommit, DroppedRows
<1>14. CASE SweepDie
  BY <1>14 DEF SweepDie, stored
<1>15. CASE TierCopy
  BY <1>15 DEF TierCopy
<1>16. CASE TierMark
  BY <1>16 DEF TierMark, stored
<1>17. CASE UNCHANGED vars
  BY <1>17 DEF vars, stored, jobs
<1>18. QED
  BY <1>1, <1>2, <1>3, <1>4, <1>5, <1>6, <1>7, <1>8, <1>9, <1>10, <1>11, <1>12,
     <1>13, <1>14, <1>15, <1>16, <1>17 DEF Next

\* The types hold at the start.
LEMMA TypeInit == Init => TypeOK
<1> SUFFICES ASSUME Init PROVE TypeOK
  OBVIOUS
<1> USE RetentionAssumption DEF Init
<1>1. 0 \in Days /\ NewPolicy \in PolicyType
  BY DEF Days, NewPolicy, PolicyType
<1>2. sweep \in SweepType
  BY <1>1 DEF NewSweep, SweepType
<1>3. upload \in [Batches -> [at : {"new", "put", "done"}, opened : Days]]
  BY <1>1
<1>4. QED
  BY <1>1, <1>2, <1>3 DEF TypeOK

\* Every variable keeps its type in all behaviours (TypeOK).
THEOREM TypeCorrect == Spec => []TypeOK
<1>1. TypeOK /\ [Next]_vars => TypeOK'
  BY TypeStep
<1>2. QED
  BY TypeInit, <1>1, PTL DEF Spec

-----------------------------------------------------------------------------
(* Rows and objects. *)

\* An upload that has put its object holds the tenant's row, and so does a sweep
\* between its two deletes: neither can be in the other's way there.
LockedWrites ==
  /\ \A b \in Batches : upload[b].at = "put" => lock = b /\ modified[b] # Gone
  /\ sweep.at = "deleted" => lock = Sweeper

RowInv == TypeOK /\ LockedWrites /\ NoDanglingRow

LEMMA RowInit == Init => RowInv
<1>1. Init => TypeOK
  BY TypeInit
<1>2. QED
  BY <1>1 DEF Init, RowInv, LockedWrites, NoDanglingRow, NewSweep

\* Every step keeps the locks and the rows in order.
LEMMA RowStep == RowInv /\ [Next]_vars => RowInv'
<1> SUFFICES ASSUME RowInv, [Next]_vars PROVE RowInv'
  OBVIOUS
<1>0. TypeOK'
  BY TypeStep DEF RowInv
<1>a. SUFFICES LockedWrites' /\ NoDanglingRow'
  BY <1>0 DEF RowInv
<1> USE RetentionAssumption DEF RowInv, LockedWrites, NoDanglingRow, TypeOK
<1>1. CASE NextDay \/ UNCHANGED vars
  BY <1>1 DEF NextDay, vars, stored, jobs
<1>2. ASSUME NEW b \in Batches, Put(b)
      PROVE  LockedWrites' /\ NoDanglingRow'
  BY <1>2 DEF Put, jobs, Days
<1>3. ASSUME NEW b \in Batches, Commit(b)
      PROVE  LockedWrites' /\ NoDanglingRow'
  BY <1>3 DEF Commit, RecordedOn, jobs
<1>4. ASSUME NEW b \in Batches, Abort(b)
      PROVE  LockedWrites' /\ NoDanglingRow'
  BY <1>4 DEF Abort, stored, jobs
<1>5. ASSUME NEW b \in Batches, delete_payload(b) \/ TierPick(b)
      PROVE  LockedWrites' /\ NoDanglingRow'
  BY <1>5 DEF delete_payload, TierPick, stored, jobs
<1>6. ASSUME NEW days \in Policies, UpdateSettings(days)
      PROVE  LockedWrites' /\ NoDanglingRow'
  BY <1>6 DEF UpdateSettings, stored, jobs
<1>7. CASE SweepBegin
  BY <1>7 DEF SweepBegin, NewSweep, stored
<1>8. CASE SweepList \/ SweepRead \/ SweepCancel
  <2>1. UNCHANGED <<lock, upload, modified, created, broken>>
    BY <1>8 DEF SweepList, SweepRead, SweepCancel, stored
  <2>2. sweep.at # "deleted"
    BY <1>8 DEF SweepList, SweepRead, SweepCancel
  <2>3. sweep'.at # "deleted"
    <3>1. CASE SweepList
      BY <3>1 DEF SweepList, SweepType
    <3>2. CASE SweepRead
      BY <3>2 DEF SweepRead, SweepType
    <3>3. CASE SweepCancel
      BY <3>3 DEF SweepCancel, NewSweep
    <3>4. QED
      BY <1>8, <3>1, <3>2, <3>3
  <2>4. QED
    BY <2>1, <2>2, <2>3
<1>9. CASE SweepDelete
  BY <1>9 DEF SweepDelete, SweepType
<1>10. CASE SweepCommit
  BY <1>10 DEF SweepCommit, DroppedRows, SweepType
<1>11. CASE SweepDie
  BY <1>11 DEF SweepDie, NewSweep, stored
<1>12. CASE TierCopy
  BY <1>12 DEF TierCopy, NewTier, Days
<1>13. CASE TierMark
  BY <1>13 DEF TierMark, stored
<1>14. QED
  BY <1>1, <1>2, <1>3, <1>4, <1>5, <1>6, <1>7, <1>8, <1>9, <1>10, <1>11, <1>12,
     <1>13 DEF Next

\* Unless a sweep has died between its two deletes, a row never points at an
\* object that is gone but within that step (NoDanglingRow), for any number of
\* uploads, days and policy changes.
THEOREM RowsNeverDangle == Spec => []NoDanglingRow
<1>1. RowInv => NoDanglingRow
  BY DEF RowInv
<1>2. RowInv /\ [Next]_vars => RowInv'
  BY RowStep
<1>3. QED
  BY RowInit, <1>1, <1>2, PTL DEF Spec

-----------------------------------------------------------------------------
(* Dates. *)

\* Every date is that of the upload or a later one, and what a sweep has found
\* expired is older than the policy it has read allows.
DatesAgree ==
  /\ sweep.start <= day
  /\ \A b \in Batches :
       /\ upload[b].at = "new" => modified[b] = Gone /\ created[b] = Gone
       /\ created[b] # Gone => created[b] = upload[b].opened
       /\ modified[b] # Gone => upload[b].opened <= modified[b]
       /\ upload[b].opened <= day

ExpiryDecided ==
  /\ \A item \in sweep.listed :
       /\ upload[item.batch].at # "new"
       /\ upload[item.batch].opened <= item.date
  /\ sweep.at = "decided" => \A b \in sweep.expired :
       /\ upload[b].at # "new"
       /\ upload[b].opened < sweep.start - sweep.policy.days

DateInv == TypeOK /\ DatesAgree /\ ExpiryDecided

LEMMA DateInit == Init => DateInv
<1>1. Init => TypeOK
  BY TypeInit
<1>2. QED
  BY <1>1 DEF Init, DateInv, DatesAgree, ExpiryDecided, NewSweep

\* Every step keeps the dates.
LEMMA DateStep == DateInv /\ [Next]_vars => DateInv'
<1> SUFFICES ASSUME DateInv, [Next]_vars PROVE DateInv'
  OBVIOUS
<1>0. TypeOK'
  BY TypeStep DEF DateInv
<1>a. SUFFICES DatesAgree' /\ ExpiryDecided'
  BY <1>0 DEF DateInv
<1> USE RetentionAssumption DEF DateInv, DatesAgree, ExpiryDecided, TypeOK, Days,
        SweepType, Items
<1>1. CASE NextDay
  BY <1>1 DEF NextDay, stored, jobs
<1>2. ASSUME NEW b \in Batches, Put(b)
      PROVE  DatesAgree' /\ ExpiryDecided'
  BY <1>2 DEF Put, jobs
<1>3. ASSUME NEW b \in Batches, Commit(b)
      PROVE  DatesAgree' /\ ExpiryDecided'
  BY <1>3 DEF Commit, RecordedOn, jobs
<1>4. ASSUME NEW b \in Batches, Abort(b)
      PROVE  DatesAgree' /\ ExpiryDecided'
  BY <1>4 DEF Abort, stored, jobs
<1>5. ASSUME NEW b \in Batches, delete_payload(b) \/ TierPick(b)
      PROVE  DatesAgree' /\ ExpiryDecided'
  BY <1>5 DEF delete_payload, TierPick, stored, jobs
<1>6. ASSUME NEW days \in Policies, UpdateSettings(days)
      PROVE  DatesAgree' /\ ExpiryDecided'
  BY <1>6 DEF UpdateSettings, stored, jobs
<1>7. CASE SweepBegin \/ SweepCancel \/ SweepDie
  <2>1. UNCHANGED <<day, upload, modified, created>>
    BY <1>7 DEF SweepBegin, SweepCancel, SweepDie, stored
  <2>2. day \in Nat /\ sweep'.start \in {0, day} /\ sweep'.listed = {}
        /\ sweep'.at # "decided"
    <3>1. CASE SweepBegin
      BY <3>1 DEF SweepBegin, NewSweep
    <3>2. CASE SweepCancel \/ SweepDie
      BY <3>2 DEF SweepCancel, SweepDie, NewSweep
    <3>3. QED
      BY <1>7, <3>1, <3>2
  <2>3. QED
    BY <2>1, <2>2
<1>8. CASE SweepList
  BY <1>8 DEF SweepList, stored
<1>9. CASE SweepRead
  BY <1>9 DEF SweepRead, Basis, PolicyType, stored
<1>10. CASE SweepDelete
  BY <1>10 DEF SweepDelete
<1>11. CASE SweepCommit
  BY <1>11 DEF SweepCommit, DroppedRows
<1>12. CASE TierCopy
  BY <1>12 DEF TierCopy, NewTier
<1>13. CASE TierMark \/ UNCHANGED vars
  BY <1>13 DEF TierMark, vars, stored, jobs
<1>14. QED
  BY <1>1, <1>2, <1>3, <1>4, <1>5, <1>6, <1>7, <1>8, <1>9, <1>10, <1>11, <1>12,
     <1>13 DEF Next

\* Dates and periods are numbers.
LEMMA DatesAreNumbers ==
  TypeOK => /\ day \in Nat /\ policy.days \in Nat /\ sweep.start \in Nat
            /\ \A b \in Batches : upload[b].opened \in Nat
<1> SUFFICES ASSUME TypeOK
             PROVE  /\ day \in Nat /\ policy.days \in Nat /\ sweep.start \in Nat
                    /\ \A b \in Batches : upload[b].opened \in Nat
  OBVIOUS
<1>1. Days \subseteq Nat
  BY RetentionAssumption DEF Days
<1>2. policy.days \in Policies \cup {DefaultDays}
  BY DEF TypeOK, PolicyType
<1>3. policy.days \in Nat
  BY <1>2, RetentionAssumption
<1>4. sweep.start \in Days
  BY DEF TypeOK, SweepType
<1>5. \A b \in Batches : upload[b].opened \in Days
  BY DEF TypeOK
<1>6. day \in Days
  BY DEF TypeOK
<1>7. QED
  BY <1>1, <1>3, <1>4, <1>5, <1>6

\* Only a sweep that holds the tenant's row deletes objects, and the policy it
\* has checked again is the one in force.
LEMMA DeletesExpiredStep == DateInv /\ [Next]_vars => DeletesExpired
<1> SUFFICES ASSUME DateInv, [Next]_vars, NEW b \in Batches,
                    modified[b] # Gone, modified'[b] = Gone
             PROVE  upload[b].opened < day - policy.days
  BY DEF DeletesExpired
<1> USE RetentionAssumption DEF DateInv, TypeOK, Days
<1>1. CASE SweepDelete
  <2>1. b \in sweep.expired /\ policy = sweep.policy /\ sweep.at = "decided"
    BY <1>1 DEF SweepDelete, PolicyStands
  <2>2. upload[b].opened < sweep.start - policy.days /\ sweep.start <= day
    BY <2>1 DEF ExpiryDecided, DatesAgree
  <2>3. policy.days \in Nat /\ sweep.start \in Nat /\ upload[b].opened \in Nat
        /\ day \in Nat
    BY DatesAreNumbers
  <2>4. QED
    BY <2>2, <2>3
<1>2. CASE ~SweepDelete
  <2>1. modified'[b] # Gone
    BY <1>2 DEF Next, NextDay, Put, Commit, Abort, delete_payload, TierPick,
       UpdateSettings, SweepBegin, SweepList, SweepRead, SweepCancel, SweepCommit,
       SweepDie, TierCopy, TierMark, vars, stored
  <2>2. QED
    BY <2>1
<1>3. QED
  BY <1>1, <1>2

\* No object is deleted before its retention under the policy in force has passed
\* since its upload (NothingDeletedEarly), however sweeps, policy changes, uploads
\* and tiering interleave.
THEOREM RetentionIsKept == Spec => NothingDeletedEarly
<1>1. DateInv /\ [Next]_vars => DateInv'
  BY DateStep
<1>2. DateInv /\ [Next]_vars => DeletesExpired
  BY DeletesExpiredStep
<1>3. DateInv /\ [Next]_vars => [DeletesExpired]_vars
  BY <1>2
<1>4. QED
  BY DateInit, <1>1, <1>3, PTL DEF Spec, NothingDeletedEarly
===============================================================================
