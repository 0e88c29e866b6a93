------------------------------- MODULE Retention -------------------------------
(***************************************************************************)
(* The life of one tenant's stored payloads: the objects of the payload    *)
(* bucket, the rows of payload_batches and payload_segments that refer to  *)
(* them, and the three jobs that touch them - ingest, the retention sweep  *)
(* and storage tiering - beside erasure requests and policy changes.       *)
(*                                                                         *)
(* One batch is one object with one payload; its key row stands for the    *)
(* wrapped data key, without which the object, or a copy of it in a backup *)
(* or an old version, cannot be read.  The bucket and the database are     *)
(* written in separate steps, and a job may die between any two of them.   *)
(*                                                                         *)
(* A definition named Op_Fault is Op with a seeded fault.                  *)
(***************************************************************************)
EXTENDS Integers

CONSTANTS
  Batches,      \* uploads of ingest
  Policies,     \* retention periods, in days, that a tenant may set
  DefaultDays,  \* the period of a tenant that has set none (30)
  TierDays,     \* age at which objects are tiered
  MaxDay,       \* bound: days that pass
  MaxChanges,   \* bound: policy changes
  Gone,         \* there is no object, or no row
  Free, Sweeper \* who holds the tenant's row: nobody, the sweep, or an upload

ASSUME RetentionAssumption ==
  /\ Policies \subseteq Nat /\ DefaultDays \in Nat /\ TierDays \in Nat
  /\ MaxDay \in Nat /\ MaxChanges \in Nat
  /\ Gone \notin Nat
  /\ Free # Sweeper /\ {Free, Sweeper} \cap Batches = {}

VARIABLES
  day,         \* today
  policy,      \* tenant_settings: retention_days, updated_at
  lock,        \* who holds the row of tenants
  upload,      \* upload[b]: how far the ingest of b has come
  modified,    \* modified[b]: LastModified of the object of b
  created,     \* created[b]: created_at of its row in payload_batches
  keys,        \* batches with a wrapped data key in payload_segments
  tiered,      \* batches with tiered_at set
  sweep,       \* the retention job
  tier,        \* the tiering job
  broken       \* history: a sweep died between its two deletes

stored == <<modified, created, keys>>
jobs == <<sweep, tier>>
vars == <<day, policy, lock, upload, stored, tiered, jobs, broken>>

Days == 0 .. MaxDay

NewPolicy == [days |-> DefaultDays, updated |-> 0]

PolicyType == [days : Policies \cup {DefaultDays}, updated : 0 .. MaxChanges]

\* What the bucket lists: an object and its date.
Items == [batch : Batches, date : Days]

\* The sweep: the day it began, the policy it read, the objects it listed with
\* their dates, and those of them it has found expired.
NewSweep ==
  [at |-> "idle", start |-> 0, policy |-> NewPolicy, listed |-> {}, expired |-> {}]

SweepType ==
  [at : {"idle", "begun", "listed", "decided", "deleted", "complete"}, start : Days,
   policy : PolicyType, listed : SUBSET Items,
   expired : SUBSET Batches]

NewTier == [at |-> "idle", batch |-> Gone]

TypeOK ==
  /\ day \in Days
  /\ policy \in PolicyType
  /\ lock \in Batches \cup {Free, Sweeper}
  /\ upload \in [Batches -> [at : {"new", "put", "done"}, opened : Days]]
  /\ modified \in [Batches -> Days \cup {Gone}]
  /\ created \in [Batches -> Days \cup {Gone}]
  /\ keys \subseteq Batches /\ tiered \subseteq Batches
  /\ sweep \in SweepType
  /\ tier \in [at : {"picked", "copied"}, batch : Batches] \cup {NewTier}
  /\ broken \in BOOLEAN

NextDay ==
  /\ day < MaxDay
  /\ day' = day + 1
  /\ UNCHANGED <<policy, lock, upload, stored, tiered, jobs, broken>>

-----------------------------------------------------------------------------
(* Ingest, settings and erasure. *)

\* The object is put while the ingest transaction holds the tenant's row.
Put(b) ==
  /\ upload[b].at = "new" /\ lock = Free
  /\ lock' = b
  /\ upload' = [upload EXCEPT ![b] = [at |-> "put", opened |-> day]]
  /\ modified' = [modified EXCEPT ![b] = day]
  /\ UNCHANGED <<day, policy, created, keys, tiered, jobs, broken>>

RecordedOn(b) == upload[b].opened

\* The rows appear with the commit; created_at is when the transaction began.
Commit(b) ==
  /\ upload[b].at = "put"
  /\ upload' = [upload EXCEPT ![b].at = "done"]
  /\ created' = [created EXCEPT ![b] = RecordedOn(b)]
  /\ keys' = keys \cup {b}
  /\ lock' = Free
  /\ UNCHANGED <<day, policy, modified, tiered, jobs, broken>>

\* The transaction is rolled back: the object stays, unreferenced.
Abort(b) ==
  /\ upload[b].at = "put"
  /\ upload' = [upload EXCEPT ![b].at = "done"]
  /\ lock' = Free
  /\ UNCHANGED <<day, policy, stored, tiered, jobs, broken>>

\* The tenant changes its retention period, under the lock of its row.
UpdateSettings(days) ==
  /\ lock = Free
  /\ policy.updated < MaxChanges
  /\ policy' = [days |-> days, updated |-> policy.updated + 1]
  /\ UNCHANGED <<day, lock, upload, stored, tiered, jobs, broken>>

\* An erasure request deletes the only copy of the data key.
delete_payload(b) ==
  /\ b \in keys
  /\ keys' = keys \ {b}
  /\ UNCHANGED <<day, policy, lock, upload, modified, created, tiered, jobs, broken>>

-----------------------------------------------------------------------------
(* The retention sweep. *)

SweepBegin ==
  /\ sweep.at \in {"idle", "complete"}
  /\ sweep' = [NewSweep EXCEPT !.at = "begun", !.start = day, !.policy = policy]
  /\ UNCHANGED <<day, policy, lock, upload, stored, tiered, tier, broken>>

SweepList ==
  /\ sweep.at = "begun"
  /\ sweep' = [sweep EXCEPT !.at = "listed",
                  !.listed = {item \in Items : modified[item.batch] = item.date}]
  /\ UNCHANGED <<day, policy, lock, upload, stored, tiered, tier, broken>>

\* The age of every object is that of its last write.
Basis_LastModified(item) == item.date

\* An object ages from the day its batch was recorded, and one without a row from
\* its last write.
Basis(item) == IF created[item.batch] # Gone THEN created[item.batch] ELSE item.date

\* The rows of the listed objects are read; with nothing expired the pass is over.
SweepRead ==
  LET expired == {b \in Batches : \E item \in sweep.listed :
                    item.batch = b /\ Basis(item) < sweep.start - sweep.policy.days}
  IN  /\ sweep.at = "listed"
      /\ sweep' = [sweep EXCEPT !.at = IF expired = {} THEN "complete" ELSE "decided",
                                !.expired = expired]
      /\ UNCHANGED <<day, policy, lock, upload, stored, tiered, tier, broken>>

\* The policy is not looked at again.
PolicyStands_Assumed == TRUE

\* The policy is still the one the pass began with.
PolicyStands == policy = sweep.policy

\* Under the tenant's row the policy is checked again and the objects are deleted.
\* The store may keep some of them: its list of errors is not read.
SweepDelete ==
  /\ sweep.at = "decided" /\ lock = Free
  /\ PolicyStands
  /\ lock' = Sweeper
  /\ \E removed \in SUBSET sweep.expired :
       modified' = [b \in Batches |-> IF b \in removed THEN Gone ELSE modified[b]]
  /\ sweep' = [sweep EXCEPT !.at = "deleted"]
  /\ UNCHANGED <<day, policy, upload, created, keys, tiered, tier, broken>>

\* A policy change cancels the pass.
SweepCancel ==
  /\ sweep.at = "decided" /\ lock = Free
  /\ ~PolicyStands
  /\ sweep' = NewSweep
  /\ UNCHANGED <<day, policy, lock, upload, stored, tiered, tier, broken>>

\* The index rows of the deleted objects stay.
DroppedRows_None == {}

DroppedRows == sweep.expired

\* The rows are deleted, the data keys with them, and the transaction commits.
SweepCommit ==
  /\ sweep.at = "deleted"
  /\ created' = [b \in Batches |-> IF b \in DroppedRows THEN Gone ELSE created[b]]
  /\ keys' = keys \ DroppedRows
  /\ lock' = Free
  /\ sweep' = [sweep EXCEPT !.at = "complete"]
  /\ UNCHANGED <<day, policy, upload, modified, tiered, tier, broken>>

\* The job dies, or its delete raises after the store has obeyed: the transaction
\* is rolled back, the objects are gone all the same.
SweepDie ==
  /\ sweep.at \notin {"idle", "complete"}
  /\ sweep' = NewSweep
  /\ lock' = IF lock = Sweeper THEN Free ELSE lock
  /\ broken' = (broken \/ sweep.at = "deleted")
  /\ UNCHANGED <<day, policy, upload, stored, tiered, tier>>

-----------------------------------------------------------------------------
(* Storage tiering. *)

TierPick(b) ==
  /\ tier.at = "idle"
  /\ created[b] # Gone /\ b \notin tiered
  /\ created[b] <= day - TierDays
  /\ tier' = [at |-> "picked", batch |-> b]
  /\ UNCHANGED <<day, policy, lock, upload, stored, tiered, sweep, broken>>

\* The object is copied onto itself, which renews its date; if it is gone, or the
\* store refuses, nothing happens.
TierCopy ==
  /\ tier.at = "picked"
  /\ \/ /\ modified[tier.batch] # Gone
        /\ modified' = [modified EXCEPT ![tier.batch] = day]
        /\ tier' = [tier EXCEPT !.at = "copied"]
     \/ tier' = NewTier /\ UNCHANGED modified
  /\ UNCHANGED <<day, policy, lock, upload, created, keys, tiered, sweep, broken>>

\* The row is marked, if it is still there; or the job has died.
TierMark ==
  /\ tier.at = "copied"
  /\ tiered' \in {tiered, IF created[tier.batch] = Gone THEN tiered
                          ELSE tiered \cup {tier.batch}}
  /\ tier' = NewTier
  /\ UNCHANGED <<day, policy, lock, upload, stored, sweep, broken>>

-----------------------------------------------------------------------------
Init ==
  /\ day = 0
  /\ policy = NewPolicy
  /\ lock = Free
  /\ upload = [b \in Batches |-> [at |-> "new", opened |-> 0]]
  /\ modified = [b \in Batches |-> Gone]
  /\ created = [b \in Batches |-> Gone]
  /\ keys = {} /\ tiered = {}
  /\ sweep = NewSweep /\ tier = NewTier
  /\ broken = FALSE

Next ==
  \/ NextDay
  \/ \E b \in Batches :
       Put(b) \/ Commit(b) \/ Abort(b) \/ delete_payload(b) \/ TierPick(b)
  \/ \E days \in Policies : UpdateSettings(days)
  \/ SweepBegin \/ SweepList \/ SweepRead
  \/ SweepDelete \/ SweepCancel \/ SweepCommit \/ SweepDie
  \/ TierCopy \/ TierMark

Spec == Init /\ [][Next]_vars

-----------------------------------------------------------------------------
(* Properties. *)

\* This step deletes an object only when its upload is longer ago than the policy
\* now in force allows.
DeletesExpired ==
  \A b \in Batches : modified[b] # Gone /\ modified'[b] = Gone =>
    upload[b].opened < day - policy.days

\* No payload is deleted before its time, also when the tenant lengthens its
\* retention, an upload commits or an object is tiered while a sweep is under way
\* (retention.py:60-84).
NothingDeletedEarly == [][DeletesExpired]_vars

\* This step ends a pass: of what it listed nothing is left that had expired when
\* it began, neither a row with its data key nor, unless the store refused, an
\* object without one.
PassIsThorough ==
  sweep.at # "complete" /\ sweep'.at = "complete" =>
    \A item \in sweep.listed :
      LET b == item.batch  cutoff == sweep.start - sweep.policy.days IN
      /\ created'[b] # Gone => created'[b] >= cutoff
      /\ b \notin sweep'.expired /\ created'[b] = Gone /\ modified'[b] # Gone =>
           modified[b] >= cutoff

\* Tiering does not postpone retention: a pass that is not cancelled removes
\* every batch recorded before its cutoff, whenever the object was copied
\* (retention.py:29-59, tiering.py:98-123), and the objects that crashed
\* uploads left behind.
ExpiresInTime == [][PassIsThorough]_vars

\* A row never points at an object that is gone, except within the step between
\* the two deletes of a sweep, as long as no sweep has died there
\* (retention.py:81-93).
NoDanglingRow ==
  ~broken =>
    \A b \in Batches : created[b] # Gone =>
      modified[b] # Gone \/ (sweep.at = "deleted" /\ b \in sweep.expired)

\* After a pass nothing points at something that is gone: "a batch or segment row
\* pointing at an object that no longer exists is NOT fine"
\* (test_scale_and_tiering.py:379-393).
NothingDangles ==
  [][sweep.at # "complete" /\ sweep'.at = "complete" =>
       \A b \in Batches : created'[b] # Gone => modified'[b] # Gone]_vars
===============================================================================
