-------------------------------- MODULE Ingest --------------------------------
(***************************************************************************)
(* The collector of one tenant: POST /v1/ingest and the control plane's    *)
(* own calls of ingest_events.                                             *)
(*                                                                         *)
(* A call works in one PostgreSQL transaction that holds the tenant's row, *)
(* and inside it writes to two stores that the transaction cannot undo:    *)
(* the object store (payload bodies) and the event log.  The steps of a    *)
(* call are the points where another call, a settings change, midnight or  *)
(* a crash can come between.                                               *)
(*                                                                         *)
(* A definition named Op_Fault is Op with a seeded fault: a run with Op    *)
(* replaced by it must violate the property it is listed with.             *)
(***************************************************************************)
EXTENDS Chain, FiniteSets

CONSTANTS
  Requests,    \* calls of ingest_events; each may be repeated by its client
  Batch,       \* Batch[r]: the events of r, [id, payload, admin]
  Token,       \* Token[r]: the ingest token of r, NoToken for the control plane
  Tokens,
  NoToken,
  Limits,      \* per-token daily payload limits a plan may set
  Unlimited,   \* the plan sets none
  MaxTry,      \* bound: MaxTry[r], how often the client submits the batch of r
  MaxDay,      \* bound: days that pass
  Free         \* the tenant row is not locked

VARIABLES
  pc,          \* pc[r]: how far the call has come
  try,         \* try[r]: which submission of the batch this is
  txn,         \* txn[r]: the local variables of the call
  lock,        \* who holds the row of tenants (and of chain_heads)
  head,        \* chain_heads: head_hash, head_seq
  capture,     \* tenant_settings.capture_payloads
  limit,       \* tenant_plans.per_token_daily_payload_limit
  day,         \* the date
  usage,       \* metering_token_daily: captured payloads per token and day
  metered,     \* metering_daily: events per day
  segments,    \* payload_segments: payload_ref -> stored object
  objects,     \* keys in the payload bucket
  log,         \* rows of the events table
  commits      \* history: the submissions whose transaction committed

vars == <<pc, try, txn, lock, head, capture, limit, day, usage, metered,
          segments, objects, log, commits>>

stores == <<segments, objects, log, head, usage, metered, commits>>
config == <<capture, limit, day>>

Events == [id : EventIds, payload : BOOLEAN, admin : BOOLEAN]

Days == 1 .. MaxDay

\* One submission; also the key of the object it stores (a fresh uuid).
Submissions == [req : Requests, try : Nat]

Sub(r) == [req |-> r, try |-> try[r]]

Rows == [seq : Nat, prev : Hash, hash : Hash, body : Body, ins : Submissions]

NoTxn == [day |-> 1, head |-> EmptyHead, bodies |-> << >>, stored |-> FALSE]

Txns == [day : Days, head : ChainHeads, bodies : Seq(Body), stored : BOOLEAN]

\* The phases in which the call holds the tenant's row.
Holding == {"prepared", "stored", "inserted"}

Phases == {"new", "ready", "waiting"} \cup Holding
            \cup {"done", "failed"}

ASSUME IngestAssumption ==
  /\ Batch \in [Requests -> Seq(Events)]
  /\ \A r \in Requests : Batch[r] # << >>
  /\ Token \in [Requests -> Tokens \cup {NoToken}]
  /\ NoToken \notin Tokens
  \* Calls within the collector record one event each.
  /\ \A r \in Requests : Token[r] = NoToken => Len(Batch[r]) = 1
  /\ Limits \subseteq Nat \ {0}
  /\ Unlimited \notin Nat
  /\ MaxTry \in [Requests -> Nat]
  /\ MaxDay \in Nat \ {0}
  /\ Free \notin Requests

TypeOK ==
  /\ pc \in [Requests -> Phases]
  /\ try \in [Requests -> Nat]
  /\ txn \in [Requests -> Txns]
  /\ lock \in Requests \cup {Free}
  /\ head \in ChainHeads
  /\ capture \in BOOLEAN
  /\ limit \in Limits \cup {Unlimited}
  /\ day \in Days
  /\ usage \in [Tokens \X Days -> Nat]
  /\ metered \in [Days -> Nat]
  /\ segments \subseteq [ref : EventIds, obj : Submissions]
  /\ objects \subseteq Submissions
  /\ log \subseteq Rows
  /\ commits \subseteq Submissions

-----------------------------------------------------------------------------
(* What the transaction decides and computes. *)

\* How many of the first i events of a batch carry a payload.
PayloadsIn(events, i) == Cardinality({j \in 1 .. i : events[j].payload})

\* The payload slots the plan leaves this batch (decide_capture).
decide_capture(current, wanted, cap) ==
  IF cap = Unlimited \/ current + wanted <= cap THEN wanted
  ELSE IF current >= cap THEN 0 ELSE cap - current

\* Over-limit events are left out instead of losing their payload.
prepare_events_Dropping(events, on, slots) ==
  LET within == {i \in 1 .. Len(events) : events[i].payload => PayloadsIn(events, i) <= slots}
  IN  [k \in 1 .. Cardinality(within) |->
         LET i == CHOOSE j \in within : Cardinality({x \in within : x <= j}) = k
         IN  [id |-> events[i].id, ref |-> on /\ events[i].payload]]

\* The first `slots` payloads of the batch are kept, in order, and nothing is
\* kept while capture is off (prepare_events).
prepare_events(events, on, slots) ==
  [i \in 1 .. Len(events) |->
     [id  |-> events[i].id,
      ref |-> on /\ events[i].payload /\ PayloadsIn(events, i) <= slots]]

\* The plan limit applies to a token only, and only while capture is on.
Slots(r) ==
  LET wanted  == PayloadsIn(Batch[r], Len(Batch[r]))
      limited == Token[r] # NoToken /\ capture
  IN  IF limited THEN decide_capture(usage[<<Token[r], txn[r].day>>], wanted, limit)
                 ELSE wanted

\* The payload references among the bodies of a batch.
Refs(bodies) == {bodies[i].id : i \in {j \in 1 .. Len(bodies) : bodies[j].ref}}

CapturedCount(bodies) == Cardinality({i \in 1 .. Len(bodies) : bodies[i].ref})

\* The degraded batch keeps its payload references.
WithoutPayloads_Kept(bodies) == bodies

\* What the object store being down leaves of a batch: its metadata.
WithoutPayloads(bodies) ==
  [i \in 1 .. Len(bodies) |-> [id |-> bodies[i].id, ref |-> FALSE]]

\* The payloads submitted are charged, not those captured.
Charge_Submitted(r) == PayloadsIn(Batch[r], Len(Batch[r]))

\* What the call charges its token.
Charge(r) == CapturedCount(txn[r].bodies)

\* The call is charged on the date of its commit.
ChargeDate_Commit(r) == day

\* The date it is charged on is that of its transaction.
ChargeDate(r) == txn[r].day

CurrentDate == day

\* The tenant's row once the transaction of r is rolled back.
Rollback(r) == IF lock = r THEN Free ELSE lock

MeteredCount(events) == Cardinality({i \in 1 .. Len(events) : ~events[i].admin})

Goto(r, phase) == pc' = [pc EXCEPT ![r] = phase]

-----------------------------------------------------------------------------
(* Calls arrive. *)

\* The batch claims the control plane's source: the HTTP route answers 422 and
\* the call changes nothing.
ClaimsControlPlane(r) == \E i \in 1 .. Len(Batch[r]) : Batch[r][i].admin

\* The settings change does not wait for the tenant's row.
UpdateSettings_Unlocked(r, on) ==
  /\ pc[r] = "new" /\ Token[r] = NoToken
  /\ capture' = on
  /\ Goto(r, "ready")
  /\ UNCHANGED <<try, txn, lock, limit, day, stores>>

\* A settings change locks the tenant row through its UPDATE, and is chained
\* once its transaction is over (record_admin_action).
UpdateSettings(r, on) ==
  /\ pc[r] = "new" /\ Token[r] = NoToken
  /\ lock = Free
  /\ capture' = on
  /\ Goto(r, "ready")
  /\ UNCHANGED <<try, txn, lock, limit, day, stores>>

\* The operator assigns a plan, under the same lock.
SetPlan(cap) ==
  /\ lock = Free
  /\ limit' = cap
  /\ UNCHANGED <<pc, try, txn, lock, capture, day, stores>>

NextDay ==
  /\ day < MaxDay
  /\ day' = day + 1
  /\ UNCHANGED <<pc, try, txn, lock, capture, limit, stores>>

-----------------------------------------------------------------------------
(* One call of ingest_events. *)

\* A batch the route lets through, or the event of a settings change.
Arrived(r) ==
  \/ pc[r] = "new" /\ Token[r] # NoToken /\ ~ClaimsControlPlane(r)
  \/ pc[r] = "ready"

\* The transaction begins; CURRENT_DATE is the date at this moment, however
\* long the SELECT ... FOR UPDATE then waits for the tenant's row.
Open(r) ==
  /\ Arrived(r)
  /\ txn' = [txn EXCEPT ![r] = [NoTxn EXCEPT !.day = CurrentDate]]
  /\ Goto(r, "waiting")
  /\ UNCHANGED <<try, lock, config, stores>>

\* The head is read without FOR UPDATE.
Prepare_Unlocked(r) ==
  /\ pc[r] = "waiting"
  /\ lock' = r
  /\ txn' = [txn EXCEPT ![r].head = head,
                        ![r].bodies = prepare_events(Batch[r], capture, Slots(r))]
  /\ Goto(r, "prepared")
  /\ UNCHANGED <<try, config, stores>>

\* With the row locked: read the head, the setting, the plan and the usage,
\* and decide which payloads to keep.
Prepare(r) ==
  /\ pc[r] = "waiting"
  /\ lock = Free
  /\ lock' = r
  /\ txn' = [txn EXCEPT ![r].head = head,
                        ![r].bodies = prepare_events(Batch[r], capture, Slots(r))]
  /\ Goto(r, "prepared")
  /\ UNCHANGED <<try, config, stores>>

\* Nothing of the batch is to be captured.
SkipPayloads(r) ==
  /\ pc[r] = "prepared" /\ Refs(txn[r].bodies) = {}
  /\ Goto(r, "stored")
  /\ UNCHANGED <<try, txn, lock, config, stores>>

\* The payloads are put as one object, before the transaction commits, and the
\* segment rows inserted: payload_ref is their primary key.
StorePayloads(r) ==
  /\ pc[r] = "prepared" /\ Refs(txn[r].bodies) # {}
  /\ objects' = objects \cup {Sub(r)}
  /\ Refs(txn[r].bodies) \cap {s.ref : s \in segments} = {}
  /\ txn' = [txn EXCEPT ![r].stored = TRUE]
  /\ Goto(r, "stored")
  /\ UNCHANGED <<try, lock, config, segments, log, head, usage, metered, commits>>

\* A segment row exists already: the unique violation ends the transaction, and
\* the object that was just put stays.
StoreConflict(r) ==
  /\ pc[r] = "prepared"
  /\ Refs(txn[r].bodies) \cap {s.ref : s \in segments} # {}
  /\ objects' = objects \cup {Sub(r)}
  /\ lock' = Free
  /\ txn' = [txn EXCEPT ![r] = NoTxn]
  /\ Goto(r, "failed")
  /\ UNCHANGED <<try, config, segments, log, head, usage, metered, commits>>

\* The put failed, or its answer was lost after the object was stored: the
\* batch goes on as metadata only.
DegradePayloads(r) ==
  /\ pc[r] = "prepared" /\ Refs(txn[r].bodies) # {}
  /\ objects' \in {objects, objects \cup {Sub(r)}}
  /\ txn' = [txn EXCEPT ![r].bodies = WithoutPayloads(@)]
  /\ Goto(r, "stored")
  /\ UNCHANGED <<try, lock, config, segments, log, head, usage, metered, commits>>

\* The insert is sent without waiting for its answer.
InsertRows_Unconfirmed(r) ==
  /\ pc[r] = "stored"
  /\ log' \in {log, log \cup ChainRows(txn[r].head, txn[r].bodies, Sub(r))}
  /\ Goto(r, "inserted")
  /\ UNCHANGED <<try, txn, lock, config, segments, objects, head, usage, metered, commits>>

\* The chained rows go to the event log while the transaction is still open.
InsertRows(r) ==
  /\ pc[r] = "stored"
  /\ log' = log \cup ChainRows(txn[r].head, txn[r].bodies, Sub(r))
  /\ Goto(r, "inserted")
  /\ UNCHANGED <<try, txn, lock, config, segments, objects, head, usage, metered,
                 commits>>

\* The transaction commits: the head, both meters and the segments at once.  The
\* hand-over to the rule engine that follows changes none of this state.
Commit(r) ==
  /\ pc[r] = "inserted"
  /\ LET t == txn[r] IN
     /\ head' = AdvanceHead(t.head, t.bodies)
     /\ metered' = [metered EXCEPT ![t.day] = @ + MeteredCount(Batch[r])]
     /\ usage' = IF Token[r] = NoToken THEN usage
                 ELSE [usage EXCEPT ![<<Token[r], ChargeDate(r)>>] = @ + Charge(r)]
     /\ segments' = segments \cup
          {[ref |-> id, obj |-> Sub(r)] : id \in IF t.stored THEN Refs(t.bodies) ELSE {}}
  /\ commits' = commits \cup {Sub(r)}
  /\ lock' = Free
  /\ txn' = [txn EXCEPT ![r] = NoTxn]
  /\ Goto(r, "done")
  /\ UNCHANGED <<try, config, objects, log>>

\* Any exception, a failed commit or a crash of the process: PostgreSQL rolls
\* back and releases the row; what the other two stores hold stays.
Abort(r) ==
  /\ pc[r] \in {"waiting"} \cup Holding
  /\ lock' = Rollback(r)
  /\ txn' = [txn EXCEPT ![r] = NoTxn]
  /\ Goto(r, "failed")
  /\ UNCHANGED <<try, config, stores>>

\* The client saw an error - or saw none, because the answer was lost or the
\* process died after the commit - and submits the same batch again.  The
\* control plane does not: record_admin_action gives up.
Retry(r) ==
  /\ pc[r] \in {"failed", "done"} /\ Token[r] # NoToken
  /\ try[r] < MaxTry[r]
  /\ try' = [try EXCEPT ![r] = @ + 1]
  /\ Goto(r, "new")
  /\ UNCHANGED <<txn, lock, config, stores>>

-----------------------------------------------------------------------------
Init ==
  /\ pc = [r \in Requests |-> "new"]
  /\ try = [r \in Requests |-> 1]
  /\ txn = [r \in Requests |-> NoTxn]
  /\ lock = Free
  /\ head = EmptyHead
  /\ capture = TRUE
  /\ limit = Unlimited
  /\ day = 1
  /\ usage = [td \in Tokens \X Days |-> 0]
  /\ metered = [d \in Days |-> 0]
  /\ segments = {} /\ objects = {} /\ log = {}
  /\ commits = {}

\* The steps of a call once it has arrived.
Run(r) ==
  \/ Open(r)
  \/ Prepare(r)
  \/ SkipPayloads(r)
  \/ StorePayloads(r)
  \/ StoreConflict(r)
  \/ DegradePayloads(r)
  \/ InsertRows(r)
  \/ Commit(r)

Next ==
  \/ \E r \in Requests :
       \/ \E on \in BOOLEAN : UpdateSettings(r, on)
       \/ Run(r)
       \/ Abort(r)
       \/ Retry(r)
  \/ \E cap \in Limits \cup {Unlimited} : SetPlan(cap)
  \/ NextDay

Spec == Init /\ [][Next]_vars

-----------------------------------------------------------------------------
(* Properties. *)

\* The rows that came with a submission whose transaction committed.
CommittedRows == {row \in log : row.ins \in commits}

\* The head never runs ahead of the log: for every sequence number up to
\* head_seq the log holds the row that the head's hash commits to, whatever
\* transactions were rolled back after their insert (ingest.py:193-210).
HistoryInLog ==
  /\ Len(head.hash) = head.seq
  /\ \A n \in 1 .. head.seq :
       \E row \in CommittedRows : row.seq = n /\ row.hash = SubSeq(head.hash, 1, n)

\* Calls of one tenant never fork the chain: every row of a committed call lies
\* on the history of the head, and no two of them share a sequence number
\* (the row locks of ingest.py:131-139).
NoFork ==
  /\ \A row \in CommittedRows :
       row.seq <= head.seq /\ row.hash = SubSeq(head.hash, 1, row.seq)
  /\ \A row1, row2 \in CommittedRows : row1.seq = row2.seq => row1 = row2

\* What a committed row promises can be fetched: its payload reference has a
\* segment and the segment's object is stored; and there is no segment that no
\* committed row refers to (the order of writes of ingest.py:388-438).
PayloadsResolve ==
  /\ \A row \in CommittedRows :
       row.body.ref => [ref |-> row.body.id, obj |-> row.ins] \in segments
  /\ \A s \in segments :
       /\ s.obj \in objects
       /\ \E row \in CommittedRows :
            row.ins = s.obj /\ row.body = [id |-> s.ref, ref |-> TRUE]

\* The events that a meter has counted, day by day.
Counted(meter) == UNION {{d} \X (1 .. meter[d]) : d \in Days}

\* The meters say what the log holds: per token the captured payloads, and for the
\* tenant every event but the control plane's own - not those of calls that failed,
\* nor the payloads of batches the object store degraded (ingest.py:211-235).
MetersMatchRecord ==
  /\ \A t \in Tokens :
       Cardinality(Counted([d \in Days |-> usage[<<t, d>>]]))
         = Cardinality({row \in CommittedRows : Token[row.ins.req] = t /\ row.body.ref})
  /\ Cardinality(Counted(metered))
       = Cardinality({row \in CommittedRows : ~ClaimsControlPlane(row.ins.req)})

\* This step charges no token beyond its limit.
ChargedWithinLimit ==
  \A t \in Tokens, d \in Days :
    usage'[<<t, d>>] > usage[<<t, d>>] => limit = Unlimited \/ usage'[<<t, d>>] <= limit

\* A captured payload is charged to a day and a token only within the limit in
\* force at that moment, however calls, plan changes and midnight interleave
\* (metering.py:20-46 under the lock of ingest.py:131).
AllowanceRespected == [][ChargedWithinLimit]_vars

\* The rows of this step refer to payloads only if capture is on.
NoLatePayload == \A row \in log' \ log : row.body.ref => capture

\* Once a settings change that turns capture off has returned, no batch that
\* read the old setting can still write a payload reference
\* (the comment of ingest.py:128-130).
CaptureBarrier == [][NoLatePayload]_vars

\* The record grows by whole batches only, in their order (ingest.py:191-210).
Abstract == INSTANCE RecordLog WITH record <- head.hash

RecordsWholeBatches == Abstract!Spec
==============================================================================
