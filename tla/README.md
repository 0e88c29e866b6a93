# Leaflyst in TLA+

Leaflyst records what AI agents do: a tap or an instrumented SDK beside the agent
ships events; a collector redacts, hash-chains and stores them; jobs anchor, tier
and expire what is stored; auditors verify and export it. Around that record it
raises alerts, decides policies, scans providers for credentials and revokes them.
This directory models those parts in TLA+, checks them with TLC on small instances
and proves the central properties with TLAPS.

Every definition is translated from the source; `PROJECT.json` maps each one to
the lines it stands for. A definition named `Op_Fault` is `Op` with a seeded
fault: a property is kept only if some such fault breaks it.

## 1. The system

### Components and their state

| Component | Code | State it keeps | Operations |
|---|---|---|---|
| Tap sender | `abx_tap/emitter.py`, `cli.py` | buffer in memory, spool files `batch-*.json`, `.rejected` files | emit, flush, send round, close |
| Tap observer | `abx_tap/pump.py`, `observer.py`, `http_tap.py` | pending requests (bounded), observation queue (bounded, lossy) | pump, observe request and reply, evict |
| SDK | `abx_sdk/instrumentation.py` | open runs and their roots; spans to export | start and end a run, export |
| Collector | `abx_api/ingest.py`, `metering.py`, `chain.py` | `chain_heads`, meters (PostgreSQL); `events` (ClickHouse); payload objects (S3) | `POST /v1/ingest`, in-process control-plane events |
| Payload store | `abx_api/store.py`, `payload_crypto.py` | `payload_batches`, `payload_segments` with wrapped keys; objects | put, get, erase |
| Settings and plans | `abx_api/tenant_settings.py`, `admin.py` | `tenant_settings`, `tenant_plans`, tokens | update settings, set plan, mint and revoke tokens |
| Anchors | `abx_api/anchor.py` | object-locked bucket, one object per tenant and day | daily job |
| Verification, export | `abx_api/verify.py`, `evidence.py`, `tools/abx_verify.py` | none | verify, stream a bundle, verify a bundle offline |
| Retention, tiering | `abx_api/retention.py`, `tiering.py` | deletes and rewrites payload objects and their rows | two scheduled jobs |
| Key rotation | `abx_api/key_rotation.py` | `master_key_id` of every segment; key ring of every process | promote, re-wrap, drop |
| Alerts | `abx_api/alerts.py`, `alert_worker.py` | Redis stream and consumer group; `alerts` | enqueue, evaluate, upsert, dispatch, acknowledge |
| Rules and baselines | `abx_rules/engine.py`, `baseline.py`, `abx_api/baselines.py`, `tool_integrity.py` | `tool_definitions`; the rest is read from the record and the graph | gather the facts, apply eight rules |
| Policy plane | `abx_api/policy.py`, `abx_rules/policy.py` | versions in `policies`; a fail-closed memory per process | upsert, decide |
| Revocation | `abx_api/revocation.py` | `credentials.status`, `revocation_actions`, chain events | preview, revoke |
| OTLP receiver | `abx_api/normalize.py` | `session_sequences` | allocate sequence numbers, ingest |
| Scanner | `abx_scanner/*`, `abx_api/local_scan.py`, `scan_queue.py` | scan runs, credential graph, findings | scan jobs per provider, uploads of local scans |
| Accounts | `onboarding.py`, `integrations.py`, `auth.py`, `rbac.py` | tenants, members, tokens, connected accounts | set up a user, connect an account, mint and revoke tokens |
| Demo | `demo.py` | demo tenants, sandboxes of visitors, share links | run, purge, share |
| Read side | `replay.py`, `dashboard.py`, `reports.py`, `compliance.py`, `controls.py` | share links | queries |
| Edge | `rate_limit.py`, `body_limit.py`, ... | rate counters in Redis | checks per request |
| Web | `apps/web` | sessions | presentation over the API |

### How they interact

- tap -> collector: HTTP, at least once, from several processes that share one
  spool directory. The collector does not recognise a repeated batch as such.
- collector -> PostgreSQL, S3, ClickHouse: one transaction that locks the rows of
  `tenants` and `chain_heads`; the S3 put and the ClickHouse insert happen
  inside it, before the commit, and are not undone when it fails.
- collector -> alert worker: a Redis stream, written after the commit.
- settings, plans, retention -> collector: through the lock on the row of
  `tenants`, so that a returned change is seen by every later batch.
- anchor, verify, export: read PostgreSQL, S3 and ClickHouse one after another,
  under no lock.
- SDK -> OTLP receiver -> collector: the receiver numbers the events of a session in
  a transaction of its own before the collector records them.
- alert worker -> record, graph, baseline: several queries, under no lock, some time
  after the event was recorded.
- integrations -> scanner: a Redis stream, written after the connection is committed;
  scanner and uploads -> graph and findings: PostgreSQL in READ COMMITTED;
  revocation -> provider, then graph, `revocation_actions` and the chain.

### What is hard

- *three stores, one commit*: a crash or an error between any two writes leaves
  rows or objects that no transaction accounts for;
- *repeats*: an answer may be lost after the commit, and the sender repeats;
- *readers without a lock* beside running ingest and the anchor job;
- *jobs over two stores* (retention, tiering) that may die half-way and that run
  beside ingest, erasure and policy changes;
- *several senders on one spool*: threads, processes, a last drain that may run
  beside the thread it has given up waiting for;
- *midnight* while a batch waits for its lock;
- *processes with a memory of their own*: key rings, the fail-closed memory;
- *check, then act*: budgets, limits, owners and versions that are read first and
  written later, some under a lock or a unique key and some under neither;
- *effects outside of the stores*: a provider that has revoked a credential, or has
  not, and the answer that was lost.

`PROJECT.json` lists the hazards line by line, with the properties that cover
each of them.

### What makes each component correct

- Collector: the chain never forks, its whole history stays in the log, meters
  and allowances agree with the record, a capture switch is a barrier.
- Verification: a positive verdict is right; a negative one has a cause.
- Tap: no event is lost, order is kept, the spool drains.
- Retention: nothing early, nothing late, no row that points nowhere.
- Keys: an erased payload stays erased; a key is dropped only if nothing needs it.
- Alerts: every recorded event is evaluated once or its failure is kept; at most one
  message per cooldown; a change of a tool is reported.
- Rules: a new credential of an agent with a history is reported, usual work is not.
- Policy: one version in force; what is denied is denied for a policy that is enabled.
- Revocation: what is shown as revoked is gone.
- Scanner: the graph is that of one run, and the findings are those it calls for.
- Tap observer: replies fit their requests; what is missing has a cause.
- OTLP receiver: no number twice, no gap without a cause.
- Accounts: one tenant per user, one tenant per account.
- Edge and demo: limits hold however many calls come at once; what a sandbox holds
  can be reclaimed.

## 2. Modules

| Module | Models | Extends / instantiates |
|---|---|---|
| `Chain` | hash chain, rows of a batch, `verify_chain` | |
| `RecordLog` | what the collector promises: an append-only record of whole batches | |
| `Ingest` | the collector | `Chain`; refines `RecordLog` |
| `Verify` | anchor job, verification, export, offline verifier | `Ingest` |
| `Delivery` | tap buffer, spool and senders against a collector | |
| `Retention` | payload objects, rows and keys; retention, tiering, erasure | |
| `Alerts` | hand-over, job stream, alert workers, re-evaluation, tool definitions, alert rows | |
| `Policy` | versions of policies, decisions, the fail-closed memory | |
| `Keys` | master keys, key rings, the re-wrap job | |
| `Access` | a request: rate limit, token and role, setting up users, connecting accounts | |
| `Sandbox` | the demo of customers and visitors, its budgets and its purge | |
| `Scan` | scan jobs and runs, uploads, credential graph, findings, revocation | |
| `Tap` | the lines of an MCP session, the lossy queue, the observer | |
| `Sessions` | runs, spans, exports, the numbers of a session, its gaps | |
| `Detection` | the facts of an action, the baseline, tool definitions, the eight rules | |
| `IngestProofs`, `VerifyProofs`, `RetentionProofs`, `DeliveryProofs`, `AlertsProofs` | theorems and proofs (section 5) about the module of that name | the module, `TLAPS` |
| `ControlProofs`, `AccessProofs`, `SourcesProofs` | the same for `Policy` and `Keys`; `Access` and `Sandbox`; `Scan`, `Tap`, `Sessions` and `Detection` | the modules, `TLAPS` |
| `MC*` | instances for TLC; `MCControl` and `MCSources` hold four components each | the components |

`Ingest`, `Retention`, `Delivery`, `Alerts`, `Sandbox`, `Scan`, `Tap`, `Sessions` and
`Detection` have their type invariant as a theorem. `Policy`, `Keys`, `Access` and
`Verify` state theirs too, and their proofs hold what they need of it in the invariant
they use. No run checks a type invariant: no fault in the code would break one.

### Chain

SHA-256 is taken as collision free, so a hash *is* the sequence of bodies it
commits to: `compute_event_hash(prev, body)` appends. A body is an event id and
whether it refers to a payload; that is what damage to a row can change. Rows
carry, besides the columns the properties need, the insert they came with: the
table has no unique key and may hold the same row twice.

### Ingest

`pc[r]` is where the call `r` of `ingest_events` is; `txn[r]` its local
variables.

| Action | Code |
|---|---|
| `Open` | the transaction begins and fixes `CURRENT_DATE`, then waits for the row |
| `Prepare` | with the row locked: head, capture switch, plan, usage; `decide_capture`, `prepare_events` |
| `SkipPayloads`, `StorePayloads`, `DegradePayloads`, `StoreConflict` | `write_payload_batch`: nothing to store; stored; the store failed or did not answer; `payload_ref` exists already |
| `InsertRows` | the ClickHouse insert inside the transaction |
| `Commit` | head, meters, segments and usage at once |
| `Abort` | any exception or crash: PostgreSQL forgets, the other stores do not |
| `Retry` | the sender repeats a batch, also one that was recorded |
| `UpdateSettings`, `SetPlan`, `NextDay` | the world around it |

Abstracted: redaction (a payload is kept or not), the content of events, the
daily event limit (reported, never enforced here). `Retry` is bounded by
`MaxTry`, days by `MaxDay`.

### Verify

Beside every step of `Ingest`: the anchor job (`AnchorRead`, then `AnchorPut` or
`AnchorFail`; overlapping runs of one day appear as puts in another order),
`DamageRow` (the log loses or alters a row), and one reader that verifies or
exports with each access of a store as a step. Rows with one sequence number may
be returned in any order (`ScanOf`). `verify_file` is the auditor's tool, run
against any anchored hash.

### Delivery

A file is written under the lock of its process's buffer, in two steps: it gets its name
with the time and is written where no sender sees it (`Write`), and it is renamed into the
directory (`Rename`), or the disk does not take it (`WriteFails`). Files are numbered in the
order in which they were named, and two processes may rename in another order. A thread
that finds the lock taken waits for it (`GetLock`). Each process
has its sender thread (`loop`) and the drain of `close()`, which may overlap
once the join has timed out; the observer may hand over events after `close()` has begun. A
round lists the files, then handles one after the
other: post, answer, delete, park or give up. When a process ends, at its exit or by a
crash (`End`), its buffer is gone, with a file that was not renamed; requests
that were sent may be handled all the same (`late`). The collector is `Ingest` abstracted to
what a sender can see: a batch is recorded, or refused for its shape, or it fails
because its payload references exist (`Conflicts`). A clock that is set back, or that gives
one process one time for two files, is left out.

### Retention

One tenant; a batch is one object with one payload. The listing is one page: a
further page repeats the same steps on other objects. `modified` is the object's
`LastModified`, `created` the row's `created_at`, `keys` the batches whose
wrapped data key exists. The sweep is five steps (`SweepBegin`, `SweepList`,
`SweepRead`, `SweepDelete`, `SweepCommit`), with `SweepCancel` for a changed
policy and `SweepDie` between any two. The store may keep some of the objects it
was told to delete, and nobody reads its answer. Tiering is `TierPick`,
`TierCopy`, `TierMark`. Time is counted in days.

### Alerts

`ev[p]` is the evaluation in progress in a worker or a call of the route: its job,
the events left, what was found for the first of them, where it is.

| Action | Code |
|---|---|
| `Record`, `enqueue_alerts`, `EnqueueFails` | a batch is recorded; its job is handed over after the commit, or is lost |
| `Take`, `Finish`, `Report`, `Ack` | `run_worker`: read one new job, evaluate it, on an error write it to the failed stream, acknowledge it |
| `evaluate_all` | `POST /v1/alerts/evaluate`: the record, the newest event first |
| `ReadEvent` | the event and the facts that the model keeps |
| `ReadDefinition`, `Supersede`, `RecordDefinition` | `record_and_diff`: the definition on record, the UPDATE, the INSERT with the commit |
| `UpsertBegins`, `Upsert`, `dispatch_alert`, `CommitAlert` | `_upsert_and_maybe_dispatch`: the transaction begins (and fixes `now()`), locks the alert row, sends, commits |
| `Raise`, `Kill`, `Interrupt`, `Restart` | a store fails; the process is killed; it ends through its `finally`; it is started again |

Abstracted: two rules stand for all, one that fires on the event and one that
depends on what was recorded before; one agent with one credential, so the dedupe
key is the rule; one tool. Hit counts, evidence and the status of the channels are
left out, for nothing reads them back: a message counts as sent when
`dispatch_alert` ran, since a dispatch in which a channel failed starts the
cooldown all the same. `done`, `cut`, `owed` and `overlapped` are history variables.

### Policy

| Action | Code |
|---|---|
| `RefuseWrite`, `ReadVersion`, `UpdateBegins`, `UpdateLocks`, `InsertPolicy`, `AbortWrite`, `Forget` | `upsert_policy`: an empty condition, the highest version, the UPDATE that sees the rows of its beginning and then waits for their locks, the INSERT with the commit, and the memory that is dropped afterwards |
| `AskDecision`, `ReadSetting`, `_load`, `Decide`, `StoreFails`, `_record` | `decide_action`, and its way out when the store cannot be reached |
| `RestartProc` | a process loses its memory and its calls |
| `SwitchEnforcement` | the setting `policy_enforcement` (external: no route of this repository changes it) |

`late` is history: what a process has put back into its memory after it had dropped it for
good, and `confirmed` the writes that were answered when a decision began.

What a condition matches is the set of requests that fulfil it; names are their place
in the order of names. The branch of `decide` for an exception inside the evaluation
(`on_evaluation_failure`) cannot be reached with policies that the route accepts, and
is left out.

### Keys

The configuration, the key ring of every process as of its start, the payloads and the
key that wraps each. `Promote`, `DropKey` and `RestartWithKeys` are what an operator
does; he drops a key only once a job has said that it is safe. The job is `StartJob`,
`SelectBatch` (any rows: the SELECT has no order), `Rewrap` (one UPDATE), `CommitBatch`,
`JobDies`, `Report`. A payload is sealed (`seal`) some time before it is stored
(`StoreSegment`), which is where the advice of the job can be late. AES-GCM is "opens
with the key it was sealed with".

### Access

A request is counted, scope by scope (`Count`, or `LimiterFails` if Redis does), then
authenticated (`Authenticate`), and goes on to one of five handlers. `BootstrapReads`
and `BootstrapCommits` are onboarding under the advisory lock of the user;
`ConnectReads`, `ConnectCommits` and `QueueScan` connect a GCP project;
`create_read_token` and `revoke_read_token` are followed by `ChainAction`. A token that
is revoked after its request was let in does not stop the request, as in the code. The
OAuth hand-shakes of the other providers are not modelled.

### Sandbox

A public run purges (`PurgeSelects`, `purge_expired_public_demos`), takes the lock of
its visitor (`EnterSandbox`), reads the budget, creates or renews its row, and then, in
transactions of their own, seeds the graph, records the staged event and shares the
replay. A customer's run starts at `_demo_tenant`. A call takes less than an hour
(`Hour` units of the clock, two in the run), as the time limits of the stores see to, and
a sandbox lives for an hour at least: `SandboxAssumption` says both. `torn` remembers the
tenants that a purge took from under a call.

### Scan

One tenant at one provider: AWS, GitHub, GCP, Azure, Workspace or Slack, one in every
behaviour. The jobs of the others are queued; AWS is scanned from the command line only,
for the worker takes no such job (`worker.py:40-65`). A grant stands for a permission
and the resources it reaches.

| Action | Code |
|---|---|
| `Connect`, `SubmitJob`, `JobFails`, `StartScan`, `Enumerate`, `EnumerationFails` | the hand-over of a job, or that of the operator where the API queues none; a job that fails before its run; the first commit of a run; the calls of the provider |
| `DeleteBegins`, `DeleteEdges`, `DeletePerms`, `UpsertNodes`, `CommitGraph` | `persist`, statement by statement: in READ COMMITTED a DELETE sees what was there when it began, and waits for those who have deleted or upserted the same rows |
| `ComputeFindings`, `persist_findings`, `FinishScan` | the findings of a provider and the end of the run |
| `StatementFails`, `ValueFails`, `WorkerDies` | the three ways a run breaks: an aborted transaction (in which marking the run as failed fails too), a value that cannot be sent (marking it commits what was written), a killed worker |
| `build_upload`, `upload_local_scan`, `UploadFails` | a scan that the customer runs, and its upload |
| `Preview`, `Execute`, `UpdateStatus`, `_record_action`, `_record_chain_event`, `RevokeDies` | `revoke`: the provider is called, its answer may be lost, and three records follow |
| `ChangeCloud`, `UseCredential` | the world around it |

The providers have functions of one shape to write the graph and to run a scan; a
definition stands for all of them. The findings have rules of their own for each
provider. `dates` are the dates that a row has from the provider: a credential that came
with an upload has none, and one that was never dated counts as never used. Attribution
by activity (`attribution.py`) and the calls of the provider APIs are not modelled: a
listing is what the provider has at one moment.

### Tap

Two pumps for a local server, or one handler per request for a remote one (`transport`),
pass lines on (`Pump`, `Post`, `_relay`) and queue a copy (`_observe`), unless the queue is
full. The HTTP handler adds lines of its own: what a request is authorised by, a
redirect, and that an answer did not come or broke off (`_incomplete`); a streamed answer of
several chunks is passed on as lines that nobody can read. The observer takes them one after
another (`observe`) and keeps the table of pending
requests, the hash of the last inventory of tools, the exchanges of several turns and
the version of the protocol; what is no JSON object it drops (`Unreadable`). `ChildExits`,
`Join`, `PutStop`, `TakeStop` and `TapExits` are the end: `pump_out` is waited for two seconds,
the end mark waits for room in the queue, the observer is waited for two seconds, and then
the process ends with whatever is left. A message has
the parts that the observer tells apart; the bytes are left out, as is the installation of the
tap in a client's configuration. Both sides may use the same ids, but a side gives an id to
one request of a session, as MCP asks of it (`TapAssumption`); the observer relies on it.

### Sessions

`_start` and `_finish` are the callbacks of the SDK, `Export`, `Settled` and `Resend`
its exporter, and the rest is the receiver: `LockSequence` for the rows of
`session_sequences` one after the other, in the order in which the sessions occur in the
batch, `allocate_session_sequences`, `otlp_traces` and `link_observed_credentials`. A
batch whose answer is late is sent again while the first is still at work. When
recording it fails (`IngestFails`) its rows may be in the event log all the same, for
the insert comes before the commit. Two batches that lock two sessions in opposite order
wait for each other until PostgreSQL ends one (`AllocationFails`).

### Detection

One agent. `RecordAct` appends to the record; `_facts`, `record_and_diff`,
`ReadBaseline`, `Judge` and `BaselineFails` are `load_context` and the evaluation, with
other actions, scans and days between them. The rules are operators over the facts, with
the thresholds of the code. The query of the resources that the history names returns
`MaxRefs` at most (10000 in the code), and which ones is not determined (`RefsRead`);
the history of an agent begins with its first event or, if that was earlier, with the
day on which it was registered (`FirstSeen`). The patterns over text (destructive
operations, poisoned descriptions) are sets; `tool_inventory_observations`, which
nothing reads back in an evaluation, and captured payloads that cannot be read any more
are left out.

## 3. Runs

| Run | Bounds | Shows |
|---|---|---|
| `ingest` | two producers with 2 + 1 payload events on one token, the second repeated once; a forged batch; a settings change with its event; plan limit 1 or none; two days | the eight properties of the collector, `RecordsWholeBatches` among them |
| `verify` | two batches of one event, one with a payload and repeated once; anchors of one date, replaced by later puts; one damaged row; pages of two rows | what verdicts and bundles prove, also where the log holds a row twice, and when a verification fails without cause |
| `verify_orphan` | as `verify` | *violated*: orphan rows below the anchor are not surfaced |
| `delivery` | two processes, the first of which may exit; two events of one, a payload and a malformed one, or one of each; flush at two; one fault | nothing lost, order kept, the spool drains |
| `drain` | as `delivery`, no malformed event | *violated*: one lost answer to a payload batch blocks the spool for good |
| `retention` | two uploads; retention of one or two days, two changes; tiering at one day; three days | nothing early, nothing late, rows do not outlive objects |
| `alerts` | *workers*: two workers, three events in two jobs, two ticks, a cooldown of one, one worker stopped; *call*: one worker and one re-evaluation, two events in two jobs, no ticks, no lost hand-over | jobs are not skipped and settle, one message per cooldown; the definition history, a recorded change is reported or its loss is known |
| `reevaluate` | as *call* of `alerts`, no worker | *violated*: a re-evaluation reports a first observation as a change |
| `retention_crash` | as `retention`, one change | *violated*: a sweep that dies between its deletes leaves rows and keys nobody finds |
| `control` | *policy*: three writes of one name, two of which turn the policy off, and two decisions in two processes, one switch, one restart; *keys*: three keys, two payloads, one process, two jobs, batches of one; *access*: two of seven requests at once, every limit one, two windows; *sandbox*: three calls, two visitors and a customer, two runs an hour, one live sandbox, a clock of two steps, which are an hour | one version in force, denials have a cause, payloads stay readable, limits are kept, owners are unique, sandboxes can be reclaimed |
| `policy_off` | the *policy* of `control` | *violated*: a policy that was turned off still denies from a process's memory |
| `sources` | *scan*: six providers, two jobs, or for AWS a job and an upload, one credential, two grants, one change, one death, one revocation; *jobs*: two jobs at AWS, without the revocation; *tap*: three messages of both sides, or a request of the server beside an array of the client, at a local server; a call and an array at a remote one, six lines; queue and table of two; *sessions*: three runs of two agents, each batch sent twice at most, one fault; *rules*: a history of five sessions and three new actions, a query that returns two resources of three, a jump of 25 days; *graph*: the same, with a scan that ends in place of the jump | the graph and its findings, revocation, replies and losses, numbers and gaps, deviations |

`control` and `sources` check four components each, which share no state. A behaviour
of all four is for each of them a behaviour of its own, so the run chooses one (`turn`),
and the other three stay as they start: the run explores the union of four state
spaces, not their product, and nothing is lost by it. `sources` divides two of its four
further: what days and a finished scan do to the rules meets in no property, and a
revocation beside two scans is explored for the tokens of GitHub, beside a scan and an
upload for the keys of AWS. Its two scan jobs are symmetric. `alerts`
has two turns of one component, for what stops a worker and for what a re-evaluation does.

Why the bounds are enough to be of use: a fork, a lost barrier or an exceeded allowance
needs two calls on one tenant; a repeat needs one retry; a midnight needs two days. A
false verdict needs an anchor, a row after it, a row that was rolled back and another
row with its number, the same or not. An event is lost with its process by one crash or
one failed write, and order is broken by two files of one process, or of two that rename
in another order. A spool that is blocked needs a file behind the blocking one, and the
races of senders need two of them, which one closing process has. Retention needs a
batch that expires, another that does not, an object without a row, a change of policy
in both directions (two changes) and three days. A cooldown is broken by two processes
that find the same alert, or by one that comes back before it is over; a definition is
doubled by two observations at once; a job is lost by one worker that stops. Two
versions in force, a doubled owner and a limit that is passed need two calls at once,
and the memory of a policy two processes, one of which has not written it. A key is
dropped too early by a payload that was sealed before a promotion and stored after it,
and by two jobs with different key rings, which needs three keys. A sandbox is taken
from under a call by another visitor's purge; a visitor passes his limit with three
calls. Two scans, or one and an upload, show every order of their deletes and inserts; a
second grant shows a permission that one of them has kept. A table of two pending
requests is full with the third. A gap needs a batch that fails behind one that does
not, in a session of two agents. A new credential that hides itself needs two sessions
that use it, and the window of 30 days a jump over it. The proofs (section 5) remove the
bounds where they apply.

No run checks for deadlock: all models are of systems that come to rest when the
bounded input is used up. A wait in a cycle (two batches that lock two sessions in
opposite order, two scans that upsert the same nodes) is ended by PostgreSQL, which the
models have as the failure of a statement.

### The five disagreements

1. `ingest.py:201-203` says of rows left by a failed commit that "verification
   will surface" them. A verification that starts from an anchor reads only rows
   after it (`verify.py:154`); orphans at or below the anchor are never read.
2. `emitter.py:5-7` says that spool files "drain on recovery". If the answer to a
   recorded batch with payloads is lost, its repeat is answered 500 for good
   (unique `payload_ref`), a 500 ends the round, and nothing behind it is sent.
3. `test_scale_and_tiering.py:380-388` says that a row pointing at an object that
   no longer exists "is NOT fine". A sweep that dies between `delete_objects` and
   the commit leaves such rows, and with them the data keys; no later pass lists
   them, for it starts from the bucket.
4. `test_tool_integrity.py:61` says of a tool that its "first observation is not a
   change". `POST /v1/alerts/evaluate` goes through the record from the newest event
   to the oldest (`alerts.py:150`), and `record_and_diff` takes the order of
   evaluation for that of observation: on a record that was not evaluated before,
   the first observation is reported as a rug pull.
5. `policy.py:273-275` says that "any policy write drops the entry, so a fail-closed policy
   that was just disabled cannot keep denying from cache", and
   `test_new_surface.py:246-271` tests it in one process, one call after the other. The
   entry is dropped in the process that handled the write. Another process keeps its own,
   and in the same process a decision that had loaded the policies before the write puts
   the entry back after it: once the store fails, both deny for a policy that was off
   before the call began. `DenialsHaveCause` says what is true: the process that
   confirmed the write denies no more, unless such a late decision was under way.

Smaller observations are written into the properties as their exceptions:
a verification may fail without cause when an anchor is put between its two reads
(`NoFalseAlarm`); full verification may confirm a row of a rolled-back
transaction if an identical repeat commits while it reads
(`AnchoredRowsCommitted`); and orphan rows below the anchor end every later export
half-way (`EvidenceComplete`). A job whose worker was killed stays pending and is
never claimed, one whose worker was interrupted is acknowledged half-way
(`Settled`); two observations of a tool at once may leave two current definitions
(`OneDefinition`); the cooldown counts from the beginning of the transaction that
sent the message, which may be earlier than the message by the time it waited for
the row (`CooldownKept`).

- "Safe to drop" (`key_rotation.py:119`) holds for what is stored. A payload that was
  sealed under the old key and is stored after the report is unreadable once the key is
  dropped (`late` in `ReadableUnlessLate`).
- The cap on live sandboxes is read without a lock, so calls of several visitors may pass
  it together; a run in a sandbox that a purge has taken is counted nowhere
  (`VisitorLimitKept`).
- Two scans of one provider at once leave the permissions of both in the graph, and the
  findings of each; only a run that has the provider to itself puts it in order
  (`settled` in `FindingsFollowGraph`). The permissions of an upload hang on the
  credential, where the AWS findings do not look, and go with the next AWS run.
- A statement that fails aborts the transaction in which the run should be marked as
  failed, so the run stays "running".
- The tap may queue a reply before its request, since a line is passed on first and
  queued then: the reply has no partner and is not recorded (`LossHasCause`).
- A tap loses at its end what is in the hand of the client's pump, what comes behind the
  end mark, and what the observer has not come to in two seconds (`LeftBehind`).
- Beyond 10000 resources the baseline forgets some of the kinds that an agent has always
  used, and an ordinary action may count as a deviation (`cut` in `DeviationsReported`).
- An event that is handed over after the last flush of `close()` is written by nobody if
  no further flush comes; so is what is in the buffer at a crash (`NothingLost`).
- `tool_integrity.py:84-86` speaks of "distinct sessions". `sessions_seen` counts
  observations more than a second apart, whatever their session; `session_id` is not used.
- Two sessions that use the same new credential before either is evaluated are each
  in the history of the other, and neither is reported (`Between` in
  `DeviationsReported`).

## 4. Fairness

`Delivery` states weak fairness of each sender thread's own steps
(its timed wait ends, its requests are answered or time out). The thread is a
loop around `Event.wait(timeout)` and calls with a timeout (`emitter.py:97-104`,
`SEND_TIMEOUT_S`), so a thread that runs always goes on. Nothing is assumed of
agents, of `close()` or of crashes. Faults are bounded by `MaxFaults`: "some day
the collector answers" is the premise of `Drains`, as is a process that stays up
(`SenderUp`). `Drains` itself states the one exception the code has.

`Alerts` states weak fairness of each worker's own steps and of each call's
evaluation: a worker is a loop around `xreadgroup` with a timeout, its container is
started again when it ends (`restart: unless-stopped`, `compose.release.yml:183`),
and transactions that wait for an alert row wait for one that sends and commits.
Nothing is assumed of ingest, of the hand-over or of failures; a worker is stopped
`MaxDeaths` times at most.

## 5. Proofs

All theorems hold for every value of the constants that satisfies the `ASSUME` of
the module: any number of calls, batches, tokens, days, uploads, policies, messages and
workers, and any size of a queue, a window or a limit. Every safety property that a
passing run checks is a theorem. For each, the invariant that is inductive is named here, with
what it adds to the property.

`IngestProofs` (it opens with lemmas about the operators of `Chain`):

- `TypeCorrect`, `HistoryAlwaysInLog`, `ChainNeverForks` from the
  invariant `ChainInv`. `HistoryInLog` is not inductive by itself: an open
  transaction must have read the head that is current (`SnapshotCurrent`), which
  needs the lock (`LockHeld`); its rows must have landed before it
  commits (`RowsLanded`); and no insert may be taken for another one
  (`SubmissionsFresh`).
- `CaptureBarrierHolds` and `CollectorImplementsRecord` from `CallInv`: what a
  transaction is about to write is its whole batch (`BatchKept`) under the capture
  switch that is still in force (`CaptureInForce`). The second is the refinement: each step
  of `Ingest` is one of `RecordLog` or leaves its record alone.
- `AllowanceIsRespected` from `AllowanceInv`: what a transaction is about to charge
  fits the limit that is still in force (`ChargeFits`); the lemma about
  `prepare_events` bounds the number of captured payloads by the slots.
- `PayloadsAlwaysResolve` from `PayloadInv`: the payloads of a transaction that has
  stored them, and not committed, are all there (`PayloadsStored`).
- `MetersAlwaysMatch` from `MeterInv`: no meter counts for a call within the collector
  (`ProducersOnly`), and the sets that are counted are finite (`MetersFinite`). The
  committed events of a token on a day are counted as a set that grows by the rows of one
  commit, which are new, so no sum over the record is needed. `IngestAssumption` says that
  a call within the collector records one event, as its three callers do.

`VerifyProofs` (builds on `IngestProofs`):

- `AnchorsAreRecord` from `HeadInv` and `AnchorInv`: what a job has read, and what it has
  put, is a part of the history that the head commits to, and that history only grows.
  `HeadInv` takes from `ChainInv` what does not speak of rows, since `DamageRow` breaks
  the rest: anchors are sound under any damage to the log.
- `AnchoredVerdictsSound`, `FullVerdictsSound` and `EvidenceIsSound` from `AuditInv`, which
  adds that the rows of the log are finitely many and told apart by the insert they came with
  (`LogInv`), and what the reader holds at each of his steps (`ReaderInv`): the rows he has
  read, of which a chain that checks out is a part of the history.
- `AnchoredRowsAreCommitted`, `AlarmsAreTrue` and `ExportsAreComplete` are about a log
  without damage. `IntactInv` keeps `RowsLanded`, `HistoryInLog` and `NoFork` as long as
  nothing was damaged, and `IntactReadInv` says which rows the reader must have found. Rows
  with one sequence number come in any order: that a chain which is broken at some row has
  a first such row is an argument by the least element, and needs no induction.

`DeliveryProofs`:

- `DeliveryTypes`; `EventsInOrder` from `OrderInv`: every file that was renamed is in the
  spool, recorded or parked (`FilesAccounted`), the list of a sender holds every unsettled
  file that goes before one on it (`ListsComplete`), a request that is on its way, or
  late, is for the oldest file its sender still has (`RequestsFit`, `LateInOrder`), and a
  process that is writing has named no file after that one (`WritesFit`). Only the files of one
  process are ordered: those of two may be renamed in either order.
- `EventsNeverLost` from `EventsInv`: the files of a process and its buffer hold its events
  without a gap (`BufferIsRest`, `NoGap`); a buffer that was not refused by the disk
  holds fewer events than are written at once (`BufferIsYoung`); and what a process
  that ended had not written came after its last flush (`EndAccounted`). That it is among the
  last `FlushAt` says nothing where two events are all there are: that clause is bought
  by the proof alone.

`RetentionProofs`:

- `TypeCorrect`; `RowsNeverDangle` from `RowInv`: an upload that has put its object
  holds the tenant's row, and so does a sweep between its deletes
  (`LockedWrites`), so an expired batch is never one whose rows are yet to come.
- `RetentionIsKept` from `DateInv`: every date is the upload's or later
  (`DatesAgree`), and what a sweep has decided is expired under the policy it has
  read (`ExpiryDecided`); the recheck under the lock makes that the policy in
  force.

`AlertsProofs`:

- `AlertsTypes`; `NoMessageInCooldown` from `EvalInv`: what an evaluation holds fits where
  it is, so that a message goes out only under the lock of its row.
- `JobsNeverSkipped` from `JobInv`: a job is in one place (`OnePlace`), one evaluation at
  most holds it (`OneHolder`), and what is left of it with what was evaluated is the whole
  batch (`JobsFit`).
- `ChangesNeverForgotten` from `EvalInv`: a change that is owed is on the list of the
  evaluation that found it, until it is reported or its loss is known.
- `OneDefinitionCurrent` from `DefInv`: once a definition was seen there is a current one
  (`Seen`), and unless two observations overlapped there is at most one, one evaluation at
  most observes, and what it has read is what is on record (`Alone`).

`ControlProofs`:

- `OneVersionInForce` from `VersionInv`: the versions of a name are 1 to k without a gap,
  the last one is in force (`Numbered`), and a call that has read k and seen live rows
  saw the k-th (`WriteFits`). So the row that passes the unique key is the next version,
  and its UPDATE has reached the one before it. That no two calls write version k + 1 is
  the unique key's work; the row lock alone would not do.
- `DenialsAreCaused` from `DecisionInv`: what a process remembers are policies that were in
  force when it loaded them (`MemoryFit`), and what a decision has loaded was in force when
  it looked (`CallFits`), where a version that was replaced since stays replaced.
- `PayloadsStayReadable` from `KeysInv`: the keys can be numbered in the order in which
  they were promoted, and every ring retires only keys older than its active one
  (`RingOrdered`). A key that was declared safe after a payload was stored is older than
  the key that wraps the payload (`Aged`): the declaration finds nothing under that key,
  and a job moves a payload only to a later key, since what one job has updated no other
  job updates before the commit (`MovesFit`). So what is declared safe stays unneeded.

`AccessProofs`:

- `OneTenantPerAccount` from `AccountInv`: every scan that is queued, and every call
  about to queue one, is for an account that its tenant has connected; the first look at
  the owners is needed nowhere, the unique index is.
- `OneTenantPerUser` from `UserInv`: the advisory lock keeps two calls of one user from
  being between their look and their commit (`OneInsert`).
- `LimitsKept` from `LimitInv`: a counter has counted every request that was let in under
  it (`CounterOK`), and a request that is yet to be counted has been let in nowhere
  (`Uncounted`).
- `SandboxTypesKept`, with `PublicInside`: only visitors get past the gate of visitors.
- `SandboxesReclaimable` from `StrandInv`: the tenant that a call uses can be found by a
  row, or was taken from it (`HeldFindable`).
- `VisitorsLimited` from `RunsInv`: a row counts every run since its window began
  (`RowsCount`, `WindowsCount`), a call ends in time (`InTime`), and a row that a call
  has read is that of its visitor until it has written (`RowsHeld`). It needs what
  `SandboxAssumption` says of time: a call that took longer could be counted in a window
  that is over.

`SourcesProofs`:

- `ScanTypesKept`; `RevokedStaysGone` from `RevokedInv`: a call that is about to write
  "revoked" has seen the provider delete the key (`CallFits`), and nobody brings a key
  back under its fingerprint.
- `FindingsAgree` from `GraphInv`: a finding has one row (`OnePerKey`); as long as the graph
  is settled it is that of one run (`OneRun`), and the findings that a run left alone is
  about to write are those that its listing calls for (`AloneFits`).
- `TapTypes`; `RepliesFitRequests` and `LossesExplained` from `TapInv`. A line is in one
  hand or in the queue, once (`WaitsOnce`, `NoneAstray`), and nobody answers a
  notification (`PassedFits`). Once `pump_out` was waited for, and not in vain, no line
  of the server is in its hand or behind the end mark (`ExitInv`). What the observer
  made of a line is that line's (`EventsFit`), what it keeps as pending is a request it
  has seen (`PendingFit`), and a request it has seen is pending, answered, or was pushed
  out (`RequestsKept`). A table that is full of later requests is what a reply without a
  partner is excused by: the requests behind a forgotten one are as many as the table
  has places, which is an injection of its places into them.
- `SessionsTypes`; `NumbersAlwaysAccounted` from `SessionsInv`: a request that holds the
  row of a session has read the number that is next, and no other request holds it
  (`LocksFit`); each number below the next one was taken by exactly one request
  (`NumbersTaken`); the log holds what the recorded requests took, and perhaps what
  failed ones did (`RowsFit`). That the spans of a session get each number of its range
  once is a lemma about ranks in a finite set (`Ranks`): they are as many as the range
  has numbers, and no two are the same.
- `DetectionTypes`; `DeviationsAlwaysReported` from `DetectionInv`: a baseline that was
  read on day d with u entries in the record says of an action what had happened before
  it, and nothing that happened after the u-th entry (`JudgeFits`); the result is bound
  to what was known then (`ResultFits`). A query that returned all there was knows every
  kind; one that was cut knows fewer, which can only add to a score. The record only
  grows at its end, so neither changes later; the window of a later day holds no more of
  what came before the action (`WindowsShrink`), so what the second query finds usual
  the first had found too.

Only model-checked: `Drains`, `JobsSettle` and `ExpiresInTime`, which say that something
happens in the end; this prover does not reach liveness under fairness. Not proved either
is anything about what recursive operators of the libraries compute (`FoldLeft`,
`SelectSeq`): the models that proofs are about are written without them where a proof
needs more than their type.

## 6. Not modelled

- Redaction: regular expressions over text, which a bounded model cannot tell apart.
- The read-side views (dashboard, reports, compliance, controls): queries without state,
  except the gaps that a replay shows.
- The calls of the provider APIs, attribution by activity, and the OAuth hand-shakes:
  external data.
- The web application, the assembly of the API, health probes, header and body checks,
  generated schemas, the migration runner: wiring and presentation.
- The pool of connections: a bound on all calls together that belongs to no component.
- Acknowledging an alert and configuring channels: single writes without a race.
- Several tenants under the limit of tiering.

`PROJECT.json` says for each component what is left out and why.

## 7. Where to go on

1. An abstract specification of the alert worker, "every job is evaluated or its failure
   is kept", and one of the spool, "a batch is recorded or parked in order", with their
   refinements.
2. The composition of `Sessions` with `Ingest`, for the gaps that a refused batch leaves.
3. The pool of connections, as a bound on the transactions of `Alerts` that are open at
   once.
