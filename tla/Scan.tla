--------------------------------- MODULE Scan ---------------------------------
(***************************************************************************)
(* Discovery and containment of the credentials of one tenant at one       *)
(* provider: scan jobs, the workers that run them, scans that a customer   *)
(* runs and uploads, the credential graph and the findings they keep in    *)
(* PostgreSQL, and the calls that revoke a credential at the provider.     *)
(*                                                                         *)
(* A grant stands for a permission and the resources it reaches; its       *)
(* holder is a credential at GitHub, and the owning principal elsewhere.   *)
(***************************************************************************)
EXTENDS Naturals, FiniteSets

CONSTANTS
  Providers,   \* the providers to look at, one in every behaviour
  Creds,       \* fingerprints
  Owners,      \* principals
  OwnerOf,
  Used,        \* Used[c]: last use that the provider knows: "never", "cold" or "warm"
  Old,         \* the credentials that were not rotated in 90 days
  Grants,      \* [access, wide, everything, prod]
  ScanJobs,
  Uploads,     \* calls of POST /v1/scans/local
  Casts,       \* the jobs and uploads there are, in one behaviour
  Revocations, \* calls of POST /v1/revocation
  Workers,     \* how many scan workers there are
  MaxChanges,  \* bound: changes made at the provider by others
  MaxDead      \* bound: workers and calls that are killed

VARIABLES
  provider,
  cloud,       \* what the provider has: keys and grants
  row,         \* row[c]: credentials.status
  dates,       \* dates[c]: which dates the row of c has from the provider
  perms,       \* permissions and their edges: [run, on, grant]
  found,       \* findings: [cred, type, severity]
  scan,        \* scan[j]: a job and the transaction it has open
  upload,      \* upload[u]: a scan that the customer runs
  run,         \* run[j]: scan_runs.status
  call,        \* call[v]: a call of revoke
  recorded,    \* credentials that recorded events of the last 30 days name
  trail,       \* revocation_actions and revocation events: [call, in]
  settled,     \* history: no run has changed the graph since the last one that ran alone
  changes, deaths

scanVars == <<provider, cloud, row, dates, perms, found, scan, upload, run, call, recorded,
              trail, settled, changes, deaths>>

KeyStates == {"absent", "active", "inactive"}

Dates == {"created", "used"}

Severities == {"critical", "high", "medium", "info"}

Types == {"orphaned_credential", "over_privileged", "stale_authorization", "blast_radius"}

Holders == Creds \cup Owners

Perms == [run : ScanJobs \cup Uploads, on : Holders, grant : Grants]

Findings == [cred : Creds, type : Types, severity : Severities]

Cloud == [keys : [Creds -> KeyStates], grants : [Holders -> SUBSET Grants]]

InTransaction == {"edges", "perms", "upsert", "commit"}

Working == InTransaction \cup {"start", "persist", "compute", "record", "finish"}

ASSUME ScanAssumption ==
  /\ Providers \subseteq {"aws", "github", "gcp", "azure", "workspace", "slack"}
  /\ OwnerOf \in [Creds -> Owners]
  /\ Used \in [Creds -> {"never", "cold", "warm"}] /\ Old \subseteq Creds
  /\ \A g \in Grants : /\ g.access \in {"read", "write", "admin"}
                       /\ {g.wide, g.everything, g.prod} \subseteq BOOLEAN
  /\ Uploads \cap ScanJobs = {} /\ Casts \subseteq SUBSET (ScanJobs \cup Uploads)
  /\ Workers \in Nat /\ MaxChanges \in Nat /\ MaxDead \in Nat

ScanTypeOK ==
  /\ provider \in Providers
  /\ cloud \in Cloud
  /\ row \in [Creds -> {"none", "active", "inactive", "revoked"}]
  /\ dates \in [Creds -> SUBSET Dates]
  /\ perms \subseteq Perms
  /\ found \subseteq Findings
  /\ scan \in [ScanJobs -> [at : Working \cup {"new", "queued", "over", "dead"}, listed : Cloud,
                            edges : SUBSET Perms, found : SUBSET Findings, alone : BOOLEAN]]
  /\ upload \in [Uploads -> [at : {"new", "post", "over"}, listed : Cloud]]
  /\ run \in [ScanJobs \cup Uploads -> {"none", "running", "succeeded", "failed"}]
  /\ call \in [Revocations -> [at : {"new", "execute", "update", "action", "chain", "over", "dead"},
                               cred : Creds, action : {"none", "deactivate", "delete", "revoke"},
                               ok : BOOLEAN]]
  /\ recorded \subseteq Creds
  /\ trail \subseteq [call : Revocations, in : {"actions", "chain"}, ok : BOOLEAN]
  /\ settled \in BOOLEAN
  /\ changes \in 0 .. MaxChanges /\ deaths \in 0 .. MaxDead

-----------------------------------------------------------------------------
(* What a scan finds and writes. *)

Holder(c) == IF provider = "github" THEN c ELSE OwnerOf[c]

Listed(l) == {c \in Creds : l.keys[c] # "absent"}

\* The statuses that the upserts of a credential leave: GitHub's keeps that of the row,
\* and a grant of Google Workspace is active as long as it is listed.
_upsert_credential(c, l) == l.keys[c]

_upsert_gh_credential(c) == IF row[c] = "none" THEN "active" ELSE row[c]

_upsert_simple_credential(c, l) == IF provider = "workspace" THEN "active" ELSE l.keys[c]

Upserted(c, l) ==
  CASE provider = "github" -> _upsert_gh_credential(c)
    [] provider \in {"workspace", "slack"} -> _upsert_simple_credential(c, l)
    [] OTHER -> _upsert_credential(c, l)

\* The date of creation is written when the row is made, that of the last use each time.
Dated(c) == dates[c] \cup {"used"} \cup {d \in {"created"} : row[c] = "none"}

PermsOf(j, C, l) ==
  {p \in Perms : /\ p.run = j
                 /\ \E c \in C : p.on = Holder(c) /\ p.grant \in l.grants[Holder(c)]}

\* _blast_radius and _blast_radius_for_credential
Reach(c, P) == {p.grant : p \in {q \in P : q.on = Holder(c)}}

Accesses(R) == {g.access : g \in R}

Destructive(R) == Accesses(R) \cap {"write", "admin"} # {}

admin_wildcard(R) == \E g \in R : g.wide /\ g.everything

\* A credential without a date of last use counts as never used, one without a date of
\* creation is never too old.
LastUsed(c) == IF "used" \in dates[c] THEN Used[c] ELSE "never"

RotationDue(c) == "created" \in dates[c] /\ c \in Old

Given(holds, severity) == IF holds THEN {severity} ELSE {}

Unused(last, R) == Given(last # "warm", IF Destructive(R) THEN "high" ELSE "medium")

Privileged(R) ==
  Given(Accesses(R) \cap {"admin", "write"} # {},
        IF "admin" \in Accesses(R) THEN "critical" ELSE "high")

\* The rules for AWS.
_rules_for_credential(c, R) ==
  [orphaned_credential |-> Unused(LastUsed(c), R),
   over_privileged |->
     Given(admin_wildcard(R) \/ (Destructive(R) /\ \E g \in R : g.prod \/ g.everything),
           IF admin_wildcard(R) THEN "critical" ELSE "high"),
   stale_authorization |-> Given(RotationDue(c), "medium"),
   blast_radius |-> {"info"}]

_github_rules(c, R) ==
  [orphaned_credential |-> Unused(LastUsed(c), R), over_privileged |-> Privileged(R),
   stale_authorization |-> Given(RotationDue(c), "medium"), blast_radius |-> {"info"}]

\* Google Cloud does not tell when a key was used.
_gcp_rules(c, R) ==
  [orphaned_credential |-> {}, over_privileged |-> Privileged(R),
   stale_authorization |-> Given(RotationDue(c), "medium"), blast_radius |-> {"info"}]

\* Nor does Entra; an expired credential is orphaned as long as it reaches something.
_azure_rules(c, R) ==
  [orphaned_credential |-> Given(row[c] = "inactive" /\ Privileged(R) # {}, "medium"),
   over_privileged |-> Privileged(R),
   stale_authorization |-> Given(RotationDue(c), "medium"), blast_radius |-> {}]

\* compute_workspace_findings, compute_slack_findings
_broad_grants(R) ==
  [orphaned_credential |-> {}, over_privileged |-> Given("write" \in Accesses(R), "high"),
   stale_authorization |-> {}, blast_radius |-> {}]

Rules(c, R) ==
  CASE provider = "aws"    -> _rules_for_credential(c, R)
    [] provider = "github" -> _github_rules(c, R)
    [] provider = "gcp"    -> _gcp_rules(c, R)
    [] provider = "azure"  -> _azure_rules(c, R)
    [] OTHER               -> _broad_grants(R)

\* compute_findings: for every credential in the database, listed now or not.
compute_findings(P) ==
  {f \in Findings : row[f.cred] # "none" /\ f.severity \in Rules(f.cred, Reach(f.cred, P))[f.type]}

-----------------------------------------------------------------------------
(* A job. *)

Busy == {j \in ScanJobs : scan[j].at \in Working}

At(j, a) == scan[j].at = a

Goto(j, a) == scan' = [scan EXCEPT ![j].at = a]

\* The connection is stored, and then the job is queued, or is not.
Connect(j) ==
  /\ At(j, "new") /\ provider \in {"github", "gcp"}
  /\ \E a \in {"queued", "over"} : Goto(j, a)
  /\ UNCHANGED <<provider, upload, cloud, row, dates, perms, found, run, call, recorded, trail, settled, changes, deaths>>

\* The API queues no jobs of the other providers the worker knows.
SubmitJob(j) ==
  /\ At(j, "new") /\ provider \in {"azure", "workspace", "slack"}
  /\ Goto(j, "queued")
  /\ UNCHANGED <<provider, upload, cloud, row, dates, perms, found, run, call, recorded, trail, settled, changes, deaths>>

\* The worker takes the job and gets no token for the provider: no run is recorded.
JobFails(j) ==
  /\ At(j, "queued") /\ Cardinality(Busy) < Workers
  /\ Goto(j, "over")
  /\ UNCHANGED <<provider, upload, cloud, row, dates, perms, found, run, call, recorded, trail, settled, changes, deaths>>

\* A worker takes the job, or somebody scans AWS from the command line; the run commits.
StartScan(j) ==
  /\ \/ At(j, "queued") /\ Cardinality(Busy) < Workers
     \/ At(j, "new") /\ provider = "aws"
  /\ scan' = [k \in ScanJobs |->
       IF k = j THEN [scan[k] EXCEPT !.at = "start", !.alone = Busy = {}]
       ELSE IF k \in Busy THEN [scan[k] EXCEPT !.alone = FALSE] ELSE scan[k]]
  /\ run' = [run EXCEPT ![j] = "running"]
  /\ UNCHANGED <<provider, upload, cloud, row, dates, perms, found, call, recorded, trail, settled, changes, deaths>>

Enumerate(j) ==
  /\ At(j, "start")
  /\ scan' = [scan EXCEPT ![j].at = "persist", ![j].listed = cloud]
  /\ UNCHANGED <<provider, upload, cloud, row, dates, perms, found, run, call, recorded, trail, settled, changes, deaths>>

\* The provider fails: the run has failed, and the job goes to the dead letters.
EnumerationFails(j) ==
  /\ At(j, "start") /\ Goto(j, "over")
  /\ run' = [run EXCEPT ![j] = "failed"]
  /\ UNCHANGED <<provider, upload, cloud, row, dates, perms, found, call, recorded, trail, settled, changes, deaths>>

Doomed == perms

\* DELETE FROM permission_reaches_resource begins: it sees the edges there are now.
DeleteBegins(j) ==
  /\ At(j, "persist")
  /\ scan' = [scan EXCEPT ![j].at = "edges", ![j].edges = Doomed]
  /\ UNCHANGED <<provider, upload, cloud, row, dates, perms, found, run, call, recorded, trail, settled, changes, deaths>>

\* It has waited for whoever has deleted one of them and not yet committed.
DeleteEdges(j) ==
  /\ At(j, "edges")
  /\ \A k \in ScanJobs \ {j} :
       scan[k].at \in {"perms", "upsert", "commit"} => scan[k].edges \cap scan[j].edges = {}
  /\ scan' = [scan EXCEPT ![j].at = "perms", ![j].edges = @ \cap perms]
  /\ UNCHANGED <<provider, upload, cloud, row, dates, perms, found, run, call, recorded, trail, settled, changes, deaths>>

\* DELETE FROM permissions; one whose edges are still there refuses to go.
DeletePerms(j) ==
  /\ At(j, "perms") /\ Doomed \subseteq scan[j].edges
  /\ Goto(j, "upsert")
  /\ UNCHANGED <<provider, upload, cloud, row, dates, perms, found, run, call, recorded, trail, settled, changes, deaths>>

\* Every node is upserted; a row that another scan has upserted is waited for.
UpsertNodes(j) ==
  /\ At(j, "upsert")
  /\ \A k \in ScanJobs \ {j} :
       At(k, "commit") => Listed(scan[k].listed) \cap Listed(scan[j].listed) = {}
  /\ Goto(j, "commit")
  /\ UNCHANGED <<provider, upload, cloud, row, dates, perms, found, run, call, recorded, trail, settled, changes, deaths>>

\* The deletes, and what was upserted and inserted for the credentials of C.
Write(j, C) ==
  /\ row' = [c \in Creds |-> IF c \in C THEN Upserted(c, scan[j].listed) ELSE row[c]]
  /\ dates' = [c \in Creds |-> IF c \in C THEN Dated(c) ELSE dates[c]]
  /\ perms' = (perms \ scan[j].edges) \cup PermsOf(j, C, scan[j].listed)
  /\ settled' = FALSE

CommitGraph(j) ==
  /\ At(j, "commit")
  /\ Write(j, Listed(scan[j].listed))
  /\ Goto(j, "compute")
  /\ UNCHANGED <<provider, upload, cloud, found, run, call, recorded, trail, changes, deaths>>

persist(j) ==
  DeleteBegins(j) \/ DeleteEdges(j) \/ DeletePerms(j) \/ UpsertNodes(j) \/ CommitGraph(j)

ComputeFindings(j) ==
  /\ At(j, "compute")
  /\ scan' = [scan EXCEPT ![j].at = "record", ![j].found = compute_findings(perms)]
  /\ UNCHANGED <<provider, upload, cloud, row, dates, perms, found, run, call, recorded, trail, settled, changes, deaths>>

SameKey(f, g) == f.cred = g.cred /\ f.type = g.type

\* A finding that is there stays as it was.
Kept_All(new) == found

\* ON CONFLICT DO UPDATE: what is not found again stays.
Kept(new) == {f \in found : ~\E g \in new : SameKey(f, g)}

RecordFindings(new) ==
  found' = Kept(new) \cup {f \in new : ~\E g \in Kept(new) : SameKey(f, g)}

persist_findings(j) ==
  /\ At(j, "record")
  /\ RecordFindings(scan[j].found)
  /\ settled' = scan[j].alone
  /\ scan' = [scan EXCEPT ![j].at = "finish", ![j].found = {}]
  /\ UNCHANGED <<provider, upload, cloud, row, dates, perms, run, call, recorded, trail, changes, deaths>>

FinishScan(j) ==
  /\ At(j, "finish") /\ Goto(j, "over")
  /\ run' = [run EXCEPT ![j] = "succeeded"]
  /\ UNCHANGED <<provider, upload, cloud, row, dates, perms, found, call, recorded, trail, settled, changes, deaths>>

\* A statement fails. The transaction is aborted, so that the UPDATE that would mark the
\* run as failed fails too: the run is left as running, and the job goes to the dead letters.
StatementFails(j) ==
  /\ scan[j].at \in InTransaction \cup {"compute", "record", "finish"}
  /\ scan' = [scan EXCEPT ![j].at = "over", ![j].found = {}]
  /\ UNCHANGED <<provider, upload, cloud, row, dates, perms, found, run, call, recorded, trail, settled, changes, deaths>>

\* A value cannot be sent: no statement has failed, and marking the run as failed commits
\* what was written so far.
ValueFails(j) ==
  /\ At(j, "upsert")
  /\ \E C \in SUBSET Listed(scan[j].listed) : Write(j, C)
  /\ Goto(j, "over")
  /\ run' = [run EXCEPT ![j] = "failed"]
  /\ UNCHANGED <<provider, upload, cloud, found, call, recorded, trail, changes, deaths>>

\* run_aws_scan and the runs of the other providers, step by step.
run_scan(j) ==
  \/ Enumerate(j) \/ EnumerationFails(j)
  \/ persist(j)
  \/ ComputeFindings(j) \/ persist_findings(j) \/ FinishScan(j)
  \/ StatementFails(j) \/ ValueFails(j)

\* The worker is killed: the message stays pending, and nobody claims it.
WorkerDies(j) ==
  /\ scan[j].at \in Working /\ deaths < MaxDead
  /\ scan' = [scan EXCEPT ![j].at = "dead", ![j].found = {}]
  /\ deaths' = deaths + 1
  /\ UNCHANGED <<provider, upload, cloud, row, dates, perms, found, run, call, recorded, trail, settled, changes>>

-----------------------------------------------------------------------------
(* A scan that the customer runs and uploads. *)

ReachAt(c, l) == l.grants[Holder(c)]

build_upload(u) ==
  /\ upload[u].at = "new" /\ provider = "aws"
  /\ upload' = [upload EXCEPT ![u].at = "post", ![u].listed = cloud]
  /\ UNCHANGED <<provider, cloud, row, dates, perms, found, scan, run, call, recorded, trail, settled, changes, deaths>>

\* The rules of the local scanner, which knows the dates: what is not critical it does not
\* call over-privileged.
LocalRules(c, R) ==
  [orphaned_credential |-> Unused(Used[c], R),
   over_privileged |-> Given(admin_wildcard(R), "critical"),
   stale_authorization |-> Given(c \in Old, "medium"), blast_radius |-> {"info"}]

LocalFindings(l) ==
  {f \in Findings : f.cred \in Listed(l) /\ f.severity \in LocalRules(f.cred, ReachAt(f.cred, l))[f.type]}

\* A permission hangs on the credential, and one of an earlier upload is used again.
_materialize_reach(u, l) ==
  perms \cup {p \in Perms : /\ p.run = u /\ p.on \in Listed(l) /\ p.grant \in ReachAt(p.on, l)
                            /\ ~\E q \in perms : q.on = p.on /\ q.grant = p.grant}

\* One transaction: it waits for a scan that has upserted the same nodes.  The status and
\* the dates of a credential are left as they are, a new one has no dates, and nothing is
\* deleted.
upload_local_scan(u) ==
  LET l == upload[u].listed
  IN  /\ upload[u].at = "post"
      /\ \A j \in Busy : /\ At(j, "commit") => Listed(scan[j].listed) \cap Listed(l) = {}
                         /\ scan[j].at \in {"perms", "upsert", "commit"} =>
                              ~\E p \in scan[j].edges : p.on \in Listed(l)
      /\ run' = [run EXCEPT ![u] = "succeeded"]
      /\ row' = [c \in Creds |-> IF row[c] = "none" /\ c \in Listed(l) THEN "active" ELSE row[c]]
      /\ perms' = _materialize_reach(u, l)
      /\ RecordFindings(LocalFindings(l))
      /\ settled' = FALSE
      /\ scan' = [j \in ScanJobs |-> IF j \in Busy THEN [scan[j] EXCEPT !.alone = FALSE] ELSE scan[j]]
      /\ upload' = [upload EXCEPT ![u].at = "over"]
      /\ UNCHANGED <<provider, cloud, dates, call, recorded, trail, changes, deaths>>

\* The token is refused, or a statement fails: nothing is written.
UploadFails(u) ==
  /\ upload[u].at = "post"
  /\ upload' = [upload EXCEPT ![u].at = "over"]
  /\ UNCHANGED <<provider, cloud, row, dates, perms, found, scan, run, call, recorded, trail, settled, changes, deaths>>

-----------------------------------------------------------------------------
(* A call of revoke. *)

cold(c) == LastUsed(c) # "warm" /\ c \notin recorded

next_action(c) ==
  IF provider # "aws" THEN "revoke" ELSE IF row[c] = "inactive" THEN "delete" ELSE "deactivate"

\* The preview of the impact, and the refusals: only a cold credential, at a provider
\* that has an adapter, and only the next action.
Preview(v) ==
  /\ call[v].at = "new" /\ provider \in {"aws", "github"}
  /\ \E c \in {d \in Creds : row[d] # "none"} :
       call' = [call EXCEPT ![v].at = IF cold(c) THEN "execute" ELSE "over", ![v].cred = c,
                            ![v].action = IF cold(c) THEN next_action(c) ELSE "none"]
  /\ UNCHANGED <<provider, upload, cloud, row, dates, perms, found, scan, run, recorded, trail, settled, changes, deaths>>

After(action) == IF action = "deactivate" THEN "inactive" ELSE "absent"

\* The status is written whatever the provider has answered.
AfterAnswer_Any(ok) == "update"

\* An adapter that raises, or answers that it has failed, leaves the status alone.
AfterAnswer(ok) == IF ok THEN "update" ELSE "action"

\* The provider obeys if it has the key; its answer may be lost.
Execute(v) ==
  /\ call[v].at = "execute"
  /\ \E does \in {d \in BOOLEAN : d => cloud.keys[call[v].cred] # "absent"}, ok \in BOOLEAN :
       /\ ok => does
       /\ cloud' = IF does THEN [cloud EXCEPT !.keys[call[v].cred] = After(call[v].action)] ELSE cloud
       /\ call' = [call EXCEPT ![v].at = AfterAnswer(ok), ![v].ok = ok]
  /\ UNCHANGED <<provider, upload, row, dates, perms, found, scan, run, recorded, trail, settled, changes, deaths>>

StatusAfter(v) == IF call[v].action = "deactivate" THEN "inactive" ELSE "revoked"

UpdateStatus(v) ==
  /\ call[v].at = "update"
  /\ row' = [row EXCEPT ![call[v].cred] = StatusAfter(v)]
  /\ call' = [call EXCEPT ![v].at = "action"]
  /\ UNCHANGED <<provider, upload, cloud, dates, perms, found, scan, run, recorded, trail, settled, changes, deaths>>

Log(v, in) == trail' = trail \cup {[call |-> v, in |-> in, ok |-> call[v].ok]}

_record_action(v) ==
  /\ call[v].at = "action" /\ Log(v, "actions")
  /\ call' = [call EXCEPT ![v].at = "chain"]
  /\ UNCHANGED <<provider, upload, cloud, row, dates, perms, found, scan, run, recorded, settled, changes, deaths>>

_record_chain_event(v) ==
  /\ call[v].at = "chain" /\ Log(v, "chain")
  /\ call' = [call EXCEPT ![v].at = "over"]
  /\ UNCHANGED <<provider, upload, cloud, row, dates, perms, found, scan, run, recorded, settled, changes, deaths>>

\* The process dies, or one of the writes fails: what was to follow does not happen.
RevokeDies(v) ==
  /\ call[v].at \in {"update", "action", "chain"} /\ deaths < MaxDead
  /\ call' = [call EXCEPT ![v].at = "dead"]
  /\ deaths' = deaths + 1
  /\ UNCHANGED <<provider, upload, cloud, row, dates, perms, found, scan, run, recorded, trail, settled, changes>>

-----------------------------------------------------------------------------
(* The outside: people change keys and grants; agents use credentials. *)

ChangeCloud ==
  /\ changes < MaxChanges /\ changes' = changes + 1
  /\ \/ \E c \in Creds, s \in KeyStates \ {"active"} :
          cloud.keys[c] = "active" /\ cloud' = [cloud EXCEPT !.keys[c] = s]
     \/ \E c \in Creds, G \in SUBSET Grants :
          cloud' = [cloud EXCEPT !.grants[Holder(c)] = G]
  /\ UNCHANGED <<provider, upload, row, dates, perms, found, scan, run, call, recorded, trail, settled, deaths>>

UseCredential(c) ==
  /\ cloud.keys[c] = "active" /\ c \notin recorded /\ provider \in {"aws", "github"}
  /\ recorded' = recorded \cup {c}
  /\ UNCHANGED <<provider, upload, cloud, row, dates, perms, found, scan, run, call, trail, settled, changes, deaths>>

ScanInit ==
  /\ provider \in Providers
  /\ cloud = [keys |-> [c \in Creds |-> "active"], grants |-> [h \in Holders |-> Grants]]
  /\ row = [c \in Creds |-> "none"] /\ dates = [c \in Creds |-> {}]
  /\ perms = {} /\ found = {} /\ recorded = {} /\ trail = {}
  /\ \E cast \in Casts :
       /\ scan = [j \in ScanJobs |-> [at |-> IF j \in cast THEN "new" ELSE "over", listed |-> cloud,
                                      edges |-> {}, found |-> {}, alone |-> FALSE]]
       /\ upload = [u \in Uploads |-> [at |-> IF u \in cast THEN "new" ELSE "over", listed |-> cloud]]
  /\ run = [j \in ScanJobs \cup Uploads |-> "none"]
  /\ \E c \in Creds :
       call = [v \in Revocations |-> [at |-> "new", cred |-> c, action |-> "none", ok |-> FALSE]]
  /\ settled = TRUE /\ changes = 0 /\ deaths = 0

ScanNext ==
  \/ \E j \in ScanJobs :
       Connect(j) \/ SubmitJob(j) \/ JobFails(j) \/ StartScan(j) \/ run_scan(j) \/ WorkerDies(j)
  \/ \E u \in Uploads : build_upload(u) \/ upload_local_scan(u) \/ UploadFails(u)
  \/ \E v \in Revocations :
       \/ Preview(v) \/ Execute(v) \/ UpdateStatus(v) \/ _record_action(v)
       \/ _record_chain_event(v) \/ RevokeDies(v)
  \/ ChangeCloud
  \/ \E c \in Creds : UseCredential(c)

ScanSpec == ScanInit /\ [][ScanNext]_scanVars

-----------------------------------------------------------------------------
(* Properties. *)

\* After a run that had the provider to itself, and until another changes the graph, the
\* graph holds the permissions of one run, and every credential in it has exactly the
\* findings its reach calls for and older ones that no run takes back
\* (scan.py:43-65, graph.py:37-63, findings.py:373-387).
FindingsFollowGraph ==
  settled => /\ \A p, q \in perms : p.run = q.run
             /\ \A f \in compute_findings(perms) : f \in found
             /\ \A f, g \in found : f.cred = g.cred /\ f.type = g.type => f = g

\* A credential shown as revoked is gone at the provider, whatever scans, calls, lost
\* answers and crashes came before (revocation.py:235-269, graph.py:223-237, 312-327).
RevokedIsGone == \A c \in Creds : row[c] = "revoked" => cloud.keys[c] = "absent"
===============================================================================
