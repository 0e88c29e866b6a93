---------------------------- MODULE SourcesProofs -----------------------------
(*****************************************************************************)
(* Scans, revocation, the tap and the rules, for any number of credentials,  *)
(* scans, uploads, calls, messages and recorded actions: types; that what is *)
(* shown as revoked is gone at the provider; that the findings are those of  *)
(* the graph; that the record of an MCP session fits what was passed on; and *)
(* that a deviation from the baseline is reported, and only a deviation; and *)
(* that the numbers of a session are given once, and a gap has a cause.      *)
(*****************************************************************************)
EXTENDS Scan, Tap, Sessions, Detection, FiniteSetTheorems, FunctionTheorems, TLAPS

-----------------------------------------------------------------------------
(* Types. *)

JobSteps == Working \cup {"new", "queued", "over", "dead"}

JobRec ==
  [at : JobSteps, listed : Cloud, edges : SUBSET Perms, found : SUBSET Findings, alone : BOOLEAN]

CallSteps == {"new", "execute", "update", "action", "chain", "over", "dead"}

Actions == {"none", "deactivate", "delete", "revoke"}

CallRec == [at : CallSteps, cred : Creds, action : Actions, ok : BOOLEAN]

UploadRec == [at : {"new", "post", "over"}, listed : Cloud]

RunStates == {"none", "running", "succeeded", "failed"}

\* A listing keeps to its type, and so does what a scan writes of it.
LEMMA WriteTypes ==
  ASSUME ScanTypeOK, NEW j \in ScanJobs, NEW C \in SUBSET Listed(scan[j].listed), Write(j, C)
  PROVE  /\ row' \in [Creds -> {"none", "active", "inactive", "revoked"}]
         /\ perms' \subseteq Perms /\ settled' \in BOOLEAN
         /\ dates' \in [Creds -> SUBSET Dates]
         /\ \A c \in Creds : row'[c] = "revoked" => row[c] = "revoked"
<1>1. \A c \in C : /\ c \in Creds
                   /\ Upserted(c, scan[j].listed) \in {"none", "active", "inactive", "revoked"}
                   /\ Upserted(c, scan[j].listed) = "revoked" => row[c] = "revoked"
  <2> SUFFICES ASSUME NEW c \in C
               PROVE  /\ c \in Creds
                      /\ Upserted(c, scan[j].listed) \in {"none", "active", "inactive", "revoked"}
                      /\ Upserted(c, scan[j].listed) = "revoked" => row[c] = "revoked"
    OBVIOUS
  <2>1. c \in Creds /\ scan[j].listed.keys[c] \in {"active", "inactive"}
    BY DEF ScanTypeOK, Cloud, KeyStates, Listed
  <2>2. QED
    BY <2>1 DEF Upserted, _upsert_credential, _upsert_gh_credential, _upsert_simple_credential,
                ScanTypeOK
<1>2. row' = [c \in Creds |-> IF c \in C THEN Upserted(c, scan[j].listed) ELSE row[c]]
  BY DEF Write
<1>3. perms' \subseteq Perms
  BY DEF Write, PermsOf, ScanTypeOK
<1>4. row' \in [Creds -> {"none", "active", "inactive", "revoked"}]
  BY <1>1, <1>2 DEF ScanTypeOK
<1>5. settled' \in BOOLEAN
  BY DEF Write
<1>6. \A c \in Creds : row'[c] = "revoked" => row[c] = "revoked"
  BY <1>1, <1>2
<1>7. dates' \in [Creds -> SUBSET Dates]
  BY DEF Write, Dated, Dates, ScanTypeOK
<1>8. QED
  BY <1>3, <1>4, <1>5, <1>6, <1>7

\* The permissions of an upload are permissions.
LEMMA MaterializeTypes ==
  ASSUME perms \subseteq Perms, NEW u \in Uploads, NEW l
  PROVE  _materialize_reach(u, l) \subseteq Perms
BY DEF _materialize_reach

\* Every step of a scan keeps the types of the scans.
LEMMA JobTypes ==
  ASSUME ScanTypeOK, NEW j \in ScanJobs,
         \/ Connect(j) \/ SubmitJob(j) \/ JobFails(j) \/ StartScan(j)
         \/ Enumerate(j) \/ EnumerationFails(j)
         \/ DeleteBegins(j) \/ DeleteEdges(j) \/ DeletePerms(j) \/ UpsertNodes(j) \/ CommitGraph(j)
         \/ ComputeFindings(j) \/ persist_findings(j) \/ FinishScan(j)
         \/ StatementFails(j) \/ ValueFails(j) \/ WorkerDies(j)
  PROVE  scan' \in [ScanJobs -> JobRec]
<1>1. /\ scan \in [ScanJobs -> JobRec] /\ cloud \in Cloud
      /\ perms \subseteq Perms /\ compute_findings(perms) \subseteq Findings
  BY DEF ScanTypeOK, JobRec, JobSteps, compute_findings
<1>2. {"queued", "start", "persist", "edges", "perms", "upsert", "commit", "compute", "record",
       "finish", "over", "dead"} \subseteq JobSteps
  BY DEF JobSteps, Working, InTransaction
<1>3. \A a \in JobSteps : [scan EXCEPT ![j].at = a] \in [ScanJobs -> JobRec]
  BY <1>1 DEF JobRec
<1> HIDE DEF JobSteps
<1>4. CASE Connect(j) \/ SubmitJob(j) \/ JobFails(j)
  BY <1>2, <1>3, <1>4 DEF Connect, SubmitJob, JobFails, Goto
<1>5. CASE StartScan(j)
  BY <1>1, <1>2, <1>5 DEF StartScan, JobRec
<1>6. CASE Enumerate(j)
  BY <1>1, <1>2, <1>6 DEF Enumerate, JobRec
<1>7. CASE EnumerationFails(j)
  BY <1>2, <1>3, <1>7 DEF EnumerationFails, Goto
<1>8. CASE DeleteBegins(j)
  BY <1>1, <1>2, <1>8 DEF DeleteBegins, JobRec, Doomed
<1>9. CASE DeleteEdges(j)
  BY <1>1, <1>2, <1>9 DEF DeleteEdges, JobRec
<1>10. CASE DeletePerms(j)
  BY <1>2, <1>3, <1>10 DEF DeletePerms, Goto
<1>11. CASE UpsertNodes(j)
  BY <1>2, <1>3, <1>11 DEF UpsertNodes, Goto
<1>12. CASE CommitGraph(j)
  BY <1>2, <1>3, <1>12 DEF CommitGraph, Goto
<1>13. CASE ComputeFindings(j)
  BY <1>1, <1>2, <1>13 DEF ComputeFindings, JobRec
<1>14. CASE persist_findings(j)
  BY <1>1, <1>2, <1>14 DEF persist_findings, JobRec
<1>15. CASE FinishScan(j)
  BY <1>2, <1>3, <1>15 DEF FinishScan, Goto
<1>16. CASE StatementFails(j)
  BY <1>1, <1>2, <1>16 DEF StatementFails, JobRec
<1>17. CASE ValueFails(j)
  BY <1>2, <1>3, <1>17 DEF ValueFails, Goto
<1>18. CASE WorkerDies(j)
  BY <1>1, <1>2, <1>18 DEF WorkerDies, JobRec
<1>19. QED
  BY <1>4, <1>5, <1>6, <1>7, <1>8, <1>9, <1>10, <1>11, <1>12, <1>13, <1>14,
     <1>15, <1>16, <1>17, <1>18

\* A change of a key, or of what a holder is granted, keeps the type of the provider.
LEMMA CloudTypes ==
  ASSUME cloud \in Cloud
  PROVE  /\ \A c \in Creds, s \in KeyStates : [cloud EXCEPT !.keys[c] = s] \in Cloud
         /\ \A h \in Holders, G \in SUBSET Grants : [cloud EXCEPT !.grants[h] = G] \in Cloud
<1>1. /\ cloud = [keys |-> cloud.keys, grants |-> cloud.grants]
      /\ cloud.keys \in [Creds -> KeyStates] /\ cloud.grants \in [Holders -> SUBSET Grants]
  BY DEF Cloud
<1>2. \A c \in Creds, s \in KeyStates : [cloud.keys EXCEPT ![c] = s] \in [Creds -> KeyStates]
  BY <1>1
<1>3. \A h \in Holders, G \in SUBSET Grants :
        [cloud.grants EXCEPT ![h] = G] \in [Holders -> SUBSET Grants]
  BY <1>1
<1>4. \A c, s : [cloud EXCEPT !.keys[c] = s] = [keys |-> [cloud.keys EXCEPT ![c] = s], grants |-> cloud.grants]
  BY <1>1
<1>5. \A h, G : [cloud EXCEPT !.grants[h] = G] = [keys |-> cloud.keys, grants |-> [cloud.grants EXCEPT ![h] = G]]
  BY <1>1
<1>6. QED
  BY <1>1, <1>2, <1>3, <1>4, <1>5 DEF Cloud

\* Every step of a call keeps the types of the calls.
LEMMA CallTypes ==
  ASSUME ScanTypeOK, NEW v \in Revocations,
         \/ Preview(v) \/ Execute(v) \/ UpdateStatus(v) \/ _record_action(v)
         \/ _record_chain_event(v) \/ RevokeDies(v)
  PROVE  call' \in [Revocations -> CallRec]
<1>1. call \in [Revocations -> CallRec]
  BY DEF ScanTypeOK, CallRec, CallSteps, Actions
<1>2. /\ \A ok \in BOOLEAN : AfterAnswer(ok) \in CallSteps
      /\ {"execute", "over", "action", "chain", "dead"} \subseteq CallSteps
      /\ "none" \in Actions /\ \A c : next_action(c) \in Actions
  BY DEF CallSteps, AfterAnswer, Actions, next_action
<1> HIDE DEF CallSteps, Actions
<1>3. CASE Preview(v)
  <2>1. PICK c \in Creds :
          call' = [call EXCEPT ![v].at = IF cold(c) THEN "execute" ELSE "over", ![v].cred = c,
                               ![v].action = IF cold(c) THEN next_action(c) ELSE "none"]
    BY <1>3 DEF Preview
  <2> DEFINE a == IF cold(c) THEN "execute" ELSE "over"
             d == IF cold(c) THEN next_action(c) ELSE "none"
             e == [call[v] EXCEPT !.at = a, !.cred = c, !.action = d]
  <2>2. a \in CallSteps /\ d \in Actions
    BY <1>2
  <2>3. call' = [call EXCEPT ![v] = e]
    BY <1>1, <2>1
  <2> HIDE DEF a, d
  <2>4. e \in CallRec
    BY <1>1, <2>2 DEF CallRec
  <2> HIDE DEF e
  <2>5. QED
    BY <1>1, <2>3, <2>4
<1>4. CASE Execute(v)
  <2>1. PICK ok \in BOOLEAN : call' = [call EXCEPT ![v].at = AfterAnswer(ok), ![v].ok = ok]
    BY <1>4 DEF Execute
  <2>2. QED
    BY <1>1, <1>2, <2>1 DEF CallRec
<1>5. CASE UpdateStatus(v)
  BY <1>1, <1>2, <1>5 DEF UpdateStatus, CallRec
<1>6. CASE _record_action(v)
  BY <1>1, <1>2, <1>6 DEF _record_action, CallRec
<1>7. CASE _record_chain_event(v)
  BY <1>1, <1>2, <1>7 DEF _record_chain_event, CallRec
<1>8. CASE RevokeDies(v)
  BY <1>1, <1>2, <1>8 DEF RevokeDies, CallRec
<1>9. QED
  BY <1>3, <1>4, <1>5, <1>6, <1>7, <1>8

\* Every step keeps the types.
LEMMA ScanTypeStep == ScanTypeOK /\ [ScanNext]_scanVars => ScanTypeOK'
<1> SUFFICES ASSUME ScanTypeOK, [ScanNext]_scanVars PROVE ScanTypeOK'
  OBVIOUS
<1> USE DEF ScanTypeOK, JobRec, JobSteps, CallRec, CallSteps, Actions
<1>1. ASSUME NEW j \in ScanJobs, Connect(j) \/ SubmitJob(j) \/ JobFails(j)
      PROVE  ScanTypeOK'
  <2>1. scan' \in [ScanJobs -> JobRec]
    BY <1>1, JobTypes
  <2>2. QED
    BY <1>1, <2>1 DEF Connect, SubmitJob, JobFails
<1>2. ASSUME NEW j \in ScanJobs, StartScan(j)
      PROVE  ScanTypeOK'
  <2>1. scan' \in [ScanJobs -> JobRec]
    BY <1>2, JobTypes
  <2>2. QED
    BY <1>2, <2>1 DEF StartScan
<1>3. ASSUME NEW j \in ScanJobs, Enumerate(j)
      PROVE  ScanTypeOK'
  <2>1. scan' \in [ScanJobs -> JobRec]
    BY <1>3, JobTypes
  <2>2. QED
    BY <1>3, <2>1 DEF Enumerate
<1>4. ASSUME NEW j \in ScanJobs, EnumerationFails(j)
      PROVE  ScanTypeOK'
  <2>1. scan' \in [ScanJobs -> JobRec]
    BY <1>4, JobTypes
  <2>2. QED
    BY <1>4, <2>1 DEF EnumerationFails
<1>5. ASSUME NEW j \in ScanJobs, DeleteBegins(j)
      PROVE  ScanTypeOK'
  <2>1. scan' \in [ScanJobs -> JobRec]
    BY <1>5, JobTypes
  <2>2. QED
    BY <1>5, <2>1 DEF DeleteBegins
<1>6. ASSUME NEW j \in ScanJobs, DeleteEdges(j)
      PROVE  ScanTypeOK'
  <2>1. scan' \in [ScanJobs -> JobRec]
    BY <1>6, JobTypes
  <2>2. QED
    BY <1>6, <2>1 DEF DeleteEdges
<1>7. ASSUME NEW j \in ScanJobs, DeletePerms(j)
      PROVE  ScanTypeOK'
  <2>1. scan' \in [ScanJobs -> JobRec]
    BY <1>7, JobTypes
  <2>2. QED
    BY <1>7, <2>1 DEF DeletePerms
<1>8. ASSUME NEW j \in ScanJobs, UpsertNodes(j)
      PROVE  ScanTypeOK'
  <2>1. scan' \in [ScanJobs -> JobRec]
    BY <1>8, JobTypes
  <2>2. QED
    BY <1>8, <2>1 DEF UpsertNodes
<1>9. ASSUME NEW j \in ScanJobs, CommitGraph(j)
      PROVE  ScanTypeOK'
  <2>1. scan' \in [ScanJobs -> JobRec]
    BY <1>9, JobTypes
  <2>2. Write(j, Listed(scan[j].listed))
    BY <1>9 DEF CommitGraph
  <2>3. /\ row' \in [Creds -> {"none", "active", "inactive", "revoked"}]
        /\ perms' \subseteq Perms /\ settled' \in BOOLEAN
        /\ dates' \in [Creds -> SUBSET Dates]
    BY <2>2, WriteTypes
  <2>4. QED
    BY <1>9, <2>1, <2>3 DEF CommitGraph
<1>10. ASSUME NEW j \in ScanJobs, ComputeFindings(j)
      PROVE  ScanTypeOK'
  <2>1. scan' \in [ScanJobs -> JobRec]
    BY <1>10, JobTypes
  <2>2. QED
    BY <1>10, <2>1 DEF ComputeFindings
<1>11. ASSUME NEW j \in ScanJobs, persist_findings(j)
      PROVE  ScanTypeOK'
  <2>1. scan' \in [ScanJobs -> JobRec]
    BY <1>11, JobTypes
  <2>2. scan[j].alone \in BOOLEAN /\ found' \subseteq Findings
    BY <1>11 DEF persist_findings, RecordFindings, Kept
  <2>3. QED
    BY <1>11, <2>1, <2>2 DEF persist_findings
<1>12. ASSUME NEW j \in ScanJobs, FinishScan(j)
      PROVE  ScanTypeOK'
  <2>1. scan' \in [ScanJobs -> JobRec]
    BY <1>12, JobTypes
  <2>2. QED
    BY <1>12, <2>1 DEF FinishScan
<1>13. ASSUME NEW j \in ScanJobs, StatementFails(j)
      PROVE  ScanTypeOK'
  <2>1. scan' \in [ScanJobs -> JobRec]
    BY <1>13, JobTypes
  <2>2. QED
    BY <1>13, <2>1 DEF StatementFails
<1>14. ASSUME NEW j \in ScanJobs, ValueFails(j)
      PROVE  ScanTypeOK'
  <2>1. scan' \in [ScanJobs -> JobRec]
    BY <1>14, JobTypes
  <2>2. PICK C \in SUBSET Listed(scan[j].listed) : Write(j, C)
    BY <1>14 DEF ValueFails
  <2>3. /\ row' \in [Creds -> {"none", "active", "inactive", "revoked"}]
        /\ perms' \subseteq Perms /\ settled' \in BOOLEAN
        /\ dates' \in [Creds -> SUBSET Dates]
    BY <2>2, WriteTypes
  <2>4. QED
    BY <1>14, <2>1, <2>3 DEF ValueFails
<1>15. ASSUME NEW j \in ScanJobs, WorkerDies(j)
      PROVE  ScanTypeOK'
  <2>1. scan' \in [ScanJobs -> JobRec]
    BY <1>15, JobTypes
  <2>2. deaths' \in 0 .. MaxDead
    BY <1>15, ScanAssumption DEF WorkerDies
  <2>3. QED
    BY <1>15, <2>1, <2>2 DEF WorkerDies
<1>16. ASSUME NEW u \in Uploads, build_upload(u)
      PROVE  ScanTypeOK'
  <2>1. upload' \in [Uploads -> UploadRec]
    <3>1. cloud \in Cloud /\ upload \in [Uploads -> UploadRec]
      BY DEF UploadRec
    <3> HIDE DEF ScanTypeOK
    <3>2. QED
      BY <1>16, <3>1 DEF build_upload, UploadRec
  <2>2. QED
    BY <1>16, <2>1 DEF build_upload, UploadRec
<1>17. ASSUME NEW u \in Uploads, upload_local_scan(u)
      PROVE  ScanTypeOK'
  <2>1. scan' \in [ScanJobs -> JobRec]
    <3>0. \A j \in ScanJobs : scan[j] \in JobRec
      OBVIOUS
    <3> HIDE DEF ScanTypeOK, JobSteps
    <3>1. \A j \in ScanJobs : [scan[j] EXCEPT !.alone = FALSE] \in JobRec /\ scan[j] \in JobRec
      BY <3>0
    <3>2. scan' = [j \in ScanJobs |-> IF j \in Busy THEN [scan[j] EXCEPT !.alone = FALSE] ELSE scan[j]]
      BY <1>17 DEF upload_local_scan
    <3> HIDE DEF JobRec
    <3>3. QED
      BY <3>1, <3>2
  <2>2. perms' \subseteq Perms
    BY <1>17, MaterializeTypes DEF upload_local_scan
  <2>3. found' \subseteq Findings
    BY <1>17 DEF upload_local_scan, RecordFindings, Kept, LocalFindings
  <2>4. row' \in [Creds -> {"none", "active", "inactive", "revoked"}]
    BY <1>17 DEF upload_local_scan
  <2>5. upload' \in [Uploads -> UploadRec] /\ run' \in [ScanJobs \cup Uploads -> RunStates]
    <3>1. /\ upload \in [Uploads -> UploadRec] /\ run \in [ScanJobs \cup Uploads -> RunStates]
          /\ upload' = [upload EXCEPT ![u].at = "over"]
          /\ run' = [run EXCEPT ![u] = "succeeded"]
      BY <1>17 DEF upload_local_scan, UploadRec, RunStates
    <3> HIDE DEF ScanTypeOK
    <3>2. QED
      BY <3>1 DEF UploadRec, RunStates
  <2>6. QED
    BY <1>17, <2>1, <2>2, <2>3, <2>4, <2>5 DEF upload_local_scan, UploadRec, RunStates
<1>18. ASSUME NEW u \in Uploads, UploadFails(u)
      PROVE  ScanTypeOK'
  BY <1>18 DEF UploadFails
<1>19. ASSUME NEW v \in Revocations, Preview(v)
      PROVE  ScanTypeOK'
  <2>1. call' \in [Revocations -> CallRec]
    BY <1>19, CallTypes
  <2>2. QED
    BY <1>19, <2>1 DEF Preview
<1>20. ASSUME NEW v \in Revocations, Execute(v)
      PROVE  ScanTypeOK'
  <2>1. call' \in [Revocations -> CallRec]
    BY <1>20, CallTypes
  <2>2. cloud' \in Cloud
    <3>1. call[v].cred \in Creds /\ After(call[v].action) \in KeyStates
      BY DEF After, KeyStates
    <3>2. QED
      BY <1>20, <3>1, CloudTypes DEF Execute
  <2>3. QED
    BY <1>20, <2>1, <2>2 DEF Execute
<1>21. ASSUME NEW v \in Revocations, UpdateStatus(v)
      PROVE  ScanTypeOK'
  <2>1. call' \in [Revocations -> CallRec]
    BY <1>21, CallTypes
  <2>2. QED
    BY <1>21, <2>1 DEF UpdateStatus, StatusAfter
<1>22. ASSUME NEW v \in Revocations, _record_action(v)
      PROVE  ScanTypeOK'
  <2>1. call' \in [Revocations -> CallRec]
    BY <1>22, CallTypes
  <2>2. QED
    BY <1>22, <2>1 DEF _record_action, Log
<1>23. ASSUME NEW v \in Revocations, _record_chain_event(v)
      PROVE  ScanTypeOK'
  <2>1. call' \in [Revocations -> CallRec]
    BY <1>23, CallTypes
  <2>2. QED
    BY <1>23, <2>1 DEF _record_chain_event, Log
<1>24. ASSUME NEW v \in Revocations, RevokeDies(v)
      PROVE  ScanTypeOK'
  <2>1. call' \in [Revocations -> CallRec]
    BY <1>24, CallTypes
  <2>2. deaths' \in 0 .. MaxDead
    BY <1>24, ScanAssumption DEF RevokeDies
  <2>3. QED
    BY <1>24, <2>1, <2>2 DEF RevokeDies
<1>25. CASE ChangeCloud
  <2>1. cloud' \in Cloud
    <3>1. \A c \in Creds : Holder(c) \in Holders
      BY ScanAssumption DEF Holder, Holders
    <3>2. cloud \in Cloud
      OBVIOUS
    <3> HIDE DEF ScanTypeOK
    <3>3. CASE \E c \in Creds, s \in KeyStates \ {"active"} :
                 cloud.keys[c] = "active" /\ cloud' = [cloud EXCEPT !.keys[c] = s]
      BY <3>2, <3>3, CloudTypes
    <3>4. CASE \E c \in Creds, G \in SUBSET Grants :
                 cloud' = [cloud EXCEPT !.grants[Holder(c)] = G]
      BY <3>1, <3>2, <3>4, CloudTypes
    <3>5. QED
      BY <1>25, <3>3, <3>4 DEF ChangeCloud
  <2>2. changes' \in 0 .. MaxChanges
    BY <1>25, ScanAssumption DEF ChangeCloud
  <2>3. QED
    BY <1>25, <2>1, <2>2 DEF ChangeCloud
<1>26. ASSUME NEW c \in Creds, UseCredential(c)
      PROVE  ScanTypeOK'
  BY <1>26 DEF UseCredential
<1>27. CASE UNCHANGED scanVars
  BY <1>27 DEF scanVars
<1>28. QED
  BY <1>1, <1>2, <1>3, <1>4, <1>5, <1>6, <1>7, <1>8, <1>9, <1>10, <1>11, <1>12,
     <1>13, <1>14, <1>15, <1>16, <1>17, <1>18, <1>19, <1>20, <1>21, <1>22,
     <1>23, <1>24, <1>25, <1>26, <1>27 DEF ScanNext, run_scan, persist

\* The first state has the types.
LEMMA ScanTypeInit == ScanInit => ScanTypeOK
<1> SUFFICES ASSUME ScanInit PROVE ScanTypeOK
  OBVIOUS
<1>1. cloud \in Cloud
  BY ScanAssumption DEF ScanInit, Cloud, KeyStates
<1> HIDE DEF Cloud
<1>2. changes \in 0 .. MaxChanges /\ deaths \in 0 .. MaxDead
  BY ScanAssumption DEF ScanInit
<1>3. PICK cast \in Casts :
        /\ scan = [j \in ScanJobs |-> [at |-> IF j \in cast THEN "new" ELSE "over", listed |-> cloud,
                                       edges |-> {}, found |-> {}, alone |-> FALSE]]
        /\ upload = [u \in Uploads |-> [at |-> IF u \in cast THEN "new" ELSE "over", listed |-> cloud]]
  BY DEF ScanInit
<1>4. scan \in [ScanJobs -> [at : Working \cup {"new", "queued", "over", "dead"}, listed : Cloud,
                             edges : SUBSET Perms, found : SUBSET Findings, alone : BOOLEAN]]
  BY <1>1, <1>3
<1>5. upload \in [Uploads -> [at : {"new", "post", "over"}, listed : Cloud]]
  BY <1>1, <1>3
<1>6. dates \in [Creds -> SUBSET Dates]
  BY DEF ScanInit
<1>7. QED
  BY <1>1, <1>2, <1>4, <1>5, <1>6 DEF ScanInit, ScanTypeOK

\* Jobs, calls, uploads, the provider and the tables keep their types
\* (scan.py:28-65, revocation.py:195-269, local_scan.py:59-145).
THEOREM ScanTypesKept == ScanSpec => []ScanTypeOK
<1>1. ScanInit => ScanTypeOK
  BY ScanTypeInit
<1>2. ScanTypeOK /\ [ScanNext]_scanVars => ScanTypeOK'
  BY ScanTypeStep
<1>3. QED
  BY <1>1, <1>2, PTL DEF ScanSpec

-----------------------------------------------------------------------------
(* Revoked is gone. *)

\* A call that is about to act has an action to take, and one that is about to write that
\* its credential is gone has seen the provider delete it.
CallFits ==
  \A v \in Revocations :
    /\ call[v].at \in {"execute", "update"} => call[v].action # "none"
    /\ call[v].at = "update" /\ call[v].action \in {"delete", "revoke"} =>
         cloud.keys[call[v].cred] = "absent"

RevokedInv == ScanTypeOK /\ CallFits /\ RevokedIsGone

\* What is gone stays gone.
AbsentStays == \A c \in Creds : cloud.keys[c] = "absent" => cloud'.keys[c] = "absent"

\* No row becomes revoked.
NoneRevoked == \A c \in Creds : row'[c] = "revoked" => row[c] = "revoked"

\* A step that brings no key back, revokes no row and leaves the calls alone keeps the invariant.
LEMMA RevokedFrame ==
  ASSUME RevokedInv, UNCHANGED call, AbsentStays, NoneRevoked
  PROVE  CallFits' /\ RevokedIsGone'
BY DEF RevokedInv, ScanTypeOK, CallFits, RevokedIsGone, AbsentStays, NoneRevoked

\* Every step of a scan.
LEMMA RevokedScanStep ==
  ASSUME RevokedInv, NEW j \in ScanJobs,
         \/ Connect(j) \/ SubmitJob(j) \/ JobFails(j) \/ StartScan(j)
         \/ Enumerate(j) \/ EnumerationFails(j)
         \/ DeleteBegins(j) \/ DeleteEdges(j) \/ DeletePerms(j) \/ UpsertNodes(j) \/ CommitGraph(j)
         \/ ComputeFindings(j) \/ persist_findings(j) \/ FinishScan(j)
         \/ StatementFails(j) \/ ValueFails(j) \/ WorkerDies(j)
  PROVE  CallFits' /\ RevokedIsGone'
<1>1. UNCHANGED <<cloud, call>>
  BY DEF Connect, SubmitJob, JobFails, StartScan, Enumerate, EnumerationFails, DeleteBegins, DeleteEdges, DeletePerms,
         UpsertNodes, CommitGraph, ComputeFindings, persist_findings, FinishScan, StatementFails,
         ValueFails, WorkerDies
<1>2. NoneRevoked
  <2>1. CASE CommitGraph(j)
    BY <2>1, WriteTypes DEF CommitGraph, RevokedInv, NoneRevoked
  <2>2. CASE ValueFails(j)
    BY <2>2, WriteTypes DEF ValueFails, RevokedInv, NoneRevoked
  <2>3. CASE UNCHANGED row
    BY <2>3 DEF NoneRevoked
  <2>4. QED
    BY <2>1, <2>2, <2>3
       DEF Connect, SubmitJob, JobFails, StartScan, Enumerate, EnumerationFails, DeleteBegins,
           DeleteEdges, DeletePerms, UpsertNodes, ComputeFindings, persist_findings, FinishScan, StatementFails, WorkerDies
<1>3. AbsentStays
  BY <1>1 DEF AbsentStays
<1>4. QED
  BY <1>1, <1>2, <1>3, RevokedFrame

\* Every step of a call.  The provider's answer is what ties a status to a key.
LEMMA RevokedCallStep ==
  ASSUME RevokedInv, NEW v \in Revocations,
         \/ Preview(v) \/ Execute(v) \/ UpdateStatus(v) \/ _record_action(v)
         \/ _record_chain_event(v) \/ RevokeDies(v)
  PROVE  CallFits' /\ RevokedIsGone'
<1>1. /\ call \in [Revocations -> CallRec] /\ cloud \in Cloud
      /\ row \in [Creds -> {"none", "active", "inactive", "revoked"}]
      /\ CallFits /\ RevokedIsGone
  BY DEF RevokedInv, ScanTypeOK, CallRec, CallSteps, Actions
<1>2. \A w \in Revocations : call[w].cred \in Creds /\ call[w].action \in Actions
  BY <1>1 DEF CallRec
<1>3. cloud.keys \in [Creds -> KeyStates] /\ cloud = [keys |-> cloud.keys, grants |-> cloud.grants]
  BY <1>1 DEF Cloud
<1>4. CASE Preview(v)
  <2>1. UNCHANGED <<cloud, row>>
    BY <1>4 DEF Preview
  <2>2. \A w \in Revocations \ {v} : call'[w] = call[w]
    BY <1>1, <1>4 DEF Preview
  <2> DEFINE at(c) == IF cold(c) THEN "execute" ELSE "over"
             act(c) == IF cold(c) THEN next_action(c) ELSE "none"
  <2>3. PICK c \in Creds : call' = [call EXCEPT ![v].at = at(c), ![v].cred = c, ![v].action = act(c)]
    BY <1>4 DEF Preview
  <2>4. call'[v].at = at(c) /\ call'[v].action = act(c)
    <3> HIDE DEF at, act
    <3>1. call'[v] = [call[v] EXCEPT !.at = at(c), !.cred = c, !.action = act(c)]
      BY <1>1, <2>3
    <3>2. call[v] \in CallRec
      BY <1>1
    <3>3. QED
      BY <3>1, <3>2 DEF CallRec
  <2>5. call'[v].at # "update" /\ (call'[v].at = "execute" => call'[v].action # "none")
    BY <2>4 DEF next_action
  <2>6. QED
    BY <1>1, <2>1, <2>2, <2>5 DEF CallFits, RevokedIsGone
<1>5. CASE Execute(v)
  <2>1. PICK does \in {d \in BOOLEAN : d => cloud.keys[call[v].cred] # "absent"}, ok \in BOOLEAN :
          /\ ok => does
          /\ cloud' = IF does THEN [cloud EXCEPT !.keys[call[v].cred] = After(call[v].action)] ELSE cloud
          /\ call' = [call EXCEPT ![v].at = AfterAnswer(ok), ![v].ok = ok]
    BY <1>5 DEF Execute
  <2>2. UNCHANGED row /\ call[v].at = "execute"
    BY <1>5 DEF Execute
  <2>3. \A w \in Revocations \ {v} : call'[w] = call[w]
    BY <1>1, <2>1
  <2>4. /\ call'[v].cred = call[v].cred /\ call'[v].action = call[v].action
        /\ call'[v].at = AfterAnswer(ok)
    BY <1>1, <2>1 DEF CallRec
  <2>5. does => cloud'.keys = [cloud.keys EXCEPT ![call[v].cred] = After(call[v].action)]
    BY <1>3, <2>1
  <2>6. AbsentStays
    BY <1>2, <1>3, <2>1, <2>5 DEF AbsentStays
  <2>7. call'[v].at = "update" /\ call'[v].action \in {"delete", "revoke"} =>
          cloud'.keys[call'[v].cred] = "absent"
    BY <1>2, <1>3, <2>1, <2>4, <2>5 DEF AfterAnswer, After
  <2>8. call'[v].action # "none"
    BY <1>1, <2>2, <2>4 DEF CallFits
  <2>9. CallFits'
    BY <1>1, <1>2, <2>3, <2>6, <2>7, <2>8 DEF CallFits, AbsentStays
  <2>10. QED
    BY <1>1, <2>2, <2>6, <2>9 DEF RevokedIsGone, AbsentStays
<1>6. CASE UpdateStatus(v)
  <2>1. /\ UNCHANGED cloud /\ call[v].at = "update"
        /\ row' = [row EXCEPT ![call[v].cred] = StatusAfter(v)]
        /\ call' = [call EXCEPT ![v].at = "action"]
    BY <1>6 DEF UpdateStatus
  <2>2. \A w \in Revocations : call'[w].at \in {"execute", "update"} => call'[w] = call[w]
    BY <1>1, <2>1 DEF CallRec
  <2>3. StatusAfter(v) = "revoked" => cloud.keys[call[v].cred] = "absent"
    BY <1>1, <1>2, <2>1 DEF StatusAfter, CallFits, Actions
  <2>4. RevokedIsGone'
    BY <1>1, <1>2, <2>1, <2>3 DEF RevokedIsGone
  <2>5. QED
    BY <1>1, <2>1, <2>2, <2>4 DEF CallFits
<1>7. CASE _record_action(v) \/ _record_chain_event(v) \/ RevokeDies(v)
  <2>1. /\ UNCHANGED <<cloud, row>>
        /\ \E a \in {"chain", "over", "dead"} : call' = [call EXCEPT ![v].at = a]
    BY <1>7 DEF _record_action, _record_chain_event, RevokeDies
  <2>2. \A w \in Revocations : call'[w].at \in {"execute", "update"} => call'[w] = call[w]
    BY <1>1, <2>1 DEF CallRec
  <2>3. QED
    BY <1>1, <2>1, <2>2 DEF CallFits, RevokedIsGone
<1>8. QED
  BY <1>4, <1>5, <1>6, <1>7

\* Every other step: uploads write no row that is there, and nobody outside brings a key back.
LEMMA RevokedOtherStep ==
  ASSUME RevokedInv,
         \/ \E u \in Uploads : build_upload(u) \/ upload_local_scan(u) \/ UploadFails(u)
         \/ ChangeCloud
         \/ \E c \in Creds : UseCredential(c)
         \/ UNCHANGED scanVars
  PROVE  CallFits' /\ RevokedIsGone'
<1>1. UNCHANGED call
  BY DEF build_upload, upload_local_scan, UploadFails, ChangeCloud, UseCredential, scanVars
<1>2. NoneRevoked
  <2>1. ASSUME NEW u \in Uploads, upload_local_scan(u)
        PROVE  NoneRevoked
    <3>1. row' = [c \in Creds |->
                    IF row[c] = "none" /\ c \in Listed(upload[u].listed) THEN "active" ELSE row[c]]
      BY <2>1 DEF upload_local_scan
    <3>2. QED
      BY <3>1 DEF NoneRevoked
  <2>2. CASE UNCHANGED row
    BY <2>2 DEF NoneRevoked
  <2>3. QED
    BY <2>1, <2>2 DEF build_upload, UploadFails, ChangeCloud, UseCredential, scanVars
<1>3. AbsentStays
  <2>1. CASE ChangeCloud
    <3>1. cloud.keys \in [Creds -> KeyStates] /\ cloud = [keys |-> cloud.keys, grants |-> cloud.grants]
      BY DEF RevokedInv, ScanTypeOK, Cloud
    <3>2. CASE \E c \in Creds, s \in KeyStates \ {"active"} :
                 cloud.keys[c] = "active" /\ cloud' = [cloud EXCEPT !.keys[c] = s]
      BY <3>1, <3>2 DEF AbsentStays
    <3>3. CASE \E c \in Creds, G \in SUBSET Grants :
                 cloud' = [cloud EXCEPT !.grants[Holder(c)] = G]
      BY <3>1, <3>3 DEF AbsentStays
    <3>4. QED
      BY <2>1, <3>2, <3>3 DEF ChangeCloud
  <2>2. CASE UNCHANGED cloud
    BY <2>2 DEF AbsentStays
  <2>3. QED
    BY <2>1, <2>2 DEF build_upload, upload_local_scan, UploadFails, UseCredential, scanVars
<1>4. QED
  BY <1>1, <1>2, <1>3, RevokedFrame

\* A credential shown as revoked is gone at the provider, for any number of scans, uploads,
\* calls and deaths (revocation.py:235-269, graph.py:223-237, 312-327).
THEOREM RevokedStaysGone == ScanSpec => []RevokedIsGone
<1>1. ScanInit => RevokedInv
  <2> SUFFICES ASSUME ScanInit PROVE RevokedInv
    OBVIOUS
  <2>1. ScanTypeOK
    BY ScanTypeInit
  <2>2. CallFits /\ RevokedIsGone
    BY DEF ScanInit, CallFits, RevokedIsGone
  <2>3. QED
    BY <2>1, <2>2 DEF RevokedInv
<1>2. RevokedInv /\ [ScanNext]_scanVars => RevokedInv'
  <2> SUFFICES ASSUME RevokedInv, [ScanNext]_scanVars PROVE RevokedInv'
    OBVIOUS
  <2>1. ScanTypeOK'
    BY ScanTypeStep DEF RevokedInv
  <2>2. CallFits' /\ RevokedIsGone'
    BY RevokedScanStep, RevokedCallStep, RevokedOtherStep DEF ScanNext, run_scan, persist
  <2>3. QED
    BY <2>1, <2>2 DEF RevokedInv
<1>3. RevokedInv => RevokedIsGone
  BY DEF RevokedInv
<1>4. QED
  BY <1>1, <1>2, <1>3, PTL DEF ScanSpec

-----------------------------------------------------------------------------
(* Findings. *)

\* What the reach of the credentials in the graph calls for.
Due ==
  {f \in Findings : row[f.cred] # "none" /\ f.severity \in Rules(f.cred, Reach(f.cred, perms))[f.type]}

OnePerKey(S) == \A f, g \in S : SameKey(f, g) => f = g

OneRun == \A p, q \in perms : p.run = q.run

\* While a run has the graph to itself, it deletes all permissions there are, and what it has
\* computed is what the graph calls for.
AloneFits(j) ==
  j \in Busy /\ scan[j].alone =>
    /\ Busy = {j}
    /\ scan[j].at \in InTransaction => scan[j].edges = perms
    /\ scan[j].at \in {"compute", "record"} => \A p \in perms : p.run = j
    /\ scan[j].at = "record" => scan[j].found = Due

\* A call writes the status of a credential that is there, at a provider whose findings do not
\* depend on it.
CallsKnown ==
  \A v \in Revocations : call[v].at \in {"execute", "update"} =>
    provider \in {"aws", "github"} /\ row[call[v].cred] # "none"

GraphInv ==
  /\ OnePerKey(found) /\ \A j \in ScanJobs : OnePerKey(scan[j].found)
  /\ settled => OneRun /\ Due \subseteq found
  /\ \A j \in ScanJobs : AloneFits(j)
  /\ CallsKnown

\* A rule gives a credential one severity, or none.
LEMMA OneSeverity ==
  ASSUME NEW c, NEW R, NEW last
  PROVE  /\ \A s, t \in Unused(last, R) : s = t
         /\ \A s, t \in Privileged(R) : s = t
         /\ \A holds, severity : \A s, t \in Given(holds, severity) : s = t
<1>1. \A holds, severity : \A s, t \in Given(holds, severity) : s = t
  BY DEF Given
<1>2. QED
  BY <1>1 DEF Unused, Privileged

LEMMA RulesAgree ==
  ASSUME NEW c, NEW R, NEW type \in Types
  PROVE  /\ \A s, t \in Rules(c, R)[type] : s = t
         /\ \A s, t \in LocalRules(c, R)[type] : s = t
<1> USE DEF Types
<1>1. \A s, t \in _rules_for_credential(c, R)[type] : s = t
  BY OneSeverity DEF _rules_for_credential
<1>2. \A s, t \in _github_rules(c, R)[type] : s = t
  BY OneSeverity DEF _github_rules
<1>3. \A s, t \in _gcp_rules(c, R)[type] : s = t
  BY OneSeverity DEF _gcp_rules
<1>4. \A s, t \in _azure_rules(c, R)[type] : s = t
  BY OneSeverity DEF _azure_rules
<1>5. \A s, t \in _broad_grants(R)[type] : s = t
  BY OneSeverity DEF _broad_grants
<1>6. \A s, t \in LocalRules(c, R)[type] : s = t
  BY OneSeverity DEF LocalRules
<1>7. QED
  BY <1>1, <1>2, <1>3, <1>4, <1>5, <1>6 DEF Rules

LEMMA DueOnePerKey == OnePerKey(Due) /\ Due = compute_findings(perms)
<1>1. ASSUME NEW f \in Due, NEW g \in Due, f.cred = g.cred, f.type = g.type
      PROVE  f = g
  <2>1. /\ f.type \in Types /\ f.severity \in Rules(f.cred, Reach(f.cred, perms))[f.type]
        /\ g.severity \in Rules(f.cred, Reach(f.cred, perms))[f.type]
    BY <1>1 DEF Due, Findings
  <2>2. f.severity = g.severity
    BY <2>1, RulesAgree
  <2>3. f \in Findings /\ g \in Findings
    BY DEF Due
  <2>4. QED
    BY <1>1, <2>2, <2>3 DEF Findings
<1>2. QED
  BY <1>1 DEF OnePerKey, SameKey, Due, compute_findings

LEMMA LocalOnePerKey == ASSUME NEW l PROVE OnePerKey(LocalFindings(l))
<1>1. ASSUME NEW f \in LocalFindings(l), NEW g \in LocalFindings(l), f.cred = g.cred, f.type = g.type
      PROVE  f = g
  <2>1. /\ f.type \in Types /\ f.severity \in LocalRules(f.cred, ReachAt(f.cred, l))[f.type]
        /\ g.severity \in LocalRules(f.cred, ReachAt(f.cred, l))[f.type]
    BY <1>1 DEF LocalFindings, Findings
  <2>2. f.severity = g.severity
    BY <2>1, RulesAgree
  <2>3. f \in Findings /\ g \in Findings
    BY DEF LocalFindings
  <2>4. QED
    BY <1>1, <2>2, <2>3 DEF Findings
<1>2. QED
  BY <1>1 DEF OnePerKey, SameKey

\* What is recorded replaces what was there under its key.
LEMMA Recording ==
  ASSUME NEW new, OnePerKey(found), OnePerKey(new), RecordFindings(new)
  PROVE  OnePerKey(found') /\ new \subseteq found'
<1>1. found' = {f \in found : ~\E g \in new : SameKey(f, g)} \cup new
  BY DEF RecordFindings, Kept, SameKey
<1>2. QED
  BY <1>1 DEF OnePerKey, SameKey

\* What the graph calls for does not depend on the status that a call writes.
LEMMA DueStays ==
  ASSUME UNCHANGED <<provider, dates, perms>>,
         \A c \in Creds : (row'[c] = "none") = (row[c] = "none"),
         provider = "azure" => row' = row
  PROVE  Due' = Due
<1>1. \A c : \A R : /\ _rules_for_credential(c, R)' = _rules_for_credential(c, R)
                    /\ _github_rules(c, R)' = _github_rules(c, R)
                    /\ _gcp_rules(c, R)' = _gcp_rules(c, R)
  BY DEF _rules_for_credential, _github_rules, _gcp_rules, LastUsed, RotationDue
<1>2. provider = "azure" => \A c : \A R : _azure_rules(c, R)' = _azure_rules(c, R)
  BY DEF _azure_rules, RotationDue
<1>3. \A c : \A R : Rules(c, R)' = Rules(c, R)
  BY <1>1, <1>2 DEF Rules
<1>4. QED
  BY <1>3 DEF Due, Findings, Reach, Holder

\* A step of one scan that writes nothing.
LEMMA GraphFrame ==
  ASSUME GraphInv, NEW j \in ScanJobs,
         UNCHANGED <<provider, row, dates, perms, found, settled, call>>,
         \A k \in ScanJobs \ {j} : scan'[k] = scan[k],
         j \in Busy' => j \in Busy,
         OnePerKey(scan'[j].found), AloneFits(j)'
  PROVE  GraphInv'
<1>1. Due' = Due
  BY DueStays
<1>2. Busy' \subseteq Busy
  BY DEF Busy
<1>3. ASSUME NEW k \in ScanJobs \ {j} PROVE AloneFits(k)'
  <2>1. scan'[k] = scan[k] /\ AloneFits(k)
    BY DEF GraphInv
  <2>2. k \in Busy' => k \in Busy
    BY <1>2
  <2>3. QED
    BY <1>1, <1>2, <2>1, <2>2 DEF AloneFits
<1>4. \A k \in ScanJobs : OnePerKey(scan'[k].found)
  BY DEF GraphInv
<1>5. settled' => OneRun' /\ Due' \subseteq found'
  BY <1>1 DEF GraphInv, OneRun
<1>6. OnePerKey(found') /\ CallsKnown'
  BY DEF GraphInv, CallsKnown
<1>7. QED
  BY <1>3, <1>4, <1>5, <1>6 DEF GraphInv, OnePerKey

\* The graph changes: the run that changes it is not alone, or nobody else is.
LEMMA GraphWritten ==
  ASSUME ScanTypeOK, GraphInv, NEW j \in ScanJobs, NEW C \in SUBSET Listed(scan[j].listed),
         Write(j, C), j \in Busy,
         UNCHANGED <<provider, found, call>>,
         \A k \in ScanJobs \ {j} : scan'[k] = scan[k],
         scan'[j].found = scan[j].found, scan'[j].alone = scan[j].alone,
         scan[j].at = "commit" => C = Listed(scan[j].listed) /\ scan'[j].at = "compute",
         scan[j].at # "commit" => scan'[j].at = "over"
  PROVE  GraphInv'
<1>1. ~settled'
  BY DEF Write
<1>2. \A k \in ScanJobs \ {j} : ~(k \in Busy' /\ scan'[k].alone)
  BY DEF GraphInv, AloneFits, Busy
<1>3. AloneFits(j)'
  <2>1. CASE scan[j].at = "commit" /\ scan[j].alone
    <3>1. Busy = {j} /\ scan[j].edges = perms
      BY <2>1 DEF GraphInv, AloneFits, InTransaction
    <3>2. perms' = PermsOf(j, C, scan[j].listed)
      BY <3>1 DEF Write
    <3>3. \A p \in perms' : p.run = j
      BY <3>2 DEF PermsOf
    <3>4. Busy' = {j}
      BY <2>1, <3>1 DEF Busy, Working
    <3>5. QED
      BY <2>1, <3>3, <3>4 DEF AloneFits, InTransaction
  <2>2. CASE scan[j].at # "commit"
    BY <2>2 DEF AloneFits, Busy, Working, InTransaction
  <2>3. CASE ~scan[j].alone
    BY <2>3 DEF AloneFits
  <2>4. QED
    BY <2>1, <2>2, <2>3
<1>4. \A k \in ScanJobs : AloneFits(k)'
  BY <1>2, <1>3 DEF AloneFits
<1>5. \A c \in Creds : row[c] # "none" => row'[c] # "none"
  <2>1. \A c \in C : scan[j].listed.keys[c] \in {"active", "inactive"}
    BY DEF ScanTypeOK, Cloud, Listed, KeyStates
  <2>2. \A c \in C : row[c] # "none" => Upserted(c, scan[j].listed) # "none"
    BY <2>1 DEF Upserted, _upsert_credential, _upsert_gh_credential, _upsert_simple_credential
  <2>3. QED
    BY <2>2 DEF Write
<1>6. CallsKnown'
  BY <1>5 DEF GraphInv, CallsKnown, ScanTypeOK
<1>7. OnePerKey(found') /\ \A k \in ScanJobs : OnePerKey(scan'[k].found)
  BY DEF GraphInv
<1>8. QED
  BY <1>1, <1>4, <1>6, <1>7 DEF GraphInv, OnePerKey

LEMMA GraphScanStep ==
  ASSUME ScanTypeOK, GraphInv, NEW j \in ScanJobs,
         \/ Connect(j) \/ SubmitJob(j) \/ JobFails(j) \/ StartScan(j)
         \/ Enumerate(j) \/ EnumerationFails(j)
         \/ DeleteBegins(j) \/ DeleteEdges(j) \/ DeletePerms(j) \/ UpsertNodes(j) \/ CommitGraph(j)
         \/ ComputeFindings(j) \/ persist_findings(j) \/ FinishScan(j)
         \/ StatementFails(j) \/ ValueFails(j) \/ WorkerDies(j)
  PROVE  GraphInv'
<1>0. scan \in [ScanJobs -> JobRec] /\ AloneFits(j) /\ OnePerKey(scan[j].found)
  BY DEF ScanTypeOK, JobRec, JobSteps, GraphInv
<1>1. CASE StartScan(j)
  <2>1. /\ UNCHANGED <<provider, row, dates, perms, found, settled, call>> /\ j \notin Busy
        /\ scan' = [k \in ScanJobs |->
             IF k = j THEN [scan[k] EXCEPT !.at = "start", !.alone = Busy = {}]
             ELSE IF k \in Busy THEN [scan[k] EXCEPT !.alone = FALSE] ELSE scan[k]]
    BY <1>1 DEF StartScan, Busy, At, Working, InTransaction
  <2>2. \A k \in ScanJobs : scan'[k].found = scan[k].found
    BY <1>0, <2>1 DEF JobRec
  <2>3. scan'[j].at = "start" /\ (scan'[j].alone => Busy = {})
    BY <1>0, <2>1, Zenon DEF JobRec
  <2>4. \A k \in ScanJobs \ {j} : scan'[k].at = scan[k].at /\ (k \in Busy => ~scan'[k].alone)
    BY <1>0, <2>1 DEF JobRec
  <2>5. Busy' = Busy \cup {j}
    BY <2>3, <2>4 DEF Busy, Working, InTransaction
  <2>6. \A k \in ScanJobs : AloneFits(k)'
    BY <2>3, <2>4, <2>5 DEF AloneFits, InTransaction
  <2>7. Due' = Due
    BY <2>1, DueStays
  <2>8. QED
    BY <2>1, <2>2, <2>6, <2>7 DEF GraphInv, OnePerKey, OneRun, CallsKnown
<1>2. CASE CommitGraph(j)
  <2>1. /\ \A k \in ScanJobs \ {j} : scan'[k] = scan[k]
        /\ scan'[j].found = scan[j].found /\ scan'[j].alone = scan[j].alone /\ scan'[j].at = "compute"
        /\ scan[j].at = "commit" /\ Write(j, Listed(scan[j].listed)) /\ UNCHANGED <<provider, found, call>>
    BY <1>0, <1>2 DEF CommitGraph, Goto, At, JobRec
  <2>2. j \in Busy
    BY <2>1 DEF Busy, Working, InTransaction
  <2>3. QED
    BY <2>1, <2>2, GraphWritten
<1>3. CASE ValueFails(j)
  <2>1. /\ \A k \in ScanJobs \ {j} : scan'[k] = scan[k]
        /\ scan'[j].found = scan[j].found /\ scan'[j].alone = scan[j].alone /\ scan'[j].at = "over"
        /\ scan[j].at = "upsert" /\ UNCHANGED <<provider, found, call>>
    BY <1>0, <1>3 DEF ValueFails, Goto, At, JobRec
  <2>2. j \in Busy
    BY <2>1 DEF Busy, Working, InTransaction
  <2>3. PICK C \in SUBSET Listed(scan[j].listed) : Write(j, C)
    BY <1>3 DEF ValueFails
  <2>4. QED
    BY <2>1, <2>2, <2>3, GraphWritten
<1>4. CASE persist_findings(j)
  <2>1. /\ \A k \in ScanJobs \ {j} : scan'[k] = scan[k]
        /\ scan'[j].found = {} /\ scan'[j].at = "finish" /\ scan'[j].alone = scan[j].alone
        /\ scan[j].at = "record" /\ RecordFindings(scan[j].found)
        /\ settled' = scan[j].alone /\ UNCHANGED <<provider, row, dates, perms, call>>
    BY <1>0, <1>4 DEF persist_findings, At, JobRec
  <2>2. OnePerKey(found') /\ scan[j].found \subseteq found'
    BY <1>0, <2>1, Recording DEF GraphInv
  <2>3. Due' = Due
    BY <2>1, DueStays
  <2>4. j \in Busy
    BY <2>1 DEF Busy, Working, InTransaction
  <2>5. Busy' = Busy
    BY <2>1, <2>4 DEF Busy, Working, InTransaction
  <2>6. \A k \in ScanJobs \ {j} : AloneFits(k)'
    BY <2>1, <2>3, <2>5 DEF GraphInv, AloneFits
  <2>7. AloneFits(j)'
    BY <1>0, <2>1, <2>4, <2>5 DEF AloneFits, InTransaction
  <2>8. settled' => OneRun' /\ Due' \subseteq found'
    BY <1>0, <2>1, <2>2, <2>3, <2>4 DEF AloneFits, OneRun
  <2>9. \A k \in ScanJobs : OnePerKey(scan'[k].found)
    BY <2>1 DEF GraphInv, OnePerKey
  <2>10. QED
    BY <2>1, <2>2, <2>6, <2>7, <2>8, <2>9 DEF GraphInv, OnePerKey, CallsKnown
<1>5. CASE \/ Connect(j) \/ SubmitJob(j) \/ JobFails(j)
           \/ Enumerate(j) \/ EnumerationFails(j) \/ DeleteBegins(j) \/ DeleteEdges(j) \/ DeletePerms(j)
           \/ UpsertNodes(j) \/ ComputeFindings(j) \/ FinishScan(j)
           \/ StatementFails(j) \/ WorkerDies(j)
  <2>1. /\ UNCHANGED <<provider, row, dates, perms, found, settled, call>>
        /\ \A k \in ScanJobs \ {j} : scan'[k] = scan[k]
        /\ scan'[j].alone = scan[j].alone
    BY <1>0, <1>5
       DEF Connect, SubmitJob, JobFails, Enumerate, EnumerationFails, DeleteBegins, DeleteEdges, DeletePerms, UpsertNodes,
           ComputeFindings, FinishScan, StatementFails, WorkerDies, Goto, JobRec
  <2>2. Due' = Due
    BY <2>1, DueStays
  <2>3. j \in Busy' => j \in Busy
    BY <1>0, <1>5
       DEF Connect, SubmitJob, JobFails, Enumerate, EnumerationFails, DeleteBegins, DeleteEdges, DeletePerms, UpsertNodes,
           ComputeFindings, FinishScan, StatementFails, WorkerDies, Goto, At, JobRec, Busy, Working,
           InTransaction
  <2>4. Busy' \subseteq Busy
    BY <2>1, <2>3 DEF Busy
  <2>5. CASE \/ Connect(j) \/ SubmitJob(j) \/ JobFails(j) \/ Enumerate(j) \/ EnumerationFails(j) \/ FinishScan(j) \/ StatementFails(j)
             \/ WorkerDies(j)
    <3>1. /\ scan'[j].at \in {"queued", "over", "persist", "dead"}
          /\ scan'[j].found \in {{}, scan[j].found}
      BY <1>0, <2>5
         DEF Connect, SubmitJob, JobFails, Enumerate, EnumerationFails, FinishScan, StatementFails, WorkerDies, Goto, JobRec
    <3>2. OnePerKey(scan'[j].found)
      BY <1>0, <3>1 DEF OnePerKey
    <3>3. AloneFits(j)'
      BY <1>0, <2>1, <2>3, <2>4, <3>1 DEF AloneFits, InTransaction
    <3>4. QED
      BY <2>1, <2>3, <3>2, <3>3, GraphFrame
  <2>6. CASE DeleteBegins(j) \/ DeleteEdges(j) \/ DeletePerms(j) \/ UpsertNodes(j)
    <3>1. /\ scan'[j].at \in InTransaction /\ scan'[j].found = scan[j].found
          /\ \/ scan'[j].edges = perms
             \/ scan[j].at \in InTransaction /\ scan'[j].edges = scan[j].edges
             \/ scan[j].at \in InTransaction /\ scan'[j].edges = scan[j].edges \cap perms
      BY <1>0, <2>6
         DEF DeleteBegins, DeleteEdges, DeletePerms, UpsertNodes, Goto, At, JobRec, Doomed, InTransaction
    <3>2. AloneFits(j)'
      BY <1>0, <2>1, <2>3, <2>4, <3>1 DEF AloneFits, InTransaction
    <3>3. QED
      BY <1>0, <2>1, <2>3, <3>1, <3>2, GraphFrame
  <2>7. CASE ComputeFindings(j)
    <3>1. scan[j].at = "compute" /\ scan'[j].at = "record" /\ scan'[j].found = Due
      BY <1>0, <2>7, DueOnePerKey DEF ComputeFindings, At, JobRec
    <3>2. OnePerKey(scan'[j].found)
      BY <3>1, DueOnePerKey
    <3>3. AloneFits(j)'
      BY <1>0, <2>1, <2>2, <2>3, <2>4, <3>1 DEF AloneFits, InTransaction
    <3>4. QED
      BY <2>1, <2>3, <3>2, <3>3, GraphFrame
  <2>8. QED
    BY <1>5, <2>5, <2>6, <2>7
<1>6. QED
  BY <1>1, <1>2, <1>3, <1>4, <1>5

LEMMA GraphCallStep ==
  ASSUME ScanTypeOK, GraphInv, NEW v \in Revocations,
         \/ Preview(v) \/ Execute(v) \/ UpdateStatus(v) \/ _record_action(v)
         \/ _record_chain_event(v) \/ RevokeDies(v)
  PROVE  GraphInv'
<1>0. call \in [Revocations -> CallRec]
  BY DEF ScanTypeOK, CallRec, CallSteps, Actions
<1>1. /\ UNCHANGED <<provider, dates, perms, found, settled, scan>>
      /\ \A w \in Revocations \ {v} : call'[w] = call[w]
  BY <1>0 DEF Preview, Execute, UpdateStatus, _record_action, _record_chain_event, RevokeDies
<1>2. /\ provider = "azure" => row' = row
      /\ \A c \in Creds : (row'[c] = "none") = (row[c] = "none")
  <2>1. CASE UpdateStatus(v)
    <3>1. /\ row' = [row EXCEPT ![call[v].cred] = StatusAfter(v)] /\ provider \in {"aws", "github"}
          /\ row[call[v].cred] # "none"
      BY <2>1 DEF UpdateStatus, GraphInv, CallsKnown
    <3>2. StatusAfter(v) # "none"
      BY DEF StatusAfter
    <3>3. QED
      BY <3>1, <3>2 DEF ScanTypeOK
  <2>2. CASE UNCHANGED row
    BY <2>2
  <2>3. QED
    BY <2>1, <2>2 DEF Preview, Execute, _record_action, _record_chain_event, RevokeDies
<1>3. Due' = Due
  BY <1>1, <1>2, DueStays
<1>4. call'[v].at \in {"execute", "update"} => provider \in {"aws", "github"} /\ row[call'[v].cred] # "none"
  <2>1. CASE Preview(v)
    <3>1. PICK c \in {d \in Creds : row[d] # "none"} :
            call' = [call EXCEPT ![v].at = IF cold(c) THEN "execute" ELSE "over", ![v].cred = c,
                                 ![v].action = IF cold(c) THEN next_action(c) ELSE "none"]
      BY <2>1 DEF Preview
    <3>2. call'[v].cred = c
      BY <1>0, <3>1, Zenon DEF CallRec
    <3>3. QED
      BY <2>1, <3>2 DEF Preview
  <2>2. CASE Execute(v)
    <3>1. call'[v].cred = call[v].cred /\ call[v].at = "execute"
      BY <1>0, <2>2 DEF Execute, CallRec
    <3>2. QED
      BY <3>1 DEF GraphInv, CallsKnown
  <2>3. CASE UpdateStatus(v) \/ _record_action(v) \/ _record_chain_event(v) \/ RevokeDies(v)
    <3>1. call'[v].at \in {"action", "chain", "over", "dead"}
      BY <1>0, <2>3 DEF UpdateStatus, _record_action, _record_chain_event, RevokeDies, CallRec
    <3>2. QED
      BY <3>1
  <2>4. QED
    BY <2>1, <2>2, <2>3
<1>5. CallsKnown'
  <2>1. \A w \in Revocations : call'[w].at \in {"execute", "update"} =>
          provider \in {"aws", "github"} /\ row[call'[w].cred] # "none" /\ call'[w].cred \in Creds
    <3>1. ScanTypeOK'
      BY ScanTypeStep DEF ScanNext
    <3>2. \A w \in Revocations : call'[w].cred \in Creds
      BY <3>1 DEF ScanTypeOK
    <3>3. QED
      BY <1>1, <1>4, <3>2 DEF GraphInv, CallsKnown
  <2>2. QED
    BY <1>1, <1>2, <2>1 DEF CallsKnown
<1>6. \A j \in ScanJobs : AloneFits(j)'
  BY <1>1, <1>3 DEF GraphInv, AloneFits, Busy
<1>7. QED
  BY <1>1, <1>3, <1>5, <1>6 DEF GraphInv, OnePerKey, OneRun

LEMMA GraphOtherStep ==
  ASSUME ScanTypeOK, GraphInv,
         \/ \E u \in Uploads : build_upload(u) \/ upload_local_scan(u) \/ UploadFails(u)
         \/ ChangeCloud
         \/ \E c \in Creds : UseCredential(c)
         \/ UNCHANGED scanVars
  PROVE  GraphInv'
<1>1. ASSUME NEW u \in Uploads, upload_local_scan(u) PROVE GraphInv'
  <2> DEFINE l == upload[u].listed
  <2>1. /\ UNCHANGED <<provider, call>> /\ ~settled' /\ RecordFindings(LocalFindings(l))
        /\ row' = [c \in Creds |-> IF row[c] = "none" /\ c \in Listed(l) THEN "active" ELSE row[c]]
        /\ scan' = [j \in ScanJobs |-> IF j \in Busy THEN [scan[j] EXCEPT !.alone = FALSE] ELSE scan[j]]
    BY <1>1 DEF upload_local_scan
  <2>2. scan \in [ScanJobs -> JobRec]
    BY DEF ScanTypeOK, JobRec, JobSteps
  <2>3. \A j \in ScanJobs : /\ scan'[j].found = scan[j].found /\ scan'[j].at = scan[j].at
                            /\ j \in Busy => ~scan'[j].alone
    BY <2>1, <2>2 DEF JobRec
  <2>4. \A j \in ScanJobs : AloneFits(j)'
    BY <2>3 DEF AloneFits, Busy
  <2>5. OnePerKey(found')
    BY <2>1, Recording, LocalOnePerKey DEF GraphInv
  <2>6. CallsKnown'
    BY <2>1 DEF GraphInv, CallsKnown, ScanTypeOK
  <2>7. QED
    BY <2>1, <2>3, <2>4, <2>5, <2>6 DEF GraphInv, OnePerKey
<1>2. CASE UNCHANGED <<provider, row, dates, perms, found, settled, scan, call>>
  <2>1. Due' = Due
    BY <1>2, DueStays
  <2>2. \A j \in ScanJobs : AloneFits(j)'
    BY <1>2, <2>1 DEF GraphInv, AloneFits, Busy
  <2>3. QED
    BY <1>2, <2>1, <2>2 DEF GraphInv, OnePerKey, OneRun, CallsKnown
<1>3. QED
  BY <1>1, <1>2 DEF build_upload, UploadFails, ChangeCloud, UseCredential, scanVars

\* Once a run that had the provider to itself has recorded its findings, and until another
\* changes the graph, graph and findings agree, for any number of scans, uploads and calls
\* that overlap and fail (scan.py:43-65, graph.py:37-63, findings.py:373-387).
THEOREM FindingsAgree == ScanSpec => []FindingsFollowGraph
<1> DEFINE Inv == ScanTypeOK /\ GraphInv
<1>1. ScanInit => Inv
  <2> SUFFICES ASSUME ScanInit PROVE GraphInv
    BY ScanTypeInit
  <2>1. /\ perms = {} /\ found = {} /\ \A c \in Creds : row[c] = "none"
        /\ \A v \in Revocations : call[v].at = "new"
        /\ \A j \in ScanJobs : scan[j].found = {} /\ ~scan[j].alone
    BY DEF ScanInit
  <2>2. Due = {}
    BY <2>1 DEF Due, Findings
  <2>3. QED
    BY <2>1, <2>2 DEF GraphInv, OnePerKey, OneRun, AloneFits, CallsKnown
<1>2. Inv /\ [ScanNext]_scanVars => Inv'
  <2> SUFFICES ASSUME Inv, [ScanNext]_scanVars PROVE GraphInv'
    BY ScanTypeStep
  <2>1. QED
    BY GraphScanStep, GraphCallStep, GraphOtherStep DEF ScanNext, run_scan, persist
<1>3. Inv => FindingsFollowGraph
  BY DueOnePerKey DEF GraphInv, FindingsFollowGraph, OnePerKey, SameKey, OneRun
<1>4. QED
  BY <1>1, <1>2, <1>3, PTL DEF ScanSpec

-----------------------------------------------------------------------------
(* The lines of a tap. *)

\* What the observer makes of a line.
Things == Messages \cup {Shape[m].version : m \in Messages} \cup {Shape[m].list : m \in Messages}

EventRec ==
  [m : Messages, part : Parts, of : Messages, seq : Nat,
   refs : SUBSET ({"protocol", "exchange", "drift"} \X Things)]

Keys == {Key(m) : m \in Messages}

IsHeld(l) == \E t \in Threads : l \in hand[t]

InQueue(l) == \E i \in DOMAIN queue : queue[i] = l

LinesShape ==
  /\ transport \in {"stdio", "http"} /\ end \in {"run", "stopping", "joined", "stopped", "over"}
  /\ hand \in [Threads -> SUBSET Lines]
  /\ passed \subseteq Lines /\ missed \subseteq Lines
  /\ queue \in Seq(Lines \cup {Stop}) /\ Len(queue) <= MaxQueue

\* A pump has one line in hand, and it is one of its own.
HandsFit ==
  \A t \in Threads : \A l \in hand[t] : l \in passed /\ t = ThreadOf(l) /\ \A k \in hand[t] : k = l

\* A line waits in one place, and is not seen as long.
WaitsOnce ==
  /\ \A i, j \in DOMAIN queue : queue[i] = queue[j] /\ queue[i] # Stop => i = j
  /\ \A l \in Lines : /\ InQueue(l) => l \in passed /\ ~IsHeld(l) /\ Seen(l) = {}
                      /\ IsHeld(l) => Seen(l) = {}
                      /\ Seen(l) # {} => l \in passed

\* No line gets lost on the way but at the queue.
NoneAstray == \A l \in passed : IsHeld(l) \/ InQueue(l) \/ l \in missed \/ Seen(l) # {}

\* Nobody answers a notification, and what a token shows comes with its request.
PassedFits ==
  \A l \in passed : /\ l[2] = "reply" => ~Notification(l[1])
                    /\ l[2] = "auth" => <<l[1], "request">> \in passed

LinesInv == LinesShape /\ HandsFit /\ WaitsOnce /\ NoneAstray /\ PassedFits

\* Once the process has waited for pump_out, and not in vain, none of its lines is in hand
\* and none stands in the queue without the end mark behind it.
ExitInv ==
  /\ hasty \in BOOLEAN
  /\ end # "run" => transport = "stdio"
  /\ end \in {"joined", "stopped", "over"} /\ ~hasty => hand["s2c"] = {}
  /\ end \in {"stopped", "over"} /\ ~hasty =>
       \A i \in DOMAIN queue : queue[i] \in Lines /\ DirectionOf(queue[i]) = "s2c" =>
         \E j \in DOMAIN queue : i < j /\ queue[j] = Stop

ObserverShape ==
  /\ seen \in Seq(Lines) /\ events \in Seq(EventRec)
  /\ pending \in Seq(Keys \X Messages) /\ Len(pending) <= MaxPending
  /\ \A x \in exchanges : x[2] \in Messages

SeenOnce == \A i, j \in DOMAIN seen : seen[i] = seen[j] => i = j

\* An event is that of a line that was seen, and of no other; only a reply may pass without.
EventsFit ==
  \A l \in Lines :
    /\ \A i, j \in Happened(l[2], l[1]) : i = j
    /\ Happened(l[2], l[1]) # {} => Seen(l) # {}
    /\ Seen(l) # {} /\ l[2] # "reply" /\ ~Unreadable(l) => Happened(l[2], l[1]) # {}

\* What RepliesFit says, message by message.
RepliesOwn ==
  \A m \in Messages : \A i \in Happened("reply", m) :
    /\ events[i].of = m
    /\ \E j \in Happened("request", m) : j < i

\* A request that the observer reads and expects a reply to.
Asks(m) == ~Notification(m) /\ Shape[m].kind # "junk"

\* The table holds requests that were seen, in the order in which they were.
PendingFit ==
  /\ \A p \in DOMAIN pending : \A m \in Messages : pending[p][2] = m =>
       pending[p][1] = Key(m) /\ Asks(m) /\ Seen(<<m, "request">>) # {}
  /\ \A p, q \in DOMAIN pending : \A m, n \in Messages :
       p < q /\ pending[p][2] = m /\ pending[q][2] = n =>
         \A i \in Seen(<<m, "request">>), j \in Seen(<<n, "request">>) : i < j

Pending(m) == \E p \in DOMAIN pending : pending[p][2] = m

\* A request leaves the table with its reply, or is forgotten.
RequestsKept ==
  \A m \in Messages : Seen(<<m, "request">>) # {} /\ Asks(m) =>
    Pending(m) \/ Forgotten(m) \/ Seen(<<m, "reply">>) # {}

\* Why there is no event of a reply.
Excused(m) ==
  \/ Seen(<<m, "request">>) = {}
  \/ \E i \in Seen(<<m, "reply">>), j \in Seen(<<m, "request">>) : i < j
  \/ Forgotten(m)
  \/ Shape[m].kind \in {"odd", "junk"}

RepliesAccounted ==
  \A m \in Messages : Seen(<<m, "reply">>) # {} => Happened("reply", m) # {} \/ Excused(m)

ObserverInv ==
  /\ ObserverShape /\ SeenOnce /\ EventsFit /\ PendingFit /\ RepliesOwn /\ RequestsKept
  /\ RepliesAccounted

\* What a line more that is seen changes.
LEMMA SeenMore ==
  ASSUME seen \in Seq(Lines), NEW line \in Lines, seen' = Append(seen, line)
  PROVE  /\ seen' \in Seq(Lines) /\ Len(seen') = Len(seen) + 1 /\ Len(seen) \in Nat
         /\ \A l \in Lines : Seen(l)' = Seen(l) \cup (IF l = line THEN {Len(seen) + 1} ELSE {})
         /\ \A l : Seen(l) \subseteq 1 .. Len(seen)
         /\ \A i \in 1 .. Len(seen) : seen'[i] = seen[i]
         /\ seen'[Len(seen) + 1] = line
<1>1. /\ seen' \in Seq(Lines) /\ Len(seen') = Len(seen) + 1 /\ Len(seen) \in Nat
      /\ \A i \in 1 .. Len(seen) : seen'[i] = seen[i]
      /\ seen'[Len(seen) + 1] = line /\ DOMAIN seen = 1 .. Len(seen) /\ DOMAIN seen' = 1 .. Len(seen) + 1
  OBVIOUS
<1>2. \A l : Seen(l) \subseteq 1 .. Len(seen)
  BY <1>1 DEF Seen
<1>3. ASSUME NEW l \in Lines PROVE Seen(l)' = Seen(l) \cup (IF l = line THEN {Len(seen) + 1} ELSE {})
  BY <1>1 DEF Seen
<1>4. QED
  BY <1>1, <1>2, <1>3

\* What was forgotten stays so.
LaterRequests(i) == {j \in DOMAIN seen : j > i /\ seen[j][2] = "request" /\ ~Notification(seen[j][1])
                                                   /\ ~Unreadable(seen[j])}

LEMMA LaterFinite ==
  ASSUME seen \in Seq(Lines), NEW i
  PROVE  IsFiniteSet(LaterRequests(i)) /\ Cardinality(LaterRequests(i)) \in Nat
<1>1. DOMAIN seen = 1 .. Len(seen) /\ Len(seen) \in Int /\ 1 \in Int
  OBVIOUS
<1>2. LaterRequests(i) \subseteq 1 .. Len(seen)
  BY <1>1 DEF LaterRequests
<1>3. IsFiniteSet(1 .. Len(seen))
  BY <1>1, FS_Interval
<1>4. QED
  BY <1>2, <1>3, FS_Subset, FS_CardinalityType

LEMMA ForgottenStays ==
  ASSUME seen \in Seq(Lines), NEW line \in Lines, seen' = Append(seen, line),
         NEW m \in Messages, Forgotten(m)
  PROVE  Forgotten(m)'
<1>1. PICK i \in Seen(<<m, "request">>) : Cardinality(LaterRequests(i)) >= MaxPending
  BY DEF Forgotten, LaterRequests
<1>2. <<m, "request">> \in Lines
  BY DEF Lines, Parts
<1>3. i \in Seen(<<m, "request">>)'
  BY <1>2, SeenMore
<1>4. LaterRequests(i) \subseteq LaterRequests(i)'
  <2>1. DOMAIN seen = 1 .. Len(seen) /\ DOMAIN seen' = 1 .. Len(seen')
    OBVIOUS
  <2>2. \A j \in DOMAIN seen : j \in DOMAIN seen' /\ seen'[j] = seen[j]
    BY <2>1, SeenMore
  <2>3. QED
    BY <2>2 DEF LaterRequests, Notification, Unreadable
<1>5. IsFiniteSet(LaterRequests(i)')
  <2>1. seen' \in Seq(Lines)
    BY SeenMore
  <2>2. DOMAIN seen' = 1 .. Len(seen') /\ Len(seen') \in Int /\ 1 \in Int
    BY <2>1
  <2>3. LaterRequests(i)' \subseteq 1 .. Len(seen')
    BY <2>2 DEF LaterRequests
  <2>4. IsFiniteSet(1 .. Len(seen'))
    BY <2>2, FS_Interval
  <2>5. QED
    BY <2>3, <2>4, FS_Subset
<1>6. Cardinality(LaterRequests(i)) <= Cardinality(LaterRequests(i)') /\ Cardinality(LaterRequests(i)') \in Nat
  BY <1>4, <1>5, FS_Subset, FS_CardinalityType
<1>7. Cardinality(LaterRequests(i)') >= MaxPending
  BY <1>1, <1>6, LaterFinite, TapAssumption
<1>8. QED
  BY <1>3, <1>7 DEF Forgotten, LaterRequests

\* The events of a line.
LEMMA EventFields ==
  ASSUME ObserverShape, NEW i \in DOMAIN events
  PROVE  events[i] \in EventRec /\ events[i].m \in Messages /\ events[i].part \in Parts
<1>1. events[i] \in EventRec
  BY DEF ObserverShape
<1>2. QED
  BY <1>1, Zenon DEF EventRec

LEMMA LinePair ==
  ASSUME NEW l \in Lines
  PROVE  l = <<l[1], l[2]>> /\ l[1] \in Messages /\ l[2] \in Parts
BY DEF Lines

\* An event more, of the line that was seen last.
LEMMA EventMore ==
  ASSUME ObserverInv, NEW line \in Lines, Seen(line) = {}, seen' = Append(seen, line),
         NEW e \in EventRec, e.m = line[1], e.part = line[2], events' = Append(events, e),
         line[2] = "reply" => e.of = e.m /\ Happened("request", line[1]) # {}
  PROVE  /\ events' \in Seq(EventRec) /\ EventsFit' /\ RepliesOwn'
         /\ \A l \in Lines : Happened(l[2], l[1]) # {} => Happened(l[2], l[1])' # {}
         /\ Happened(line[2], line[1])' # {}
<1> DEFINE n == Len(events) + 1
<1>1. /\ events \in Seq(EventRec) /\ events' \in Seq(EventRec) /\ Len(events) \in Nat
      /\ DOMAIN events = 1 .. Len(events) /\ DOMAIN events' = 1 .. n
      /\ \A i \in 1 .. Len(events) : events'[i] = events[i]
      /\ events'[n] = e
  BY DEF ObserverInv, ObserverShape
<1>2. \A l \in Lines : Seen(l)' = Seen(l) \cup (IF l = line THEN {Len(seen) + 1} ELSE {})
  BY SeenMore DEF ObserverInv, ObserverShape
<1>3. ASSUME NEW l \in Lines
      PROVE  Happened(l[2], l[1])' = Happened(l[2], l[1]) \cup (IF l = line THEN {n} ELSE {})
  <2>1. l = line <=> l[1] = e.m /\ l[2] = e.part
    BY LinePair
  <2>2. \A i \in DOMAIN events : i \in DOMAIN events' /\ events'[i] = events[i]
    BY <1>1
  <2>3. \A i \in DOMAIN events' : i \in DOMAIN events \/ i = n
    BY <1>1
  <2>4. n \in DOMAIN events' /\ events'[n] = e
    BY <1>1
  <2> HIDE DEF n
  <2>5. QED
    BY <2>1, <2>2, <2>3, <2>4 DEF Happened
<1>4. Happened(line[2], line[1]) = {}
  BY DEF ObserverInv, EventsFit
<1>5. EventsFit'
  <2> SUFFICES ASSUME NEW l \in Lines
               PROVE  /\ \A i, j \in Happened(l[2], l[1])' : i = j
                      /\ Happened(l[2], l[1])' # {} => Seen(l)' # {}
                      /\ Seen(l)' # {} /\ l[2] # "reply" /\ ~Unreadable(l) => Happened(l[2], l[1])' # {}
    BY DEF EventsFit
  <2>1. /\ \A i, j \in Happened(l[2], l[1]) : i = j
        /\ Happened(l[2], l[1]) # {} => Seen(l) # {}
        /\ Seen(l) # {} /\ l[2] # "reply" /\ ~Unreadable(l) => Happened(l[2], l[1]) # {}
    BY DEF ObserverInv, EventsFit
  <2> HIDE DEF n
  <2>2. CASE l = line
    BY <1>2, <1>3, <1>4, <2>2
  <2>3. CASE l # line
    BY <1>2, <1>3, <2>1, <2>3
  <2>4. QED
    BY <2>2, <2>3
<1>6. RepliesOwn'
  <2> SUFFICES ASSUME NEW m \in Messages, NEW i \in Happened("reply", m)'
               PROVE  events'[i].of = m /\ \E j \in Happened("request", m)' : j < i
    BY DEF RepliesOwn
  <2> DEFINE l == <<m, "reply">>
             r == <<m, "request">>
  <2>1. l \in Lines /\ l[1] = m /\ l[2] = "reply" /\ r \in Lines /\ r[1] = m /\ r[2] = "request"
    BY DEF Lines, Parts
  <2>2. Happened("reply", m)' = Happened("reply", m) \cup (IF l = line THEN {n} ELSE {})
    <3> HIDE DEF n, l, r
    <3> QED
      BY <1>3, <2>1
  <2>3. \A j \in Happened("request", m) : j \in Happened("request", m)'
    <3> HIDE DEF n, l, r
    <3> QED
      BY <1>3, <2>1
  <2>4. CASE i \in Happened("reply", m)
    <3>1. i \in 1 .. Len(events) /\ events'[i] = events[i]
      BY <1>1, <2>4 DEF Happened
    <3>2. events[i].of = m /\ \E j \in Happened("request", m) : j < i
      BY <2>4 DEF ObserverInv, RepliesOwn
    <3>3. QED
      BY <2>3, <3>1, <3>2
  <2>5. CASE i \notin Happened("reply", m)
    <3>1. i = n /\ line = l
      BY <2>2, <2>5
    <3>2. line[1] = m /\ line[2] = "reply"
      BY <2>1, <3>1
    <3>3. events'[i] = e /\ e.of = m
      BY <1>1, <3>1, <3>2
    <3>4. PICK j \in Happened("request", m) : TRUE
      BY <3>2
    <3>5. j \in 1 .. Len(events)
      BY <1>1, <3>4 DEF Happened
    <3>6. j < i
      BY <1>1, <3>1, <3>5
    <3>7. QED
      BY <2>3, <3>3, <3>4, <3>6
  <2>6. QED
    BY <2>4, <2>5
<1>7. \A l \in Lines : Happened(l[2], l[1]) # {} => Happened(l[2], l[1])' # {}
  <2> HIDE DEF n
  <2> QED
    BY <1>3
<1>8. Happened(line[2], line[1])' # {}
  <2> HIDE DEF n
  <2> QED
    BY <1>3
<1>9. QED
  BY <1>1, <1>5, <1>6, <1>7, <1>8

\* A reply without an event.
LEMMA NoEvent ==
  ASSUME ObserverInv, NEW line \in Lines, line[2] = "reply", seen' = Append(seen, line),
         UNCHANGED events
  PROVE  EventsFit' /\ RepliesOwn' /\ \A part, m : Happened(part, m)' = Happened(part, m)
<1>1. \A l \in Lines : Seen(l)' = Seen(l) \cup (IF l = line THEN {Len(seen) + 1} ELSE {})
  BY SeenMore DEF ObserverInv, ObserverShape
<1>2. \A part, m : Happened(part, m)' = Happened(part, m)
  BY DEF Happened
<1>4. EventsFit'
  <2> SUFFICES ASSUME NEW l \in Lines
               PROVE  /\ \A i, j \in Happened(l[2], l[1]) : i = j
                      /\ Happened(l[2], l[1]) # {} => Seen(l)' # {}
                      /\ Seen(l)' # {} /\ l[2] # "reply" /\ ~Unreadable(l) => Happened(l[2], l[1]) # {}
    BY <1>2 DEF EventsFit
  <2>1. /\ \A i, j \in Happened(l[2], l[1]) : i = j
        /\ Happened(l[2], l[1]) # {} => Seen(l) # {}
        /\ Seen(l) # {} /\ l[2] # "reply" /\ ~Unreadable(l) => Happened(l[2], l[1]) # {}
    BY DEF ObserverInv, EventsFit
  <2>2. Seen(l) # {} => Seen(l)' # {}
    BY <1>1
  <2>3. l[2] # "reply" => Seen(l)' = Seen(l)
    BY <1>1
  <2>4. QED
    BY <2>1, <2>2, <2>3
<1>5. RepliesOwn'
  BY <1>2 DEF ObserverInv, RepliesOwn
<1>6. QED
  BY <1>2, <1>4, <1>5

LEMMA PendingFields ==
  ASSUME ObserverShape, NEW p \in DOMAIN pending
  PROVE  /\ pending[p] = <<pending[p][1], pending[p][2]>>
         /\ pending[p][1] \in Keys /\ pending[p][2] \in Messages
<1>1. pending[p] \in Keys \X Messages
  BY DEF ObserverShape
<1>2. QED
  BY <1>1

\* Both sides number their requests apart, so a pending request is known by its key.
LEMMA PendingByKey ==
  ASSUME ObserverInv, NEW p \in DOMAIN pending, NEW m \in Messages,
         pending[p][1] = Key(m), Asks(m)
  PROVE  pending[p][2] = m
<1> DEFINE n == pending[p][2]
<1>1. n \in Messages
  BY PendingFields DEF ObserverInv
<1>2. Key(n) = Key(m) /\ Asks(n)
  BY <1>1 DEF ObserverInv, PendingFit
<1>3. Shape[n].from = Shape[m].from /\ Shape[n].id = Shape[m].id
  BY <1>2 DEF Key
<1>4. "note" \notin {Shape[n].kind, Shape[m].kind}
  BY <1>2 DEF Asks, Notification
<1>5. n = m
  <2> HIDE DEF n
  <2> QED
    BY <1>1, <1>3, <1>4, TapAssumption
<1>6. QED
  BY <1>5

\* Why a reply had no event stays true.
LEMMA ExcusedStays ==
  ASSUME seen \in Seq(Lines), NEW line \in Lines, seen' = Append(seen, line),
         NEW m \in Messages, Excused(m), Seen(<<m, "reply">>) # {}
  PROVE  Excused(m)'
<1> DEFINE q == <<m, "request">>
           r == <<m, "reply">>
<1>1. q \in Lines /\ r \in Lines
  BY DEF Lines, Parts
<1>2. /\ Len(seen) \in Nat
      /\ Seen(q)' = Seen(q) \cup (IF q = line THEN {Len(seen) + 1} ELSE {})
      /\ Seen(r) \subseteq Seen(r)' /\ Seen(q) \subseteq Seen(q)'
      /\ Seen(r) \subseteq 1 .. Len(seen)
  BY <1>1, SeenMore
<1>3. CASE Seen(q) = {}
  <2>1. PICK i \in Seen(r) : TRUE
    OBVIOUS
  <2>2. i \in Seen(r)' /\ i < Len(seen) + 1
    <3>1. i \in Seen(r)' /\ i \in 1 .. Len(seen)
      BY <1>2, <2>1
    <3>2. QED
      BY ONLY <1>2, <3>1
  <2>3. CASE q = line
    BY <1>2, <2>2, <2>3 DEF Excused
  <2>4. CASE q # line
    BY <1>2, <1>3, <2>4 DEF Excused
  <2>5. QED
    BY <2>3, <2>4
<1>4. CASE \E i \in Seen(r), j \in Seen(q) : i < j
  BY <1>2, <1>4 DEF Excused
<1>5. CASE Forgotten(m)
  BY <1>5, ForgottenStays DEF Excused
<1>6. CASE Shape[m].kind \in {"odd", "junk"}
  BY <1>6 DEF Excused
<1>7. QED
  BY <1>3, <1>4, <1>5, <1>6 DEF Excused

\* The part of the invariant that only the line seen last can disturb.
LEMMA SeenStep ==
  ASSUME ObserverInv, NEW line \in Lines, Seen(line) = {}, seen' = Append(seen, line)
  PROVE  /\ seen' \in Seq(Lines) /\ SeenOnce'
         /\ \A m \in Messages :
              /\ line # <<m, "request">> => Seen(<<m, "request">>)' = Seen(<<m, "request">>)
              /\ line # <<m, "reply">> => Seen(<<m, "reply">>)' = Seen(<<m, "reply">>)
              /\ Seen(<<m, "reply">>) # {} => Seen(<<m, "reply">>)' # {}
              /\ Forgotten(m) => Forgotten(m)'
              /\ Excused(m) /\ Seen(<<m, "reply">>) # {} => Excused(m)'
<1>1. seen \in Seq(Lines)
  BY DEF ObserverInv, ObserverShape
<1>2. SeenOnce'
  <2>1. DOMAIN seen = 1 .. Len(seen) /\ DOMAIN seen' = 1 .. Len(seen) + 1 /\ Len(seen) \in Nat
    BY <1>1
  <2>2. \A i \in 1 .. Len(seen) : seen'[i] = seen[i] /\ seen[i] # line
    BY <1>1, <2>1, SeenMore DEF Seen
  <2>3. seen'[Len(seen) + 1] = line
    BY <1>1
  <2>4. \A i, j \in 1 .. Len(seen) : seen[i] = seen[j] => i = j
    BY <2>1 DEF ObserverInv, SeenOnce
  <2>5. QED
    BY <2>1, <2>2, <2>3, <2>4 DEF SeenOnce
<1>3. ASSUME NEW m \in Messages
      PROVE  /\ line # <<m, "request">> => Seen(<<m, "request">>)' = Seen(<<m, "request">>)
             /\ line # <<m, "reply">> => Seen(<<m, "reply">>)' = Seen(<<m, "reply">>)
             /\ Seen(<<m, "reply">>) # {} => Seen(<<m, "reply">>)' # {}
  <2>1. <<m, "request">> \in Lines /\ <<m, "reply">> \in Lines
    BY DEF Lines, Parts
  <2>2. \A l \in Lines : Seen(l)' = Seen(l) \cup (IF l = line THEN {Len(seen) + 1} ELSE {})
    BY <1>1, SeenMore
  <2> DEFINE q == <<m, "request">>
             r == <<m, "reply">>
  <2>3. q \in Lines /\ r \in Lines
    BY <2>1
  <2> HIDE DEF q, r
  <2>4. /\ line # q => Seen(q)' = Seen(q)
        /\ line # r => Seen(r)' = Seen(r)
        /\ Seen(r) # {} => Seen(r)' # {}
    BY <2>2, <2>3
  <2>5. QED
    BY <2>4 DEF q, r
<1>4. QED
  BY <1>1, <1>2, <1>3, SeenMore, ForgottenStays, ExcusedStays

\* What the observer puts into an event.
LEMMA EventTyped ==
  ASSUME ObserverShape, NEW m \in Messages, NEW part \in Parts, NEW of \in Messages,
         NEW more \in SUBSET ({"protocol", "exchange", "drift"} \X Things)
  PROVE  LET e == Event(m, part, of, more)
         IN  e \in EventRec /\ e.m = m /\ e.part = part /\ e.of = of
<1>1. Len(events) \in Nat
  BY DEF ObserverShape
<1>2. QED
  BY <1>1 DEF Event, EventRec

LEMMA ExchangesTyped ==
  ASSUME ObserverShape, NEW of \in Messages
  PROVE  /\ \A x \in Exchanges(of) : x[2] \in Messages
         /\ \A k : ExchangeOf(k) \subseteq Messages
<1>1. \A x \in exchanges : x[2] \in Messages
  BY DEF ObserverShape
<1>2. \A k : ExchangeOf(k) \subseteq Messages
  BY <1>1 DEF ExchangeOf
<1>3. \A x \in Exchanges(of) : x \in exchanges \/ x = <<Shape[of].exchange, of>>
  BY DEF Exchanges
<1>4. \A k : <<k, of>>[2] = of
  OBVIOUS
<1>5. QED
  BY <1>1, <1>2, <1>3, <1>4

\* The table is in the order of the requests.
LEMMA TableOrder ==
  ASSUME PendingFit, NEW p \in DOMAIN pending, NEW q \in DOMAIN pending, p < q,
         NEW m \in Messages, NEW n \in Messages, pending[p][2] = m, pending[q][2] = n,
         NEW i \in Seen(<<m, "request">>), NEW j \in Seen(<<n, "request">>)
  PROVE  i < j
<1>1. \A a, b \in DOMAIN pending :
        a < b /\ pending[a][2] = m /\ pending[b][2] = n =>
          \A x \in Seen(<<m, "request">>), y \in Seen(<<n, "request">>) : x < y
  BY ONLY PendingFit, m \in Messages, n \in Messages DEF PendingFit
<1>2. QED
  BY ONLY <1>1, p < q, pending[p][2] = m, pending[q][2] = n, i \in Seen(<<m, "request">>),
          j \in Seen(<<n, "request">>), p \in DOMAIN pending, q \in DOMAIN pending, Zenon

\* The table fits when what stays in it keeps its order.
LEMMA TableStays ==
  ASSUME PendingFit, NEW h,
         \A p \in DOMAIN pending' : h[p] \in DOMAIN pending /\ pending'[p] = pending[h[p]],
         \A p, q \in DOMAIN pending' : p < q => h[p] < h[q],
         \A n \in Messages : Pending(n) => Seen(<<n, "request">>)' = Seen(<<n, "request">>)
  PROVE  PendingFit'
<1>1. ASSUME NEW p \in DOMAIN pending', NEW n \in Messages, pending'[p][2] = n
      PROVE  /\ pending'[p][1] = Key(n) /\ Asks(n)
             /\ Seen(<<n, "request">>)' = Seen(<<n, "request">>) /\ Seen(<<n, "request">>) # {}
  <2>1. h[p] \in DOMAIN pending /\ pending'[p] = pending[h[p]] /\ pending[h[p]][2] = n
    BY <1>1
  <2>2. /\ pending[h[p]][1] = Key(n) /\ Asks(n) /\ Seen(<<n, "request">>) # {}
    BY <2>1 DEF PendingFit
  <2>3. Pending(n)
    BY <2>1 DEF Pending
  <2>4. QED
    BY <2>1, <2>2, <2>3
<1>2. ASSUME NEW p \in DOMAIN pending', NEW q \in DOMAIN pending',
             NEW n \in Messages, NEW k \in Messages,
             p < q, pending'[p][2] = n, pending'[q][2] = k,
             NEW i \in Seen(<<n, "request">>)', NEW j \in Seen(<<k, "request">>)'
      PROVE  i < j
  <2>1. i \in Seen(<<n, "request">>) /\ j \in Seen(<<k, "request">>)
    BY <1>1, <1>2
  <2>2. h[p] \in DOMAIN pending /\ h[q] \in DOMAIN pending /\ h[p] < h[q]
    BY <1>2
  <2>3. pending[h[p]][2] = n /\ pending[h[q]][2] = k
    BY <1>2
  <2>4. QED
    BY <2>1, <2>2, <2>3, TableOrder
<1>3. \A p \in DOMAIN pending' : \A n \in Messages : pending'[p][2] = n =>
        pending'[p][1] = Key(n) /\ Asks(n) /\ Seen(<<n, "request">>)' # {}
  BY <1>1
<1>4. QED
  BY <1>2, <1>3 DEF PendingFit

\* A line that the tap has written itself is recorded.
LEMMA ObservationStep ==
  ASSUME ObserverInv, NEW m \in Messages, NEW part \in {"auth", "redirect", "failure"},
         NEW line \in Lines, line = <<m, part>>,
         Seen(line) = {}, seen' = Append(seen, line), _observation(m, part)
  PROVE  ObserverInv'
<1>1. /\ ObserverShape /\ line[1] = m /\ line[2] = part
      /\ part \in Parts /\ part \notin {"request", "reply"}
  BY DEF ObserverInv, Parts
<1> DEFINE e == Event(m, part, m, {})
<1>2. e \in EventRec /\ e.m = m /\ e.part = part
  BY <1>1, EventTyped
<1>3. events' = Append(events, e) /\ UNCHANGED <<pending, exchanges>>
  BY DEF _observation
<1> HIDE DEF e
<1>4. /\ events' \in Seq(EventRec) /\ EventsFit' /\ RepliesOwn'
      /\ \A l \in Lines : Happened(l[2], l[1]) # {} => Happened(l[2], l[1])' # {}
  BY <1>1, <1>2, <1>3, EventMore
<1>5. /\ seen' \in Seq(Lines) /\ SeenOnce'
      /\ \A n \in Messages :
           /\ Seen(<<n, "request">>)' = Seen(<<n, "request">>)
           /\ Seen(<<n, "reply">>)' = Seen(<<n, "reply">>)
           /\ Forgotten(n) => Forgotten(n)'
           /\ Excused(n) /\ Seen(<<n, "reply">>) # {} => Excused(n)'
  <2>1. \A n \in Messages : line # <<n, "request">> /\ line # <<n, "reply">>
    BY <1>1
  <2>2. QED
    BY <2>1, SeenStep
<1>6. ObserverShape'
  BY <1>1, <1>3, <1>4, <1>5 DEF ObserverShape
<1>7. PendingFit'
  <2> DEFINE h == [p \in DOMAIN pending |-> p]
  <2>1. \A p \in DOMAIN pending : h[p] = p
    OBVIOUS
  <2> HIDE DEF h
  <2>2. QED
    BY <1>3, <1>5, <2>1, TableStays DEF ObserverInv
<1>8. RequestsKept'
  <2>1. \A n \in Messages : Pending(n)' = Pending(n)
    BY <1>3 DEF Pending
  <2>2. QED
    BY <1>5, <2>1 DEF ObserverInv, RequestsKept
<1>9. RepliesAccounted'
  <2> SUFFICES ASSUME NEW n \in Messages, Seen(<<n, "reply">>)' # {}
               PROVE  Happened("reply", n)' # {} \/ Excused(n)'
    BY DEF RepliesAccounted
  <2>1. Seen(<<n, "reply">>) # {}
    BY <1>5
  <2>2. Happened("reply", n) # {} \/ Excused(n)
    BY <2>1 DEF ObserverInv, RepliesAccounted
  <2> DEFINE r == <<n, "reply">>
  <2>3. r \in Lines /\ r[1] = n /\ r[2] = "reply"
    BY DEF Lines, Parts
  <2> HIDE DEF r
  <2>4. Happened("reply", n) # {} => Happened("reply", n)' # {}
    BY <1>4, <2>3
  <2>5. QED
    BY <1>5, <2>1, <2>2, <2>4
<1>10. QED
  BY <1>4, <1>5, <1>6, <1>7, <1>8, <1>9 DEF ObserverInv

\* A line that cannot be read changes nothing but what was seen.
LEMMA UnreadableStep ==
  ASSUME ObserverInv, NEW line \in Lines, Unreadable(line),
         Seen(line) = {}, seen' = Append(seen, line),
         UNCHANGED <<pending, tools, exchanges, announced, events>>
  PROVE  ObserverInv'
<1> DEFINE m == line[1]
<1>1. ObserverShape /\ m \in Messages /\ line = <<m, line[2]>>
  BY LinePair DEF ObserverInv
<1>2. /\ seen' \in Seq(Lines) /\ SeenOnce'
      /\ \A n \in Messages :
           /\ line # <<n, "request">> => Seen(<<n, "request">>)' = Seen(<<n, "request">>)
           /\ line # <<n, "reply">> => Seen(<<n, "reply">>)' = Seen(<<n, "reply">>)
           /\ Seen(<<n, "reply">>) # {} => Seen(<<n, "reply">>)' # {}
           /\ Forgotten(n) => Forgotten(n)'
           /\ Excused(n) /\ Seen(<<n, "reply">>) # {} => Excused(n)'
  BY SeenStep
<1>3. /\ \A part, n : Happened(part, n)' = Happened(part, n)
      /\ \A n : Pending(n)' = Pending(n)
      /\ \A n : Asks(n)' = Asks(n)
  BY DEF Happened, Pending, Asks, Notification
<1>4. ASSUME NEW n \in Messages, Shape[n].kind # "junk"
      PROVE  line # <<n, "request">> /\ line # <<n, "reply">>
  BY <1>4 DEF Unreadable
<1>5. \A l \in Lines : Seen(l)' = Seen(l) \cup (IF l = line THEN {Len(seen) + 1} ELSE {})
  BY <1>1, SeenMore DEF ObserverShape
<1>6. EventsFit'
  <2> SUFFICES ASSUME NEW l \in Lines
               PROVE  /\ \A i, j \in Happened(l[2], l[1]) : i = j
                      /\ Happened(l[2], l[1]) # {} => Seen(l)' # {}
                      /\ Seen(l)' # {} /\ l[2] # "reply" /\ ~Unreadable(l) => Happened(l[2], l[1]) # {}
    BY <1>3 DEF EventsFit, Unreadable
  <2>1. /\ \A i, j \in Happened(l[2], l[1]) : i = j
        /\ Happened(l[2], l[1]) # {} => Seen(l) # {}
        /\ Seen(l) # {} /\ l[2] # "reply" /\ ~Unreadable(l) => Happened(l[2], l[1]) # {}
    BY DEF ObserverInv, EventsFit
  <2>2. (Seen(l) # {} => Seen(l)' # {}) /\ (~Unreadable(l) => Seen(l)' = Seen(l))
    BY <1>5
  <2>3. QED
    BY <2>1, <2>2
<1>7. RepliesOwn'
  BY <1>3 DEF ObserverInv, RepliesOwn
<1>8. ObserverShape'
  BY <1>1, <1>2 DEF ObserverShape
<1>9. PendingFit'
  <2> DEFINE h == [p \in DOMAIN pending |-> p]
  <2>1. \A p \in DOMAIN pending : h[p] = p
    OBVIOUS
  <2> HIDE DEF h
  <2>2. \A n \in Messages : Pending(n) => Seen(<<n, "request">>)' = Seen(<<n, "request">>)
    <3> SUFFICES ASSUME NEW n \in Messages, Pending(n)
                 PROVE  Seen(<<n, "request">>)' = Seen(<<n, "request">>)
      OBVIOUS
    <3>1. Shape[n].kind # "junk"
      BY DEF ObserverInv, PendingFit, Pending, Asks
    <3>2. QED
      BY <1>2, <1>4, <3>1
  <2>3. QED
    BY <2>1, <2>2, TableStays DEF ObserverInv
<1>10. RequestsKept'
  <2> SUFFICES ASSUME NEW n \in Messages, Seen(<<n, "request">>)' # {}, Asks(n)
               PROVE  Pending(n) \/ Forgotten(n)' \/ Seen(<<n, "reply">>)' # {}
    BY <1>3 DEF RequestsKept
  <2>1. Seen(<<n, "request">>) # {}
    BY <1>2, <1>4 DEF Asks
  <2>2. QED
    BY <1>2, <2>1 DEF ObserverInv, RequestsKept
<1>11. RepliesAccounted'
  <2> SUFFICES ASSUME NEW n \in Messages, Seen(<<n, "reply">>)' # {}
               PROVE  Happened("reply", n) # {} \/ Excused(n)'
    BY <1>3 DEF RepliesAccounted
  <2>1. CASE Shape[n].kind = "junk"
    BY <2>1 DEF Excused
  <2>2. CASE Shape[n].kind # "junk"
    <3>1. Seen(<<n, "reply">>) # {}
      BY <1>2, <1>4, <2>2
    <3>2. QED
      BY <1>2, <3>1 DEF ObserverInv, RepliesAccounted
  <2>3. QED
    BY <2>1, <2>2
<1>12. QED
  BY <1>2, <1>6, <1>7, <1>8, <1>9, <1>10, <1>11 DEF ObserverInv

\* What leaves a sequence with the element at i.
LEMMA RemoveAtFacts ==
  ASSUME NEW S, NEW s \in Seq(S), NEW i \in DOMAIN s
  PROVE  /\ RemoveAt(s, i) \in Seq(S) /\ Len(RemoveAt(s, i)) = Len(s) - 1
         /\ \A q \in DOMAIN RemoveAt(s, i) :
              RemoveAt(s, i)[q] = s[IF q < i THEN q ELSE q + 1]
<1> DEFINE a == SubSeq(s, 1, i - 1)
           b == SubSeq(s, i + 1, Len(s))
<1>1. Len(s) \in Nat /\ i \in 1 .. Len(s)
  OBVIOUS
<1>2. /\ a \in Seq(S) /\ Len(a) = i - 1 /\ \A q \in 1 .. i - 1 : a[q] = s[q]
  BY <1>1
<1>3. /\ b \in Seq(S) /\ Len(b) = Len(s) - i
      /\ \A q \in 1 .. Len(s) - i : b[q] = s[i + q]
  BY <1>1
<1> HIDE DEF a, b
<1>4. /\ a \o b \in Seq(S) /\ Len(a \o b) = Len(s) - 1
      /\ \A q \in 1 .. Len(s) - 1 : (a \o b)[q] = IF q <= i - 1 THEN a[q] ELSE b[q - (i - 1)]
  <2>1. a \in Seq(S) /\ b \in Seq(S) /\ Len(a) + Len(b) = Len(s) - 1
    BY <1>1, <1>2, <1>3
  <2>2. a \o b \in Seq(S) /\ Len(a \o b) = Len(a) + Len(b)
    BY ONLY <2>1
  <2>3. \A q \in 1 .. Len(a) + Len(b) :
          (a \o b)[q] = IF q <= Len(a) THEN a[q] ELSE b[q - Len(a)]
    BY ONLY <2>1
  <2>4. QED
    BY <1>2, <2>1, <2>2, <2>3
<1>5. ASSUME NEW q \in 1 .. Len(s) - 1
      PROVE  (a \o b)[q] = s[IF q < i THEN q ELSE q + 1]
  <2>1. CASE q < i
    BY <1>1, <1>2, <1>4, <2>1
  <2>2. CASE ~(q < i)
    <3>1. q - (i - 1) \in 1 .. Len(s) - i /\ i + (q - (i - 1)) = q + 1 /\ ~(q <= i - 1)
      BY <1>1, <2>2
    <3>2. (a \o b)[q] = b[q - (i - 1)]
      BY <1>4, <3>1
    <3>3. b[q - (i - 1)] = s[q + 1]
      BY <1>3, <3>1
    <3>4. QED
      BY <2>2, <3>2, <3>3
  <2>3. QED
    BY <2>1, <2>2
<1>6. DOMAIN (a \o b) = 1 .. Len(s) - 1
  BY <1>1, <1>4
<1>7. RemoveAt(s, i) = a \o b
  BY DEF RemoveAt, a, b
<1>8. QED
  BY <1>4, <1>5, <1>6, <1>7

\* The table without the request at i.
LEMMA TableWithout ==
  ASSUME ObserverInv, NEW i \in DOMAIN pending, pending' = RemoveAt(pending, i),
         NEW m \in Messages, pending[i][2] = m,
         \A n \in Messages : Seen(<<n, "request">>)' = Seen(<<n, "request">>)
  PROVE  /\ PendingFit' /\ pending' \in Seq(Keys \X Messages) /\ Len(pending') <= MaxPending
         /\ \A n \in Messages : Pending(n) /\ n # m => Pending(n)'
<1>1. /\ pending \in Seq(Keys \X Messages) /\ Len(pending) \in Nat /\ Len(pending) <= MaxPending
      /\ DOMAIN pending = 1 .. Len(pending) /\ MaxPending \in Nat
  BY TapAssumption DEF ObserverInv, ObserverShape
<1>2. /\ pending' \in Seq(Keys \X Messages) /\ Len(pending') = Len(pending) - 1
      /\ \A q \in DOMAIN pending' : pending'[q] = pending[IF q < i THEN q ELSE q + 1]
  BY <1>1, RemoveAtFacts
<1>3. DOMAIN pending' = 1 .. Len(pending) - 1
  BY <1>2
<1>4. PendingFit'
  <2> DEFINE h == [q \in DOMAIN pending' |-> IF q < i THEN q ELSE q + 1]
  <2>1. \A q \in DOMAIN pending' : h[q] = IF q < i THEN q ELSE q + 1
    OBVIOUS
  <2> HIDE DEF h
  <2>2. \A q \in DOMAIN pending' : h[q] \in DOMAIN pending /\ pending'[q] = pending[h[q]]
    BY <1>1, <1>2, <1>3, <2>1
  <2>3. \A p, q \in DOMAIN pending' : p < q => h[p] < h[q]
    BY <1>1, <1>3, <2>1
  <2>4. PendingFit
    BY DEF ObserverInv
  <2>5. QED
    BY <2>2, <2>3, <2>4, TableStays
<1>5. ASSUME NEW n \in Messages, Pending(n), n # m
      PROVE  Pending(n)'
  <2>1. PICK p \in DOMAIN pending : pending[p][2] = n
    BY <1>5 DEF Pending
  <2>2. p # i
    BY <1>5, <2>1
  <2> DEFINE q == IF p < i THEN p ELSE p - 1
  <2>3. q \in DOMAIN pending' /\ (IF q < i THEN q ELSE q + 1) = p
    BY <1>1, <1>3, <2>2
  <2> HIDE DEF q
  <2>4. pending'[q] = pending[p]
    BY <1>2, <2>3
  <2>5. QED
    BY <2>1, <2>3, <2>4 DEF Pending
<1>6. QED
  BY <1>1, <1>2, <1>4, <1>5

\* A reply is recorded for its request, or the reason why not is known.
LEMMA ReplyStep ==
  ASSUME ObserverInv, NEW m \in Messages, NEW line \in Lines, line = <<m, "reply">>,
         Seen(line) = {}, seen' = Append(seen, line), Asks(m), _observe_reply(m)
  PROVE  ObserverInv'
<1> DEFINE at == {p \in DOMAIN pending : pending[p][1] = Key(m)}
           silent == at = {}
           i == CHOOSE j \in at : TRUE
           of == pending[i][2]
<1>1. ObserverShape /\ line[1] = m /\ line[2] = "reply"
  BY DEF ObserverInv
<1>2. /\ seen' \in Seq(Lines) /\ SeenOnce'
      /\ \A n \in Messages :
           /\ Seen(<<n, "request">>)' = Seen(<<n, "request">>)
           /\ n # m => Seen(<<n, "reply">>)' = Seen(<<n, "reply">>)
           /\ Seen(<<n, "reply">>) # {} => Seen(<<n, "reply">>)' # {}
           /\ Forgotten(n) => Forgotten(n)'
           /\ Excused(n) /\ Seen(<<n, "reply">>) # {} => Excused(n)'
  BY SeenStep
<1>3. Seen(<<m, "reply">>)' # {}
  BY <1>1, SeenMore DEF ObserverShape
<1>4. \A n \in Messages : Happened("reply", n) # {} => n # m /\ Seen(<<n, "reply">>) # {}
  <2> SUFFICES ASSUME NEW n \in Messages, Happened("reply", n) # {}
               PROVE  Seen(<<n, "reply">>) # {}
    OBVIOUS
  <2> DEFINE r == <<n, "reply">>
  <2>1. r \in Lines /\ r[1] = n /\ r[2] = "reply"
    BY DEF Lines, Parts
  <2> HIDE DEF r
  <2>2. Seen(r) # {}
    BY <2>1 DEF ObserverInv, EventsFit
  <2>3. QED
    BY <2>2 DEF r
<1>5. \A n \in Messages : n # m /\ Seen(<<n, "reply">>)' # {} => Happened("reply", n) # {} \/ Excused(n)'
  BY <1>2 DEF ObserverInv, RepliesAccounted
<1>6. CASE silent
  <2>1. UNCHANGED <<pending, exchanges, events>>
    BY <1>6 DEF _observe_reply
  <2>2. EventsFit' /\ RepliesOwn' /\ \A n \in Messages : Happened("reply", n)' = Happened("reply", n)
    BY <1>1, <2>1, NoEvent
  <2>3. ObserverShape'
    BY <1>1, <1>2, <2>1 DEF ObserverShape
  <2>4. PendingFit'
    <3> DEFINE h == [p \in DOMAIN pending |-> p]
    <3>1. \A p \in DOMAIN pending : h[p] = p
      OBVIOUS
    <3> HIDE DEF h
    <3>2. QED
      BY <1>2, <2>1, <3>1, TableStays DEF ObserverInv
  <2>5. \A n \in Messages : Pending(n)' = Pending(n)
    BY <2>1 DEF Pending
  <2>6. RequestsKept'
    BY <1>2, <2>5 DEF ObserverInv, RequestsKept
  <2>7. Excused(m)'
    <3>1. ~Pending(m)
      BY <1>6 DEF Pending, ObserverInv, PendingFit
    <3>2. Seen(<<m, "request">>) = {} \/ Forgotten(m)
      BY <3>1 DEF ObserverInv, RequestsKept
    <3>3. Seen(<<m, "request">>)' = {} \/ Forgotten(m)'
      BY <1>2, <3>2
    <3>4. QED
      BY <3>3 DEF Excused
  <2>8. RepliesAccounted'
    BY <1>5, <2>2, <2>7 DEF RepliesAccounted
  <2>9. QED
    BY <1>2, <2>2, <2>3, <2>4, <2>6, <2>8 DEF ObserverInv
<1>7. CASE ~silent
  <2>1. i \in at
    BY <1>7
  <2>2. i \in DOMAIN pending /\ pending[i][1] = Key(m)
    BY <2>1
  <2>3. of = m
    <3> HIDE DEF i
    <3>1. QED
      BY <2>2, PendingByKey
  <2>4. Seen(<<m, "request">>) # {}
    <3> HIDE DEF i
    <3>1. QED
      BY <2>2, <2>3 DEF ObserverInv, PendingFit
  <2>5. pending' = RemoveAt(pending, i)
    BY <1>7, Zenon DEF _observe_reply
  <2> DEFINE known == Drift(m, of) \cup
                        {<<"exchange", x>> : x \in {y[2] : y \in
                           {z \in exchanges \cup Exchanges(of) : z[1] = Shape[of].exchange}}}
             e == Event(m, "reply", of, known)
  <2>6. IF Shape[m].kind = "odd" THEN UNCHANGED <<exchanges, events>>
        ELSE exchanges' = Exchanges(of) /\ events' = Append(events, e)
    BY <1>7, Zenon DEF _observe_reply
  <2>7. known \in SUBSET ({"protocol", "exchange", "drift"} \X Things)
    <3>1. \A z \in exchanges \cup Exchanges(m) : z[2] \in Messages
      BY <1>1, ExchangesTyped DEF ObserverShape
    <3>2. Messages \subseteq Things /\ Shape[m].list \in Things
      BY DEF Things
    <3>3. Drift(m, of) \subseteq {"drift"} \X Things
      BY <3>2 DEF Drift
    <3> HIDE DEF i
    <3>4. \A z \in exchanges \cup Exchanges(of) : z[2] \in Things
      BY <2>3, <3>1, <3>2
    <3> HIDE DEF of
    <3>5. QED
      BY <3>3, <3>4
  <2>8. e \in EventRec /\ e.m = m /\ e.part = "reply" /\ e.of = m
    <3>1. of \in Messages
      BY <2>3
    <3> HIDE DEF of, known
    <3>2. e \in EventRec /\ e.m = m /\ e.part = "reply" /\ e.of = of
      BY <1>1, <2>7, <3>1, EventTyped DEF Parts
    <3>3. QED
      BY <2>3, <3>2
  <2> HIDE DEF i, of, e, known
  <2>9. /\ PendingFit' /\ pending' \in Seq(Keys \X Messages) /\ Len(pending') <= MaxPending
        /\ \A n \in Messages : Pending(n) /\ n # m => Pending(n)'
    BY <1>2, <2>2, <2>3, <2>5, TableWithout DEF of
  <2>10. RequestsKept'
    <3> SUFFICES ASSUME NEW n \in Messages, Seen(<<n, "request">>)' # {}, Asks(n)
                 PROVE  Pending(n)' \/ Forgotten(n)' \/ Seen(<<n, "reply">>)' # {}
      BY DEF RequestsKept, Asks, Notification
    <3>1. CASE n = m
      BY <1>3, <3>1
    <3>2. CASE n # m
      <4>1. Pending(n) \/ Forgotten(n) \/ Seen(<<n, "reply">>) # {}
        BY <1>2 DEF ObserverInv, RequestsKept
      <4>2. QED
        BY <1>2, <2>9, <3>2, <4>1
    <3>3. QED
      BY <3>1, <3>2
  <2>11. CASE Shape[m].kind = "odd"
    <3>1. UNCHANGED <<exchanges, events>>
      BY <2>6, <2>11
    <3>2. EventsFit' /\ RepliesOwn' /\ \A n \in Messages : Happened("reply", n)' = Happened("reply", n)
      BY <1>1, <3>1, NoEvent
    <3>3. ObserverShape'
      BY <1>1, <1>2, <2>9, <3>1 DEF ObserverShape
    <3>4. Excused(m)'
      BY <2>11 DEF Excused
    <3>5. RepliesAccounted'
      BY <1>5, <3>2, <3>4 DEF RepliesAccounted
    <3>6. QED
      BY <1>2, <2>9, <2>10, <3>2, <3>3, <3>5 DEF ObserverInv
  <2>12. CASE Shape[m].kind # "odd"
    <3>1. exchanges' = Exchanges(of) /\ events' = Append(events, e)
      BY <2>6, <2>12
    <3>2. Happened("request", m) # {}
      <4> DEFINE q == <<m, "request">>
      <4>1. q \in Lines /\ q[1] = m /\ q[2] = "request" /\ Seen(q) # {} /\ ~Unreadable(q)
        BY <2>4 DEF Lines, Parts, Unreadable, Asks
      <4> HIDE DEF q
      <4>2. QED
        BY <4>1 DEF ObserverInv, EventsFit
    <3>3. /\ events' \in Seq(EventRec) /\ EventsFit' /\ RepliesOwn'
          /\ \A l \in Lines : Happened(l[2], l[1]) # {} => Happened(l[2], l[1])' # {}
          /\ Happened("reply", m)' # {}
      <4>1. e.m = line[1] /\ e.part = line[2] /\ e.of = e.m /\ Happened("request", line[1]) # {}
        BY <1>1, <2>8, <3>2
      <4>2. /\ events' \in Seq(EventRec) /\ EventsFit' /\ RepliesOwn'
            /\ \A l \in Lines : Happened(l[2], l[1]) # {} => Happened(l[2], l[1])' # {}
            /\ Happened(line[2], line[1])' # {}
        BY <2>8, <3>1, <4>1, EventMore
      <4>3. QED
        BY <1>1, <4>2
    <3>4. ObserverShape'
      BY <1>1, <1>2, <2>3, <2>9, <3>1, <3>3, ExchangesTyped DEF ObserverShape
    <3>5. \A n \in Messages : Happened("reply", n) # {} => Happened("reply", n)' # {}
      <4> SUFFICES ASSUME NEW n \in Messages, Happened("reply", n) # {}
                   PROVE  Happened("reply", n)' # {}
        OBVIOUS
      <4> DEFINE r == <<n, "reply">>
      <4>1. r \in Lines /\ r[1] = n /\ r[2] = "reply"
        BY DEF Lines, Parts
      <4> HIDE DEF r
      <4>2. QED
        BY <3>3, <4>1
    <3>6. RepliesAccounted'
      BY <1>5, <3>3, <3>5 DEF RepliesAccounted
    <3>7. QED
      BY <1>2, <2>9, <2>10, <3>3, <3>4, <3>6 DEF ObserverInv
  <2>13. QED
    BY <2>11, <2>12
<1>8. QED
  BY <1>6, <1>7

\* t is s with x at its end, and without its first d elements.
Grown(S, s, x, t, d) ==
  /\ t \in Seq(S) /\ Len(t) = Len(s) + 1 - d /\ t[Len(t)] = x
  /\ \A p \in 1 .. Len(s) - d : t[p] = s[p + d]

\* The table after one request more: the first goes when there are too many.
LEMMA TrimmedFacts ==
  ASSUME NEW S, NEW s \in Seq(S), NEW x \in S, Len(s) <= MaxPending,
         NEW t, t = Trimmed(Append(s, x))
  PROVE  \E d \in {0, 1} : (d = 1 <=> Len(s) = MaxPending) /\ Grown(S, s, x, t, d)
<1> DEFINE u == Append(s, x)
           d == IF Len(s) = MaxPending THEN 1 ELSE 0
<1>1. /\ Len(s) \in Nat /\ MaxPending \in Nat \ {0} /\ u \in Seq(S) /\ Len(u) = Len(s) + 1
      /\ u[Len(s) + 1] = x /\ \A p \in 1 .. Len(s) : u[p] = s[p]
  BY TapAssumption
<1> HIDE DEF u
<1>2. u # << >>
  BY <1>1
<1>3. /\ Tail(u) \in Seq(S) /\ Len(Tail(u)) = Len(s)
      /\ \A p \in 1 .. Len(s) : Tail(u)[p] = u[p + 1]
  BY <1>1, <1>2
<1>4. t = IF Len(s) = MaxPending THEN Tail(u) ELSE u
  BY <1>1 DEF Trimmed, u
<1>5. d \in {0, 1} /\ (d = 1 <=> Len(s) = MaxPending)
  OBVIOUS
<1>6. t \in Seq(S) /\ Len(t) = Len(s) + 1 - d /\ t[Len(t)] = x
  BY <1>1, <1>3, <1>4
<1>7. \A p \in 1 .. Len(s) - d : t[p] = s[p + d]
  BY <1>1, <1>3, <1>4
<1> HIDE DEF d
<1>8. Grown(S, s, x, t, d)
  BY <1>6, <1>7 DEF Grown
<1>9. QED
  BY <1>5, <1>8

\* A request that leaves a full table has been followed by as many as the table holds.
LEMMA OldestForgotten ==
  ASSUME ObserverInv, NEW m \in Messages, NEW line \in Lines, line = <<m, "request">>,
         Seen(line) = {}, seen' = Append(seen, line), Asks(m),
         Len(pending) = MaxPending, NEW r \in Messages, pending[1][2] = r
  PROVE  Forgotten(r)'
<1>1. /\ seen \in Seq(Lines) /\ Len(seen) \in Nat /\ DOMAIN pending = 1 .. MaxPending
      /\ MaxPending \in Nat \ {0} /\ seen' \in Seq(Lines) /\ DOMAIN seen' = 1 .. Len(seen) + 1
      /\ seen'[Len(seen) + 1] = line /\ \A j \in 1 .. Len(seen) : seen'[j] = seen[j]
  BY TapAssumption DEF ObserverInv, ObserverShape
<1>2. PICK i \in Seen(<<r, "request">>) : TRUE
  BY <1>1 DEF ObserverInv, PendingFit
<1>3. i \in Seen(<<r, "request">>)' /\ i \in 1 .. Len(seen)
  BY <1>1, <1>2 DEF Seen
<1>14. PendingFit
  BY DEF ObserverInv
<1> DEFINE IsSeen(p, j) == j \in 1 .. Len(seen) /\ seen[j] = <<pending[p][2], "request">>
           Pos(p) == CHOOSE j : IsSeen(p, j)
           f == [p \in 1 .. MaxPending |-> IF p = MaxPending THEN Len(seen) + 1 ELSE Pos(p + 1)]
           T == LaterRequests(i)'
<1>4. ASSUME NEW p \in 1 .. MaxPending
      PROVE  /\ pending[p][2] \in Messages /\ Asks(pending[p][2])
             /\ IsSeen(p, Pos(p)) /\ (p > 1 => Pos(p) > i)
  <2>1. PICK n \in Messages : pending[p][2] = n
    BY <1>1, PendingFields DEF ObserverInv
  <2>2. Asks(n) /\ Seen(<<n, "request">>) # {}
    BY <1>1, <2>1 DEF ObserverInv, PendingFit
  <2>3. PICK j \in Seen(<<n, "request">>) : TRUE
    BY <2>2
  <2>4. IsSeen(p, j)
    BY <1>1, <2>1, <2>3 DEF Seen
  <2>5. IsSeen(p, Pos(p))
    <3> HIDE DEF IsSeen
    <3> QED
      BY <2>4
  <2>6. Pos(p) \in Seen(<<n, "request">>)
    <3> HIDE DEF Pos
    <3> QED
      BY <1>1, <2>1, <2>5 DEF Seen
  <2> HIDE DEF Pos
  <2>7. ASSUME p > 1 PROVE Pos(p) > i
    <3>1. 1 \in DOMAIN pending /\ p \in DOMAIN pending /\ 1 < p
      BY <1>1, <2>7
    <3>2. i < Pos(p)
      BY <1>2, <1>14, <2>1, <2>6, <3>1, TableOrder
    <3>3. Pos(p) \in Nat
      BY <2>5
    <3>4. QED
      BY <1>3, <3>2, <3>3
  <2>8. QED
    BY <2>1, <2>2, <2>5, <2>7
<1>5. ASSUME NEW p \in 1 .. MaxPending, NEW q \in 1 .. MaxPending, p < q
      PROVE  Pos(p) < Pos(q)
  <2>1. PICK n \in Messages : pending[p][2] = n
    BY <1>4
  <2>2. PICK k \in Messages : pending[q][2] = k
    BY <1>4
  <2>3. Pos(p) \in Seen(<<n, "request">>) /\ Pos(q) \in Seen(<<k, "request">>)
    <3> HIDE DEF Pos
    <3> QED
      BY <1>1, <1>4, <2>1, <2>2 DEF Seen
  <2> HIDE DEF Pos
  <2>5. p \in DOMAIN pending /\ q \in DOMAIN pending
    BY <1>1
  <2>6. QED
    BY <1>5, <1>14, <2>1, <2>2, <2>3, <2>5, TableOrder
<1>6. ASSUME NEW p \in 1 .. MaxPending PROVE f[p] \in T
  <2>1. CASE p = MaxPending
    <3>1. f[p] = Len(seen) + 1
      BY <2>1
    <3>2. seen'[Len(seen) + 1][2] = "request" /\ seen'[Len(seen) + 1][1] = m
      BY <1>1
    <3>3. Len(seen) + 1 > i
      BY <1>1, <1>3
    <3>4. ~Notification(line[1]) /\ ~Unreadable(line)
      BY DEF Asks, Notification, Unreadable
    <3>5. Len(seen) + 1 \in DOMAIN seen' /\ seen'[Len(seen) + 1] = line
      BY <1>1
    <3>6. Len(seen) + 1 \in T
      BY <3>2, <3>3, <3>4, <3>5 DEF LaterRequests
    <3>7. QED
      BY <3>1, <3>6
  <2>2. CASE p # MaxPending
    <3> DEFINE q == p + 1
    <3>0. q \in 1 .. MaxPending /\ q > 1
      BY <1>1, <2>2
    <3>1. q \in 1 .. MaxPending /\ q > 1 /\ f[p] = Pos(q)
      BY <2>2, <3>0, Zenon
    <3> HIDE DEF q, Pos
    <3>2. /\ Asks(pending[q][2]) /\ IsSeen(q, Pos(q)) /\ Pos(q) > i
      BY <1>4, <3>1
    <3>3. Pos(q) \in DOMAIN seen' /\ seen'[Pos(q)] = <<pending[q][2], "request">>
      BY <1>1, <3>2
    <3>4. /\ ~Notification(pending[q][2])
          /\ \A l : l = <<pending[q][2], "request">> => ~Unreadable(l)
      BY <3>2 DEF Asks, Notification, Unreadable
    <3> HIDE DEF f
    <3>5. Pos(q) \in T
      BY <3>2, <3>3, <3>4 DEF LaterRequests
    <3>6. QED
      BY <3>1, <3>5
  <2>3. QED
    BY <2>1, <2>2
<1>7. ASSUME NEW p \in 1 .. MaxPending, NEW q \in 1 .. MaxPending, p < q PROVE f[p] # f[q]
  <2>1. p + 1 \in 1 .. MaxPending /\ f[p] = Pos(p + 1)
    <3>1. MaxPending \in Nat \ {0}
      BY <1>1
    <3>2. p + 1 \in 1 .. MaxPending /\ p # MaxPending
      BY ONLY p \in 1 .. MaxPending, q \in 1 .. MaxPending, p < q, <3>1
    <3>3. f[p] = Pos(p + 1)
      BY <3>2, Zenon
    <3>4. QED
      BY <3>2, <3>3
  <2>2. Pos(p + 1) \in 1 .. Len(seen)
    <3> HIDE DEF Pos
    <3> QED
      BY <1>4, <2>1
  <2>3. CASE q = MaxPending
    <3>1. f[q] = Len(seen) + 1
      BY <2>3
    <3> HIDE DEF f, Pos
    <3>2. QED
      BY <1>1, <2>1, <2>2, <3>1
  <2>4. CASE q # MaxPending
    <3>1. q + 1 \in 1 .. MaxPending /\ f[q] = Pos(q + 1) /\ p + 1 < q + 1
      <4>1. q + 1 \in 1 .. MaxPending /\ p + 1 < q + 1
        BY <1>1, <1>7, <2>4
      <4>2. f[q] = Pos(q + 1)
        BY <2>4, Zenon
      <4>3. QED
        BY <4>1, <4>2
    <3>2. Pos(p + 1) < Pos(q + 1)
      BY <1>5, <2>1, <3>1
    <3>3. Pos(q + 1) \in 1 .. Len(seen)
      <4> HIDE DEF Pos
      <4> QED
        BY <1>4, <3>1
    <3> HIDE DEF f, Pos
    <3>4. QED
      BY <1>1, <2>1, <2>2, <3>1, <3>2, <3>3
  <2>5. QED
    BY <2>3, <2>4
<1>8. IsFiniteSet(T) /\ Cardinality(T) \in Nat
  <2>1. T \subseteq 1 .. Len(seen) + 1
    BY <1>1 DEF LaterRequests
  <2>2. 1 \in Int /\ Len(seen) + 1 \in Int
    BY <1>1
  <2> HIDE DEF T
  <2>3. IsFiniteSet(1 .. Len(seen) + 1)
    BY <2>2, FS_Interval
  <2>4. QED
    BY <2>1, <2>3, FS_Subset, FS_CardinalityType
<1> DEFINE U == 1 .. MaxPending
<1>9. f \in Injection(U, T)
  <2>1. \A p, q \in U : f[p] = f[q] => p = q
    <3> SUFFICES ASSUME NEW p \in U, NEW q \in U, p # q PROVE f[p] # f[q]
      OBVIOUS
    <3>1. p < q \/ q < p
      BY <1>1
    <3> HIDE DEF f
    <3>2. QED
      BY <1>7, <3>1
  <2>2. f \in [U -> T]
    <3>1. \A p \in U : f[p] \in T
      BY <1>6
    <3>2. f = [p \in U |-> f[p]]
      OBVIOUS
    <3> HIDE DEF f, T, U
    <3>3. QED
      BY <3>1, <3>2
  <2> HIDE DEF f, T, U
  <2>3. QED
    BY <2>1, <2>2, Fun_IsInj
<1>10. Cardinality(U) = MaxPending
  <2>1. 1 \in Int /\ MaxPending \in Int
    BY <1>1
  <2>2. Cardinality(U) = IF 1 > MaxPending THEN 0 ELSE MaxPending - 1 + 1
    BY <2>1, FS_Interval
  <2>3. QED
    BY <1>1, <2>2
<1>11. Cardinality(U) <= Cardinality(T)
  <2> HIDE DEF f, T, U
  <2> QED
    BY <1>8, <1>9, FS_Injection
<1>12. Cardinality(LaterRequests(i)') >= MaxPending
  BY <1>1, <1>8, <1>10, <1>11
<1>13. QED
  BY <1>3, <1>12 DEF Forgotten, LaterRequests

\* The table with the request that was seen last.
LEMMA TableWith ==
  ASSUME ObserverInv, NEW m \in Messages, NEW line \in Lines, line = <<m, "request">>,
         Seen(line) = {}, seen' = Append(seen, line), Asks(m),
         pending' = Trimmed(Append(pending, <<Key(m), m>>))
  PROVE  /\ PendingFit' /\ pending' \in Seq(Keys \X Messages) /\ Len(pending') <= MaxPending
         /\ Pending(m)'
         /\ \A r \in Messages : Pending(r) => Pending(r)' \/ Forgotten(r)'
<1> DEFINE x == <<Key(m), m>>
<1>1. /\ pending \in Seq(Keys \X Messages) /\ Len(pending) \in Nat /\ Len(pending) <= MaxPending
      /\ DOMAIN pending = 1 .. Len(pending) /\ MaxPending \in Nat \ {0}
      /\ x \in Keys \X Messages /\ x[1] = Key(m) /\ x[2] = m
  BY TapAssumption DEF ObserverInv, ObserverShape, Keys
<1> DEFINE S == Keys \X Messages
<1>2. PICK d \in {0, 1} : (d = 1 <=> Len(pending) = MaxPending) /\ Grown(S, pending, x, pending', d)
  <2>1. pending \in Seq(S) /\ x \in S /\ Len(pending) <= MaxPending /\ pending' = Trimmed(Append(pending, x))
    BY <1>1
  <2> HIDE DEF S, x
  <2>2. QED
    BY <2>1, TrimmedFacts
<1> HIDE DEF x
<1> DEFINE len == Len(pending)
           n == Len(pending')
<1>3. /\ DOMAIN pending' = 1 .. n /\ DOMAIN pending = 1 .. len /\ len \in Nat
      /\ n = len + 1 - d /\ n \in 1 .. MaxPending /\ len <= MaxPending /\ (d = 1 <=> len = MaxPending)
  <2>0. pending' \in Seq(S) /\ n = len + 1 - d
    BY <1>2, Zenon DEF Grown
  <2>1. DOMAIN pending' = 1 .. n /\ DOMAIN pending = 1 .. len /\ len \in Nat
    BY <1>1, <2>0
  <2>2. n = len + 1 - d /\ len <= MaxPending /\ (d = 1 <=> len = MaxPending)
    BY <1>1, <1>2, <2>0
  <2> HIDE DEF len, n
  <2>3. n \in 1 .. MaxPending
    BY <1>1, <2>1, <2>2
  <2>4. QED
    BY <2>1, <2>2, <2>3
<1>12. pending'[n] = x /\ \A p \in 1 .. n - 1 : pending'[p] = pending[p + d]
  <2>1. pending'[n] = x /\ \A p \in 1 .. len - d : pending'[p] = pending[p + d]
    BY <1>2 DEF Grown
  <2> HIDE DEF len, n
  <2>2. n - 1 = len - d
    BY <1>3
  <2>3. QED
    BY <2>1, <2>2
<1> HIDE DEF len, n
<1>4. \A r \in Messages : r # m => Seen(<<r, "request">>)' = Seen(<<r, "request">>)
  BY SeenStep
<1>5. Seen(<<m, "request">>)' = {Len(seen) + 1} /\ Len(seen) \in Nat
      /\ \A l : Seen(l) \subseteq 1 .. Len(seen)
  <2>1. seen \in Seq(Lines)
    BY DEF ObserverInv, ObserverShape
  <2>2. Seen(line)' = Seen(line) \cup {Len(seen) + 1}
    BY <2>1, SeenMore
  <2>3. QED
    BY <2>1, <2>2, SeenMore
<1>6. ASSUME NEW p \in 1 .. n - 1, NEW r \in Messages, pending'[p][2] = r
      PROVE  /\ pending'[p][1] = Key(r) /\ Asks(r) /\ Seen(<<r, "request">>) # {} /\ r # m
             /\ Seen(<<r, "request">>)' = Seen(<<r, "request">>)
  <2> DEFINE q == p + d
  <2>1. q \in DOMAIN pending
    BY <1>3
  <2>2. pending'[p] = pending[q]
    BY <1>12
  <2> HIDE DEF q
  <2>3. pending[q][1] = Key(r) /\ Asks(r) /\ Seen(<<r, "request">>) # {}
    BY <1>6, <2>1, <2>2 DEF ObserverInv, PendingFit
  <2>4. r # m
    BY <2>3
  <2>5. QED
    BY <1>4, <2>2, <2>3, <2>4
<1>7. PendingFit'
  <2>1. ASSUME NEW p \in DOMAIN pending', NEW r \in Messages, pending'[p][2] = r
        PROVE  pending'[p][1] = Key(r) /\ Asks(r) /\ Seen(<<r, "request">>)' # {}
    <3>1. CASE p = n
      <4>1. r = m /\ pending'[p][1] = Key(m)
        BY <1>1, <1>12, <2>1, <3>1
      <4>2. QED
        BY <1>5, <4>1
    <3>2. CASE p # n
      <4>1. p \in 1 .. n - 1
        BY <1>3, <3>2
      <4>2. QED
        BY <1>6, <2>1, <4>1
    <3>3. QED
      BY <3>1, <3>2
  <2>2. ASSUME NEW p \in DOMAIN pending', NEW q \in DOMAIN pending', p < q,
               NEW r \in Messages, NEW k \in Messages, pending'[p][2] = r, pending'[q][2] = k,
               NEW i \in Seen(<<r, "request">>)', NEW j \in Seen(<<k, "request">>)'
        PROVE  i < j
    <3>1. p \in 1 .. n - 1
      BY <1>3, <2>2
    <3>2. i \in Seen(<<r, "request">>)
      <4> QED
        BY <1>6, <2>2, <3>1
    <3>3. CASE q = n
      <4>1. k = m
        BY <1>1, <1>12, <2>2, <3>3
      <4>2. j = Len(seen) + 1 /\ i \in 1 .. Len(seen)
        BY <1>5, <3>2, <4>1
      <4>3. QED
        BY <1>5, <4>2
    <3>4. CASE q # n
      <4>1. q \in 1 .. n - 1
        BY <1>3, <3>4
      <4>2. j \in Seen(<<k, "request">>)
        <5> HIDE DEF n
        <5> QED
          BY <1>6, <2>2, <4>1
      <4> DEFINE a == p + d
                 b == q + d
      <4>3. a \in DOMAIN pending /\ b \in DOMAIN pending /\ a < b
        BY <1>3, <2>2, <3>1, <4>1
      <4>4. pending[a][2] = r /\ pending[b][2] = k
        BY <1>12, <2>2, <3>1, <4>1
      <4>5. PendingFit
        BY DEF ObserverInv
      <4> HIDE DEF a, b
      <4>6. QED
        BY <3>2, <4>2, <4>3, <4>4, <4>5, TableOrder
    <3>5. QED
      BY <3>3, <3>4
  <2>3. \A p \in DOMAIN pending' : \A r \in Messages : pending'[p][2] = r =>
          pending'[p][1] = Key(r) /\ Asks(r) /\ Seen(<<r, "request">>)' # {}
    BY <2>1
  <2>4. \A p, q \in DOMAIN pending' : \A r, k \in Messages :
          p < q /\ pending'[p][2] = r /\ pending'[q][2] = k =>
            \A i \in Seen(<<r, "request">>)', j \in Seen(<<k, "request">>)' : i < j
    BY <2>2
  <2>5. QED
    BY ONLY <2>3, <2>4, Zenon DEF PendingFit
<1>8. Pending(m)'
  BY <1>1, <1>3, <1>12 DEF Pending
<1>9. ASSUME NEW r \in Messages, Pending(r) PROVE Pending(r)' \/ Forgotten(r)'
  <2>1. PICK p \in DOMAIN pending : pending[p][2] = r
    BY <1>9 DEF Pending
  <2>2. CASE d = 1 /\ p = 1
    BY <1>2, <2>1, <2>2, OldestForgotten
  <2>3. CASE ~(d = 1 /\ p = 1)
    <3> DEFINE q == p - d
    <3>1. q \in 1 .. n - 1 /\ q + d = p
      BY <1>3, <2>3
    <3>4. q \in DOMAIN pending'
      BY <1>3, <3>1
    <3> HIDE DEF q
    <3>2. q \in DOMAIN pending' /\ pending'[q] = pending[p]
      BY <1>12, <3>1, <3>4
    <3> HIDE DEF q
    <3>3. QED
      BY <2>1, <3>2 DEF Pending
  <2>4. QED
    BY <2>2, <2>3
<1>10. pending' \in Seq(Keys \X Messages) /\ Len(pending') <= MaxPending
  BY <1>2, <1>3 DEF n, Grown
<1>11. QED
  BY <1>7, <1>8, <1>9, <1>10

\* A request is recorded, and kept in the table when it asks for a reply.
LEMMA RequestStep ==
  ASSUME ObserverInv, NEW m \in Messages, NEW line \in Lines, line = <<m, "request">>,
         Shape[m].kind # "junk",
         Seen(line) = {}, seen' = Append(seen, line), _observe_outbound(m)
  PROVE  ObserverInv'
<1>1. ObserverShape /\ line[1] = m /\ line[2] = "request"
  BY DEF ObserverInv
<1> DEFINE known == Marker(Shape[m].version) \cup
                      IF Shape[m].retry THEN {<<"exchange", x>> : x \in ExchangeOf(Shape[m].exchange)} ELSE {}
           e == Event(m, "request", m, known)
<1>2. known \in SUBSET ({"protocol", "exchange", "drift"} \X Things)
  <2>1. Marker(Shape[m].version) \subseteq {"protocol"} \X Things
    BY DEF Marker, Things
  <2>2. \A x \in ExchangeOf(Shape[m].exchange) : x \in Things
    BY <1>1, ExchangesTyped DEF Things
  <2>3. QED
    BY <2>1, <2>2
<1>3. e \in EventRec /\ e.m = m /\ e.part = "request"
  <2> HIDE DEF known
  <2> QED
    BY <1>1, <1>2, EventTyped DEF Parts
<1>4. /\ events' = Append(events, e) /\ UNCHANGED exchanges
      /\ pending' = IF Notification(m) THEN pending ELSE Remembered(m)
  BY Zenon DEF _observe_outbound
<1> HIDE DEF e
<1>5. /\ events' \in Seq(EventRec) /\ EventsFit' /\ RepliesOwn'
      /\ \A l \in Lines : Happened(l[2], l[1]) # {} => Happened(l[2], l[1])' # {}
  BY <1>1, <1>3, <1>4, EventMore
<1>6. /\ seen' \in Seq(Lines) /\ SeenOnce'
      /\ \A n \in Messages :
           /\ n # m => Seen(<<n, "request">>)' = Seen(<<n, "request">>)
           /\ Seen(<<n, "reply">>)' = Seen(<<n, "reply">>)
           /\ Forgotten(n) => Forgotten(n)'
           /\ Excused(n) /\ Seen(<<n, "reply">>) # {} => Excused(n)'
  BY SeenStep
<1>7. ~Pending(m) /\ (~Notification(m) => \A p \in DOMAIN pending : pending[p][1] # Key(m))
  <2>1. ~Pending(m)
    BY DEF ObserverInv, PendingFit, Pending
  <2>2. QED
    BY <2>1, PendingByKey DEF Pending, Asks
<1>8. /\ PendingFit' /\ pending' \in Seq(Keys \X Messages) /\ Len(pending') <= MaxPending
      /\ Asks(m) => Pending(m)'
      /\ \A r \in Messages : Pending(r) => Pending(r)' \/ Forgotten(r)'
  <2>1. CASE Notification(m)
    <3>1. pending' = pending
      BY <1>4, <2>1
    <3> DEFINE h == [p \in DOMAIN pending |-> p]
    <3>2. \A p \in DOMAIN pending : h[p] = p
      OBVIOUS
    <3> HIDE DEF h
    <3>3. \A n \in Messages : Pending(n) => Seen(<<n, "request">>)' = Seen(<<n, "request">>)
      BY <1>6, <1>7
    <3>4. PendingFit
      BY DEF ObserverInv
    <3>5. PendingFit'
      BY <3>1, <3>2, <3>3, <3>4, TableStays
    <3>6. \A r \in Messages : Pending(r)' = Pending(r)
      BY <3>1 DEF Pending
    <3>7. QED
      BY <1>1, <2>1, <3>1, <3>5, <3>6 DEF ObserverShape, Asks
  <2>2. CASE Asks(m)
    <3>1. pending' = Trimmed(Append(pending, <<Key(m), m>>))
      BY <1>4, <1>7, <2>2 DEF Remembered, Asks
    <3>2. QED
      BY <2>2, <3>1, TableWith
  <2>3. QED
    BY <2>1, <2>2 DEF Asks
<1>9. ObserverShape'
  BY <1>1, <1>4, <1>5, <1>6, <1>8 DEF ObserverShape
<1>10. RequestsKept'
  <2> SUFFICES ASSUME NEW n \in Messages, Seen(<<n, "request">>)' # {}, Asks(n)
               PROVE  Pending(n)' \/ Forgotten(n)' \/ Seen(<<n, "reply">>)' # {}
    BY DEF RequestsKept, Asks, Notification
  <2>1. CASE n = m
    BY <1>8, <2>1
  <2>2. CASE n # m
    <3>1. Pending(n) \/ Forgotten(n) \/ Seen(<<n, "reply">>) # {}
      BY <1>6, <2>2 DEF ObserverInv, RequestsKept
    <3>2. QED
      BY <1>6, <1>8, <3>1
  <2>3. QED
    BY <2>1, <2>2
<1>11. RepliesAccounted'
  <2> SUFFICES ASSUME NEW n \in Messages, Seen(<<n, "reply">>)' # {}
               PROVE  Happened("reply", n)' # {} \/ Excused(n)'
    BY DEF RepliesAccounted
  <2>1. Seen(<<n, "reply">>) # {}
    BY <1>6
  <2>2. Happened("reply", n) # {} \/ Excused(n)
    BY <2>1 DEF ObserverInv, RepliesAccounted
  <2> DEFINE r == <<n, "reply">>
  <2>3. r \in Lines /\ r[1] = n /\ r[2] = "reply"
    BY DEF Lines, Parts
  <2> HIDE DEF r
  <2>4. Happened("reply", n) # {} => Happened("reply", n)' # {}
    BY <1>5, <2>3
  <2>5. QED
    BY <1>6, <2>1, <2>2, <2>4
<1>12. QED
  BY <1>5, <1>6, <1>8, <1>9, <1>10, <1>11 DEF ObserverInv

QueueDistinct == \A i, j \in DOMAIN queue : queue[i] = queue[j] /\ queue[i] # Stop => i = j

\* A line more in the queue.
LEMMA PutFacts ==
  ASSUME LinesShape, QueueDistinct, NEW line \in Lines \cup {Stop},
         line = Stop \/ ~InQueue(line), Len(queue) < MaxQueue, queue' = Append(queue, line)
  PROVE  /\ queue' \in Seq(Lines \cup {Stop}) /\ Len(queue') <= MaxQueue /\ QueueDistinct'
         /\ \A l \in Lines : InQueue(l)' <=> InQueue(l) \/ l = line
<1> DEFINE n == Len(queue) + 1
<1>1. /\ queue \in Seq(Lines \cup {Stop}) /\ Len(queue) \in Nat /\ MaxQueue \in Nat
      /\ DOMAIN queue = 1 .. Len(queue)
  BY TapAssumption DEF LinesShape
<1>2. /\ queue' \in Seq(Lines \cup {Stop}) /\ Len(queue') = n /\ DOMAIN queue' = 1 .. n
      /\ queue'[n] = line /\ \A i \in 1 .. Len(queue) : queue'[i] = queue[i]
  BY <1>1
<1>3. Len(queue') <= MaxQueue
  BY <1>1, <1>2
<1>4. \A i \in DOMAIN queue' : i = n \/ (i \in DOMAIN queue /\ queue'[i] = queue[i])
  BY <1>1, <1>2
<1>5. \A i \in DOMAIN queue : i \in DOMAIN queue' /\ queue'[i] = queue[i]
  BY <1>1, <1>2
<1>6. n \in DOMAIN queue'
  BY <1>1, <1>2
<1> HIDE DEF n
<1>7. QueueDistinct'
  <2>1. line = Stop \/ \A i \in DOMAIN queue : queue[i] # line
    BY DEF InQueue
  <2>2. QED
    BY <1>2, <1>4, <2>1 DEF QueueDistinct
<1>8. \A l \in Lines : InQueue(l)' <=> InQueue(l) \/ l = line
  BY <1>2, <1>4, <1>5, <1>6 DEF InQueue
<1>9. QED
  BY <1>2, <1>3, <1>7, <1>8

LEMMA StopIsNoLine == Stop \notin Lines
BY DEF Stop, Lines, Parts

LEMMA ThreadsOfLines ==
  ASSUME NEW l \in Lines
  PROVE  ThreadOf(l) \in Threads
<1>1. l[1] \in Messages
  BY LinePair
<1>2. Shape[l[1]].from \in Directions
  BY <1>1, TapAssumption
<1>3. QED
  BY <1>1, <1>2 DEF ThreadOf, DirectionOf, Other, Directions, Threads

\* A line is passed on.
LEMMA PassStep ==
  ASSUME LinesInv, NEW line \in Lines, Carry(line), line[2] = "reply" => ~Notification(line[1]),
         line[2] # "auth"
  PROVE  LinesInv'
<1> DEFINE t == ThreadOf(line)
<1>1. /\ LinesShape /\ HandsFit /\ WaitsOnce /\ NoneAstray /\ PassedFits
  BY DEF LinesInv
<1>2. /\ line \notin passed /\ hand[t] = {} /\ passed' = passed \cup {line}
      /\ hand' = [hand EXCEPT ![t] = {line}] /\ UNCHANGED <<transport, queue, missed, seen, end>>
      /\ line[2] = "reply" => ~Notification(line[1])
  BY DEF Carry, observerVars
<1>3. t \in Threads /\ \A l \in Lines : ThreadOf(l)' = ThreadOf(l)
  BY <1>2, ThreadsOfLines DEF ThreadOf
<1> HIDE DEF t
<1>4. /\ hand' \in [Threads -> SUBSET Lines] /\ hand'[t] = {line}
      /\ \A u \in Threads : u # t => hand'[u] = hand[u]
  BY <1>1, <1>2, <1>3 DEF LinesShape
<1>5. LinesShape'
  BY <1>1, <1>2, <1>4 DEF LinesShape
<1>6. \A l \in Lines : /\ IsHeld(l)' <=> IsHeld(l) \/ l = line
                       /\ InQueue(l)' = InQueue(l) /\ Seen(l)' = Seen(l)
  BY <1>2, <1>3, <1>4 DEF IsHeld, InQueue, Seen
<1>7. HandsFit'
  BY <1>1, <1>2, <1>3, <1>4, <1>5 DEF HandsFit, LinesShape, t
<1>8. WaitsOnce'
  BY <1>1, <1>2, <1>6 DEF WaitsOnce
<1>9. NoneAstray'
  BY <1>1, <1>2, <1>6 DEF NoneAstray, LinesShape
<1>10. PassedFits'
  BY <1>1, <1>2 DEF PassedFits, Notification
<1>11. QED
  BY <1>5, <1>7, <1>8, <1>9, <1>10 DEF LinesInv

\* A line that was passed on is put into the queue, or misses it.
LEMMA PutStep ==
  ASSUME LinesInv, NEW line \in Lines, Put(line), ~InQueue(line), Seen(line) = {},
         PassedFits', NEW more \in SUBSET Lines,
         \A l \in more : l # line /\ l[2] # "reply" /\ ~InQueue(l) /\ Seen(l) = {},
         passed' = passed \cup {line} \cup more, hand' \in [Threads -> SUBSET Lines], HandsFit',
         \A l \in Lines : IsHeld(l)' <=> (IsHeld(l) /\ l # line) \/ l \in more,
         UNCHANGED <<transport, seen, end>>
  PROVE  LinesInv'
<1>1. /\ LinesShape /\ HandsFit /\ WaitsOnce /\ NoneAstray /\ PassedFits /\ QueueDistinct
  BY DEF LinesInv, WaitsOnce, QueueDistinct
<1>2. /\ queue' \in Seq(Lines \cup {Stop}) /\ Len(queue') <= MaxQueue /\ QueueDistinct'
      /\ missed' \subseteq Lines /\ missed \subseteq missed'
      /\ \A l \in Lines : /\ InQueue(l) => InQueue(l)'
                          /\ InQueue(l)' => InQueue(l) \/ l = line
      /\ InQueue(line)' \/ line \in missed'
  <2>1. CASE Len(queue) < MaxQueue
    <3>1. queue' = Append(queue, line) /\ missed' = missed
      BY <2>1 DEF Put
    <3>2. QED
      BY <1>1, <2>1, <3>1, PutFacts DEF LinesShape
  <2>2. CASE ~(Len(queue) < MaxQueue)
    <3>1. queue' = queue /\ missed' = missed \cup {line}
      BY <2>2 DEF Put
    <3>2. \A l \in Lines : InQueue(l)' = InQueue(l)
      BY <3>1 DEF InQueue
    <3>3. QueueDistinct'
      BY <1>1, <3>1 DEF QueueDistinct
    <3>4. QED
      BY <1>1, <3>1, <3>2, <3>3 DEF LinesShape
  <2>3. QED
    BY <2>1, <2>2
<1>10. \A l \in Lines : InQueue(l) => InQueue(l)'
  BY <1>2
<1>3. \A l \in Lines : Seen(l)' = Seen(l) /\ ThreadOf(l)' = ThreadOf(l)
  BY DEF Seen, ThreadOf
<1>4. LinesShape'
  BY <1>1, <1>2 DEF LinesShape
<1>5. HandsFit'
  OBVIOUS
<1>6. WaitsOnce'
  BY <1>1, <1>2, <1>3 DEF WaitsOnce, QueueDistinct
<1>7. NoneAstray'
  <2> SUFFICES ASSUME NEW l \in passed'
               PROVE  IsHeld(l)' \/ InQueue(l)' \/ l \in missed' \/ Seen(l)' # {}
    BY DEF NoneAstray
  <2>1. CASE l = line
    BY <1>2, <2>1
  <2>4. CASE l \in more
    BY <2>4
  <2>2. CASE l # line /\ l \notin more
    <3>1. l \in passed /\ l \in Lines
      BY <1>1, <2>2 DEF LinesShape
    <3>2. IsHeld(l) \/ InQueue(l) \/ l \in missed \/ Seen(l) # {}
      BY <1>1, <3>1 DEF NoneAstray
    <3>3. IsHeld(l) => IsHeld(l)'
      BY <2>2, <3>1, Zenon
    <3>4. InQueue(l) => InQueue(l)'
      BY <1>10, <3>1
    <3>5. (l \in missed => l \in missed') /\ Seen(l)' = Seen(l)
      BY <1>2, <1>3, <3>1
    <3>6. QED
      BY ONLY <3>2, <3>3, <3>4, <3>5
  <2>3. QED
    BY <2>1, <2>2, <2>4
<1>9. QED
  BY <1>4, <1>5, <1>6, <1>7 DEF LinesInv

LEMMA _observeStep ==
  ASSUME LinesInv, NEW t \in Threads, _observe(t)
  PROVE  LinesInv'
<1>1. PICK line \in hand[t] : Put(line) /\ hand' = [hand EXCEPT ![t] = {}]
  BY DEF _observe
<1>2. UNCHANGED <<transport, passed, seen, end>>
  BY DEF _observe, observerVars
<1>3. /\ hand \in [Threads -> SUBSET Lines] /\ line \in Lines /\ line \in passed /\ t = ThreadOf(line)
      /\ hand[t] = {line} /\ \A u \in Threads : line \in hand[u] => u = t
  BY <1>1 DEF LinesInv, LinesShape, HandsFit
<1>4. /\ hand' \in [Threads -> SUBSET Lines] /\ hand'[t] = {}
      /\ \A u \in Threads : u # t => hand'[u] = hand[u]
  BY <1>1, <1>3
<1>5. IsHeld(line) /\ \A l \in Lines : IsHeld(l)' <=> IsHeld(l) /\ l # line
  BY <1>3, <1>4 DEF IsHeld
<1>6. ~InQueue(line) /\ Seen(line) = {} /\ (line[2] = "reply" => ~Notification(line[1]))
  BY <1>3, <1>5 DEF LinesInv, WaitsOnce, PassedFits
<1>7. passed' = passed \cup {line} \cup {}
  BY <1>2, <1>3
<1>8. HandsFit'
  <2>1. \A l : ThreadOf(l)' = ThreadOf(l)
    BY <1>2 DEF ThreadOf, DirectionOf
  <2>2. \A u \in Threads : hand'[u] = hand[u] \/ hand'[u] = {}
    BY <1>4
  <2>3. QED
    BY <1>2, <2>1, <2>2 DEF LinesInv, HandsFit
<1> DEFINE none == {}
<1>11. PassedFits'
  BY <1>2 DEF LinesInv, PassedFits, Notification
<1>9. /\ none \in SUBSET Lines /\ passed' = passed \cup {line} \cup none
      /\ \A l \in none : l # line /\ l[2] # "reply" /\ ~InQueue(l) /\ Seen(l) = {}
      /\ \A l \in Lines : IsHeld(l)' <=> (IsHeld(l) /\ l # line) \/ l \in none
  BY <1>5, <1>7
<1> HIDE DEF none
<1>10. QED
  BY <1>1, <1>2, <1>3, <1>4, <1>6, <1>8, <1>9, <1>11, PutStep

LEMMA PostStep ==
  ASSUME LinesInv, NEW m \in Messages, Post(m)
  PROVE  LinesInv'
<1> DEFINE line == <<m, "request">>
           auth == IF Shape[m].refs THEN {<<m, "auth">>} ELSE {}
<1>1. /\ line \notin passed /\ Put(line) /\ passed' = passed \cup {line} \cup auth
      /\ hand[m] = {} /\ hand' = [hand EXCEPT ![m] = auth]
      /\ transport = "http" /\ UNCHANGED <<transport, seen, end>>
  BY DEF Post, observerVars
<1>2. /\ line \in Lines /\ line[2] # "reply" /\ auth \subseteq Lines
      /\ \A l \in auth : l = <<m, "auth">> /\ l[1] = m /\ l # line /\ l[2] # "reply"
  BY DEF Lines, Parts
<1>14. PassedFits'
  <2>1. line[1] = m /\ line[2] = "request" /\ \A l \in auth : <<l[1], "request">> = line
    BY <1>2
  <2> HIDE DEF line, auth
  <2>2. \A l \in auth : l[2] # "reply"
    BY <1>2
  <2>3. QED
    BY <1>1, <2>1, <2>2 DEF LinesInv, PassedFits, Notification
<1>11. m \in Threads /\ hand \in [Threads -> SUBSET Lines]
  BY DEF Threads, LinesInv, LinesShape
<1>12. \A l \in auth : l \notin passed
  BY <1>1, <1>2 DEF LinesInv, PassedFits, line
<1> HIDE DEF line
<1>3. ~IsHeld(line) /\ ~InQueue(line) /\ Seen(line) = {}
  BY <1>1, <1>2 DEF LinesInv, WaitsOnce, HandsFit, IsHeld
<1>13. \A l \in auth : ~InQueue(l) /\ Seen(l) = {}
  BY <1>2, <1>12 DEF LinesInv, WaitsOnce
<1> HIDE DEF auth
<1>5. /\ hand' \in [Threads -> SUBSET Lines] /\ hand'[m] = auth
      /\ \A u \in Threads : u # m => hand'[u] = hand[u]
  BY <1>1, <1>2, <1>11
<1>4. \A l \in Lines : IsHeld(l)' <=> (IsHeld(l) /\ l # line) \/ l \in auth
  BY <1>1, <1>3, <1>5, <1>11 DEF IsHeld
<1>7. HandsFit'
  <2> SUFFICES ASSUME NEW u \in Threads, NEW l \in hand'[u]
               PROVE  l \in passed' /\ u = ThreadOf(l)' /\ \A k \in hand'[u] : k = l
    BY DEF HandsFit
  <2>1. CASE u = m
    <3>1. l \in auth /\ \A k \in hand'[u] : k \in auth
      BY <1>5, <2>1
    <3>2. ThreadOf(l)' = m
      BY <1>1, <1>2, <3>1 DEF ThreadOf
    <3>3. QED
      BY <1>1, <1>2, <2>1, <3>1, <3>2
  <2>2. CASE u # m
    BY <1>1, <1>5, <2>2 DEF LinesInv, HandsFit, ThreadOf, DirectionOf
  <2>3. QED
    BY <2>1, <2>2
<1>6. QED
  BY <1>1, <1>2, <1>3, <1>4, <1>5, <1>7, <1>13, <1>14, PutStep

\* The observer takes a line from the queue.
LEMMA TakeStep ==
  ASSUME LinesInv, seen \in Seq(Lines), queue # << >>, Head(queue) # Stop, queue' = Tail(queue),
         seen' = Append(seen, Head(queue)), UNCHANGED <<transport, hand, passed, missed, end>>
  PROVE  /\ LinesInv' /\ Head(queue) \in Lines /\ Seen(Head(queue)) = {}
         /\ Head(queue)[2] = "reply" => ~Notification(Head(queue)[1])
<1> DEFINE line == Head(queue)
<1>1. /\ LinesShape /\ HandsFit /\ WaitsOnce /\ NoneAstray /\ PassedFits
  BY DEF LinesInv
<1>2. /\ queue \in Seq(Lines \cup {Stop}) /\ Len(queue) \in Nat \ {0} /\ DOMAIN queue = 1 .. Len(queue)
      /\ line = queue[1] /\ Len(queue) <= MaxQueue /\ MaxQueue \in Nat
  BY <1>1, TapAssumption DEF LinesShape
<1>3. line \in Lines /\ InQueue(line)
  BY <1>2 DEF InQueue
<1>4. /\ queue' \in Seq(Lines \cup {Stop}) /\ Len(queue') = Len(queue) - 1
      /\ DOMAIN queue' = 1 .. Len(queue) - 1
      /\ \A i \in 1 .. Len(queue) - 1 : queue'[i] = queue[i + 1]
  BY <1>2
<1> HIDE DEF line
<1>5. line \in passed /\ ~IsHeld(line) /\ Seen(line) = {}
  BY <1>1, <1>3 DEF WaitsOnce
<1>6. \A l \in Lines : Seen(l)' = Seen(l) \cup (IF l = line THEN {Len(seen) + 1} ELSE {})
  BY <1>3, SeenMore DEF line
<1>7. \A l \in Lines : InQueue(l)' <=> InQueue(l) /\ l # line
  <2> SUFFICES ASSUME NEW l \in Lines PROVE InQueue(l)' <=> InQueue(l) /\ l # line
    OBVIOUS
  <2>1. ASSUME NEW i \in DOMAIN queue', queue'[i] = l
        PROVE  InQueue(l) /\ l # line
    <3>1. i + 1 \in DOMAIN queue /\ queue[i + 1] = l /\ i + 1 # 1 /\ 1 \in DOMAIN queue
      BY <1>2, <1>4, <2>1
    <3>2. queue[i + 1] # queue[1]
      <4> DEFINE k == i + 1
      <4>1. l # Stop
        BY StopIsNoLine
      <4> HIDE DEF k
      <4>2. QED
        BY <1>1, <3>1, <4>1 DEF WaitsOnce, k
    <3>3. QED
      BY <1>2, <3>1, <3>2 DEF InQueue
  <2>2. ASSUME NEW i \in DOMAIN queue, queue[i] = l, l # line
        PROVE  InQueue(l)'
    <3>1. i - 1 \in DOMAIN queue' /\ queue'[i - 1] = queue[i]
      BY <1>2, <1>4, <2>2
    <3>2. QED
      BY <2>2, <3>1 DEF InQueue
  <2>3. QED
    BY <2>1, <2>2 DEF InQueue
<1>8. \A l \in Lines : IsHeld(l)' = IsHeld(l) /\ ThreadOf(l)' = ThreadOf(l)
  BY DEF IsHeld, ThreadOf
<1>9. LinesShape'
  BY <1>1, <1>2, <1>4 DEF LinesShape
<1>10. HandsFit'
  BY <1>1, <1>8 DEF HandsFit, LinesShape
<1>11. WaitsOnce'
  <2>1. \A i, j \in DOMAIN queue' : queue'[i] = queue'[j] /\ queue'[i] # Stop => i = j
    <3> SUFFICES ASSUME NEW i \in DOMAIN queue', NEW j \in DOMAIN queue',
                        queue'[i] = queue'[j], queue'[i] # Stop
                 PROVE  i = j
      OBVIOUS
    <3>1. /\ i + 1 \in DOMAIN queue /\ j + 1 \in DOMAIN queue /\ i \in Nat /\ j \in Nat
          /\ queue'[i] = queue[i + 1] /\ queue'[j] = queue[j + 1]
      BY <1>2, <1>4
    <3>2. i + 1 = j + 1
      BY <1>1, <3>1 DEF WaitsOnce
    <3>3. QED
      BY <3>1, <3>2
  <2>2. QED
    BY <1>1, <1>5, <1>6, <1>7, <1>8, <2>1 DEF WaitsOnce
<1>12. NoneAstray'
  BY <1>1, <1>6, <1>7, <1>8 DEF NoneAstray, LinesShape
<1>13. PassedFits'
  BY <1>1 DEF PassedFits, Notification
<1>14. line[2] = "reply" => ~Notification(line[1])
  BY <1>1, <1>5 DEF PassedFits
<1>15. QED
  BY <1>3, <1>5, <1>9, <1>10, <1>11, <1>12, <1>13, <1>14 DEF LinesInv, line

TapInv == LinesInv /\ ObserverInv /\ ExitInv

\* The observer takes a line and makes of it what it is.
LEMMA observeStep ==
  ASSUME LinesInv, ObserverInv, observe
  PROVE  LinesInv' /\ ObserverInv'
<1> DEFINE line == Head(queue)
           m == line[1]
<1>1. seen \in Seq(Lines)
  BY DEF ObserverInv, ObserverShape
<1>2. /\ queue # << >> /\ Head(queue) # Stop /\ queue' = Tail(queue)
      /\ seen' = Append(seen, Head(queue)) /\ UNCHANGED <<transport, hand, passed, missed, end>>
      /\ _observe_line(line)
  BY Zenon DEF observe
<1>3. LinesInv' /\ line \in Lines /\ Seen(line) = {} /\ (line[2] = "reply" => ~Notification(m))
  BY <1>1, <1>2, TakeStep
<1>4. m \in Messages /\ line = <<m, line[2]>> /\ line[2] \in Parts
  BY <1>3, LinePair
<1>5. seen' = Append(seen, line)
  BY <1>2
<1> HIDE DEF line
<1>6. CASE Unreadable(line)
  <2>1. UNCHANGED <<pending, tools, exchanges, announced, events>>
    BY <1>2, <1>6 DEF _observe_line
  <2>2. ObserverInv'
    BY <1>3, <1>5, <1>6, <2>1, UnreadableStep
  <2>3. QED
    BY <1>3, <2>2
<1>7. CASE ~Unreadable(line) /\ line[2] = "request"
  <2>1. _observe_outbound(m) /\ line = <<m, "request">>
    BY <1>2, <1>4, <1>7 DEF _observe_line
  <2>4. Shape[m].kind # "junk"
    BY <1>7 DEF Unreadable
  <2> HIDE DEF m
  <2>2. ObserverInv'
    BY <1>3, <1>4, <1>5, <2>1, <2>4, RequestStep
  <2>3. QED
    BY <1>3, <2>2
<1>8. CASE ~Unreadable(line) /\ line[2] = "reply"
  <2>1. _observe_reply(m) /\ line = <<m, "reply">>
    BY <1>2, <1>4, <1>8 DEF _observe_line
  <2>4. Asks(m)
    BY <1>3, <1>8 DEF Unreadable, Asks
  <2> HIDE DEF m
  <2>2. ObserverInv'
    BY <1>3, <1>4, <1>5, <2>1, <2>4, ReplyStep
  <2>3. QED
    BY <1>3, <2>2
<1>9. CASE ~Unreadable(line) /\ line[2] \notin {"request", "reply"}
  <2> DEFINE part == line[2]
  <2>1. _observation(m, part) /\ line = <<m, part>>
    BY <1>2, <1>4, <1>9 DEF _observe_line
  <2>4. part \in {"auth", "redirect", "failure"}
    BY <1>4, <1>9 DEF Unreadable, Parts
  <2> HIDE DEF m, part
  <2>2. ObserverInv'
    BY <1>3, <1>4, <1>5, <2>1, <2>4, ObservationStep
  <2>3. QED
    BY <1>3, <2>2
<1>10. QED
  BY <1>6, <1>7, <1>8, <1>9

\* What the observer has is left alone by the others.
LEMMA ObserverLeft ==
  ASSUME ObserverInv, UNCHANGED observerVars
  PROVE  ObserverInv'
<1>1. UNCHANGED <<seen, pending, exchanges, events>>
  BY DEF observerVars
<1>2. /\ \A l : Seen(l)' = Seen(l)
      /\ \A part, m : Happened(part, m)' = Happened(part, m)
      /\ \A m : Pending(m)' = Pending(m)
  BY <1>1 DEF Seen, Happened, Pending
<1>3. \A m : Forgotten(m)' = Forgotten(m)
  BY <1>1, <1>2 DEF Forgotten, Notification, Unreadable
<1>4. \A m : Excused(m)' = Excused(m)
  BY <1>2, <1>3 DEF Excused
<1>5. ObserverShape' /\ SeenOnce'
  BY <1>1 DEF ObserverInv, ObserverShape, SeenOnce
<1>6. EventsFit'
  BY <1>2 DEF ObserverInv, EventsFit, Unreadable
<1>7. RepliesOwn'
  BY <1>1, <1>2 DEF ObserverInv, RepliesOwn
<1>8. PendingFit'
  <2> DEFINE h == [p \in DOMAIN pending |-> p]
  <2>1. \A p \in DOMAIN pending : h[p] = p
    OBVIOUS
  <2> HIDE DEF h
  <2>2. PendingFit
    BY DEF ObserverInv
  <2>3. QED
    BY <1>1, <1>2, <2>1, <2>2, TableStays
<1>9. RequestsKept'
  BY <1>2, <1>3 DEF ObserverInv, RequestsKept, Asks, Notification
<1>10. RepliesAccounted'
  BY <1>2, <1>4 DEF ObserverInv, RepliesAccounted
<1>11. QED
  BY <1>5, <1>6, <1>7, <1>8, <1>9, <1>10 DEF ObserverInv

LEMMA TapInitially ==
  ASSUME TapInit
  PROVE  TapInv
<1>1. LinesShape
  BY TapAssumption DEF TapInit, LinesShape
<1>2. \A l : ~IsHeld(l) /\ ~InQueue(l) /\ Seen(l) = {}
  BY DEF TapInit, IsHeld, InQueue, Seen
<1>3. HandsFit
  BY DEF TapInit, HandsFit
<1>4. WaitsOnce /\ NoneAstray /\ PassedFits
  BY <1>2 DEF TapInit, WaitsOnce, NoneAstray, PassedFits
<1>5. ObserverShape /\ SeenOnce
  BY TapAssumption DEF TapInit, ObserverShape, SeenOnce
<1>6. \A part, m : Happened(part, m) = {}
  BY DEF TapInit, Happened
<1>7. EventsFit /\ RepliesOwn
  BY <1>2, <1>6 DEF EventsFit, RepliesOwn
<1>8. PendingFit
  BY DEF TapInit, PendingFit
<1>9. RequestsKept /\ RepliesAccounted
  BY <1>2 DEF RequestsKept, RepliesAccounted
<1>10. ExitInv
  BY DEF TapInit, ExitInv
<1>11. QED
  BY <1>1, <1>3, <1>4, <1>5, <1>7, <1>8, <1>9, <1>10 DEF TapInv, LinesInv, ObserverInv

LEMMA TailFacts ==
  ASSUME NEW S, NEW s \in Seq(S), s # << >>, NEW t, t = Tail(s)
  PROVE  /\ Len(s) \in Nat \ {0} /\ DOMAIN s = 1 .. Len(s) /\ Head(s) = s[1]
         /\ t \in Seq(S) /\ Len(t) = Len(s) - 1 /\ DOMAIN t = 1 .. Len(s) - 1
         /\ \A i \in 1 .. Len(s) - 1 : t[i] = s[i + 1]
OBVIOUS

\* The end changes nothing of what is on its way.
LEMMA EndStep ==
  ASSUME LinesInv, UNCHANGED <<transport, hand, passed, missed, seen>>,
         end' \in {"run", "stopping", "joined", "stopped", "over"},
         \/ UNCHANGED queue
         \/ Len(queue) < MaxQueue /\ queue' = Append(queue, Stop)
         \/ queue # << >> /\ Head(queue) = Stop /\ queue' = Tail(queue)
  PROVE  LinesInv'
<1>1. /\ LinesShape /\ HandsFit /\ WaitsOnce /\ NoneAstray /\ PassedFits /\ QueueDistinct
  BY DEF LinesInv, WaitsOnce, QueueDistinct
<1>2. /\ queue' \in Seq(Lines \cup {Stop}) /\ Len(queue') <= MaxQueue /\ QueueDistinct'
      /\ \A l \in Lines : InQueue(l)' <=> InQueue(l)
  <2>1. CASE UNCHANGED queue
    BY <1>1, <2>1 DEF LinesShape, QueueDistinct, InQueue
  <2>2. CASE Len(queue) < MaxQueue /\ queue' = Append(queue, Stop)
    <3>1. Stop \in Lines \cup {Stop}
      OBVIOUS
    <3>2. QED
      BY <1>1, <2>2, <3>1, PutFacts, StopIsNoLine
  <2>3. CASE queue # << >> /\ Head(queue) = Stop /\ queue' = Tail(queue)
    <3>7. queue \in Seq(Lines \cup {Stop}) /\ Len(queue) <= MaxQueue /\ MaxQueue \in Nat
      BY <1>1, TapAssumption DEF LinesShape
    <3> DEFINE S == Lines \cup {Stop}
    <3> HIDE DEF S
    <3>8. queue \in Seq(S)
      BY <3>7 DEF S
    <3>9. /\ Len(queue) \in Nat \ {0} /\ DOMAIN queue = 1 .. Len(queue) /\ Head(queue) = queue[1]
          /\ queue' \in Seq(S) /\ Len(queue') = Len(queue) - 1 /\ DOMAIN queue' = 1 .. Len(queue) - 1
          /\ \A i \in 1 .. Len(queue) - 1 : queue'[i] = queue[i + 1]
      BY <2>3, <3>8, TailFacts
    <3>1. /\ Len(queue) <= MaxQueue /\ MaxQueue \in Nat
          /\ Len(queue) \in Nat \ {0} /\ DOMAIN queue = 1 .. Len(queue) /\ queue[1] = Stop
      BY <2>3, <3>7, <3>9
    <3>2. /\ queue' \in Seq(Lines \cup {Stop}) /\ Len(queue') = Len(queue) - 1
          /\ DOMAIN queue' = 1 .. Len(queue) - 1
          /\ \A i \in 1 .. Len(queue) - 1 : queue'[i] = queue[i + 1]
      BY <3>9 DEF S
    <3>3. QueueDistinct'
      <4> SUFFICES ASSUME NEW i \in DOMAIN queue', NEW j \in DOMAIN queue',
                          queue'[i] = queue'[j], queue'[i] # Stop
                   PROVE  i = j
        BY DEF QueueDistinct
      <4>1. /\ i + 1 \in DOMAIN queue /\ j + 1 \in DOMAIN queue /\ i \in Nat /\ j \in Nat
            /\ queue'[i] = queue[i + 1] /\ queue'[j] = queue[j + 1]
        BY ONLY <3>1, <3>2, i \in DOMAIN queue', j \in DOMAIN queue'
      <4>2. i + 1 = j + 1
        BY <1>1, <4>1 DEF QueueDistinct
      <4>3. QED
        BY <4>1, <4>2
    <3>4. ASSUME NEW l \in Lines PROVE InQueue(l)' <=> InQueue(l)
      <4>1. ASSUME NEW i \in DOMAIN queue', queue'[i] = l PROVE InQueue(l)
        <5>1. i + 1 \in DOMAIN queue /\ queue[i + 1] = l
          BY ONLY <3>1, <3>2, <4>1, i \in DOMAIN queue'
        <5>2. QED
          BY <5>1 DEF InQueue
      <4>2. ASSUME NEW i \in DOMAIN queue, queue[i] = l PROVE InQueue(l)'
        <5>1. i # 1
          BY <3>1, <4>2, StopIsNoLine
        <5>2. i - 1 \in DOMAIN queue' /\ queue'[i - 1] = l
          BY ONLY <3>1, <3>2, <4>2, <5>1, i \in DOMAIN queue
        <5>3. QED
          BY <5>2 DEF InQueue
      <4>3. QED
        BY <4>1, <4>2 DEF InQueue
    <3>5. Len(queue') <= MaxQueue
      BY ONLY <3>1, <3>2
    <3>6. QED
      BY <3>2, <3>3, <3>4, <3>5
  <2>4. QED
    BY <2>1, <2>2, <2>3
<1>3. \A l : IsHeld(l)' = IsHeld(l) /\ Seen(l)' = Seen(l) /\ ThreadOf(l)' = ThreadOf(l)
  BY DEF IsHeld, Seen, ThreadOf
<1>4. LinesShape'
  BY <1>1, <1>2 DEF LinesShape
<1>5. HandsFit'
  BY <1>1, <1>3 DEF HandsFit
<1>6. WaitsOnce'
  BY <1>1, <1>2, <1>3 DEF WaitsOnce, QueueDistinct
<1>7. NoneAstray'
  BY <1>1, <1>2, <1>3 DEF NoneAstray, LinesShape
<1>8. PassedFits'
  BY <1>1 DEF PassedFits, Notification
<1>9. QED
  BY <1>4, <1>5, <1>6, <1>7, <1>8 DEF LinesInv

\* The queue while nothing is put into it but the end mark.
LEMMA MarkStays ==
  ASSUME queue \in Seq(Lines \cup {Stop}), queue # << >>, queue' = Tail(queue),
         \A i \in DOMAIN queue : queue[i] \in Lines /\ DirectionOf(queue[i]) = "s2c" =>
           \E j \in DOMAIN queue : i < j /\ queue[j] = Stop
  PROVE  \A i \in DOMAIN queue' : queue'[i] \in Lines /\ DirectionOf(queue'[i]) = "s2c" =>
           \E j \in DOMAIN queue' : i < j /\ queue'[j] = Stop
<1>1. /\ Len(queue) \in Nat /\ DOMAIN queue = 1 .. Len(queue) /\ DOMAIN queue' = 1 .. Len(queue) - 1
      /\ \A i \in 1 .. Len(queue) - 1 : queue'[i] = queue[i + 1]
  OBVIOUS
<1> SUFFICES ASSUME NEW i \in DOMAIN queue', queue'[i] \in Lines, DirectionOf(queue'[i]) = "s2c"
             PROVE  \E j \in DOMAIN queue' : i < j /\ queue'[j] = Stop
  OBVIOUS
<1>2. \A l : DirectionOf(l)' = DirectionOf(l)
  BY DEF DirectionOf, Other
<1> DEFINE k == i + 1
<1>3. k \in DOMAIN queue /\ queue[k] = queue'[i]
  BY <1>1
<1> HIDE DEF k
<1>4. PICK j \in DOMAIN queue : k < j /\ queue[j] = Stop
  BY <1>2, <1>3
<1>5. j - 1 \in DOMAIN queue' /\ i < j - 1 /\ queue'[j - 1] = Stop
  BY <1>1, <1>4 DEF k
<1>6. QED
  BY <1>5

\* A line of the client, or of a pump that was waited for in vain, may stand anywhere.
LEMMA MarkBehind ==
  ASSUME queue \in Seq(Lines \cup {Stop}), NEW l, DirectionOf(l) # "s2c" \/ l \notin Lines,
         queue' = queue \/ queue' = Append(queue, l),
         \A i \in DOMAIN queue : queue[i] \in Lines /\ DirectionOf(queue[i]) = "s2c" =>
           \E j \in DOMAIN queue : i < j /\ queue[j] = Stop
  PROVE  \A i \in DOMAIN queue' : queue'[i] \in Lines /\ DirectionOf(queue'[i]) = "s2c" =>
           \E j \in DOMAIN queue' : i < j /\ queue'[j] = Stop
<1>1. \A k : DirectionOf(k)' = DirectionOf(k)
  BY DEF DirectionOf, Other
<1>2. CASE queue' = queue
  BY <1>1, <1>2
<1>3. CASE queue' = Append(queue, l)
  <2>1. /\ \A i \in DOMAIN queue : i \in DOMAIN queue' /\ queue'[i] = queue[i]
        /\ \A i \in DOMAIN queue' : i \in DOMAIN queue \/ queue'[i] = l
    BY <1>3
  <2>2. QED
    BY <1>1, <2>1
<1>4. QED
  BY <1>2, <1>3

\* What waits when the process ends had its chance, or was the client's.
LEMMA ExitStep ==
  ASSUME LinesInv, ExitInv, TapNext
  PROVE  ExitInv'
<1>1. LinesShape /\ HandsFit
  BY DEF LinesInv
<1>2. queue \in Seq(Lines \cup {Stop}) /\ hand \in [Threads -> SUBSET Lines] /\ "s2c" \in Threads
  BY <1>1 DEF LinesShape, Threads, Directions
<1>3. ASSUME NEW line \in Lines, Pump(line) \/ _relay(line) PROVE ExitInv'
  <2>1. Carry(line) /\ (transport = "http" \/ Pumping(DirectionOf(line)))
    BY <1>3 DEF Pump, _relay, Forwarded
  <2>2. CASE transport = "http"
    BY <2>1, <2>2 DEF Carry, ExitInv
  <2>3. CASE transport # "http"
    <3>1. transport = "stdio" /\ ThreadOf(line) = DirectionOf(line)
      BY <1>1, <2>3 DEF LinesShape, ThreadOf
    <3>2. UNCHANGED <<transport, queue, end, hasty>> /\ \A l : DirectionOf(l)' = DirectionOf(l)
      BY <2>1 DEF Carry, DirectionOf, Other
    <3>3. end \in {"joined", "stopped", "over"} /\ ~hasty => hand["s2c"]' = hand["s2c"]
      BY <1>2, <2>1, <2>3, <3>1 DEF Carry, Pumping
    <3>4. QED
      BY <3>2, <3>3 DEF ExitInv
  <2>4. QED
    BY <2>2, <2>3
<1>4. ASSUME NEW t \in Threads, _observe(t) PROVE ExitInv'
  <2>1. PICK line \in hand[t] : Put(line) /\ hand' = [hand EXCEPT ![t] = {}]
    BY <1>4 DEF _observe
  <2>2. UNCHANGED <<transport, end, hasty>>
    BY <1>4 DEF _observe
  <2>3. t = ThreadOf(line) /\ line \in Lines
    BY <1>1, <1>2, <2>1 DEF HandsFit
  <2>4. hand["s2c"] = {} => hand["s2c"]' = {} /\ t # "s2c"
    BY <1>2, <2>1
  <2>5. ASSUME end \in {"stopped", "over"}, ~hasty
        PROVE  \A i \in DOMAIN queue' : queue'[i] \in Lines /\ DirectionOf(queue'[i]) = "s2c" =>
                 \E j \in DOMAIN queue' : i < j /\ queue'[j] = Stop
    <3>1. DirectionOf(line) # "s2c"
      BY <2>3, <2>4, <2>5 DEF ExitInv, ThreadOf
    <3>2. queue' = queue \/ queue' = Append(queue, line)
      BY <2>1 DEF Put
    <3>3. QED
      BY <1>2, <2>5, <3>1, <3>2, MarkBehind DEF ExitInv
  <2>6. QED
    BY <2>2, <2>4, <2>5 DEF ExitInv
<1>5. ASSUME NEW m \in Messages, Post(m) \/ _incomplete(m) PROVE ExitInv'
  <2>1. transport = "http" /\ UNCHANGED <<transport, end, hasty>>
    BY <1>5 DEF Post, _incomplete, Forwarded, Carry
  <2>2. QED
    BY <2>1 DEF ExitInv
<1>6. CASE observe
  <2>1. queue # << >> /\ queue' = Tail(queue) /\ UNCHANGED <<transport, hand, end, hasty>>
    BY <1>6 DEF observe
  <2>2. QED
    BY <1>2, <2>1, MarkStays DEF ExitInv
<1>7. CASE ChildExits \/ Join
  BY <1>7 DEF ChildExits, Join, ExitInv
<1>8. CASE PutStop
  <2>1. /\ end = "joined" /\ end' = "stopped" /\ queue' = Append(queue, Stop)
        /\ UNCHANGED <<transport, hand, hasty>>
    BY <1>8 DEF PutStop
  <2>2. ASSUME NEW i \in DOMAIN queue', queue'[i] \in Lines
        PROVE  \E j \in DOMAIN queue' : i < j /\ queue'[j] = Stop
    <3>1. /\ Len(queue) \in Nat /\ DOMAIN queue' = 1 .. Len(queue) + 1
          /\ queue'[Len(queue) + 1] = Stop
      BY <1>2, <2>1
    <3>2. i # Len(queue) + 1
      BY <2>2, <3>1, StopIsNoLine
    <3>3. i < Len(queue) + 1 /\ Len(queue) + 1 \in DOMAIN queue'
      BY <3>1, <3>2
    <3>4. QED
      BY <3>1, <3>3
  <2>3. QED
    BY <2>1, <2>2 DEF ExitInv
<1>9. CASE TakeStop
  <2>1. queue # << >> /\ queue' = Tail(queue) /\ UNCHANGED <<transport, hand, end, hasty>>
    BY <1>9 DEF TakeStop
  <2>2. QED
    BY <1>2, <2>1, MarkStays DEF ExitInv
<1>10. CASE TapExits
  <2>1. end = "stopped" /\ end' = "over" /\ UNCHANGED <<transport, hand, queue, hasty>>
    BY <1>10 DEF TapExits
  <2>2. \A l : DirectionOf(l)' = DirectionOf(l)
    BY DEF DirectionOf, Other
  <2>3. QED
    BY <2>1, <2>2 DEF ExitInv
<1>11. QED
  BY <1>3, <1>4, <1>5, <1>6, <1>7, <1>8, <1>9, <1>10 DEF TapNext

LEMMA TapInvariant == TapSpec => []TapInv
<1>1. TapInit => TapInv
  BY TapInitially
<1>2. TapInv /\ [TapNext]_tapVars => TapInv'
  <2> SUFFICES ASSUME TapInv, [TapNext]_tapVars
               PROVE  TapInv'
    OBVIOUS
  <2>1. LinesInv /\ ObserverInv /\ ExitInv
    BY DEF TapInv
  <2>2. ASSUME NEW line \in Lines, Carry(line),
               line[2] = "reply" => ~Notification(line[1]), line[2] # "auth"
        PROVE  LinesInv' /\ ObserverInv'
    <3>1. UNCHANGED observerVars
      BY <2>2 DEF Carry
    <3>2. QED
      BY <2>1, <2>2, <3>1, PassStep, ObserverLeft
  <2>9. ASSUME NEW line \in Lines, Pump(line) \/ _relay(line)
        PROVE  LinesInv' /\ ObserverInv'
    <3>1. Carry(line) /\ (line[2] = "reply" => ~Notification(line[1])) /\ line[2] # "auth"
      BY <2>9 DEF Pump, _relay
    <3>2. QED
      BY <2>2, <3>1
  <2>10. ASSUME NEW m \in Messages, _incomplete(m)
         PROVE  LinesInv' /\ ObserverInv'
    <3> DEFINE line == <<m, "failure">>
    <3>1. line \in Lines /\ line[2] = "failure" /\ Carry(line)
      BY <2>10 DEF _incomplete, Lines, Parts
    <3> HIDE DEF line
    <3>2. QED
      BY <2>2, <3>1
  <2>3. ASSUME NEW t \in Threads, _observe(t)
        PROVE  LinesInv' /\ ObserverInv'
    <3>1. UNCHANGED observerVars
      BY <2>3 DEF _observe
    <3>2. QED
      BY <2>1, <2>3, <3>1, _observeStep, ObserverLeft
  <2>4. ASSUME NEW m \in Messages, Post(m)
        PROVE  LinesInv' /\ ObserverInv'
    <3>1. UNCHANGED observerVars
      BY <2>4 DEF Post
    <3>2. QED
      BY <2>1, <2>4, <3>1, PostStep, ObserverLeft
  <2>5. ASSUME observe PROVE LinesInv' /\ ObserverInv'
    BY <2>1, <2>5, observeStep
  <2>6. ASSUME ChildExits \/ Join \/ PutStop \/ TakeStop \/ TapExits
        PROVE  LinesInv' /\ ObserverInv'
    <3>1. /\ UNCHANGED <<transport, hand, passed, missed, seen>> /\ UNCHANGED observerVars
          /\ end' \in {"run", "stopping", "joined", "stopped", "over"}
          /\ \/ UNCHANGED queue
             \/ Len(queue) < MaxQueue /\ queue' = Append(queue, Stop)
             \/ queue # << >> /\ Head(queue) = Stop /\ queue' = Tail(queue)
      BY <2>6 DEF ChildExits, Join, PutStop, TakeStop, TapExits, observerVars
    <3>2. LinesInv'
      BY <2>1, <3>1, EndStep
    <3>3. QED
      BY <2>1, <3>1, <3>2, ObserverLeft
  <2>7. CASE UNCHANGED tapVars
    <3>1. /\ UNCHANGED <<transport, hand, passed, missed, seen, queue, end, hasty>>
          /\ UNCHANGED observerVars
          /\ end' \in {"run", "stopping", "joined", "stopped", "over"}
      BY <2>1, <2>7 DEF tapVars, observerVars, LinesInv, LinesShape
    <3>2. LinesInv' /\ ObserverInv'
      BY <2>1, <3>1, EndStep, ObserverLeft
    <3>3. \A l : DirectionOf(l)' = DirectionOf(l)
      BY DEF DirectionOf, Other
    <3>4. ExitInv'
      BY <2>1, <3>1, <3>3 DEF ExitInv
    <3>5. QED
      BY <3>2, <3>4 DEF TapInv
  <2>8. ASSUME TapNext PROVE TapInv'
    <3>1. ExitInv'
      BY <2>1, <2>8, ExitStep
    <3>2. LinesInv' /\ ObserverInv'
      BY <2>3, <2>4, <2>5, <2>6, <2>8, <2>9, <2>10 DEF TapNext
    <3>3. QED
      BY <3>1, <3>2 DEF TapInv
  <2>11. QED
    BY <2>7, <2>8
<1>3. QED
  BY <1>1, <1>2, PTL DEF TapSpec

\* The tap keeps to its types: a pump holds one line at most, and the table of pending
\* requests is never longer than its limit (observer.py:164-167).
THEOREM TapTypes == TapSpec => []TapTypeOK
<1>1. TapInv => TapTypeOK
  <2> SUFFICES ASSUME TapInv PROVE TapTypeOK
    OBVIOUS
  <2>1. LinesShape /\ HandsFit /\ ObserverShape
    BY DEF TapInv, LinesInv, ObserverInv
  <2>2. ASSUME NEW t \in Threads PROVE Cardinality(hand[t]) <= 1
    <3>1. CASE hand[t] = {}
      BY <3>1, FS_EmptySet
    <3>2. CASE hand[t] # {}
      <4>1. PICK l \in hand[t] : hand[t] = {l}
        BY <2>1, <3>2 DEF HandsFit
      <4>2. Cardinality({l}) = 1
        BY FS_Singleton
      <4>3. QED
        BY <4>1, <4>2
    <3>3. QED
      BY <3>1, <3>2
  <2>3. \A i \in DOMAIN pending : pending[i][2] \in Messages
    BY <2>1, PendingFields
  <2>4. QED
    BY <2>1, <2>2, <2>3 DEF TapTypeOK, LinesShape, ObserverShape, TapInv, ExitInv
<1>2. QED
  BY <1>1, TapInvariant, PTL

\* A recorded reply is that of its own request, comes after it and comes once, although
\* both sides number their requests alike and the table forgets (observer.py:205-264).
THEOREM RepliesFitRequests == TapSpec => []RepliesFit
<1>1. TapInv => RepliesFit
  <2> SUFFICES ASSUME TapInv, NEW i \in DOMAIN events, events[i].part = "reply"
               PROVE  /\ events[i].of = events[i].m
                      /\ Happened("reply", events[i].m) = {i}
                      /\ \E j \in Happened("request", events[i].m) : j < i
    BY DEF RepliesFit
  <2>1. ObserverShape /\ EventsFit /\ RepliesOwn
    BY DEF TapInv, ObserverInv
  <2> DEFINE m == events[i].m
             l == <<m, "reply">>
  <2>2. m \in Messages
    BY <2>1, EventFields
  <2>3. i \in Happened("reply", m)
    BY DEF Happened
  <2> HIDE DEF m
  <2>4. l \in Lines /\ l[1] = m /\ l[2] = "reply"
    BY <2>2 DEF Lines, Parts
  <2>5. \A j, k \in Happened("reply", m) : j = k
    <3> HIDE DEF l
    <3> QED
      BY <2>1, <2>4 DEF EventsFit
  <2>6. Happened("reply", m) = {i}
    BY <2>3, <2>5
  <2>7. events[i].of = m /\ \E j \in Happened("request", m) : j < i
    BY <2>1, <2>2, <2>3 DEF RepliesOwn
  <2>8. QED
    BY <2>6, <2>7 DEF m
<1>2. QED
  BY <1>1, TapInvariant, PTL

\* Every line that was passed on is recorded, waits in a tap that still runs, or is lost
\* for one of seven reasons; when the process ends, none is left behind that it had not
\* waited for in vain, but those of the client (pump.py:65-115, cli.py:41-52,
\* observer.py:164-167, 195-215, 281-288).
THEOREM LossesExplained == TapSpec => []LossHasCause
<1>1. TapInv => LossHasCause
  <2> SUFFICES ASSUME TapInv, NEW line \in passed, line \notin missed, ~Unreadable(line),
                      Happened(line[2], line[1]) = {}, ~(Waiting(line) /\ end # "over"),
                      ~LeftBehind(line)
               PROVE  /\ line[2] = "reply"
                      /\ \/ Seen(<<line[1], "request">>) = {}
                         \/ \E i \in Seen(line), j \in Seen(<<line[1], "request">>) : i < j
                         \/ Forgotten(line[1])
                         \/ Shape[line[1]].kind = "odd"
    BY DEF LossHasCause
  <2>1. LinesInv /\ EventsFit /\ RepliesAccounted /\ ExitInv
    BY DEF TapInv, ObserverInv
  <2>2. line \in Lines
    BY <2>1 DEF LinesInv, LinesShape
  <2>3. ~Waiting(line)
    <3> SUFFICES ASSUME Waiting(line), end = "over"
                 PROVE  FALSE
      OBVIOUS
    <3>1. DirectionOf(line) # "c2s" /\ ~hasty
      BY DEF LeftBehind
    <3>2. DirectionOf(line) = "s2c"
      <4>1. line[1] \in Messages
        BY <2>2, LinePair
      <4>2. QED
        BY <3>1, <4>1, TapAssumption DEF DirectionOf, Other, Directions
    <3>3. transport = "stdio" /\ hand["s2c"] = {}
      BY <2>1, <3>1 DEF ExitInv
    <3>4. \A t \in Threads : line \notin hand[t]
      BY <2>1, <3>2, <3>3 DEF LinesInv, HandsFit, ThreadOf
    <3>5. PICK i \in DOMAIN queue : queue[i] = line
      BY <3>4 DEF Waiting
    <3>6. \E j \in DOMAIN queue : i < j /\ queue[j] = Stop
      BY <2>1, <2>2, <3>1, <3>2, <3>5 DEF ExitInv
    <3>7. QED
      BY <3>5, <3>6 DEF LeftBehind
  <2>4. Seen(line) # {}
    BY <2>1, <2>3 DEF LinesInv, NoneAstray, Waiting, IsHeld, InQueue
  <2>5. line[2] = "reply"
    BY <2>1, <2>2, <2>4 DEF EventsFit
  <2> DEFINE m == line[1]
  <2>6. m \in Messages /\ line = <<m, "reply">>
    BY <2>2, <2>5, LinePair
  <2>10. Shape[m].kind # "junk"
    BY <2>5 DEF Unreadable
  <2> HIDE DEF m
  <2>7. Happened("reply", m) = {} /\ Seen(<<m, "reply">>) # {}
    BY <2>4, <2>6
  <2>8. Excused(m)
    BY <2>1, <2>6, <2>7 DEF RepliesAccounted
  <2>9. QED
    BY <2>5, <2>6, <2>8, <2>10 DEF Excused, m
<1>2. QED
  BY <1>1, TapInvariant, PTL

-----------------------------------------------------------------------------
(* Types of the rules. *)

ActRec == [act : Acts, day : 0 .. MaxToday]

Operations == {Act[a].operation : a \in Acts}

Credentials == {Act[a].credential : a \in Acts}

BaselineRec ==
  [days : Int, sessions : Nat, operations : SUBSET Operations, credentials : SUBSET Credentials]

LookSteps == {"none", "facts", "tools", "baseline", "judge", "over"}

ChangeRec == [days : Int, sessions : Nat]

LookRec ==
  [at : LookSteps, found : SUBSET Candidates, changed : SUBSET ChangeRec, poisoned : BOOLEAN,
   baseline : BaselineRec, read : Nat, upto : Nat, judged : Nat, cut : BOOLEAN,
   blind : BOOLEAN]

Tools == UNION {DOMAIN Act[a].tools : a \in Acts}

Digests == UNION {{Act[a].tools[t] : t \in DOMAIN Act[a].tools} : a \in Acts}

DefinitionRec ==
  [tool : Tools, digest : Digests, first : Nat, last : Nat, sessions : Nat, live : BOOLEAN]

\* The record is in the order of its days.
RecordShape ==
  /\ today \in 0 .. MaxToday
  /\ acts \in Seq(ActRec)
  /\ \A i \in DOMAIN acts : acts[i].day <= today

DetectionShape ==
  /\ RecordShape
  /\ graph \in [scanned : BOOLEAN, flagged : BOOLEAN, allowed : SUBSET ResourceRefs, prod : BOOLEAN]
  /\ definitions \in SUBSET DefinitionRec
  /\ \A d \in definitions : d.first <= d.last /\ d.last <= today
  /\ look \in [Acts -> LookRec]

\* The fields of an entry of the record.
LEMMA ActFields ==
  ASSUME RecordShape, NEW i \in DOMAIN acts
  PROVE  /\ acts[i] \in ActRec /\ acts[i].act \in Acts /\ acts[i].day \in 0 .. MaxToday
         /\ acts[i].day \in Nat /\ i \in 1 .. Len(acts) /\ Len(acts) \in Nat /\ today \in Nat
<1>1. acts[i] \in ActRec /\ i \in 1 .. Len(acts) /\ Len(acts) \in Nat
  BY DEF RecordShape
<1>2. acts[i].act \in Acts /\ acts[i].day \in 0 .. MaxToday
  BY <1>1, Zenon DEF ActRec
<1>3. today \in Nat
  BY DetectionAssumption DEF RecordShape
<1>4. QED
  BY <1>1, <1>2, <1>3, DetectionAssumption

\* Entries of the record are finitely many.
LEMMA EntriesFinite ==
  ASSUME RecordShape, NEW I \in SUBSET DOMAIN acts
  PROVE  IsFiniteSet(I) /\ Cardinality(I) \in Nat
<1>1. DOMAIN acts = 1 .. Len(acts) /\ Len(acts) \in Int /\ 1 \in Int
  BY DEF RecordShape
<1>2. IsFiniteSet(1 .. Len(acts))
  BY <1>1, FS_Interval
<1>3. QED
  BY <1>1, <1>2, FS_Subset, FS_CardinalityType

LEMMA SessionsFinite ==
  ASSUME RecordShape, NEW I \in SUBSET DOMAIN acts
  PROVE  IsFiniteSet(SessionsAt(I)) /\ Cardinality(SessionsAt(I)) \in Nat
<1>1. IsFiniteSet(I)
  BY EntriesFinite
<1> DEFINE f == [i \in I |-> ActAt(i).session]
           S == SessionsAt(I)
<1>2. f \in [I -> S] /\ \A x \in S : \E i \in I : f[i] = x
  BY DEF SessionsAt
<1> HIDE DEF f, S
<1>3. f \in Surjection(I, S)
  BY <1>2, Fun_IsSurj
<1>4. IsFiniteSet(S)
  BY <1>1, <1>3, FS_Surjection
<1>5. QED
  BY <1>4, FS_CardinalityType DEF S

\* The first day of some entries.
LEMMA FirstDay ==
  ASSUME RecordShape, NEW I \in SUBSET DOMAIN acts, I # {}
  PROVE  LET m == Min({acts[i].day : i \in I})
         IN  m \in Nat /\ \A i \in I : m <= acts[i].day
<1> DEFINE D == {acts[i].day : i \in I}
<1>1. D \in SUBSET Nat /\ D # {}
  BY ActFields
<1>2. \A i \in I : acts[i].day \in D
  OBVIOUS
<1> HIDE DEF D
<1>3. \E x \in D : \A y \in D : ~(<<y, x>> \in OpToRel(<, Nat))
  BY <1>1, NatLessThanWellFounded, WFMin
<1>4. \E x \in D : \A y \in D : ~(y < x)
  BY <1>1, <1>3, Zenon DEF OpToRel
<1>5. \E x \in D : \A y \in D : x <= y
  BY <1>1, <1>4
<1>6. Min(D) \in D /\ \A y \in D : Min(D) <= y
  BY <1>5, Zenon DEF Min
<1>7. QED
  BY <1>1, <1>2, <1>6 DEF D

\* The baseline is typed.
LEMMA BaselineTyped ==
  ASSUME RecordShape, NEW a \in Acts
  PROVE  build_baseline(a) \in BaselineRec
<1> DEFINE I == Others(a, BASELINE_WINDOW_DAYS)
<1>1. I \in SUBSET DOMAIN acts
  BY DEF Others, Entries
<1>2. Cardinality(SessionsAt(I)) \in Nat
  <2> HIDE DEF I
  <2> QED
    BY <1>1, SessionsFinite
<1>3. \A i \in I : ActAt(i).operation \in Operations /\ ActAt(i).credential \in Credentials
  BY <1>1, ActFields DEF ActAt, Operations, Credentials
<1>4. (IF I = {} THEN 0 ELSE today - Min({acts[i].day : i \in I})) \in Int
  <2>1. today \in Int
    BY DetectionAssumption DEF RecordShape
  <2>2. CASE I = {}
    BY <2>2
  <2>3. CASE I # {}
    <3> DEFINE m == Min({acts[i].day : i \in I})
    <3> HIDE DEF I
    <3>1. m \in Nat
      BY <1>1, <2>3, FirstDay
    <3> HIDE DEF m
    <3>2. today - m \in Int
      BY <2>1, <3>1
    <3>3. QED
      BY <2>3, <3>2 DEF m
  <2>4. QED
    BY <2>2, <2>3
<1>5. {ActAt(i).operation : i \in I} \in SUBSET Operations
      /\ {ActAt(i).credential : i \in I} \ {NoCredential} \in SUBSET Credentials
  BY <1>3
<1>6. build_baseline(a) =
        [days |-> IF I = {} THEN 0 ELSE today - Min({acts[i].day : i \in I}),
         sessions |-> Cardinality(SessionsAt(I)),
         operations |-> {ActAt(i).operation : i \in I},
         credentials |-> {ActAt(i).credential : i \in I} \ {NoCredential}]
  BY DEF build_baseline
<1> HIDE DEF I
<1>7. QED
  BY <1>2, <1>4, <1>5, <1>6 DEF BaselineRec

-----------------------------------------------------------------------------
(* What an evaluation knows, and what it makes of it. *)

\* The action is in the record, once.
Once(a) == Recorded(a) # {} /\ \A i, j \in Recorded(a) : i = j

SessionsBefore(a, d) == {ActAt(i).session : i \in Before(a, d)}

\* HasHistory, on a day.
HistoryAt(a, d) ==
  /\ Cardinality(SessionsBefore(a, d)) >= MIN_BASELINE_SESSIONS
  /\ \E i \in Before(a, d) : acts[i].day + MIN_BASELINE_DAYS <= d

BetweenTo(a, u) == {i \in Place(a) + 1 .. u : ActAt(i).session # Act[a].session}

\* No other session has used the credential.
FirstUse(a, d, u) ==
  /\ Act[a].credential # NoCredential
  /\ \A i \in Before(a, d) \cup BetweenTo(a, u) : ActAt(i).credential # Act[a].credential

\* The other sessions have done all that before.
Usually(a, d) ==
  /\ \E i \in Before(a, d) : ActAt(i).operation = Act[a].operation
  /\ \A k \in KindsOf(Act[a].refs) : \E i \in Before(a, d) : k \in KindsOf(ActAt(i).refs)
  /\ Act[a].credential # NoCredential =>
       \E i \in Before(a, d) : ActAt(i).credential = Act[a].credential

\* A baseline that was read on day d, with u entries in the record.
Known(a, d, u, b) ==
  /\ HistoryAt(a, d) => established(b)
  /\ FirstUse(a, d, u) => NewCredential(a, b)
  /\ \A i \in Before(a, d) : /\ ActAt(i).operation \in b.operations
                             /\ ActAt(i).credential \in b.credentials \cup {NoCredential}

LEMMA PlaceOf ==
  ASSUME RecordShape, NEW a \in Acts, Once(a)
  PROVE  /\ Place(a) \in DOMAIN acts /\ Place(a) \in 1 .. Len(acts) /\ acts[Place(a)].act = a
         /\ \A i \in DOMAIN acts : acts[i].act = a => i = Place(a)
<1>1. \E i \in DOMAIN acts : acts[i].act = a
  BY DEF Once, Recorded
<1>2. Place(a) \in DOMAIN acts /\ acts[Place(a)].act = a
  BY <1>1, Zenon DEF Place
<1>3. \A i \in DOMAIN acts : acts[i].act = a => i = Place(a)
  BY <1>2 DEF Once, Recorded
<1>4. QED
  BY <1>2, <1>3 DEF RecordShape

LEMMA BeforeShape ==
  ASSUME RecordShape, NEW a \in Acts, Once(a), NEW d \in Nat
  PROVE  /\ Before(a, d) \in SUBSET DOMAIN acts
         /\ \A i \in Before(a, d) : /\ i \in DOMAIN acts /\ i < Place(a)
                                    /\ acts[i].day + BASELINE_WINDOW_DAYS >= d
                                    /\ ActAt(i).session # Act[a].session
<1>1. Place(a) \in 1 .. Len(acts) /\ DOMAIN acts = 1 .. Len(acts) /\ Len(acts) \in Nat
  BY PlaceOf DEF RecordShape
<1>2. QED
  BY <1>1 DEF Before

\* On the day on which the record is read, what is before the action is among the others.
LEMMA BeforeAmongOthers ==
  ASSUME RecordShape, NEW a \in Acts, Once(a)
  PROVE  Before(a, today) \subseteq Others(a, BASELINE_WINDOW_DAYS)
<1>1. today \in Nat
  BY DetectionAssumption DEF RecordShape
<1>2. QED
  BY <1>1, BeforeShape DEF Others, Entries

\* The baseline that is read says what happened before the action, and nothing that has
\* not happened before it was read.
LEMMA ReadKnows ==
  ASSUME RecordShape, NEW a \in Acts, Once(a)
  PROVE  Known(a, today, Len(acts), build_baseline(a))
<1> DEFINE I == Others(a, BASELINE_WINDOW_DAYS)
           B == Before(a, today)
           b == build_baseline(a)
<1>1. I \in SUBSET DOMAIN acts /\ \A i \in I : ActAt(i).session # Act[a].session
  BY DEF Others, Entries
<1>2. B \subseteq I
  BY BeforeAmongOthers
<1>3. today \in Nat /\ DOMAIN acts = 1 .. Len(acts) /\ Len(acts) \in Nat
  BY DetectionAssumption DEF RecordShape
<1>4. /\ b.days = IF I = {} THEN 0 ELSE today - Min({acts[i].day : i \in I})
      /\ b.sessions = Cardinality(SessionsAt(I))
      /\ b.operations = {ActAt(i).operation : i \in I}
      /\ b.credentials = {ActAt(i).credential : i \in I} \ {NoCredential}
  BY DEF build_baseline
<1> HIDE DEF I, b
<1>5. ASSUME HistoryAt(a, today) PROVE established(b)
  <2>1. PICK k \in B : acts[k].day + MIN_BASELINE_DAYS <= today
    BY <1>5 DEF HistoryAt
  <2>2. k \in I /\ I # {}
    BY <1>2, <2>1
  <2> DEFINE m == Min({acts[i].day : i \in I})
  <2>3. m \in Nat /\ m <= acts[k].day
    BY <1>1, <2>2, FirstDay
  <2>4. acts[k].day \in Nat
    BY <1>1, <2>2, ActFields
  <2>5. b.days = today - m
    BY <1>4, <2>2
  <2> HIDE DEF m
  <2>6. b.days >= MIN_BASELINE_DAYS
    BY <1>3, <2>1, <2>3, <2>4, <2>5 DEF MIN_BASELINE_DAYS
  <2>7. Cardinality(SessionsBefore(a, today)) <= Cardinality(SessionsAt(I))
    <3>1. SessionsBefore(a, today) \subseteq SessionsAt(I)
      BY <1>2 DEF SessionsBefore, SessionsAt
    <3>2. IsFiniteSet(SessionsAt(I))
      BY <1>1, SessionsFinite
    <3>3. QED
      BY <3>1, <3>2, FS_Subset
  <2>8. /\ Cardinality(SessionsAt(I)) \in Nat
        /\ SessionsBefore(a, today) = SessionsAt(B)
        /\ B \in SUBSET DOMAIN acts
    BY <1>1, <1>2, SessionsFinite DEF SessionsBefore, SessionsAt
  <2>9. Cardinality(SessionsBefore(a, today)) \in Nat
    BY <2>8, SessionsFinite
  <2>10. b.sessions >= MIN_BASELINE_SESSIONS
    BY <1>4, <1>5, <2>7, <2>8, <2>9 DEF HistoryAt, MIN_BASELINE_SESSIONS
  <2>11. QED
    BY <2>6, <2>10 DEF established
<1>6. ASSUME FirstUse(a, today, Len(acts)) PROVE NewCredential(a, b)
  <2>1. ASSUME NEW i \in I PROVE ActAt(i).credential # Act[a].credential
    <3>1. i \in DOMAIN acts /\ i \in 1 .. Len(acts) /\ ActAt(i).session # Act[a].session
      BY <1>1, <1>3
    <3>2. Place(a) \in 1 .. Len(acts) /\ acts[Place(a)].act = a
      BY PlaceOf
    <3>3. i # Place(a)
      BY <3>1, <3>2 DEF ActAt
    <3>4. CASE i < Place(a)
      <4>1. acts[i].day + BASELINE_WINDOW_DAYS >= today
        BY DEF I, Others, Entries
      <4>2. i \in 1 .. Place(a) - 1
        BY <3>1, <3>2, <3>4
      <4>3. i \in B
        BY <3>1, <4>1, <4>2 DEF Before
      <4>4. QED
        BY <1>6, <4>3 DEF FirstUse
    <3>5. CASE ~(i < Place(a))
      <4>1. i \in Place(a) + 1 .. Len(acts)
        BY <3>1, <3>2, <3>3, <3>5
      <4>2. i \in BetweenTo(a, Len(acts))
        BY <3>1, <4>1 DEF BetweenTo
      <4>3. QED
        BY <1>6, <4>2 DEF FirstUse
    <3>6. QED
      BY <3>4, <3>5
  <2>2. Act[a].credential # NoCredential
    BY <1>6 DEF FirstUse
  <2>3. QED
    BY <1>4, <2>1, <2>2 DEF NewCredential
<1>7. \A i \in B : /\ ActAt(i).operation \in b.operations
                   /\ ActAt(i).credential \in b.credentials \cup {NoCredential}
  BY <1>2, <1>4
<1>8. QED
  BY <1>5, <1>6, <1>7 DEF Known, b

\* An earlier window holds what a later one holds.
LEMMA WindowsShrink ==
  ASSUME RecordShape, NEW a \in Acts, Once(a), NEW d \in Nat, NEW j \in Nat, d <= j
  PROVE  Before(a, j) \subseteq Before(a, d)
<1>1. ASSUME NEW i \in Before(a, j) PROVE acts[i].day + BASELINE_WINDOW_DAYS >= d
  <2>1. acts[i].day + BASELINE_WINDOW_DAYS >= j /\ acts[i].day \in Nat
    BY BeforeShape, ActFields
  <2>2. QED
    BY <2>1 DEF BASELINE_WINDOW_DAYS
<1>2. QED
  BY <1>1 DEF Before

\* An action touches finitely many kinds of resources.
LEMMA KindsFinite ==
  ASSUME NEW a \in Acts
  PROVE  IsFiniteSet(KindsOf(Act[a].refs))
<1> DEFINE S == Act[a].refs
           f == [r \in S |-> KindOf[r]]
<1>1. IsFiniteSet(S)
  BY DetectionAssumption
<1>2. f \in Surjection(S, KindsOf(S))
  BY DEF Surjection, KindsOf
<1>3. QED
  BY <1>1, <1>2, FS_Surjection

\* What the score comes to.
LEMMA ScoresFit ==
  ASSUME RecordShape, NEW a \in Acts, Once(a), NEW d \in Nat, NEW u \in Nat, NEW b,
         Known(a, d, u, b), d <= today, NEW R
  PROVE  /\ NewCredential(a, b) => score(a, b, R) >= FIRE_AT_SCORE
         /\ Usually(a, today) /\ R = RefsSeen(a) => ~(score(a, b, R) >= FIRE_AT_SCORE)
<1> DEFINE K == KindsOf(Act[a].refs) \ KindsOf(R)
           p == Points(NewCredential(a, b), 3)
           q == Points(Act[a].operation \notin b.operations, 2)
           r == Points(UnusualHour(a), 1)
           n == Cardinality(K)
<1>1. n \in Nat
  <2>1. IsFiniteSet(K)
    BY KindsFinite, FS_Difference
  <2>2. QED
    BY <2>1, FS_CardinalityType
<1>2. /\ p \in Nat /\ q \in Nat /\ r \in Nat /\ r <= 1
      /\ (NewCredential(a, b) => p = 3) /\ (~NewCredential(a, b) => p = 0)
      /\ (Act[a].operation \in b.operations => q = 0)
  BY DEF Points
<1>3. score(a, b, R) = p + q + 2 * n + r
  BY DEF score
<1> HIDE DEF K, p, q, r, n
<1>4. ASSUME Usually(a, today), R = RefsSeen(a)
      PROVE  ~NewCredential(a, b) /\ Act[a].operation \in b.operations /\ n = 0
  <2>1. Before(a, today) \subseteq Before(a, d) /\ today \in Nat
    BY WindowsShrink, DetectionAssumption DEF RecordShape
  <2>2. Act[a].operation \in b.operations
    BY <1>4, <2>1 DEF Usually, Known
  <2>3. ~NewCredential(a, b)
    BY <1>4, <2>1 DEF Usually, Known, NewCredential
  <2>4. K = {}
    <3>1. \A k \in KindsOf(Act[a].refs) :
            \E i \in Others(a, BASELINE_WINDOW_DAYS) : k \in KindsOf(ActAt(i).refs)
      BY <1>4, BeforeAmongOthers DEF Usually
    <3>2. \A i \in Others(a, BASELINE_WINDOW_DAYS) : KindsOf(ActAt(i).refs) \subseteq KindsOf(R)
      BY <1>4 DEF KindsOf, RefsSeen
    <3>3. QED
      BY <3>1, <3>2 DEF K
  <2>5. n = 0
    BY <2>4, FS_EmptySet DEF n
  <2>6. QED
    BY <2>2, <2>3, <2>5
<1>5. QED
  BY <1>1, <1>2, <1>3, <1>4 DEF FIRE_AT_SCORE

\* Another action in the record changes nothing of what came before.
LEMMA RecordGrows ==
  ASSUME RecordShape, NEW a \in Acts, Once(a), NEW e \in ActRec, e.act # a, e.day = today,
         acts' = Append(acts, e), UNCHANGED today
  PROVE  /\ RecordShape' /\ Once(a)' /\ Place(a)' = Place(a)
         /\ \A i \in DOMAIN acts : i \in DOMAIN acts' /\ acts'[i] = acts[i] /\ ActAt(i)' = ActAt(i)
         /\ \A d \in Nat : Before(a, d)' = Before(a, d)
         /\ \A u \in 0 .. Len(acts) : BetweenTo(a, u)' = BetweenTo(a, u)
<1> DEFINE n == Len(acts) + 1
<1>1. /\ acts \in Seq(ActRec) /\ acts' \in Seq(ActRec) /\ Len(acts) \in Nat
      /\ DOMAIN acts = 1 .. Len(acts) /\ DOMAIN acts' = 1 .. n /\ acts'[n] = e
      /\ \A i \in DOMAIN acts : acts'[i] = acts[i]
  BY DEF RecordShape
<1>2. \A i \in DOMAIN acts' : i = n \/ i \in DOMAIN acts
  BY <1>1
<1>3. \A i \in DOMAIN acts : i \in DOMAIN acts'
  BY <1>1
<1> HIDE DEF n
<1>4. Recorded(a)' = Recorded(a)
  BY <1>1, <1>2, <1>3 DEF Recorded
<1>5. Once(a)'
  BY <1>4 DEF Once
<1>6. today \in Nat
  BY DetectionAssumption DEF RecordShape
<1>7. RecordShape'
  BY <1>1, <1>2, <1>6 DEF RecordShape
<1>8. Place(a) \in DOMAIN acts /\ acts[Place(a)].act = a
      /\ \A i \in DOMAIN acts : acts[i].act = a => i = Place(a)
  BY PlaceOf
<1>9. Place(a)' = Place(a)
  <2>1. Place(a)' \in DOMAIN acts' /\ acts'[Place(a)'].act = a
    <3>1. \E i \in DOMAIN acts' : acts'[i].act = a
      BY <1>1, <1>3, <1>8
    <3>2. QED
      BY <3>1, Zenon DEF Place
  <2>2. Place(a)' \in Recorded(a)'
    BY <2>1 DEF Recorded
  <2>3. QED
    BY <1>4, <1>8, <2>2 DEF Recorded
<1>10. \A i \in DOMAIN acts : i \in DOMAIN acts' /\ acts'[i] = acts[i] /\ ActAt(i)' = ActAt(i)
  BY <1>1, <1>3 DEF ActAt
<1>11. ASSUME NEW d \in Nat PROVE Before(a, d)' = Before(a, d)
  <2>1. \A i \in 1 .. Place(a) - 1 : i \in DOMAIN acts
    BY <1>1, <1>8
  <2>2. QED
    BY <1>9, <1>10, <2>1 DEF Before
<1>12. ASSUME NEW u \in 0 .. Len(acts) PROVE BetweenTo(a, u)' = BetweenTo(a, u)
  <2>1. \A i \in Place(a) + 1 .. u : i \in DOMAIN acts
    BY <1>1, <1>8
  <2>2. QED
    BY <1>9, <1>10, <2>1 DEF BetweenTo
<1>13. QED
  BY <1>5, <1>7, <1>9, <1>10, <1>11, <1>12

\* What is known stays known.
LEMMA KnownStays ==
  ASSUME RecordShape, NEW a \in Acts, Once(a), NEW d \in Nat,
         \/ UNCHANGED acts
         \/ \E e \in ActRec : e.act # a /\ e.day = today /\ acts' = Append(acts, e) /\ UNCHANGED today
  PROVE  /\ Once(a)' /\ (HistoryAt(a, d)' <=> HistoryAt(a, d)) /\ (Usually(a, d)' <=> Usually(a, d))
         /\ \A u \in 0 .. Len(acts) :
              /\ FirstUse(a, d, u)' <=> FirstUse(a, d, u)
              /\ \A b : Known(a, d, u, b)' <=> Known(a, d, u, b)
         /\ Len(acts) \in Nat /\ Len(acts') \in Nat /\ Len(acts) <= Len(acts')
<1>1. /\ Once(a)' /\ Before(a, d)' = Before(a, d)
      /\ \A i \in DOMAIN acts : acts'[i] = acts[i] /\ ActAt(i)' = ActAt(i)
      /\ \A u \in 0 .. Len(acts) : BetweenTo(a, u)' = BetweenTo(a, u)
  <2>1. CASE UNCHANGED acts
    BY <2>1 DEF Once, Recorded, Before, Place, ActAt, BetweenTo
  <2>2. CASE ~UNCHANGED acts
    BY <2>2, RecordGrows
  <2>3. QED
    BY <2>1, <2>2
<1>2. Before(a, d) \in SUBSET DOMAIN acts
  BY BeforeShape
<1>3. SessionsBefore(a, d)' = SessionsBefore(a, d)
  BY <1>1, <1>2 DEF SessionsBefore
<1>4. HistoryAt(a, d)' <=> HistoryAt(a, d)
  BY <1>1, <1>2, <1>3 DEF HistoryAt
<1>5. Usually(a, d)' <=> Usually(a, d)
  BY <1>1, <1>2 DEF Usually
<1>6. ASSUME NEW u \in 0 .. Len(acts)
      PROVE  FirstUse(a, d, u)' <=> FirstUse(a, d, u)
  <2>1. BetweenTo(a, u) \in SUBSET DOMAIN acts
    <3>1. Place(a) \in 1 .. Len(acts) /\ DOMAIN acts = 1 .. Len(acts) /\ Len(acts) \in Nat
      BY PlaceOf DEF RecordShape
    <3>2. QED
      BY <3>1 DEF BetweenTo
  <2>2. QED
    BY <1>1, <1>2, <2>1 DEF FirstUse
<1>7. ASSUME NEW u \in 0 .. Len(acts), NEW b
      PROVE  Known(a, d, u, b)' <=> Known(a, d, u, b)
  BY <1>1, <1>2, <1>4, <1>6 DEF Known, NewCredential
<1>8. Len(acts) \in Nat /\ Len(acts') \in Nat /\ Len(acts) <= Len(acts')
  BY DEF RecordShape
<1>9. QED
  BY <1>1, <1>4, <1>5, <1>6, <1>7, <1>8

-----------------------------------------------------------------------------
(* The evaluations keep their types. *)

LEMMA LookFields ==
  ASSUME DetectionShape, NEW a \in Acts
  PROVE  /\ look[a] \in LookRec /\ look[a].at \in LookSteps /\ look[a].found \in SUBSET Candidates
         /\ look[a].changed \in SUBSET ChangeRec /\ look[a].poisoned \in BOOLEAN
         /\ look[a].baseline \in BaselineRec /\ look[a].read \in Nat /\ look[a].upto \in Nat
         /\ look[a].judged \in Nat /\ look[a].cut \in BOOLEAN /\ look[a].blind \in BOOLEAN
<1>1. look[a] \in LookRec
  BY DEF DetectionShape
<1>2. QED
  BY <1>1, Zenon DEF LookRec

LEMMA EvaluateTyped ==
  \A a, facts : evaluate(a, facts) \in SUBSET Candidates
                /\ \A c \in evaluate(a, facts) : c.rule # "behavioral_deviation"
<1>1. \A P, r, s : r \in RuleIds /\ s \in {"critical", "high"} => If(P, r, s) \in SUBSET Candidates
  BY DEF If, Candidates
<1>2. \A P, r, s : \A c \in If(P, r, s) : c.rule = r
  BY DEF If
<1>3. QED
  BY <1>1, <1>2 DEF evaluate, RuleIds

LEMMA IntegrityTyped ==
  \A a : _tool_integrity(a) \in SUBSET Candidates
         /\ \A c \in _tool_integrity(a) : c.rule # "behavioral_deviation"
<1>1. \A P : /\ If(P, "tool_poisoning", "critical") \in SUBSET Candidates
             /\ \A c \in If(P, "tool_poisoning", "critical") : c.rule # "behavioral_deviation"
  BY DEF If, Candidates, RuleIds
<1>2. QED
  BY <1>1 DEF _tool_integrity, Candidates, RuleIds

LEMMA BehavioralTyped ==
  \A a, R : _behavioral(a, R) \in SUBSET Candidates
BY DEF _behavioral, If, Candidates, RuleIds

LEMMA LookChanges ==
  ASSUME DetectionShape, NEW a \in Acts, NEW r \in LookRec, look' = [look EXCEPT ![a] = r]
  PROVE  look' \in [Acts -> LookRec] /\ look'[a] = r /\ \A b \in Acts : b # a => look'[b] = look[b]
BY DEF DetectionShape

-----------------------------------------------------------------------------
(* The history of definitions. *)

DefinitionsShape(D, t0) ==
  D \in SUBSET DefinitionRec /\ \A d \in D : d.first <= d.last /\ d.last <= t0

LEMMA DefinitionFields ==
  ASSUME NEW d \in DefinitionRec
  PROVE  /\ d.tool \in Tools /\ d.digest \in Digests /\ d.first \in Nat /\ d.last \in Nat
         /\ d.sessions \in Nat /\ d.live \in BOOLEAN
BY Zenon DEF DefinitionRec

LEMMA ObservedTyped ==
  ASSUME RecordShape, DefinitionsShape(definitions, today), NEW a \in Acts,
         NEW t \in DOMAIN Act[a].tools, NEW n \in {0, 1}
  PROVE  DefinitionsShape(Observed(t, Act[a].tools[t], n), today)
<1> DEFINE g == Act[a].tools[t]
           same == {d \in DefinitionsOf(t) : d.digest = g}
<1>1. today \in Nat /\ n \in Nat
  BY DetectionAssumption DEF RecordShape
<1>2. t \in Tools /\ g \in Digests
  BY DEF Tools, Digests
<1> HIDE DEF g
<1>3. \A d \in DefinitionsOf(t) : /\ d \in DefinitionRec /\ d.first \in Nat /\ d.last \in Nat
                                  /\ d.sessions \in Nat /\ d.first <= d.last /\ d.last <= today
  BY DefinitionFields DEF DefinitionsOf, DefinitionsShape
<1>4. ASSUME NEW d \in DefinitionsOf(t)
      PROVE  LET e == [d EXCEPT !.live = FALSE]
             IN  e \in DefinitionRec /\ e.first <= e.last /\ e.last <= today
  <2>1. [d EXCEPT !.live = FALSE] \in DefinitionRec
    BY <1>3, Zenon DEF DefinitionRec
  <2>2. [d EXCEPT !.live = FALSE].first = d.first /\ [d EXCEPT !.live = FALSE].last = d.last
    BY <1>3 DEF DefinitionRec
  <2>3. QED
    BY <1>3, <2>1, <2>2
<1>5. ASSUME NEW d \in DefinitionsOf(t)
      PROVE  LET e == Again(d, n)
             IN  e \in DefinitionRec /\ e.first <= e.last /\ e.last <= today
  <2>1. d.sessions + n \in Nat
    BY <1>1, <1>3
  <2>2. [d EXCEPT !.live = TRUE, !.last = today, !.sessions = @ + n] \in DefinitionRec
    <3>1. [d EXCEPT !.live = TRUE] \in DefinitionRec
      BY <1>3, Zenon DEF DefinitionRec
    <3>2. d \in DefinitionRec /\ TRUE \in BOOLEAN
      BY <1>3
    <3>3. QED
      BY <1>1, <2>1, <3>2, Zenon DEF DefinitionRec
  <2>3. Again(d, n).first = d.first /\ Again(d, n).last = today
    BY <1>3 DEF DefinitionRec, Again
  <2>4. QED
    BY <1>1, <1>3, <2>2, <2>3 DEF Again
<1>6. LET e == New(t, g)
      IN  e \in DefinitionRec /\ e.first <= e.last /\ e.last <= today
  BY <1>1, <1>2 DEF New, DefinitionRec
<1>7. ASSUME NEW e \in Observed(t, g, n)
      PROVE  e \in DefinitionRec /\ e.first <= e.last /\ e.last <= today
  <2>1. \/ \E d \in DefinitionsOf(t) : e = [d EXCEPT !.live = FALSE]
        \/ e = New(t, g)
        \/ \E d \in DefinitionsOf(t) : e = Again(d, n)
    BY DEF Observed
  <2>2. QED
    BY <1>4, <1>5, <1>6, <2>1
<1>8. QED
  BY <1>7 DEF DefinitionsShape, g

LEMMA DefinitionsTyped ==
  ASSUME RecordShape, DefinitionsShape(definitions, today), NEW a \in Acts, NEW n \in {0, 1},
         definitions' = {d \in definitions : d.tool \notin DOMAIN Act[a].tools}
                        \cup UNION {Observed(t, Act[a].tools[t], n) : t \in DOMAIN Act[a].tools}
  PROVE  DefinitionsShape(definitions', today)
<1>1. \A t \in DOMAIN Act[a].tools : DefinitionsShape(Observed(t, Act[a].tools[t], n), today)
  BY ObservedTyped
<1>2. ASSUME NEW e \in definitions'
      PROVE  e \in DefinitionRec /\ e.first <= e.last /\ e.last <= today
  <2>1. CASE e \in definitions
    BY <2>1 DEF DefinitionsShape
  <2>2. CASE \E t \in DOMAIN Act[a].tools : e \in Observed(t, Act[a].tools[t], n)
    BY <1>1, <2>2 DEF DefinitionsShape
  <2>3. QED
    BY <2>1, <2>2
<1>3. QED
  BY <1>2 DEF DefinitionsShape

-----------------------------------------------------------------------------
(* The invariant of the rules. *)

Reported == [rule |-> "behavioral_deviation", severity |-> "critical"]

Quiet(C) == \A c \in C : c.rule # "behavioral_deviation"

\* What an evaluation that has read its baseline knows.
JudgeFits(a) ==
  \A d, u \in Nat : \A b : look[a].read = d /\ look[a].upto = u /\ look[a].baseline = b =>
    d <= today /\ u <= Len(acts) /\ Known(a, d, u, b)

\* What one that is over has come to.
ResultFits(a) ==
  \A d, u, j \in Nat : look[a].read = d /\ look[a].upto = u /\ look[a].judged = j =>
    /\ u <= Len(acts)
    /\ HistoryAt(a, d) /\ FirstUse(a, d, u) => Reported \in look[a].found
    /\ Usually(a, j) /\ ~look[a].cut => Quiet(look[a].found)

LookFits(a) ==
  /\ look[a].at = "none" => Recorded(a) = {}
  /\ look[a].at # "none" => Recorded(a) # {}
  /\ look[a].blind => look[a].at = "over"
  /\ look[a].at # "none" /\ ~look[a].blind => Once(a)
  /\ look[a].at \in {"tools", "baseline", "judge"} => Quiet(look[a].found)
  /\ look[a].at = "judge" => JudgeFits(a)
  /\ look[a].at = "over" /\ ~look[a].blind => ResultFits(a)

DetectionInv == DetectionShape /\ \A a \in Acts : LookFits(a)

\* Nothing that is done elsewhere changes what an evaluation has come to.
LEMMA LookStays ==
  ASSUME DetectionShape, NEW a \in Acts, LookFits(a), look'[a] = look[a],
         \/ UNCHANGED acts
         \/ \E e \in ActRec : e.act # a /\ e.day = today /\ acts' = Append(acts, e) /\ UNCHANGED today,
         today' \in Nat, today <= today'
  PROVE  LookFits(a)'
<1>1. RecordShape /\ today \in Nat
  BY DetectionAssumption DEF DetectionShape, RecordShape
<1>2. Recorded(a) = {} <=> Recorded(a)' = {}
  <2>1. CASE UNCHANGED acts
    BY <2>1 DEF Recorded
  <2>2. CASE \E e \in ActRec : e.act # a /\ e.day = today /\ acts' = Append(acts, e) /\ UNCHANGED today
    <3>1. PICK e \in ActRec : e.act # a /\ acts' = Append(acts, e)
      BY <2>2
    <3>2. /\ DOMAIN acts' = DOMAIN acts \cup {Len(acts) + 1} /\ acts'[Len(acts) + 1] = e
          /\ \A i \in DOMAIN acts : acts'[i] = acts[i]
      BY <1>1, <3>1 DEF RecordShape
    <3>3. QED
      BY <3>1, <3>2 DEF Recorded
  <2>3. QED
    BY <2>1, <2>2
<1>3. ASSUME Once(a), NEW d \in Nat
      PROVE  /\ Once(a)' /\ (HistoryAt(a, d)' <=> HistoryAt(a, d)) /\ (Usually(a, d)' <=> Usually(a, d))
             /\ \A u \in 0 .. Len(acts) :
                  /\ FirstUse(a, d, u)' <=> FirstUse(a, d, u)
                  /\ \A b : Known(a, d, u, b)' <=> Known(a, d, u, b)
             /\ Len(acts) \in Nat /\ Len(acts') \in Nat /\ Len(acts) <= Len(acts')
  BY <1>1, <1>3, KnownStays
<1>4. Once(a) => Once(a)'
  BY <1>3
<1>5. ASSUME look[a].at = "judge" PROVE JudgeFits(a)'
  <2>1. Once(a) /\ JudgeFits(a)
    BY <1>5 DEF LookFits
  <2>2. SUFFICES ASSUME NEW d \in Nat, NEW u \in Nat, NEW b,
                        look[a].read = d, look[a].upto = u, look[a].baseline = b
                 PROVE  d <= today' /\ u <= Len(acts') /\ Known(a, d, u, b)'
    BY Zenon DEF JudgeFits
  <2>3. d <= today /\ u <= Len(acts) /\ Known(a, d, u, b)
    BY <2>1, <2>2, Zenon DEF JudgeFits
  <2>4. u \in 0 .. Len(acts) /\ Len(acts) \in Nat /\ Len(acts') \in Nat /\ Len(acts) <= Len(acts')
    BY <1>3, <2>1, <2>3
  <2>5. Known(a, d, u, b)'
    BY <1>3, <2>1, <2>3, <2>4
  <2>6. QED
    BY <1>1, <2>3, <2>4, <2>5
<1>6. ASSUME look[a].at = "over", ~look[a].blind PROVE ResultFits(a)'
  <2>1. Once(a) /\ ResultFits(a)
    BY <1>6 DEF LookFits
  <2>2. SUFFICES ASSUME NEW d \in Nat, NEW u \in Nat, NEW j \in Nat,
                        look[a].read = d, look[a].upto = u, look[a].judged = j
                 PROVE  /\ u <= Len(acts')
                        /\ HistoryAt(a, d)' /\ FirstUse(a, d, u)' => Reported \in look[a].found
                        /\ Usually(a, j)' /\ ~look[a].cut => Quiet(look[a].found)
    BY Zenon DEF ResultFits, Quiet, Reported
  <2>3. /\ u <= Len(acts)
        /\ HistoryAt(a, d) /\ FirstUse(a, d, u) => Reported \in look[a].found
        /\ Usually(a, j) /\ ~look[a].cut => Quiet(look[a].found)
    BY <2>1, <2>2, Zenon DEF ResultFits
  <2>4. u \in 0 .. Len(acts) /\ Len(acts) \in Nat /\ Len(acts') \in Nat /\ Len(acts) <= Len(acts')
    BY <1>3, <2>1, <2>3
  <2>5. QED
    BY <1>3, <2>1, <2>3, <2>4
<1>7. QED
  BY <1>2, <1>4, <1>5, <1>6, Zenon DEF LookFits, Quiet

\* A step of one evaluation that leaves the record alone.
LEMMA OthersStay ==
  ASSUME DetectionInv, NEW a \in Acts, NEW r \in LookRec, look' = [look EXCEPT ![a] = r],
         UNCHANGED <<today, acts, graph>>, DefinitionsShape(definitions', today), LookFits(a)'
  PROVE  DetectionInv'
<1>1. look' \in [Acts -> LookRec] /\ \A b \in Acts : b # a => look'[b] = look[b]
  BY LookChanges DEF DetectionInv
<1>2. DetectionShape'
  BY <1>1 DEF DetectionInv, DetectionShape, RecordShape, DefinitionsShape
<1>3. today' \in Nat /\ today <= today'
  BY DetectionAssumption DEF DetectionInv, DetectionShape, RecordShape
<1>4. ASSUME NEW b \in Acts, b # a PROVE LookFits(b)'
  BY <1>1, <1>3, <1>4, LookStays DEF DetectionInv
<1>5. QED
  BY <1>2, <1>4 DEF DetectionInv

\* Without a change of the record its entries are the same.
LEMMA RecordSame ==
  ASSUME NEW a \in Acts, UNCHANGED acts
  PROVE  (Recorded(a)' = Recorded(a)) /\ (Once(a)' <=> Once(a))
BY DEF Recorded, Once

LEMMA RecordActKeeps ==
  ASSUME DetectionInv, NEW a \in Acts, RecordAct(a)
  PROVE  DetectionInv'
<1> DEFINE r == [look[a] EXCEPT !.at = "facts"]
           e == [act |-> a, day |-> today]
<1>1. DetectionShape /\ RecordShape /\ today \in Nat /\ LookFits(a)
  BY DetectionAssumption DEF DetectionInv, DetectionShape, RecordShape
<1>2. /\ Recorded(a) = {} /\ acts' = Append(acts, e) /\ look' = [look EXCEPT ![a] = r]
      /\ UNCHANGED <<today, graph, definitions>>
  BY <1>1 DEF RecordAct, DetectionShape
<1>3. look[a].at = "none" /\ look[a].blind = FALSE
  BY <1>1, <1>2, LookFields DEF LookFits
<1>4. /\ r \in LookRec /\ r.at = "facts" /\ r.blind = FALSE
  <2>1. look[a] \in LookRec /\ "facts" \in LookSteps
    BY <1>1, LookFields DEF LookSteps
  <2>2. r \in LookRec
    BY <2>1, Zenon DEF LookRec
  <2>3. r.at = "facts" /\ r.blind = look[a].blind
    BY <2>1 DEF LookRec
  <2>4. QED
    BY <1>3, <2>2, <2>3
<1>5. e \in ActRec /\ e.act = a /\ e.day = today
  BY <1>1 DEF ActRec, RecordShape
<1> HIDE DEF r, e
<1>6. look' \in [Acts -> LookRec] /\ look'[a] = r /\ \A b \in Acts : b # a => look'[b] = look[b]
  BY <1>1, <1>2, <1>4, LookChanges
<1>7. /\ acts' \in Seq(ActRec) /\ DOMAIN acts' = DOMAIN acts \cup {Len(acts) + 1}
      /\ acts'[Len(acts) + 1] = e /\ \A i \in DOMAIN acts : acts'[i] = acts[i]
  BY <1>1, <1>2, <1>5 DEF RecordShape
<1>8. DetectionShape'
  <2>1. \A i \in DOMAIN acts' : acts'[i].day <= today
    BY <1>1, <1>5, <1>7 DEF RecordShape
  <2>2. QED
    BY <1>1, <1>2, <1>6, <1>7, <2>1 DEF DetectionShape, RecordShape
<1>9. Recorded(a)' = {Len(acts) + 1}
  BY <1>2, <1>5, <1>7 DEF Recorded
<1>10. LookFits(a)'
  BY <1>4, <1>6, <1>9 DEF LookFits, Once
<1>11. ASSUME NEW b \in Acts, b # a PROVE LookFits(b)'
  <2>1. LookFits(b) /\ look'[b] = look[b] /\ e.act # b
    BY <1>5, <1>6, <1>11 DEF DetectionInv
  <2>2. UNCHANGED today /\ today' \in Nat /\ today <= today'
    BY <1>1, <1>2
  <2>3. QED
    BY <1>1, <1>2, <1>5, <2>1, <2>2, LookStays
<1>12. QED
  BY <1>8, <1>10, <1>11 DEF DetectionInv

LEMMA FactsKeep ==
  ASSUME DetectionInv, NEW a \in Acts, _facts(a)
  PROVE  DetectionInv'
<1>1. PICK F : /\ look[a].at = "facts"
               /\ look' = [look EXCEPT ![a].at = "tools", ![a].found = evaluate(a, F)]
               /\ UNCHANGED <<today, acts, graph, definitions>>
  BY Zenon DEF _facts
<1> DEFINE G == evaluate(a, F)
           r == [look[a] EXCEPT !.at = "tools", !.found = G]
<1>2. G \in SUBSET Candidates /\ Quiet(G)
  BY EvaluateTyped DEF Quiet
<1> HIDE DEF G
<1>3. DetectionShape /\ LookFits(a) /\ look[a] \in LookRec
  BY LookFields DEF DetectionInv
<1>4. look' = [look EXCEPT ![a] = r]
  BY <1>1, <1>3 DEF DetectionShape, G
<1>5. r \in LookRec
  <2>1. "tools" \in LookSteps
    BY DEF LookSteps
  <2>2. QED
    BY <1>2, <1>3, <2>1, Zenon DEF LookRec
<1>6. r.at = "tools" /\ r.found = G /\ r.blind = look[a].blind
  BY <1>3 DEF LookRec
<1> HIDE DEF r
<1>7. look'[a] = r
  BY <1>3, <1>4, <1>5, LookChanges
<1>8. LookFits(a)'
  BY <1>1, <1>2, <1>3, <1>6, <1>7, RecordSame DEF LookFits
<1>9. DefinitionsShape(definitions', today)
  BY <1>1, <1>3 DEF DetectionShape, DefinitionsShape
<1>10. QED
  BY <1>1, <1>4, <1>5, <1>8, <1>9, OthersStay

LEMMA RecordAndDiffKeeps ==
  ASSUME DetectionInv, NEW a \in Acts, record_and_diff(a)
  PROVE  DetectionInv'
<1> DEFINE L == DOMAIN Act[a].tools
           old(t) == Superseded(t, Act[a].tools[t])
           C == UNION {{[days |-> today - d.first, sessions |-> d.sessions] : d \in old(t)} : t \in L}
           p == _payload_body(a) /\ \E t \in L : Act[a].tools[t] \in PoisonedDefs
           r == [look[a] EXCEPT !.at = "baseline", !.changed = C, !.poisoned = p]
<1>1. DetectionShape /\ RecordShape /\ LookFits(a) /\ look[a] \in LookRec
      /\ DefinitionsShape(definitions, today)
  BY LookFields DEF DetectionInv, DetectionShape, DefinitionsShape
<1>2. /\ look[a].at = "tools" /\ UNCHANGED <<today, acts, graph>>
      /\ look' = [look EXCEPT ![a] = r]
  BY <1>1, Zenon DEF record_and_diff, DetectionShape
<1>3. DefinitionsShape(definitions', today)
  <2>1. PICK n \in {0, 1} :
          definitions' = {d \in definitions : d.tool \notin L}
                         \cup UNION {Observed(t, Act[a].tools[t], n) : t \in L}
    BY Zenon DEF record_and_diff
  <2>2. QED
    BY <1>1, <2>1, DefinitionsTyped
<1>4. C \in SUBSET ChangeRec
  <2>1. today \in Nat
    BY <1>1, DetectionAssumption DEF RecordShape
  <2>2. \A t \in L : \A d \in old(t) : d \in DefinitionRec
    BY <1>1 DEF Superseded, DefinitionsOf, DefinitionsShape
  <2>3. \A t \in L : \A d \in old(t) : d.first \in Nat /\ d.sessions \in Nat
    BY <2>2, DefinitionFields
  <2>4. QED
    BY <2>1, <2>3 DEF ChangeRec
<1>5. p \in BOOLEAN
  OBVIOUS
<1> HIDE DEF C, p, L, old
<1>6. r \in LookRec
  <2>1. "baseline" \in LookSteps
    BY DEF LookSteps
  <2>2. QED
    BY <1>1, <1>4, <1>5, <2>1, Zenon DEF LookRec
<1>7. r.at = "baseline" /\ r.found = look[a].found /\ r.blind = look[a].blind
  BY <1>1 DEF LookRec
<1> HIDE DEF r
<1>8. look'[a] = r
  BY <1>1, <1>2, <1>6, LookChanges
<1>9. LookFits(a)'
  BY <1>1, <1>2, <1>7, <1>8, RecordSame DEF LookFits
<1>10. QED
  BY <1>2, <1>3, <1>6, <1>9, OthersStay

LEMMA ReadBaselineKeeps ==
  ASSUME DetectionInv, NEW a \in Acts, ReadBaseline(a)
  PROVE  DetectionInv'
<1> DEFINE B == build_baseline(a)
           n == Len(acts)
           r == [look[a] EXCEPT !.at = "judge", !.baseline = B, !.read = today, !.upto = n]
<1>1. DetectionShape /\ RecordShape /\ LookFits(a) /\ look[a] \in LookRec
  BY LookFields DEF DetectionInv, DetectionShape
<1>2. /\ look[a].at = "baseline" /\ UNCHANGED <<today, acts, graph, definitions>>
      /\ look' = [look EXCEPT ![a] = r]
  BY <1>1 DEF ReadBaseline, DetectionShape
<1>3. Once(a)
  BY <1>1, <1>2 DEF LookFits
<1>4. B \in BaselineRec /\ Known(a, today, n, B)
  BY <1>1, <1>3, BaselineTyped, ReadKnows
<1>5. today \in Nat /\ n \in Nat
  BY <1>1, DetectionAssumption DEF RecordShape
<1>6. \A d \in Nat : /\ Once(a)'
                     /\ \A u \in 0 .. n : \A b : Known(a, d, u, b)' <=> Known(a, d, u, b)
  BY <1>1, <1>2, <1>3, KnownStays
<1>7. Known(a, today, n, B) <=> \A d, u : \A b : d = today /\ u = n /\ b = B => Known(a, d, u, b)
  OBVIOUS
<1>8. \A d, u : \A b : d = today /\ u = n /\ b = B => Known(a, d, u, b)
  BY <1>4, <1>7
<1>9. Len(acts') = n
  BY <1>2
<1> HIDE DEF B, n
<1>10. r \in LookRec
  <2>1. "judge" \in LookSteps
    BY DEF LookSteps
  <2>2. QED
    BY <1>1, <1>4, <1>5, <2>1, Zenon DEF LookRec
<1>11. /\ r.at = "judge" /\ r.found = look[a].found /\ r.blind = look[a].blind
       /\ r.read = today /\ r.upto = n /\ r.baseline = B
  BY <1>1 DEF LookRec
<1> HIDE DEF r
<1>12. look'[a] = r
  BY <1>1, <1>2, <1>10, LookChanges
<1>13. JudgeFits(a)'
  <2>1. SUFFICES ASSUME NEW d \in Nat, NEW u \in Nat, NEW b, d = today, u = n, b = B
                 PROVE  d <= today' /\ u <= Len(acts') /\ Known(a, d, u, b)'
    BY <1>11, <1>12, Zenon DEF JudgeFits
  <2>2. Known(a, d, u, b)
    BY <1>8, <2>1
  <2>3. u \in 0 .. n
    BY <1>5, <2>1
  <2>4. Known(a, d, u, b)'
    BY <1>6, <2>2, <2>3
  <2>5. QED
    BY <1>2, <1>5, <1>9, <2>1, <2>4
<1>14. LookFits(a)'
  BY <1>1, <1>2, <1>3, <1>11, <1>12, <1>13, RecordSame DEF LookFits
<1>15. DefinitionsShape(definitions', today)
  BY <1>1, <1>2 DEF DetectionShape, DefinitionsShape
<1>16. QED
  BY <1>2, <1>10, <1>14, <1>15, OthersStay

\* The rule fires as the score says.
LEMMA BehavioralFits ==
  ASSUME DetectionShape, NEW a \in Acts, Once(a), NEW d \in Nat, NEW u \in Nat, d <= today,
         Known(a, d, u, look[a].baseline), NEW R
  PROVE  /\ HistoryAt(a, d) /\ FirstUse(a, d, u) => Reported \in _behavioral(a, R)
         /\ Usually(a, today) /\ R = RefsSeen(a) => _behavioral(a, R) = {}
<1> DEFINE b == look[a].baseline
<1>1. RecordShape
  BY DEF DetectionShape
<1>2. /\ NewCredential(a, b) => score(a, b, R) >= FIRE_AT_SCORE
      /\ Usually(a, today) /\ R = RefsSeen(a) => ~(score(a, b, R) >= FIRE_AT_SCORE)
  <2> HIDE DEF b
  <2>1. Known(a, d, u, b)
    BY DEF b
  <2>2. QED
    BY <1>1, <2>1, ScoresFit
<1>3. _behavioral(a, R) = If(established(b) /\ score(a, b, R) >= FIRE_AT_SCORE, "behavioral_deviation",
                             IF NewCredential(a, b) THEN "critical" ELSE "high")
  BY DEF _behavioral
<1>4. Known(a, d, u, b)
  OBVIOUS
<1> HIDE DEF b
<1>5. ASSUME HistoryAt(a, d), FirstUse(a, d, u) PROVE Reported \in _behavioral(a, R)
  <2>1. established(b) /\ NewCredential(a, b)
    BY <1>4, <1>5 DEF Known
  <2>2. QED
    BY <1>2, <1>3, <2>1, Zenon DEF If, Reported
<1>6. ASSUME Usually(a, today), R = RefsSeen(a) PROVE _behavioral(a, R) = {}
  BY <1>2, <1>3, <1>6, Zenon DEF If
<1>7. QED
  BY <1>5, <1>6

LEMMA JudgeKeeps ==
  ASSUME DetectionInv, NEW a \in Acts, Judge(a)
  PROVE  DetectionInv'
<1>0. PICK R \in RefsRead(a) :
        look' = [look EXCEPT ![a].at = "over", ![a].judged = today, ![a].cut = Cut(a),
                             ![a].found = @ \cup _tool_integrity(a) \cup _behavioral(a, R)]
  BY Zenon DEF Judge
<1> DEFINE G == look[a].found \cup _tool_integrity(a) \cup _behavioral(a, R)
           c == Cut(a)
           r == [look[a] EXCEPT !.at = "over", !.judged = today, !.cut = c, !.found = G]
<1>1. DetectionShape /\ RecordShape /\ LookFits(a) /\ look[a] \in LookRec
  BY LookFields DEF DetectionInv, DetectionShape
<1>2. /\ look[a].at = "judge" /\ UNCHANGED <<today, acts, graph, definitions>>
      /\ look' = [look EXCEPT ![a] = r]
  BY <1>0, <1>1, Zenon DEF Judge, DetectionShape
<1>16. c \in BOOLEAN /\ (~c => R = RefsSeen(a))
  BY <1>0 DEF Cut, RefsRead
<1>3. Once(a) /\ Quiet(look[a].found) /\ JudgeFits(a)
  BY <1>1, <1>2 DEF LookFits
<1>4. today \in Nat
  BY <1>1, DetectionAssumption DEF RecordShape
<1>5. G \in SUBSET Candidates
  BY <1>1, LookFields, IntegrityTyped, BehavioralTyped
<1>6. Quiet(look[a].found \cup _tool_integrity(a))
  BY <1>3, IntegrityTyped DEF Quiet
<1>7. \A d, u \in Nat : look[a].read = d /\ look[a].upto = u =>
        /\ d <= today /\ u <= Len(acts)
        /\ HistoryAt(a, d) /\ FirstUse(a, d, u) => Reported \in G
        /\ Usually(a, today) /\ ~c => Quiet(G)
  <2>1. SUFFICES ASSUME NEW d \in Nat, NEW u \in Nat, look[a].read = d, look[a].upto = u
                 PROVE  /\ d <= today /\ u <= Len(acts)
                        /\ HistoryAt(a, d) /\ FirstUse(a, d, u) => Reported \in G
                        /\ Usually(a, today) /\ ~c => Quiet(G)
    BY Zenon
  <2>2. d <= today /\ u <= Len(acts) /\ Known(a, d, u, look[a].baseline)
    BY <1>3, <2>1, Zenon DEF JudgeFits
  <2>3. /\ HistoryAt(a, d) /\ FirstUse(a, d, u) => Reported \in _behavioral(a, R)
        /\ Usually(a, today) /\ ~c => _behavioral(a, R) = {}
    BY <1>16, <1>1, <1>3, <2>2, BehavioralFits
  <2>4. ASSUME Usually(a, today), ~c PROVE Quiet(G)
    <3>1. _behavioral(a, R) = {}
      BY <2>3, <2>4
    <3>2. G = look[a].found \cup _tool_integrity(a)
      BY <3>1
    <3>3. QED
      BY <1>6, <3>2
  <2>5. QED
    BY <2>2, <2>3, <2>4
<1> HIDE DEF G, c
<1>8. r \in LookRec
  <2>1. "over" \in LookSteps
    BY DEF LookSteps
  <2>2. QED
    BY <1>1, <1>4, <1>5, <1>16, <2>1, Zenon DEF LookRec
<1>9. /\ r.at = "over" /\ r.found = G /\ r.blind = look[a].blind
      /\ r.read = look[a].read /\ r.upto = look[a].upto /\ r.judged = today /\ r.cut = c
  BY <1>1 DEF LookRec
<1> HIDE DEF r
<1>10. look'[a] = r
  BY <1>1, <1>2, <1>8, LookChanges
<1>11. \A d \in Nat : /\ HistoryAt(a, d)' <=> HistoryAt(a, d)
                      /\ Usually(a, d)' <=> Usually(a, d)
                      /\ \A u \in 0 .. Len(acts) : FirstUse(a, d, u)' <=> FirstUse(a, d, u)
  BY <1>1, <1>2, <1>3, KnownStays
<1>12. ResultFits(a)'
  <2>1. SUFFICES ASSUME NEW d \in Nat, NEW u \in Nat, NEW j \in Nat,
                        look[a].read = d, look[a].upto = u, today = j
                 PROVE  /\ u <= Len(acts')
                        /\ HistoryAt(a, d)' /\ FirstUse(a, d, u)' => Reported \in G
                        /\ Usually(a, j)' /\ ~c => Quiet(G)
    BY <1>9, <1>10, Zenon DEF ResultFits, Quiet, Reported
  <2>2. /\ u <= Len(acts)
        /\ HistoryAt(a, d) /\ FirstUse(a, d, u) => Reported \in G
        /\ Usually(a, today) /\ ~c => Quiet(G)
    BY <1>7, <2>1, Zenon
  <2>3. u \in 0 .. Len(acts) /\ Len(acts') = Len(acts)
    <3>1. Len(acts) \in Nat
      BY <1>1 DEF RecordShape
    <3>2. QED
      BY <1>2, <2>2, <3>1
  <2>4. Usually(a, j) /\ ~c => Quiet(G)
    BY <2>1, <2>2
  <2>5. QED
    BY <1>11, <2>2, <2>3, <2>4
<1>13. LookFits(a)'
  BY <1>1, <1>2, <1>3, <1>9, <1>10, <1>12, RecordSame DEF LookFits
<1>14. DefinitionsShape(definitions', today)
  BY <1>1, <1>2 DEF DetectionShape, DefinitionsShape
<1>15. QED
  BY <1>2, <1>8, <1>13, <1>14, OthersStay

LEMMA BaselineFailsKeeps ==
  ASSUME DetectionInv, NEW a \in Acts, BaselineFails(a)
  PROVE  DetectionInv'
<1> DEFINE G == look[a].found \cup _tool_integrity(a)
           r == [look[a] EXCEPT !.at = "over", !.blind = TRUE, !.found = G]
<1>1. DetectionShape /\ RecordShape /\ LookFits(a) /\ look[a] \in LookRec
  BY LookFields DEF DetectionInv, DetectionShape
<1>2. /\ look[a].at \in {"baseline", "judge"} /\ UNCHANGED <<today, acts, graph, definitions>>
      /\ look' = [look EXCEPT ![a] = r]
  BY <1>1, Zenon DEF BaselineFails, DetectionShape
<1>3. G \in SUBSET Candidates
  BY <1>1, LookFields, IntegrityTyped
<1> HIDE DEF G
<1>4. r \in LookRec
  <2>1. "over" \in LookSteps /\ TRUE \in BOOLEAN
    BY DEF LookSteps
  <2>2. QED
    BY <1>1, <1>3, <2>1, Zenon DEF LookRec
<1>5. r.at = "over" /\ r.blind = TRUE
  BY <1>1 DEF LookRec
<1> HIDE DEF r
<1>6. look'[a] = r
  BY <1>1, <1>2, <1>4, LookChanges
<1>7. LookFits(a)'
  BY <1>1, <1>2, <1>5, <1>6, RecordSame DEF LookFits
<1>8. DefinitionsShape(definitions', today)
  BY <1>1, <1>2 DEF DetectionShape, DefinitionsShape
<1>9. QED
  BY <1>2, <1>4, <1>7, <1>8, OthersStay

LEMMA OutsideKeeps ==
  ASSUME DetectionInv, ScanSucceeds \/ DaysPass
  PROVE  DetectionInv'
<1>1. DetectionShape /\ today \in Nat /\ UNCHANGED <<acts, definitions, look>>
  <2>1. DetectionShape /\ today \in Nat
    BY DetectionAssumption DEF DetectionInv, DetectionShape, RecordShape
  <2>2. UNCHANGED <<acts, definitions, look>>
    BY DEF ScanSucceeds, DaysPass
  <2>3. QED
    BY <2>1, <2>2
<1>2. today' \in 0 .. MaxToday /\ today <= today' /\ today' \in Nat
  <2>1. CASE ScanSucceeds
    <3>1. today' = today /\ today \in 0 .. MaxToday
      BY <1>1, <2>1 DEF ScanSucceeds, DetectionShape, RecordShape
    <3>2. QED
      BY <1>1, <3>1
  <2>2. CASE DaysPass
    BY <1>1, <2>2, DetectionAssumption DEF DaysPass
  <2>3. QED
    BY <2>1, <2>2
<1>3. graph' \in [scanned : BOOLEAN, flagged : BOOLEAN, allowed : SUBSET ResourceRefs, prod : BOOLEAN]
  <2>1. CASE ScanSucceeds
    <3>1. PICK o \in Outcomes :
            graph' = [graph EXCEPT !.scanned = TRUE, !.flagged = o.flagged, !.allowed = o.allowed]
      BY <2>1 DEF ScanSucceeds
    <3>2. o \in [flagged : BOOLEAN, allowed : SUBSET ResourceRefs]
      BY DetectionAssumption
    <3>3. o.flagged \in BOOLEAN /\ o.allowed \in SUBSET ResourceRefs /\ TRUE \in BOOLEAN
      BY <3>2
    <3>4. QED
      BY <1>1, <3>1, <3>3, Zenon DEF DetectionShape
  <2>2. CASE DaysPass
    BY <1>1, <2>2 DEF DaysPass, DetectionShape
  <2>3. QED
    BY <2>1, <2>2
<1>4. \A i \in DOMAIN acts : acts[i].day <= today'
  BY <1>1, <1>2, ActFields DEF DetectionShape, RecordShape
<1>5. \A d \in definitions : d.last <= today'
  BY <1>1, <1>2, DefinitionFields DEF DetectionShape
<1>6. DetectionShape'
  BY <1>1, <1>2, <1>3, <1>4, <1>5 DEF DetectionShape, RecordShape
<1>7. ASSUME NEW a \in Acts PROVE LookFits(a)'
  BY <1>1, <1>2, LookStays DEF DetectionInv
<1>8. QED
  BY <1>6, <1>7 DEF DetectionInv

LEMMA DetectionStarts ==
  ASSUME DetectionInit
  PROVE  DetectionInv
<1>1. /\ acts = Past /\ Past \in Seq(ActRec) /\ MaxToday \in Nat
      /\ \A i, j \in DOMAIN Past : i < j => Past[i].day <= Past[j].day
  BY DetectionAssumption DEF DetectionInit, ActRec
<1>2. today \in 0 .. MaxToday /\ \A i \in DOMAIN acts : acts[i].day <= today
  <2>1. CASE Past = << >>
    BY <1>1, <2>1 DEF DetectionInit
  <2>2. CASE Past # << >>
    <3> DEFINE n == Len(Past)
    <3>1. n \in Nat /\ DOMAIN Past = 1 .. n /\ n \in DOMAIN Past
      BY <1>1, <2>2
    <3>2. today = Past[n].day
      BY <2>2 DEF DetectionInit, Last
    <3>3. Past[n] \in ActRec
      BY <1>1, <3>1
    <3>4. Past[n].day \in 0 .. MaxToday
      BY <3>3, Zenon DEF ActRec
    <3> HIDE DEF n
    <3>5. ASSUME NEW i \in DOMAIN Past PROVE Past[i].day <= Past[n].day
      <4>1. CASE i = n
        BY <1>1, <3>4, <4>1
      <4>2. CASE i # n
        BY <1>1, <3>1, <4>2
      <4>3. QED
        BY <4>1, <4>2
    <3>6. QED
      BY <1>1, <3>2, <3>4, <3>5
  <2>3. QED
    BY <2>1, <2>2
<1> DEFINE fresh == [days |-> 0, sessions |-> 0, operations |-> {}, credentials |-> {}]
           begun(a) == [at |-> IF Recorded(a) = {} THEN "none" ELSE "over", found |-> {}, changed |-> {},
                        poisoned |-> FALSE, baseline |-> fresh,
                        read |-> 0, upto |-> 0, judged |-> 0, cut |-> FALSE, blind |-> Recorded(a) # {}]
<1>3. look = [a \in Acts |-> begun(a)]
  BY DEF DetectionInit
<1>4. fresh \in BaselineRec
  BY DEF BaselineRec
<1> HIDE DEF fresh
<1>5. \A a \in Acts : begun(a) \in LookRec
  BY <1>4 DEF LookRec, LookSteps
<1>6. \A a \in Acts : /\ look[a].at = (IF Recorded(a) = {} THEN "none" ELSE "over")
                      /\ look[a].blind = (Recorded(a) # {})
  BY <1>3
<1>7. look \in [Acts -> LookRec]
  BY <1>3, <1>5
<1>8. DetectionShape
  <2>1. graph \in [scanned : BOOLEAN, flagged : BOOLEAN, allowed : SUBSET ResourceRefs, prod : BOOLEAN]
    BY DEF DetectionInit
  <2>2. definitions = {}
    BY DEF DetectionInit
  <2>3. QED
    BY <1>1, <1>2, <1>7, <2>1, <2>2 DEF DetectionShape, RecordShape
<1>9. \A a \in Acts : LookFits(a)
  BY <1>6 DEF LookFits
<1>10. QED
  BY <1>8, <1>9 DEF DetectionInv

LEMMA DetectionStep ==
  ASSUME DetectionInv, [DetectionNext]_detectionVars
  PROVE  DetectionInv'
<1>1. CASE UNCHANGED detectionVars
  <2>1. UNCHANGED <<today, acts, graph, definitions, look>>
    BY <1>1 DEF detectionVars
  <2>2. DetectionShape /\ today' \in Nat /\ today <= today'
    BY <2>1, DetectionAssumption DEF DetectionInv, DetectionShape, RecordShape
  <2>3. DetectionShape'
    BY <2>1, <2>2 DEF DetectionShape, RecordShape
  <2>4. ASSUME NEW a \in Acts PROVE LookFits(a)'
    BY <2>1, <2>2, LookStays DEF DetectionInv
  <2>5. QED
    BY <2>3, <2>4 DEF DetectionInv
<1>2. ASSUME NEW a \in Acts, RecordAct(a) \/ _facts(a) \/ record_and_diff(a)
                             \/ ReadBaseline(a) \/ Judge(a) \/ BaselineFails(a)
      PROVE  DetectionInv'
  BY <1>2, RecordActKeeps, FactsKeep, RecordAndDiffKeeps, ReadBaselineKeeps, JudgeKeeps,
     BaselineFailsKeeps
<1>3. QED
  BY <1>1, <1>2, OutsideKeeps DEF DetectionNext

LEMMA DetectionAlways == DetectionSpec => []DetectionInv
<1>1. DetectionInit => DetectionInv
  BY DetectionStarts
<1>2. DetectionInv /\ [DetectionNext]_detectionVars => DetectionInv'
  BY DetectionStep
<1>3. QED
  BY <1>1, <1>2, PTL DEF DetectionSpec

\* The evaluations, the record and the history of definitions have their types.
THEOREM DetectionTypes == DetectionSpec => []DetectionTypeOK
<1>1. DetectionInv => DetectionTypeOK
  <2>1. SUFFICES ASSUME DetectionShape PROVE DetectionTypeOK
    BY DEF DetectionInv
  <2>2. RecordShape /\ today \in 0 .. MaxToday /\ today \in Nat
    BY <2>1, DetectionAssumption DEF DetectionShape, RecordShape
  <2>3. \A i \in DOMAIN acts : acts[i].act \in Acts /\ acts[i].day \in 0 .. today
    BY <2>2, ActFields DEF RecordShape
  <2>4. \A d \in definitions : d.first \in 0 .. today /\ d.last \in d.first .. today /\ d.live \in BOOLEAN
    <3>1. ASSUME NEW d \in definitions
          PROVE  d.first \in 0 .. today /\ d.last \in d.first .. today /\ d.live \in BOOLEAN
      <4>1. d \in DefinitionRec /\ d.first <= d.last /\ d.last <= today
        BY <2>1 DEF DetectionShape
      <4>2. d.first \in Nat /\ d.last \in Nat /\ d.live \in BOOLEAN
        BY <4>1, DefinitionFields
      <4>3. QED
        BY <2>2, <4>1, <4>2
    <3>2. QED
      BY <3>1
  <2>5. \A a \in Acts : /\ look[a].at \in {"none", "facts", "tools", "baseline", "judge", "over"}
                        /\ look[a].found \subseteq Candidates
    BY <2>1, LookFields DEF LookSteps
  <2>6. graph \in [scanned : BOOLEAN, flagged : BOOLEAN, allowed : SUBSET ResourceRefs, prod : BOOLEAN]
    BY <2>1 DEF DetectionShape
  <2>7. QED
    BY <2>2, <2>3, <2>4, <2>5, <2>6 DEF DetectionTypeOK
<1>2. QED
  BY <1>1, DetectionAlways, PTL

\* An agent that had a history when it acted and used a credential for the first time is
\* reported, whatever the query of references leaves out; and one that did what others had
\* done before it is not, whatever is recorded and however many days pass between the
\* queries, as long as their history is within the limit of that query (baselines.py:33-85).
THEOREM DeviationsAlwaysReported == DetectionSpec => []DeviationsReported
<1>1. DetectionInv => DeviationsReported
  <2>1. SUFFICES ASSUME DetectionInv, NEW a \in Acts, look[a].at = "over", ~look[a].blind
                 PROVE  /\ HasHistory(a) /\ Act[a].credential # NoCredential
                             /\ (\A i \in Before(a, look[a].read) \cup Between(a) :
                                   ActAt(i).credential # Act[a].credential)
                           => [rule |-> "behavioral_deviation", severity |-> "critical"] \in Behavioral(a)
                        /\ LET I == Before(a, look[a].judged)
                           IN  /\ ~look[a].cut
                               /\ Act[a].operation \in {ActAt(i).operation : i \in I}
                               /\ KindsOf(Act[a].refs) \subseteq UNION {KindsOf(ActAt(i).refs) : i \in I}
                               /\ Act[a].credential \in {ActAt(i).credential : i \in I} \cup {NoCredential}
                               => Behavioral(a) = {}
    BY Zenon DEF DeviationsReported
  <2> DEFINE d == look[a].read
             u == look[a].upto
             j == look[a].judged
  <2>2. d \in Nat /\ u \in Nat /\ j \in Nat /\ ResultFits(a)
    BY <2>1, LookFields DEF DetectionInv, LookFits
  <2>3. /\ HistoryAt(a, d) /\ FirstUse(a, d, u) => Reported \in look[a].found
        /\ Usually(a, j) /\ ~look[a].cut => Quiet(look[a].found)
    BY <2>2, Zenon DEF ResultFits
  <2>4. HasHistory(a) <=> HistoryAt(a, d)
    BY DEF HasHistory, HistoryAt, SessionsBefore, SessionsAt
  <2>5. Between(a) = BetweenTo(a, u)
    BY DEF Between, BetweenTo
  <2>6. ASSUME HasHistory(a), Act[a].credential # NoCredential,
               \A i \in Before(a, d) \cup Between(a) : ActAt(i).credential # Act[a].credential
        PROVE  Reported \in Behavioral(a)
    <3>1. FirstUse(a, d, u)
      BY <2>5, <2>6 DEF FirstUse
    <3>2. Reported \in look[a].found
      BY <2>3, <2>4, <2>6, <3>1
    <3>3. QED
      BY <3>2 DEF Behavioral, Reported
  <2> DEFINE I == Before(a, j)
  <2>7. ASSUME ~look[a].cut, Act[a].operation \in {ActAt(i).operation : i \in I},
               KindsOf(Act[a].refs) \subseteq UNION {KindsOf(ActAt(i).refs) : i \in I},
               Act[a].credential \in {ActAt(i).credential : i \in I} \cup {NoCredential}
        PROVE  Behavioral(a) = {}
    <3>1. Usually(a, j)
      BY <2>7 DEF Usually
    <3>2. QED
      BY <2>3, <2>7, <3>1 DEF Behavioral, Quiet
  <2>8. QED
    BY <2>6, <2>7 DEF Reported
<1>2. QED
  BY <1>1, DetectionAlways, PTL

-----------------------------------------------------------------------------
(* Ranks. *)

\* The elements of a finite set with different keys have each rank once.
Below(S, K, x) == {t \in S : K[t] < K[x]}

RanksFit(S, K) ==
  /\ \A x \in S : Cardinality(Below(S, K, x)) \in 0 .. Cardinality(S) - 1
  /\ \A x, y \in S : Cardinality(Below(S, K, x)) = Cardinality(Below(S, K, y)) => x = y
  /\ \A m \in 0 .. Cardinality(S) - 1 : \E x \in S : Cardinality(Below(S, K, x)) = m

LEMMA Ranks ==
  ASSUME NEW S, IsFiniteSet(S), NEW K \in [S -> Nat],
         \A x, y \in S : K[x] = K[y] => x = y
  PROVE  RanksFit(S, K)
<1> DEFINE n == Cardinality(S)
           R(x) == Cardinality(Below(S, K, x))
           f == [x \in S |-> R(x)]
           T == 0 .. n - 1
<1>1. n \in Nat
  BY FS_CardinalityType
<1>2. ASSUME NEW x \in S PROVE IsFiniteSet(Below(S, K, x)) /\ R(x) \in Nat /\ R(x) < n
  <2>1. Below(S, K, x) \in SUBSET S /\ x \notin Below(S, K, x)
    BY DEF Below
  <2>2. /\ IsFiniteSet(Below(S, K, x)) /\ R(x) <= n
        /\ n = R(x) => S = Below(S, K, x)
    BY <2>1, FS_Subset
  <2>3. R(x) \in Nat
    BY <2>2, FS_CardinalityType
  <2>4. R(x) # n
    BY <2>1, <2>2
  <2>5. QED
    BY <1>1, <2>2, <2>3, <2>4
<1>3. ASSUME NEW x \in S, NEW y \in S, K[x] < K[y] PROVE R(x) < R(y)
  <2>1. Below(S, K, x) \in SUBSET Below(S, K, y)
    BY <1>3 DEF Below
  <2>2. x \in Below(S, K, y) /\ x \notin Below(S, K, x)
    BY <1>3 DEF Below
  <2>3. R(x) <= R(y) /\ (R(y) = R(x) => Below(S, K, y) = Below(S, K, x))
    BY <1>2, <2>1, FS_Subset
  <2>4. R(x) # R(y)
    BY <2>2, <2>3
  <2>5. QED
    BY <1>2, <2>3, <2>4
<1>4. \A x, y \in S : R(x) = R(y) => x = y
  <2>1. SUFFICES ASSUME NEW x \in S, NEW y \in S, x # y PROVE R(x) # R(y)
    OBVIOUS
  <2>2. K[x] \in Nat /\ K[y] \in Nat /\ K[x] # K[y]
    BY <2>1
  <2>3. K[x] < K[y] \/ K[y] < K[x]
    BY <2>2
  <2>4. R(x) \in Nat /\ R(y) \in Nat
    BY <1>2
  <2>5. QED
    BY <1>3, <2>3, <2>4
<1> HIDE DEF n, R
<1>5. \A x \in S : R(x) \in T
  BY <1>1, <1>2
<1>6. f \in [S -> T] /\ \A x, y \in S : f[x] = f[y] => x = y
  BY <1>4, <1>5
<1>7. IsFiniteSet(T) /\ Cardinality(T) = n
  <2>1. 0 \in Int /\ n - 1 \in Int
    BY <1>1
  <2>2. IsFiniteSet(T) /\ Cardinality(T) = IF 0 > n - 1 THEN 0 ELSE n - 1 - 0 + 1
    BY <2>1, FS_Interval
  <2>3. QED
    BY <1>1, <2>2
<1> HIDE DEF T, f
<1>8. f \in Injection(S, T)
  BY <1>6, Fun_IsInj
<1>9. f \in Surjection(S, T)
  <2>1. Cardinality(S) = Cardinality(T)
    BY <1>7 DEF n
  <2>2. QED
    BY <1>7, <1>8, <2>1, FS_Injection
<1>10. \A m \in T : \E x \in S : f[x] = m
  BY <1>9, Fun_SurjectionProperties
<1>11. \A m \in T : \E x \in S : R(x) = m
  BY <1>10 DEF f
<1>12. QED
  BY <1>4, <1>5, <1>11 DEF RanksFit, R, T, n
-----------------------------------------------------------------------------
(* Types of the timeline. *)

StartedOne(r) == \E i \in DOMAIN started : started[i] = r

SpanFunctions == UNION {[D -> Nat] : D \in SUBSET Sessions}

RequestRec == [spans : Seq(Spans), at : Steps, from : SpanFunctions]

\* A run is started once, and ended once.
RunsShape ==
  /\ started \in Seq(Runs)
  /\ \A i, j \in DOMAIN started : started[i] = started[j] => i = j
  /\ open \in [Runs -> Runs \cup {NoRun}]
  /\ \A r \in Runs : open[r] # NoRun => StartedOne(r)
  /\ ended \subseteq Spans /\ IsFiniteSet(ended)
  /\ \A s \in ended : StartedOne(s.run) /\ open[s.run] = NoRun
  /\ \A s, t \in ended : s.run = t.run => s = t

RequestsShape ==
  /\ requests \in Seq(RequestRec)
  /\ sending \in [Agents -> Seq(Nat)]
  /\ \A a \in Agents : Len(sending[a]) <= MaxTries
  /\ \A a \in Agents : \A k \in DOMAIN sending[a] : sending[a][k] \in DOMAIN requests

NumbersShape ==
  /\ next \in [Sessions -> Nat]
  /\ linked \subseteq Runs
  /\ faults \in 0 .. MaxFaults

SessionsShape == RunsShape /\ RequestsShape /\ NumbersShape

LEMMA SpanFields ==
  ASSUME NEW s \in Spans
  PROVE  s.run \in Runs /\ s.root \in Runs /\ SessionOf(s) \in Sessions
<1>1. s.run \in Runs /\ s.root \in Runs
  BY DEF Spans
<1>2. QED
  BY <1>1 DEF SessionOf, Sessions

LEMMA RequestFields ==
  ASSUME RequestsShape, NEW i \in DOMAIN requests
  PROVE  /\ requests[i] \in RequestRec
         /\ requests[i].spans \in Seq(Spans) /\ requests[i].at \in Steps
         /\ requests[i].from \in SpanFunctions
         /\ DOMAIN requests[i].from \subseteq Sessions
         /\ \A s \in DOMAIN requests[i].from : requests[i].from[s] \in Nat
         /\ i \in Nat /\ i <= Len(requests) /\ Len(requests) \in Nat
<1>1. requests[i] \in RequestRec /\ i \in Nat /\ i <= Len(requests) /\ Len(requests) \in Nat
  BY DEF RequestsShape
<1>2. requests[i].spans \in Seq(Spans) /\ requests[i].at \in Steps /\ requests[i].from \in SpanFunctions
  BY <1>1, Zenon DEF RequestRec
<1>3. PICK D \in SUBSET Sessions : requests[i].from \in [D -> Nat]
  BY <1>2, Zenon DEF SpanFunctions
<1>4. QED
  BY <1>1, <1>2, <1>3

LEMMA PlacesFinite ==
  ASSUME NEW spans \in Seq(Spans), NEW s
  PROVE  /\ IsFiniteSet(PlacesIn(spans, s)) /\ Cardinality(PlacesIn(spans, s)) \in Nat
         /\ PlacesIn(spans, s) \in SUBSET DOMAIN spans /\ DOMAIN spans \in SUBSET Nat
<1>1. DOMAIN spans = 1 .. Len(spans) /\ Len(spans) \in Int /\ 1 \in Int /\ Len(spans) \in Nat
  OBVIOUS
<1>2. IsFiniteSet(1 .. Len(spans))
  BY <1>1, FS_Interval
<1>3. PlacesIn(spans, s) \in SUBSET (1 .. Len(spans))
  BY <1>1 DEF PlacesIn
<1>4. QED
  BY <1>1, <1>2, <1>3, FS_Subset, FS_CardinalityType

\* The events of one session of a batch get each of its numbers once.
LEMMA EarlierFits ==
  ASSUME NEW spans \in Seq(Spans), NEW s
  PROVE  LET P == PlacesIn(spans, s)
         IN  /\ \A k \in P : Earlier(spans, k) \in 0 .. Cardinality(P) - 1
             /\ \A j, k \in P : Earlier(spans, j) = Earlier(spans, k) => j = k
             /\ \A m \in 0 .. Cardinality(P) - 1 : \E k \in P : Earlier(spans, k) = m
<1> DEFINE P == PlacesIn(spans, s)
           K == [k \in P |-> k]
<1>1. IsFiniteSet(P) /\ P \in SUBSET Nat
  BY PlacesFinite
<1>2. \A k \in P : SessionOf(spans[k]) = s
  BY DEF PlacesIn
<1>3. \A k \in P : Earlier(spans, k) = Cardinality({j \in P : j < k})
  BY <1>2 DEF Earlier
<1> HIDE DEF P
<1>4. K \in [P -> Nat] /\ \A x, y \in P : K[x] = K[y] => x = y
  BY <1>1
<1>5. \A k \in P : Below(P, K, k) = {j \in P : j < k}
  BY DEF Below
<1> HIDE DEF K
<1>6. RanksFit(P, K)
  BY <1>1, <1>4, Ranks
<1>7. QED
  BY <1>3, <1>5, <1>6 DEF RanksFit, P

\* The spans of a batch, sorted.
LEMMA SortedTyped ==
  ASSUME RunsShape, NEW S \in SUBSET ended
  PROVE  Sorted(S) \in Seq(Spans)
<1> DEFINE n == Cardinality(S)
           K == [s \in S |-> StartOf(s.run)]
<1>1. IsFiniteSet(S) /\ n \in Nat /\ S \in SUBSET Spans
  BY FS_Subset, FS_CardinalityType DEF RunsShape
<1>2. ASSUME NEW s \in S
      PROVE  StartOf(s.run) \in DOMAIN started /\ started[StartOf(s.run)] = s.run
  BY Zenon DEF RunsShape, StartedOne, StartOf
<1>3. DOMAIN started \in SUBSET Nat
  BY DEF RunsShape
<1>4. K \in [S -> Nat] /\ \A s, t \in S : K[s] = K[t] => s = t
  <2>1. \A s \in S : StartOf(s.run) \in Nat
    BY <1>2, <1>3
  <2>2. ASSUME NEW s \in S, NEW t \in S, StartOf(s.run) = StartOf(t.run) PROVE s = t
    <3>1. s.run = t.run
      BY <1>2, <2>2
    <3>2. QED
      BY <3>1 DEF RunsShape
  <2>3. QED
    BY <2>1, <2>2
<1>5. \A s \in S : StartedBefore(S, s) = Below(S, K, s)
  BY DEF StartedBefore, Below
<1> HIDE DEF K
<1>6. RanksFit(S, K)
  BY <1>1, <1>4, Ranks
<1>7. \A k \in 1 .. n : k - 1 \in 0 .. n - 1
  BY <1>1
<1>8. \A k \in 1 .. n : \E s \in S : Cardinality(StartedBefore(S, s)) = k - 1
  BY <1>5, <1>6, <1>7 DEF RanksFit
<1>9. \A k \in 1 .. n : (CHOOSE s \in S : Cardinality(StartedBefore(S, s)) = k - 1) \in S
  BY <1>8, Zenon
<1>10. Sorted(S) = [k \in 1 .. n |-> CHOOSE s \in S : Cardinality(StartedBefore(S, s)) = k - 1]
  BY DEF Sorted
<1> HIDE DEF n
<1>11. Sorted(S) \in [1 .. n -> Spans]
  BY <1>1, <1>9, <1>10, Zenon
<1>12. QED
  BY <1>1, <1>11

-----------------------------------------------------------------------------
(* The numbers of a session. *)

\* A request that holds the row of a session has read the number that is next.
LocksFit ==
  /\ \A i \in DOMAIN requests : requests[i].at = "allocate" =>
       \A s \in DOMAIN requests[i].from : requests[i].from[s] = next[s]
  /\ \A i, j \in DOMAIN requests :
       i # j /\ requests[i].at = "allocate" /\ requests[j].at = "allocate" =>
         DOMAIN requests[i].from \cap DOMAIN requests[j].from = {}

\* The number n of s is one that request i took.
Took(i, s, n) ==
  /\ s \in DOMAIN requests[i].from
  /\ requests[i].from[s] <= n /\ n < requests[i].from[s] + Taken(i, s)

\* Every number was taken by one request.
NumbersTaken ==
  /\ \A i \in DOMAIN requests : requests[i].at # "allocate" =>
       \A s \in Sessions : \A n \in Nat : Took(i, s, n) => n < next[s]
  /\ \A i, j \in DOMAIN requests : requests[i].at # "allocate" /\ requests[j].at # "allocate" =>
       \A s \in Sessions : \A n \in Nat : Took(i, s, n) /\ Took(j, s, n) => i = j
  /\ \A s \in Sessions : \A n \in Nat : n < next[s] =>
       \E i \in DOMAIN requests : requests[i].at # "allocate" /\ Took(i, s, n)

\* The log holds the events of the requests that were recorded, and perhaps those of
\* requests that failed.
RowsFit ==
  /\ \A e \in rows : \E i \in DOMAIN requests :
       requests[i].at \in {"link", "answered", "failed"} /\ e \in Numbered(i)
  /\ \A i \in DOMAIN requests : requests[i].at \in {"link", "answered"} => Numbered(i) \subseteq rows

SessionsInv == SessionsShape /\ LocksFit /\ NumbersTaken /\ RowsFit

LEMMA TakenFits ==
  ASSUME RequestsShape, NEW i \in DOMAIN requests, NEW s
  PROVE  Taken(i, s) \in Nat
BY RequestFields, PlacesFinite DEF Taken

LEMMA RequestChanges ==
  ASSUME RequestsShape, NEW i \in DOMAIN requests, NEW q \in RequestRec,
         requests' = [requests EXCEPT ![i] = q]
  PROVE  /\ requests' \in Seq(RequestRec) /\ DOMAIN requests' = DOMAIN requests
         /\ requests'[i] = q /\ \A k \in DOMAIN requests : k # i => requests'[k] = requests[k]
BY DEF RequestsShape

\* The spans and numbers of a request tell its events.
LEMMA NumberedSame ==
  ASSUME NEW k, requests'[k].spans = requests[k].spans, requests'[k].from = requests[k].from
  PROVE  /\ Numbered(k)' = Numbered(k)
         /\ \A s : Taken(k, s)' = Taken(k, s)
         /\ \A s, n : Took(k, s, n)' <=> Took(k, s, n)
<1>1. \A s : Taken(k, s)' = Taken(k, s)
  BY DEF Taken
<1>2. \A s, n : Took(k, s, n)' <=> Took(k, s, n)
  BY <1>1 DEF Took
<1>3. Numbered(k)' = Numbered(k)
  BY DEF Numbered
<1>4. QED
  BY <1>1, <1>2, <1>3

\* A step that takes no row and no number.
SameNumbers(k) ==
  /\ k \in DOMAIN requests
  /\ requests'[k].spans = requests[k].spans /\ requests'[k].from = requests[k].from
  /\ requests'[k].at = "allocate" <=> requests[k].at = "allocate"

NoNumbers(k) ==
  /\ k \in DOMAIN requests => requests[k].at = "allocate"
  /\ requests'[k].at = "allocate" \/ DOMAIN requests'[k].from = {}

LEMMA NumbersStay ==
  ASSUME NumbersTaken, UNCHANGED next, DOMAIN requests \subseteq DOMAIN requests',
         \A k \in DOMAIN requests' : SameNumbers(k) \/ NoNumbers(k)
  PROVE  NumbersTaken'
<1>1. ASSUME NEW k \in DOMAIN requests', SameNumbers(k)
      PROVE  \A s, n : Took(k, s, n)' <=> Took(k, s, n)
  BY <1>1, NumberedSame DEF SameNumbers
<1>2. ASSUME NEW k \in DOMAIN requests', NoNumbers(k), requests'[k].at # "allocate"
      PROVE  \A s, n : ~Took(k, s, n)'
  BY <1>2 DEF NoNumbers, Took
<1>3. ASSUME NEW i \in DOMAIN requests', requests'[i].at # "allocate", NEW s, NEW n, Took(i, s, n)'
      PROVE  i \in DOMAIN requests /\ requests[i].at # "allocate" /\ Took(i, s, n)
  BY <1>1, <1>2, <1>3 DEF SameNumbers
<1>4. ASSUME NEW i \in DOMAIN requests, requests[i].at # "allocate"
      PROVE  i \in DOMAIN requests' /\ requests'[i].at # "allocate" /\ \A s, n : Took(i, s, n) => Took(i, s, n)'
  BY <1>1, <1>4 DEF SameNumbers, NoNumbers
<1>5. \A i \in DOMAIN requests' : requests'[i].at # "allocate" =>
        \A s \in Sessions : \A n \in Nat : Took(i, s, n)' => n < next[s]
  BY <1>3 DEF NumbersTaken
<1>6. \A i, j \in DOMAIN requests' : requests'[i].at # "allocate" /\ requests'[j].at # "allocate" =>
        \A s \in Sessions : \A n \in Nat : Took(i, s, n)' /\ Took(j, s, n)' => i = j
  BY <1>3 DEF NumbersTaken
<1>7. ASSUME NEW s \in Sessions, NEW n \in Nat, n < next[s]
      PROVE  \E i \in DOMAIN requests' : requests'[i].at # "allocate" /\ Took(i, s, n)'
  BY <1>4, <1>7 DEF NumbersTaken
<1>8. QED
  BY <1>5, <1>6, <1>7 DEF NumbersTaken

\* No row is locked.
LEMMA LocksStay ==
  ASSUME LocksFit, UNCHANGED next,
         \A k \in DOMAIN requests' :
           \/ SameNumbers(k)
           \/ requests'[k].at # "allocate"
           \/ DOMAIN requests'[k].from = {}
  PROVE  LocksFit'
<1>1. ASSUME NEW i \in DOMAIN requests', requests'[i].at = "allocate", NEW s \in DOMAIN requests'[i].from
      PROVE  /\ i \in DOMAIN requests /\ requests[i].at = "allocate"
             /\ requests'[i].from = requests[i].from
  BY <1>1 DEF SameNumbers
<1>2. QED
  BY <1>1 DEF LocksFit

\* Nothing is recorded.
LEMMA RowsStay ==
  ASSUME RowsFit, UNCHANGED rows, DOMAIN requests \subseteq DOMAIN requests',
         \A k \in DOMAIN requests' :
           \/ SameNumbers(k)
              /\ (requests'[k].at \in {"link", "answered"} <=> requests[k].at \in {"link", "answered"})
              /\ (requests[k].at = "failed" => requests'[k].at = "failed")
           \/ requests'[k].at \notin {"link", "answered"}
              /\ (k \in DOMAIN requests => requests[k].at \notin {"link", "answered", "failed"})
  PROVE  RowsFit'
<1>1. ASSUME NEW k \in DOMAIN requests', SameNumbers(k)
      PROVE  Numbered(k)' = Numbered(k)
  BY <1>1, NumberedSame DEF SameNumbers
<1>2. ASSUME NEW e \in rows'
      PROVE  \E i \in DOMAIN requests' :
               requests'[i].at \in {"link", "answered", "failed"} /\ e \in Numbered(i)'
  <2>1. PICK i \in DOMAIN requests :
          requests[i].at \in {"link", "answered", "failed"} /\ e \in Numbered(i)
    BY DEF RowsFit
  <2>2. i \in DOMAIN requests' /\ requests'[i].at \in {"link", "answered", "failed"} /\ SameNumbers(i)
    BY <2>1
  <2>3. QED
    BY <1>1, <2>1, <2>2
<1>3. ASSUME NEW i \in DOMAIN requests', requests'[i].at \in {"link", "answered"}
      PROVE  Numbered(i)' \subseteq rows'
  <2>1. SameNumbers(i) /\ i \in DOMAIN requests /\ requests[i].at \in {"link", "answered"}
    BY <1>3 DEF SameNumbers
  <2>2. QED
    BY <1>1, <1>3, <2>1 DEF RowsFit
<1>4. QED
  BY <1>2, <1>3 DEF RowsFit

\* The events of a request are recorded, or some step before has failed.
LEMMA RowsGrow ==
  ASSUME RowsFit, NEW i \in DOMAIN requests, requests[i].at = "ingest",
         rows' \in {rows, rows \cup Numbered(i)},
         requests'[i].at \in {"link", "failed"},
         requests'[i].at = "link" => rows' = rows \cup Numbered(i),
         DOMAIN requests' = DOMAIN requests, \A j \in DOMAIN requests' : SameNumbers(j),
         \A j \in DOMAIN requests : j # i => requests'[j] = requests[j]
  PROVE  RowsFit'
<1>1. \A j \in DOMAIN requests' : Numbered(j)' = Numbered(j)
  BY NumberedSame DEF SameNumbers
<1>2. ASSUME NEW e \in rows'
      PROVE  \E j \in DOMAIN requests' :
               requests'[j].at \in {"link", "answered", "failed"} /\ e \in Numbered(j)'
  <2>1. CASE e \in Numbered(i)
    BY <1>1, <2>1
  <2>2. CASE e \in rows
    <3>1. PICK j \in DOMAIN requests :
            requests[j].at \in {"link", "answered", "failed"} /\ e \in Numbered(j)
      BY <2>2 DEF RowsFit
    <3>2. j # i
      BY <3>1
    <3>3. QED
      BY <1>1, <3>1, <3>2
  <2>3. QED
    BY <2>1, <2>2
<1>3. ASSUME NEW j \in DOMAIN requests', requests'[j].at \in {"link", "answered"}
      PROVE  Numbered(j)' \subseteq rows'
  <2>1. CASE j = i
    BY <1>1, <1>3, <2>1
  <2>2. CASE j # i
    <3>1. Numbered(j) \subseteq rows
      BY <1>3, <2>2 DEF RowsFit
    <3>2. QED
      BY <1>1, <1>3, <3>1
  <2>3. QED
    BY <2>1, <2>2
<1>4. QED
  BY <1>2, <1>3 DEF RowsFit

-----------------------------------------------------------------------------
(* The steps of the receiver. *)

\* A step of the receiver leaves the runs and the exporters alone.
LEMMA ReceiverShape ==
  ASSUME SessionsShape, UNCHANGED <<started, open, ended, sending>>,
         requests' \in Seq(RequestRec), DOMAIN requests' = DOMAIN requests, NumbersShape'
  PROVE  SessionsShape'
BY DEF SessionsShape, RunsShape, RequestsShape, StartedOne

LEMMA FaultTyped ==
  ASSUME NumbersShape, Fault
  PROVE  faults' \in 0 .. MaxFaults
BY SessionsAssumption DEF NumbersShape, Fault

LEMMA MovedFits ==
  ASSUME RequestsShape, NEW i \in DOMAIN requests, NEW to \in Steps, requests' = Moved(i, to)
  PROVE  /\ requests' \in Seq(RequestRec) /\ DOMAIN requests' = DOMAIN requests
         /\ requests'[i].at = to
         /\ requests'[i].spans = requests[i].spans /\ requests'[i].from = requests[i].from
         /\ \A k \in DOMAIN requests : k # i => requests'[k] = requests[k]
<1> DEFINE q == [requests[i] EXCEPT !.at = to]
<1>1. requests[i] \in RequestRec
  BY RequestFields
<1>2. q \in RequestRec
  BY <1>1, Zenon DEF RequestRec
<1>3. q.at = to /\ q.spans = requests[i].spans /\ q.from = requests[i].from
  BY <1>1 DEF RequestRec
<1>4. requests' = [requests EXCEPT ![i] = q]
  BY DEF Moved
<1> HIDE DEF q
<1>5. QED
  BY <1>2, <1>3, <1>4, RequestChanges

LEMMA LockSequenceKeeps ==
  ASSUME SessionsInv, NEW i \in DOMAIN requests, LockSequence(i)
  PROVE  SessionsInv'
<1>1. PICK k \in Unread(i) :
        /\ LockFree(SessionOf(requests[i].spans[k]))
        /\ requests' = [requests EXCEPT ![i].from =
             [t \in DOMAIN @ \cup {SessionOf(requests[i].spans[k])} |->
               IF t = SessionOf(requests[i].spans[k]) THEN next[SessionOf(requests[i].spans[k])] ELSE @[t]]]
  BY Zenon DEF LockSequence
<1> DEFINE s == SessionOf(requests[i].spans[k])
           D == DOMAIN requests[i].from
           g == [t \in D \cup {s} |-> IF t = s THEN next[s] ELSE requests[i].from[t]]
           q == [requests[i] EXCEPT !.from = g]
<1>2. /\ requests[i].at = "allocate"
      /\ UNCHANGED <<started, open, ended, sending, next, rows, linked, faults>>
  BY DEF LockSequence
<1>3. SessionsShape /\ RequestsShape /\ NumbersShape /\ requests[i] \in RequestRec
  BY RequestFields DEF SessionsInv, SessionsShape
<1>4. s \in Sessions /\ s \notin D /\ LockFree(s)
  <2>1. k \in DOMAIN requests[i].spans /\ s \notin D
    BY DEF Unread
  <2>2. requests[i].spans[k] \in Spans
    BY <1>3, <2>1, RequestFields
  <2>3. QED
    BY <1>1, <2>1, <2>2, SpanFields
<1>5. D \subseteq Sessions /\ \A t \in D : requests[i].from[t] \in Nat
  BY <1>3, RequestFields
<1>6. requests' = [requests EXCEPT ![i] = q]
  BY <1>1
<1> HIDE DEF s, D
<1>7. g \in [D \cup {s} -> Nat] /\ DOMAIN g = D \cup {s} /\ g[s] = next[s]
      /\ \A t \in D : g[t] = requests[i].from[t]
  BY <1>3, <1>4, <1>5 DEF NumbersShape
<1> HIDE DEF g
<1>8. g \in SpanFunctions
  BY <1>4, <1>5, <1>7 DEF SpanFunctions
<1>9. q \in RequestRec
  BY <1>3, <1>8, Zenon DEF RequestRec
<1>10. q.at = "allocate" /\ q.spans = requests[i].spans /\ q.from = g
  BY <1>2, <1>3 DEF RequestRec
<1> HIDE DEF q
<1>11. /\ requests' \in Seq(RequestRec) /\ DOMAIN requests' = DOMAIN requests
       /\ requests'[i] = q /\ \A j \in DOMAIN requests : j # i => requests'[j] = requests[j]
  BY <1>3, <1>6, <1>9, RequestChanges
<1>12. LocksFit /\ \A j \in DOMAIN requests : requests[j].at = "allocate" => s \notin DOMAIN requests[j].from
  BY <1>4 DEF LockFree, SessionsInv
<1>13. LocksFit'
  <2>1. ASSUME NEW j \in DOMAIN requests', requests'[j].at = "allocate", NEW t \in DOMAIN requests'[j].from
        PROVE  requests'[j].from[t] = next'[t]
    <3>1. CASE j = i
      BY <1>2, <1>7, <1>10, <1>11, <1>12, <2>1, <3>1 DEF LocksFit, D
    <3>2. CASE j # i
      BY <1>2, <1>11, <1>12, <2>1, <3>2 DEF LocksFit
    <3>3. QED
      BY <3>1, <3>2
  <2>2. ASSUME NEW j \in DOMAIN requests, j # i, requests[j].at = "allocate"
        PROVE  DOMAIN requests'[i].from \cap DOMAIN requests'[j].from = {}
    <3>1. D \cap DOMAIN requests[j].from = {} /\ s \notin DOMAIN requests[j].from
      BY <1>2, <1>12, <2>2 DEF LocksFit, D
    <3>2. QED
      BY <1>7, <1>10, <1>11, <2>2, <3>1
  <2>3. ASSUME NEW j \in DOMAIN requests', NEW m \in DOMAIN requests', j # m,
               requests'[j].at = "allocate", requests'[m].at = "allocate"
        PROVE  DOMAIN requests'[j].from \cap DOMAIN requests'[m].from = {}
    <3>1. CASE j = i
      BY <1>11, <2>2, <2>3, <3>1
    <3>2. CASE m = i
      BY <1>11, <2>2, <2>3, <3>2
    <3>3. CASE j # i /\ m # i
      BY <1>11, <1>12, <2>3, <3>3 DEF LocksFit
    <3>4. QED
      BY <3>1, <3>2, <3>3
  <2>4. QED
    BY <2>1, <2>3 DEF LocksFit
<1>14. \A j \in DOMAIN requests' : j # i => SameNumbers(j)
  BY <1>11 DEF SameNumbers
<1>15. NumbersTaken'
  <2>1. NoNumbers(i)
    BY <1>2, <1>10, <1>11 DEF NoNumbers
  <2>2. \A j \in DOMAIN requests' : SameNumbers(j) \/ NoNumbers(j)
    BY <1>14, <2>1
  <2>3. DOMAIN requests \subseteq DOMAIN requests' /\ UNCHANGED next /\ NumbersTaken
    BY <1>2, <1>11 DEF SessionsInv
  <2>4. QED
    BY ONLY <2>2, <2>3, NumbersStay
<1>16. RowsFit'
  <2>1. \A j \in DOMAIN requests' :
           \/ SameNumbers(j)
              /\ (requests'[j].at \in {"link", "answered"} <=> requests[j].at \in {"link", "answered"})
              /\ (requests[j].at = "failed" => requests'[j].at = "failed")
           \/ requests'[j].at \notin {"link", "answered"}
              /\ (j \in DOMAIN requests => requests[j].at \notin {"link", "answered", "failed"})
    BY <1>2, <1>10, <1>11, <1>14
  <2>2. DOMAIN requests \subseteq DOMAIN requests' /\ UNCHANGED rows /\ RowsFit
    BY <1>2, <1>11 DEF SessionsInv
  <2>3. QED
    BY <2>1, <2>2, RowsStay
<1>17. NumbersShape'
  BY <1>2, <1>3 DEF NumbersShape
<1>18. SessionsShape'
  BY <1>2, <1>3, <1>11, <1>17, ReceiverShape
<1>19. QED
  BY <1>13, <1>15, <1>16, <1>18 DEF SessionsInv

LEMMA AllocateKeeps ==
  ASSUME SessionsInv, NEW i \in DOMAIN requests, allocate_session_sequences(i)
  PROVE  SessionsInv'
<1> DEFINE D == DOMAIN requests[i].from
<1>1. /\ requests[i].at = "allocate" /\ requests' = Moved(i, "ingest")
      /\ next' = [s \in Sessions |-> IF s \in D THEN requests[i].from[s] + Taken(i, s) ELSE next[s]]
      /\ UNCHANGED <<started, open, ended, sending, rows, linked, faults>>
  BY DEF allocate_session_sequences
<1>2. /\ SessionsShape /\ RequestsShape /\ NumbersShape /\ LocksFit /\ NumbersTaken /\ RowsFit
      /\ next \in [Sessions -> Nat]
  BY DEF SessionsInv, SessionsShape, NumbersShape
<1>3. /\ requests' \in Seq(RequestRec) /\ DOMAIN requests' = DOMAIN requests
      /\ requests'[i].at = "ingest"
      /\ requests'[i].spans = requests[i].spans /\ requests'[i].from = requests[i].from
      /\ \A k \in DOMAIN requests : k # i => requests'[k] = requests[k]
  BY <1>1, <1>2, MovedFits DEF Steps
<1>4. /\ D \subseteq Sessions
      /\ \A s \in D : requests[i].from[s] = next[s] /\ Taken(i, s) \in Nat
  BY <1>1, <1>2, RequestFields, TakenFits DEF LocksFit
<1> HIDE DEF D
<1>5. /\ \A s \in D : next'[s] = next[s] + Taken(i, s)
      /\ \A s \in Sessions : s \notin D => next'[s] = next[s]
      /\ \A s \in Sessions : next[s] \in Nat /\ next'[s] \in Nat /\ next[s] <= next'[s]
      /\ next' \in [Sessions -> Nat]
  BY <1>1, <1>2, <1>4
<1>6. \A k \in DOMAIN requests : \A s, n : Took(k, s, n)' <=> Took(k, s, n)
  BY <1>3, NumberedSame
<1>7. \A s, n : Took(i, s, n) <=> s \in D /\ next[s] <= n /\ n < next[s] + Taken(i, s)
  BY <1>4 DEF Took, D
<1>8. LocksFit'
  <2>1. ASSUME NEW j \in DOMAIN requests', requests'[j].at = "allocate"
        PROVE  /\ j # i /\ requests[j].at = "allocate" /\ requests'[j] = requests[j]
               /\ DOMAIN requests[j].from \subseteq Sessions
               /\ \A s \in DOMAIN requests[j].from : s \notin D /\ requests[j].from[s] = next[s]
    <3>1. j # i /\ requests[j].at = "allocate" /\ requests'[j] = requests[j] /\ j \in DOMAIN requests
      BY <1>3, <2>1
    <3>2. DOMAIN requests[j].from \subseteq Sessions
      BY <1>2, <3>1, RequestFields
    <3>3. QED
      BY <1>1, <1>2, <3>1, <3>2 DEF LocksFit, D
  <2>2. ASSUME NEW j \in DOMAIN requests', requests'[j].at = "allocate", NEW s \in DOMAIN requests'[j].from
        PROVE  requests'[j].from[s] = next'[s]
    BY <1>5, <2>1, <2>2
  <2>3. \A j, k \in DOMAIN requests' :
          j # k /\ requests'[j].at = "allocate" /\ requests'[k].at = "allocate" =>
            DOMAIN requests'[j].from \cap DOMAIN requests'[k].from = {}
    BY <1>2, <1>3, <2>1 DEF LocksFit
  <2>4. QED
    BY <2>2, <2>3 DEF LocksFit
<1>9. ASSUME NEW j \in DOMAIN requests', requests'[j].at # "allocate", j # i
      PROVE  j \in DOMAIN requests /\ requests[j].at # "allocate"
  BY <1>3, <1>9
<1>10. ASSUME NEW j \in DOMAIN requests, requests[j].at # "allocate", NEW s \in Sessions, NEW n \in Nat, Took(j, s, n)
       PROVE  n < next[s]
  BY <1>2, <1>10 DEF NumbersTaken
<1>11. NumbersTaken'
  <2>1. ASSUME NEW j \in DOMAIN requests', requests'[j].at # "allocate",
               NEW s \in Sessions, NEW n \in Nat, Took(j, s, n)'
        PROVE  n < next'[s]
    <3>1. Took(j, s, n)
      BY <1>3, <1>6, <2>1
    <3>2. CASE j = i
      BY <1>5, <1>7, <3>1, <3>2
    <3>3. CASE j # i
      <4>1. n < next[s]
        BY <1>9, <1>10, <2>1, <3>1, <3>3
      <4>2. QED
        BY <1>5, <4>1
    <3>4. QED
      BY <3>2, <3>3
  <2>2. ASSUME NEW j \in DOMAIN requests', requests'[j].at # "allocate",
               NEW s \in Sessions, NEW n \in Nat, Took(j, s, n)', Took(i, s, n)'
        PROVE  j = i
    <3>1. SUFFICES ASSUME j # i PROVE FALSE
      OBVIOUS
    <3>2. Took(j, s, n) /\ Took(i, s, n)
      BY <1>3, <1>6, <2>2
    <3>3. n < next[s]
      BY <1>9, <1>10, <2>2, <3>1, <3>2
    <3>4. next[s] <= n
      BY <1>7, <3>2
    <3>5. QED
      BY <1>5, <3>3, <3>4
  <2>3. ASSUME NEW j \in DOMAIN requests', NEW k \in DOMAIN requests',
               requests'[j].at # "allocate", requests'[k].at # "allocate",
               NEW s \in Sessions, NEW n \in Nat, Took(j, s, n)', Took(k, s, n)'
        PROVE  j = k
    <3>1. CASE j = i \/ k = i
      BY <2>2, <2>3, <3>1
    <3>2. CASE j # i /\ k # i
      <4>1. Took(j, s, n) /\ Took(k, s, n)
        BY <1>3, <1>6, <2>3
      <4>2. QED
        BY <1>2, <1>9, <2>3, <3>2, <4>1 DEF NumbersTaken
    <3>3. QED
      BY <3>1, <3>2
  <2>4. ASSUME NEW s \in Sessions, NEW n \in Nat, n < next'[s]
        PROVE  \E j \in DOMAIN requests' : requests'[j].at # "allocate" /\ Took(j, s, n)'
    <3>1. CASE n < next[s]
      <4>1. PICK j \in DOMAIN requests : requests[j].at # "allocate" /\ Took(j, s, n)
        BY <1>2, <3>1 DEF NumbersTaken
      <4>2. j # i
        BY <1>1, <4>1
      <4>3. QED
        BY <1>3, <1>6, <4>1, <4>2
    <3>2. CASE ~(n < next[s])
      <4>1. s \in D /\ next[s] <= n /\ n < next[s] + Taken(i, s)
        BY <1>5, <2>4, <3>2
      <4>2. Took(i, s, n)
        BY <1>7, <4>1
      <4>3. QED
        BY <1>3, <1>6, <4>2
    <3>3. QED
      BY <3>1, <3>2
  <2>5. QED
    BY <2>1, <2>3, <2>4 DEF NumbersTaken
<1>12. RowsFit'
  <2>1. \A j \in DOMAIN requests' : j # i => SameNumbers(j)
    BY <1>3 DEF SameNumbers
  <2>2. \A j \in DOMAIN requests' :
           \/ SameNumbers(j)
              /\ (requests'[j].at \in {"link", "answered"} <=> requests[j].at \in {"link", "answered"})
              /\ (requests[j].at = "failed" => requests'[j].at = "failed")
           \/ requests'[j].at \notin {"link", "answered"}
              /\ (j \in DOMAIN requests => requests[j].at \notin {"link", "answered", "failed"})
    BY <1>1, <1>3, <2>1
  <2>3. DOMAIN requests \subseteq DOMAIN requests' /\ UNCHANGED rows
    BY <1>1, <1>3
  <2>4. QED
    BY <1>2, <2>2, <2>3, RowsStay
<1>13. NumbersShape'
  BY <1>1, <1>2, <1>5 DEF NumbersShape
<1>14. SessionsShape'
  BY <1>1, <1>2, <1>3, <1>13, ReceiverShape
<1>15. QED
  BY <1>8, <1>11, <1>12, <1>14 DEF SessionsInv

LEMMA AllocationFailsKeeps ==
  ASSUME SessionsInv, NEW i \in DOMAIN requests, AllocationFails(i)
  PROVE  SessionsInv'
<1> DEFINE none == [s \in {} |-> 0]
           q == [[requests[i] EXCEPT !.at = "failed"] EXCEPT !.from = none]
<1>1. /\ requests[i].at = "allocate" /\ Fault
      /\ requests' = [Moved(i, "failed") EXCEPT ![i].from = none]
      /\ UNCHANGED <<started, open, ended, sending, next, rows, linked>>
  BY DEF AllocationFails
<1>2. /\ SessionsShape /\ RequestsShape /\ NumbersShape /\ LocksFit /\ NumbersTaken /\ RowsFit
      /\ requests[i] \in RequestRec
  BY RequestFields DEF SessionsInv, SessionsShape
<1>3. requests' = [requests EXCEPT ![i] = q]
  <2>1. requests \in Seq(RequestRec) /\ i \in DOMAIN requests
    BY <1>2 DEF RequestsShape
  <2>2. QED
    BY <1>1, <2>1 DEF Moved
<1>4. none \in [{} -> Nat] /\ DOMAIN none = {}
  OBVIOUS
<1> HIDE DEF none
<1>5. none \in SpanFunctions
  BY <1>4 DEF SpanFunctions
<1>6. q \in RequestRec /\ q.at = "failed" /\ q.from = none
  <2> DEFINE p == [requests[i] EXCEPT !.at = "failed"]
  <2>1. "failed" \in Steps
    BY DEF Steps
  <2>2. p \in RequestRec /\ p.at = "failed"
    <3>1. p \in RequestRec
      BY <1>2, <2>1, Zenon DEF RequestRec
    <3>2. p.at = "failed"
      BY <1>2 DEF RequestRec
    <3>3. QED
      BY <3>1, <3>2
  <2> HIDE DEF p
  <2>3. [p EXCEPT !.from = none] \in RequestRec
    BY <1>5, <2>2, Zenon DEF RequestRec
  <2>4. [p EXCEPT !.from = none].at = "failed" /\ [p EXCEPT !.from = none].from = none
    BY <2>2 DEF RequestRec
  <2>5. QED
    BY <2>3, <2>4 DEF p
<1> HIDE DEF q
<1>7. /\ requests' \in Seq(RequestRec) /\ DOMAIN requests' = DOMAIN requests
      /\ requests'[i] = q /\ \A j \in DOMAIN requests : j # i => requests'[j] = requests[j]
  BY <1>2, <1>3, <1>6, RequestChanges
<1>8. \A j \in DOMAIN requests' : j # i => SameNumbers(j)
  BY <1>7 DEF SameNumbers
<1>9. NumbersTaken'
  <2>1. NoNumbers(i)
    BY <1>1, <1>4, <1>6, <1>7 DEF NoNumbers
  <2>2. \A j \in DOMAIN requests' : SameNumbers(j) \/ NoNumbers(j)
    BY <1>8, <2>1
  <2>3. DOMAIN requests \subseteq DOMAIN requests' /\ UNCHANGED next /\ NumbersTaken
    BY <1>1, <1>2, <1>7
  <2>4. QED
    BY ONLY <2>2, <2>3, NumbersStay
<1>10. LocksFit'
  <2>1. \A j \in DOMAIN requests' :
          SameNumbers(j) \/ requests'[j].at # "allocate" \/ DOMAIN requests'[j].from = {}
    BY <1>4, <1>6, <1>7, <1>8
  <2>2. QED
    BY <1>1, <1>2, <2>1, LocksStay
<1>11. RowsFit'
  <2>1. \A j \in DOMAIN requests' :
           \/ SameNumbers(j)
              /\ (requests'[j].at \in {"link", "answered"} <=> requests[j].at \in {"link", "answered"})
              /\ (requests[j].at = "failed" => requests'[j].at = "failed")
           \/ requests'[j].at \notin {"link", "answered"}
              /\ (j \in DOMAIN requests => requests[j].at \notin {"link", "answered", "failed"})
    BY <1>1, <1>6, <1>7, <1>8
  <2>2. DOMAIN requests \subseteq DOMAIN requests' /\ UNCHANGED rows
    BY <1>1, <1>7
  <2>3. QED
    BY <1>2, <2>1, <2>2, RowsStay
<1>12. NumbersShape'
  BY <1>1, <1>2, FaultTyped DEF NumbersShape
<1>13. SessionsShape'
  BY <1>1, <1>2, <1>7, <1>12, ReceiverShape
<1>14. QED
  BY <1>9, <1>10, <1>11, <1>13 DEF SessionsInv

\* A request goes on after its numbers were taken.
LEMMA MoveKeeps ==
  ASSUME SessionsInv, NEW i \in DOMAIN requests, NEW to \in {"link", "answered", "failed"},
         requests[i].at # "allocate", requests' = Moved(i, to),
         UNCHANGED <<started, open, ended, sending, next>>, linked' \subseteq Runs,
         faults' \in 0 .. MaxFaults
  PROVE  /\ SessionsShape' /\ LocksFit' /\ NumbersTaken'
         /\ DOMAIN requests' = DOMAIN requests /\ requests'[i].at = to
         /\ \A j \in DOMAIN requests' : SameNumbers(j)
         /\ \A j \in DOMAIN requests : j # i => requests'[j] = requests[j]
<1>1. /\ SessionsShape /\ RequestsShape /\ NumbersShape /\ LocksFit /\ NumbersTaken
      /\ to \in Steps
  BY DEF SessionsInv, SessionsShape, Steps
<1>2. /\ requests' \in Seq(RequestRec) /\ DOMAIN requests' = DOMAIN requests
      /\ requests'[i].at = to
      /\ requests'[i].spans = requests[i].spans /\ requests'[i].from = requests[i].from
      /\ \A k \in DOMAIN requests : k # i => requests'[k] = requests[k]
  BY <1>1, MovedFits
<1>3. \A j \in DOMAIN requests' : SameNumbers(j)
  BY <1>2 DEF SameNumbers
<1>4. NumbersTaken'
  BY <1>1, <1>2, <1>3, NumbersStay
<1>5. LocksFit'
  BY <1>1, <1>3, LocksStay
<1>6. NumbersShape'
  BY <1>1 DEF NumbersShape
<1>7. SessionsShape'
  BY <1>1, <1>2, <1>6, ReceiverShape
<1>8. QED
  BY <1>2, <1>3, <1>4, <1>5, <1>7

LEMMA RecordKeeps ==
  ASSUME SessionsInv, NEW i \in DOMAIN requests, otlp_traces(i)
  PROVE  SessionsInv'
<1>1. /\ requests[i].at = "ingest" /\ rows' = rows \cup Numbered(i) /\ requests' = Moved(i, "link")
      /\ UNCHANGED <<started, open, ended, sending, next, linked, faults>>
  BY DEF otlp_traces
<1>2. linked' \subseteq Runs /\ faults' \in 0 .. MaxFaults /\ RowsFit
  BY <1>1 DEF SessionsInv, SessionsShape, NumbersShape
<1>3. /\ SessionsShape' /\ LocksFit' /\ NumbersTaken'
      /\ DOMAIN requests' = DOMAIN requests /\ requests'[i].at = "link"
      /\ \A j \in DOMAIN requests' : SameNumbers(j)
      /\ \A j \in DOMAIN requests : j # i => requests'[j] = requests[j]
  BY <1>1, <1>2, MoveKeeps
<1>4. /\ requests'[i].at \in {"link", "failed"} /\ rows' \in {rows, rows \cup Numbered(i)}
      /\ requests'[i].at = "link" => rows' = rows \cup Numbered(i)
  BY <1>1, <1>3
<1>5. RowsFit'
  BY ONLY <1>1, <1>2, <1>3, <1>4, RowsGrow
<1>6. QED
  BY <1>3, <1>5 DEF SessionsInv

LEMMA IngestFailsKeeps ==
  ASSUME SessionsInv, NEW i \in DOMAIN requests, IngestFails(i)
  PROVE  SessionsInv'
<1>1. /\ requests[i].at = "ingest" /\ requests' = Moved(i, "failed") /\ Fault
      /\ rows' \in {rows, rows \cup Numbered(i)}
      /\ UNCHANGED <<started, open, ended, sending, next, linked>>
  BY DEF IngestFails
<1>2. linked' \subseteq Runs /\ faults' \in 0 .. MaxFaults /\ RowsFit
  BY <1>1, FaultTyped DEF SessionsInv, SessionsShape, NumbersShape
<1>3. /\ SessionsShape' /\ LocksFit' /\ NumbersTaken'
      /\ DOMAIN requests' = DOMAIN requests /\ requests'[i].at = "failed"
      /\ \A j \in DOMAIN requests' : SameNumbers(j)
      /\ \A j \in DOMAIN requests : j # i => requests'[j] = requests[j]
  BY <1>1, <1>2, MoveKeeps
<1>4. /\ requests'[i].at \in {"link", "failed"} /\ rows' \in {rows, rows \cup Numbered(i)}
      /\ requests'[i].at = "link" => rows' = rows \cup Numbered(i)
  BY <1>1, <1>3
<1>5. RowsFit'
  BY ONLY <1>1, <1>2, <1>3, <1>4, RowsGrow
<1>6. QED
  BY <1>3, <1>5 DEF SessionsInv

LEMMA LinkKeeps ==
  ASSUME SessionsInv, NEW i \in DOMAIN requests, link_observed_credentials(i)
  PROVE  SessionsInv'
<1>1. /\ requests[i].at = "link" /\ requests' = Moved(i, "answered")
      /\ \/ linked' = linked \cup {e.run : e \in Numbered(i)} /\ UNCHANGED faults
         \/ Fault /\ UNCHANGED linked
      /\ UNCHANGED <<started, open, ended, sending, next, rows>>
  BY DEF link_observed_credentials
<1>2. RequestsShape /\ NumbersShape /\ RowsFit
  BY DEF SessionsInv, SessionsShape
<1>3. \A e \in Numbered(i) : e.run \in Runs
  <2>1. \A k \in DOMAIN requests[i].spans : requests[i].spans[k].run \in Runs
    BY <1>2, RequestFields, SpanFields
  <2>2. QED
    BY <2>1 DEF Numbered
<1>4. linked' \subseteq Runs /\ faults' \in 0 .. MaxFaults
  BY <1>1, <1>2, <1>3, FaultTyped DEF NumbersShape
<1>5. /\ SessionsShape' /\ LocksFit' /\ NumbersTaken'
      /\ DOMAIN requests' = DOMAIN requests /\ requests'[i].at = "answered"
      /\ \A j \in DOMAIN requests' : SameNumbers(j)
      /\ \A j \in DOMAIN requests : j # i => requests'[j] = requests[j]
  BY <1>1, <1>4, MoveKeeps
<1>6. \A j \in DOMAIN requests' :
        /\ requests'[j].at \in {"link", "answered"} <=> requests[j].at \in {"link", "answered"}
        /\ requests[j].at = "failed" => requests'[j].at = "failed"
  BY <1>1, <1>5
<1>7. RowsFit'
  <2>1. \A j \in DOMAIN requests' :
           \/ SameNumbers(j)
              /\ (requests'[j].at \in {"link", "answered"} <=> requests[j].at \in {"link", "answered"})
              /\ (requests[j].at = "failed" => requests'[j].at = "failed")
           \/ requests'[j].at \notin {"link", "answered"}
              /\ (j \in DOMAIN requests => requests[j].at \notin {"link", "answered", "failed"})
    BY <1>5, <1>6
  <2>2. QED
    BY <1>1, <1>2, <1>5, <2>1, RowsStay
<1>8. QED
  BY <1>5, <1>7 DEF SessionsInv

-----------------------------------------------------------------------------
(* The steps of the agents. *)

\* A batch is sent: for the first time, or again.
LEMMA SendFits ==
  ASSUME SessionsInv, NEW a \in Agents, NEW spans \in Seq(Spans), Send(a, spans),
         Len(sending[a]) < MaxTries, UNCHANGED <<next, rows>>
  PROVE  RequestsShape' /\ LocksFit' /\ NumbersTaken' /\ RowsFit'
<1> DEFINE q == Request(spans)
           n == Len(requests) + 1
           m == Append(sending[a], n)
<1>1. /\ RequestsShape /\ LocksFit /\ NumbersTaken /\ RowsFit
      /\ requests \in Seq(RequestRec) /\ sending \in [Agents -> Seq(Nat)]
  BY DEF SessionsInv, SessionsShape, RequestsShape
<1>2. requests' = Append(requests, q) /\ sending' = [sending EXCEPT ![a] = m]
  BY DEF Send
<1>3. q \in RequestRec /\ q.at = "allocate" /\ DOMAIN q.from = {}
  <2> DEFINE none == [s \in {} |-> 0]
  <2>1. none \in [{} -> Nat] /\ DOMAIN none = {}
    OBVIOUS
  <2>2. q = [spans |-> spans, at |-> "allocate", from |-> none]
    BY DEF Request
  <2> HIDE DEF none
  <2>3. none \in SpanFunctions
    BY <2>1 DEF SpanFunctions
  <2> HIDE DEF q
  <2>4. QED
    BY <2>1, <2>2, <2>3 DEF RequestRec, Steps
<1> HIDE DEF q
<1>4. n \in Nat /\ n \notin DOMAIN requests /\ DOMAIN requests = 1 .. Len(requests)
  BY <1>1
<1>5. /\ requests' \in Seq(RequestRec) /\ DOMAIN requests' = DOMAIN requests \cup {n}
      /\ requests'[n] = q /\ \A k \in DOMAIN requests : requests'[k] = requests[k]
  BY <1>1, <1>2, <1>3, <1>4
<1> HIDE DEF n
<1>6. RequestsShape'
  <2>1. sending[a] \in Seq(Nat) /\ Len(sending[a]) \in Nat
    BY <1>1
  <2>2. /\ m \in Seq(Nat) /\ Len(m) = Len(sending[a]) + 1
        /\ DOMAIN m = DOMAIN sending[a] \cup {Len(sending[a]) + 1}
        /\ m[Len(sending[a]) + 1] = n /\ \A k \in DOMAIN sending[a] : m[k] = sending[a][k]
    BY <1>4, <2>1
  <2>3. Len(m) <= MaxTries
    BY <2>1, <2>2, SessionsAssumption
  <2>4. \A k \in DOMAIN m : m[k] \in DOMAIN requests'
    BY <1>1, <1>5, <2>2 DEF RequestsShape
  <2> HIDE DEF m
  <2>5. /\ sending' \in [Agents -> Seq(Nat)] /\ sending'[a] = m
        /\ \A b \in Agents : b # a => sending'[b] = sending[b]
    BY <1>1, <1>2, <2>2
  <2>6. QED
    BY <1>1, <1>5, <2>3, <2>4, <2>5 DEF RequestsShape
<1>7. \A k \in DOMAIN requests' : SameNumbers(k) \/ k = n
  BY <1>5 DEF SameNumbers
<1>8. NumbersTaken'
  <2>1. NoNumbers(n)
    BY <1>3, <1>4, <1>5 DEF NoNumbers
  <2>2. \A k \in DOMAIN requests' : SameNumbers(k) \/ NoNumbers(k)
    BY <1>7, <2>1
  <2>3. DOMAIN requests \subseteq DOMAIN requests' /\ UNCHANGED next
    BY <1>5
  <2>4. QED
    BY <1>1, <2>2, <2>3, NumbersStay
<1>9. LocksFit'
  <2>1. \A k \in DOMAIN requests' :
          SameNumbers(k) \/ requests'[k].at # "allocate" \/ DOMAIN requests'[k].from = {}
    BY <1>3, <1>5, <1>7
  <2>2. QED
    BY <1>1, <2>1, LocksStay
<1>10. RowsFit'
  <2>1. ASSUME NEW j \in DOMAIN requests'
        PROVE  \/ SameNumbers(j)
                  /\ (requests'[j].at \in {"link", "answered"} <=> requests[j].at \in {"link", "answered"})
                  /\ (requests[j].at = "failed" => requests'[j].at = "failed")
               \/ requests'[j].at \notin {"link", "answered"}
                  /\ (j \in DOMAIN requests => requests[j].at \notin {"link", "answered", "failed"})
    <3>1. CASE j = n
      BY <1>3, <1>4, <1>5, <3>1
    <3>2. CASE j # n
      BY <1>5, <1>7, <2>1, <3>2
    <3>3. QED
      BY <3>1, <3>2
  <2>2. DOMAIN requests \subseteq DOMAIN requests' /\ UNCHANGED rows
    BY <1>5
  <2>3. QED
    BY <1>1, <2>1, <2>2, RowsStay
<1>11. QED
  BY <1>6, <1>8, <1>9, <1>10

\* The requests are as they were.
LEMMA RequestsSame ==
  ASSUME LocksFit, NumbersTaken, RowsFit, UNCHANGED <<requests, next, rows>>
  PROVE  LocksFit' /\ NumbersTaken' /\ RowsFit'
<1>1. \A k : SameNumbers(k) \/ k \notin DOMAIN requests
  BY DEF SameNumbers
<1>2. NumbersTaken'
  BY <1>1, NumbersStay
<1>3. LocksFit'
  BY <1>1, LocksStay
<1>4. RowsFit'
  BY <1>1, RowsStay
<1>5. QED
  BY <1>2, <1>3, <1>4

LEMMA ExportKeeps ==
  ASSUME SessionsInv, NEW a \in Agents, Export(a)
  PROVE  SessionsInv'
<1> DEFINE mine == {s \in ended : AgentOf[s.run] = a}
<1>1. /\ sending[a] = << >> /\ Send(a, Sorted(mine)) /\ ended' = ended \ mine
      /\ UNCHANGED <<started, open, next, rows, linked, faults>>
  BY DEF Export
<1>2. RunsShape /\ NumbersShape /\ mine \in SUBSET ended
  BY DEF SessionsInv, SessionsShape
<1> HIDE DEF mine
<1>3. Sorted(mine) \in Seq(Spans)
  BY <1>2, SortedTyped
<1>4. Len(sending[a]) < MaxTries
  BY <1>1, SessionsAssumption
<1>5. RequestsShape' /\ LocksFit' /\ NumbersTaken' /\ RowsFit'
  BY <1>1, <1>3, <1>4, SendFits
<1>6. RunsShape'
  <2>1. ended' \in SUBSET ended /\ IsFiniteSet(ended)
    BY <1>1, <1>2 DEF RunsShape
  <2>2. IsFiniteSet(ended')
    BY <2>1, FS_Subset
  <2>3. QED
    BY <1>1, <1>2, <2>1, <2>2 DEF RunsShape, StartedOne
<1>7. QED
  BY <1>1, <1>2, <1>5, <1>6 DEF SessionsInv, SessionsShape, NumbersShape

\* The latest request of an exporter.
LEMMA LatestFits ==
  ASSUME RequestsShape, NEW a \in Agents, sending[a] # << >>
  PROVE  Latest(a) \in DOMAIN requests
<1>1. sending[a] \in Seq(Nat)
  BY DEF RequestsShape
<1>2. Len(sending[a]) \in DOMAIN sending[a]
  BY <1>1
<1>3. QED
  BY <1>2 DEF RequestsShape, Latest, Last

\* A batch is done with.
LEMMA ForgetFits ==
  ASSUME RequestsShape, NEW a \in Agents, sending' = [sending EXCEPT ![a] = << >>], UNCHANGED requests
  PROVE  RequestsShape'
<1>1. /\ sending' \in [Agents -> Seq(Nat)] /\ sending'[a] = << >>
      /\ \A b \in Agents : b # a => sending'[b] = sending[b]
  BY DEF RequestsShape
<1>2. QED
  BY <1>1, SessionsAssumption DEF RequestsShape

LEMMA SettledKeeps ==
  ASSUME SessionsInv, NEW a \in Agents, Settled(a)
  PROVE  SessionsInv'
<1>1. /\ sending' = [sending EXCEPT ![a] = << >>]
      /\ UNCHANGED <<started, open, ended, requests, next, rows, linked, faults>>
  BY DEF Settled
<1>2. LocksFit' /\ NumbersTaken' /\ RowsFit'
  BY <1>1, RequestsSame DEF SessionsInv
<1>3. RequestsShape'
  BY <1>1, ForgetFits DEF SessionsInv, SessionsShape
<1>4. QED
  BY <1>1, <1>2, <1>3 DEF SessionsInv, SessionsShape, RunsShape, NumbersShape, StartedOne

LEMMA ResendKeeps ==
  ASSUME SessionsInv, NEW a \in Agents, Resend(a)
  PROVE  SessionsInv'
<1>1. /\ sending[a] # << >>
      /\ UNCHANGED faults \/ Fault
      /\ \/ Len(sending[a]) < MaxTries /\ Send(a, requests[Latest(a)].spans)
         \/ sending' = [sending EXCEPT ![a] = << >>] /\ UNCHANGED requests
      /\ UNCHANGED <<started, open, ended, next, rows, linked>>
  BY DEF Resend
<1>2. RunsShape /\ RequestsShape /\ NumbersShape /\ LocksFit /\ NumbersTaken /\ RowsFit
  BY DEF SessionsInv, SessionsShape
<1>3. RequestsShape' /\ LocksFit' /\ NumbersTaken' /\ RowsFit'
  <2>1. CASE Len(sending[a]) < MaxTries /\ Send(a, requests[Latest(a)].spans)
    <3>1. requests[Latest(a)].spans \in Seq(Spans)
      BY <1>1, <1>2, LatestFits, RequestFields
    <3>2. QED
      BY <1>1, <2>1, <3>1, SendFits
  <2>2. CASE sending' = [sending EXCEPT ![a] = << >>] /\ UNCHANGED requests
    BY <1>1, <1>2, <2>2, RequestsSame, ForgetFits
  <2>3. QED
    BY <1>1, <2>1, <2>2
<1>4. RunsShape'
  BY <1>1, <1>2 DEF RunsShape, StartedOne
<1>5. NumbersShape'
  BY <1>1, <1>2, FaultTyped DEF NumbersShape
<1>6. QED
  BY <1>3, <1>4, <1>5 DEF SessionsInv, SessionsShape

LEMMA StartKeeps ==
  ASSUME SessionsInv, NEW r \in Runs, _start(r)
  PROVE  SessionsInv'
<1> DEFINE p == ParentOf[r]
           root == IF p # NoRun /\ Running(p) THEN open[p] ELSE r
<1>1. /\ ~Contains(started, r) /\ started' = Append(started, r)
      /\ open' = [open EXCEPT ![r] = root]
      /\ UNCHANGED <<ended, sending, requests, next, rows, linked, faults>>
  BY DEF _start
<1>2. RunsShape /\ RequestsShape /\ NumbersShape
  BY DEF SessionsInv, SessionsShape
<1>3. root \in Runs
  <2>1. p \in Runs \cup {NoRun}
    BY SessionsAssumption
  <2>2. QED
    BY <1>2, <2>1 DEF RunsShape, Running
<1> HIDE DEF root, p
<1>4. ~StartedOne(r)
  BY <1>1, <1>2 DEF StartedOne, Contains, RunsShape
<1>5. /\ started' \in Seq(Runs) /\ DOMAIN started' = DOMAIN started \cup {Len(started) + 1}
      /\ started'[Len(started) + 1] = r /\ \A i \in DOMAIN started : started'[i] = started[i]
  BY <1>1, <1>2 DEF RunsShape
<1>6. \A i, j \in DOMAIN started' : started'[i] = started'[j] => i = j
  BY <1>2, <1>4, <1>5 DEF RunsShape, StartedOne
<1>7. StartedOne(r)' /\ \A s : StartedOne(s) => StartedOne(s)'
  BY <1>5 DEF StartedOne
<1>8. /\ open' \in [Runs -> Runs \cup {NoRun}]
      /\ \A s \in Runs : s # r => open'[s] = open[s]
  BY <1>1, <1>2, <1>3 DEF RunsShape
<1>9. \A s \in ended : s.run \in Runs /\ s.run # r
  BY <1>2, <1>4, SpanFields DEF RunsShape
<1>10. RunsShape'
  BY <1>1, <1>2, <1>5, <1>6, <1>7, <1>8, <1>9 DEF RunsShape
<1>11. LocksFit' /\ NumbersTaken' /\ RowsFit'
  BY <1>1, RequestsSame DEF SessionsInv
<1>12. QED
  BY <1>1, <1>2, <1>10, <1>11 DEF SessionsInv, SessionsShape, RequestsShape, NumbersShape

LEMMA FinishKeeps ==
  ASSUME SessionsInv, NEW r \in Runs, _finish(r)
  PROVE  SessionsInv'
<1> DEFINE x == [run |-> r, root |-> open[r]]
<1>1. /\ open[r] # NoRun /\ open' = [open EXCEPT ![r] = NoRun] /\ ended' = ended \cup {x}
      /\ UNCHANGED <<started, sending, requests, next, rows, linked, faults>>
  BY DEF _finish, Running
<1>2. RunsShape /\ RequestsShape /\ NumbersShape
  BY DEF SessionsInv, SessionsShape
<1>3. x \in Spans /\ x.run = r
  BY <1>1, <1>2 DEF Spans, RunsShape
<1> HIDE DEF x
<1>4. IsFiniteSet(ended')
  BY <1>1, <1>2, FS_AddElement DEF RunsShape
<1>5. /\ open' \in [Runs -> Runs \cup {NoRun}] /\ open'[r] = NoRun
      /\ \A s \in Runs : s # r => open'[s] = open[s]
  BY <1>1, <1>2 DEF RunsShape
<1>6. \A s \in ended : s.run \in Runs /\ s.run # r
  BY <1>1, <1>2, SpanFields DEF RunsShape
<1>7. \A s, t \in ended' : s.run = t.run => s = t
  BY <1>1, <1>2, <1>3, <1>6 DEF RunsShape
<1>8. \A s : StartedOne(s)' <=> StartedOne(s)
  BY <1>1 DEF StartedOne
<1>9. \A s \in ended' : StartedOne(s.run) /\ open'[s.run] = NoRun
  BY <1>1, <1>2, <1>3, <1>5, <1>6 DEF RunsShape
<1>10. RunsShape'
  BY <1>1, <1>2, <1>3, <1>4, <1>5, <1>7, <1>8, <1>9 DEF RunsShape
<1>11. LocksFit' /\ NumbersTaken' /\ RowsFit'
  BY <1>1, RequestsSame DEF SessionsInv
<1>12. QED
  BY <1>1, <1>2, <1>10, <1>11 DEF SessionsInv, SessionsShape, RequestsShape, NumbersShape

LEMMA SessionsStart ==
  ASSUME SessionsInit
  PROVE  SessionsInv
<1>1. /\ started = << >> /\ open = [r \in Runs |-> NoRun] /\ ended = {}
      /\ sending = [a \in Agents |-> << >>] /\ requests = << >>
      /\ next = [s \in Sessions |-> 0] /\ rows = {} /\ linked = {} /\ faults = 0
  BY DEF SessionsInit
<1>2. RunsShape
  BY <1>1, FS_EmptySet DEF RunsShape
<1>3. RequestsShape
  BY <1>1, SessionsAssumption DEF RequestsShape
<1>4. NumbersShape
  BY <1>1, SessionsAssumption DEF NumbersShape
<1>5. DOMAIN requests = {}
  BY <1>1
<1>6. LocksFit /\ RowsFit
  BY <1>1, <1>5 DEF LocksFit, RowsFit
<1>7. NumbersTaken
  BY <1>1, <1>5 DEF NumbersTaken
<1>8. QED
  BY <1>2, <1>3, <1>4, <1>6, <1>7 DEF SessionsInv, SessionsShape

LEMMA SessionsStep ==
  ASSUME SessionsInv, [SessionsNext]_sessionsVars
  PROVE  SessionsInv'
<1>1. CASE UNCHANGED sessionsVars
  <2>1. UNCHANGED <<started, open, ended, sending, requests, next, rows, linked, faults>>
    BY <1>1 DEF sessionsVars
  <2>2. LocksFit' /\ NumbersTaken' /\ RowsFit'
    BY <2>1, RequestsSame DEF SessionsInv
  <2>3. QED
    BY <2>1, <2>2
    DEF SessionsInv, SessionsShape, RunsShape, RequestsShape, NumbersShape, StartedOne
<1>2. ASSUME NEW r \in Runs, _start(r) \/ _finish(r) PROVE SessionsInv'
  BY <1>2, StartKeeps, FinishKeeps
<1>3. ASSUME NEW a \in Agents, Export(a) \/ Settled(a) \/ Resend(a) PROVE SessionsInv'
  BY <1>3, ExportKeeps, SettledKeeps, ResendKeeps
<1>4. ASSUME NEW i \in DOMAIN requests,
             \/ LockSequence(i) \/ allocate_session_sequences(i) \/ AllocationFails(i)
             \/ otlp_traces(i) \/ IngestFails(i) \/ link_observed_credentials(i)
      PROVE  SessionsInv'
  BY <1>4, LockSequenceKeeps, AllocateKeeps, AllocationFailsKeeps, RecordKeeps, IngestFailsKeeps,
     LinkKeeps
<1>5. QED
  BY <1>1, <1>2, <1>3, <1>4 DEF SessionsNext

LEMMA SessionsAlways == SessionsSpec => []SessionsInv
<1>1. SessionsInit => SessionsInv
  BY SessionsStart
<1>2. SessionsInv /\ [SessionsNext]_sessionsVars => SessionsInv'
  BY SessionsStep
<1>3. QED
  BY <1>1, <1>2, PTL DEF SessionsSpec

\* What an event of request i looks like.
LEMMA EventOf ==
  ASSUME RequestsShape, NEW i \in DOMAIN requests, NEW e \in Numbered(i)
  PROVE  \E k \in PlacesIn(requests[i].spans, e.session) :
           /\ e = [run |-> requests[i].spans[k].run, session |-> e.session,
                   seq |-> requests[i].from[e.session] + Earlier(requests[i].spans, k), by |-> i]
           /\ e.session \in Sessions /\ e.session \in DOMAIN requests[i].from
           /\ e.run \in Runs
           /\ e.seq = requests[i].from[e.session] + Earlier(requests[i].spans, k)
           /\ e.seq \in Nat /\ Took(i, e.session, e.seq) /\ e.by = i
<1>1. PICK k \in DOMAIN requests[i].spans :
        /\ SessionOf(requests[i].spans[k]) \in DOMAIN requests[i].from
        /\ e = [run |-> requests[i].spans[k].run, session |-> SessionOf(requests[i].spans[k]),
                seq |-> requests[i].from[SessionOf(requests[i].spans[k])] + Earlier(requests[i].spans, k),
                by |-> i]
  BY DEF Numbered
<1> DEFINE s == SessionOf(requests[i].spans[k])
           P == PlacesIn(requests[i].spans, s)
<1>2. /\ requests[i].spans \in Seq(Spans) /\ DOMAIN requests[i].from \subseteq Sessions
      /\ requests[i].from[s] \in Nat
  BY <1>1, RequestFields
<1>3. requests[i].spans[k].run \in Runs
  BY <1>1, <1>2, SpanFields
<1>4. k \in P
  BY <1>1 DEF PlacesIn
<1>5. e.session = s /\ e.by = i /\ e.run = requests[i].spans[k].run
      /\ e.seq = requests[i].from[s] + Earlier(requests[i].spans, k)
  BY <1>1
<1>6. Earlier(requests[i].spans, k) \in 0 .. Cardinality(P) - 1 /\ Cardinality(P) \in Nat
  BY <1>2, <1>4, EarlierFits, PlacesFinite
<1>7. s \in DOMAIN requests[i].from /\ s \in Sessions
  BY <1>1, <1>2
<1>8. e = [run |-> requests[i].spans[k].run, session |-> s,
           seq |-> requests[i].from[s] + Earlier(requests[i].spans, k), by |-> i]
  BY <1>1
<1> HIDE DEF s
<1>9. e.seq \in Nat /\ Took(i, s, e.seq)
  BY <1>2, <1>5, <1>6, <1>7 DEF Took, Taken
<1>10. QED
  BY <1>3, <1>4, <1>5, <1>7, <1>8, <1>9

\* Every variable of the timeline keeps its type.
THEOREM SessionsTypes == SessionsSpec => []SessionsTypeOK
<1>1. SessionsInv => SessionsTypeOK
  <2>1. SUFFICES ASSUME SessionsInv PROVE SessionsTypeOK
    OBVIOUS
  <2>2. RunsShape /\ RequestsShape /\ NumbersShape /\ RowsFit
    BY <2>1 DEF SessionsInv, SessionsShape
  <2>3. \A a \in Agents : sending[a] \in Seq(DOMAIN requests) /\ Len(sending[a]) <= MaxTries
    <3>1. ASSUME NEW a \in Agents PROVE sending[a] \in Seq(DOMAIN requests)
      <4>1. sending[a] \in Seq(Nat) /\ \A k \in DOMAIN sending[a] : sending[a][k] \in DOMAIN requests
        BY <2>2 DEF RequestsShape
      <4>2. QED
        BY <4>1
    <3>2. QED
      BY <2>2, <3>1 DEF RequestsShape
  <2>4. \A e \in rows : e.run \in Runs /\ e.session \in Sessions /\ e.by \in DOMAIN requests
    <3>1. ASSUME NEW e \in rows PROVE e.run \in Runs /\ e.session \in Sessions /\ e.by \in DOMAIN requests
      <4>1. PICK i \in DOMAIN requests : e \in Numbered(i)
        BY <2>2 DEF RowsFit
      <4>2. QED
        BY <2>2, <4>1, EventOf
    <3>2. QED
      BY <3>1
  <2>5. \A i \in DOMAIN requests :
          /\ requests[i].at \in Steps /\ requests[i].spans \in Seq(Spans)
          /\ DOMAIN requests[i].from \subseteq Sessions
    BY <2>2, RequestFields
  <2>6. QED
    BY <2>2, <2>3, <2>4, <2>5 DEF SessionsTypeOK, RunsShape, NumbersShape
<1>2. QED
  BY <1>1, SessionsAlways, PTL

\* No two events of a session have one number, and a gap that the replay shows has a cause,
\* for any number of agents, runs, batches and repeats (normalize.py:237-266).
THEOREM NumbersAlwaysAccounted == SessionsSpec => []NumbersAccounted
<1>1. SessionsInv => NumbersAccounted
  <2>1. SUFFICES ASSUME SessionsInv PROVE NumbersAccounted
    OBVIOUS
  <2>2. RequestsShape /\ NumbersShape /\ NumbersTaken /\ RowsFit
    BY <2>1 DEF SessionsInv, SessionsShape
  <2>3. ASSUME NEW d \in rows, NEW e \in rows, d.session = e.session, d.seq = e.seq
        PROVE  d = e
    <3>1. PICK i \in DOMAIN requests :
            requests[i].at \in {"link", "answered", "failed"} /\ d \in Numbered(i)
      BY <2>2 DEF RowsFit
    <3>2. PICK j \in DOMAIN requests :
            requests[j].at \in {"link", "answered", "failed"} /\ e \in Numbered(j)
      BY <2>2 DEF RowsFit
    <3> DEFINE s == d.session
               spans == requests[i].spans
               P == PlacesIn(spans, s)
    <3>3. PICK k \in P :
            /\ d = [run |-> spans[k].run, session |-> s,
                    seq |-> requests[i].from[s] + Earlier(spans, k), by |-> i]
            /\ s \in Sessions /\ s \in DOMAIN requests[i].from
            /\ d.seq = requests[i].from[s] + Earlier(spans, k)
            /\ d.seq \in Nat /\ Took(i, s, d.seq)
      BY <2>2, <3>1, EventOf
    <3>4. Took(j, s, d.seq)
      <4>1. Took(j, e.session, e.seq)
        BY <2>2, <3>2, EventOf
      <4>2. QED
        BY <2>3, <4>1
    <3>5. i = j
      BY <2>2, <3>1, <3>2, <3>3, <3>4 DEF NumbersTaken
    <3>6. PICK m \in P :
            /\ e = [run |-> spans[m].run, session |-> s,
                    seq |-> requests[i].from[s] + Earlier(spans, m), by |-> i]
            /\ e.seq = requests[i].from[s] + Earlier(spans, m)
      BY <2>2, <2>3, <3>2, <3>5, EventOf
    <3>7. /\ Earlier(spans, k) \in Nat /\ Earlier(spans, m) \in Nat
          /\ (Earlier(spans, k) = Earlier(spans, m) => k = m)
          /\ requests[i].from[s] \in Nat
      <4>1. spans \in Seq(Spans) /\ requests[i].from[s] \in Nat
        BY <2>2, <3>3, RequestFields
      <4>2. /\ Earlier(spans, k) \in 0 .. Cardinality(P) - 1
            /\ Earlier(spans, m) \in 0 .. Cardinality(P) - 1
            /\ (Earlier(spans, k) = Earlier(spans, m) => k = m)
        BY <3>3, <3>6, <4>1, EarlierFits
      <4>3. Cardinality(P) \in Nat
        BY <4>1, PlacesFinite
      <4>4. QED
        BY <4>1, <4>2, <4>3
    <3> HIDE DEF s, spans, P
    <3>8. k = m
      BY <2>3, <3>3, <3>6, <3>7
    <3>9. QED
      BY <3>3, <3>6, <3>8
  <2>4. ASSUME NEW s \in Sessions, NEW n \in Gaps(s)
        PROVE  \E i \in DOMAIN requests : <<s, n>> \in TakenBy(i)
    <3>1. n \in Nat /\ n \notin NumbersOf(s) /\ next[s] \in Nat
          /\ \E m \in NumbersOf(s) : m > n
      BY <2>2 DEF Gaps, NumbersShape
    <3>2. PICK x \in rows : x.session = s /\ x.seq > n
      BY <3>1 DEF NumbersOf
    <3>3. n < next[s]
      <4>1. PICK j \in DOMAIN requests :
              requests[j].at \in {"link", "answered", "failed"} /\ x \in Numbered(j)
        BY <2>2, <3>2 DEF RowsFit
      <4>2. x.seq \in Nat /\ Took(j, s, x.seq)
        BY <2>2, <3>2, <4>1, EventOf
      <4>3. x.seq < next[s]
        BY <2>2, <4>1, <4>2 DEF NumbersTaken
      <4>4. QED
        BY <3>1, <3>2, <4>2, <4>3
    <3>4. PICK i \in DOMAIN requests : requests[i].at # "allocate" /\ Took(i, s, n)
      BY <2>2, <3>1, <3>3 DEF NumbersTaken
    <3> DEFINE spans == requests[i].spans
               P == PlacesIn(spans, s)
    <3>5. /\ spans \in Seq(Spans) /\ s \in DOMAIN requests[i].from /\ requests[i].from[s] \in Nat
          /\ requests[i].from[s] <= n /\ n < requests[i].from[s] + Cardinality(P)
          /\ requests[i].at \in Steps
      BY <2>2, <3>4, RequestFields DEF Took, Taken
    <3>6. Cardinality(P) \in Nat
      BY <3>5, PlacesFinite
    <3>7. n - requests[i].from[s] \in 0 .. Cardinality(P) - 1
      BY <3>1, <3>5, <3>6
    <3>8. PICK k \in P : Earlier(spans, k) = n - requests[i].from[s]
      BY <3>5, <3>7, EarlierFits
    <3> DEFINE e == [run |-> spans[k].run, session |-> s,
                     seq |-> requests[i].from[s] + Earlier(spans, k), by |-> i]
    <3>9. e \in Numbered(i)
      BY <3>5, <3>8 DEF Numbered, PlacesIn
    <3>10. e.session = s /\ e.seq = n
      BY <3>1, <3>5, <3>8
    <3> HIDE DEF e, P, spans
    <3>11. requests[i].at \notin {"link", "answered"}
      <4>1. SUFFICES ASSUME requests[i].at \in {"link", "answered"} PROVE FALSE
        OBVIOUS
      <4>2. e \in rows
        BY <2>2, <3>9, <4>1 DEF RowsFit
      <4>3. n \in NumbersOf(s)
        BY <3>10, <4>2 DEF NumbersOf
      <4>4. QED
        BY <3>1, <4>3
    <3>12. requests[i].at \in {"ingest", "failed"}
      BY <3>4, <3>5, <3>11 DEF Steps
    <3>13. <<s, n>> \in TakenBy(i)
      BY <3>9, <3>10, <3>12 DEF TakenBy
    <3>14. QED
      BY <3>13
  <2>5. QED
    BY <2>3, <2>4 DEF NumbersAccounted
<1>2. QED
  BY <1>1, SessionsAlways, PTL
==============================================================================
