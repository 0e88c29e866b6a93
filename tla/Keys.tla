--------------------------------- MODULE Keys ---------------------------------
(***************************************************************************)
(* The life of the master keys that wrap the data key of every payload.    *)
(* An operator promotes a new key, runs the job that wraps the data keys   *)
(* anew, and drops a retired key once a job has said that it is safe.      *)
(* Processes read the configuration when they start and not again.         *)
(*                                                                         *)
(* A payload is a row of payload_segments; of what it holds, the model     *)
(* keeps the id of the key that wraps it.                                  *)
(***************************************************************************)
EXTENDS Naturals, FiniteSets

CONSTANTS
  MasterKeys,  \* key ids
  Segments,    \* payload_ref
  KeyProcs,    \* API processes
  Jobs,        \* runs of key_rotation.main
  NoKey,
  BATCH_SIZE

VARIABLES
  config,      \* ABX_PAYLOAD_MASTER_KEY and ABX_PAYLOAD_RETIRED_KEYS
  ring,        \* ring[p]: the key ring of a running process
  seg,         \* seg[s]: a payload, and history: the keys declared safe when it was stored
  job,
  safe         \* history: keys that a job has declared safe to drop

keysVars == <<config, ring, seg, job, safe>>

Keyring == [active : MasterKeys, retired : SUBSET MasterKeys]

Places == {"none", "sealed", "stored", "erased"}

JobSteps == {"new", "select", "wrap", "report", "over"}

ASSUME KeysAssumption == BATCH_SIZE \in Nat \ {0} /\ NoKey \notin MasterKeys

KeysTypeOK ==
  /\ config \in Keyring
  /\ ring \in [KeyProcs -> Keyring]
  /\ seg \in [Segments -> [at : Places, key : MasterKeys \cup {NoKey}, by : KeyProcs,
                           late : SUBSET MasterKeys]]
  /\ job \in [Jobs -> [at : JobSteps, ring : Keyring, rows : SUBSET (Segments \X MasterKeys),
                       moved : SUBSET Segments]]
  /\ safe \subseteq MasterKeys

-----------------------------------------------------------------------------
(* Configuration. *)

keys(r) == {r.active} \cup r.retired

\* A new key becomes the active one, and the one before it is kept for reading.
Promote(k) ==
  /\ k \notin keys(config) \cup safe
  /\ config' = [active |-> k, retired |-> keys(config)]
  /\ UNCHANGED <<ring, seg, job, safe>>

\* The operator drops a key that a job has declared safe.
DropKey(k) ==
  /\ k \in config.retired \cap safe
  /\ config' = [config EXCEPT !.retired = @ \ {k}]
  /\ UNCHANGED <<ring, seg, job, safe>>

\* What the process had sealed and not stored is gone.
RestartWithKeys(p) ==
  /\ ring[p] # config
  /\ ring' = [ring EXCEPT ![p] = config]
  /\ seg' = [s \in Segments |-> IF seg[s].at = "sealed" /\ seg[s].by = p
                                THEN [seg[s] EXCEPT !.at = "none", !.key = NoKey] ELSE seg[s]]
  /\ UNCHANGED <<config, job, safe>>

-----------------------------------------------------------------------------
(* Payloads. *)

Stored == {s \in Segments : seg[s].at = "stored"}

\* A job has updated the row and not yet committed.
Held(s) == \E j \in Jobs : s \in job[j].moved

\* Prepared under the active key of the process.
seal(p, s) ==
  /\ seg[s].at = "none"
  /\ seg' = [seg EXCEPT ![s].at = "sealed", ![s].key = ring[p].active, ![s].by = p]
  /\ UNCHANGED <<config, ring, job, safe>>

\* The transaction of the batch commits.
StoreSegment(s) ==
  /\ seg[s].at = "sealed"
  /\ seg' = [seg EXCEPT ![s].at = "stored", ![s].late = safe]
  /\ UNCHANGED <<config, ring, job, safe>>

\* Erasure, or the end of retention.
delete_payload(s) ==
  /\ seg[s].at = "stored" /\ ~Held(s)
  /\ seg' = [seg EXCEPT ![s].at = "erased", ![s].key = NoKey]
  /\ UNCHANGED <<config, ring, job, safe>>

\* What a process answers of a payload: it opens if its key is in the ring.
get_payload(p, s) == seg[s].at = "stored" /\ seg[s].key \in keys(ring[p])

\* What the readiness probe of a process finds.
unreadable_segments(p) == {s \in Stored : ~get_payload(p, s)}

-----------------------------------------------------------------------------
(* The job. *)

\* It has a process, and so a key ring, of its own.
StartJob(j) ==
  /\ job[j].at = "new"
  /\ job' = [job EXCEPT ![j].at = IF config.retired = {} THEN "over" ELSE "select",
                        ![j].ring = config]
  /\ UNCHANGED <<config, ring, seg, safe>>

Pending(j) == {s \in Stored : seg[s].key \in job[j].ring.retired}

\* rewrap_all goes on until a batch has moved nothing.
NextStep(j, moved) == IF moved = {} THEN "report" ELSE "select"

\* SELECT ... LIMIT in no order.
SelectBatch(j) ==
  /\ job[j].at = "select"
  /\ \E S \in SUBSET Pending(j) :
       /\ Cardinality(S) = (IF Cardinality(Pending(j)) < BATCH_SIZE
                            THEN Cardinality(Pending(j)) ELSE BATCH_SIZE)
       /\ job' = [job EXCEPT ![j].at = "wrap", ![j].rows = {<<s, seg[s].key>> : s \in S}]
  /\ UNCHANGED <<config, ring, seg, safe>>

\* Only the row is named.
Matches_Unguarded(s, k) == seg[s].at = "stored"

\* WHERE payload_ref = ... AND master_key_id = ...
Matches(s, k) == seg[s].at = "stored" /\ seg[s].key = k

\* One UPDATE; it waits for a row that another job has updated.
Rewrap(j, s, k) ==
  /\ job[j].at = "wrap" /\ <<s, k>> \in job[j].rows
  /\ \A i \in Jobs \ {j} : s \notin job[i].moved
  /\ job' = [job EXCEPT ![j].rows = @ \ {<<s, k>>},
                        ![j].moved = IF Matches(s, k) THEN @ \cup {s} ELSE @]
  /\ UNCHANGED <<config, ring, seg, safe>>

\* The batch is one transaction.
CommitBatch(j) ==
  /\ job[j].at = "wrap" /\ job[j].rows = {}
  /\ seg' = [s \in Segments |-> IF s \in job[j].moved
                                THEN [seg[s] EXCEPT !.key = job[j].ring.active] ELSE seg[s]]
  /\ job' = [job EXCEPT ![j].at = NextStep(j, job[j].moved), ![j].moved = {}]
  /\ UNCHANGED <<config, ring, safe>>

\* Nothing of the batch in hand remains.
JobDies(j) ==
  /\ job[j].at \in {"select", "wrap", "report"}
  /\ job' = [job EXCEPT ![j].at = "over", ![j].rows = {}, ![j].moved = {}]
  /\ UNCHANGED <<config, ring, seg, safe>>

\* "no segments reference a retired key; it is safe to drop from config"
Report(j) ==
  /\ job[j].at = "report"
  /\ safe' = IF \E s \in Stored : seg[s].key # job[j].ring.active
             THEN safe ELSE safe \cup job[j].ring.retired
  /\ job' = [job EXCEPT ![j].at = "over"]
  /\ UNCHANGED <<config, ring, seg>>

-----------------------------------------------------------------------------
KeysInit ==
  /\ \E k \in MasterKeys :
       /\ config = [active |-> k, retired |-> {}]
       /\ ring = [p \in KeyProcs |-> config]
       /\ job = [j \in Jobs |-> [at |-> "new", ring |-> config, rows |-> {}, moved |-> {}]]
  /\ \E p \in KeyProcs :
       seg = [s \in Segments |-> [at |-> "none", key |-> NoKey, by |-> p, late |-> {}]]
  /\ safe = {}

KeysNext ==
  \/ \E k \in MasterKeys : Promote(k) \/ DropKey(k)
  \/ \E p \in KeyProcs : RestartWithKeys(p)
  \/ \E p \in KeyProcs, s \in Segments : seal(p, s)
  \/ \E s \in Segments : StoreSegment(s) \/ delete_payload(s)
  \/ \E j \in Jobs : \/ StartJob(j) \/ SelectBatch(j) \/ CommitBatch(j)
                     \/ JobDies(j) \/ Report(j)
                     \/ \E s \in Segments, k \in MasterKeys : Rewrap(j, s, k)

KeysSpec == KeysInit /\ [][KeysNext]_keysVars

-----------------------------------------------------------------------------
(* Properties. *)

\* A process that runs with the current configuration can read every payload, except
\* one that was stored after its key had been declared safe to drop: the rounds of the
\* job, two jobs at once and erasures between them leave nothing behind
\* (key_rotation.py:72-125).
ReadableUnlessLate ==
  \A p \in KeyProcs :
    ring[p] = config => \A s \in unreadable_segments(p) : seg[s].key \in seg[s].late
===============================================================================
