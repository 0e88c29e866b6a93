-------------------------------- MODULE Policy --------------------------------
(***************************************************************************)
(* The policy plane of one tenant: versioned policies in PostgreSQL, calls *)
(* of PUT /v1/policy that write them, calls of POST /v1/policy/decide that *)
(* evaluate them, and the memory each API process keeps of a fail-closed   *)
(* policy for the time when the store cannot be reached.                   *)
(*                                                                         *)
(* What a policy matches is given by its conditions, each of which is the  *)
(* set of requests that fulfil it.  A name is its place in the order of    *)
(* names.                                                                  *)
(***************************************************************************)
EXTENDS Naturals, FiniteSets

CONSTANTS
  Names,       \* policy_id
  Bodies,      \* [effect, enabled, on_error, priority, conditions]
  ActionRequests,
  PolicyProcs, \* API processes
  Writes,      \* calls of PUT /v1/policy
  Decisions,   \* calls of POST /v1/policy/decide
  ProcOf,      \* the process that serves a call
  BodyOf,      \* BodyOf[w]: <<name, body>> that the call w writes
  None,        \* no policy is remembered, or cited
  MaxSwitch,   \* bound: changes of the enforcement setting
  MaxRestart   \* bound: restarts of processes

VARIABLES
  policies,    \* the rows of table policies
  enforcement, \* tenant_settings.policy_enforcement
  memory,      \* _FAIL_CLOSED_SEEN of each process, for this tenant
  late,        \* history: <<p, c>>: p has put c into its memory after dropping it for good
  write,       \* write[w]: a call of upsert_policy
  dec,         \* dec[d]: a call of decide_action
  switches,
  restarts

policyVars == <<policies, enforcement, memory, late, write, dec, switches, restarts>>

Effects == {"allow", "deny"}

Rows == [name : Names, version : 1 .. Cardinality(Writes), body : Bodies, live : BOOLEAN]

Cited == (Names \X (1 .. Cardinality(Writes))) \cup {None}

ASSUME PolicyAssumption ==
  /\ Names \subseteq Nat
  /\ \A b \in Bodies : /\ b.effect \in Effects /\ b.on_error \in Effects
                       /\ b.enabled \in BOOLEAN
                       /\ b.priority \in Nat
                       /\ b.conditions \subseteq SUBSET ActionRequests
  /\ Writes \cap Decisions = {} /\ IsFiniteSet(Writes)
  /\ ProcOf \in [Writes \cup Decisions -> PolicyProcs]
  /\ BodyOf \in [Writes -> Names \X Bodies]
  /\ None \notin Names \X Nat

PolicyTypeOK ==
  /\ policies \subseteq Rows
  /\ enforcement \in BOOLEAN
  /\ memory \in [PolicyProcs -> Cited]
  /\ late \subseteq PolicyProcs \X Cited
  /\ write \in [Writes -> [at : {"new", "read", "update", "insert", "forget", "done", "refused", "failed"},
                           version : 0 .. Cardinality(Writes),
                           rows : SUBSET (1 .. Cardinality(Writes))]]
  /\ dec \in [Decisions -> [at : {"new", "setting", "load", "decide", "record", "over", "failed"},
                            request : ActionRequests, enforced : BOOLEAN, loaded : SUBSET Rows,
                            effect : Effects, cited : Cited, degraded : BOOLEAN,
                            confirmed : SUBSET Writes]]
  /\ switches \in 0 .. MaxSwitch
  /\ restarts \in 0 .. MaxRestart

-----------------------------------------------------------------------------
(* Evaluation. *)

is_empty(b) == b.conditions = {}

\* All conditions that are present hold; a policy without any matches nothing.
matches(b, r) == b.enabled /\ ~is_empty(b) /\ \A c \in b.conditions : r \in c

\* ORDER BY priority, policy_id
Before(p, q) ==
  \/ p.body.priority < q.body.priority
  \/ p.body.priority = q.body.priority /\ p.name < q.name

First(rows) == CHOOSE p \in rows : \A q \in rows \ {p} : Before(p, q)

Cite(p) == <<p.name, p.version>>

Verdict(effect, cited, degraded) == [effect |-> effect, cited |-> cited, degraded |-> degraded]

\* The first policy that matches decides; without one the action is allowed.
decide(rows, r) ==
  LET matching == {p \in rows : matches(p.body, r)}
  IN  IF matching = {} THEN Verdict("allow", None, FALSE)
      ELSE Verdict(First(matching).body.effect, Cite(First(matching)), FALSE)

\* Without enforcement the decision is advice.
Advised(v, enforced) == IF enforced THEN v ELSE [v EXCEPT !.effect = "allow"]

Closed(rows) == {p \in rows : p.body.enabled /\ p.body.on_error = "deny"}

\* What a process remembers of the policies it has loaded.
_remember_fail_closed(rows, enforced) ==
  IF enforced /\ Closed(rows) # {} THEN Cite(First(Closed(rows))) ELSE None

\* The store cannot be reached: on_evaluation_failure without any policy allows.
_degraded_decision(p) ==
  IF memory[p] = None THEN Verdict("allow", None, TRUE) ELSE Verdict("deny", memory[p], TRUE)

-----------------------------------------------------------------------------
(* upsert_policy *)

NameOf(w) == BodyOf[w][1]

VersionsOf(n) == {p.version : p \in {q \in policies : q.name = n}}

LiveOf(n) == {p.version : p \in {q \in policies : q.name = n /\ q.live}}

\* 422: a policy must declare a condition.
RefuseWrite(w) ==
  /\ write[w].at = "new" /\ is_empty(BodyOf[w][2])
  /\ write' = [write EXCEPT ![w].at = "refused"]
  /\ UNCHANGED <<policies, enforcement, memory, late, dec, switches, restarts>>

\* SELECT max(version), superseded versions included.
ReadVersion(w) ==
  /\ write[w].at = "new" /\ ~is_empty(BodyOf[w][2])
  /\ write' = [write EXCEPT ![w].at = "read",
       ![w].version = 1 + Cardinality({v \in 1 .. Cardinality(Writes) :
                                         \E u \in VersionsOf(NameOf(w)) : v <= u})]
  /\ UNCHANGED <<policies, enforcement, memory, late, dec, switches, restarts>>

\* The UPDATE begins: it sees the versions that are live now.
UpdateBegins(w) ==
  /\ write[w].at = "read"
  /\ write' = [write EXCEPT ![w].at = "update", ![w].rows = LiveOf(NameOf(w))]
  /\ UNCHANGED <<policies, enforcement, memory, late, dec, switches, restarts>>

\* Another call has updated one of the rows and not yet committed.
LockedFor(w) ==
  \E v \in Writes \ {w} :
    write[v].at = "insert" /\ NameOf(v) = NameOf(w) /\ write[v].rows \cap write[w].rows # {}

\* It has waited for the rows, and updates those that are still live.
UpdateLocks(w) ==
  /\ write[w].at = "update" /\ ~LockedFor(w)
  /\ write' = [write EXCEPT ![w].at = "insert", ![w].rows = @ \cap LiveOf(NameOf(w))]
  /\ UNCHANGED <<policies, enforcement, memory, late, dec, switches, restarts>>

\* Nothing keeps two rows from having one version.
Unique_Not(w) == TRUE

\* UNIQUE (tenant_id, policy_id, version)
Unique(w) == write[w].version \notin VersionsOf(NameOf(w))

Written(w) == [name |-> NameOf(w), version |-> write[w].version, body |-> BodyOf[w][2],
               live |-> TRUE]

\* The INSERT, and the commit of both statements.
InsertPolicy(w) ==
  /\ write[w].at = "insert" /\ Unique(w)
  /\ policies' = {IF p.name = NameOf(w) /\ p.version \in write[w].rows
                  THEN [p EXCEPT !.live = FALSE] ELSE p : p \in policies} \cup {Written(w)}
  /\ write' = [write EXCEPT ![w].at = "forget"]
  /\ UNCHANGED <<enforcement, memory, late, dec, switches, restarts>>

\* The unique key refuses the row, or the connection breaks: nothing is changed.
AbortWrite(w) ==
  /\ write[w].at \in {"read", "update", "insert"}
  /\ write' = [write EXCEPT ![w].at = "failed"]
  /\ UNCHANGED <<policies, enforcement, memory, late, dec, switches, restarts>>

\* What the process remembers stays.
Forget_Not(w) ==
  /\ write[w].at = "forget"
  /\ write' = [write EXCEPT ![w].at = "done"]
  /\ UNCHANGED <<policies, enforcement, memory, late, dec, switches, restarts>>

\* The process that wrote drops what it remembers, and answers.
Forget(w) ==
  /\ write[w].at = "forget"
  /\ memory' = [memory EXCEPT ![ProcOf[w]] = None]
  /\ write' = [write EXCEPT ![w].at = "done"]
  /\ UNCHANGED <<policies, enforcement, late, dec, switches, restarts>>

-----------------------------------------------------------------------------
(* decide_action *)

\* History: the writes that have been answered.
Confirmed == {w \in Writes : write[w].at = "done"}

\* One of the writes W has replaced the version c.
Replaced(c, W) == c # None /\ \E w \in W : NameOf(w) = c[1] /\ c[2] < write[w].version

ServedBy(p) == {w \in Writes : ProcOf[w] = p}

AskDecision(d) ==
  /\ dec[d].at = "new"
  /\ \E r \in ActionRequests :
       dec' = [dec EXCEPT ![d].at = "setting", ![d].request = r, ![d].confirmed = Confirmed]
  /\ UNCHANGED <<policies, enforcement, memory, late, write, switches, restarts>>

ReadSetting(d) ==
  /\ dec[d].at = "setting"
  /\ dec' = [dec EXCEPT ![d].at = "load", ![d].enforced = enforcement]
  /\ UNCHANGED <<policies, enforcement, memory, late, write, switches, restarts>>

\* All versions, also those that were replaced.
Loaded_All == policies

\* superseded_at IS NULL
Loaded == {p \in policies : p.live}

_load(d) ==
  /\ dec[d].at = "load"
  /\ dec' = [dec EXCEPT ![d].at = "decide", ![d].loaded = Loaded]
  /\ UNCHANGED <<policies, enforcement, memory, late, write, switches, restarts>>

Decided(d, v) ==
  dec' = [dec EXCEPT ![d].at = "record", ![d].loaded = {}, ![d].effect = v.effect,
                     ![d].cited = v.cited, ![d].degraded = v.degraded]

\* What was loaded is remembered, whatever has been written since, and evaluated.
Decide(d) ==
  /\ dec[d].at = "decide"
  /\ LET c == _remember_fail_closed(dec[d].loaded, dec[d].enforced)
     IN  /\ memory' = [memory EXCEPT ![ProcOf[d]] = c]
         /\ late' = IF Replaced(c, Confirmed \cap ServedBy(ProcOf[d]))
                    THEN late \cup {<<ProcOf[d], c>>} ELSE late
  /\ Decided(d, Advised(decide(dec[d].loaded, dec[d].request), dec[d].enforced))
  /\ UNCHANGED <<policies, enforcement, write, switches, restarts>>

\* The store cannot be reached.
StoreFails(d) ==
  /\ dec[d].at \in {"setting", "load"}
  /\ Decided(d, _degraded_decision(ProcOf[d]))
  /\ UNCHANGED <<policies, enforcement, memory, late, write, switches, restarts>>

\* The decision is chained, or the failure to do so is logged, and answered.
_record(d) ==
  /\ dec[d].at = "record"
  /\ dec' = [dec EXCEPT ![d].at = "over"]
  /\ UNCHANGED <<policies, enforcement, memory, late, write, switches, restarts>>

-----------------------------------------------------------------------------
SwitchEnforcement ==
  /\ switches < MaxSwitch
  /\ switches' = switches + 1
  /\ enforcement' = ~enforcement
  /\ UNCHANGED <<policies, memory, late, write, dec, restarts>>

\* A process is started again: its memory and its calls are gone.
RestartProc(p) ==
  /\ restarts < MaxRestart
  /\ restarts' = restarts + 1
  /\ memory' = [memory EXCEPT ![p] = None]
  /\ write' = [w \in Writes |-> IF ProcOf[w] = p /\ write[w].at \in {"read", "update", "insert", "forget"}
                                THEN [write[w] EXCEPT !.at = "failed"] ELSE write[w]]
  /\ dec' = [d \in Decisions |-> IF ProcOf[d] = p /\ dec[d].at \in {"setting", "load", "decide", "record"}
                                 THEN [dec[d] EXCEPT !.at = "failed", !.loaded = {}] ELSE dec[d]]
  /\ UNCHANGED <<policies, enforcement, late, switches>>

PolicyInit ==
  /\ policies = {}
  /\ enforcement = FALSE
  /\ memory = [p \in PolicyProcs |-> None] /\ late = {}
  /\ write = [w \in Writes |-> [at |-> "new", version |-> 0, rows |-> {}]]
  /\ \E r \in ActionRequests :
       dec = [d \in Decisions |-> [at |-> "new", request |-> r, enforced |-> FALSE,
                                   loaded |-> {}, effect |-> "allow", cited |-> None,
                                   degraded |-> FALSE, confirmed |-> {}]]
  /\ switches = 0 /\ restarts = 0

PolicyNext ==
  \/ \E w \in Writes : \/ RefuseWrite(w) \/ ReadVersion(w)
                       \/ UpdateBegins(w) \/ UpdateLocks(w)
                       \/ InsertPolicy(w) \/ AbortWrite(w) \/ Forget(w)
  \/ \E d \in Decisions : \/ AskDecision(d) \/ ReadSetting(d) \/ _load(d)
                          \/ Decide(d) \/ StoreFails(d) \/ _record(d)
  \/ SwitchEnforcement
  \/ \E p \in PolicyProcs : RestartProc(p)

PolicySpec == PolicyInit /\ [][PolicyNext]_policyVars

-----------------------------------------------------------------------------
(* Properties. *)

\* Whatever calls write one policy at once, it has one version in force, the
\* latest, and no two rows of one version: it can be told which policy was in
\* force (policy.py:126-177, 0023_runtime_policy.sql).
OneInForce ==
  \A n \in {p.name : p \in policies} :
    /\ \E v \in VersionsOf(n) : LiveOf(n) = {v} /\ \A u \in VersionsOf(n) : u <= v
    /\ \A p, q \in policies : p.name = n /\ q.name = n /\ p.version = q.version => p = q

Answered(d) == dec[d].at \in {"record", "over"}

RowOf(c) == CHOOSE p \in policies : Cite(p) = c

\* The process that serves d has confirmed, before d began, that the version was replaced.
DroppedBefore(d, c) == Replaced(c, dec[d].confirmed \cap ServedBy(ProcOf[d]))

\* An action is denied only for a policy that is enabled: one that matches it and
\* whose replacement had not been confirmed when the call began, or, if the store
\* failed, one that is fail-closed and that the same process has not dropped before:
\* unless another call of it, which had loaded the version earlier, has put it back
\* since (policy.py:180-184, 201-257, 260-301).
DenialsHaveCause ==
  \A d \in Decisions :
    Answered(d) /\ dec[d].effect = "deny" =>
      LET c == dec[d].cited
          b == RowOf(c).body
      IN  IF dec[d].degraded
          THEN /\ b.enabled /\ b.on_error = "deny"
               /\ DroppedBefore(d, c) => <<ProcOf[d], c>> \in late
          ELSE matches(b, dec[d].request) /\ b.effect = "deny" /\ ~Replaced(c, dec[d].confirmed)

\* What the comment at policy.py:273-275 and the test at test_new_surface.py:246-271 say:
\* a fail-closed policy that was turned off before a call began denies it nothing.
OffMeansOff ==
  \A d \in Decisions :
    Answered(d) /\ dec[d].degraded /\ dec[d].effect = "deny" =>
      ~Replaced(dec[d].cited, {w \in dec[d].confirmed : ~BodyOf[w][2].enabled})
===============================================================================
