------------------------------- MODULE Detection -------------------------------
(***************************************************************************)
(* What the alert worker makes of a recorded action of one agent: the      *)
(* facts it gathers from the record, the credential graph and the history  *)
(* of tool definitions, one query after the other and some time after the  *)
(* action was recorded, and the eight rules it applies to them.  How jobs  *)
(* are taken and alerts are sent is module Alerts.                         *)
(*                                                                         *)
(* Time is counted in days.                                                *)
(***************************************************************************)
EXTENDS Naturals, Sequences, SequencesExt, FiniteSetsExt

CONSTANTS
  Acts,           \* recorded actions
  Act,            \* Act[a]: [session, operation, credential, refs, hour, inventory, tools, captured];
                  \* refs are all its references, also those of an inventory and of tools
  KindOf,         \* the class of resources that a reference names
  Past,           \* what was recorded and evaluated before, in order: <<[act, day], ...>>
  DestructiveOps, \* operations that the pattern DESTRUCTIVE finds
  ProdRefs,       \* resources of a production environment
  PoisonedDefs,   \* tool definitions that speak to the model
  NoCredential,
  NoInventory,
  Outcomes,       \* what a scan may find: [flagged, allowed]
  FirstSeen,      \* the day on which the agent was registered
  MaxRefs,        \* how many references of the history a query returns: 10000
  AlertWorkers,   \* how many workers and calls evaluate at once
  Jumps,          \* bound: how many days may pass at once
  MaxToday        \* bound

VARIABLES
  today,
  acts,        \* the record of the agent: [act, day]
  graph,       \* what the scanner has found out about the credential and the agent
  definitions, \* tool_definitions: [tool, digest, first, last, sessions, live]
  look         \* look[a]: the evaluation of a

detectionVars == <<today, acts, graph, definitions, look>>

MIN_BASELINE_DAYS == 7
MIN_BASELINE_SESSIONS == 5
BASELINE_WINDOW_DAYS == 30
FIRE_AT_SCORE == 3

ResourceRefs == UNION {Act[a].refs : a \in Acts}

RuleIds ==
  {"destructive_operation", "credential_outside_scope", "action_volume_spike",
   "environment_crossover", "tool_inventory_drift", "tool_rug_pull", "tool_poisoning",
   "behavioral_deviation"}

Candidates == [rule : RuleIds, severity : {"critical", "high"}]

ASSUME DetectionAssumption ==
  /\ Past \in Seq([act : Acts, day : 0 .. MaxToday])
  /\ \A i, j \in DOMAIN Past : i < j => Past[i].day <= Past[j].day
  /\ \A a \in Acts : Act[a].hour \in 0 .. 23 /\ IsFiniteSet(Act[a].refs)
  /\ Outcomes \subseteq [flagged : BOOLEAN, allowed : SUBSET ResourceRefs]
  /\ FirstSeen \in Nat /\ MaxRefs \in Nat
  /\ AlertWorkers \in Nat /\ Jumps \subseteq Nat /\ MaxToday \in Nat

DetectionTypeOK ==
  /\ today \in 0 .. MaxToday
  /\ \A i \in DOMAIN acts : acts[i].act \in Acts /\ acts[i].day \in 0 .. today
  /\ graph \in [scanned : BOOLEAN, flagged : BOOLEAN, allowed : SUBSET ResourceRefs, prod : BOOLEAN]
  /\ \A d \in definitions : d.first \in 0 .. today /\ d.last \in d.first .. today /\ d.live \in BOOLEAN
  /\ \A a \in Acts : /\ look[a].at \in {"none", "facts", "tools", "baseline", "judge", "over"}
                     /\ look[a].found \subseteq Candidates

-----------------------------------------------------------------------------
(* The record. *)

Entries(days) == {i \in DOMAIN acts : acts[i].day + days >= today}

ActAt(i) == Act[acts[i].act]

\* Also the session under evaluation.
Others_All(a, days) == Entries(days)

\* session_id != ...
Others(a, days) == {i \in Entries(days) : ActAt(i).session # Act[a].session}

SessionsAt(I) == {ActAt(i).session : i \in I}

CountIn(session) == Cardinality({i \in Entries(7) : ActAt(i).session = session})

\* Twice the median number of events of a session; 0 if there is none.
MedianTwice(a) ==
  LET S == SessionsAt(Others(a, 7))
      n == Cardinality(S)
      s == SetToSortSeq({<<CountIn(x), x>> : x \in S}, LAMBDA p, q : p[1] < q[1])
  IN  IF S = {} THEN 0 ELSE s[(n + 1) \div 2][1] + s[n \div 2 + 1][1]

\* Since its first event or, if that was earlier, since it was registered.
HistoryDays == today - Min({acts[1].day} \cup ({FirstSeen} \cap 0 .. today))

\* The latest inventory of another session.
InventoryBefore(a) ==
  LET I == {i \in DOMAIN acts : ActAt(i).session # Act[a].session /\ ActAt(i).inventory # NoInventory}
  IN  {ActAt(i).inventory : i \in {j \in I : \A k \in I : k <= j}}

-----------------------------------------------------------------------------
(* The baseline. *)

\* groupUniqArray and the like, over the other sessions of the window.
build_baseline(a) ==
  LET I == Others(a, BASELINE_WINDOW_DAYS)
  IN  [days        |-> IF I = {} THEN 0 ELSE today - Min({acts[i].day : i \in I}),
       sessions    |-> Cardinality(SessionsAt(I)),
       operations  |-> {ActAt(i).operation : i \in I},
       credentials |-> {ActAt(i).credential : i \in I} \ {NoCredential}]

established(b) == b.days >= MIN_BASELINE_DAYS /\ b.sessions >= MIN_BASELINE_SESSIONS

KindsOf(R) == {KindOf[r] : r \in R}

RefsSeen(a) == UNION {ActAt(i).refs : i \in Others(a, BASELINE_WINDOW_DAYS)}

\* LIMIT: which ones are returned when there are more is not determined.
Cut(a) == Cardinality(RefsSeen(a)) > MaxRefs

RefsRead(a) == IF Cut(a) THEN kSubset(MaxRefs, RefsSeen(a)) ELSE {RefsSeen(a)}

\* Less than a hundredth of what was recorded happened in this hour; also if nothing was.
UnusualHour(a) ==
  LET I == Others(a, BASELINE_WINDOW_DAYS)
  IN  \/ I = {}
      \/ 100 * Cardinality({i \in I : ActAt(i).hour = Act[a].hour}) < Cardinality(I)

NewCredential(a, b) == Act[a].credential \notin b.credentials \cup {NoCredential}

Points(P, n) == IF P THEN n ELSE 0

score(a, b, R) ==
  Points(NewCredential(a, b), 3) + Points(Act[a].operation \notin b.operations, 2)
    + 2 * Cardinality(KindsOf(Act[a].refs) \ KindsOf(R)) + Points(UnusualHour(a), 1)

-----------------------------------------------------------------------------
(* The rules. *)

If(P, r, s) == IF P THEN {[rule |-> r, severity |-> s]} ELSE {}

\* A tool that was redefined after a day, or after three sessions, is the worse case.
_tool_integrity(a) ==
  {[rule |-> "tool_rug_pull",
    severity |-> IF c.days >= 1 \/ c.sessions >= 3 THEN "critical" ELSE "high"] : c \in look[a].changed}
  \cup If(look[a].poisoned, "tool_poisoning", "critical")

_behavioral(a, R) ==
  LET b == look[a].baseline
  IN  If(established(b) /\ score(a, b, R) >= FIRE_AT_SCORE, "behavioral_deviation",
         IF NewCredential(a, b) THEN "critical" ELSE "high")

evaluate(a, facts) ==
  If(Act[a].operation \in DestructiveOps, "destructive_operation", "critical")
  \cup If(facts.scanned /\ (facts.flagged \/ facts.outside), "credential_outside_scope", "critical")
  \cup If(facts.days >= 7 /\ facts.median > 0 /\ 2 * facts.count > 5 * facts.median,
          "action_volume_spike", "high")
  \cup If(facts.crossover, "environment_crossover", "high")
  \cup If(facts.drift, "tool_inventory_drift", "high")

-----------------------------------------------------------------------------
(* The evaluation of an action. *)

Recorded(a) == {i \in DOMAIN acts : acts[i].act = a}

RecordAct(a) ==
  /\ Recorded(a) = {}
  /\ acts' = Append(acts, [act |-> a, day |-> today])
  /\ look' = [look EXCEPT ![a].at = "facts"]
  /\ UNCHANGED <<today, graph, definitions>>

\* Nothing is known of what a credential may reach before a scan has found something.
Outside(a) == graph.allowed # {} /\ ~(Act[a].refs \subseteq graph.allowed)

InHand == {a \in Acts : look[a].at \in {"tools", "baseline", "judge"}}

\* What the graph and the record say of it; the first five rules depend on no more.
_facts(a) ==
  /\ look[a].at = "facts" /\ Cardinality(InHand) < AlertWorkers
  /\ LET facts == [scanned |-> graph.scanned,
                   flagged |-> Act[a].credential # NoCredential /\ graph.flagged,
                   outside |-> Act[a].credential # NoCredential /\ Outside(a),
                   days |-> HistoryDays, median |-> MedianTwice(a), count |-> CountIn(Act[a].session),
                   crossover |-> graph.scanned /\ ~graph.prod /\ Act[a].refs \cap ProdRefs # {},
                   drift |-> /\ Act[a].inventory # NoInventory
                             /\ InventoryBefore(a) \ {Act[a].inventory} # {}]
     IN  look' = [look EXCEPT ![a].at = "tools", ![a].found = evaluate(a, facts)]
  /\ UNCHANGED <<today, acts, graph, definitions>>

DefinitionsOf(t) == {d \in definitions : d.tool = t}

\* The definition of t that was live and differs: how long, and how often seen.
Superseded(t, digest) == {d \in DefinitionsOf(t) : d.live /\ d.digest # digest}

\* Seen again: it counts unless that was in the same second.
Again(d, n) == [d EXCEPT !.live = TRUE, !.last = today, !.sessions = @ + n]

New(t, d) ==
  [tool |-> t, digest |-> d, first |-> today, last |-> today, sessions |-> 1, live |-> TRUE]

Observed(t, digest, n) ==
  LET same == {d \in DefinitionsOf(t) : d.digest = digest}
  IN  {[d EXCEPT !.live = FALSE] : d \in DefinitionsOf(t) \ same}
      \cup IF same = {} THEN {New(t, digest)} ELSE {Again(d, n) : d \in same}

\* Descriptions are known if the payload was captured; that it cannot be read any more
\* is left out.
_payload_body(a) == Act[a].captured

\* Every tool that the action has listed, in one transaction.
record_and_diff(a) ==
  LET listed == DOMAIN Act[a].tools
      old(t) == Superseded(t, Act[a].tools[t])
  IN  /\ look[a].at = "tools"
      /\ \E n \in {0, 1} :
           /\ n = 0 => \E t \in listed : \E d \in DefinitionsOf(t) : d.last = today
           /\ definitions' = {d \in definitions : d.tool \notin listed}
                             \cup UNION {Observed(t, Act[a].tools[t], n) : t \in listed}
      /\ look' = [look EXCEPT ![a].at = "baseline",
           ![a].changed = UNION {{[days |-> today - d.first, sessions |-> d.sessions] : d \in old(t)}
                                 : t \in listed},
           ![a].poisoned = _payload_body(a) /\ \E t \in listed : Act[a].tools[t] \in PoisonedDefs]
      /\ UNCHANGED <<today, acts, graph>>

\* The first of three queries.
ReadBaseline(a) ==
  /\ look[a].at = "baseline"
  /\ look' = [look EXCEPT ![a].at = "judge", ![a].baseline = build_baseline(a), ![a].read = today,
                          ![a].upto = Len(acts)]
  /\ UNCHANGED <<today, acts, graph, definitions>>

\* The two others, of hours and references to resources, and the rules.
Judge(a) ==
  /\ look[a].at = "judge"
  /\ \E R \in RefsRead(a) :
       look' = [look EXCEPT ![a].at = "over", ![a].judged = today, ![a].cut = Cut(a),
                            ![a].found = @ \cup _tool_integrity(a) \cup _behavioral(a, R)]
  /\ UNCHANGED <<today, acts, graph, definitions>>

\* A query fails: the other rules are applied without a baseline.
BaselineFails(a) ==
  /\ look[a].at \in {"baseline", "judge"}
  /\ look' = [look EXCEPT ![a].at = "over", ![a].blind = TRUE, ![a].found = @ \cup _tool_integrity(a)]
  /\ UNCHANGED <<today, acts, graph, definitions>>

-----------------------------------------------------------------------------
\* A scan of the provider ends, with or without a finding for the credential.
ScanSucceeds ==
  /\ ~graph.scanned
  /\ \E o \in Outcomes :
       graph' = [graph EXCEPT !.scanned = TRUE, !.flagged = o.flagged, !.allowed = o.allowed]
  /\ UNCHANGED <<today, acts, definitions, look>>

DaysPass ==
  /\ \E n \in Jumps : today + n <= MaxToday /\ today' = today + n
  /\ UNCHANGED <<acts, graph, definitions, look>>

DetectionInit ==
  /\ today = IF Past = << >> THEN 0 ELSE Last(Past).day
  /\ acts = Past
  /\ \E p \in BOOLEAN : graph = [scanned |-> FALSE, flagged |-> FALSE, allowed |-> {}, prod |-> p]
  /\ definitions = {}
  /\ look = [a \in Acts |->
       [at |-> IF Recorded(a) = {} THEN "none" ELSE "over", found |-> {}, changed |-> {},
        poisoned |-> FALSE, baseline |-> [days |-> 0, sessions |-> 0, operations |-> {}, credentials |-> {}],
        read |-> 0, upto |-> 0, judged |-> 0, cut |-> FALSE, blind |-> Recorded(a) # {}]]

DetectionNext ==
  \/ \E a \in Acts : \/ RecordAct(a) \/ _facts(a) \/ record_and_diff(a)
                     \/ ReadBaseline(a) \/ Judge(a) \/ BaselineFails(a)
  \/ ScanSucceeds \/ DaysPass

DetectionSpec == DetectionInit /\ [][DetectionNext]_detectionVars

-----------------------------------------------------------------------------
(* Properties. *)

Place(a) == CHOOSE i \in DOMAIN acts : acts[i].act = a

\* What other sessions had done before a, and not longer ago than the window on day d.
Before(a, d) ==
  {i \in 1 .. Place(a) - 1 : /\ acts[i].day + BASELINE_WINDOW_DAYS >= d
                             /\ ActAt(i).session # Act[a].session}

Between(a) ==
  {i \in Place(a) + 1 .. look[a].upto : ActAt(i).session # Act[a].session}

HasHistory(a) ==
  LET I == Before(a, look[a].read)
  IN  /\ Cardinality(SessionsAt(I)) >= MIN_BASELINE_SESSIONS
      /\ \E i \in I : acts[i].day + MIN_BASELINE_DAYS <= look[a].read

Behavioral(a) == {c \in look[a].found : c.rule = "behavioral_deviation"}

\* An agent that had a history when it acted and used a credential for the first time is
\* reported as critical, unless another session used it too before the action was
\* evaluated; and no agent is reported that did what other sessions had done before it,
\* whatever is recorded and however many days pass between the queries, as long as their
\* history names no more resources than the query returns: beyond that, a kind that was
\* always used can count as new (baselines.py:33-85, baseline.py:89-137, alerts.py:269-277).
DeviationsReported ==
  \A a \in Acts : look[a].at = "over" /\ ~look[a].blind =>
    /\ HasHistory(a) /\ Act[a].credential # NoCredential
         /\ (\A i \in Before(a, look[a].read) \cup Between(a) : ActAt(i).credential # Act[a].credential)
       => [rule |-> "behavioral_deviation", severity |-> "critical"] \in Behavioral(a)
    /\ LET I == Before(a, look[a].judged)
       IN  /\ ~look[a].cut
           /\ Act[a].operation \in {ActAt(i).operation : i \in I}
           /\ KindsOf(Act[a].refs) \subseteq UNION {KindsOf(ActAt(i).refs) : i \in I}
           /\ Act[a].credential \in {ActAt(i).credential : i \in I} \cup {NoCredential}
           => Behavioral(a) = {}
===============================================================================
