-------------------------------- MODULE Alerts --------------------------------
(***************************************************************************)
(* From the record to the alerts of one tenant: the hand-over of recorded  *)
(* batches to a Redis stream, the alert workers of the consumer group,     *)
(* POST /v1/alerts/evaluate, the history of a tool's definitions and the   *)
(* alert rows with their cooldown.                                         *)
(*                                                                         *)
(* The rules are reduced to two: one that fires on the event itself, and   *)
(* the rug pull, which depends on the definitions recorded before.  There  *)
(* is one agent with one credential, so an alert is known by its rule.     *)
(*                                                                         *)
(* A definition named Op_Fault is Op with a seeded fault, as in Ingest.    *)
(***************************************************************************)
EXTENDS Naturals, Sequences, FiniteSets, SequencesExt

CONSTANTS
  Events, Batches,
  Batch,       \* Batch[b]: the sequence of events recorded by one ingest call
  Defs,        \* definitions (digests) of the one tool
  NoDef,       \* the event lists no tools
  Tool,        \* Tool[e]: the definition the event observed
  Destructive, \* the events whose operation is destructive
  Workers,     \* alert workers
  Calls,       \* calls of POST /v1/alerts/evaluate
  NoJob,
  Free,        \* nobody holds the row
  Never,       \* there is no alert row
  Cooldown,    \* alert_cooldown_minutes
  MaxTime,     \* bound: ticks of the clock
  MaxDeaths    \* bound: workers that are killed or interrupted

VARIABLES
  record,      \* the events, in the order of chain_seq
  handed,      \* handed[b]: how far the ingest call has come with its batch
  stream,      \* jobs of abx:alert_jobs not yet delivered to the group
  pending,     \* jobs delivered and not acknowledged
  failed,      \* jobs in abx:alert_jobs:failed
  ev,          \* ev[p]: an evaluation, by a worker or a call
  defs,        \* tool_definitions: which are current, which superseded
  alerts,      \* alerts[k]: last_dispatched_at of the alert row
  row,         \* row[k]: whose transaction holds the alert row
  now,
  deaths,
  done,        \* history: events that a worker has evaluated
  cut,         \* history: jobs acknowledged by a worker that was stopped
  owed,        \* history: changes of definition recorded and not yet reported
  overlapped   \* history: two observations of the tool were in progress at once

jobVars == <<handed, stream, pending, failed>>
dataVars == <<defs, alerts, row>>
history == <<done, cut, owed, overlapped>>
vars == <<record, jobVars, ev, dataVars, now, deaths, history>>

Procs == Workers \cup Calls

Rules == {"destructive_operation", "tool_rug_pull"}

Times == 0 .. MaxTime

\* Inside the try block of a worker, or inside a call.
Working ==
  {"next", "tool", "supersede", "record", "alert", "wait", "dispatch", "commit"}

Phases == {"idle", "failing", "ack", "down", "new", "over", "error"} \cup Working

Idle == [at |-> "idle", job |-> NoJob, left |-> << >>, changed |-> FALSE,
         current |-> {}, found |-> << >>, due |-> FALSE, start |-> 0]

ASSUME AlertsAssumption ==
  /\ Batch \in [Batches -> Seq(Events)]
  /\ Tool \in [Events -> Defs \cup {NoDef}]
  /\ NoDef \notin Defs
  /\ Destructive \subseteq Events
  /\ Workers \cap Calls = {}
  /\ NoJob \notin Batches
  /\ Free \notin Procs
  /\ Never \notin Nat
  /\ Cooldown \in Nat \ {0}
  /\ MaxTime \in Nat
  /\ MaxDeaths \in Nat

TypeOK ==
  /\ record \in Seq(Events)
  /\ handed \in [Batches -> {"new", "recorded", "queued", "lost"}]
  /\ stream \in Seq(Batches)
  /\ pending \subseteq Batches /\ failed \subseteq Batches /\ cut \subseteq Batches
  /\ ev \in [Procs -> [at : Phases, job : Batches \cup {NoJob}, left : Seq(Events),
                       changed : BOOLEAN, current : SUBSET Defs, found : Seq(Rules),
                       due : BOOLEAN, start : Times]]
  /\ defs \in [Defs -> {"unseen", "current", "superseded"}]
  /\ alerts \in [Rules -> Times \cup {Never}]
  /\ row \in [Rules -> Procs \cup {Free}]
  /\ now \in Times
  /\ deaths \in 0 .. MaxDeaths
  /\ done \subseteq Events
  /\ owed \subseteq [event : Events, by : Procs]
  /\ overlapped \in BOOLEAN

-----------------------------------------------------------------------------
(* Ingest hands its batches over. *)

\* The transaction of the ingest call commits.
Record(b) ==
  /\ handed[b] = "new"
  /\ record' = record \o Batch[b]
  /\ handed' = [handed EXCEPT ![b] = "recorded"]
  /\ UNCHANGED <<stream, pending, failed, ev, dataVars, now, deaths, history>>

\* After the commit, so that calls may hand over in another order.
enqueue_alerts(b) ==
  /\ handed[b] = "recorded"
  /\ stream' = Append(stream, b)
  /\ handed' = [handed EXCEPT ![b] = "queued"]
  /\ UNCHANGED <<record, pending, failed, ev, dataVars, now, deaths, history>>

\* Redis is down, or the process dies here: the failure is logged at most.
EnqueueFails(b) ==
  /\ handed[b] = "recorded"
  /\ handed' = [handed EXCEPT ![b] = "lost"]
  /\ UNCHANGED <<record, stream, pending, failed, ev, dataVars, now, deaths, history>>

-----------------------------------------------------------------------------
(* The loop of a worker, and a call of the route. *)

Event(p) == Head(ev[p].left)

\* The job is acknowledged when it is read.
Take_Acknowledged(p) ==
  /\ ev[p].at = "idle" /\ stream # << >>
  /\ ev' = [ev EXCEPT ![p] = [Idle EXCEPT !.at = "next", !.job = Head(stream),
                                          !.left = Batch[Head(stream)]]]
  /\ stream' = Tail(stream)
  /\ UNCHANGED <<record, handed, pending, failed, dataVars, now, deaths, history>>

\* A worker reads one new job of the group; jobs that are pending are not new.
Take(p) ==
  /\ ev[p].at = "idle" /\ stream # << >>
  /\ ev' = [ev EXCEPT ![p] = [Idle EXCEPT !.at = "next", !.job = Head(stream),
                                          !.left = Batch[Head(stream)]]]
  /\ stream' = Tail(stream)
  /\ pending' = pending \cup {Head(stream)}
  /\ UNCHANGED <<record, handed, failed, dataVars, now, deaths, history>>

\* A call goes through the newest events (LIMIT 1000), the last one first.
evaluate_all(c) ==
  /\ ev[c].at = "new"
  /\ ev' = [ev EXCEPT ![c] = [Idle EXCEPT !.at = "next", !.left = Reverse(record)]]
  /\ UNCHANGED <<record, jobVars, dataVars, now, deaths, history>>

\* The job is over, or the call answers.
Finish(p) ==
  /\ ev[p].at = "next" /\ ev[p].left = << >>
  /\ ev' = [ev EXCEPT ![p].at = IF p \in Workers THEN "ack" ELSE "over"]
  /\ UNCHANGED <<record, jobVars, dataVars, now, deaths, history>>

Ack(p) ==
  /\ ev[p].at = "ack"
  /\ pending' = pending \ {ev[p].job}
  /\ ev' = [ev EXCEPT ![p] = Idle]
  /\ UNCHANGED <<record, handed, stream, failed, dataVars, now, deaths, history>>

\* The transaction that failed keeps its row.
Released_Not(p) == row

\* The rows once the open transaction of p is over.
Released(p) == [k \in Rules |-> IF row[k] = p THEN Free ELSE row[k]]

\* The error is swallowed and the next event is evaluated.
AfterError_Continue(p) == [ev[p] EXCEPT !.at = "next", !.left = Tail(@)]

\* What an error inside the evaluation of an event leaves: a worker is about to
\* report the job, a call answers 500.
AfterError(p) == [Idle EXCEPT !.job = ev[p].job,
                              !.at = IF p \in Workers THEN "failing" ELSE "error"]

\* A store fails in the middle of an evaluation.
Raise(p) ==
  /\ ev[p].at \in Working /\ ev[p].left # << >>
  /\ ev' = [ev EXCEPT ![p] = AfterError(p)]
  /\ row' = Released(p)
  /\ UNCHANGED <<record, jobVars, defs, alerts, now, deaths, history>>

\* The job goes to the failed stream.
Report(p) ==
  /\ ev[p].at = "failing"
  /\ failed' = failed \cup {ev[p].job}
  /\ ev' = [ev EXCEPT ![p].at = "ack"]
  /\ UNCHANGED <<record, handed, stream, pending, dataVars, now, deaths, history>>

Stop(p) ==
  /\ deaths < MaxDeaths
  /\ deaths' = deaths + 1
  /\ row' = Released(p)
  /\ ev' = [ev EXCEPT ![p] = [Idle EXCEPT !.at = "down"]]
  /\ UNCHANGED <<record, handed, stream, failed, defs, alerts, now, done, owed, overlapped>>

\* The process is killed: the job stays pending.
Kill(p) ==
  /\ ev[p].at # "down"
  /\ Stop(p)
  /\ UNCHANGED <<pending, cut>>

\* A KeyboardInterrupt, or a Redis that refuses the report of a failed job,
\* passes through the finally block: the job is acknowledged, then the process
\* ends.
Interrupt(p) ==
  /\ ev[p].at \in Working \cup {"failing"}
  /\ Stop(p)
  /\ pending' = pending \ {ev[p].job}
  /\ cut' = cut \cup {ev[p].job}

Restart(p) ==
  /\ ev[p].at = "down"
  /\ ev' = [ev EXCEPT ![p] = Idle]
  /\ UNCHANGED <<record, jobVars, dataVars, now, deaths, history>>

-----------------------------------------------------------------------------
(* The evaluation of one event. *)

\* What evaluate returns, in its order.
Candidates(e, changed) ==
  (IF e \in Destructive THEN << "destructive_operation" >> ELSE << >>)
    \o (IF changed THEN << "tool_rug_pull" >> ELSE << >>)

ReadEvent(p) ==
  /\ ev[p].at = "next" /\ ev[p].left # << >>
  /\ ev' = [ev EXCEPT ![p].at = IF Tool[Event(p)] = NoDef THEN "alert" ELSE "tool",
                      ![p].found = Candidates(Event(p), FALSE)]
  /\ UNCHANGED <<record, jobVars, dataVars, now, deaths, history>>

Current == {d \in Defs : defs[d] = "current"}

\* The definition on record is read, the one first seen last if there are two.
ReadDefinition(p) ==
  /\ ev[p].at = "tool"
  /\ \E prior \in IF Current = {} THEN {NoDef} ELSE Current :
       LET changed == prior \notin {NoDef, Tool[Event(p)]}
       IN  ev' = [ev EXCEPT ![p].changed = changed,
                            ![p].current = {},
                            ![p].at = IF changed THEN "supersede" ELSE "record"]
  /\ overlapped' = (overlapped \/ \E q \in Procs \ {p} : ev[q].at \in {"supersede", "record"})
  /\ UNCHANGED <<record, jobVars, dataVars, now, deaths, done, cut, owed>>

\* No row is superseded.
ToSupersede_None == {}

\* The rows the UPDATE will supersede.
ToSupersede == Current

\* The UPDATE begins: it will not see what is inserted while it waits for a row.
Supersede(p) ==
  /\ ev[p].at = "supersede"
  /\ ev' = [ev EXCEPT ![p].current = ToSupersede, ![p].at = "record"]
  /\ UNCHANGED <<record, jobVars, dataVars, now, deaths, history>>

\* The observed definition becomes current and the transaction commits, before
\* anything is reported.
RecordDefinition(p) ==
  /\ ev[p].at = "record"
  /\ defs' = [d \in Defs |-> IF d = Tool[Event(p)] THEN "current"
                             ELSE IF d \in ev[p].current THEN "superseded" ELSE defs[d]]
  /\ ev' = [ev EXCEPT ![p].at = "alert", ![p].changed = FALSE, ![p].current = {},
                      ![p].found = Candidates(Event(p), ev[p].changed)]
  /\ owed' = owed \cup {c \in {[event |-> Event(p), by |-> p]} : ev[p].changed}
  /\ UNCHANGED <<record, jobVars, alerts, row, now, deaths, done, cut, overlapped>>

Rule(p) == Head(ev[p].found)

\* What now() of PostgreSQL will say until the transaction ends.
StartTime == now

\* The transaction of one alert begins; its INSERT waits for the row.
UpsertBegins(p) ==
  /\ ev[p].at = "alert" /\ ev[p].found # << >>
  /\ ev' = [ev EXCEPT ![p].at = "wait", ![p].start = StartTime]
  /\ UNCHANGED <<record, jobVars, dataVars, now, deaths, history>>

\* Nothing was sent yet, or the cooldown is over.
Due(last) == last = Never \/ now >= last + Cooldown

\* The row is read without being locked.
Upsert_Unlocked(p) ==
  /\ ev[p].at = "wait"
  /\ row' = row
  /\ ev' = [ev EXCEPT ![p].due = Due(alerts[Rule(p)]),
                      ![p].at = IF Due(alerts[Rule(p)]) THEN "dispatch" ELSE "commit"]
  /\ UNCHANGED <<record, jobVars, defs, alerts, now, deaths, history>>

\* INSERT ... ON CONFLICT DO UPDATE: the row is locked, and what it says of the
\* last message is read.
Upsert(p) ==
  /\ ev[p].at = "wait" /\ row[Rule(p)] = Free
  /\ row' = [row EXCEPT ![Rule(p)] = p]
  /\ ev' = [ev EXCEPT ![p].due = Due(alerts[Rule(p)]),
                      ![p].at = IF Due(alerts[Rule(p)]) THEN "dispatch" ELSE "commit"]
  /\ UNCHANGED <<record, jobVars, defs, alerts, now, deaths, history>>

\* The message goes to the enabled channels; those that fail are noted.
dispatch_alert(p) ==
  /\ ev[p].at = "dispatch"
  /\ ev' = [ev EXCEPT ![p].at = "commit"]
  /\ UNCHANGED <<record, jobVars, dataVars, now, deaths, history>>

\* The transaction of the alert commits, whether or not a channel took the
\* message.
CommitAlert(p) ==
  /\ ev[p].at = "commit"
  /\ alerts' = IF ev[p].due THEN [alerts EXCEPT ![Rule(p)] = ev[p].start] ELSE alerts
  /\ row' = Released(p)
  /\ ev' = [ev EXCEPT ![p].at = "alert", ![p].found = Tail(@),
                      ![p].due = FALSE, ![p].start = 0]
  /\ owed' = IF Rule(p) = "tool_rug_pull" THEN owed \ {[event |-> Event(p), by |-> p]}
             ELSE owed
  /\ UNCHANGED <<record, jobVars, defs, now, deaths, done, cut, overlapped>>

\* All that was found is reported.
EndEvent(p) ==
  /\ ev[p].at = "alert" /\ ev[p].found = << >>
  /\ ev' = [ev EXCEPT ![p].at = "next", ![p].left = Tail(@)]
  /\ done' = IF p \in Workers THEN done \cup {Event(p)} ELSE done
  /\ UNCHANGED <<record, jobVars, dataVars, now, deaths, cut, owed, overlapped>>

Tick ==
  /\ now < MaxTime
  /\ now' = now + 1
  /\ UNCHANGED <<record, jobVars, ev, dataVars, deaths, history>>

-----------------------------------------------------------------------------
Init ==
  /\ record = << >>
  /\ handed = [b \in Batches |-> "new"]
  /\ stream = << >>
  /\ pending = {} /\ failed = {}
  /\ ev = [p \in Procs |-> IF p \in Workers THEN Idle ELSE [Idle EXCEPT !.at = "new"]]
  /\ defs = [d \in Defs |-> "unseen"]
  /\ alerts = [k \in Rules |-> Never]
  /\ row = [k \in Rules |-> Free]
  /\ now = 0 /\ deaths = 0
  /\ done = {} /\ cut = {} /\ owed = {} /\ overlapped = FALSE

\* evaluate_event_ids, step by step.
Evaluate(p) ==
  \/ ReadEvent(p)
  \/ ReadDefinition(p) \/ Supersede(p) \/ RecordDefinition(p)
  \/ UpsertBegins(p) \/ Upsert(p) \/ dispatch_alert(p) \/ CommitAlert(p)
  \/ EndEvent(p)
  \/ Finish(p)

\* What a worker does by itself.
Work(p) == Take(p) \/ Ack(p) \/ Report(p) \/ Restart(p)

Next ==
  \/ \E b \in Batches : Record(b) \/ enqueue_alerts(b) \/ EnqueueFails(b)
  \/ \E p \in Procs : Evaluate(p) \/ Raise(p)
  \/ \E p \in Workers : Work(p) \/ Kill(p) \/ Interrupt(p)
  \/ \E c \in Calls : evaluate_all(c)
  \/ Tick

\* A worker that runs goes on, and one that has ended is started again
\* (restart: unless-stopped); a call of the route runs to its end.
Fairness ==
  /\ \A p \in Workers : WF_vars(Work(p) \/ Evaluate(p))
  /\ \A c \in Calls : WF_vars(Evaluate(c))

Spec == Init /\ [][Next]_vars

FairSpec == Spec /\ Fairness

-----------------------------------------------------------------------------
(* Properties. *)

EventsOf(b) == {Batch[b][i] : i \in 1 .. Len(Batch[b])}

\* The job is in the stream.
Waiting(b) == \E i \in 1 .. Len(stream) : stream[i] = b

\* A worker holds the job.
Held(b) == \E p \in Workers : ev[p].job = b

\* A job that was handed over is never skipped: once it is acknowledged, each of
\* its events has been evaluated, or it is in the failed stream, or the worker was
\* stopped inside it (alert_worker.py:54-64).
NothingSkipped ==
  \A b \in Batches :
    handed[b] = "queued" /\ ~(b \in pending \/ Waiting(b))
      => b \in failed \cup cut \/ EventsOf(b) \subseteq done

\* A change of definition is recorded before it is reported, and recorded only
\* once (alerts.py:256-265, tool_integrity.py:103-128).  As long as nobody has
\* reported it, somebody can know: its evaluation goes on, or its job is pending or
\* failed, or the worker was stopped in it, or the call answered with an error.
ChangesAccounted ==
  \A c \in owed :
    IF c.by \in Workers
    THEN \E b \in pending \cup failed \cup cut : c.event \in EventsOf(b)
    ELSE ev[c.by].at \in Working \cup {"error"}

\* A tool that was observed has a current definition, and only one unless two
\* observations of it were in progress at once (tool_integrity.py:95-128, run
\* without a lock).
OneDefinition ==
  /\ (\E d \in Defs : defs[d] # "unseen") => Current # {}
  /\ ~overlapped => Cardinality(Current) <= 1

\* A message about the alert k is sent.
Sends(k) ==
  \E p \in Procs : ev[p].at = "dispatch" /\ Rule(p) = k /\ ev'[p].at = "commit"

\* No message is sent within the cooldown of one that is on record, however many
\* workers and calls find the same at once (alerts.py:314-336).  The record keeps
\* the beginning of the transaction that sent it.
CooldownKept ==
  [][\A k \in Rules : Sends(k) => alerts[k] = Never \/ now >= alerts[k] + Cooldown]_vars

\* Evaluated, or known to have failed, or lost with a worker that was stopped.
Settled(b) ==
  \/ EventsOf(b) \subseteq done
  \/ b \in failed \cup cut
  \/ b \in pending /\ ~Held(b)

\* Every job that was handed over is settled in the end; a job is lost only with
\* its worker (alert_worker.py:31-66).
JobsSettle == \A b \in Batches : handed[b] = "queued" ~> Settled(b)

\* The definition observed by the latest event before e that observed one.
PreviousTool(e) ==
  LET at == CHOOSE i \in 1 .. Len(record) : record[i] = e
      before == {i \in 1 .. at - 1 : Tool[record[i]] # NoDef}
  IN  IF before = {} THEN NoDef
      ELSE Tool[record[CHOOSE i \in before : \A j \in before : j <= i]]

\* A change is found only where the event before it in the record observed another
\* definition: a first observation is no change, and unchanged tools do not alert
\* (test_tool_integrity.py:61-69, 96-104).
ChangesAreReal ==
  [][\A c \in owed' \ owed : PreviousTool(c.event) \notin {NoDef, Tool[c.event]}]_vars
===============================================================================
