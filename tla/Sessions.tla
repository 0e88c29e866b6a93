------------------------------- MODULE Sessions -------------------------------
(***************************************************************************)
(* From the runs of an agent to the timeline of a session: the callback    *)
(* handler that turns runs into spans, the exporter that sends them in     *)
(* batches and sends a batch again if no answer comes, the OTLP receiver   *)
(* that numbers the events of each session, and the replay that takes a    *)
(* missing number for a gap.  What ingest_events does is in module Ingest; *)
(* here it records a batch, or fails.                                      *)
(***************************************************************************)
EXTENDS Naturals, Sequences, FiniteSets, SequencesExt

CONSTANTS
  Runs,      \* runs of a chain, a model or a tool
  ParentOf,  \* ParentOf[r]: the run that starts r, or NoRun
  AgentOf,   \* AgentOf[r]: the process with the handler that r is told to
  ContextOf, \* ContextOf[r]: the A2A context that the span names, or NoRun
  NoRun,
  MaxTries,  \* how often an exporter sends a batch
  MaxFaults  \* bound: failures of the receiver, and answers that do not come in time

VARIABLES
  started,   \* the runs in the order of their start
  open,      \* open[r]: root_run_id of an entry of _runs, or NoRun
  ended,     \* spans that were ended and not yet sent: [run, root]
  sending,   \* sending[a]: the requests of a for the batch in hand, latest last
  requests,  \* requests to the receiver, in the order they were sent
  next,      \* session_sequences.next_seq
  rows,      \* the event log: [run, session, seq, by]
  linked,    \* runs whose credential is in the graph, as inferred from traffic
  faults

sessionsVars == <<started, open, ended, sending, requests, next, rows, linked, faults>>

Agents == {AgentOf[r] : r \in Runs}

Sessions == Runs \cup ({ContextOf[r] : r \in Runs} \ {NoRun})

Spans == [run : Runs, root : Runs]

Steps == {"allocate", "ingest", "link", "answered", "failed"}

ASSUME SessionsAssumption ==
  /\ NoRun \notin Runs /\ MaxTries \in Nat \ {0} /\ MaxFaults \in Nat
  /\ ParentOf \in [Runs -> Runs \cup {NoRun}]
  /\ \A r \in Runs : ParentOf[r] # NoRun => AgentOf[ParentOf[r]] = AgentOf[r]

SessionsTypeOK ==
  /\ started \in Seq(Runs)
  /\ open \in [Runs -> Runs \cup {NoRun}]
  /\ ended \subseteq Spans
  /\ \A a \in Agents : sending[a] \in Seq(DOMAIN requests) /\ Len(sending[a]) <= MaxTries
  /\ \A i \in DOMAIN requests :
       /\ requests[i].at \in Steps /\ requests[i].spans \in Seq(Spans)
       /\ DOMAIN requests[i].from \subseteq Sessions
  /\ next \in [Sessions -> Nat]
  /\ \A e \in rows : e.run \in Runs /\ e.session \in Sessions /\ e.by \in DOMAIN requests
  /\ linked \subseteq Runs
  /\ faults \in 0 .. MaxFaults

Fault == faults < MaxFaults /\ faults' = faults + 1

-----------------------------------------------------------------------------
(* The handler in the agent. *)

Running(r) == open[r] # NoRun

\* on_chain_start and the like.  A run whose parent is not known any more is a root.
_start(r) ==
  LET p == ParentOf[r]
  IN  /\ ~Contains(started, r) /\ (p # NoRun => Contains(started, p))
      /\ started' = Append(started, r)
      /\ open' = [open EXCEPT ![r] = IF p # NoRun /\ Running(p) THEN open[p] ELSE r]
      /\ UNCHANGED <<ended, sending, requests, next, rows, linked, faults>>

\* on_chain_end, on_chain_error and the like.
_finish(r) ==
  /\ Running(r)
  /\ open' = [open EXCEPT ![r] = NoRun]
  /\ ended' = ended \cup {[run |-> r, root |-> open[r]]}
  /\ UNCHANGED <<started, sending, requests, next, rows, linked, faults>>

-----------------------------------------------------------------------------
(* The receiver. *)

SessionOf(s) == IF ContextOf[s.run] # NoRun THEN ContextOf[s.run] ELSE s.root

\* The spans of one session.
PlacesIn(spans, s) == {k \in DOMAIN spans : SessionOf(spans[k]) = s}

StartOf(r) == CHOOSE i \in DOMAIN started : started[i] = r

StartedBefore(S, s) == {t \in S : StartOf(t.run) < StartOf(s.run)}

\* normalize_export sorts by the start of the span.
Sorted(S) ==
  [k \in 1 .. Cardinality(S) |-> CHOOSE s \in S : Cardinality(StartedBefore(S, s)) = k - 1]

Request(spans) == [spans |-> spans, at |-> "allocate", from |-> [s \in {} |-> 0]]

Moved(i, to) == [requests EXCEPT ![i].at = to]

\* Two batches read one row.
LockFree_Always(s) == TRUE

\* SELECT ... FOR UPDATE: the row is that of one transaction.
LockFree(s) ==
  \A k \in DOMAIN requests : requests[k].at = "allocate" => s \notin DOMAIN requests[k].from

\* The spans of the sessions whose row was not read yet.
Unread(i) ==
  {k \in DOMAIN requests[i].spans : SessionOf(requests[i].spans[k]) \notin DOMAIN requests[i].from}

\* The rows of session_sequences are locked one after the other, in the order in which the
\* sessions occur, and read.
LockSequence(i) ==
  /\ requests[i].at = "allocate"
  /\ \E k \in Unread(i) :
       LET s == SessionOf(requests[i].spans[k])
       IN  /\ \A j \in Unread(i) : k <= j
           /\ LockFree(s)
           /\ requests' = [requests EXCEPT ![i].from =
                [t \in DOMAIN @ \cup {s} |-> IF t = s THEN next[s] ELSE @[t]]]
  /\ UNCHANGED <<started, open, ended, sending, next, rows, linked, faults>>

Taken(i, s) == Cardinality(PlacesIn(requests[i].spans, s))

\* allocate_session_sequences commits in a transaction of its own.
allocate_session_sequences(i) ==
  /\ requests[i].at = "allocate" /\ Unread(i) = {}
  /\ next' = [s \in Sessions |-> IF s \in DOMAIN requests[i].from
                                 THEN requests[i].from[s] + Taken(i, s) ELSE next[s]]
  /\ requests' = Moved(i, "ingest")
  /\ UNCHANGED <<started, open, ended, sending, rows, linked, faults>>

\* The store fails, or ends a transaction because two wait for each other.
AllocationFails(i) ==
  /\ requests[i].at = "allocate" /\ Fault
  /\ requests' = [Moved(i, "failed") EXCEPT ![i].from = [s \in {} |-> 0]]
  /\ UNCHANGED <<started, open, ended, sending, next, rows, linked>>

\* The place of an event among those of its session.
Earlier(spans, k) == Cardinality({j \in PlacesIn(spans, SessionOf(spans[k])) : j < k})

Numbered(i) ==
  LET spans == requests[i].spans
      from  == requests[i].from
  IN  {[run |-> spans[k].run, session |-> SessionOf(spans[k]),
        seq |-> from[SessionOf(spans[k])] + Earlier(spans, k), by |-> i] :
         k \in {j \in DOMAIN spans : SessionOf(spans[j]) \in DOMAIN from}}

\* ingest_events; an event has an id of its own, also if its span was recorded before.
otlp_traces(i) ==
  /\ requests[i].at = "ingest"
  /\ rows' = rows \cup Numbered(i)
  /\ requests' = Moved(i, "link")
  /\ UNCHANGED <<started, open, ended, sending, next, linked, faults>>

\* Nothing was recorded, or the rows are in the event log when the commit fails: the
\* answer is a failure, and the exporter sends the spans again.
IngestFails(i) ==
  /\ requests[i].at = "ingest" /\ requests' = Moved(i, "failed") /\ Fault
  /\ rows' \in {rows, rows \cup Numbered(i)}
  /\ UNCHANGED <<started, open, ended, sending, next, linked>>

\* One transaction for the batch; its failure is logged, and the answer is the same.
link_observed_credentials(i) ==
  /\ requests[i].at = "link" /\ requests' = Moved(i, "answered")
  /\ \/ linked' = linked \cup {e.run : e \in Numbered(i)} /\ UNCHANGED faults
     \/ Fault /\ UNCHANGED linked
  /\ UNCHANGED <<started, open, ended, sending, next, rows>>

-----------------------------------------------------------------------------
(* The exporter. *)

Send(a, spans) ==
  /\ requests' = Append(requests, Request(spans))
  /\ sending' = [sending EXCEPT ![a] = Append(@, Len(requests) + 1)]

Export(a) ==
  LET mine == {s \in ended : AgentOf[s.run] = a}
  IN  /\ mine # {} /\ sending[a] = << >>
      /\ Send(a, Sorted(mine))
      /\ ended' = ended \ mine
      /\ UNCHANGED <<started, open, next, rows, linked, faults>>

Latest(a) == Last(sending[a])

Settled(a) ==
  /\ sending[a] # << >> /\ requests[Latest(a)].at = "answered"
  /\ sending' = [sending EXCEPT ![a] = << >>]
  /\ UNCHANGED <<started, open, ended, requests, next, rows, linked, faults>>

\* A failure is answered, or no answer comes in time, whatever the receiver goes on to do:
\* the batch is sent again, or dropped.
Resend(a) ==
  /\ sending[a] # << >>
  /\ IF requests[Latest(a)].at = "failed" THEN UNCHANGED faults ELSE Fault
  /\ IF Len(sending[a]) < MaxTries THEN Send(a, requests[Latest(a)].spans)
     ELSE sending' = [sending EXCEPT ![a] = << >>] /\ UNCHANGED requests
  /\ UNCHANGED <<started, open, ended, next, rows, linked>>

SessionsInit ==
  /\ started = << >> /\ open = [r \in Runs |-> NoRun] /\ ended = {}
  /\ sending = [a \in Agents |-> << >>] /\ requests = << >>
  /\ next = [s \in Sessions |-> 0] /\ rows = {} /\ linked = {} /\ faults = 0

SessionsNext ==
  \/ \E r \in Runs : _start(r) \/ _finish(r)
  \/ \E a \in Agents : Export(a) \/ Settled(a) \/ Resend(a)
  \/ \E i \in DOMAIN requests :
       \/ LockSequence(i) \/ allocate_session_sequences(i) \/ AllocationFails(i)
       \/ otlp_traces(i) \/ IngestFails(i) \/ link_observed_credentials(i)

SessionsSpec == SessionsInit /\ [][SessionsNext]_sessionsVars

-----------------------------------------------------------------------------
(* Properties. *)

NumbersOf(s) == {e.seq : e \in {x \in rows : x.session = s}}

\* _load_session: a number that is missing after the first one there is.
Gaps(s) ==
  {n \in 0 .. next[s] : /\ n \notin NumbersOf(s)
                        /\ (\E m \in NumbersOf(s) : m < n) /\ \E m \in NumbersOf(s) : m > n}

TakenBy(i) ==
  IF requests[i].at \in {"ingest", "failed"} THEN {<<e.session, e.seq>> : e \in Numbered(i)} ELSE {}

\* No two events of a session have one number, whatever batches of different agents and
\* repeats of one batch are numbered at once, and a gap that the replay shows has a cause:
\* an export that took the number and has failed, or is still to be recorded
\* (normalize.py:237-266, replay.py:228-236).
NumbersAccounted ==
  /\ \A d, e \in rows : d.session = e.session /\ d.seq = e.seq => d = e
  /\ \A s \in Sessions : \A n \in Gaps(s) : \E i \in DOMAIN requests : <<s, n>> \in TakenBy(i)
===============================================================================
