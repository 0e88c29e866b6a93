----------------------------- MODULE AlertsProofs -----------------------------
(***************************************************************************)
(* Proofs about the alert workers and the calls that evaluate again, for   *)
(* any number of events, batches, definitions, workers and calls.          *)
(***************************************************************************)
EXTENDS Alerts, FiniteSetTheorems, TLAPS

-----------------------------------------------------------------------------
(* Evaluations. *)

EvRec == [at : Phases, job : Batches \cup {NoJob}, left : Seq(Events),
          changed : BOOLEAN, current : SUBSET Defs, found : Seq(Rules),
          due : BOOLEAN, start : Times]

\* An evaluation has an event in hand where it needs one, and what it found where it
\* reports; workers and calls keep to their phases, and only a worker has a job.
Fits(p) ==
  /\ ev[p].at \in Working \ {"next"} => ev[p].left # << >>
  /\ ev[p].at \in {"wait", "dispatch", "commit"} => ev[p].found # << >>
  /\ ev[p].at \in {"tool", "supersede", "record"} => Tool[Event(p)] # NoDef
  /\ p \in Workers => ev[p].at \notin {"new", "over", "error"}
  /\ p \in Calls => ev[p].at \notin {"idle", "failing", "ack", "down"} /\ ev[p].job = NoJob
  /\ p \in Workers => (ev[p].job = NoJob <=> ev[p].at \in {"idle", "down"})

EvFits == \A p \in Procs : Fits(p)

EvalInv == TypeOK /\ EvFits

\* Only the evaluation of p moves.
Only(p) == ev' \in [Procs -> EvRec] /\ \A q \in Procs \ {p} : ev'[q] = ev[q]

LEMMA IdleType == Idle \in EvRec /\ Idle.at = "idle" /\ Idle.job = NoJob /\ Idle.left = << >>
                  /\ Idle.found = << >>
BY AlertsAssumption DEF Idle, EvRec, Phases, Times

LEMMA EvType == EvalInv => ev \in [Procs -> EvRec]
BY DEF EvalInv, TypeOK, EvRec

LEMMA PhaseNames ==
  {"next", "tool", "supersede", "record", "alert", "wait", "dispatch", "commit", "idle",
   "failing", "ack", "down", "new", "over", "error"} = Phases
BY DEF Phases, Working

LEMMA Replaced ==
  ASSUME TypeOK, NEW p \in Procs, NEW r \in EvRec, ev' = [ev EXCEPT ![p] = r]
  PROVE  Only(p) /\ ev'[p] = r
BY DEF TypeOK, Only, EvRec

\* The first of what is left, and the rest.
LEMMA HeadTail ==
  ASSUME NEW S, NEW s \in Seq(S), s # << >>
  PROVE  /\ Head(s) \in S /\ Tail(s) \in Seq(S) /\ Head(s) \in ToSet(s)
         /\ ToSet(s) = {Head(s)} \cup ToSet(Tail(s))
<1>1. /\ Len(s) \in Nat \ {0} /\ Head(s) = s[1] /\ Tail(s) \in Seq(S)
      /\ Len(Tail(s)) = Len(s) - 1 /\ \A i \in 1 .. Len(s) - 1 : Tail(s)[i] = s[i + 1]
      /\ DOMAIN s = 1 .. Len(s) /\ DOMAIN Tail(s) = 1 .. Len(s) - 1
  OBVIOUS
<1>2. ToSet(s) = {s[i] : i \in 1 .. Len(s)}
      /\ ToSet(Tail(s)) = {Tail(s)[i] : i \in 1 .. Len(s) - 1}
  BY <1>1 DEF ToSet
<1>3. ASSUME NEW x \in ToSet(s) PROVE x = s[1] \/ x \in ToSet(Tail(s))
  <2>1. PICK i \in 1 .. Len(s) : x = s[i]
    BY <1>2
  <2>2. CASE i = 1
    BY <2>1, <2>2
  <2>3. CASE i # 1
    <3>1. i - 1 \in 1 .. Len(s) - 1 /\ Tail(s)[i - 1] = s[i]
      BY <1>1, <2>3
    <3>2. QED
      BY <1>2, <2>1, <3>1
  <2>4. QED
    BY <2>2, <2>3
<1>4. s[1] \in ToSet(s) /\ \A x \in ToSet(Tail(s)) : x \in ToSet(s)
  BY <1>1, <1>2
<1>5. s[1] \in S
  BY <1>1
<1>6. QED
  BY <1>1, <1>3, <1>4, <1>5

LEMMA CandidatesType ==
  ASSUME NEW e, NEW c \in BOOLEAN
  PROVE  /\ Candidates(e, c) \in Seq(Rules)
         /\ c => "tool_rug_pull" \in ToSet(Candidates(e, c))
<1>1. << "destructive_operation" >> \in Seq(Rules) /\ << "tool_rug_pull" >> \in Seq(Rules)
      /\ << >> \in Seq(Rules)
  BY DEF Rules
<1>2. Candidates(e, c) \in Seq(Rules)
  BY <1>1 DEF Candidates
<1>3. ASSUME c PROVE "tool_rug_pull" \in ToSet(Candidates(e, c))
  <2>1. CASE e \in Destructive
    <3>1. Candidates(e, c) = << "destructive_operation" >> \o << "tool_rug_pull" >>
      BY <1>3, <2>1 DEF Candidates
    <3>2. Len(Candidates(e, c)) = 2 /\ Candidates(e, c)[2] = "tool_rug_pull"
      BY <1>1, <3>1
    <3>3. QED
      BY <1>2, <3>2 DEF ToSet
  <2>2. CASE e \notin Destructive
    <3>1. Candidates(e, c) = << "tool_rug_pull" >>
      BY <1>3, <2>2 DEF Candidates
    <3>2. QED
      BY <3>1 DEF ToSet
  <2>3. QED
    BY <2>1, <2>2
<1>4. QED
  BY <1>2, <1>3

-----------------------------------------------------------------------------
(* What the steps of an evaluation do to it. *)

LEMMA TakeMoves ==
  ASSUME EvalInv, NEW p \in Workers, Take(p)
  PROVE  /\ Only(p) /\ ev[p].at = "idle" /\ stream # << >> /\ Head(stream) \in Batches
         /\ ev'[p].at = "next" /\ ev'[p].job = Head(stream) /\ ev'[p].left = Batch[Head(stream)]
         /\ ev'[p].found = << >>
<1> DEFINE b == Head(stream)
           r == [Idle EXCEPT !.at = "next", !.job = b, !.left = Batch[b]]
<1>1. ev[p].at = "idle" /\ stream # << >> /\ ev' = [ev EXCEPT ![p] = r]
  BY DEF Take
<1>2. b \in Batches
  BY <1>1 DEF EvalInv, TypeOK
<1>3. Batch[b] \in Seq(Events)
  BY <1>2, AlertsAssumption
<1>4. r \in EvRec /\ r.at = "next" /\ r.job = b /\ r.left = Batch[b] /\ r.found = << >>
  <2> HIDE DEF b
  <2> QED
    BY <1>2, <1>3, IdleType DEF EvRec, Phases, Working
<1> HIDE DEF r
<1>5. p \in Procs
  BY DEF Procs
<1>6. Only(p) /\ ev'[p] = r
  BY <1>1, <1>4, <1>5, Replaced DEF EvalInv
<1>7. QED
  BY <1>1, <1>2, <1>4, <1>6

LEMMA EvaluateAllMoves ==
  ASSUME EvalInv, NEW c \in Calls, evaluate_all(c)
  PROVE  /\ Only(c) /\ ev[c].at = "new" /\ ev'[c].at = "next" /\ ev'[c].job = NoJob
         /\ ev'[c].found = << >>
<1> DEFINE r == [Idle EXCEPT !.at = "next", !.left = Reverse(record)]
<1>1. ev[c].at = "new" /\ ev' = [ev EXCEPT ![c] = r]
  BY DEF evaluate_all
<1>2. Reverse(record) \in Seq(Events)
  BY DEF Reverse, EvalInv, TypeOK
<1>3. r \in EvRec /\ r.at = "next" /\ r.job = NoJob /\ r.found = << >>
  <2>1. ASSUME NEW s \in Seq(Events)
        PROVE  LET x == [Idle EXCEPT !.at = "next", !.left = s]
               IN  x \in EvRec /\ x.at = "next" /\ x.job = NoJob /\ x.found = << >>
    BY IdleType DEF EvRec, Phases, Working
  <2>2. QED
    BY <1>2, <2>1
<1> HIDE DEF r
<1>4. c \in Procs
  BY DEF Procs
<1>5. QED
  BY <1>1, <1>3, <1>4, Replaced DEF EvalInv

\* Steps that change where an evaluation is, and nothing of what it has found.
LEMMA FinishMoves ==
  ASSUME EvalInv, NEW p \in Procs, Finish(p)
  PROVE  /\ Only(p) /\ ev[p].at = "next" /\ ev[p].left = << >>
         /\ ev'[p].at = (IF p \in Workers THEN "ack" ELSE "over")
         /\ ev'[p].job = ev[p].job /\ ev'[p].left = ev[p].left /\ ev'[p].found = ev[p].found
<1>1. ev[p].at = "next" /\ ev[p].left = << >>
  BY DEF Finish
<1>2. ASSUME NEW a \in Phases, ev' = [ev EXCEPT ![p].at = a]
      PROVE  /\ Only(p) /\ ev'[p].at = a
             /\ ev'[p].job = ev[p].job /\ ev'[p].left = ev[p].left /\ ev'[p].found = ev[p].found
  BY <1>2, EvType DEF Only, EvRec
<1>3. CASE p \in Workers
  BY <1>1, <1>2, <1>3, PhaseNames DEF Finish
<1>4. CASE p \notin Workers
  BY <1>1, <1>2, <1>4, PhaseNames DEF Finish
<1>5. QED
  BY <1>3, <1>4

LEMMA ReportMoves ==
  ASSUME EvalInv, NEW p \in Workers, Report(p)
  PROVE  /\ Only(p) /\ ev[p].at = "failing" /\ ev'[p].at = "ack"
         /\ ev'[p].job = ev[p].job /\ ev'[p].left = ev[p].left /\ ev'[p].found = ev[p].found
BY EvType, PhaseNames DEF Report, Only, EvRec, Procs

LEMMA DispatchMoves ==
  ASSUME EvalInv, NEW p \in Procs, dispatch_alert(p)
  PROVE  /\ Only(p) /\ ev[p].at = "dispatch" /\ ev'[p].at = "commit"
         /\ ev'[p].job = ev[p].job /\ ev'[p].left = ev[p].left /\ ev'[p].found = ev[p].found
BY EvType, PhaseNames DEF dispatch_alert, Only, EvRec

LEMMA AckMoves ==
  ASSUME EvalInv, NEW p \in Workers, Ack(p)
  PROVE  Only(p) /\ ev[p].at = "ack" /\ ev'[p] = Idle
BY IdleType, Replaced DEF Ack, EvalInv, Procs

LEMMA RestartMoves ==
  ASSUME EvalInv, NEW p \in Workers, Restart(p)
  PROVE  Only(p) /\ ev[p].at = "down" /\ ev'[p] = Idle
BY IdleType, Replaced DEF Restart, EvalInv, Procs

LEMMA StopMoves ==
  ASSUME EvalInv, NEW p \in Workers, Stop(p)
  PROVE  Only(p) /\ ev'[p].at = "down" /\ ev'[p].job = NoJob /\ ev'[p].found = << >>
<1> DEFINE r == [Idle EXCEPT !.at = "down"]
<1>1. r \in EvRec /\ r.at = "down" /\ r.job = NoJob /\ r.found = << >>
  BY IdleType DEF EvRec, Phases
<1>2. ev' = [ev EXCEPT ![p] = r] /\ p \in Procs
  BY DEF Stop, Procs
<1> HIDE DEF r
<1>3. QED
  BY <1>1, <1>2, Replaced DEF EvalInv

LEMMA RaiseMoves ==
  ASSUME EvalInv, NEW p \in Procs, Raise(p)
  PROVE  /\ Only(p) /\ ev[p].at \in Working /\ ev[p].left # << >>
         /\ ev'[p].at = (IF p \in Workers THEN "failing" ELSE "error")
         /\ ev'[p].job = ev[p].job /\ ev'[p].found = << >>
<1>1. ev[p] \in EvRec
  BY DEF EvalInv, TypeOK, EvRec
<1>2. /\ AfterError(p) \in EvRec
      /\ AfterError(p).at = (IF p \in Workers THEN "failing" ELSE "error")
      /\ AfterError(p).job = ev[p].job /\ AfterError(p).found = << >>
  BY <1>1, IdleType DEF AfterError, EvRec, Phases
<1>3. ev' = [ev EXCEPT ![p] = AfterError(p)] /\ ev[p].at \in Working /\ ev[p].left # << >>
  BY DEF Raise
<1>4. QED
  BY <1>2, <1>3, Replaced DEF EvalInv

LEMMA ReadEventMoves ==
  ASSUME EvalInv, NEW p \in Procs, ReadEvent(p)
  PROVE  /\ Only(p) /\ ev[p].at = "next" /\ ev[p].left # << >>
         /\ ev'[p].at = (IF Tool[Event(p)] = NoDef THEN "alert" ELSE "tool")
         /\ ev'[p].job = ev[p].job /\ ev'[p].left = ev[p].left
<1>1. Candidates(Event(p), FALSE) \in Seq(Rules)
  BY CandidatesType
<1>2. ASSUME NEW a \in Phases, NEW f \in Seq(Rules), ev' = [ev EXCEPT ![p].at = a, ![p].found = f]
      PROVE  /\ Only(p) /\ ev'[p].at = a /\ ev'[p].job = ev[p].job /\ ev'[p].left = ev[p].left
  BY <1>2, EvType DEF Only, EvRec
<1>3. ev[p].at = "next" /\ ev[p].left # << >>
  BY DEF ReadEvent
<1>4. CASE Tool[Event(p)] = NoDef
  BY <1>1, <1>2, <1>3, <1>4, PhaseNames DEF ReadEvent
<1>5. CASE Tool[Event(p)] # NoDef
  BY <1>1, <1>2, <1>3, <1>5, PhaseNames DEF ReadEvent
<1>6. QED
  BY <1>4, <1>5

LEMMA ReadDefinitionMoves ==
  ASSUME EvalInv, NEW p \in Procs, ReadDefinition(p)
  PROVE  /\ Only(p) /\ ev[p].at = "tool" /\ ev'[p].at \in {"supersede", "record"}
         /\ ev'[p].job = ev[p].job /\ ev'[p].left = ev[p].left /\ ev'[p].found = ev[p].found
         /\ ev'[p].at = "supersede" => ev'[p].changed
         /\ ev'[p].at = "record" => ~ev'[p].changed /\ (Current = {} \/ Tool[Event(p)] \in Current)
<1>1. PICK prior \in IF Current = {} THEN {NoDef} ELSE Current :
        ev' = [ev EXCEPT ![p].changed = prior \notin {NoDef, Tool[Event(p)]},
                         ![p].current = {},
                         ![p].at = IF prior \notin {NoDef, Tool[Event(p)]} THEN "supersede"
                                   ELSE "record"]
  BY DEF ReadDefinition
<1>2. ASSUME NEW c \in BOOLEAN, NEW a \in Phases,
             ev' = [ev EXCEPT ![p].changed = c, ![p].current = {}, ![p].at = a]
      PROVE  /\ Only(p) /\ ev'[p].at = a /\ ev'[p].changed = c
             /\ ev'[p].job = ev[p].job /\ ev'[p].left = ev[p].left /\ ev'[p].found = ev[p].found
  BY <1>2, EvType DEF Only, EvRec
<1>3. Current = {} \/ prior \in Current
  BY <1>1
<1>4. prior = NoDef => Current = {}
  BY <1>1, AlertsAssumption DEF Current
<1>5. ev[p].at = "tool"
  BY DEF ReadDefinition
<1>6. CASE prior \notin {NoDef, Tool[Event(p)]}
  <2>1. ev' = [ev EXCEPT ![p].changed = TRUE, ![p].current = {}, ![p].at = "supersede"]
    BY <1>1, <1>6
  <2>2. "supersede" \in Phases
    BY DEF Phases, Working
  <2>3. QED
    BY <1>2, <1>5, <2>1, <2>2
<1>7. CASE prior \in {NoDef, Tool[Event(p)]}
  <2>1. ev' = [ev EXCEPT ![p].changed = FALSE, ![p].current = {}, ![p].at = "record"]
    BY <1>1, <1>7
  <2>2. "record" \in Phases
    BY DEF Phases, Working
  <2>3. QED
    BY <1>2, <1>3, <1>4, <1>5, <1>7, <2>1, <2>2
<1>8. QED
  BY <1>6, <1>7

LEMMA SupersedeMoves ==
  ASSUME EvalInv, NEW p \in Procs, Supersede(p)
  PROVE  /\ Only(p) /\ ev[p].at = "supersede" /\ ev'[p].at = "record"
         /\ ev'[p].changed = ev[p].changed /\ ev'[p].current = Current
         /\ ev'[p].job = ev[p].job /\ ev'[p].left = ev[p].left /\ ev'[p].found = ev[p].found
<1>1. Current \subseteq Defs
  BY DEF Current
<1>2. QED
  BY <1>1, EvType, PhaseNames DEF Supersede, ToSupersede, Only, EvRec

LEMMA RecordDefinitionMoves ==
  ASSUME EvalInv, NEW p \in Procs, RecordDefinition(p)
  PROVE  /\ Only(p) /\ ev[p].at = "record" /\ ev'[p].at = "alert"
         /\ ev'[p].job = ev[p].job /\ ev'[p].left = ev[p].left
         /\ ev[p].changed => "tool_rug_pull" \in ToSet(ev'[p].found)
<1>1. ev[p].changed \in BOOLEAN
  BY DEF EvalInv, TypeOK
<1>2. /\ Candidates(Event(p), ev[p].changed) \in Seq(Rules)
      /\ ev[p].changed => "tool_rug_pull" \in ToSet(Candidates(Event(p), ev[p].changed))
  BY <1>1, CandidatesType
<1>3. ASSUME NEW f \in Seq(Rules), NEW a \in Phases,
             ev' = [ev EXCEPT ![p].at = a, ![p].changed = FALSE, ![p].current = {},
                              ![p].found = f]
      PROVE  /\ Only(p) /\ ev'[p].at = a /\ ev'[p].found = f
             /\ ev'[p].job = ev[p].job /\ ev'[p].left = ev[p].left
  <2> DEFINE r == [ev[p] EXCEPT !.at = a, !.changed = FALSE, !.current = {}, !.found = f]
  <2>1. ev[p] \in EvRec
    BY EvType
  <2>2. /\ r \in EvRec /\ r.at = a /\ r.found = f /\ r.job = ev[p].job /\ r.left = ev[p].left
    BY <2>1 DEF EvRec
  <2>3. ev' = [ev EXCEPT ![p] = r]
    BY <1>3, EvType
  <2> HIDE DEF r
  <2>4. QED
    BY <2>2, <2>3, Replaced DEF EvalInv
<1>4. "alert" \in Phases
  BY PhaseNames
<1>5. QED
  BY <1>2, <1>3, <1>4 DEF RecordDefinition

LEMMA UpsertBeginsMoves ==
  ASSUME EvalInv, NEW p \in Procs, UpsertBegins(p)
  PROVE  /\ Only(p) /\ ev[p].at = "alert" /\ ev[p].found # << >> /\ ev'[p].at = "wait"
         /\ ev'[p].job = ev[p].job /\ ev'[p].left = ev[p].left /\ ev'[p].found = ev[p].found
<1>1. now \in Times
  BY DEF EvalInv, TypeOK
<1>2. ASSUME NEW a \in Phases, NEW t \in Times, ev' = [ev EXCEPT ![p].at = a, ![p].start = t]
      PROVE  /\ Only(p) /\ ev'[p].at = a /\ ev'[p].found = ev[p].found
             /\ ev'[p].job = ev[p].job /\ ev'[p].left = ev[p].left
  BY <1>2, EvType DEF Only, EvRec
<1>3. QED
  BY <1>1, <1>2, PhaseNames DEF UpsertBegins, StartTime

LEMMA UpsertMoves ==
  ASSUME EvalInv, NEW p \in Procs, Upsert(p)
  PROVE  /\ Only(p) /\ ev[p].at = "wait" /\ row[Rule(p)] = Free
         /\ row' = [row EXCEPT ![Rule(p)] = p]
         /\ ev'[p].at \in {"dispatch", "commit"}
         /\ ev'[p].at = "dispatch" => Due(alerts[Rule(p)])
         /\ ev'[p].job = ev[p].job /\ ev'[p].left = ev[p].left /\ ev'[p].found = ev[p].found
<1>1. Due(alerts[Rule(p)]) \in BOOLEAN
  BY DEF Due
<1>2. QED
  BY <1>1, EvType, PhaseNames DEF Upsert, Only, EvRec

LEMMA CommitMoves ==
  ASSUME EvalInv, NEW p \in Procs, CommitAlert(p)
  PROVE  /\ Only(p) /\ ev[p].at = "commit" /\ ev[p].found # << >> /\ ev'[p].at = "alert"
         /\ ev'[p].job = ev[p].job /\ ev'[p].left = ev[p].left
         /\ ev'[p].found = Tail(ev[p].found)
<1>1. ev[p].at = "commit" /\ ev[p].found # << >> /\ ev[p].found \in Seq(Rules)
  BY DEF CommitAlert, EvalInv, EvFits, Fits, TypeOK
<1>2. Tail(ev[p].found) \in Seq(Rules)
  BY <1>1, HeadTail
<1>3. 0 \in Times
  BY AlertsAssumption DEF Times
<1>4. QED
  BY <1>1, <1>2, <1>3, EvType, PhaseNames DEF CommitAlert, Only, EvRec

LEMMA EndEventMoves ==
  ASSUME EvalInv, NEW p \in Procs, EndEvent(p)
  PROVE  /\ Only(p) /\ ev[p].at = "alert" /\ ev[p].found = << >> /\ ev[p].left # << >>
         /\ ev'[p].at = "next" /\ ev'[p].job = ev[p].job /\ ev'[p].found = << >>
         /\ ev'[p].left = Tail(ev[p].left)
<1>1. ev[p].at = "alert" /\ ev[p].left # << >> /\ ev[p].left \in Seq(Events)
  BY DEF EndEvent, EvalInv, EvFits, Fits, TypeOK, Working
<1>2. Tail(ev[p].left) \in Seq(Events)
  BY <1>1, HeadTail
<1>3. QED
  BY <1>1, <1>2, EvType, PhaseNames DEF EndEvent, Only, EvRec

-----------------------------------------------------------------------------
(* Types. *)

LEMMA FitsStep ==
  ASSUME EvalInv, NEW p \in Procs, Only(p), Fits(p)'
  PROVE  EvFits' /\ ev' \in [Procs -> EvRec]
<1>1. ASSUME NEW q \in Procs, q # p PROVE Fits(q)'
  <2>1. Fits(q) /\ ev'[q] = ev[q]
    BY <1>1 DEF EvalInv, EvFits, Only
  <2>2. QED
    BY <2>1 DEF Fits, Event
<1>2. QED
  BY <1>1 DEF EvFits, Only

LEMMA EvaluateFits ==
  ASSUME EvalInv, NEW p \in Procs, Evaluate(p) \/ Raise(p)
  PROVE  EvFits' /\ ev' \in [Procs -> EvRec]
<1> USE AlertsAssumption DEF Procs
<1>0. Fits(p) /\ p \in Workers \cup Calls /\ ~(p \in Workers /\ p \in Calls)
  BY DEF EvalInv, EvFits
<1>1. CASE Finish(p)
  BY <1>0, <1>1, FinishMoves, FitsStep DEF Fits, Working
<1>2. CASE Raise(p)
  BY <1>0, <1>2, RaiseMoves, FitsStep DEF Fits, Working
<1>3. CASE ReadEvent(p)
  BY <1>0, <1>3, ReadEventMoves, FitsStep DEF Fits, Working, Event
<1>4. CASE ReadDefinition(p)
  BY <1>0, <1>4, ReadDefinitionMoves, FitsStep DEF Fits, Working, Event
<1>5. CASE Supersede(p)
  BY <1>0, <1>5, SupersedeMoves, FitsStep DEF Fits, Working, Event
<1>6. CASE RecordDefinition(p)
  BY <1>0, <1>6, RecordDefinitionMoves, FitsStep DEF Fits, Working
<1>7. CASE UpsertBegins(p)
  BY <1>0, <1>7, UpsertBeginsMoves, FitsStep DEF Fits, Working
<1>8. CASE Upsert(p)
  BY <1>0, <1>8, UpsertMoves, FitsStep DEF Fits, Working
<1>9. CASE dispatch_alert(p)
  BY <1>0, <1>9, DispatchMoves, FitsStep DEF Fits, Working
<1>10. CASE CommitAlert(p)
  BY <1>0, <1>10, CommitMoves, FitsStep DEF Fits, Working
<1>11. CASE EndEvent(p)
  BY <1>0, <1>11, EndEventMoves, FitsStep DEF Fits, Working
<1>12. QED
  BY <1>1, <1>2, <1>3, <1>4, <1>5, <1>6, <1>7, <1>8, <1>9, <1>10, <1>11 DEF Evaluate

LEMMA WorkFits ==
  ASSUME EvalInv, NEW p \in Workers, Work(p) \/ Kill(p) \/ Interrupt(p)
  PROVE  EvFits' /\ ev' \in [Procs -> EvRec]
<1> USE AlertsAssumption DEF Procs
<1>0. Fits(p) /\ p \notin Calls /\ p \in Procs
  BY DEF EvalInv, EvFits
<1>1. CASE Take(p)
  BY <1>0, <1>1, TakeMoves, FitsStep DEF Fits, Working
<1>2. CASE Ack(p)
  BY <1>0, <1>2, AckMoves, IdleType, FitsStep DEF Fits, Working
<1>3. CASE Report(p)
  BY <1>0, <1>3, ReportMoves, FitsStep DEF Fits, Working
<1>4. CASE Restart(p)
  BY <1>0, <1>4, RestartMoves, IdleType, FitsStep DEF Fits, Working
<1>5. CASE Stop(p)
  BY <1>0, <1>5, StopMoves, FitsStep DEF Fits, Working
<1>6. QED
  BY <1>1, <1>2, <1>3, <1>4, <1>5 DEF Work, Kill, Interrupt

LEMMA CallFits ==
  ASSUME EvalInv, NEW c \in Calls, evaluate_all(c)
  PROVE  EvFits' /\ ev' \in [Procs -> EvRec]
<1> USE AlertsAssumption DEF Procs
<1>1. c \notin Workers /\ c \in Procs
  OBVIOUS
<1>2. QED
  BY <1>1, EvaluateAllMoves, FitsStep DEF Fits, Working

JobTypes ==
  /\ record \in Seq(Events)
  /\ handed \in [Batches -> {"new", "recorded", "queued", "lost"}]
  /\ stream \in Seq(Batches)
  /\ pending \subseteq Batches /\ failed \subseteq Batches /\ cut \subseteq Batches

DataTypes ==
  /\ defs \in [Defs -> {"unseen", "current", "superseded"}]
  /\ alerts \in [Rules -> Times \cup {Never}]
  /\ row \in [Rules -> Procs \cup {Free}]
  /\ now \in Times
  /\ deaths \in 0 .. MaxDeaths
  /\ done \subseteq Events
  /\ owed \subseteq [event : Events, by : Procs]

LEMMA TypeParts ==
  TypeOK <=> JobTypes /\ DataTypes /\ ev \in [Procs -> EvRec] /\ overlapped \in BOOLEAN
BY Zenon DEF TypeOK, JobTypes, DataTypes, EvRec

\* The history that says whether two observations overlapped.
LEMMA OverlapType ==
  ASSUME overlapped \in BOOLEAN, [Next]_vars PROVE overlapped' \in BOOLEAN
<1>1. ASSUME NEW p \in Procs, ReadDefinition(p) PROVE overlapped' \in BOOLEAN
  BY <1>1, Zenon DEF ReadDefinition
<1>2. CASE overlapped' = overlapped
  BY <1>2
<1>3. ASSUME NEW p \in Procs, Evaluate(p) \/ Raise(p) PROVE overlapped' = overlapped \/ ReadDefinition(p)
  BY <1>3, Zenon DEF Evaluate, Finish, Raise, ReadEvent, Supersede, RecordDefinition,
     UpsertBegins, Upsert, dispatch_alert, CommitAlert, EndEvent, history
<1>4. ASSUME NEW p \in Workers, Work(p) \/ Kill(p) \/ Interrupt(p) PROVE overlapped' = overlapped
  BY <1>4, Zenon DEF Work, Take, Ack, Report, Restart, Kill, Interrupt, Stop, history
<1>5. ASSUME NEW c \in Calls, evaluate_all(c) PROVE overlapped' = overlapped
  BY <1>5, Zenon DEF evaluate_all, history
<1>6. ASSUME NEW b \in Batches, Record(b) \/ enqueue_alerts(b) \/ EnqueueFails(b)
      PROVE  overlapped' = overlapped
  BY <1>6, Zenon DEF Record, enqueue_alerts, EnqueueFails, history
<1>7. CASE Tick \/ UNCHANGED vars
  BY <1>7, Zenon DEF Tick, vars, history
<1>8. QED
  BY <1>1, <1>2, <1>3, <1>4, <1>5, <1>6, <1>7, Zenon DEF Next

\* The steps of ingest and of the clock.
LEMMA OutsideTypes ==
  ASSUME EvalInv,
         Tick \/ \E b \in Batches : Record(b) \/ enqueue_alerts(b) \/ EnqueueFails(b)
  PROVE  JobTypes' /\ DataTypes' /\ UNCHANGED ev
<1>1. JobTypes /\ DataTypes
  BY TypeParts DEF EvalInv
<1>2. CASE Tick
  BY <1>1, <1>2, AlertsAssumption DEF Tick, jobVars, dataVars, history, JobTypes, DataTypes, Times
<1>3. ASSUME NEW b \in Batches, Record(b) \/ enqueue_alerts(b) \/ EnqueueFails(b)
      PROVE  JobTypes' /\ DataTypes' /\ UNCHANGED ev
  <2>1. Batch[b] \in Seq(Events)
    BY AlertsAssumption
  <2>2. DataTypes' /\ UNCHANGED ev
    BY <1>1, <1>3 DEF Record, enqueue_alerts, EnqueueFails, dataVars, history, DataTypes
  <2>3. UNCHANGED <<pending, failed, cut>>
    BY <1>3 DEF Record, enqueue_alerts, EnqueueFails, history
  <2>4. /\ record \in Seq(Events) /\ stream \in Seq(Batches)
        /\ handed \in [Batches -> {"new", "recorded", "queued", "lost"}]
    BY <1>1 DEF JobTypes
  <2>5. record' \in Seq(Events)
    <3>1. record' = record \/ record' = record \o Batch[b]
      BY <1>3 DEF Record, enqueue_alerts, EnqueueFails
    <3>2. record \o Batch[b] \in Seq(Events)
      BY <2>1, <2>4
    <3>3. QED
      BY <2>4, <3>1, <3>2
  <2>6. stream' \in Seq(Batches)
    BY <1>3, <2>4 DEF Record, enqueue_alerts, EnqueueFails
  <2>7. handed' \in [Batches -> {"new", "recorded", "queued", "lost"}]
    BY <1>3, <2>4 DEF Record, enqueue_alerts, EnqueueFails
  <2>8. QED
    BY <1>1, <2>2, <2>3, <2>5, <2>6, <2>7 DEF JobTypes
<1>4. QED
  BY <1>2, <1>3

\* The rows after a transaction.
LEMMA ReleasedType ==
  ASSUME DataTypes, NEW p \in Procs PROVE Released(p) \in [Rules -> Procs \cup {Free}]
BY DEF DataTypes, Released

LEMMA EvaluateTypes ==
  ASSUME EvalInv, NEW p \in Procs, Evaluate(p) \/ Raise(p)
  PROVE  JobTypes' /\ DataTypes'
<1>1. JobTypes /\ DataTypes /\ ev[p] \in EvRec /\ Fits(p)
  BY TypeParts DEF EvalInv, EvFits
<1>2. UNCHANGED <<record, jobVars, cut>>
  BY DEF Evaluate, Finish, Raise, ReadEvent, ReadDefinition, Supersede, RecordDefinition,
         UpsertBegins, Upsert, dispatch_alert, CommitAlert, EndEvent, history
<1>3. JobTypes'
  BY <1>1, <1>2 DEF JobTypes, jobVars
<1>4. CASE UNCHANGED <<dataVars, now, deaths, done, owed>>
  BY <1>1, <1>3, <1>4 DEF DataTypes, dataVars
<1>5. CASE Raise(p)
  BY <1>1, <1>3, <1>5, ReleasedType DEF Raise, DataTypes, history
<1>6. CASE RecordDefinition(p)
  <2>1. ev[p].left # << >> /\ ev[p].left \in Seq(Events) /\ ev[p].at = "record"
    BY <1>1, <1>6 DEF RecordDefinition, Fits, EvRec, Working
  <2>2. Event(p) \in Events
    BY <2>1, HeadTail DEF Event
  <2>3. defs' \in [Defs -> {"unseen", "current", "superseded"}]
    BY <1>1, <1>6 DEF RecordDefinition, DataTypes
  <2>4. owed' \subseteq [event : Events, by : Procs]
    BY <1>1, <1>6, <2>2 DEF RecordDefinition, DataTypes
  <2>5. QED
    BY <1>1, <1>3, <1>6, <2>3, <2>4 DEF RecordDefinition, DataTypes
<1>7. CASE Upsert(p)
  BY <1>1, <1>3, <1>7 DEF Upsert, DataTypes, history
<1>8. CASE CommitAlert(p)
  <2>1. ev[p].start \in Times
    BY <1>1 DEF EvRec
  <2>2. alerts' \in [Rules -> Times \cup {Never}]
    BY <1>1, <1>8, <2>1 DEF CommitAlert, DataTypes
  <2>3. row' \in [Rules -> Procs \cup {Free}]
    BY <1>1, <1>8, ReleasedType DEF CommitAlert
  <2>4. owed' \subseteq owed
    BY <1>8 DEF CommitAlert
  <2>5. QED
    BY <1>1, <1>3, <1>8, <2>2, <2>3, <2>4 DEF CommitAlert, DataTypes
<1>9. CASE EndEvent(p)
  <2>1. ev[p].left # << >> /\ ev[p].left \in Seq(Events)
    BY <1>1, <1>9, EndEventMoves DEF EvRec
  <2>2. Event(p) \in Events
    BY <2>1, HeadTail DEF Event
  <2>3. QED
    BY <1>1, <1>3, <1>9, <2>2 DEF EndEvent, DataTypes, dataVars
<1>10. QED
  BY <1>3, <1>4, <1>5, <1>6, <1>7, <1>8, <1>9
  DEF Evaluate, Finish, ReadEvent, ReadDefinition, Supersede, UpsertBegins, dispatch_alert, history

LEMMA WorkTypes ==
  ASSUME EvalInv, NEW p \in Workers, Work(p) \/ Kill(p) \/ Interrupt(p)
  PROVE  JobTypes' /\ DataTypes'
<1>1. JobTypes /\ DataTypes /\ ev[p] \in EvRec /\ Fits(p) /\ p \in Procs
  BY TypeParts DEF EvalInv, EvFits, Procs
<1>2. CASE Take(p)
  <2>1. stream # << >> /\ stream \in Seq(Batches)
    BY <1>1, <1>2, TakeMoves DEF JobTypes
  <2>2. Head(stream) \in Batches /\ Tail(stream) \in Seq(Batches)
    BY <2>1, HeadTail
  <2>3. QED
    BY <1>1, <1>2, <2>2 DEF Take, JobTypes, DataTypes, dataVars, history
<1>3. CASE Ack(p) \/ Restart(p)
  BY <1>1, <1>3 DEF Ack, Restart, JobTypes, DataTypes, jobVars, dataVars, history
<1>4. CASE Report(p)
  <2>1. ev[p].job \in Batches
    BY <1>1, <1>4, ReportMoves DEF Fits, EvRec
  <2>2. QED
    BY <1>1, <1>4, <2>1 DEF Report, JobTypes, DataTypes, dataVars, history
<1>5. CASE Kill(p) \/ Interrupt(p)
  <2>1. deaths' \in 0 .. MaxDeaths /\ row' \in [Rules -> Procs \cup {Free}]
    BY <1>1, <1>5, ReleasedType, AlertsAssumption DEF Kill, Interrupt, Stop, DataTypes
  <2>2. DataTypes'
    BY <1>1, <1>5, <2>1 DEF Kill, Interrupt, Stop, DataTypes
  <2>3. pending' \subseteq Batches /\ cut' \subseteq Batches
    <3>1. CASE Kill(p)
      BY <1>1, <3>1 DEF Kill, JobTypes
    <3>2. CASE Interrupt(p)
      <4>1. ev[p].job \in Batches
        BY <1>1, <3>2 DEF Interrupt, Fits, EvRec, Working
      <4>2. QED
        BY <1>1, <3>2, <4>1 DEF Interrupt, JobTypes
    <3>3. QED
      BY <1>5, <3>1, <3>2
  <2>4. UNCHANGED <<record, handed, stream, failed>>
    BY <1>5 DEF Kill, Interrupt, Stop
  <2>5. QED
    BY <1>1, <2>2, <2>3, <2>4 DEF JobTypes
<1>6. QED
  BY <1>2, <1>3, <1>4, <1>5 DEF Work

LEMMA EvalInit == Init => EvalInv
<1> SUFFICES ASSUME Init PROVE EvalInv
  OBVIOUS
<1>1. \A p \in Procs : ev[p] \in EvRec
      /\ ev[p].at = (IF p \in Workers THEN "idle" ELSE "new") /\ ev[p].job = NoJob
  <2>1. LET r == [Idle EXCEPT !.at = "new"]
        IN  r \in EvRec /\ r.at = "new" /\ r.job = NoJob
    BY IdleType, PhaseNames DEF EvRec
  <2>2. QED
    BY <2>1, IdleType DEF Init
<1>2. ev \in [Procs -> EvRec]
  BY <1>1 DEF Init
<1>3. JobTypes
  BY DEF Init, JobTypes
<1>4. DataTypes
  BY AlertsAssumption DEF Init, DataTypes, Times
<1>5. EvFits
  BY <1>1, AlertsAssumption DEF EvFits, Fits, Procs, Working
<1>6. overlapped \in BOOLEAN
  BY DEF Init
<1>7. QED
  BY <1>2, <1>3, <1>4, <1>5, <1>6, TypeParts DEF EvalInv

LEMMA EvalStep == EvalInv /\ [Next]_vars => EvalInv'
<1> SUFFICES ASSUME EvalInv, [Next]_vars PROVE EvalInv'
  OBVIOUS
<1>1. JobTypes /\ DataTypes /\ ev \in [Procs -> EvRec] /\ EvFits
  BY TypeParts DEF EvalInv
<1>2. ASSUME UNCHANGED ev PROVE EvFits' /\ ev' \in [Procs -> EvRec]
  BY <1>1, <1>2 DEF EvFits, Fits, Event
<1>3. ASSUME UNCHANGED vars
      PROVE  EvFits' /\ JobTypes' /\ DataTypes' /\ ev' \in [Procs -> EvRec]
  BY <1>1, <1>2, <1>3 DEF vars, jobVars, dataVars, history, JobTypes, DataTypes
<1>4. ASSUME Tick \/ \E b \in Batches : Record(b) \/ enqueue_alerts(b) \/ EnqueueFails(b)
      PROVE  EvFits' /\ JobTypes' /\ DataTypes' /\ ev' \in [Procs -> EvRec]
  BY <1>2, <1>4, OutsideTypes
<1>5. ASSUME NEW c \in Calls, evaluate_all(c)
      PROVE  EvFits' /\ JobTypes' /\ DataTypes' /\ ev' \in [Procs -> EvRec]
  BY <1>1, <1>5, CallFits DEF evaluate_all, jobVars, dataVars, history, JobTypes, DataTypes
<1>6. EvFits' /\ JobTypes' /\ DataTypes' /\ ev' \in [Procs -> EvRec]
  BY <1>3, <1>4, <1>5, EvaluateFits, EvaluateTypes, WorkFits, WorkTypes DEF Next
<1>7. overlapped' \in BOOLEAN
  <2>1. overlapped \in BOOLEAN
    BY TypeParts DEF EvalInv
  <2>2. QED
    BY <2>1, OverlapType
<1>8. TypeOK'
  BY <1>6, <1>7, Zenon DEF TypeOK, JobTypes, DataTypes, EvRec
<1>9. QED
  BY <1>6, <1>8 DEF EvalInv

LEMMA EvalHolds == Spec => []EvalInv
BY EvalInit, EvalStep, PTL DEF Spec

\* Every state has its type: the jobs, the evaluations, the alert rows and the clocks.
THEOREM AlertsTypes == Spec => []TypeOK
<1>1. EvalInv => TypeOK
  BY DEF EvalInv
<1>2. QED
  BY <1>1, EvalHolds, PTL

-----------------------------------------------------------------------------
(* The cooldown. *)

\* Who is about to send or to commit has the row, and nobody has changed since what he read
\* of it.
RowFits(p) ==
  /\ ev[p].at \in {"dispatch", "commit"} => row[Rule(p)] = p
  /\ ev[p].at = "dispatch" => Due(alerts[Rule(p)])

RowsHeld == \A p \in Procs : RowFits(p)

LEMMA RuleKnown ==
  ASSUME EvalInv, NEW p \in Procs, ev[p].at \in {"wait", "dispatch", "commit"}
  PROVE  Rule(p) \in Rules
<1>1. ev[p].found \in Seq(Rules) /\ ev[p].found # << >>
  BY DEF EvalInv, EvFits, Fits, TypeOK
<1>2. QED
  BY <1>1, HeadTail DEF Rule

\* A step of p touches rows that are free or his, and the last messages of rows that are his.
LEMMA RowFrame ==
  ASSUME EvalInv, RowsHeld, NEW p \in Procs, Only(p), RowFits(p)', now' = now,
         \A k \in Rules : row'[k] = row[k] \/ row[k] \in {p, Free},
         \A k \in Rules : alerts'[k] = alerts[k] \/ row[k] = p
  PROVE  RowsHeld'
<1>1. ASSUME NEW q \in Procs, q # p PROVE RowFits(q)'
  <2>1. ev'[q] = ev[q] /\ RowFits(q)
    BY <1>1 DEF Only, RowsHeld
  <2>2. q # Free
    BY AlertsAssumption
  <2>3. CASE ev[q].at \in {"dispatch", "commit"}
    <3>1. row[Rule(q)] = q /\ Rule(q) \in Rules
      BY <2>1, <2>3, RuleKnown DEF RowFits
    <3>2. row'[Rule(q)] = q /\ alerts'[Rule(q)] = alerts[Rule(q)]
      BY <1>1, <2>2, <3>1
    <3>3. QED
      BY <2>1, <3>2 DEF RowFits, Rule, Due
  <2>4. CASE ev[q].at \notin {"dispatch", "commit"}
    BY <2>1, <2>4 DEF RowFits
  <2>5. QED
    BY <2>3, <2>4
<1>2. QED
  BY <1>1 DEF RowsHeld

\* Where p does not report after a step, nothing is said of it.
LEMMA RowIdle ==
  ASSUME NEW p \in Procs, ev'[p].at \notin {"dispatch", "commit"} PROVE RowFits(p)'
BY DEF RowFits

LEMMA RowsEvaluate ==
  ASSUME EvalInv, RowsHeld, NEW p \in Procs, Evaluate(p) \/ Raise(p)
  PROVE  RowsHeld'
<1>0. now' = now
  BY DEF Evaluate, Finish, Raise, ReadEvent, ReadDefinition, Supersede, RecordDefinition,
         UpsertBegins, Upsert, dispatch_alert, CommitAlert, EndEvent
<1>1. RowFits(p) /\ row \in [Rules -> Procs \cup {Free}] /\ alerts \in [Rules -> Times \cup {Never}]
  BY DEF RowsHeld, EvalInv, TypeOK
<1>2. CASE Finish(p)
  <2>1. ev'[p].at \notin {"dispatch", "commit"} /\ Only(p)
    BY <1>2, FinishMoves
  <2>2. UNCHANGED dataVars
    BY <1>2 DEF Finish
  <2>3. QED
    BY <1>0, <2>1, <2>2, RowIdle, RowFrame DEF dataVars
<1>3. CASE ReadEvent(p)
  <2>1. ev'[p].at \notin {"dispatch", "commit"} /\ Only(p)
    BY <1>3, ReadEventMoves
  <2>2. UNCHANGED dataVars
    BY <1>3 DEF ReadEvent
  <2>3. QED
    BY <1>0, <2>1, <2>2, RowIdle, RowFrame DEF dataVars
<1>4. CASE ReadDefinition(p)
  <2>1. ev'[p].at \notin {"dispatch", "commit"} /\ Only(p)
    BY <1>4, ReadDefinitionMoves
  <2>2. UNCHANGED dataVars
    BY <1>4 DEF ReadDefinition
  <2>3. QED
    BY <1>0, <2>1, <2>2, RowIdle, RowFrame DEF dataVars
<1>5. CASE Supersede(p)
  BY <1>0, <1>5, SupersedeMoves, RowIdle, RowFrame DEF Supersede, dataVars
<1>6. CASE RecordDefinition(p)
  BY <1>0, <1>6, RecordDefinitionMoves, RowIdle, RowFrame DEF RecordDefinition
<1>7. CASE UpsertBegins(p)
  BY <1>0, <1>7, UpsertBeginsMoves, RowIdle, RowFrame DEF UpsertBegins, dataVars
<1>8. CASE EndEvent(p)
  BY <1>0, <1>8, EndEventMoves, RowIdle, RowFrame DEF EndEvent, dataVars
<1>9. CASE Raise(p) \/ CommitAlert(p)
  <2>1. Only(p) /\ ev'[p].at \notin {"dispatch", "commit"} /\ row' = Released(p)
    BY <1>9, RaiseMoves, CommitMoves DEF Raise, CommitAlert
  <2>2. \A k \in Rules : alerts'[k] = alerts[k] \/ row[k] = p
    <3>1. CASE Raise(p)
      BY <3>1 DEF Raise
    <3>2. CASE CommitAlert(p)
      BY <1>1, <3>2, CommitMoves DEF CommitAlert, RowFits
    <3>3. QED
      BY <1>9, <3>1, <3>2
  <2>3. \A k \in Rules : row'[k] = row[k] \/ row[k] = p
    BY <2>1 DEF Released
  <2>4. QED
    BY <1>0, <2>1, <2>2, <2>3, RowIdle, RowFrame
<1>10. CASE Upsert(p)
  <2>1. /\ Only(p) /\ row[Rule(p)] = Free /\ row' = [row EXCEPT ![Rule(p)] = p]
        /\ ev'[p].at = "dispatch" => Due(alerts[Rule(p)])
        /\ ev'[p].found = ev[p].found /\ ev[p].at = "wait" /\ alerts' = alerts
    BY <1>10, UpsertMoves DEF Upsert
  <2>2. Rule(p) \in Rules
    BY <2>1, RuleKnown
  <2>3. row'[Rule(p)] = p /\ \A k \in Rules : row'[k] = row[k] \/ row[k] = Free
    BY <1>1, <2>1, <2>2
  <2>4. RowFits(p)'
    BY <1>0, <2>1, <2>3 DEF RowFits, Rule, Due
  <2>5. QED
    BY <1>0, <2>1, <2>3, <2>4, RowFrame
<1>11. CASE dispatch_alert(p)
  <2>1. /\ Only(p) /\ ev[p].at = "dispatch" /\ ev'[p].at = "commit" /\ ev'[p].found = ev[p].found
        /\ row' = row /\ alerts' = alerts
    BY <1>11, DispatchMoves DEF dispatch_alert, dataVars
  <2>2. RowFits(p)'
    BY <1>1, <2>1 DEF RowFits, Rule
  <2>3. QED
    BY <1>0, <2>1, <2>2, RowFrame
<1>12. QED
  BY <1>2, <1>3, <1>4, <1>5, <1>6, <1>7, <1>8, <1>9, <1>10, <1>11 DEF Evaluate

LEMMA RowsWork ==
  ASSUME EvalInv, RowsHeld, NEW p \in Procs,
         \/ p \in Workers /\ (Work(p) \/ Kill(p) \/ Interrupt(p))
         \/ p \in Calls /\ evaluate_all(p)
  PROVE  RowsHeld'
<1>1. Only(p) /\ ev'[p].at \notin {"dispatch", "commit"}
  BY TakeMoves, AckMoves, ReportMoves, RestartMoves, StopMoves, EvaluateAllMoves, IdleType
  DEF Work, Kill, Interrupt
<1>2. now' = now /\ alerts' = alerts
  BY DEF Work, Kill, Interrupt, Take, Ack, Report, Restart, Stop, evaluate_all, dataVars
<1>3. row' = row \/ row' = Released(p)
  BY DEF Work, Kill, Interrupt, Take, Ack, Report, Restart, Stop, evaluate_all, dataVars
<1>4. \A k \in Rules : row'[k] = row[k] \/ row[k] = p
  BY <1>3 DEF Released
<1>5. QED
  BY <1>1, <1>2, <1>4, RowIdle, RowFrame

LEMMA RowsStep == EvalInv /\ RowsHeld /\ [Next]_vars => RowsHeld'
<1> SUFFICES ASSUME EvalInv, RowsHeld, [Next]_vars PROVE RowsHeld'
  OBVIOUS
<1>1. CASE Tick
  <2>1. UNCHANGED <<ev, row, alerts>> /\ now \in Nat /\ now' = now + 1
    BY <1>1, AlertsAssumption DEF Tick, dataVars, EvalInv, TypeOK, Times
  <2>2. ASSUME NEW p \in Procs, ev[p].at = "dispatch" PROVE Due(alerts[Rule(p)])'
    <3>1. Due(alerts[Rule(p)]) /\ Rule(p) \in Rules
      BY <2>2, RuleKnown DEF RowsHeld, RowFits
    <3>2. alerts[Rule(p)] \in Times \cup {Never}
      BY <3>1 DEF EvalInv, TypeOK
    <3>3. QED
      BY <2>1, <3>1, <3>2, AlertsAssumption DEF Due, Times, Rule
  <2>3. QED
    BY <2>1, <2>2 DEF RowsHeld, RowFits, Rule, Due
<1>2. CASE UNCHANGED <<ev, dataVars, now>>
  BY <1>2 DEF RowsHeld, RowFits, Rule, Due, dataVars
<1>3. CASE UNCHANGED vars
  BY <1>2, <1>3 DEF vars
<1>4. ASSUME NEW b \in Batches, Record(b) \/ enqueue_alerts(b) \/ EnqueueFails(b)
      PROVE  UNCHANGED <<ev, dataVars, now>>
  BY <1>4 DEF Record, enqueue_alerts, EnqueueFails
<1>5. QED
  BY <1>1, <1>2, <1>3, <1>4, RowsEvaluate, RowsWork DEF Next, Procs

\* No message about an alert is sent within the cooldown of one that is on record, for any
\* number of workers and calls that find the same at once: who sends has the row since he
\* read that it was due (alerts.py:314-336).
THEOREM NoMessageInCooldown == Spec => CooldownKept
<1>1. Init => RowsHeld
  BY IdleType DEF Init, RowsHeld, RowFits
<1>2. RowsHeld => \A k \in Rules : Sends(k) => alerts[k] = Never \/ now >= alerts[k] + Cooldown
  BY DEF RowsHeld, RowFits, Sends, Due
<1>3. QED
  BY <1>1, <1>2, RowsStep, EvalHolds, PTL DEF Spec, CooldownKept

-----------------------------------------------------------------------------
(* Jobs. *)

\* What a worker has of its job: each event evaluated or ahead, and all of them evaluated
\* or the failure reported before the job is acknowledged.
JobFits(p) ==
  /\ ev[p].at \in Working => EventsOf(ev[p].job) \subseteq done \cup ToSet(ev[p].left)
  /\ ev[p].at \in Working => ToSet(ev[p].left) \subseteq EventsOf(ev[p].job)
  /\ ev[p].at = "ack" => EventsOf(ev[p].job) \subseteq done \/ ev[p].job \in failed

JobsFit == \A p \in Workers : JobFits(p)

\* A job is in one place: not handed over, in the stream once, pending.
OnePlace ==
  /\ \A i \in 1 .. Len(stream) : handed[stream[i]] = "queued" /\ stream[i] \notin pending
  /\ \A i, j \in 1 .. Len(stream) : stream[i] = stream[j] => i = j
  /\ \A b \in pending : handed[b] = "queued"

\* A job is held by one worker at most, and pending as long.
OneHolder ==
  \A p \in Workers : ev[p].job # NoJob =>
    ev[p].job \in pending /\ \A q \in Workers : ev[q].job = ev[p].job => q = p

JobInv == EvalInv /\ JobsFit /\ OnePlace /\ OneHolder

LEMMA EventsInBatch ==
  ASSUME NEW b \in Batches PROVE ToSet(Batch[b]) = EventsOf(b)
<1>1. Batch[b] \in Seq(Events)
  BY AlertsAssumption
<1>2. DOMAIN Batch[b] = 1 .. Len(Batch[b])
  BY <1>1
<1>3. QED
  BY <1>2 DEF ToSet, EventsOf

\* The steps of workers and calls that leave the jobs where they are.
LEMMA KeepsJobs ==
  ASSUME JobInv, NEW p \in Procs, Evaluate(p) \/ Raise(p)
  PROVE  JobsFit' /\ OnePlace' /\ OneHolder'
<1>1. UNCHANGED jobVars
  BY DEF Evaluate, Finish, Raise, ReadEvent, ReadDefinition, Supersede, RecordDefinition,
         UpsertBegins, Upsert, dispatch_alert, CommitAlert, EndEvent, history
<1>2. /\ Only(p) /\ ev'[p].job = ev[p].job
  BY FinishMoves, RaiseMoves, ReadEventMoves, ReadDefinitionMoves, SupersedeMoves,
     RecordDefinitionMoves, UpsertBeginsMoves, UpsertMoves, DispatchMoves, CommitMoves,
     EndEventMoves DEF Evaluate, JobInv
<1>3. OnePlace'
  BY <1>1 DEF JobInv, OnePlace, jobVars
<1>4. \A q \in Workers : ev'[q].job = ev[q].job
  BY <1>2 DEF Only, Procs
<1>5. OneHolder'
  BY <1>1, <1>4 DEF JobInv, OneHolder, jobVars
<1>6. done \subseteq done'
  BY DEF Evaluate, Finish, Raise, ReadEvent, ReadDefinition, Supersede, RecordDefinition,
         UpsertBegins, Upsert, dispatch_alert, CommitAlert, EndEvent, history
<1>7. ASSUME NEW q \in Workers, q # p PROVE JobFits(q)'
  <2>1. ev'[q] = ev[q] /\ JobFits(q)
    BY <1>2, <1>7 DEF Only, Procs, JobInv, JobsFit
  <2>2. QED
    BY <1>1, <1>6, <2>1 DEF JobFits, jobVars
<1>8. ASSUME p \in Workers PROVE JobFits(p)'
  <2>1. JobFits(p)
    BY <1>8 DEF JobInv, JobsFit
  <2>2. CASE Finish(p)
    <3>1. ToSet(ev[p].left) = {}
      BY <2>2, FinishMoves DEF JobInv, ToSet
    <3>2. ev[p].at = "next" /\ ev'[p].at = "ack"
      BY <1>8, <2>2, FinishMoves DEF JobInv
    <3>3. QED
      BY <1>2, <1>6, <2>1, <3>1, <3>2 DEF JobFits, Working
  <2>3. CASE Raise(p)
    BY <1>8, <2>3, RaiseMoves DEF JobInv, JobFits, Working
  <2>4. CASE EndEvent(p)
    <3>1. /\ ev[p].at = "alert" /\ ev'[p].at = "next" /\ ev'[p].left = Tail(ev[p].left)
          /\ ev[p].left # << >> /\ ev[p].left \in Seq(Events)
      BY <2>4, EndEventMoves DEF JobInv, EvalInv, TypeOK
    <3>2. done' = done \cup {Event(p)}
      BY <1>8, <2>4 DEF EndEvent
    <3>3. ToSet(ev[p].left) = {Event(p)} \cup ToSet(ev'[p].left)
      BY <3>1, HeadTail DEF Event
    <3>4. QED
      BY <1>2, <2>1, <3>1, <3>2, <3>3 DEF JobFits, Working
  <2>5. CASE /\ ev[p].at \in Working /\ ev'[p].at \in Working /\ ev'[p].left = ev[p].left
    BY <1>2, <1>6, <2>1, <2>5 DEF JobFits, Working
  <2>6. QED
    BY <2>2, <2>3, <2>4, <2>5, ReadEventMoves, ReadDefinitionMoves, SupersedeMoves,
       RecordDefinitionMoves, UpsertBeginsMoves, UpsertMoves, DispatchMoves, CommitMoves
    DEF Evaluate, JobInv, Working
<1>9. QED
  BY <1>3, <1>5, <1>7, <1>8 DEF JobsFit

LEMMA TakesJob ==
  ASSUME JobInv, NEW p \in Workers, Take(p)
  PROVE  JobsFit' /\ OnePlace' /\ OneHolder'
<1> DEFINE b == Head(stream)
<1>1. /\ Only(p) /\ ev[p].at = "idle" /\ stream # << >> /\ b \in Batches
      /\ ev'[p].at = "next" /\ ev'[p].job = b /\ ev'[p].left = Batch[b]
  BY TakeMoves DEF JobInv
<1>2. /\ stream' = Tail(stream) /\ pending' = pending \cup {b}
      /\ handed' = handed /\ failed' = failed /\ done' = done
  BY DEF Take, history
<1>3. stream \in Seq(Batches)
  BY DEF JobInv, EvalInv, TypeOK
<1>4. /\ Len(stream) \in Nat \ {0} /\ Len(stream') = Len(stream) - 1 /\ b = stream[1]
      /\ \A i \in 1 .. Len(stream') : stream'[i] = stream[i + 1] /\ i + 1 \in 1 .. Len(stream)
  BY <1>1, <1>2, <1>3
<1> HIDE DEF b
<1>5. handed[b] = "queued" /\ b \notin pending
  BY <1>4 DEF JobInv, OnePlace
<1>6. OnePlace'
  <2>1. \A i \in 1 .. Len(stream') : stream'[i] # b
    BY <1>4 DEF JobInv, OnePlace
  <2>2. QED
    BY <1>2, <1>4, <1>5, <2>1 DEF JobInv, OnePlace
<1>7. \A q \in Workers \ {p} : ev'[q] = ev[q]
  BY <1>1 DEF Only, Procs
<1>8. OneHolder'
  BY <1>1, <1>2, <1>5, <1>7 DEF JobInv, OneHolder
<1>9. ASSUME NEW q \in Workers \ {p} PROVE JobFits(q)'
  BY <1>2, <1>7 DEF JobInv, JobsFit, JobFits
<1>10. JobFits(p)'
  BY <1>1, EventsInBatch DEF JobFits
<1>11. QED
  BY <1>6, <1>8, <1>9, <1>10 DEF JobsFit

LEMMA LeavesJob ==
  ASSUME JobInv, NEW p \in Workers, Ack(p) \/ Report(p) \/ Restart(p) \/ Kill(p) \/ Interrupt(p)
  PROVE  JobsFit' /\ OnePlace' /\ OneHolder'
<1>1. /\ UNCHANGED <<handed, stream, done>> /\ failed \subseteq failed'
      /\ pending' \in {pending, pending \ {ev[p].job}}
  BY DEF Ack, Report, Restart, Kill, Interrupt, Stop, jobVars, history
<1>2. OnePlace'
  BY <1>1 DEF JobInv, OnePlace
<1>3. Only(p) /\ (ev'[p].job = NoJob \/ (ev'[p].job = ev[p].job /\ pending' = pending))
  BY AckMoves, ReportMoves, RestartMoves, StopMoves, IdleType
  DEF Report, Kill, Interrupt, JobInv
<1>4. \A q \in Workers \ {p} : ev'[q] = ev[q]
  BY <1>3 DEF Only, Procs
<1>5. OneHolder'
  BY <1>1, <1>3, <1>4 DEF JobInv, OneHolder
<1>6. ASSUME NEW q \in Workers \ {p} PROVE JobFits(q)'
  BY <1>1, <1>4 DEF JobInv, JobsFit, JobFits
<1>7. JobFits(p)'
  <2>1. CASE Report(p)
    BY <2>1, ReportMoves DEF JobInv, JobFits, Report, Working
  <2>2. CASE ~Report(p)
    BY <2>2, AckMoves, RestartMoves, StopMoves, IdleType DEF Kill, Interrupt, JobInv, JobFits, Working
  <2>3. QED
    BY <2>1, <2>2
<1>8. QED
  BY <1>2, <1>5, <1>6, <1>7 DEF JobsFit

LEMMA HandsOver ==
  ASSUME JobInv, NEW b \in Batches, Record(b) \/ enqueue_alerts(b) \/ EnqueueFails(b)
  PROVE  JobsFit' /\ OnePlace' /\ OneHolder'
<1>1. /\ UNCHANGED <<ev, pending, failed, done>>
      /\ handed[b] # "queued"
      /\ \A a \in Batches \ {b} : handed'[a] = handed[a]
  BY DEF Record, enqueue_alerts, EnqueueFails, history, JobInv, EvalInv, TypeOK
<1>2. JobsFit' /\ OneHolder'
  BY <1>1 DEF JobInv, JobsFit, JobFits, OneHolder
<1>3. stream \in Seq(Batches) /\ pending \subseteq Batches
  BY DEF JobInv, EvalInv, TypeOK
<1>4. \A i \in 1 .. Len(stream) : stream[i] \in Batches \ {b}
  BY <1>1, <1>3 DEF JobInv, OnePlace
<1>5. b \notin pending
  BY <1>1 DEF JobInv, OnePlace
<1>6. CASE stream' = stream
  BY <1>1, <1>3, <1>4, <1>5, <1>6, <1>2 DEF JobInv, OnePlace
<1>7. CASE enqueue_alerts(b)
  <2>1. stream' = Append(stream, b) /\ handed'[b] = "queued"
    BY <1>7 DEF enqueue_alerts, JobInv, EvalInv, TypeOK
  <2>2. /\ Len(stream') = Len(stream) + 1 /\ stream'[Len(stream) + 1] = b
        /\ \A i \in 1 .. Len(stream) : stream'[i] = stream[i]
    BY <1>3, <2>1
  <2>3. OnePlace'
    BY <1>1, <1>3, <1>4, <1>5, <2>1, <2>2 DEF JobInv, OnePlace
  <2>4. QED
    BY <1>2, <2>3
<1>8. QED
  BY <1>6, <1>7 DEF Record, EnqueueFails

LEMMA JobInit == Init => JobInv
<1> SUFFICES ASSUME Init PROVE JobInv
  OBVIOUS
<1>1. \A p \in Workers : ev[p] = Idle
  BY DEF Init, Procs
<1>2. JobsFit /\ OneHolder
  BY <1>1, IdleType DEF JobsFit, JobFits, OneHolder, Working
<1>3. OnePlace
  BY DEF Init, OnePlace
<1>4. QED
  BY <1>2, <1>3, EvalInit DEF JobInv

LEMMA JobStep == JobInv /\ [Next]_vars => JobInv'
<1> SUFFICES ASSUME JobInv, [Next]_vars PROVE JobsFit' /\ OnePlace' /\ OneHolder'
  BY EvalStep DEF JobInv
<1>1. ASSUME UNCHANGED <<ev, jobVars, done>> PROVE JobsFit' /\ OnePlace' /\ OneHolder'
  BY <1>1 DEF JobInv, JobsFit, JobFits, OnePlace, OneHolder, jobVars
<1>2. CASE Tick \/ UNCHANGED vars
  BY <1>1, <1>2 DEF Tick, vars, history
<1>3. ASSUME NEW c \in Calls, evaluate_all(c) PROVE JobsFit' /\ OnePlace' /\ OneHolder'
  <2>1. Only(c) /\ c \notin Workers
    BY <1>3, EvaluateAllMoves, AlertsAssumption DEF JobInv
  <2>2. \A q \in Workers : ev'[q] = ev[q]
    BY <2>1 DEF Only, Procs
  <2>3. UNCHANGED <<jobVars, done>>
    BY <1>3 DEF evaluate_all, history
  <2>4. QED
    BY <2>2, <2>3 DEF JobInv, JobsFit, JobFits, OnePlace, OneHolder, jobVars
<1>4. QED
  BY <1>2, <1>3, KeepsJobs, TakesJob, LeavesJob, HandsOver DEF Next, Work

LEMMA JobsHold == Spec => []JobInv
BY JobInit, JobStep, PTL DEF Spec

\* A job that is acknowledged was evaluated in full, or it is known to have failed, or its
\* worker was stopped inside it: for any number of workers that share the stream, with
\* crashes, errors and restarts (alert_worker.py:54-64).
THEOREM JobsNeverSkipped == Spec => []NothingSkipped
<1>1. Init => NothingSkipped
  BY DEF Init, NothingSkipped
<1>2. ASSUME JobInv, NothingSkipped, [Next]_vars PROVE NothingSkipped'
  <2> SUFFICES ASSUME NEW b \in Batches, handed'[b] = "queued", b \notin pending', ~Waiting(b)'
               PROVE  b \in (failed \cup cut)' \/ EventsOf(b) \subseteq done'
    BY DEF NothingSkipped, EventsOf
  <2>1. failed \subseteq failed' /\ cut \subseteq cut' /\ done \subseteq done'
    BY <1>2 DEF Next, Record, enqueue_alerts, EnqueueFails, Evaluate, Finish, Raise, ReadEvent,
       ReadDefinition, Supersede, RecordDefinition, UpsertBegins, Upsert, dispatch_alert,
       CommitAlert, EndEvent, Work, Take, Ack, Report, Restart, Kill, Interrupt, Stop,
       evaluate_all, Tick, vars, jobVars, history
  <2>2. CASE handed[b] = "queued" /\ b \notin pending /\ ~Waiting(b)
    BY <1>2, <2>1, <2>2 DEF NothingSkipped
  <2>3. CASE handed[b] # "queued"
    <3>1. enqueue_alerts(b)
      <4>1. \E a \in Batches : Record(a) \/ enqueue_alerts(a) \/ EnqueueFails(a)
        BY <1>2, <2>3 DEF Next, Evaluate, Finish, Raise, ReadEvent,
           ReadDefinition, Supersede, RecordDefinition, UpsertBegins, Upsert, dispatch_alert,
           CommitAlert, EndEvent, Work, Take, Ack, Report, Restart, Kill, Interrupt, Stop,
           evaluate_all, Tick, vars, jobVars, history
      <4>2. handed \in [Batches -> {"new", "recorded", "queued", "lost"}]
        BY <1>2 DEF JobInv, EvalInv, TypeOK
      <4>3. QED
        BY <2>3, <4>1, <4>2 DEF Record, enqueue_alerts, EnqueueFails
    <3>2. stream' = Append(stream, b) /\ stream \in Seq(Batches)
      BY <1>2, <3>1 DEF enqueue_alerts, JobInv, EvalInv, TypeOK
    <3>3. Len(stream') = Len(stream) + 1 /\ stream'[Len(stream) + 1] = b /\ Len(stream) \in Nat
      BY <3>2
    <3>4. Waiting(b)'
      BY <3>3 DEF Waiting
    <3>5. QED
      BY <3>4
  <2>4. CASE Waiting(b) \/ b \in pending
    <3>1. ASSUME NEW p \in Workers, Take(p) PROVE FALSE
      <4>1. stream \in Seq(Batches) /\ stream # << >> /\ stream' = Tail(stream)
            /\ pending' = pending \cup {Head(stream)}
        BY <1>2, <3>1 DEF Take, JobInv, EvalInv, TypeOK
      <4>2. PICK i \in 1 .. Len(stream) : stream[i] = b
        BY <2>4, <4>1 DEF Waiting
      <4>3. i # 1
        BY <4>1, <4>2
      <4>4. i - 1 \in 1 .. Len(stream') /\ stream'[i - 1] = b
        BY <4>1, <4>2, <4>3
      <4>5. Waiting(b)'
        BY <4>4 DEF Waiting
      <4>6. QED
        BY <4>5
    <3>2. ASSUME NEW p \in Workers, Ack(p) PROVE b \in failed \/ EventsOf(b) \subseteq done
      <4>1. stream' = stream /\ pending' = pending \ {ev[p].job} /\ ev[p].at = "ack"
        BY <3>2 DEF Ack
      <4>2. b = ev[p].job
        BY <2>4, <4>1 DEF Waiting
      <4>3. QED
        BY <1>2, <4>1, <4>2 DEF JobInv, JobsFit, JobFits
    <3>3. ASSUME NEW p \in Workers, Interrupt(p) PROVE b \in cut'
      <4>1. stream' = stream /\ pending' = pending \ {ev[p].job} /\ cut' = cut \cup {ev[p].job}
        BY <3>3 DEF Interrupt, Stop
      <4>2. QED
        BY <2>4, <4>1 DEF Waiting
    <3>4. ASSUME NEW a \in Batches, Record(a) \/ enqueue_alerts(a) \/ EnqueueFails(a) PROVE FALSE
      <4>1. pending' = pending /\ (stream' = stream \/ stream' = Append(stream, a))
        BY <3>4 DEF Record, enqueue_alerts, EnqueueFails
      <4>2. stream \in Seq(Batches)
        BY <1>2 DEF JobInv, EvalInv, TypeOK
      <4>3. PICK i \in 1 .. Len(stream) : stream[i] = b
        BY <2>4, <4>1 DEF Waiting
      <4>4. i \in 1 .. Len(stream') /\ stream'[i] = b
        BY <4>1, <4>2, <4>3
      <4>5. QED
        BY <4>4 DEF Waiting
    <3>5. CASE UNCHANGED <<stream, pending>>
      BY <2>4, <3>5 DEF Waiting
    <3>6. QED
      BY <1>2, <2>1, <3>1, <3>2, <3>3, <3>4, <3>5 DEF Next, Evaluate, Finish, Raise, ReadEvent,
         ReadDefinition, Supersede, RecordDefinition, UpsertBegins, Upsert, dispatch_alert,
         CommitAlert, EndEvent, Work, Report, Restart, Kill, Stop, evaluate_all, Tick, vars,
         jobVars, history
  <2>5. QED
    BY <2>2, <2>3, <2>4
<1>3. QED
  BY <1>1, <1>2, JobsHold, PTL DEF Spec

-----------------------------------------------------------------------------
(* Changes of definition. *)

\* The change is about to be reported.
Reporting(c) ==
  /\ ev[c.by].at \in {"alert", "wait", "dispatch", "commit"}
  /\ Event(c.by) = c.event
  /\ "tool_rug_pull" \in ToSet(ev[c.by].found)

\* Who recorded it reports it, or its failure.
InHand(c) == Reporting(c) \/ ev[c.by].at \in {"failing", "error"}

\* The event is evaluated again some day, or somebody can see that it was not.
Safe(c) ==
  \E b \in Batches : c.event \in EventsOf(b) /\ (b \in failed \cup cut \/ (b \in pending /\ ~Held(b)))

Known(c) ==
  \/ c.by \in Workers /\ Safe(c)
  \/ InHand(c) /\ (c.by \in Workers => ev[c.by].job \in Batches /\ c.event \in EventsOf(ev[c.by].job))

AllKnown == \A c \in owed : Known(c)

LEMMA KnownAccounted == JobInv /\ AllKnown => ChangesAccounted
<1> SUFFICES ASSUME JobInv, AllKnown, NEW c \in owed
             PROVE  IF c.by \in Workers
                    THEN \E b \in pending \cup failed \cup cut : c.event \in EventsOf(b)
                    ELSE ev[c.by].at \in Working \cup {"error"}
  BY DEF ChangesAccounted
<1>1. Known(c) /\ c.by \in Procs
  BY DEF AllKnown, JobInv, EvalInv, TypeOK
<1>2. CASE c.by \in Workers
  <2>1. CASE Safe(c)
    BY <1>2, <2>1 DEF Safe
  <2>2. CASE ev[c.by].job \in Batches /\ c.event \in EventsOf(ev[c.by].job)
    <3>1. ev[c.by].job \in pending
      BY <1>2, <2>2, AlertsAssumption DEF JobInv, OneHolder
    <3>2. QED
      BY <1>2, <2>2, <3>1
  <2>3. QED
    BY <1>1, <1>2, <2>1, <2>2 DEF Known
<1>3. CASE c.by \notin Workers
  <2>1. c.by \in Calls /\ InHand(c)
    BY <1>1, <1>3 DEF Known, Procs
  <2>2. ev[c.by].at # "failing"
    BY <1>1, <2>1 DEF JobInv, EvalInv, EvFits, Fits
  <2>3. QED
    BY <1>3, <2>1, <2>2 DEF InHand, Reporting, Working
<1>4. QED
  BY <1>2, <1>3

\* What an evaluation of p leaves of the changes of others, and of those that are safe.
LEMMA OthersKnown ==
  ASSUME JobInv, AllKnown, NEW p \in Procs, Evaluate(p) \/ Raise(p), NEW c \in owed,
         c.by # p \/ (c.by \in Workers /\ Safe(c))
  PROVE  Known(c)'
<1>1. UNCHANGED <<jobVars, cut>>
  BY DEF Evaluate, Finish, Raise, ReadEvent, ReadDefinition, Supersede, RecordDefinition,
         UpsertBegins, Upsert, dispatch_alert, CommitAlert, EndEvent, history
<1>2. Only(p) /\ ev'[p].job = ev[p].job
  BY FinishMoves, RaiseMoves, ReadEventMoves, ReadDefinitionMoves, SupersedeMoves,
     RecordDefinitionMoves, UpsertBeginsMoves, UpsertMoves, DispatchMoves, CommitMoves,
     EndEventMoves DEF Evaluate, JobInv
<1>3. \A q \in Workers : ev'[q].job = ev[q].job
  BY <1>2 DEF Only, Procs
<1>4. CASE c.by \in Workers /\ Safe(c)
  BY <1>1, <1>3, <1>4 DEF Known, Safe, Held, EventsOf, jobVars
<1>5. CASE c.by # p /\ ~(c.by \in Workers /\ Safe(c))
  <2>1. c.by \in Procs /\ Known(c)
    BY DEF AllKnown, JobInv, EvalInv, TypeOK
  <2>2. ev'[c.by] = ev[c.by]
    BY <1>2, <1>5, <2>1 DEF Only
  <2>3. QED
    BY <1>5, <2>1, <2>2 DEF Known, InHand, Reporting, Event, EventsOf
<1>6. QED
  BY <1>4, <1>5

\* What an evaluation of p leaves of his own changes.
LEMMA OwnKnown ==
  ASSUME JobInv, AllKnown, NEW p \in Procs, Evaluate(p) \/ Raise(p), NEW c \in owed,
         c.by = p, ~(c.by \in Workers /\ Safe(c)), c \in owed'
  PROVE  Known(c)'
<1>1. /\ Known(c) /\ InHand(c) /\ Fits(p)
      /\ c.by \in Workers => ev[p].job \in Batches /\ c.event \in EventsOf(ev[p].job)
  BY DEF AllKnown, Known, JobInv, EvalInv, EvFits
<1>2. ev[p].at \in Working
  BY DEF Evaluate, Finish, Raise, ReadEvent, ReadDefinition, Supersede, RecordDefinition,
         UpsertBegins, Upsert, dispatch_alert, CommitAlert, EndEvent, Working
<1>3. Reporting(c) /\ ev[p].at \in {"alert", "wait", "dispatch", "commit"}
  BY <1>1, <1>2 DEF InHand, Reporting, Working
<1>4. Only(p) /\ ev'[p].job = ev[p].job
  BY FinishMoves, RaiseMoves, ReadEventMoves, ReadDefinitionMoves, SupersedeMoves,
     RecordDefinitionMoves, UpsertBeginsMoves, UpsertMoves, DispatchMoves, CommitMoves,
     EndEventMoves DEF Evaluate, JobInv
<1>5. InHand(c)'
  <2>1. CASE UpsertBegins(p) \/ Upsert(p) \/ dispatch_alert(p)
    <3>1. /\ ev'[p].at \in {"wait", "dispatch", "commit"}
          /\ ev'[p].left = ev[p].left /\ ev'[p].found = ev[p].found
      BY <2>1, UpsertBeginsMoves, UpsertMoves, DispatchMoves DEF JobInv
    <3>2. QED
      BY <1>3, <3>1 DEF InHand, Reporting, Event
  <2>2. CASE CommitAlert(p)
    <3>1. /\ ev[p].found # << >> /\ ev[p].found \in Seq(Rules)
          /\ ev'[p].at = "alert" /\ ev'[p].left = ev[p].left /\ ev'[p].found = Tail(ev[p].found)
      BY <2>2, CommitMoves DEF JobInv, EvalInv, TypeOK
    <3>2. c = [event |-> Event(p), by |-> p]
      BY <1>3 DEF Reporting, JobInv, EvalInv, TypeOK
    <3>3. Rule(p) # "tool_rug_pull"
      BY <2>2, <3>2 DEF CommitAlert
    <3>4. "tool_rug_pull" \in ToSet(ev'[p].found)
      BY <1>3, <3>1, <3>3, HeadTail DEF Reporting, Rule
    <3>5. QED
      BY <1>3, <3>1, <3>4 DEF InHand, Reporting, Event
  <2>3. CASE EndEvent(p)
    <3>1. ToSet(ev[p].found) = {}
      BY <2>3, EndEventMoves DEF JobInv, ToSet
    <3>2. QED
      BY <1>3, <3>1 DEF Reporting
  <2>4. CASE Raise(p)
    BY <2>4, RaiseMoves DEF JobInv, InHand
  <2>5. QED
    BY <1>3, <2>1, <2>2, <2>3, <2>4
    DEF Evaluate, Finish, ReadEvent, ReadDefinition, Supersede, RecordDefinition
<1>6. QED
  BY <1>1, <1>4, <1>5 DEF Known, EventsOf

\* A change that is recorded now is reported next.
LEMMA NewKnown ==
  ASSUME JobInv, NEW p \in Procs, RecordDefinition(p), NEW c \in owed' \ owed
  PROVE  Known(c)'
<1>1. c = [event |-> Event(p), by |-> p] /\ ev[p].changed
  BY DEF RecordDefinition
<1>2. /\ ev[p].at = "record" /\ ev'[p].at = "alert" /\ ev'[p].left = ev[p].left
      /\ ev'[p].job = ev[p].job /\ "tool_rug_pull" \in ToSet(ev'[p].found)
  BY <1>1, RecordDefinitionMoves DEF JobInv
<1>3. InHand(c)'
  BY <1>1, <1>2 DEF InHand, Reporting, Event
<1>4. ASSUME p \in Workers PROVE ev[p].job \in Batches /\ Event(p) \in EventsOf(ev[p].job)
  <2>1. JobFits(p) /\ Fits(p) /\ ev[p] \in EvRec
    BY <1>4, TypeParts DEF JobInv, JobsFit, EvalInv, EvFits, Procs
  <2>2. ev[p].job \in Batches /\ ev[p].left # << >> /\ ev[p].left \in Seq(Events)
    BY <1>2, <1>4, <2>1 DEF Fits, EvRec, Working
  <2>3. Event(p) \in ToSet(ev[p].left)
    BY <2>2, HeadTail DEF Event
  <2>4. QED
    BY <1>2, <2>1, <2>2, <2>3 DEF JobFits, Working
<1>5. QED
  BY <1>1, <1>2, <1>3, <1>4 DEF Known, EventsOf

LEMMA KnownWork ==
  ASSUME JobInv, AllKnown, NEW p \in Workers, Work(p) \/ Kill(p) \/ Interrupt(p), NEW c \in owed
  PROVE  Known(c)'
<1>0. Known(c) /\ p \in Procs /\ c.by \in Procs
  BY DEF AllKnown, Procs, JobInv, EvalInv, TypeOK
<1>1. CASE Take(p)
  <2>1. /\ Only(p) /\ ev[p].at = "idle" /\ stream # << >> /\ ev'[p].job = Head(stream)
        /\ pending \subseteq pending' /\ failed' = failed /\ cut' = cut
    BY <1>1, TakeMoves DEF Take, history, JobInv
  <2>2. Head(stream) \notin pending
    <3>1. stream \in Seq(Batches)
      BY DEF JobInv, EvalInv, TypeOK
    <3>2. 1 \in 1 .. Len(stream) /\ Head(stream) = stream[1]
      BY <2>1, <3>1
    <3>3. QED
      BY <3>2 DEF JobInv, OnePlace
  <2>3. \A q \in Workers \ {p} : ev'[q] = ev[q]
    BY <2>1 DEF Only, Procs
  <2>4. Safe(c) => Safe(c)'
    BY <2>1, <2>2, <2>3 DEF Safe, Held, EventsOf
  <2>5. InHand(c) => c.by # p /\ InHand(c)' /\ ev'[c.by] = ev[c.by]
    BY <1>0, <2>1 DEF InHand, Reporting, Event, Only
  <2>6. QED
    BY <1>0, <2>4, <2>5 DEF Known, EventsOf
<1>2. CASE Restart(p) \/ Ack(p)
  <2>1. /\ Only(p) /\ ev'[p].job = NoJob /\ ev[p].at \in {"down", "ack"}
        /\ failed' = failed /\ cut' = cut
        /\ pending' = pending \/ pending' = pending \ {ev[p].job}
    BY <1>2, AckMoves, RestartMoves, IdleType DEF Ack, Restart, history, jobVars, JobInv
  <2>2. \A q \in Workers \ {p} : ev'[q] = ev[q]
    BY <2>1 DEF Only, Procs
  <2>3. Safe(c) => Safe(c)'
    BY <2>1, <2>2, AlertsAssumption DEF Safe, Held, EventsOf
  <2>4. InHand(c) => c.by # p /\ InHand(c)' /\ ev'[c.by] = ev[c.by]
    BY <1>0, <2>1 DEF InHand, Reporting, Event, Only
  <2>5. QED
    BY <1>0, <2>3, <2>4 DEF Known, EventsOf
<1>3. CASE Report(p)
  <2>1. /\ Only(p) /\ ev'[p].job = ev[p].job
        /\ failed' = failed \cup {ev[p].job} /\ cut' = cut /\ pending' = pending
    BY <1>3, ReportMoves DEF Report, history, JobInv
  <2>2. \A q \in Workers : ev'[q].job = ev[q].job
    BY <2>1 DEF Only, Procs
  <2>3. Safe(c) => Safe(c)'
    BY <2>1, <2>2 DEF Safe, Held, EventsOf
  <2>4. CASE c.by # p
    <3>1. ev'[c.by] = ev[c.by]
      BY <1>0, <2>1, <2>4 DEF Only
    <3>2. QED
      BY <1>0, <2>3, <3>1 DEF Known, InHand, Reporting, Event, EventsOf
  <2>5. CASE c.by = p
    BY <1>0, <2>1, <2>3, <2>5 DEF Known, Safe, EventsOf
  <2>6. QED
    BY <2>4, <2>5
<1>4. CASE Kill(p) \/ Interrupt(p)
  <2>1. /\ Only(p) /\ ev'[p].job = NoJob /\ failed' = failed
        /\ \/ pending' = pending /\ cut' = cut
           \/ pending' = pending \ {ev[p].job} /\ cut' = cut \cup {ev[p].job}
    BY <1>4, StopMoves DEF Kill, Interrupt, Stop, JobInv
  <2>2. \A q \in Workers \ {p} : ev'[q] = ev[q]
    BY <2>1 DEF Only, Procs
  <2>3. Safe(c) => Safe(c)'
    BY <2>1, <2>2, AlertsAssumption DEF Safe, Held, EventsOf
  <2>4. CASE c.by # p
    <3>1. ev'[c.by] = ev[c.by]
      BY <1>0, <2>1, <2>4 DEF Only
    <3>2. QED
      BY <1>0, <2>3, <3>1 DEF Known, InHand, Reporting, Event, EventsOf
  <2>5. CASE c.by = p /\ ~Safe(c)
    <3>1. ev[p].job \in Batches /\ c.event \in EventsOf(ev[p].job)
      BY <1>0, <2>5 DEF Known
    <3>2. ev[p].job \in pending /\ \A q \in Workers : ev[q].job = ev[p].job => q = p
      BY <3>1, AlertsAssumption DEF JobInv, OneHolder
    <3>3. Safe(c)'
      BY <2>1, <2>2, <3>1, <3>2, AlertsAssumption DEF Safe, Held, EventsOf
    <3>4. QED
      BY <2>5, <3>3 DEF Known
  <2>6. QED
    BY <2>3, <2>4, <2>5 DEF Known
<1>5. QED
  BY <1>1, <1>2, <1>3, <1>4 DEF Work

LEMMA KnownStep == JobInv /\ AllKnown /\ [Next]_vars => AllKnown'
<1> SUFFICES ASSUME JobInv, AllKnown, [Next]_vars PROVE AllKnown'
  OBVIOUS
<1>1. CASE UNCHANGED <<ev, pending, failed, cut, owed>>
  BY <1>1 DEF AllKnown, Known, InHand, Reporting, Event, Safe, Held, EventsOf
<1>2. CASE Tick \/ UNCHANGED vars
  BY <1>1, <1>2 DEF Tick, vars, jobVars, history
<1>3. ASSUME NEW b \in Batches, Record(b) \/ enqueue_alerts(b) \/ EnqueueFails(b)
      PROVE  AllKnown'
  BY <1>1, <1>3 DEF Record, enqueue_alerts, EnqueueFails, history
<1>4. ASSUME NEW p \in Procs, Evaluate(p) \/ Raise(p) PROVE AllKnown'
  <2>1. ASSUME NEW c \in owed', c \notin owed PROVE RecordDefinition(p)
    BY <1>4, <2>1 DEF Evaluate, Finish, Raise, ReadEvent, ReadDefinition, Supersede,
       UpsertBegins, Upsert, dispatch_alert, CommitAlert, EndEvent, history
  <2>2. \A c \in owed' : Known(c)'
    BY <1>4, <2>1, OthersKnown, OwnKnown, NewKnown
  <2>3. QED
    BY <2>2 DEF AllKnown
<1>5. ASSUME NEW p \in Workers, Work(p) \/ Kill(p) \/ Interrupt(p) PROVE AllKnown'
  <2>1. owed' = owed
    BY <1>5 DEF Work, Take, Ack, Report, Restart, Kill, Interrupt, Stop, history
  <2>2. QED
    BY <1>5, <2>1, KnownWork DEF AllKnown
<1>6. ASSUME NEW k \in Calls, evaluate_all(k) PROVE AllKnown'
  <2>1. UNCHANGED <<pending, failed, cut, owed>> /\ Only(k) /\ ev[k].at = "new" /\ k \notin Workers
    BY <1>6, EvaluateAllMoves, AlertsAssumption DEF evaluate_all, jobVars, history, JobInv
  <2>2. \A q \in Workers : ev'[q] = ev[q]
    BY <2>1 DEF Only, Procs
  <2>3. ASSUME NEW c \in owed PROVE Known(c)'
    <3>1. Known(c) /\ c.by \in Procs
      BY DEF AllKnown, JobInv, EvalInv, TypeOK
    <3>2. Safe(c) => Safe(c)'
      BY <2>1, <2>2 DEF Safe, Held, EventsOf
    <3>3. InHand(c) => ev'[c.by] = ev[c.by] /\ InHand(c)'
      BY <2>1, <3>1 DEF InHand, Reporting, Event, Only
    <3>4. QED
      BY <3>1, <3>2, <3>3 DEF Known, EventsOf
  <2>4. QED
    BY <2>1, <2>3 DEF AllKnown
<1>7. QED
  BY <1>2, <1>3, <1>4, <1>5, <1>6 DEF Next

\* A change of definition that is recorded and not yet reported is not forgotten: its event
\* is in a job that is pending or failed or was cut, or the call that found it goes on or
\* has answered with an error (alerts.py:256-265, tool_integrity.py:103-128).
THEOREM ChangesNeverForgotten == Spec => []ChangesAccounted
<1>1. Init => AllKnown
  BY DEF Init, AllKnown
<1>2. QED
  BY <1>1, KnownStep, KnownAccounted, JobsHold, PTL DEF Spec

-----------------------------------------------------------------------------
(* The current definition. *)

Seen == (\E d \in Defs : defs[d] # "unseen") => Current # {}

Observing(p) == ev[p].at \in {"supersede", "record"}

\* What an observation has read is what is on record.
ReadsRight(p) ==
  /\ ev[p].at = "supersede" => ev[p].changed
  /\ ev[p].at = "record" => IF ev[p].changed THEN ev[p].current = Current
                            ELSE Current \subseteq {Tool[Event(p)]}

Alone ==
  /\ \A p, q \in Procs : Observing(p) /\ Observing(q) => p = q
  /\ \A x, y \in Current : x = y
  /\ \A p \in Procs : ReadsRight(p)

DefInv == Seen /\ (overlapped \/ Alone)

LEMMA OneCurrent == DefInv => OneDefinition
<1> SUFFICES ASSUME DefInv PROVE OneDefinition
  OBVIOUS
<1>1. Alone => Cardinality(Current) <= 1
  <2> SUFFICES ASSUME Alone PROVE Cardinality(Current) <= 1
    OBVIOUS
  <2>1. CASE Current = {}
    BY <2>1, FS_EmptySet
  <2>2. CASE Current # {}
    <3>1. PICK d \in Current : TRUE
      BY <2>2
    <3>2. Current = {d}
      BY <3>1 DEF Alone
    <3>3. QED
      BY <3>2, FS_Singleton
  <2>3. QED
    BY <2>1, <2>2
<1>2. QED
  BY <1>1, Zenon DEF DefInv, OneDefinition, Seen

\* A step of p that leaves the definitions and observes nothing.
LEMMA NotObserving ==
  ASSUME Alone, NEW p \in Procs, Only(p), ~Observing(p)', defs' = defs
  PROVE  Alone'
<1>1. \A q \in Procs \ {p} : ev'[q] = ev[q]
  BY DEF Only
<1>2. Current' = Current
  BY DEF Current
<1>3. \A q \in Procs : Observing(q)' => q # p /\ Observing(q)
  BY <1>1 DEF Observing
<1>4. \A q \in Procs : ReadsRight(q)'
  BY <1>1, <1>2 DEF Alone, ReadsRight, Observing, Event
<1>5. QED
  BY <1>2, <1>3, <1>4 DEF Alone

LEMMA AloneEvaluate ==
  ASSUME EvalInv, Alone, NEW p \in Procs, Evaluate(p) \/ Raise(p), ~overlapped'
  PROVE  Alone'
<1>1. CASE ReadDefinition(p)
  <2>1. \A q \in Procs \ {p} : ~Observing(q)
    BY <1>1, Zenon DEF ReadDefinition, Observing
  <2>2. /\ Only(p) /\ ev'[p].left = ev[p].left
        /\ ev'[p].at = "supersede" => ev'[p].changed
        /\ ev'[p].at = "record" => ~ev'[p].changed /\ (Current = {} \/ Tool[Event(p)] \in Current)
    BY <1>1, ReadDefinitionMoves
  <2>3. defs' = defs
    BY <1>1 DEF ReadDefinition, dataVars
  <2>4. Current' = Current
    BY <2>3 DEF Current
  <2>5. \A q \in Procs \ {p} : ev'[q] = ev[q] /\ ~Observing(q)'
    BY <2>1, <2>2 DEF Only, Observing
  <2>6. ReadsRight(p)'
    BY <2>2, <2>4 DEF Alone, ReadsRight, Event
  <2>7. \A q \in Procs \ {p} : ReadsRight(q)'
    BY <2>5 DEF ReadsRight, Observing
  <2>8. QED
    BY <2>4, <2>5, <2>6, <2>7 DEF Alone
<1>2. CASE Supersede(p)
  <2>1. /\ Only(p) /\ ev[p].at = "supersede" /\ ev'[p].at = "record"
        /\ ev'[p].changed = ev[p].changed /\ ev'[p].current = Current
    BY <1>2, SupersedeMoves
  <2>2. defs' = defs
    BY <1>2 DEF Supersede, dataVars
  <2>3. Current' = Current
    BY <2>2 DEF Current
  <2>4. \A q \in Procs \ {p} : ev'[q] = ev[q]
    BY <2>1 DEF Only
  <2>5. ReadsRight(p)'
    BY <2>1, <2>3 DEF Alone, ReadsRight
  <2>6. \A q \in Procs \ {p} : ReadsRight(q)'
    BY <2>3, <2>4 DEF Alone, ReadsRight, Event
  <2>7. \A q, r \in Procs : Observing(q)' /\ Observing(r)' => q = r
    BY <2>1, <2>4 DEF Alone, Observing
  <2>8. QED
    BY <2>3, <2>5, <2>6, <2>7 DEF Alone
<1>3. CASE RecordDefinition(p)
  <2>1. /\ Only(p) /\ ev[p].at = "record" /\ ev'[p].at = "alert"
    BY <1>3, RecordDefinitionMoves
  <2>2. defs' = [d \in Defs |-> IF d = Tool[Event(p)] THEN "current"
                                ELSE IF d \in ev[p].current THEN "superseded" ELSE defs[d]]
    BY <1>3 DEF RecordDefinition
  <2>3. Current' \subseteq {Tool[Event(p)]}
    BY <2>1, <2>2 DEF Alone, ReadsRight, Current
  <2>4. \A q \in Procs : ~Observing(q)'
    BY <2>1 DEF Alone, Observing, Only
  <2>5. \A q \in Procs : ReadsRight(q)'
    BY <2>4 DEF ReadsRight, Observing
  <2>6. QED
    BY <2>3, <2>4, <2>5 DEF Alone
<1>4. CASE ~(ReadDefinition(p) \/ Supersede(p) \/ RecordDefinition(p))
  <2>1. defs' = defs
    BY <1>4 DEF Evaluate, Finish, Raise, ReadEvent, UpsertBegins, Upsert, dispatch_alert,
       CommitAlert, EndEvent, dataVars
  <2>2. Only(p) /\ ~Observing(p)'
    BY <1>4, FinishMoves, RaiseMoves, ReadEventMoves, UpsertBeginsMoves, UpsertMoves,
       DispatchMoves, CommitMoves, EndEventMoves DEF Evaluate, Observing
  <2>3. QED
    BY <2>1, <2>2, NotObserving
<1>5. QED
  BY <1>1, <1>2, <1>3, <1>4

LEMMA SeenEvaluate ==
  ASSUME EvalInv, Seen, NEW p \in Procs, RecordDefinition(p) PROVE Seen'
<1>1. ev[p].at = "record" /\ Fits(p) /\ ev[p] \in EvRec
  BY TypeParts DEF RecordDefinition, EvalInv, EvFits
<1>2. ev[p].left # << >> /\ ev[p].left \in Seq(Events) /\ Tool[Event(p)] # NoDef
  BY <1>1 DEF Fits, EvRec, Working
<1>3. Event(p) \in Events
  BY <1>2, HeadTail DEF Event
<1>4. Tool[Event(p)] \in Defs
  BY <1>2, <1>3, AlertsAssumption
<1>5. QED
  BY <1>4 DEF RecordDefinition, Seen, Current

LEMMA DefStep == EvalInv /\ DefInv /\ [Next]_vars => DefInv'
<1> SUFFICES ASSUME EvalInv, DefInv, [Next]_vars PROVE DefInv'
  OBVIOUS
<1>1. overlapped => overlapped'
  BY Zenon DEF Next, Record, enqueue_alerts, EnqueueFails, Evaluate, Finish, Raise, ReadEvent,
     ReadDefinition, Supersede, RecordDefinition, UpsertBegins, Upsert, dispatch_alert,
     CommitAlert, EndEvent, Work, Take, Ack, Report, Restart, Kill, Interrupt, Stop,
     evaluate_all, Tick, vars, history
<1>2. Seen'
  <2>1. CASE defs' = defs
    BY <2>1 DEF DefInv, Seen, Current
  <2>2. ASSUME defs' # defs PROVE \E p \in Procs : RecordDefinition(p)
    BY <2>2 DEF Next, Record, enqueue_alerts, EnqueueFails, Evaluate, Finish, Raise, ReadEvent,
     ReadDefinition, Supersede, UpsertBegins, Upsert, dispatch_alert,
     CommitAlert, EndEvent, Work, Take, Ack, Report, Restart, Kill, Interrupt, Stop,
     evaluate_all, Tick, vars, dataVars
  <2>3. QED
    BY <2>1, <2>2, SeenEvaluate DEF DefInv
<1>3. ASSUME ~overlapped' PROVE Alone'
  <2>1. Alone
    BY <1>1, <1>3, Zenon DEF DefInv
  <2>2. ASSUME UNCHANGED <<ev, defs>> PROVE Alone'
    BY <2>1, <2>2 DEF Alone, Observing, ReadsRight, Current, Event
  <2>3. CASE Tick \/ UNCHANGED vars
    BY <2>2, <2>3 DEF Tick, vars, dataVars
  <2>4. ASSUME NEW b \in Batches, Record(b) \/ enqueue_alerts(b) \/ EnqueueFails(b)
        PROVE  Alone'
    BY <2>2, <2>4 DEF Record, enqueue_alerts, EnqueueFails, dataVars
  <2>5. ASSUME NEW p \in Procs, Evaluate(p) \/ Raise(p) PROVE Alone'
    BY <1>3, <2>1, <2>5, AloneEvaluate
  <2>6. ASSUME NEW p \in Procs,
               \/ p \in Workers /\ (Work(p) \/ Kill(p) \/ Interrupt(p))
               \/ p \in Calls /\ evaluate_all(p)
        PROVE  Alone'
    <3>1. Only(p) /\ ~Observing(p)'
      BY <2>6, TakeMoves, AckMoves, ReportMoves, RestartMoves, StopMoves, EvaluateAllMoves,
         IdleType DEF Work, Kill, Interrupt, Observing
    <3>2. defs' = defs
      BY <2>6 DEF Work, Kill, Interrupt, Take, Ack, Report, Restart, Stop, evaluate_all, dataVars
    <3>3. QED
      BY <2>1, <3>1, <3>2, NotObserving
  <2>7. QED
    BY <2>3, <2>4, <2>5, <2>6 DEF Next, Procs
<1>4. QED
  BY <1>2, <1>3, Zenon DEF DefInv

\* A tool that was observed has a current definition, and two only if two observations of
\* it were in progress at once, for any number of definitions, workers and calls
\* (tool_integrity.py:95-128).
THEOREM OneDefinitionCurrent == Spec => []OneDefinition
<1>1. Init => DefInv
  BY IdleType DEF Init, DefInv, Seen, Alone, Observing, ReadsRight, Current
<1>2. QED
  BY <1>1, DefStep, OneCurrent, EvalHolds, PTL DEF Spec

===============================================================================
