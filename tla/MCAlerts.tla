------------------------------- MODULE MCAlerts -------------------------------
(***************************************************************************)
(* Two batches, the first of which observes a tool and deletes something,  *)
(* the second of which observes the tool with another definition and       *)
(* deletes again.  In one turn there are two workers, one of them may be   *)
(* stopped, time passes and the first batch has a further, plain event; in *)
(* the other there are one worker and one re-evaluation, and no hand-over  *)
(* fails.                                                                  *)
(***************************************************************************)
EXTENDS Alerts, TLC

CONSTANTS b1, b2, b3, e1, e2, e3, d1, d2, w1, w2, c1

VARIABLE turn

MCBatch == b1 :> << e1 >> @@ b2 :> << e2 >> @@ b3 :> << e1, e3 >>

MCTool == e1 :> d1 @@ e2 :> d2 @@ e3 :> NoDef

\* The batches that are recorded in a turn, and who evaluates them.
TurnBatches == IF turn = "workers" THEN {b2, b3} ELSE {b1, b2}

TurnProcs == IF turn = "workers" THEN {w1, w2} ELSE {w1, c1}

AlertsInit == turn \in {"workers", "call"} /\ Init

AlertsNext ==
  /\ UNCHANGED turn
  /\ Next
  /\ \A b \in Batches \ TurnBatches : handed'[b] = "new"
  /\ \A p \in Procs \ TurnProcs : ev'[p] = ev[p]
  /\ IF turn = "call"
     THEN now' = 0 /\ deaths' = 0 /\ (\A b \in Batches : handed'[b] # "lost")
     ELSE handed'[b2] # "new" => handed'[b3] # "new"

AlertsSpec ==
  /\ AlertsInit /\ [][AlertsNext]_<<turn, vars>>
  /\ \A p \in Workers : WF_vars((p \in TurnProcs /\ (Work(p) \/ Evaluate(p))))
  /\ \A c \in Calls : WF_vars(c \in TurnProcs /\ Evaluate(c))
===============================================================================
