------------------------------- MODULE MCIngest -------------------------------
(***************************************************************************)
(* A small tenant: two producers' calls that compete for one token's       *)
(* allowance, a batch that claims to come from the control plane, and a    *)
(* settings change with the event that chains it.                          *)
(***************************************************************************)
EXTENDS Ingest, TLC

CONSTANTS r1, r2, forged, admin, t1, e1, e2, e3, e4, e5

Event(e, p, a) == [id |-> e, payload |-> p, admin |-> a]

MCBatch ==
  r1     :> << Event(e1, TRUE, FALSE), Event(e2, TRUE, FALSE) >> @@
  r2     :> << Event(e3, TRUE, FALSE) >> @@
  forged :> << Event(e4, FALSE, TRUE) >> @@
  admin  :> << Event(e5, TRUE, TRUE) >>

MCToken == [r \in Requests |-> IF r = admin THEN NoToken ELSE t1]

\* One of the producers repeats its batch after an error or a lost answer.
MCMaxTry == [r \in Requests |-> IF r = r2 THEN 2 ELSE 1]

MCLimits == {1}
===============================================================================
