------------------------------- MODULE MCVerify -------------------------------
(***************************************************************************)
(* One producer repeats its batch after an error or a lost answer, another *)
(* records once: up to three events on two pages, up to three rows of      *)
(* rolled-back transactions, the same as a committed row or another one    *)
(* with its number (the payload may or may not be captured), one damaged   *)
(* row, and an anchor that later puts of the day replace, in any order.    *)
(* Plans and midnight are the business of MCIngest.                        *)
(***************************************************************************)
EXTENDS Verify, TLC

CONSTANTS r1, r2, t1, e1, e2

Event(e) == [id |-> e, payload |-> e = e1, admin |-> FALSE]

MCBatch == r1 :> << Event(e1) >> @@ r2 :> << Event(e2) >>

MCToken == [r \in Requests |-> t1]

MCMaxTry == [r \in Requests |-> IF r = r1 THEN 2 ELSE 1]

MCLimits == {}
===============================================================================
