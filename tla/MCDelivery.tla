------------------------------ MODULE MCDelivery ------------------------------
(***************************************************************************)
(* Two tap processes on one spool directory.  The first causes two events, *)
(* one with a payload and one malformed (or none), and its agent exits; or *)
(* each of the two causes one.  The second has no last drain, but a sender *)
(* that finds the other's files.                                           *)
(***************************************************************************)
EXTENDS Delivery, TLC

CONSTANTS p1, p2

MCPlans == {p1 :> 2 @@ p2 :> 0, p1 :> 1 @@ p2 :> 1}

MCWithPayload == {<<p1, 1>>}

MCMalformed == {<<p1, 2>>}

MCNone == {}
===============================================================================
