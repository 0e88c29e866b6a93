------------------------------- MODULE MCControl -------------------------------
(***************************************************************************)
(* Small instances of the policy plane, the master keys, the request path  *)
(* and the demo.  The four share no state, so a behaviour of all of them   *)
(* is for each a behaviour of its own: one is chosen, and the others stay  *)
(* as they start.                                                          *)
(***************************************************************************)
EXTENDS Policy, Keys, Access, Sandbox, TLC

CONSTANTS
  w1, w2, w3, d1, d2, p1, p2, r1, r2, \* policy plane
  k1,                             \* master keys
  q1, q2, q3, q4, q5, q6, q7, t1, t2, tok1, tok2, tok3, a1, u1, \* requests
  x1, v1, v2, o1                  \* demo

VARIABLE turn

\* The policy is written, and turned off by the process that serves the decisions or by
\* the other.
MCProcOf == w1 :> p1 @@ w2 :> p2 @@ w3 :> p1 @@ d1 :> p2 @@ d2 :> p2

Denying ==
  [effect |-> "deny", enabled |-> TRUE, on_error |-> "deny", priority |-> 1,
   conditions |-> {{r1, r2}, {r1}}]

MCBodyOf == w1 :> <<1, Denying>> @@ w2 :> <<1, [Denying EXCEPT !.enabled = FALSE]>>
            @@ w3 :> <<1, [Denying EXCEPT !.enabled = FALSE]>>

MCBodies == {MCBodyOf[w1][2], MCBodyOf[w2][2]}

Call(op, by_, tenant) ==
  [op |-> op, by |-> by_, tenant |-> tenant, user |-> Nobody, account |-> Nobody,
   token |-> Nobody, role |-> "viewer", costly |-> FALSE]

\* Two calls set up one user, two tenants connect one account, a token is made and one
\* is revoked, and one reads.
MCAsk ==
  q1 :> [Call("bootstrap", OperatorKey, Nobody) EXCEPT !.user = u1]
  @@ q2 :> [Call("bootstrap", OperatorKey, Nobody) EXCEPT !.user = u1]
  @@ q3 :> [Call("connect", tok1, t1) EXCEPT !.account = a1, !.costly = TRUE]
  @@ q4 :> [Call("connect", tok2, t2) EXCEPT !.account = a1, !.costly = TRUE]
  @@ q5 :> [Call("mint", tok1, t1) EXCEPT !.token = tok3, !.costly = TRUE]
  @@ q6 :> [Call("revoke", tok2, t2) EXCEPT !.token = tok2]
  @@ q7 :> Call("read", tok3, t1)

MCIssued ==
  tok1 :> [tenant |-> t1, role |-> "admin"] @@ tok2 :> [tenant |-> t2, role |-> "admin"]
  @@ tok3 :> [tenant |-> t1, role |-> "admin"]

\* One visitor alone, two visitors, a visitor and a customer.
MCMixes ==
  {[x \in Visits |-> IF x = x1 THEN v1 ELSE c] : c \in {v1, v2, o1}}

-----------------------------------------------------------------------------
Turns == {"policy", "keys", "access", "sandbox"}

ControlInit ==
  /\ turn \in Turns
  /\ PolicyInit /\ KeysInit /\ AccessInit /\ SandboxInit
  /\ dec[d1].request = r1
  /\ turn # "keys" => config.active = k1
  /\ turn # "access" => RequestAt(q1, "new") /\ RequestAt(q2, "new")
  /\ turn # "sandbox" => by = [x \in Visits |-> v1]

ControlNext ==
  /\ UNCHANGED turn
  /\ \/ /\ turn = "policy" /\ PolicyNext
        /\ dec'[d1].request = r1
        /\ restarts' # 0 => dec'[d2].request = r1
        /\ write'[w3].at # "new" =>
             write'[w2].at = "new" /\ dec'[d2].request = r1 /\ UNCHANGED restarts
        /\ UNCHANGED <<keysVars, accessVars, sandboxVars>>
     \/ turn = "keys" /\ KeysNext /\ UNCHANGED <<policyVars, accessVars, sandboxVars>>
     \/ turn = "access" /\ AccessNext /\ UNCHANGED <<policyVars, keysVars, sandboxVars>>
     \/ turn = "sandbox" /\ SandboxNext /\ UNCHANGED <<policyVars, keysVars, accessVars>>

ControlSpec == ControlInit /\ [][ControlNext]_<<turn, policyVars, keysVars, accessVars, sandboxVars>>
===============================================================================
