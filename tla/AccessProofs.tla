----------------------------- MODULE AccessProofs -----------------------------
(*****************************************************************************)
(* The handlers that write who owns what, and the limit that requests pass   *)
(* before them, for any number of requests, users, tenants and accounts: a   *)
(* user has one tenant and an account has one, whatever the limit and the    *)
(* tokens let through; and no counter lets more requests through than its    *)
(* limit, but for those that a Redis that failed did not count.  The demo,   *)
(* for any number of visitors, customers and calls: types, that what a       *)
(* sandbox holds can be reclaimed, and that a visitor has no more runs in an *)
(* hour than he may.                                                         *)
(*****************************************************************************)
EXTENDS Access, Sandbox, FiniteSetTheorems, TLAPS

-----------------------------------------------------------------------------
(* Requests. *)

Places == {"none", "new"} \cup Scopes \cup {"auth", "handle", "insert", "follow", "done", "refused", "failed"}

ReqRec == [at : Places, window : 0 .. MaxWindow, counted : BOOLEAN,
           answer : Tenants \cup Requests \cup {Nobody}]

ReqOK == window \in 0 .. MaxWindow /\ member \subseteq Users \X Requests /\ req \in [Requests -> ReqRec]

\* The steps before a handler, and those of a handler that is not of the two kinds below.
Elsewhere(r) ==
  \/ Arrive(r) \/ Count(r) \/ LimiterFails(r) \/ Authenticate(r)
  \/ Answer(r) \/ create_read_token(r) \/ revoke_read_token(r) \/ ChainAction(r) \/ RequestFails(r)

Bootstrapping(r) == BootstrapReads(r) \/ BootstrapCommits(r)

Connecting(r) == ConnectReads(r) \/ ConnectCommits(r) \/ QueueScan(r)

Ticking == NextWindow \/ \E key \in Scopes \X Callers, w \in 0 .. MaxWindow : CounterExpires(key, w)

\* A request that goes to a place goes there alone.
LEMMA Going ==
  ASSUME ReqOK, NEW r \in Requests, NEW a \in Places, RequestGoes(r, a)
  PROVE  /\ req' \in [Requests -> ReqRec]
         /\ req'[r].at = a
         /\ \A q \in Requests \ {r} : req'[q] = req[q]
<1>1. req' = [req EXCEPT ![r] = [req[r] EXCEPT !.at = a]] /\ req[r] \in ReqRec
  BY DEF RequestGoes, ReqOK
<1>2. [req[r] EXCEPT !.at = a] \in ReqRec /\ [req[r] EXCEPT !.at = a].at = a
  BY <1>1 DEF ReqRec
<1>3. QED
  BY <1>1, <1>2 DEF ReqOK

\* The steps before a handler, and the handlers that only move: the request that moves is
\* not put where a set-up or a connection stands.
LEMMA ElsewhereMoves ==
  ASSUME ReqOK, NEW r \in Requests, Elsewhere(r)
  PROVE  /\ ReqOK'
         /\ UNCHANGED <<member, connected, scans>>
         /\ \A q \in Requests \ {r} : req'[q] = req[q]
         /\ Ask[r].op \in {"bootstrap", "connect"} => req'[r].at \notin {"insert", "follow", "done"}
<1>1. UNCHANGED <<window, member, connected, scans>>
  BY DEF Elsewhere, Arrive, Count, LimiterFails, Authenticate, Answer, create_read_token,
         revoke_read_token, ChainAction, RequestFails
<1>2. Scopes \cup {"auth", "handle", "follow", "done", "refused", "failed"} \subseteq Places
  BY DEF Places
<1>3. CASE Arrive(r)
  <2>1. req' = [req EXCEPT ![r] = [req[r] EXCEPT !.at = "global", !.window = window]]
    BY <1>3 DEF Arrive, ReqOK
  <2>2. [req[r] EXCEPT !.at = "global", !.window = window] \in ReqRec
    BY DEF ReqOK, ReqRec, Places, Scopes
  <2>3. [req[r] EXCEPT !.at = "global", !.window = window].at = "global"
    BY DEF ReqOK, ReqRec
  <2>4. QED
    BY <1>1, <2>1, <2>2, <2>3 DEF ReqOK
<1>4. CASE Count(r)
  <2>1. PICK a \in Scopes \cup {"auth", "refused"}, b \in BOOLEAN :
          req' = [req EXCEPT ![r] = [req[r] EXCEPT !.at = a, !.counted = b]]
    <3>0. PICK scope \in Scopes :
            LET key  == <<scope, ChargedTo(r, scope)>>
                n    == count[key][req[r].window] + 1
                over == LimitOf(scope) > 0 /\ _over_limit(n, LimitOf(scope))
            IN  req' = [req EXCEPT ![r].at = IF over THEN "refused" ELSE AfterScope(r, scope),
                                   ![r].counted = scope = "caller" /\ ~over /\ req[r].window = window]
      BY <1>4 DEF Count
    <3> DEFINE over == /\ LimitOf(scope) > 0
                       /\ _over_limit(count[<<scope, ChargedTo(r, scope)>>][req[r].window] + 1, LimitOf(scope))
    <3>1. req' = [req EXCEPT ![r].at = IF over THEN "refused" ELSE AfterScope(r, scope),
                             ![r].counted = scope = "caller" /\ ~over /\ req[r].window = window]
      BY <3>0
    <3> HIDE DEF over
    <3>2. (IF over THEN "refused" ELSE AfterScope(r, scope)) \in Scopes \cup {"auth", "refused"}
      BY DEF AfterScope, Scopes
    <3>3. (scope = "caller" /\ ~over /\ req[r].window = window) \in BOOLEAN
      OBVIOUS
    <3>4. QED
      BY <3>1, <3>2, <3>3 DEF ReqOK
  <2>2. [req[r] EXCEPT !.at = a, !.counted = b] \in ReqRec
    BY <1>2, <2>1 DEF ReqOK, ReqRec
  <2>3. [req[r] EXCEPT !.at = a, !.counted = b].at = a
    BY DEF ReqOK, ReqRec
  <2>4. a \notin {"insert", "follow", "done"}
    BY <2>1 DEF Scopes
  <2>5. QED
    BY <1>1, <2>1, <2>2, <2>3, <2>4 DEF ReqOK
<1>5. ASSUME NEW a \in {"auth", "handle", "follow", "done", "refused", "failed"}, RequestGoes(r, a),
             a \in {"follow", "done"} => Ask[r].op \in {"read", "mint", "revoke"}
      PROVE  /\ req' \in [Requests -> ReqRec]
             /\ \A q \in Requests \ {r} : req'[q] = req[q]
             /\ Ask[r].op \in {"bootstrap", "connect"} => req'[r].at \notin {"insert", "follow", "done"}
  BY <1>2, <1>5, Going
<1>6. CASE LimiterFails(r) \/ Authenticate(r) \/ RequestFails(r)
  <2>1. \E a \in {"auth", "handle", "refused", "failed"} : RequestGoes(r, a)
    BY <1>6 DEF LimiterFails, Authenticate, RequestFails
  <2>2. QED
    BY <1>1, <1>5, <2>1 DEF ReqOK
<1>7. CASE Answer(r) \/ create_read_token(r) \/ revoke_read_token(r) \/ ChainAction(r)
  <2>1. /\ Ask[r].op \in {"read", "mint", "revoke"}
        /\ \E a \in {"follow", "done", "refused"} : RequestGoes(r, a)
    BY <1>7 DEF Answer, create_read_token, revoke_read_token, ChainAction, Handles
  <2>2. QED
    BY <1>1, <1>5, <2>1 DEF ReqOK
<1>8. QED
  BY <1>3, <1>4, <1>6, <1>7 DEF Elsewhere

LEMMA ConnectMoves ==
  ASSUME ReqOK, NEW r \in Requests, Connecting(r)
  PROVE  /\ ReqOK' /\ Ask[r].op = "connect" /\ UNCHANGED member
         /\ \A q \in Requests \ {r} : req'[q] = req[q]
<1>1. UNCHANGED <<window, member>> /\ Ask[r].op = "connect"
  BY DEF Connecting, ConnectReads, ConnectCommits, QueueScan, Handles
<1>2. \E a \in {"insert", "refused", "follow", "failed", "done"} : RequestGoes(r, a)
  BY DEF Connecting, ConnectReads, ConnectCommits, QueueScan
<1>3. QED
  BY <1>1, <1>2, Going DEF ReqOK, Places

LEMMA BootstrapMoves ==
  ASSUME ReqOK, NEW r \in Requests, Bootstrapping(r)
  PROVE  /\ ReqOK' /\ Ask[r].op = "bootstrap" /\ UNCHANGED <<connected, scans>>
         /\ \A q \in Requests \ {r} : req'[q] = req[q]
         /\ \/ /\ BootstrapReads(r) /\ TenantOfUser(Ask[r].user) = {} /\ req'[r].at = "insert"
            \/ /\ BootstrapReads(r) /\ TenantOfUser(Ask[r].user) # {} /\ req'[r].at = "done"
               /\ req'[r].answer \in TenantOfUser(Ask[r].user)
            \/ /\ BootstrapCommits(r) /\ TenantOfUser(Ask[r].user) = {} /\ req'[r].at = "done"
               /\ req'[r].answer = r /\ member' = member \cup {<<Ask[r].user, r>>}
            \/ /\ BootstrapCommits(r) /\ req'[r].at = "failed" /\ UNCHANGED member
<1>1. UNCHANGED <<window, connected, scans>> /\ Ask[r].op = "bootstrap"
  BY DEF Bootstrapping, BootstrapReads, BootstrapCommits, Handles
<1>2. {"insert", "done", "failed"} \subseteq Places
  BY DEF Places
<1>3. req[r] \in ReqRec /\ member \subseteq Users \X Requests /\ Ask[r].user \in Users
  BY DEF ReqOK, Users
<1>4. ASSUME NEW t \in Requests, req' = [req EXCEPT ![r].at = "done", ![r].answer = t]
      PROVE  /\ req' \in [Requests -> ReqRec] /\ req'[r].at = "done" /\ req'[r].answer = t
             /\ \A q \in Requests \ {r} : req'[q] = req[q]
  <2>1. req' = [req EXCEPT ![r] = [req[r] EXCEPT !.at = "done", !.answer = t]]
    BY <1>4 DEF ReqOK
  <2>2. /\ [req[r] EXCEPT !.at = "done", !.answer = t] \in ReqRec
        /\ [req[r] EXCEPT !.at = "done", !.answer = t].at = "done"
        /\ [req[r] EXCEPT !.at = "done", !.answer = t].answer = t
    BY <1>2, <1>3 DEF ReqRec
  <2>3. QED
    BY <2>1, <2>2 DEF ReqOK
<1>5. CASE BootstrapReads(r) /\ TenantOfUser(Ask[r].user) = {}
  BY <1>1, <1>2, <1>5, Going DEF BootstrapReads, ReqOK
<1>6. CASE BootstrapReads(r) /\ TenantOfUser(Ask[r].user) # {}
  <2>1. PICK t \in TenantOfUser(Ask[r].user) : req' = [req EXCEPT ![r].at = "done", ![r].answer = t]
    BY <1>6 DEF BootstrapReads
  <2>2. t \in Requests
    BY <1>3, <2>1 DEF TenantOfUser
  <2>3. QED
    BY <1>1, <1>4, <1>6, <2>1, <2>2 DEF BootstrapReads, ReqOK
<1>7. CASE BootstrapCommits(r) /\ TenantOfUser(Ask[r].user) = {}
  BY <1>1, <1>3, <1>4, <1>7 DEF BootstrapCommits, ReqOK
<1>8. CASE BootstrapCommits(r) /\ TenantOfUser(Ask[r].user) # {}
  BY <1>1, <1>2, <1>8, Going DEF BootstrapCommits, ReqOK
<1>9. QED
  BY <1>5, <1>6, <1>7, <1>8 DEF Bootstrapping

-----------------------------------------------------------------------------
(* One account, one tenant. *)

\* Two tenants never have one account, and a scan is queued of an account that is connected.
AccountInv ==
  /\ \A a \in Accounts : \A t, u \in OwnersOf(a) : t = u
  /\ scans \subseteq connected
  /\ \A r \in Requests :
       RequestAt(r, "follow") /\ Ask[r].op = "connect" => <<Ask[r].tenant, Ask[r].account>> \in connected

LEMMA AccountStep ==
  ASSUME ReqOK, AccountInv, [AccessNext]_accessVars
  PROVE  AccountInv'
<1>1. ASSUME NEW r \in Requests, UNCHANGED <<connected, scans>>,
             \A q \in Requests \ {r} : req'[q] = req[q],
             Ask[r].op = "connect" => req'[r].at # "follow"
      PROVE  AccountInv'
  BY <1>1 DEF AccountInv, OwnersOf, RequestAt
<1>2. ASSUME NEW r \in Requests, Elsewhere(r) \/ Bootstrapping(r)
      PROVE  AccountInv'
  BY <1>1, <1>2, ElsewhereMoves, BootstrapMoves
<1>3. ASSUME NEW r \in Requests, ConnectReads(r)
      PROVE  AccountInv'
  <2>1. \E a \in {"insert", "refused"} : RequestGoes(r, a)
    BY <1>3 DEF ConnectReads
  <2>2. QED
    BY <1>1, <1>3, <2>1, Going DEF ConnectReads, Places
<1>4. ASSUME NEW r \in Requests, QueueScan(r)
      PROVE  AccountInv'
  <2>1. RequestGoes(r, "done") /\ Ask[r].op = "connect" /\ UNCHANGED connected
    BY <1>4 DEF QueueScan
  <2>2. req'[r].at = "done" /\ \A q \in Requests \ {r} : req'[q] = req[q]
    BY <2>1, Going DEF Places
  <2>3. scans' \subseteq connected
    BY <1>4 DEF QueueScan, AccountInv
  <2>4. QED
    BY <2>1, <2>2, <2>3 DEF AccountInv, OwnersOf, RequestAt
<1>5. ASSUME NEW r \in Requests, ConnectCommits(r)
      PROVE  AccountInv'
  <2> DEFINE mine == Ask[r].tenant
             it   == Ask[r].account
  <2>1. CASE OwnersOf(it) \subseteq {mine}
    <3>1. /\ connected' = connected \cup {<<mine, it>>} /\ UNCHANGED scans
          /\ RequestGoes(r, "follow")
      BY <1>5, <2>1 DEF ConnectCommits, AccountFree
    <3>2. \A q \in Requests \ {r} : req'[q] = req[q]
      BY <3>1, Going DEF Places
    <3>3. \A a \in Accounts \ {it} : OwnersOf(a)' = OwnersOf(a)
      BY <3>1 DEF OwnersOf
    <3>4. OwnersOf(it)' \subseteq {mine}
      BY <2>1, <3>1 DEF OwnersOf
    <3>5. \A a \in Accounts : \A t, u \in OwnersOf(a)' : t = u
      BY <3>3, <3>4 DEF AccountInv
    <3>6. QED
      BY <3>1, <3>2, <3>5 DEF AccountInv, RequestAt
  <2>2. CASE ~(OwnersOf(it) \subseteq {mine})
    <3>1. RequestGoes(r, "failed") /\ UNCHANGED <<connected, scans>>
      BY <1>5, <2>2 DEF ConnectCommits, AccountFree
    <3>2. QED
      BY <1>1, <3>1, Going DEF Places
  <2>3. QED
    BY <2>1, <2>2
<1>6. CASE Ticking \/ UNCHANGED accessVars
  <2>1. UNCHANGED <<connected, scans, req>>
    BY <1>6 DEF Ticking, NextWindow, CounterExpires, accessVars
  <2>2. QED
    BY <2>1 DEF AccountInv, OwnersOf, RequestAt
<1>7. QED
  BY <1>2, <1>3, <1>4, <1>5, <1>6 DEF AccessNext, Elsewhere, Bootstrapping, Ticking

LEMMA ReqStep == ReqOK /\ [AccessNext]_accessVars => ReqOK'
<1> SUFFICES ASSUME ReqOK, [AccessNext]_accessVars PROVE ReqOK'
  OBVIOUS
<1>1. ASSUME NEW r \in Requests, Elsewhere(r) \/ Bootstrapping(r) \/ Connecting(r)
      PROVE  ReqOK'
  BY <1>1, ElsewhereMoves, BootstrapMoves, ConnectMoves
<1>2. CASE Ticking \/ UNCHANGED accessVars
  <2>1. UNCHANGED <<member, req>>
    BY <1>2 DEF Ticking, NextWindow, CounterExpires, accessVars
  <2>2. window' \in 0 .. MaxWindow
    BY <1>2, AccessAssumption DEF Ticking, NextWindow, CounterExpires, accessVars, ReqOK
  <2>3. QED
    BY <2>1, <2>2 DEF ReqOK
<1>3. QED
  BY <1>1, <1>2 DEF AccessNext, Elsewhere, Bootstrapping, Connecting, Ticking

LEMMA ReqInit == AccessInit => ReqOK
<1> SUFFICES ASSUME AccessInit PROVE ReqOK
  OBVIOUS
<1>1. window \in 0 .. MaxWindow /\ 0 \in 0 .. MaxWindow /\ member = {}
  BY AccessAssumption DEF AccessInit
<1>2. PICK Made \in SUBSET Requests :
        req = [r \in Requests |-> [at |-> IF r \in Made THEN "new" ELSE "none", window |-> 0,
                                   counted |-> FALSE, answer |-> Nobody]]
  BY DEF AccessInit
<1>3. req \in [Requests -> ReqRec]
  BY <1>1, <1>2 DEF ReqRec, Places
<1>4. QED
  BY <1>1, <1>3 DEF ReqOK

\* However many tenants look at once and find an account free, one of them connects it, and
\* a scan of it is queued for that tenant alone (integrations.py:134-172,
\* 0022_one_tenant_per_account.sql).
THEOREM OneTenantPerAccount == AccessSpec => []AccountOnce
<1> DEFINE Inv == ReqOK /\ AccountInv
<1>1. AccessInit => Inv
  <2> SUFFICES ASSUME AccessInit PROVE Inv
    OBVIOUS
  <2>1. ReqOK
    BY ReqInit
  <2>2. connected = {} /\ scans = {} /\ \A r \in Requests : ~RequestAt(r, "follow")
    BY DEF AccessInit, RequestAt
  <2>3. QED
    BY <2>1, <2>2 DEF AccountInv, OwnersOf
<1>2. Inv /\ [AccessNext]_accessVars => Inv'
  BY ReqStep, AccountStep
<1>3. Inv => AccountOnce
  <2> SUFFICES ASSUME AccountInv, NEW a \in Accounts
               PROVE  /\ Cardinality(OwnersOf(a)) <= 1
                      /\ \A t \in Tenants : <<t, a>> \in scans => OwnersOf(a) = {t}
    BY DEF AccountOnce
  <2>1. CASE OwnersOf(a) = {}
    <3>1. Cardinality({}) = 0
      BY FS_EmptySet
    <3>2. \A u \in Tenants : <<u, a>> \notin scans
      BY <2>1 DEF AccountInv, OwnersOf
    <3>3. QED
      BY <2>1, <3>1, <3>2
  <2>2. CASE OwnersOf(a) # {}
    <3>1. PICK t : OwnersOf(a) = {t}
      BY <2>2 DEF AccountInv
    <3>2. Cardinality({t}) = 1
      BY FS_Singleton
    <3>3. \A u \in Tenants : <<u, a>> \in scans => u \in OwnersOf(a)
      BY DEF AccountInv, OwnersOf
    <3>4. QED
      BY <3>1, <3>2, <3>3
  <2>3. QED
    BY <2>1, <2>2
<1>4. QED
  BY <1>1, <1>2, <1>3, PTL DEF AccessSpec

-----------------------------------------------------------------------------
(* One user, one tenant. *)

Bootstraps == {r \in Requests : Ask[r].op = "bootstrap"}

\* The advisory lock: of the set-ups of one user, one is between its look and its commit.
OneInsert ==
  \A q, r \in Bootstraps :
    RequestAt(q, "insert") /\ RequestAt(r, "insert") /\ Ask[q].user = Ask[r].user => q = r

UserInv == OneTenantEach /\ OneInsert

\* A step that writes no member, and puts no set-up where it was not, keeps the invariant.
LEMMA UserFrame ==
  ASSUME UserInv, UNCHANGED member,
         \A q \in Bootstraps : req'[q].at \in {"insert", "done"} => req'[q] = req[q]
  PROVE  UserInv'
BY DEF UserInv, OneTenantEach, OneInsert, Bootstraps, TenantOfUser, RequestAt

LEMMA UserStep ==
  ASSUME ReqOK, UserInv, [AccessNext]_accessVars
  PROVE  UserInv'
<1>1. ASSUME NEW r \in Requests, Elsewhere(r) \/ Connecting(r)
      PROVE  UserInv'
  <2>1. UNCHANGED member /\ \A q \in Requests \ {r} : req'[q] = req[q]
    BY <1>1, ElsewhereMoves, ConnectMoves
  <2>2. Ask[r].op = "bootstrap" => req'[r].at \notin {"insert", "done"}
    BY <1>1, ElsewhereMoves, ConnectMoves
  <2>3. QED
    BY <2>1, <2>2, UserFrame DEF Bootstraps
<1>2. ASSUME NEW r \in Requests, Bootstrapping(r)
      PROVE  UserInv'
  <2> DEFINE u == Ask[r].user
  <2>1. r \in Bootstraps /\ \A q \in Requests \ {r} : req'[q] = req[q]
    BY <1>2, BootstrapMoves DEF Bootstraps
  <2>2. CASE BootstrapReads(r) /\ TenantOfUser(u) = {} /\ req'[r].at = "insert"
    <3>1. UNCHANGED member /\ UserSerialized(r)
      BY <2>2 DEF BootstrapReads
    <3>2. OneTenantEach'
      BY <2>1, <2>2, <3>1 DEF UserInv, OneTenantEach, TenantOfUser, RequestAt
    <3>3. OneInsert'
      BY <2>1, <2>2, <3>1 DEF UserInv, OneInsert, UserSerialized, RequestAt, Bootstraps
    <3>4. QED
      BY <3>2, <3>3 DEF UserInv
  <2>3. CASE /\ BootstrapReads(r) /\ TenantOfUser(u) # {} /\ req'[r].at = "done"
             /\ req'[r].answer \in TenantOfUser(u)
    <3>1. UNCHANGED member
      BY <2>3 DEF BootstrapReads
    <3>2. TenantOfUser(u) = {req'[r].answer}
      BY <2>3 DEF UserInv, OneTenantEach, TenantOfUser
    <3>3. OneTenantEach'
      BY <2>1, <2>3, <3>1, <3>2 DEF UserInv, OneTenantEach, TenantOfUser, RequestAt
    <3>4. OneInsert'
      BY <2>1, <2>3 DEF UserInv, OneInsert, RequestAt, Bootstraps
    <3>5. QED
      BY <3>3, <3>4 DEF UserInv
  <2>4. CASE /\ BootstrapCommits(r) /\ TenantOfUser(u) = {} /\ req'[r].at = "done"
             /\ req'[r].answer = r /\ member' = member \cup {<<u, r>>}
    <3>1. RequestAt(r, "insert")
      BY <2>4 DEF BootstrapCommits
    <3>2. TenantOfUser(u)' = {r}
      <4>1. \A n \in member : n[1] # u
        BY <2>4 DEF TenantOfUser
      <4>2. {n \in member' : n[1] = u} = {<<u, r>>}
        BY <2>4, <4>1
      <4>3. TenantOfUser(u)' = {n[2] : n \in {<<u, r>>}}
        BY <4>2 DEF TenantOfUser
      <4>4. QED
        BY <4>3
    <3>3. \A v : v # u => TenantOfUser(v)' = TenantOfUser(v)
      BY <2>4 DEF TenantOfUser
    <3>4. \A q \in Bootstraps \ {r} : Ask[q].user = u => req'[q].at \notin {"insert", "done"}
      BY <2>1, <2>4, <3>1 DEF UserInv, OneInsert, OneTenantEach, RequestAt, Bootstraps
    <3>5. \A m, n \in member' : m[1] = n[1] => m = n
      BY <2>4 DEF UserInv, OneTenantEach, TenantOfUser
    <3>6. OneTenantEach'
      BY <2>1, <2>4, <3>2, <3>3, <3>4, <3>5 DEF UserInv, OneTenantEach, RequestAt, Bootstraps
    <3>7. OneInsert'
      BY <2>1, <2>4 DEF UserInv, OneInsert, RequestAt, Bootstraps
    <3>8. QED
      BY <3>6, <3>7 DEF UserInv
  <2>5. CASE BootstrapCommits(r) /\ req'[r].at = "failed" /\ UNCHANGED member
    BY <2>1, <2>5, UserFrame DEF Bootstraps
  <2>6. QED
    BY <1>2, <2>2, <2>3, <2>4, <2>5, BootstrapMoves
<1>3. CASE Ticking \/ UNCHANGED accessVars
  <2>1. UNCHANGED <<member, req>>
    BY <1>3 DEF Ticking, NextWindow, CounterExpires, accessVars
  <2>2. QED
    BY <2>1, UserFrame
<1>4. QED
  BY <1>1, <1>2, <1>3 DEF AccessNext, Elsewhere, Bootstrapping, Connecting, Ticking

\* The calls that set up a user, however many come at once, answer with the one tenant he is
\* a member of (onboarding.py:49-84).
THEOREM OneTenantPerUser == AccessSpec => []OneTenantEach
<1> DEFINE Inv == ReqOK /\ UserInv
<1>1. AccessInit => Inv
  <2> SUFFICES ASSUME AccessInit PROVE Inv
    OBVIOUS
  <2>1. ReqOK
    BY ReqInit
  <2>2. member = {} /\ \A r \in Requests : req[r].at \in {"new", "none"}
    BY DEF AccessInit
  <2>3. QED
    BY <2>1, <2>2 DEF UserInv, OneTenantEach, OneInsert, Bootstraps, RequestAt
<1>2. Inv /\ [AccessNext]_accessVars => Inv'
  BY ReqStep, UserStep
<1>3. Inv => OneTenantEach
  BY DEF UserInv
<1>4. QED
  BY <1>1, <1>2, <1>3, PTL DEF AccessSpec

-----------------------------------------------------------------------------
(* The rate limit. *)

\* The requests that a counter counts.
CountedBy(r, scope, by_) == ChargedTo(r, scope) = by_ /\ (scope = "costly" => Ask[r].costly)

\* Where a request is that a counter has let through, before it is counted by all.
Beyond(scope) ==
  IF scope = "global" THEN {"costly", "caller"} ELSE IF scope = "costly" THEN {"caller"} ELSE {}

\* The requests of the current window that a counter has let through.
Passed(scope, by_) ==
  {r \in Requests : /\ req[r].window = window /\ CountedBy(r, scope, by_)
                    /\ req[r].counted \/ req[r].at \in Beyond(scope)}

\* Of the requests that were let in, those that a counter has counted.
Within(scope, by_, w) == {r \in Admitted(w) : CountedBy(r, scope, by_)}

\* A counter of the current window is no less than what it has let through.
CounterOK(scope, by_) ==
  LimitOf(scope) > 0 =>
    /\ IsFiniteSet(Passed(scope, by_))
    /\ Cardinality(Passed(scope, by_)) <= count[<<scope, by_>>][window]
    /\ Cardinality(Passed(scope, by_)) <= LimitOf(scope)
    /\ \A w \in 0 .. MaxWindow :
         IsFiniteSet(Within(scope, by_, w)) /\ Cardinality(Within(scope, by_, w)) <= LimitOf(scope)

Counters == [Scopes \X Callers -> [0 .. MaxWindow -> Nat]]

\* A request is let in at its last counter, and its window has begun.
Uncounted ==
  \A r \in Requests : /\ req[r].at \in {"new"} \cup Scopes => ~req[r].counted
                      /\ req[r].window <= window

LimitInv ==
  /\ ReqOK /\ count \in Counters /\ Uncounted
  /\ \A scope \in Scopes, c \in Callers : CounterOK(scope, c)

LEMMA Smaller ==
  ASSUME NEW S, NEW T, IsFiniteSet(T), S \subseteq T, NEW n \in Nat, Cardinality(T) <= n
  PROVE  IsFiniteSet(S) /\ Cardinality(S) <= n
BY FS_Subset, FS_CardinalityType

LEMMA LimitsType == \A scope \in Scopes : LimitOf(scope) \in Nat
BY AccessAssumption DEF LimitOf, Scopes

\* A step that counts nothing lets nothing through.
LEMMA LimitFrame ==
  ASSUME LimitInv, UNCHANGED <<window, count>>,
         \A r \in Requests :
           /\ req'[r].counted = req[r].counted
           /\ req'[r].window = req[r].window \/ (~req[r].counted /\ req'[r].at = "global")
           /\ req'[r].at \in {"costly", "caller"} => req'[r].at = req[r].at
           /\ req'[r].at \in {"new"} \cup Scopes => req[r].at \in {"new"} \cup Scopes
           /\ req'[r].window <= window
  PROVE  Uncounted' /\ \A scope \in Scopes, c \in Callers : CounterOK(scope, c)'
<1>1. Uncounted'
  BY DEF LimitInv, Uncounted
<1>2. ASSUME NEW scope \in Scopes, NEW c \in Callers, LimitOf(scope) > 0
      PROVE  CounterOK(scope, c)'
  <2>1. CounterOK(scope, c) /\ LimitOf(scope) \in Nat /\ window \in 0 .. MaxWindow
    BY LimitsType DEF LimitInv, ReqOK
  <2>2. count[<<scope, c>>][window] \in Nat
    BY <2>1 DEF LimitInv, Counters
  <2>3. Passed(scope, c)' \subseteq Passed(scope, c)
    BY DEF Passed, Beyond, CountedBy, ChargedTo
  <2>4. \A w \in 0 .. MaxWindow : Within(scope, c, w)' \subseteq Within(scope, c, w)
    BY DEF Within, Admitted, LimitInv, Uncounted, CountedBy, ChargedTo
  <2>5. /\ IsFiniteSet(Passed(scope, c)')
        /\ Cardinality(Passed(scope, c)') <= count[<<scope, c>>][window]
        /\ Cardinality(Passed(scope, c)') <= LimitOf(scope)
    BY <1>2, <2>1, <2>2, <2>3, Smaller DEF CounterOK
  <2>6. \A w \in 0 .. MaxWindow :
          IsFiniteSet(Within(scope, c, w)') /\ Cardinality(Within(scope, c, w)') <= LimitOf(scope)
    BY <1>2, <2>1, <2>4, Smaller DEF CounterOK
  <2>7. QED
    BY <2>5, <2>6 DEF CounterOK, LimitOf
<1>3. QED
  BY <1>1, <1>2 DEF CounterOK, LimitOf

\* What one count does.
LEMMA CountMoves ==
  ASSUME LimitInv, NEW r \in Requests, Count(r)
  PROVE  \E scope \in Scopes :
           LET by_  == ChargedTo(r, scope)
               w    == req[r].window
               n    == count[<<scope, by_>>][w] + 1
               over == LimitOf(scope) > 0 /\ n > LimitOf(scope)
           IN  /\ req[r].at = scope /\ by_ \in Callers /\ n \in Nat /\ w \in 0 .. MaxWindow
               /\ count' = IF LimitOf(scope) = 0 THEN count
                           ELSE [count EXCEPT ![<<scope, by_>>] = [@ EXCEPT ![w] = n]]
               /\ req'[r].at = IF over THEN "refused" ELSE AfterScope(r, scope)
               /\ req'[r].counted = (scope = "caller" /\ ~over /\ w = window)
               /\ req'[r].window = w
               /\ \A q \in Requests \ {r} : req'[q] = req[q]
               /\ window' = window
<1>1. PICK scope \in Scopes :
        LET key  == <<scope, ChargedTo(r, scope)>>
            n    == count[key][req[r].window] + 1
            over == LimitOf(scope) > 0 /\ _over_limit(n, LimitOf(scope))
        IN  /\ RequestAt(r, scope)
            /\ IF LimitOf(scope) = 0 THEN UNCHANGED count
               ELSE count' = [count EXCEPT ![key][req[r].window] = n]
            /\ req' = [req EXCEPT ![r].at = IF over THEN "refused" ELSE AfterScope(r, scope),
                                  ![r].counted = scope = "caller" /\ ~over /\ req[r].window = window]
            /\ UNCHANGED <<window, token, member, connected, scans, audit>>
  BY Zenon DEF Count
<1> DEFINE by_  == ChargedTo(r, scope)
           w    == req[r].window
           n    == count[<<scope, by_>>][w] + 1
           over == LimitOf(scope) > 0 /\ n > LimitOf(scope)
           to   == IF over THEN "refused" ELSE AfterScope(r, scope)
           in   == scope = "caller" /\ ~over /\ w = window
<1>2. by_ \in Callers /\ req[r] \in ReqRec /\ req \in [Requests -> ReqRec]
  BY AccessAssumption DEF ChargedTo, Callers, LimitInv, ReqOK
<1>3. w \in 0 .. MaxWindow /\ n \in Nat
  <2>1. w \in 0 .. MaxWindow
    BY <1>2 DEF ReqRec
  <2>2. count[<<scope, by_>>] \in [0 .. MaxWindow -> Nat]
    <3>1. <<scope, by_>> \in Scopes \X Callers
      BY <1>2
    <3> HIDE DEF by_
    <3>2. QED
      BY <3>1 DEF LimitInv, Counters
  <2> DEFINE f == count[<<scope, by_>>]
             D == 0 .. MaxWindow
  <2>3. n = f[w] + 1 /\ f \in [D -> Nat] /\ w \in D
    BY <2>1, <2>2
  <2> HIDE DEF f, D, w, n
  <2>4. n \in Nat
    BY <2>3
  <2>5. QED
    BY <2>3, <2>4 DEF D
<1>4. /\ req[r].at = scope /\ window' = window
      /\ count' = IF LimitOf(scope) = 0 THEN count
                  ELSE [count EXCEPT ![<<scope, by_>>] = [@ EXCEPT ![w] = n]]
  BY <1>1 DEF RequestAt
<1>5. req' = [req EXCEPT ![r].at = to, ![r].counted = in]
  BY <1>1 DEF _over_limit
<1> HIDE DEF to, in
<1>6. /\ req'[r].at = to /\ req'[r].counted = in /\ req'[r].window = w
      /\ \A q \in Requests \ {r} : req'[q] = req[q]
  BY <1>2, <1>5 DEF ReqRec
<1>7. QED
  BY <1>2, <1>3, <1>4, <1>6 DEF to, in

\* A request that a counter lets through has raised it by one, and to no more than the limit.
LEMMA CountStep ==
  ASSUME LimitInv, NEW r \in Requests, Count(r)
  PROVE  count' \in Counters /\ Uncounted' /\ \A scope \in Scopes, c \in Callers : CounterOK(scope, c)'
<1>1. PICK s \in Scopes :
           LET by_  == ChargedTo(r, s)
               w    == req[r].window
               n    == count[<<s, by_>>][w] + 1
               over == LimitOf(s) > 0 /\ n > LimitOf(s)
           IN  /\ req[r].at = s /\ by_ \in Callers /\ n \in Nat /\ w \in 0 .. MaxWindow
               /\ count' = IF LimitOf(s) = 0 THEN count
                           ELSE [count EXCEPT ![<<s, by_>>] = [@ EXCEPT ![w] = n]]
               /\ req'[r].at = IF over THEN "refused" ELSE AfterScope(r, s)
               /\ req'[r].counted = (s = "caller" /\ ~over /\ w = window)
               /\ req'[r].window = w
               /\ \A q \in Requests \ {r} : req'[q] = req[q]
               /\ window' = window
  BY CountMoves, Zenon
<1> DEFINE by_  == ChargedTo(r, s)
           w    == req[r].window
           n    == count[<<s, by_>>][w] + 1
           over == LimitOf(s) > 0 /\ n > LimitOf(s)
<1>2. /\ req[r].at = s /\ by_ \in Callers /\ n \in Nat /\ w \in 0 .. MaxWindow
      /\ count' = IF LimitOf(s) = 0 THEN count
                  ELSE [count EXCEPT ![<<s, by_>>] = [@ EXCEPT ![w] = n]]
      /\ req'[r].at = IF over THEN "refused" ELSE AfterScope(r, s)
      /\ req'[r].counted = (s = "caller" /\ ~over /\ w = window)
      /\ req'[r].window = w
      /\ \A q \in Requests \ {r} : req'[q] = req[q]
      /\ window' = window
  BY <1>1
<1>3. count \in Counters /\ window \in 0 .. MaxWindow
  BY DEF LimitInv, ReqOK
<1>4. count' \in Counters
  BY <1>2, <1>3 DEF Counters
<1>5. /\ \A t \in Scopes, c \in Callers, v \in 0 .. MaxWindow :
           count'[<<t, c>>][v] \in Nat /\ count[<<t, c>>][v] \in Nat
           /\ count'[<<t, c>>][v] >= count[<<t, c>>][v]
      /\ LimitOf(s) > 0 => count'[<<s, by_>>][w] = n
  <2>1. LimitOf(s) # 0 => count'[<<s, by_>>] = [count[<<s, by_>>] EXCEPT ![w] = n]
    BY <1>2, <1>3 DEF Counters
  <2>2. LimitOf(s) # 0 => count'[<<s, by_>>][w] = n
    BY <1>2, <1>3, <2>1 DEF Counters
  <2>3. ASSUME NEW t \in Scopes, NEW c \in Callers, NEW v \in 0 .. MaxWindow
        PROVE  count'[<<t, c>>][v] \in Nat /\ count[<<t, c>>][v] \in Nat
               /\ count'[<<t, c>>][v] >= count[<<t, c>>][v]
    <3>1. count'[<<t, c>>] \in [0 .. MaxWindow -> Nat] /\ count[<<t, c>>] \in [0 .. MaxWindow -> Nat]
      BY <1>3, <1>4 DEF Counters
    <3>2. count'[<<t, c>>][v] \in Nat /\ count[<<t, c>>][v] \in Nat
      BY <3>1
    <3>3. CASE LimitOf(s) # 0 /\ t = s /\ c = by_
      <4>1. count'[<<t, c>>] = [count[<<t, c>>] EXCEPT ![w] = n]
        BY <2>1, <3>3
      <4>2. v = w => count'[<<t, c>>][v] = count[<<t, c>>][v] + 1
        BY <2>2, <3>3 DEF n
      <4>3. v # w => count'[<<t, c>>][v] = count[<<t, c>>][v]
        BY <3>1, <4>1
      <4>4. QED
        BY <3>2, <4>2, <4>3
    <3>4. CASE ~(LimitOf(s) # 0 /\ t = s /\ c = by_)
      <4>1. count'[<<t, c>>] = count[<<t, c>>]
        <5>1. <<t, c>> \in Scopes \X Callers /\ (LimitOf(s) = 0 \/ <<t, c>> # <<s, by_>>)
          BY <3>4
        <5> HIDE DEF by_, w, n
        <5>2. QED
          BY <1>2, <1>3, <5>1 DEF Counters
      <4>2. QED
        BY <3>2, <4>1
    <3>5. QED
      BY <3>3, <3>4
  <2>4. QED
    BY <2>2, <2>3, LimitsType
<1> HIDE DEF n
<1>6. AfterScope(r, s) =
        IF s = "global" THEN (IF Ask[r].costly THEN "costly" ELSE "caller")
        ELSE IF s = "costly" THEN "caller" ELSE "auth"
  BY DEF AfterScope, Scopes
<1>7. Uncounted'
  BY <1>2, <1>6 DEF LimitInv, Uncounted, Scopes
<1>8. ASSUME NEW t \in Scopes, NEW c \in Callers, LimitOf(t) > 0
      PROVE  CounterOK(t, c)'
  <2> DEFINE P == Passed(t, c)
             Q == Passed(t, c)'
  <2>1. /\ IsFiniteSet(P) /\ Cardinality(P) <= count[<<t, c>>][window] /\ Cardinality(P) <= LimitOf(t)
        /\ LimitOf(t) \in Nat /\ Cardinality(P) \in Nat
    BY <1>8, LimitsType, FS_CardinalityType DEF LimitInv, CounterOK
  <2>2. Q \subseteq P \cup {r}
    BY <1>2 DEF Passed, CountedBy, ChargedTo
  <2>3. r \in Q /\ r \notin P => /\ t = s /\ c = by_ /\ w = window /\ ~over
    BY <1>2, <1>6 DEF Passed, CountedBy, Beyond, Scopes, ChargedTo
  <2> HIDE DEF P, Q
  <2>4. IsFiniteSet(Q) /\ Cardinality(Q) <= count'[<<t, c>>][window] /\ Cardinality(Q) <= LimitOf(t)
    <3>1. CASE Q \subseteq P
      <4>1. IsFiniteSet(Q) /\ Cardinality(Q) \in Nat /\ Cardinality(Q) <= Cardinality(P)
        BY <2>1, <3>1, FS_Subset, FS_CardinalityType
      <4>2. count'[<<t, c>>][window] \in Nat /\ count'[<<t, c>>][window] >= count[<<t, c>>][window]
            /\ count[<<t, c>>][window] \in Nat
        BY <1>3, <1>5
      <4>3. QED
        BY <2>1, <4>1, <4>2
    <3>2. CASE ~(Q \subseteq P)
      <4>1. r \in Q /\ r \notin P
        BY <2>2, <3>2
      <4>2. t = s /\ c = by_ /\ w = window /\ n <= LimitOf(t)
        <5>1. LimitOf(s) \in Nat /\ n \in Nat
          BY <1>2, LimitsType
        <5>2. QED
          BY <1>8, <2>3, <4>1, <5>1
      <4>3. /\ count'[<<t, c>>][window] = n /\ n = count[<<t, c>>][window] + 1
            /\ count[<<t, c>>][window] \in Nat
        BY <1>3, <1>5, <1>8, <4>2 DEF n
      <4>4. IsFiniteSet(P \cup {r}) /\ Cardinality(P \cup {r}) = Cardinality(P) + 1
        BY <2>1, <4>1, FS_AddElement
      <4>5. IsFiniteSet(Q) /\ Cardinality(Q) \in Nat /\ Cardinality(Q) <= Cardinality(P) + 1
        BY <2>2, <4>4, FS_Subset, FS_CardinalityType
      <4>6. QED
        BY <2>1, <4>2, <4>3, <4>5
    <3>3. QED
      BY <3>1, <3>2
  <2>5. ASSUME NEW v \in 0 .. MaxWindow
        PROVE  IsFiniteSet(Within(t, c, v)') /\ Cardinality(Within(t, c, v)') <= LimitOf(t)
    <3>1. CASE v = window
      <4>1. Within(t, c, v)' \subseteq Q
        BY <1>2, <3>1 DEF Within, Admitted, Passed, Q
      <4>2. QED
        BY <2>1, <2>4, <4>1, Smaller
    <3>2. CASE v # window
      <4>1. Within(t, c, v)' \subseteq Within(t, c, v)
        BY <1>2, <3>2 DEF Within, Admitted
      <4>2. QED
        BY <1>8, <2>1, <4>1, Smaller DEF LimitInv, CounterOK
    <3>3. QED
      BY <3>1, <3>2
  <2>6. QED
    BY <1>2, <2>4, <2>5 DEF CounterOK, LimitOf, Q
<1>9. QED
  BY <1>4, <1>7, <1>8 DEF CounterOK, LimitOf

\* The steps that are no count.
LEMMA StillSteps ==
  ASSUME ReqOK, Uncounted, NEW r \in Requests,
         \/ Arrive(r) \/ LimiterFails(r) \/ Authenticate(r) \/ Answer(r) \/ create_read_token(r)
         \/ revoke_read_token(r) \/ ChainAction(r) \/ RequestFails(r)
         \/ Bootstrapping(r) \/ Connecting(r)
  PROVE  /\ UNCHANGED <<window, count>>
         /\ \A q \in Requests :
              /\ req'[q].counted = req[q].counted
              /\ req'[q].window = req[q].window \/ (~req[q].counted /\ req'[q].at = "global")
              /\ req'[q].at \in {"costly", "caller"} => req'[q].at = req[q].at
              /\ req'[q].at \in {"new"} \cup Scopes => req[q].at \in {"new"} \cup Scopes
              /\ req'[q].window <= window
<1>0. req \in [Requests -> ReqRec] /\ window \in Nat
  BY AccessAssumption DEF ReqOK
<1>1. UNCHANGED <<window, count>>
  BY DEF Arrive, LimiterFails, Authenticate, Answer, create_read_token, revoke_read_token, ChainAction,
         RequestFails, Bootstrapping, BootstrapReads, BootstrapCommits, Connecting, ConnectReads,
         ConnectCommits, QueueScan
<1>2. CASE Arrive(r)
  <2>1. /\ req[r].at = "new"
        /\ req' = [req EXCEPT ![r] = [req[r] EXCEPT !.at = "global", !.window = window]]
    BY <1>2 DEF Arrive, RequestAt
  <2>2. /\ req'[r].at = "global" /\ req'[r].window = window /\ req'[r].counted = req[r].counted
        /\ \A q \in Requests \ {r} : req'[q] = req[q]
    BY <1>0, <2>1 DEF ReqRec
  <2>3. QED
    BY <1>0, <1>1, <2>1, <2>2 DEF Uncounted, Scopes
<1>3. ASSUME NEW a, a \notin {"new"} \cup Scopes,
             RequestGoes(r, a) \/ \E t : req' = [req EXCEPT ![r].at = a, ![r].answer = t]
      PROVE  \A q \in Requests :
               /\ req'[q].counted = req[q].counted /\ req'[q].window = req[q].window
               /\ q # r => req'[q] = req[q]
               /\ req'[r].at = a
  BY <1>0, <1>3 DEF RequestGoes, ReqRec
<1>4. CASE ~Arrive(r)
  <2>1. \E a \in {"auth", "handle", "refused", "follow", "insert", "done", "failed"} :
          RequestGoes(r, a) \/ \E t : req' = [req EXCEPT ![r].at = a, ![r].answer = t]
    BY <1>4 DEF LimiterFails, Authenticate, Answer, create_read_token, revoke_read_token, ChainAction,
         RequestFails, Bootstrapping, BootstrapReads, BootstrapCommits, Connecting, ConnectReads,
         ConnectCommits, QueueScan
  <2>2. PICK a \in {"auth", "handle", "refused", "follow", "insert", "done", "failed"} :
          RequestGoes(r, a) \/ \E t : req' = [req EXCEPT ![r].at = a, ![r].answer = t]
    BY <2>1
  <2>3. a \notin {"new"} \cup Scopes
    BY DEF Scopes
  <2>4. \A q \in Requests : /\ req'[q].counted = req[q].counted /\ req'[q].window = req[q].window
                            /\ q # r => req'[q] = req[q]
                            /\ req'[r].at = a
    BY <1>3, <2>2, <2>3
  <2>5. QED
    BY <1>1, <2>3, <2>4 DEF Uncounted, Scopes
<1>5. QED
  BY <1>2, <1>4

LEMMA LimitStep ==
  ASSUME LimitInv, [AccessNext]_accessVars
  PROVE  LimitInv'
<1>0. ReqOK' /\ ReqOK /\ Uncounted /\ count \in Counters
  BY ReqStep DEF LimitInv
<1>1. ASSUME NEW r \in Requests,
             Elsewhere(r) \/ Bootstrapping(r) \/ Connecting(r), ~Count(r)
      PROVE  LimitInv'
  BY <1>0, <1>1, StillSteps, LimitFrame DEF LimitInv, Elsewhere
<1>2. ASSUME NEW r \in Requests, Count(r)
      PROVE  LimitInv'
  BY <1>0, <1>2, CountStep DEF LimitInv
<1>3. CASE UNCHANGED accessVars
  <2>1. /\ UNCHANGED <<window, count>>
        /\ \A r \in Requests :
           /\ req'[r].counted = req[r].counted
           /\ req'[r].window = req[r].window \/ (~req[r].counted /\ req'[r].at = "global")
           /\ req'[r].at \in {"costly", "caller"} => req'[r].at = req[r].at
           /\ req'[r].at \in {"new"} \cup Scopes => req[r].at \in {"new"} \cup Scopes
           /\ req'[r].window <= window
    BY <1>0, <1>3 DEF accessVars, Uncounted
  <2>2. QED
    BY <1>0, <2>1, LimitFrame DEF LimitInv
<1>4. ASSUME NEW key \in Scopes \X Callers, NEW w \in 0 .. MaxWindow, CounterExpires(key, w)
      PROVE  LimitInv'
  <2>1. /\ window' = window /\ req' = req /\ w # window
        /\ count' = [count EXCEPT ![key] = [@ EXCEPT ![w] = 0]]
    BY <1>0, <1>4, AccessAssumption DEF CounterExpires, ReqOK
  <2>2. count' \in Counters
    BY <1>0, <2>1 DEF Counters
  <2>3. \A k \in Scopes \X Callers : count'[k][window] = count[k][window]
    <3> TAKE k \in Scopes \X Callers
    <3>1. count[k] \in [0 .. MaxWindow -> Nat]
      BY <1>0 DEF Counters
    <3>2. count'[k] = IF k = key THEN [count[k] EXCEPT ![w] = 0] ELSE count[k]
      BY <1>0, <2>1 DEF Counters
    <3>3. QED
      BY <2>1, <3>1, <3>2
  <2>4. Uncounted'
    BY <1>0, <2>1 DEF Uncounted
  <2>5. ASSUME NEW scope \in Scopes, NEW c \in Callers PROVE CounterOK(scope, c)'
    <3>1. /\ Passed(scope, c)' = Passed(scope, c) /\ LimitOf(scope)' = LimitOf(scope)
          /\ \A v \in 0 .. MaxWindow : Within(scope, c, v)' = Within(scope, c, v)
      BY <2>1 DEF Passed, Within, Admitted, LimitOf, CountedBy, ChargedTo
    <3>2. CounterOK(scope, c) /\ <<scope, c>> \in Scopes \X Callers
      BY DEF LimitInv
    <3>3. QED
      BY <2>1, <2>3, <3>1, <3>2 DEF CounterOK
  <2>6. QED
    BY <1>0, <2>2, <2>4, <2>5 DEF LimitInv
<1>5. CASE NextWindow
  <2>1. window' = window + 1 /\ req' = req /\ count' = count /\ window \in Nat /\ window' \in 0 .. MaxWindow
    BY <1>0, <1>5, AccessAssumption DEF NextWindow, ReqOK
  <2>2. \A r \in Requests : req[r].window \in Nat /\ req[r].window <= window
    BY <1>0, AccessAssumption DEF ReqOK, ReqRec, Uncounted
  <2>3. Uncounted'
    BY <1>0, <2>1, <2>2 DEF Uncounted
  <2>4. ASSUME NEW scope \in Scopes, NEW c \in Callers PROVE CounterOK(scope, c)'
    <3>0. \A r \in Requests : req'[r].window # window'
      BY <2>1, <2>2
    <3>1. Passed(scope, c)' = {} /\ LimitOf(scope)' = LimitOf(scope) /\ LimitOf(scope) \in Nat
      BY <3>0, LimitsType DEF Passed, LimitOf
    <3>2. \A v \in 0 .. MaxWindow : Within(scope, c, v)' = Within(scope, c, v)
      BY <2>1 DEF Within, Admitted, CountedBy, ChargedTo
    <3>3. IsFiniteSet({}) /\ Cardinality({}) = 0
      BY FS_EmptySet
    <3>4. count[<<scope, c>>][window'] \in Nat
      BY <1>0, <2>1 DEF Counters
    <3>5. CounterOK(scope, c)
      BY DEF LimitInv
    <3>6. QED
      BY <2>1, <3>1, <3>2, <3>3, <3>4, <3>5 DEF CounterOK
  <2>5. QED
    BY <1>0, <2>1, <2>3, <2>4 DEF LimitInv
<1>6. QED
  BY <1>1, <1>2, <1>3, <1>4, <1>5 DEF AccessNext, Elsewhere, Bootstrapping, Connecting

LEMMA LimitInit == AccessInit => LimitInv
<1> SUFFICES ASSUME AccessInit PROVE LimitInv
  OBVIOUS
<1>1. ReqOK /\ window = 0
  BY ReqInit DEF AccessInit
<1>2. \A r \in Requests : req[r].counted = FALSE /\ req[r].window = 0 /\ req[r].at \in {"none", "new"}
  BY DEF AccessInit
<1>3. count \in Counters
  BY DEF AccessInit, Counters
<1>4. Uncounted
  BY <1>1, <1>2 DEF Uncounted
<1>5. ASSUME NEW scope \in Scopes, NEW c \in Callers PROVE CounterOK(scope, c)
  <2>1. Passed(scope, c) = {} /\ \A w \in 0 .. MaxWindow : Within(scope, c, w) = {}
    BY <1>2 DEF Passed, Within, Admitted, Beyond
  <2>2. IsFiniteSet({}) /\ Cardinality({}) = 0
    BY FS_EmptySet
  <2>3. count[<<scope, c>>][window] \in Nat /\ LimitOf(scope) \in Nat
    BY <1>1, <1>3, LimitsType DEF Counters, ReqOK
  <2>4. QED
    BY <2>1, <2>2, <2>3 DEF CounterOK
<1>6. QED
  BY <1>1, <1>3, <1>4, <1>5 DEF LimitInv

\* In no window does a counter let more requests in than its limit, however many are counted
\* at once, whatever expires and whenever Redis fails (rate_limit.py:91-114).
THEOREM LimitsKept == AccessSpec => []LimitKept
<1>1. LimitInv => LimitKept
  <2> SUFFICES ASSUME LimitInv, NEW w \in 0 .. MaxWindow
               PROVE  /\ GlobalLimit > 0 => Cardinality(Admitted(w)) <= GlobalLimit
                      /\ \A by_ \in Callers :
                           LET own == {r \in Admitted(w) : Ask[r].by = by_}
                           IN  /\ CallerLimit > 0 => Cardinality(own) <= CallerLimit
                               /\ CostlyLimit > 0 => Cardinality({r \in own : Ask[r].costly}) <= CostlyLimit
    BY Zenon DEF LimitKept
  <2>1. \A scope \in Scopes, c \in Callers :
          LimitOf(scope) > 0 => Cardinality(Within(scope, c, w)) <= LimitOf(scope)
    BY DEF LimitInv, CounterOK
  <2>2. /\ {"global", "costly", "caller"} \subseteq Scopes
        /\ LimitOf("global") = GlobalLimit /\ LimitOf("costly") = CostlyLimit
        /\ LimitOf("caller") = CallerLimit
    BY DEF Scopes, LimitOf
  <2>3. GlobalLimit > 0 => Cardinality(Admitted(w)) <= GlobalLimit
    <3>1. Within("global", OperatorKey, w) = Admitted(w) /\ OperatorKey \in Callers
      BY DEF Within, CountedBy, ChargedTo, Callers
    <3>2. QED
      BY <2>1, <2>2, <3>1
  <2>4. ASSUME NEW by_ \in Callers
        PROVE  LET own == {r \in Admitted(w) : Ask[r].by = by_}
               IN  /\ CallerLimit > 0 => Cardinality(own) <= CallerLimit
                   /\ CostlyLimit > 0 => Cardinality({r \in own : Ask[r].costly}) <= CostlyLimit
    <3> DEFINE own == {r \in Admitted(w) : Ask[r].by = by_}
    <3>1. Within("caller", by_, w) = own /\ Within("costly", by_, w) = {r \in own : Ask[r].costly}
      BY DEF Within, CountedBy, ChargedTo
    <3>2. QED
      BY <2>1, <2>2, <3>1
  <2>5. QED
    BY <2>3, <2>4
<1>2. QED
  BY <1>1, LimitInit, LimitStep, PTL DEF AccessSpec

-----------------------------------------------------------------------------
(* The demo. *)

-----------------------------------------------------------------------------
(* Types. *)

VisitSteps == {"new", "purge", "reclaim", "enter", "budget", "write", "seed",
               "record", "share", "done", "refused", "failed"}

VisitRec == [at : VisitSteps, now : 0 .. MaxClock, rows : SUBSET Sandboxes,
             tenant : SUBSET Visits, granted : SUBSET (0 .. MaxClock)]

\* Every step of a call.
Steps(x) ==
  \/ Visit(x) \/ PurgeSelects(x) \/ purge_expired_public_demos(x) \/ EnterSandbox(x)
  \/ _public_demo_budget(x) \/ CreateSandbox(x) \/ RenewSandbox(x) \/ _demo_tenant(x)
  \/ _seed_graph(x) \/ _run_for_tenant(x) \/ ShareReplay(x) \/ VisitFails(x)

\* The parts of the types that the proofs use by themselves.
LEMMA SandboxTypes ==
  ASSUME SandboxTypeOK
  PROVE  /\ visit \in [Visits -> VisitRec] /\ sandbox \subseteq Sandboxes /\ clock \in 0 .. MaxClock
         /\ by \in [Visits -> Visitors \cup Customers] /\ owned \subseteq Customers \X Visits
BY SandboxAssumption DEF SandboxTypeOK, VisitRec, VisitSteps

\* The fields that a step may write, of one call, and how it writes them.
LEMMA Moving ==
  ASSUME visit \in [Visits -> VisitRec], NEW x \in Visits, NEW a \in VisitSteps
  PROVE  /\ [visit EXCEPT ![x].at = a] \in [Visits -> VisitRec]
         /\ \A n \in 0 .. MaxClock :
              [visit EXCEPT ![x].at = a, ![x].now = n] \in [Visits -> VisitRec]
         /\ \A R \in SUBSET Sandboxes :
              [visit EXCEPT ![x].at = a, ![x].rows = R] \in [Visits -> VisitRec]
         /\ \A T \in SUBSET Visits :
              [visit EXCEPT ![x].at = a, ![x].tenant = T] \in [Visits -> VisitRec]
         /\ \A R \in SUBSET Sandboxes, T \in SUBSET Visits :
              [visit EXCEPT ![x].at = a, ![x].rows = R, ![x].tenant = T] \in [Visits -> VisitRec]
         /\ \A T \in SUBSET Visits, G \in SUBSET (0 .. MaxClock) :
              [visit EXCEPT ![x].at = a, ![x].tenant = T, ![x].granted = G] \in [Visits -> VisitRec]
         /\ \A R \in SUBSET Sandboxes, G \in SUBSET (0 .. MaxClock) :
              [visit EXCEPT ![x].at = a, ![x].rows = R, ![x].granted = G] \in [Visits -> VisitRec]
<1>1. visit[x] \in VisitRec /\ \A e \in VisitRec : [visit EXCEPT ![x] = e] \in [Visits -> VisitRec]
  OBVIOUS
<1>2. [visit EXCEPT ![x].at = a] \in [Visits -> VisitRec]
  BY <1>1 DEF VisitRec
<1>3. ASSUME NEW n \in 0 .. MaxClock
      PROVE  [visit EXCEPT ![x].at = a, ![x].now = n] \in [Visits -> VisitRec]
  <2>1. [visit[x] EXCEPT !.at = a, !.now = n] \in VisitRec
    BY <1>1 DEF VisitRec
  <2>2. QED
    BY <1>1, <2>1
<1>4. ASSUME NEW R \in SUBSET Sandboxes
      PROVE  [visit EXCEPT ![x].at = a, ![x].rows = R] \in [Visits -> VisitRec]
  <2>1. [visit[x] EXCEPT !.at = a, !.rows = R] \in VisitRec
    BY <1>1 DEF VisitRec
  <2>2. QED
    BY <1>1, <2>1
<1>5. ASSUME NEW T \in SUBSET Visits
      PROVE  [visit EXCEPT ![x].at = a, ![x].tenant = T] \in [Visits -> VisitRec]
  <2>1. [visit[x] EXCEPT !.at = a, !.tenant = T] \in VisitRec
    BY <1>1 DEF VisitRec
  <2>2. QED
    BY <1>1, <2>1
<1>6. ASSUME NEW R \in SUBSET Sandboxes, NEW T \in SUBSET Visits
      PROVE  [visit EXCEPT ![x].at = a, ![x].rows = R, ![x].tenant = T] \in [Visits -> VisitRec]
  <2>1. [visit[x] EXCEPT !.at = a, !.rows = R, !.tenant = T] \in VisitRec
    BY <1>1 DEF VisitRec
  <2>2. QED
    BY <1>1, <2>1
<1>7. ASSUME NEW T \in SUBSET Visits, NEW G \in SUBSET (0 .. MaxClock)
      PROVE  [visit EXCEPT ![x].at = a, ![x].tenant = T, ![x].granted = G] \in [Visits -> VisitRec]
  <2>1. [visit[x] EXCEPT !.at = a, !.tenant = T, !.granted = G] \in VisitRec
    BY <1>1 DEF VisitRec
  <2>2. QED
    BY <1>1, <2>1
<1>8. ASSUME NEW R \in SUBSET Sandboxes, NEW G \in SUBSET (0 .. MaxClock)
      PROVE  [visit EXCEPT ![x].at = a, ![x].rows = R, ![x].granted = G] \in [Visits -> VisitRec]
  <2>1. [visit[x] EXCEPT !.at = a, !.rows = R, !.granted = G] \in VisitRec
    BY <1>1 DEF VisitRec
  <2>2. QED
    BY <1>1, <2>1
<1>9. QED
  BY <1>2, <1>3, <1>4, <1>5, <1>6, <1>7, <1>8

\* The row that the UPDATE writes is a row of the visitor, for the tenant it had.
LEMMA RenewedRow ==
  ASSUME NEW s \in Sandboxes, NEW now \in 0 .. MaxClock, NEW t \in Visits,
         ~(s.started + Hour > now /\ s.runs >= MaxRuns)
  PROVE  /\ Renewed(s, now).started \in 0 .. MaxClock
         /\ [Renewed(s, now) EXCEPT !.tenant = t] \in Sandboxes
         /\ [Renewed(s, now) EXCEPT !.tenant = t].tenant = t
<1>1. /\ s = [visitor |-> s.visitor, tenant |-> s.tenant, started |-> s.started, runs |-> s.runs,
              expires |-> s.expires]
      /\ s.visitor \in Visitors /\ s.tenant \in Visits /\ s.started \in 0 .. MaxClock
      /\ s.runs \in 1 .. MaxRuns
  BY DEF Sandboxes
<1>2. {Hour, MaxRuns, Ttl, MaxClock} \subseteq Nat /\ MaxRuns >= 1
  BY SandboxAssumption
<1>3. now + Ttl \in 0 .. MaxClock + Ttl
  BY <1>2
<1>4. CASE s.started + Hour <= now
  <2>1. Renewed(s, now) = [visitor |-> s.visitor, tenant |-> s.tenant, started |-> now, runs |-> 1,
                           expires |-> now + Ttl]
    BY <1>1, <1>4 DEF Renewed
  <2>2. 1 \in 1 .. MaxRuns
    BY <1>2
  <2>3. QED
    BY <1>1, <1>3, <2>1, <2>2 DEF Sandboxes
<1>5. CASE ~(s.started + Hour <= now)
  <2>1. Renewed(s, now) = [visitor |-> s.visitor, tenant |-> s.tenant, started |-> s.started,
                           runs |-> s.runs + 1, expires |-> now + Ttl]
    BY <1>1, <1>5 DEF Renewed
  <2>2. s.runs + 1 \in 1 .. MaxRuns
    BY <1>1, <1>2, <1>5
  <2>3. QED
    BY <1>1, <1>3, <2>1, <2>2 DEF Sandboxes
<1>6. QED
  BY <1>4, <1>5

\* What the UPDATE does to the table: every row keeps its tenant.
LEMMA RenewedTable ==
  ASSUME SandboxTypeOK, NEW x \in Visits, NEW s \in visit[x].rows,
         ~(s.started + Hour > visit[x].now /\ s.runs >= MaxRuns),
         sandbox' = {IF r.visitor = by[x] THEN [Renewed(s, visit[x].now) EXCEPT !.tenant = r.tenant]
                     ELSE r : r \in sandbox}
  PROVE  sandbox' \subseteq Sandboxes /\ TenantsOf(sandbox)' = TenantsOf(sandbox)
<1>1. /\ s \in Sandboxes /\ visit[x].now \in 0 .. MaxClock
      /\ sandbox \subseteq Sandboxes /\ \A r \in sandbox : r.tenant \in Visits
  BY SandboxTypes DEF VisitRec, Sandboxes
<1> DEFINE New(r) == IF r.visitor = by[x] THEN [Renewed(s, visit[x].now) EXCEPT !.tenant = r.tenant]
                     ELSE r
<1>2. \A r \in sandbox : New(r) \in Sandboxes /\ New(r).tenant = r.tenant
  BY <1>1, RenewedRow
<1>3. sandbox' = {New(r) : r \in sandbox}
  OBVIOUS
<1> HIDE DEF New
<1>4. QED
  BY <1>1, <1>2, <1>3 DEF TenantsOf

\* Every step of a call keeps the types of the calls.
LEMMA VisitTypes ==
  ASSUME SandboxTypeOK, NEW x \in Visits, Steps(x)
  PROVE  visit' \in [Visits -> VisitRec]
<1>1. /\ visit \in [Visits -> VisitRec] /\ clock \in 0 .. MaxClock /\ sandbox \subseteq Sandboxes
      /\ owned \subseteq Customers \X Visits
      /\ visit[x].now \in 0 .. MaxClock /\ visit[x].rows \in SUBSET Sandboxes
      /\ visit[x].tenant \in SUBSET Visits
  BY SandboxTypes DEF VisitRec
<1>2. \A S \in SUBSET Sandboxes : TenantsOf(S) \in SUBSET Visits
  BY DEF TenantsOf, Sandboxes
<1>3. {"purge", "reclaim", "enter", "budget", "write", "seed", "record", "share", "done", "refused",
       "failed"} \subseteq VisitSteps /\ {} \in SUBSET Sandboxes
  BY DEF VisitSteps
<1>4. CASE Visit(x)
  <2>1. PICK a \in VisitSteps : visit' = [visit EXCEPT ![x].at = a, ![x].now = clock]
    BY <1>3, <1>4 DEF Visit
  <2>2. QED
    BY <1>1, <2>1, Moving
<1>5. CASE PurgeSelects(x)
  <2>1. PICK R \in SUBSET Sandboxes : visit' = [visit EXCEPT ![x].at = "reclaim", ![x].rows = R]
    BY <1>1, <1>5 DEF PurgeSelects
  <2>2. QED
    BY <1>1, <1>3, <2>1, Moving
<1>6. CASE purge_expired_public_demos(x) \/ VisitFails(x)
  <2>1. PICK a \in VisitSteps : visit' = [visit EXCEPT ![x].at = a, ![x].rows = {}]
    BY <1>3, <1>6 DEF purge_expired_public_demos, VisitFails
  <2>2. QED
    BY <1>1, <1>3, <2>1, Moving
<1>7. CASE EnterSandbox(x)
  <2>1. RowsOf(by[x]) \in SUBSET Sandboxes /\ TenantsOf(RowsOf(by[x])) \in SUBSET Visits
    BY <1>1, <1>2 DEF RowsOf
  <2>2. visit' = [visit EXCEPT ![x].at = "budget", ![x].rows = RowsOf(by[x]),
                               ![x].tenant = TenantsOf(RowsOf(by[x]))]
    BY <1>7 DEF EnterSandbox
  <2>3. QED
    BY <1>1, <1>3, <2>1, <2>2, Moving
<1>8. CASE _public_demo_budget(x) \/ _seed_graph(x) \/ _run_for_tenant(x) \/ ShareReplay(x)
  <2>1. PICK a \in VisitSteps : visit' = [visit EXCEPT ![x].at = a]
    BY <1>3, <1>8 DEF _public_demo_budget, _seed_graph, _run_for_tenant, ShareReplay
  <2>2. QED
    BY <1>1, <2>1, Moving
<1>9. CASE CreateSandbox(x)
  <2>1. {x} \in SUBSET Visits /\ {clock} \in SUBSET (0 .. MaxClock)
    BY <1>1
  <2>2. \/ visit' = [visit EXCEPT ![x].at = "failed"]
        \/ visit' = [visit EXCEPT ![x].at = "seed", ![x].tenant = {x}, ![x].granted = {clock}]
    BY <1>9 DEF CreateSandbox
  <2>3. CASE visit' = [visit EXCEPT ![x].at = "failed"]
    BY <1>1, <1>3, <2>3, Moving
  <2>4. CASE visit' = [visit EXCEPT ![x].at = "seed", ![x].tenant = {x}, ![x].granted = {clock}]
    <3>1. PICK a \in VisitSteps, T \in SUBSET Visits, G \in SUBSET (0 .. MaxClock) :
            visit' = [visit EXCEPT ![x].at = a, ![x].tenant = T, ![x].granted = G]
      BY <1>3, <2>1, <2>4
    <3>2. QED
      BY <1>1, <3>1, Moving
  <2>5. QED
    BY <2>2, <2>3, <2>4
<1>10. CASE RenewSandbox(x)
  <2>1. PICK s \in visit[x].rows :
          IF s.started + Hour > visit[x].now /\ s.runs >= MaxRuns
          THEN visit' = [visit EXCEPT ![x].at = "refused", ![x].rows = {}]
          ELSE visit' = [visit EXCEPT ![x].at = "seed", ![x].rows = {},
                                      ![x].granted = {Renewed(s, visit[x].now).started}]
    BY <1>10 DEF RenewSandbox
  <2>2. CASE s.started + Hour > visit[x].now /\ s.runs >= MaxRuns
    <3>1. PICK a \in VisitSteps, R \in SUBSET Sandboxes : visit' = [visit EXCEPT ![x].at = a, ![x].rows = R]
      BY <1>3, <2>1, <2>2
    <3>2. QED
      BY <1>1, <3>1, Moving
  <2>3. CASE ~(s.started + Hour > visit[x].now /\ s.runs >= MaxRuns)
    <3>1. {Renewed(s, visit[x].now).started} \in SUBSET (0 .. MaxClock)
      <4>1. s \in Sandboxes
        BY <1>1, <2>1
      <4>2. visit[x].now \in 0 .. MaxClock
        BY <1>1
      <4>3. Renewed(s, visit[x].now).started \in 0 .. MaxClock
        BY <2>3, <4>1, <4>2, RenewedRow
      <4>4. QED
        BY <4>3
    <3>2. PICK G \in SUBSET (0 .. MaxClock) :
            visit' = [visit EXCEPT ![x].at = "seed", ![x].rows = {}, ![x].granted = G]
      BY <2>1, <2>3, <3>1
    <3>3. QED
      BY <1>1, <1>3, <3>2, Moving
  <2>4. QED
    BY <2>2, <2>3
<1>11. CASE _demo_tenant(x)
  <2>1. {o[2] : o \in {p \in owned : p[1] = by[x]}} \in SUBSET Visits /\ {x} \in SUBSET Visits
    BY <1>1
  <2>2. PICK T \in SUBSET Visits : visit' = [visit EXCEPT ![x].at = "seed", ![x].tenant = T]
    BY <1>11, <2>1 DEF _demo_tenant
  <2>3. QED
    BY <1>1, <1>3, <2>2, Moving
<1>12. QED
  BY <1>4, <1>5, <1>6, <1>7, <1>8, <1>9, <1>10, <1>11 DEF Steps

\* A new row.
LEMMA CreatedRow ==
  ASSUME SandboxTypeOK, NEW x \in Visits, CreateSandbox(x), Public(x)
  PROVE  sandbox' \subseteq Sandboxes
<1>1. /\ visit[x].now \in 0 .. MaxClock /\ clock \in 0 .. MaxClock /\ sandbox \subseteq Sandboxes
      /\ by[x] \in Visitors
  BY SandboxTypes DEF VisitRec, Public
<1>2. visit[x].now + Ttl \in 0 .. MaxClock + Ttl /\ 1 \in 1 .. MaxRuns
  BY <1>1, SandboxAssumption
<1>3. [visitor |-> by[x], tenant |-> x, started |-> clock, runs |-> 1,
       expires |-> visit[x].now + Ttl] \in Sandboxes
  BY <1>1, <1>2 DEF Sandboxes
<1>4. QED
  BY <1>1, <1>3 DEF CreateSandbox

\* A call that is past the gate of the visitors is one of theirs.
PublicInside == \A x \in Visits : visit[x].at \in {"purge", "reclaim", "budget", "write"} => Public(x)

\* Where a call may be once it has moved.
LEMMA PublicStep ==
  ASSUME SandboxTypeOK, PublicInside, NEW x \in Visits, Steps(x)
  PROVE  PublicInside'
<1>1. visit \in [Visits -> VisitRec] /\ UNCHANGED by
  BY SandboxTypes DEF Steps, Visit, PurgeSelects, purge_expired_public_demos, EnterSandbox,
       _public_demo_budget, CreateSandbox, RenewSandbox, _demo_tenant, _seed_graph, _run_for_tenant,
       ShareReplay, VisitFails
<1>2. \A y \in Visits \ {x} : visit'[y] = visit[y]
  BY <1>1 DEF Steps, Visit, PurgeSelects, purge_expired_public_demos, EnterSandbox,
       _public_demo_budget, CreateSandbox, RenewSandbox, _demo_tenant, _seed_graph, _run_for_tenant,
       ShareReplay, VisitFails
<1>3. visit'[x].at \in {"purge", "reclaim", "budget", "write"} => Public(x)
  BY <1>1 DEF PublicInside, VisitAt, VisitRec, Steps, Visit, PurgeSelects, purge_expired_public_demos,
       EnterSandbox, _public_demo_budget, CreateSandbox, RenewSandbox, _demo_tenant, _seed_graph,
       _run_for_tenant, ShareReplay, VisitFails
<1>4. QED
  BY <1>1, <1>2, <1>3 DEF PublicInside, Public

\* Every step keeps the types.
LEMMA SandboxTypeStep ==
  ASSUME SandboxTypeOK, PublicInside, [SandboxNext]_sandboxVars
  PROVE  SandboxTypeOK' /\ PublicInside'
<1>1. ASSUME NEW x \in Visits, Steps(x)
      PROVE  SandboxTypeOK' /\ PublicInside'
  <2>1. visit' \in [Visits -> VisitRec] /\ PublicInside'
    BY <1>1, VisitTypes, PublicStep
  <2>2. /\ visit[x].rows \subseteq Sandboxes /\ visit[x].tenant \subseteq Visits
        /\ by' = by /\ clock' = clock
    BY <1>1, SandboxTypes
       DEF VisitRec, Steps, Visit, PurgeSelects, purge_expired_public_demos, EnterSandbox,
           _public_demo_budget, CreateSandbox, RenewSandbox, _demo_tenant, _seed_graph,
           _run_for_tenant, ShareReplay, VisitFails
  <2>3. sandbox' \subseteq Sandboxes
    <3>1. CASE CreateSandbox(x)
      BY <3>1, CreatedRow DEF CreateSandbox, PublicInside, VisitAt
    <3>2. CASE RenewSandbox(x)
      <4>1. CASE UNCHANGED sandbox
        BY <4>1 DEF SandboxTypeOK
      <4>2. CASE \E s \in visit[x].rows :
                   /\ ~(s.started + Hour > visit[x].now /\ s.runs >= MaxRuns)
                   /\ sandbox' = {IF r.visitor = by[x]
                                  THEN [Renewed(s, visit[x].now) EXCEPT !.tenant = r.tenant]
                                  ELSE r : r \in sandbox}
        BY <4>2, RenewedTable
      <4>3. QED
        BY <3>2, <4>1, <4>2 DEF RenewSandbox
    <3>3. CASE purge_expired_public_demos(x)
      BY <3>3 DEF purge_expired_public_demos, SandboxTypeOK
    <3>4. CASE UNCHANGED sandbox
      BY <3>4 DEF SandboxTypeOK
    <3>5. QED
      BY <1>1, <3>1, <3>2, <3>3, <3>4
         DEF Steps, Visit, PurgeSelects, EnterSandbox, _public_demo_budget, _demo_tenant, _seed_graph,
             _run_for_tenant, ShareReplay, VisitFails
  <2>4. owned' \subseteq Customers \X Visits
    <3>1. CASE _demo_tenant(x)
      <4>1. by[x] \in Customers
        BY <3>1, SandboxTypes DEF _demo_tenant, Public
      <4>2. owned \subseteq Customers \X Visits
        BY DEF SandboxTypeOK
      <4>3. owned' \in {owned, owned \cup {<<by[x], x>>}}
        BY <3>1 DEF _demo_tenant
      <4>4. QED
        BY <4>1, <4>2, <4>3
    <3>2. CASE UNCHANGED owned
      BY <3>2 DEF SandboxTypeOK
    <3>3. QED
      BY <1>1, <3>1, <3>2
         DEF Steps, Visit, PurgeSelects, purge_expired_public_demos, EnterSandbox, _public_demo_budget,
             CreateSandbox, RenewSandbox, _seed_graph, _run_for_tenant, ShareReplay, VisitFails
  <2>5. data' \subseteq Visits /\ shared' \subseteq Visits /\ torn' \subseteq Visits
    <3>1. TenantsOf(visit[x].rows) \subseteq Visits
      BY <2>2 DEF TenantsOf, Sandboxes
    <3>2. QED
      BY <1>1, <2>2, <3>1
         DEF SandboxTypeOK, Steps, Visit, PurgeSelects, purge_expired_public_demos, Reclaimed,
             EnterSandbox, _public_demo_budget, CreateSandbox, RenewSandbox, _demo_tenant, _seed_graph,
             _run_for_tenant, ShareReplay, VisitFails
  <2>6. QED
    BY <2>1, <2>2, <2>3, <2>4, <2>5 DEF SandboxTypeOK, VisitRec, VisitSteps
<1>2. CASE ClockTicks
  BY <1>2, SandboxAssumption DEF ClockTicks, SandboxTypeOK, PublicInside, Public
<1>3. CASE UNCHANGED sandboxVars
  BY <1>3 DEF sandboxVars, SandboxTypeOK, PublicInside, Public
<1>4. QED
  BY <1>1, <1>2, <1>3 DEF SandboxNext, Steps

LEMMA SandboxTypeInit == SandboxInit => SandboxTypeOK /\ PublicInside
BY SandboxAssumption DEF SandboxInit, SandboxTypeOK, PublicInside

\* Calls, rows and tenants keep their types; no row counts more runs than a visitor has
\* (demo.py:95-188).
THEOREM SandboxTypesKept == SandboxSpec => []SandboxTypeOK
<1>1. SandboxInit => SandboxTypeOK /\ PublicInside
  BY SandboxTypeInit
<1>2. SandboxTypeOK /\ PublicInside /\ [SandboxNext]_sandboxVars => (SandboxTypeOK /\ PublicInside)'
  BY SandboxTypeStep
<1>3. QED
  BY <1>1, <1>2, PTL DEF SandboxSpec

-----------------------------------------------------------------------------
(* Nothing is stranded. *)

\* The tenants that a purge can find, a customer owns, or a purge has taken from a call.
Findable == TenantsOf(sandbox) \cup {o[2] : o \in owned} \cup torn

Using == {"budget", "write", "seed", "record", "share"}

\* The tenant that a call holds is one of them: a purge that reclaims it takes note of the call.
HeldFindable == \A x \in Visits : visit[x].at \in Using => visit[x].tenant \subseteq Findable

StrandInv == NothingStranded /\ HeldFindable

\* A step after which no fewer tenants can be found, that writes only for its own tenant and
\* that leaves its call with a tenant that can be found, keeps the invariant.
LEMMA StrandFrame ==
  ASSUME StrandInv, NEW x \in Visits,
         Findable \subseteq Findable',
         \A y \in Visits \ {x} : visit'[y] = visit[y],
         visit'[x].at \in Using => visit'[x].tenant \subseteq Findable',
         data' \cup shared' \subseteq data \cup shared \cup (IF visit[x].at \in Using THEN visit[x].tenant ELSE {})
  PROVE  StrandInv'
<1>1. data \cup shared \subseteq Findable
  BY DEF StrandInv, NothingStranded, Findable
<1>2. visit[x].at \in Using => visit[x].tenant \subseteq Findable
  BY DEF StrandInv, HeldFindable
<1>3. data' \cup shared' \subseteq Findable'
  BY <1>1, <1>2
<1>4. HeldFindable'
  BY DEF StrandInv, HeldFindable
<1>5. QED
  BY <1>3, <1>4 DEF StrandInv, NothingStranded, Findable

LEMMA StrandStep ==
  ASSUME SandboxTypeOK, StrandInv, NEW x \in Visits, Steps(x)
  PROVE  StrandInv'
<1>1. visit \in [Visits -> VisitRec]
  BY SandboxTypes
<1>2. \A y \in Visits \ {x} : visit'[y] = visit[y]
  BY <1>1 DEF Steps, Visit, PurgeSelects, purge_expired_public_demos, EnterSandbox,
       _public_demo_budget, CreateSandbox, RenewSandbox, _demo_tenant, _seed_graph, _run_for_tenant,
       ShareReplay, VisitFails
<1>3. CASE Visit(x) \/ PurgeSelects(x) \/ VisitFails(x)
  <2>1. visit'[x].at \notin Using
    BY <1>1, <1>3 DEF Visit, PurgeSelects, VisitFails, VisitRec, Using
  <2>2. UNCHANGED <<sandbox, owned, torn, data, shared>>
    BY <1>3 DEF Visit, PurgeSelects, VisitFails
  <2>3. QED
    BY <1>2, <2>1, <2>2, StrandFrame DEF Findable, TenantsOf
<1>4. CASE purge_expired_public_demos(x)
  <2> DEFINE gone == TenantsOf(visit[x].rows)
  <2>1. /\ sandbox' = sandbox \ visit[x].rows
        /\ data' = data \ gone /\ shared' = shared \ gone
        /\ torn' = torn \cup {t \in gone : InUse(t)} /\ UNCHANGED owned
    BY <1>4 DEF purge_expired_public_demos, Reclaimed
  <2>2. visit'[x].at \notin Using
    BY <1>1, <1>4 DEF purge_expired_public_demos, VisitRec, Using
  <2>3. Findable \subseteq Findable' \cup gone
    BY <2>1 DEF Findable, TenantsOf
  <2>4. data' \cup shared' \subseteq Findable'
    BY <2>1, <2>3 DEF StrandInv, NothingStranded, Findable
  <2>5. ASSUME NEW y \in Visits, visit'[y].at \in Using
        PROVE  visit'[y].tenant \subseteq Findable'
    <3>1. y # x /\ visit'[y] = visit[y]
      BY <1>2, <2>2, <2>5
    <3>2. visit[y].at \in Using /\ visit[y].tenant \subseteq Findable
      BY <2>5, <3>1 DEF StrandInv, HeldFindable
    <3>3. \A t \in visit[y].tenant : InUse(t)
      BY <3>2 DEF InUse, Using
    <3>4. \A t \in visit[y].tenant : t \in gone => t \in Findable'
      BY <2>1, <3>3 DEF Findable
    <3>5. QED
      BY <2>3, <3>1, <3>2, <3>4
  <2>6. QED
    BY <2>4, <2>5 DEF StrandInv, NothingStranded, HeldFindable, Findable
<1>5. CASE EnterSandbox(x)
  <2>1. visit'[x].tenant = TenantsOf(RowsOf(by[x])) /\ UNCHANGED <<sandbox, owned, torn, data, shared>>
    BY <1>1, <1>5 DEF EnterSandbox, VisitRec
  <2>2. visit'[x].tenant \subseteq Findable'
    BY <2>1 DEF Findable, TenantsOf, RowsOf
  <2>3. Findable' = Findable
    BY <2>1 DEF Findable, TenantsOf
  <2>4. QED
    BY <1>2, <2>1, <2>2, <2>3, StrandFrame
<1>6. CASE _public_demo_budget(x) \/ _seed_graph(x) \/ _run_for_tenant(x) \/ ShareReplay(x)
  <2>1. UNCHANGED <<sandbox, owned, torn>> /\ visit[x].at \in Using /\ visit'[x].tenant = visit[x].tenant
    BY <1>1, <1>6
       DEF _public_demo_budget, _seed_graph, _run_for_tenant, ShareReplay, VisitAt, VisitRec, Using
  <2>2. data' \cup shared' \subseteq data \cup shared \cup visit[x].tenant
    BY <1>6 DEF _public_demo_budget, _seed_graph, _run_for_tenant, ShareReplay
  <2>3. Findable' = Findable
    BY <2>1 DEF Findable, TenantsOf
  <2>4. visit'[x].tenant \subseteq Findable'
    BY <2>1, <2>3 DEF StrandInv, HeldFindable
  <2>5. QED
    BY <1>2, <2>1, <2>2, <2>3, <2>4, StrandFrame
<1>7. CASE CreateSandbox(x)
  <2>1. UNCHANGED <<owned, torn, data, shared>>
    BY <1>7 DEF CreateSandbox
  <2>2. CASE UNCHANGED sandbox /\ visit' = [visit EXCEPT ![x].at = "failed"]
    <3>1. visit'[x].at \notin Using /\ Findable' = Findable
      BY <1>1, <2>1, <2>2 DEF VisitRec, Using, Findable, TenantsOf
    <3>2. QED
      BY <1>2, <2>1, <3>1, StrandFrame
  <2>3. CASE /\ sandbox' = sandbox \cup {[visitor |-> by[x], tenant |-> x, started |-> clock, runs |-> 1,
                                          expires |-> visit[x].now + Ttl]}
             /\ visit' = [visit EXCEPT ![x].at = "seed", ![x].tenant = {x}, ![x].granted = {clock}]
    <3>1. visit'[x].tenant = {x}
      BY <1>1, <2>3 DEF VisitRec
    <3>2. TenantsOf(sandbox)' = TenantsOf(sandbox) \cup {x}
      <4> DEFINE new == [visitor |-> by[x], tenant |-> x, started |-> clock, runs |-> 1,
                         expires |-> visit[x].now + Ttl]
      <4>1. sandbox' = sandbox \cup {new} /\ new.tenant = x
        BY <2>3
      <4> HIDE DEF new
      <4>2. \A r : r \in sandbox' <=> r \in sandbox \/ r = new
        BY <4>1
      <4>3. TenantsOf(sandbox)' = {r.tenant : r \in sandbox'} /\ TenantsOf(sandbox) = {r.tenant : r \in sandbox}
        BY DEF TenantsOf
      <4>4. QED
        BY <4>1, <4>2, <4>3
    <3>3. Findable' = Findable \cup {x}
      BY <2>1, <3>2 DEF Findable
    <3>4. QED
      BY <1>2, <2>1, <3>1, <3>3, StrandFrame
  <2>4. QED
    BY <1>7, <2>2, <2>3 DEF CreateSandbox
<1>8. CASE RenewSandbox(x)
  <2>1. UNCHANGED <<owned, torn, data, shared>> /\ visit[x].at \in Using
    BY <1>8 DEF RenewSandbox, VisitAt, Using
  <2>2. visit'[x].tenant = visit[x].tenant
    BY <1>1, <1>8 DEF RenewSandbox, VisitRec
  <2>3. TenantsOf(sandbox)' = TenantsOf(sandbox)
    <3>1. CASE UNCHANGED sandbox
      BY <3>1 DEF TenantsOf
    <3>2. CASE \E s \in visit[x].rows :
                 /\ ~(s.started + Hour > visit[x].now /\ s.runs >= MaxRuns)
                 /\ sandbox' = {IF r.visitor = by[x]
                                THEN [Renewed(s, visit[x].now) EXCEPT !.tenant = r.tenant]
                                ELSE r : r \in sandbox}
      BY <3>2, RenewedTable
    <3>3. QED
      BY <1>8, <3>1, <3>2 DEF RenewSandbox
  <2>4. Findable' = Findable
    BY <2>1, <2>3 DEF Findable
  <2>5. visit'[x].tenant \subseteq Findable'
    BY <2>1, <2>2, <2>4 DEF StrandInv, HeldFindable
  <2>6. QED
    BY <1>2, <2>1, <2>4, <2>5, StrandFrame
<1>9. CASE _demo_tenant(x)
  <2> DEFINE mine == {o[2] : o \in {p \in owned : p[1] = by[x]}}
  <2>1. /\ owned' = IF mine = {} THEN owned \cup {<<by[x], x>>} ELSE owned
        /\ visit' = [visit EXCEPT ![x].at = "seed", ![x].tenant = IF mine = {} THEN {x} ELSE mine]
        /\ UNCHANGED <<sandbox, torn, data, shared>>
    BY <1>9 DEF _demo_tenant
  <2>2. mine \subseteq {o[2] : o \in owned}
    OBVIOUS
  <2> HIDE DEF mine
  <2>3. visit'[x].tenant = IF mine = {} THEN {x} ELSE mine
    BY <1>1, <2>1 DEF VisitRec
  <2>4. {o[2] : o \in owned'} = {o[2] : o \in owned} \cup (IF mine = {} THEN {x} ELSE {})
    <3>1. CASE mine = {}
      <4>1. \A o : o \in owned' <=> o \in owned \/ o = <<by[x], x>>
        BY <2>1, <3>1
      <4>2. <<by[x], x>>[2] = x
        OBVIOUS
      <4>3. QED
        BY <3>1, <4>1, <4>2
    <3>2. CASE mine # {}
      BY <2>1, <3>2
    <3>3. QED
      BY <3>1, <3>2
  <2>5. Findable' = Findable \cup (IF mine = {} THEN {x} ELSE {})
    BY <2>1, <2>4 DEF Findable, TenantsOf
  <2>6. visit'[x].tenant \subseteq Findable'
    BY <2>2, <2>3, <2>5 DEF Findable
  <2>7. QED
    BY <1>2, <2>1, <2>5, <2>6, StrandFrame
<1>10. QED
  BY <1>3, <1>4, <1>5, <1>6, <1>7, <1>8, <1>9 DEF Steps

\* What a sandbox holds can be reclaimed, for any number of visitors and calls, whatever
\* they overlap with, unless a purge took it from a call that still used it
\* (demo.py:95-114).
THEOREM SandboxesReclaimable == SandboxSpec => []NothingStranded
<1> DEFINE Inv == SandboxTypeOK /\ PublicInside /\ StrandInv
<1>1. SandboxInit => Inv
  BY SandboxTypeInit DEF SandboxInit, StrandInv, NothingStranded, HeldFindable, Using
<1>2. Inv /\ [SandboxNext]_sandboxVars => Inv'
  <2> SUFFICES ASSUME Inv, [SandboxNext]_sandboxVars PROVE StrandInv'
    BY SandboxTypeStep
  <2>1. CASE ClockTicks \/ UNCHANGED sandboxVars
    BY <2>1 DEF ClockTicks, sandboxVars, StrandInv, NothingStranded, HeldFindable, Findable, TenantsOf
  <2>2. QED
    BY <2>1, StrandStep DEF SandboxNext, Steps
<1>3. Inv => NothingStranded
  BY DEF StrandInv
<1>4. QED
  BY <1>1, <1>2, <1>3, PTL DEF SandboxSpec

-----------------------------------------------------------------------------
(* The runs of a visitor. *)

\* The calls that ran in a window, in a sandbox that was not reclaimed under them.
RunsOf(v, h) == {x \in Visits : by[x] = v /\ h \in visit[x].granted /\ visit[x].tenant \cap torn = {}}

Active == VisitSteps \ {"new", "done", "refused", "failed"}

\* A call takes less than two units of the clock.
InTime ==
  \A x \in Visits : visit[x].at \in Active => visit[x].now <= clock /\ clock <= visit[x].now + 1

\* A call runs once it has written.
RunsOnce ==
  \A x \in Visits :
    visit[x].at \in {"new", "purge", "reclaim", "enter", "budget", "write"} => visit[x].granted = {}

\* A visitor has one row; it counts the runs of its window, which is his last, and it does
\* not expire with the unit of the clock in which the window began.
RowsCount ==
  /\ \A s, u \in sandbox : s.visitor = u.visitor => s = u
  /\ \A s \in sandbox :
       /\ s.started <= clock /\ s.started < s.expires
       /\ Cardinality(RunsOf(s.visitor, s.started)) <= s.runs
       /\ \A h \in 0 .. MaxClock : RunsOf(s.visitor, h) # {} => h <= s.started

\* Without a row all his windows are over; in none of them he had too many runs.
WindowsCount ==
  \A v \in Visitors, h \in 0 .. MaxClock :
    /\ IsFiniteSet(RunsOf(v, h)) /\ Cardinality(RunsOf(v, h)) <= MaxRuns
    /\ RowsOf(v) = {} /\ RunsOf(v, h) # {} => h < clock

\* What a call has read of its visitor's row stays so until it writes, unless it is reclaimed.
HeldOK(x) ==
  /\ visit[x].at \in {"budget", "write"} =>
       /\ RowsOf(by[x]) \subseteq visit[x].rows
       /\ visit[x].tenant = TenantsOf(visit[x].rows)
       /\ \A s, u \in visit[x].rows : s = u
       /\ \A s \in visit[x].rows : s.visitor = by[x] /\ (s \in sandbox \/ s.tenant \in torn)
       /\ \A y \in Visits \ {x} : by[y] = by[x] => visit[y].at \notin {"budget", "write"}
  /\ visit[x].at = "reclaim" => \A s \in visit[x].rows : s.expires <= visit[x].now

RowsHeld == \A x \in Visits : HeldOK(x)

RunsInv == InTime /\ RunsOnce /\ RowsCount /\ WindowsCount /\ RowsHeld

\* Runs are counted only for a visitor.
LEMMA FewerRuns ==
  ASSUME NEW v \in Visitors, NEW h \in 0 .. MaxClock, IsFiniteSet(RunsOf(v, h)),
         RunsOf(v, h)' \subseteq RunsOf(v, h), NEW n \in Nat, Cardinality(RunsOf(v, h)) <= n
  PROVE  IsFiniteSet(RunsOf(v, h)') /\ Cardinality(RunsOf(v, h)') <= n
BY FS_Subset, FS_CardinalityType

\* A step that starts no run, and takes away no row but those that have expired.
LEMMA CountsStay ==
  ASSUME SandboxTypeOK, RunsInv,
         clock' = clock, sandbox' \subseteq sandbox,
         \A s \in sandbox \ sandbox' : s.expires <= clock,
         \A v \in Visitors, h \in 0 .. MaxClock : RunsOf(v, h)' \subseteq RunsOf(v, h)
  PROVE  RowsCount' /\ WindowsCount'
<1>1. \A v \in Visitors, h \in 0 .. MaxClock : RunsOf(v, h)' \subseteq RunsOf(v, h)
  OBVIOUS
<1>2. /\ sandbox \subseteq Sandboxes /\ clock \in Nat /\ MaxRuns \in Nat
      /\ \A s \in Sandboxes : /\ s.visitor \in Visitors /\ s.started \in 0 .. MaxClock /\ s.started \in Nat
                              /\ s.runs \in Nat /\ s.expires \in Nat
  BY SandboxTypes, SandboxAssumption DEF Sandboxes
<1>3. RowsCount'
  <2>1. ASSUME NEW s \in sandbox'
        PROVE  /\ s.started <= clock /\ s.started < s.expires
               /\ Cardinality(RunsOf(s.visitor, s.started)') <= s.runs
               /\ \A h \in 0 .. MaxClock : RunsOf(s.visitor, h)' # {} => h <= s.started
    <3>1. /\ s \in sandbox /\ s.visitor \in Visitors /\ s.started \in 0 .. MaxClock /\ s.runs \in Nat
      BY <1>2
    <3>2. /\ s.started <= clock /\ s.started < s.expires
          /\ Cardinality(RunsOf(s.visitor, s.started)) <= s.runs
          /\ \A h \in 0 .. MaxClock : RunsOf(s.visitor, h) # {} => h <= s.started
          /\ IsFiniteSet(RunsOf(s.visitor, s.started))
      BY <3>1 DEF RunsInv, RowsCount, WindowsCount
    <3>3. Cardinality(RunsOf(s.visitor, s.started)') <= s.runs
      BY <1>1, <3>1, <3>2, FewerRuns
    <3>4. QED
      BY <1>1, <3>1, <3>2, <3>3
  <2>2. QED
    BY <2>1 DEF RunsInv, RowsCount
<1>4. WindowsCount'
  <2>1. ASSUME NEW v \in Visitors, NEW h \in 0 .. MaxClock
        PROVE  /\ IsFiniteSet(RunsOf(v, h)') /\ Cardinality(RunsOf(v, h)') <= MaxRuns
               /\ RowsOf(v)' = {} /\ RunsOf(v, h)' # {} => h < clock
    <3>1. IsFiniteSet(RunsOf(v, h)') /\ Cardinality(RunsOf(v, h)') <= MaxRuns
      BY <1>1, <1>2, FewerRuns DEF RunsInv, WindowsCount
    <3>2. ASSUME RowsOf(v)' = {}, RunsOf(v, h)' # {} PROVE h < clock
      <4>1. RunsOf(v, h) # {}
        BY <1>1, <3>2
      <4>2. CASE RowsOf(v) = {}
        BY <4>1, <4>2 DEF RunsInv, WindowsCount
      <4>3. CASE RowsOf(v) # {}
        <5>1. PICK s \in sandbox : s.visitor = v
          BY <4>3 DEF RowsOf
        <5>2. s.expires <= clock
          BY <3>2, <5>1 DEF RowsOf
        <5>3. h <= s.started /\ s.started < s.expires
          BY <4>1, <5>1 DEF RunsInv, RowsCount
        <5>4. h \in Nat /\ s.started \in Nat /\ s.expires \in Nat
          BY <1>2, <5>1
        <5>5. QED
          BY <1>2, <5>2, <5>3, <5>4
      <4>4. QED
        BY <4>2, <4>3
    <3>3. QED
      BY <3>1, <3>2
  <2>2. QED
    BY <2>1 DEF WindowsCount
<1>5. QED
  BY <1>3, <1>4

\* A call that moves and starts no run.
LEMMA RunsFrame ==
  ASSUME SandboxTypeOK, RunsInv, NEW x \in Visits,
         UNCHANGED <<by, clock, sandbox, torn>>,
         \A y \in Visits \ {x} : visit'[y] = visit[y],
         visit'[x].granted = visit[x].granted,
         visit[x].granted # {} => visit'[x].tenant = visit[x].tenant,
         visit'[x].at \in Active =>
           visit'[x].now = clock \/ (visit[x].at \in Active /\ visit'[x].now = visit[x].now),
         visit'[x].at \in {"new", "purge", "reclaim", "enter", "budget", "write"} =>
           visit[x].at \in {"new", "purge", "reclaim", "enter", "budget", "write"},
         HeldOK(x)'
  PROVE  RunsInv'
<1>1. \A v \in Visitors, h \in 0 .. MaxClock : RunsOf(v, h)' \subseteq RunsOf(v, h)
  BY DEF RunsOf
<1>2. RowsCount' /\ WindowsCount'
  BY <1>1, CountsStay
<1>3. InTime'
  BY SandboxTypes DEF RunsInv, InTime
<1>4. RunsOnce'
  BY DEF RunsInv, RunsOnce
<1>5. ASSUME NEW y \in Visits \ {x} PROVE HeldOK(y)'
  <2>1. HeldOK(y) /\ visit'[y] = visit[y]
    BY DEF RunsInv, RowsHeld
  <2>2. visit[y].at \in {"budget", "write"} =>
          \A z \in Visits \ {y} : by[z] = by[y] => visit'[z].at \notin {"budget", "write"}
    BY <2>1 DEF HeldOK
  <2>3. QED
    BY <2>1, <2>2 DEF HeldOK, RowsOf
<1>6. RowsHeld'
  BY <1>5 DEF RowsHeld
<1>7. QED
  BY <1>2, <1>3, <1>4, <1>6 DEF RunsInv

\* A call that starts a run writes the only row of its visitor, and counts the run there.
LEMMA RunStarts ==
  ASSUME SandboxTypeOK, RunsInv, NEW x \in Visits, Public(x), NEW u \in Sandboxes,
         UNCHANGED <<by, clock, torn>>, visit[x].at = "write",
         u.visitor = by[x], sandbox' = {r \in sandbox : r.visitor # by[x]} \cup {u},
         u.started <= clock, u.started < u.expires,
         Cardinality(RunsOf(by[x], u.started)) + 1 <= u.runs,
         \A h \in 0 .. MaxClock : RunsOf(by[x], h) # {} => h <= u.started,
         visit'[x].at = "seed", visit'[x].now = visit[x].now, visit'[x].granted = {u.started},
         \A y \in Visits \ {x} : visit'[y] = visit[y]
  PROVE  RunsInv'
<1> DEFINE v == by[x]
<1>1. v \in Visitors /\ u.started \in 0 .. MaxClock /\ u.runs \in 1 .. MaxRuns /\ MaxRuns \in Nat
  BY SandboxAssumption DEF Public, Sandboxes
<1>2. visit[x].granted = {}
  BY DEF RunsInv, RunsOnce
<1>3. \A w \in Visitors, h \in 0 .. MaxClock :
        RunsOf(w, h)' \subseteq RunsOf(w, h) \cup (IF w = v /\ h = u.started THEN {x} ELSE {})
  BY DEF RunsOf
<1>4. \A w \in Visitors, h \in 0 .. MaxClock :
        IsFiniteSet(RunsOf(w, h)) /\ Cardinality(RunsOf(w, h)) \in Nat
  BY FS_CardinalityType DEF RunsInv, WindowsCount
<1>5. IsFiniteSet(RunsOf(v, u.started)') /\ Cardinality(RunsOf(v, u.started)') <= u.runs
  <2> DEFINE P == RunsOf(v, u.started)
             Q == RunsOf(v, u.started)'
  <2>1. Q \subseteq P \cup {x} /\ x \notin P
    BY <1>1, <1>2, <1>3 DEF RunsOf
  <2>2. IsFiniteSet(P) /\ Cardinality(P) \in Nat /\ Cardinality(P) + 1 <= u.runs
    BY <1>1, <1>4
  <2> HIDE DEF P, Q
  <2>3. IsFiniteSet(P \cup {x}) /\ Cardinality(P \cup {x}) = Cardinality(P) + 1
    BY <2>1, <2>2, FS_AddElement
  <2>4. IsFiniteSet(Q) /\ Cardinality(Q) \in Nat /\ Cardinality(Q) <= Cardinality(P) + 1
    BY <2>1, <2>3, FS_Subset, FS_CardinalityType
  <2>5. IsFiniteSet(Q) /\ Cardinality(Q) <= u.runs
    BY <1>1, <2>2, <2>4
  <2>6. QED
    BY <2>5 DEF Q
<1>6. ASSUME NEW w \in Visitors, NEW h \in 0 .. MaxClock, ~(w = v /\ h = u.started)
      PROVE  RunsOf(w, h)' \subseteq RunsOf(w, h)
  BY <1>3, <1>6
<1>7. RowsCount'
  <2>1. \A s, t \in sandbox' : s.visitor = t.visitor => s = t
    BY DEF RunsInv, RowsCount
  <2>2. ASSUME NEW s \in sandbox'
        PROVE  /\ s.started <= clock /\ s.started < s.expires
               /\ Cardinality(RunsOf(s.visitor, s.started)') <= s.runs
               /\ \A h \in 0 .. MaxClock : RunsOf(s.visitor, h)' # {} => h <= s.started
    <3>1. CASE s = u
      <4>1. \A h \in 0 .. MaxClock : RunsOf(v, h)' # {} => h <= u.started
        BY <1>1, <1>6
      <4>2. QED
        BY <1>5, <3>1, <4>1
    <3>2. CASE s # u
      <4>1. s \in sandbox /\ s.visitor # v
        BY <3>2
      <4>2. s.visitor \in Visitors /\ s.started \in 0 .. MaxClock /\ s.runs \in Nat
        BY <4>1, SandboxTypes, SandboxAssumption DEF Sandboxes
      <4>3. \A h \in 0 .. MaxClock : RunsOf(s.visitor, h)' \subseteq RunsOf(s.visitor, h)
        BY <1>6, <4>1, <4>2
      <4>4. /\ s.started <= clock /\ s.started < s.expires
            /\ Cardinality(RunsOf(s.visitor, s.started)) <= s.runs
            /\ \A h \in 0 .. MaxClock : RunsOf(s.visitor, h) # {} => h <= s.started
        BY <4>1 DEF RunsInv, RowsCount
      <4>5. Cardinality(RunsOf(s.visitor, s.started)') <= s.runs
        BY <1>4, <4>2, <4>3, <4>4, FewerRuns
      <4>6. QED
        BY <4>3, <4>4, <4>5
    <3>3. QED
      BY <3>1, <3>2
  <2>3. QED
    BY <2>1, <2>2 DEF RowsCount
<1>8. WindowsCount'
  <2>1. ASSUME NEW w \in Visitors, NEW h \in 0 .. MaxClock
        PROVE  /\ IsFiniteSet(RunsOf(w, h)') /\ Cardinality(RunsOf(w, h)') <= MaxRuns
               /\ RowsOf(w)' = {} /\ RunsOf(w, h)' # {} => h < clock
    <3>1. CASE w = v /\ h = u.started
      <4>1. Cardinality(RunsOf(w, h)') \in Nat
        BY <1>5, <3>1, FS_CardinalityType
      <4>2. Cardinality(RunsOf(w, h)') <= MaxRuns
        BY <1>1, <1>5, <3>1, <4>1
      <4>3. RowsOf(w)' # {}
        BY <3>1 DEF RowsOf
      <4>4. QED
        BY <1>5, <3>1, <4>2, <4>3
    <3>2. CASE ~(w = v /\ h = u.started)
      <4>1. IsFiniteSet(RunsOf(w, h)') /\ Cardinality(RunsOf(w, h)') <= MaxRuns
        BY <1>1, <1>6, <3>2, FewerRuns DEF RunsInv, WindowsCount
      <4>2. RowsOf(w)' = {} => RowsOf(w) = {}
        BY DEF RowsOf
      <4>3. QED
        BY <1>6, <3>2, <4>1, <4>2 DEF RunsInv, WindowsCount
    <3>3. QED
      BY <3>1, <3>2
  <2>2. QED
    BY <2>1 DEF WindowsCount
<1>9. InTime' /\ RunsOnce'
  BY DEF RunsInv, InTime, RunsOnce, Active, VisitSteps
<1>10. ASSUME NEW y \in Visits \ {x} PROVE HeldOK(y)'
  <2>1. HeldOK(y) /\ visit'[y] = visit[y] /\ HeldOK(x)
    BY DEF RunsInv, RowsHeld
  <2>2. CASE visit[y].at \in {"budget", "write"}
    <3>1. by[y] # v
      BY <2>1, <2>2 DEF HeldOK
    <3>2. RowsOf(by[y])' = RowsOf(by[y])
      BY <3>1 DEF RowsOf
    <3>3. \A s \in visit[y].rows : s.visitor = by[y] /\ (s \in sandbox' \/ s.tenant \in torn)
      BY <2>1, <2>2, <3>1 DEF HeldOK
    <3>4. \A z \in Visits \ {y} : by[z] = by[y] => visit'[z].at \notin {"budget", "write"}
      BY <2>1, <2>2 DEF HeldOK
    <3>5. QED
      BY <2>1, <2>2, <3>2, <3>3, <3>4 DEF HeldOK
  <2>3. CASE visit[y].at \notin {"budget", "write"}
    BY <2>1, <2>3 DEF HeldOK
  <2>4. QED
    BY <2>2, <2>3
<1>11. HeldOK(x)'
  BY DEF HeldOK
<1>12. QED
  BY <1>7, <1>8, <1>9, <1>10, <1>11 DEF RunsInv, RowsHeld

\* The steps of a call that start no run and take no row away.
LEMMA QuietVisit ==
  ASSUME SandboxTypeOK, PublicInside, RunsInv, NEW x \in Visits,
         \/ Visit(x) \/ PurgeSelects(x) \/ EnterSandbox(x) \/ _public_demo_budget(x) \/ _demo_tenant(x)
         \/ _seed_graph(x) \/ _run_for_tenant(x) \/ ShareReplay(x) \/ VisitFails(x)
  PROVE  RunsInv'
<1>0. /\ visit \in [Visits -> VisitRec] /\ HeldOK(x)
      /\ visit[x].at \in {"new", "purge", "reclaim", "enter", "budget", "write"} => visit[x].granted = {}
  BY SandboxTypes DEF RunsInv, RowsHeld, RunsOnce
<1>1. /\ UNCHANGED <<by, clock, sandbox, torn>>
      /\ \A y \in Visits \ {x} : visit'[y] = visit[y]
      /\ visit'[x].granted = visit[x].granted
  BY <1>0 DEF VisitRec, Visit, PurgeSelects, EnterSandbox, _public_demo_budget, _demo_tenant, _seed_graph,
       _run_for_tenant, ShareReplay, VisitFails
<1>2. visit[x].granted # {} => visit'[x].tenant = visit[x].tenant
  BY <1>0 DEF VisitRec, VisitAt, Visit, PurgeSelects, EnterSandbox, _public_demo_budget, _demo_tenant,
       _seed_graph, _run_for_tenant, ShareReplay, VisitFails
<1>3. visit'[x].at \in Active =>
           visit'[x].now = clock \/ (visit[x].at \in Active /\ visit'[x].now = visit[x].now)
  BY <1>0 DEF VisitRec, VisitAt, Visit, PurgeSelects, EnterSandbox, _public_demo_budget, _demo_tenant,
       _seed_graph, _run_for_tenant, ShareReplay, VisitFails, Active, VisitSteps
<1>4. visit'[x].at \in {"new", "purge", "reclaim", "enter", "budget", "write"} =>
        visit[x].at \in {"new", "purge", "reclaim", "enter", "budget", "write"}
  BY <1>0 DEF VisitRec, VisitAt, Visit, PurgeSelects, EnterSandbox, _public_demo_budget, _demo_tenant,
       _seed_graph, _run_for_tenant, ShareReplay, VisitFails
<1>5. HeldOK(x)'
  <2>1. CASE EnterSandbox(x)
    <3>1. /\ visit'[x].at = "budget" /\ visit'[x].rows = RowsOf(by[x])
          /\ visit'[x].tenant = TenantsOf(RowsOf(by[x])) /\ by' = by /\ sandbox' = sandbox
      BY <1>0, <2>1 DEF EnterSandbox, VisitRec
    <3>2. \A y \in Visits \ {x} : by[y] = by[x] => visit'[y].at \notin {"budget", "write"}
      BY <1>1, <2>1 DEF EnterSandbox, VisitorSerialized
    <3>3. \A s, u \in RowsOf(by[x]) : s = u
      BY DEF RowsOf, RunsInv, RowsCount
    <3>4. QED
      BY <3>1, <3>2, <3>3 DEF HeldOK, RowsOf, TenantsOf
  <2>2. CASE _public_demo_budget(x)
    <3>1. /\ visit[x].at = "budget" /\ visit'[x].at \in {"write", "refused"}
          /\ visit'[x].rows = visit[x].rows /\ visit'[x].tenant = visit[x].tenant
      BY <1>0, <2>2 DEF _public_demo_budget, VisitAt, VisitRec
    <3>2. QED
      BY <1>0, <1>1, <3>1 DEF HeldOK, RowsOf, TenantsOf
  <2>3. CASE PurgeSelects(x)
    <3>1. /\ visit'[x].at = "reclaim" /\ visit'[x].now = visit[x].now
          /\ visit'[x].rows = {s \in sandbox : s.expires <= visit[x].now /\ ~Locked(s)}
      BY <1>0, <2>3 DEF PurgeSelects, VisitRec
    <3>2. QED
      BY <3>1 DEF HeldOK
  <2>4. CASE Visit(x) \/ _demo_tenant(x) \/ _seed_graph(x) \/ _run_for_tenant(x) \/ ShareReplay(x) \/ VisitFails(x)
    <3>1. visit'[x].at \notin {"budget", "write", "reclaim"}
      BY <1>0, <2>4 DEF VisitRec, Visit, _demo_tenant, _seed_graph, _run_for_tenant, ShareReplay, VisitFails
    <3>2. QED
      BY <3>1 DEF HeldOK
  <2>5. QED
    BY <2>1, <2>2, <2>3, <2>4
<1>6. QED
  BY <1>1, <1>2, <1>3, <1>4, <1>5, RunsFrame

LEMMA PurgeKeepsRuns ==
  ASSUME SandboxTypeOK, RunsInv, NEW x \in Visits, purge_expired_public_demos(x)
  PROVE  RunsInv'
<1>0. visit \in [Visits -> VisitRec] /\ HeldOK(x) /\ clock \in Nat
  BY SandboxTypes, SandboxAssumption DEF RunsInv, RowsHeld
<1>1. /\ visit[x].at = "reclaim" /\ by' = by /\ clock' = clock
      /\ sandbox' = sandbox \ visit[x].rows
      /\ torn' = torn \cup {t \in TenantsOf(visit[x].rows) : InUse(t)}
      /\ \A y \in Visits \ {x} : visit'[y] = visit[y]
      /\ visit'[x].granted = visit[x].granted /\ visit'[x].tenant = visit[x].tenant
      /\ visit'[x].now = visit[x].now /\ visit'[x].at = "enter"
  BY <1>0 DEF purge_expired_public_demos, VisitAt, VisitRec
<1>2. \A v \in Visitors, h \in 0 .. MaxClock : RunsOf(v, h)' \subseteq RunsOf(v, h)
  <2>1. \A y \in Visits : visit'[y].granted = visit[y].granted /\ visit'[y].tenant = visit[y].tenant
    BY <1>1
  <2>2. QED
    BY <1>1, <2>1 DEF RunsOf
<1>3. \A s \in sandbox \ sandbox' : s.expires <= clock
  <2> TAKE s \in sandbox \ sandbox'
  <2>1. s \in visit[x].rows /\ s.expires <= visit[x].now /\ visit[x].now <= clock
    BY <1>0, <1>1 DEF HeldOK, RunsInv, InTime, Active, VisitSteps
  <2>2. s.expires \in Nat /\ visit[x].now \in Nat
    BY <1>0, SandboxTypes, SandboxAssumption DEF Sandboxes, VisitRec
  <2>3. QED
    BY <1>0, <2>1, <2>2
<1>4. RowsCount' /\ WindowsCount'
  BY <1>1, <1>2, <1>3, CountsStay
<1>5. InTime' /\ RunsOnce'
  BY <1>1 DEF RunsInv, InTime, RunsOnce, Active, VisitSteps
<1>6. ASSUME NEW y \in Visits \ {x} PROVE HeldOK(y)'
  <2>1. HeldOK(y) /\ visit'[y] = visit[y]
    BY <1>1 DEF RunsInv, RowsHeld
  <2>2. CASE visit[y].at \in {"budget", "write"}
    <3>1. RowsOf(by[y])' \subseteq visit[y].rows /\ visit[y].tenant = TenantsOf(visit[y].rows)
      BY <1>1, <2>1, <2>2 DEF HeldOK, RowsOf
    <3>2. \A s \in visit[y].rows : s \in sandbox' \/ s.tenant \in torn'
      <4> TAKE s \in visit[y].rows
      <4>1. InUse(s.tenant)
        BY <2>2, <3>1 DEF InUse, TenantsOf
      <4>2. s \in visit[x].rows => s.tenant \in torn'
        BY <1>1, <4>1 DEF TenantsOf
      <4>3. s \in sandbox \/ s.tenant \in torn
        BY <2>1, <2>2 DEF HeldOK
      <4>4. QED
        BY <1>1, <4>2, <4>3
    <3>3. \A z \in Visits \ {y} : by[z] = by[y] => visit'[z].at \notin {"budget", "write"}
      BY <1>1, <2>1, <2>2 DEF HeldOK
    <3>4. QED
      BY <1>1, <2>1, <2>2, <3>1, <3>2, <3>3 DEF HeldOK, TenantsOf
  <2>3. CASE visit[y].at \notin {"budget", "write"}
    BY <2>1, <2>3 DEF HeldOK
  <2>4. QED
    BY <2>2, <2>3
<1>7. HeldOK(x)'
  BY <1>1 DEF HeldOK
<1>8. QED
  BY <1>4, <1>5, <1>6, <1>7 DEF RunsInv, RowsHeld

LEMMA CreateKeepsRuns ==
  ASSUME SandboxTypeOK, PublicInside, RunsInv, NEW x \in Visits, CreateSandbox(x)
  PROVE  RunsInv'
<1>0. /\ visit \in [Visits -> VisitRec] /\ HeldOK(x) /\ clock \in 0 .. MaxClock /\ clock \in Nat
      /\ visit[x].now \in 0 .. MaxClock /\ visit[x].now \in Nat
  BY SandboxTypes, SandboxAssumption DEF RunsInv, RowsHeld, VisitRec
<1>1. visit[x].at = "write" /\ visit[x].rows = {} /\ Public(x) /\ by[x] \in Visitors
  BY DEF CreateSandbox, VisitAt, PublicInside, Public
<1>2. RowsOf(by[x]) = {}
  BY <1>0, <1>1 DEF HeldOK
<1> DEFINE u == [visitor |-> by[x], tenant |-> x, started |-> clock, runs |-> 1,
                 expires |-> visit[x].now + Ttl]
<1>3. /\ sandbox' = sandbox \cup {u}
      /\ visit' = [visit EXCEPT ![x].at = "seed", ![x].tenant = {x}, ![x].granted = {clock}]
      /\ UNCHANGED <<by, clock, torn>>
  BY <1>2 DEF CreateSandbox
<1>4. u \in Sandboxes
  <2>1. visit[x].now + Ttl \in 0 .. MaxClock + Ttl /\ 1 \in 1 .. MaxRuns
    BY <1>0, SandboxAssumption
  <2>2. QED
    BY <1>0, <1>1, <2>1 DEF Sandboxes
<1>5. u.visitor = by[x] /\ u.started = clock /\ u.runs = 1 /\ u.expires = visit[x].now + Ttl
  OBVIOUS
<1> HIDE DEF u
<1>6. clock < u.expires
  <2>1. clock <= visit[x].now + 1
    BY <1>1 DEF RunsInv, InTime, Active, VisitSteps
  <2>2. QED
    BY <1>0, <1>5, <2>1, SandboxAssumption
<1>7. sandbox' = {r \in sandbox : r.visitor # by[x]} \cup {u}
  BY <1>2, <1>3 DEF RowsOf
<1>8. \A h \in 0 .. MaxClock : RunsOf(by[x], h) # {} => h < clock
  BY <1>1, <1>2 DEF RunsInv, WindowsCount
<1>9. RunsOf(by[x], clock) = {}
  BY <1>0, <1>8
<1>10. Cardinality(RunsOf(by[x], u.started)) + 1 <= u.runs
  BY <1>5, <1>9, FS_EmptySet
<1>11. /\ visit'[x].at = "seed" /\ visit'[x].now = visit[x].now /\ visit'[x].granted = {u.started}
       /\ \A y \in Visits \ {x} : visit'[y] = visit[y]
  BY <1>0, <1>3, <1>5 DEF VisitRec
<1>12. \A h \in 0 .. MaxClock : RunsOf(by[x], h) # {} => h <= u.started
  BY <1>0, <1>5, <1>8
<1>13. QED
  BY <1>0, <1>1, <1>3, <1>4, <1>5, <1>6, <1>7, <1>10, <1>11, <1>12, RunStarts

\* The UPDATE of a row that a purge took away: the call goes on in a tenant that was torn.
LEMMA RenewKeepsRuns ==
  ASSUME SandboxTypeOK, PublicInside, RunsInv, NEW x \in Visits, RenewSandbox(x)
  PROVE  RunsInv'
<1>0. /\ visit \in [Visits -> VisitRec] /\ HeldOK(x) /\ clock \in 0 .. MaxClock /\ clock \in Nat
      /\ visit[x].now \in 0 .. MaxClock /\ visit[x].now \in Nat
      /\ sandbox \subseteq Sandboxes /\ visit[x].rows \subseteq Sandboxes
  BY SandboxTypes, SandboxAssumption DEF RunsInv, RowsHeld, VisitRec
<1>1. /\ visit[x].at = "write" /\ Public(x) /\ by[x] \in Visitors
      /\ visit[x].now <= clock /\ clock <= visit[x].now + 1 /\ visit[x].granted = {}
  BY DEF RenewSandbox, VisitAt, PublicInside, Public, RunsInv, InTime, RunsOnce, Active, VisitSteps
<1>2. PICK s \in visit[x].rows :
        IF s.started + Hour > visit[x].now /\ s.runs >= MaxRuns
        THEN visit' = [visit EXCEPT ![x].at = "refused", ![x].rows = {}] /\ UNCHANGED sandbox
        ELSE /\ sandbox' = {IF r.visitor = by[x] THEN [Renewed(s, visit[x].now) EXCEPT !.tenant = r.tenant]
                            ELSE r : r \in sandbox}
             /\ visit' = [visit EXCEPT ![x].at = "seed", ![x].rows = {},
                                       ![x].granted = {Renewed(s, visit[x].now).started}]
  BY DEF RenewSandbox
<1>3. /\ RowsOf(by[x]) \subseteq {s} /\ visit[x].tenant = TenantsOf({s}) /\ s.visitor = by[x]
      /\ s \in sandbox \/ s.tenant \in torn
      /\ \A r \in visit[x].rows : r = s
  <2>1. \A r \in visit[x].rows : r = s
    BY <1>0, <1>1 DEF HeldOK
  <2>2. visit[x].rows = {s}
    BY <2>1
  <2>3. QED
    BY <1>0, <1>1, <2>1, <2>2 DEF HeldOK
<1>4. UNCHANGED <<by, clock, torn>>
  BY DEF RenewSandbox
<1>5. /\ s \in Sandboxes /\ s.started \in 0 .. MaxClock /\ s.started \in Nat /\ s.runs \in Nat
      /\ Hour \in Nat /\ Hour >= 2 /\ Ttl \in Nat /\ Ttl >= 2 /\ MaxRuns \in Nat
  <2>1. s \in Sandboxes /\ Hour \in Nat /\ Hour >= 2 /\ Ttl \in Nat /\ Ttl >= 2 /\ MaxRuns \in Nat
    BY <1>0, SandboxAssumption
  <2>2. QED
    BY <2>1, SandboxAssumption DEF Sandboxes
<1>6. CASE s.started + Hour > visit[x].now /\ s.runs >= MaxRuns
  <2>1. visit' = [visit EXCEPT ![x].at = "refused", ![x].rows = {}] /\ UNCHANGED sandbox
    BY <1>2, <1>6
  <2>2. /\ \A y \in Visits \ {x} : visit'[y] = visit[y]
        /\ visit'[x].granted = visit[x].granted /\ visit'[x].tenant = visit[x].tenant
        /\ visit'[x].at = "refused"
    BY <1>0, <2>1 DEF VisitRec
  <2>3. HeldOK(x)'
    BY <2>2 DEF HeldOK
  <2>4. visit'[x].at \notin Active
    BY <2>2 DEF Active
  <2>5. QED
    BY <1>4, <2>1, <2>2, <2>3, <2>4, RunsFrame
<1>7. CASE ~(s.started + Hour > visit[x].now /\ s.runs >= MaxRuns)
  <2> DEFINE w == Renewed(s, visit[x].now)
             New(r) == IF r.visitor = by[x] THEN [w EXCEPT !.tenant = r.tenant] ELSE r
  <2>1. /\ sandbox' = {New(r) : r \in sandbox}
        /\ visit' = [visit EXCEPT ![x].at = "seed", ![x].rows = {}, ![x].granted = {w.started}]
    BY <1>2, <1>7
  <2>2. /\ \A y \in Visits \ {x} : visit'[y] = visit[y]
        /\ visit'[x].granted = {w.started} /\ visit'[x].tenant = visit[x].tenant
        /\ visit'[x].at = "seed" /\ visit'[x].now = visit[x].now
    BY <1>0, <2>1 DEF VisitRec
  <2>3. CASE s \notin sandbox
    <3>1. RowsOf(by[x]) = {} /\ s.tenant \in torn /\ s.tenant \in visit[x].tenant
      <4>1. s \notin RowsOf(by[x])
        BY <2>3 DEF RowsOf
      <4>2. s.tenant \in TenantsOf({s})
        BY DEF TenantsOf
      <4>3. QED
        BY <1>3, <2>3, <4>1, <4>2
    <3>2. sandbox' = sandbox
      BY <2>1, <3>1 DEF RowsOf
    <3>3. \A v \in Visitors, h \in 0 .. MaxClock : RunsOf(v, h)' \subseteq RunsOf(v, h)
      BY <1>4, <2>2, <3>1 DEF RunsOf
    <3>4. RowsCount' /\ WindowsCount'
      BY <1>4, <3>2, <3>3, CountsStay
    <3>5. InTime' /\ RunsOnce'
      BY <1>1, <1>4, <2>2 DEF RunsInv, InTime, RunsOnce, Active, VisitSteps
    <3>6. HeldOK(x)'
      BY <2>2 DEF HeldOK
    <3>7. ASSUME NEW y \in Visits \ {x} PROVE HeldOK(y)'
      <4>1. HeldOK(y) /\ visit'[y] = visit[y]
        BY <2>2 DEF RunsInv, RowsHeld
      <4>2. visit[y].at \in {"budget", "write"} =>
              \A z \in Visits \ {y} : by[z] = by[y] => visit'[z].at \notin {"budget", "write"}
        BY <2>2, <4>1 DEF HeldOK
      <4>3. QED
        BY <1>4, <3>2, <4>1, <4>2 DEF HeldOK, RowsOf
    <3>8. QED
      BY <3>4, <3>5, <3>6, <3>7 DEF RunsInv, RowsHeld
  <2>4. CASE s \in sandbox
    <3> DEFINE u == [w EXCEPT !.tenant = s.tenant]
    <3>1. u \in Sandboxes
      BY <1>0, <1>5, <1>7, RenewedRow DEF Sandboxes
    <3>2. s = [visitor |-> s.visitor, tenant |-> s.tenant, started |-> s.started, runs |-> s.runs,
               expires |-> s.expires]
      BY <1>5 DEF Sandboxes
    <3>3. /\ u.visitor = s.visitor /\ u.started = w.started /\ u.expires = visit[x].now + Ttl
          /\ s.started + Hour <= visit[x].now => u.started = visit[x].now /\ u.runs = 1
          /\ ~(s.started + Hour <= visit[x].now) => u.started = s.started /\ u.runs = s.runs + 1
      <4>1. CASE s.started + Hour <= visit[x].now
        <5>1. w = [visitor |-> s.visitor, tenant |-> s.tenant, started |-> visit[x].now, runs |-> 1,
                   expires |-> visit[x].now + Ttl]
          BY <3>2, <4>1 DEF Renewed
        <5> HIDE DEF w
        <5>2. QED
          BY <4>1, <5>1
      <4>2. CASE ~(s.started + Hour <= visit[x].now)
        <5>1. w = [visitor |-> s.visitor, tenant |-> s.tenant, started |-> s.started,
                   runs |-> s.runs + 1, expires |-> visit[x].now + Ttl]
          BY <3>2, <4>2 DEF Renewed
        <5> HIDE DEF w
        <5>2. QED
          BY <4>2, <5>1
      <4>3. QED
        BY <4>1, <4>2
    <3>4. sandbox' = {r \in sandbox : r.visitor # by[x]} \cup {u}
      <4>1. \A r \in sandbox : r.visitor = by[x] <=> r = s
        BY <1>3 DEF RowsOf
      <4>2. New(s) = u /\ \A r \in sandbox : r # s => New(r) = r
        BY <1>3, <4>1
      <4> HIDE DEF u, New
      <4>3. QED
        BY <2>1, <2>4, <4>1, <4>2
    <3> HIDE DEF u, w
    <3>5. /\ s.started <= clock
          /\ Cardinality(RunsOf(by[x], s.started)) <= s.runs
          /\ \A h \in 0 .. MaxClock : RunsOf(by[x], h) # {} => h <= s.started
      BY <1>3, <2>4 DEF RunsInv, RowsCount
    <3>6. /\ u.started <= clock /\ u.started < u.expires
          /\ Cardinality(RunsOf(by[x], u.started)) + 1 <= u.runs
          /\ \A h \in 0 .. MaxClock : RunsOf(by[x], h) # {} => h <= u.started
      <4>1. CASE s.started + Hour <= visit[x].now
        <5>1. u.started = visit[x].now /\ u.runs = 1 /\ s.started < visit[x].now
          BY <1>0, <1>5, <3>3, <4>1
        <5>2. RunsOf(by[x], u.started) = {}
          BY <1>0, <1>5, <3>5, <5>1
        <5>3. Cardinality(RunsOf(by[x], u.started)) + 1 <= u.runs
          BY <5>1, <5>2, FS_EmptySet
        <5>4. \A h \in 0 .. MaxClock : RunsOf(by[x], h) # {} => h <= u.started
          BY <1>0, <1>5, <3>5, <5>1
        <5>5. u.started <= clock /\ u.started < u.expires
          BY <1>0, <1>1, <1>5, <3>3, <5>1
        <5>6. QED
          BY <5>3, <5>4, <5>5
      <4>2. CASE ~(s.started + Hour <= visit[x].now)
        <5>1. u.started = s.started /\ u.runs = s.runs + 1 /\ u.expires = visit[x].now + Ttl
          BY <3>3, <4>2
        <5>2. u.started < u.expires
          BY <1>0, <1>1, <1>5, <3>5, <5>1
        <5>3. Cardinality(RunsOf(by[x], s.started)) \in Nat
          BY <1>1, <1>5, FS_CardinalityType DEF RunsInv, WindowsCount
        <5>4. QED
          BY <1>5, <3>5, <5>1, <5>2, <5>3
      <4>3. QED
        BY <4>1, <4>2
    <3>7. u.visitor = by[x] /\ visit'[x].granted = {u.started}
      BY <1>3, <2>2, <3>3
    <3>8. QED
      BY <1>1, <1>4, <2>2, <3>1, <3>4, <3>6, <3>7, RunStarts
  <2>5. QED
    BY <2>3, <2>4
<1>8. QED
  BY <1>6, <1>7

\* Time passes: what has no row by now began earlier.
LEMMA TickKeepsRuns ==
  ASSUME SandboxTypeOK, RunsInv, ClockTicks
  PROVE  RunsInv'
<1>1. /\ clock \in Nat /\ clock' = clock + 1 /\ UNCHANGED <<by, sandbox, visit, torn>>
      /\ sandbox \subseteq Sandboxes /\ MaxClock \in Nat
  BY SandboxTypes, SandboxAssumption DEF ClockTicks
<1>2. \A v : \A h : RunsOf(v, h)' = RunsOf(v, h)
  BY <1>1 DEF RunsOf
<1>3. InTime'
  BY <1>1, SandboxTypes DEF ClockTicks, InTime, Active
<1>4. RowsCount'
  <2>1. \A s \in sandbox : s.started \in Nat
    BY <1>1 DEF Sandboxes
  <2>2. \A s \in sandbox : s.started <= clock => s.started <= clock'
    BY <1>1, <2>1
  <2>3. QED
    BY <1>1, <1>2, <2>2 DEF RunsInv, RowsCount
<1>5. WindowsCount'
  <2>1. \A h \in 0 .. MaxClock : h < clock => h < clock'
    BY <1>1
  <2>2. \A v \in Visitors : RowsOf(v)' = RowsOf(v)
    BY <1>1 DEF RowsOf
  <2>3. QED
    BY <1>1, <1>2, <2>1, <2>2 DEF RunsInv, WindowsCount
<1>6. RunsOnce' /\ RowsHeld'
  BY <1>1 DEF RunsInv, RunsOnce, RowsHeld, HeldOK, RowsOf
<1>7. QED
  BY <1>3, <1>4, <1>5, <1>6 DEF RunsInv

\* In one window a visitor has no more runs than he may, whatever calls and purges overlap,
\* but for those in a sandbox that a purge took from the call (demo.py:95-188).
THEOREM VisitorsLimited == SandboxSpec => []VisitorLimitKept
<1> DEFINE Inv == SandboxTypeOK /\ PublicInside /\ RunsInv
<1>1. SandboxInit => Inv
  <2> SUFFICES ASSUME SandboxInit PROVE RunsInv
    BY SandboxTypeInit
  <2>1. /\ sandbox = {} /\ clock = 0 /\ MaxRuns \in Nat
        /\ \A x \in Visits : visit[x].at = "new" /\ visit[x].granted = {}
    BY SandboxAssumption DEF SandboxInit
  <2>2. \A v, h : RunsOf(v, h) = {}
    BY <2>1 DEF RunsOf
  <2>3. InTime /\ RunsOnce /\ RowsCount /\ RowsHeld
    BY <2>1 DEF InTime, RunsOnce, RowsCount, RowsHeld, HeldOK, Active
  <2>4. WindowsCount
    <3>1. IsFiniteSet({}) /\ Cardinality({}) = 0 /\ 0 <= MaxRuns
      BY <2>1, FS_EmptySet
    <3>2. QED
      BY <2>2, <3>1 DEF WindowsCount
  <2>5. QED
    BY <2>3, <2>4 DEF RunsInv
<1>2. Inv /\ [SandboxNext]_sandboxVars => Inv'
  <2> SUFFICES ASSUME Inv, [SandboxNext]_sandboxVars PROVE RunsInv'
    BY SandboxTypeStep
  <2>1. ASSUME NEW x \in Visits, Steps(x) PROVE RunsInv'
    BY <2>1, QuietVisit, PurgeKeepsRuns, CreateKeepsRuns, RenewKeepsRuns DEF Steps
  <2>2. CASE ClockTicks
    BY <2>2, TickKeepsRuns
  <2>3. CASE UNCHANGED sandboxVars
    <3>1. UNCHANGED <<by, clock, sandbox, visit, torn>>
      BY <2>3 DEF sandboxVars
    <3>2. RowsCount' /\ WindowsCount'
      BY <3>1 DEF RunsInv, RowsCount, WindowsCount, RowsOf, RunsOf
    <3>3. InTime' /\ RunsOnce' /\ RowsHeld'
      BY <3>1 DEF RunsInv, InTime, RunsOnce, RowsHeld, HeldOK, RowsOf
    <3>4. QED
      BY <3>2, <3>3 DEF RunsInv
  <2>4. QED
    BY <2>1, <2>2, <2>3 DEF SandboxNext, Steps
<1>3. Inv => VisitorLimitKept
  BY DEF RunsInv, WindowsCount, RunsOf, VisitorLimitKept
<1>4. QED
  BY <1>1, <1>2, <1>3, PTL DEF SandboxSpec

===============================================================================
