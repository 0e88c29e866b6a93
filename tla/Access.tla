-------------------------------- MODULE Access --------------------------------
(***************************************************************************)
(* The life of a request at the API: the counters of the rate limit in     *)
(* Redis, the token that says who calls and what he may do, and the        *)
(* handlers that write the tables about who owns what: tenants and their   *)
(* members, tokens, and the accounts that tenants have connected.          *)
(***************************************************************************)
EXTENDS Naturals, FiniteSets

CONSTANTS
  Requests,        \* requests; a bootstrap names the tenant that it creates
  Tenants,         \* the tenants there are at first
  Tokens,          \* read tokens
  Accounts,        \* provider accounts, as project ids
  Issued,          \* Issued[t]: [tenant, role] of a token that is there at first
  OperatorKey,     \* the admin key
  Nobody,
  Ask,             \* Ask[r]: [op, by, tenant, user, account, token, role, costly]
  GlobalLimit, CostlyLimit, CallerLimit, \* 0: no limit
  MaxWindow,       \* bound: windows of the clock
  AtOnce           \* bound: requests that are made in one behaviour

VARIABLES
  window,      \* time, in windows of the rate limit
  count,       \* counters in Redis: [scope, by, window] -> number
  token,       \* token[t]: a row of read_tokens, or none
  member,      \* tenant_members: <<user, tenant>>
  connected,   \* integration_connections with status connected: <<tenant, account>>
  scans,       \* scan jobs queued for a connection
  audit,       \* actions on tokens that were chained
  req          \* req[r]: a request

accessVars == <<window, count, token, member, connected, scans, audit, req>>

Ops == {"bootstrap", "connect", "mint", "revoke", "read"}

Roles == {"viewer", "responder", "auditor", "admin"}

Callers == Tokens \cup {OperatorKey}

Scopes == {"global", "costly", "caller"}

Minted == {Ask[r].token : r \in {q \in Requests : Ask[q].op = "mint"}}

Users == {Ask[r].user : r \in Requests}

ASSUME AccessAssumption ==
  /\ Tokens \cap {OperatorKey} = {} /\ Tenants \cap Requests = {}
  /\ Nobody \notin Tenants \cup Requests \cup Tokens
  /\ \A r \in Requests : /\ Ask[r].op \in Ops /\ Ask[r].by \in Callers
                         /\ Ask[r].tenant \in Tenants \cup {Nobody}
                         /\ Ask[r].account \in Accounts \cup {Nobody}
                         /\ Ask[r].token \in Tokens \cup {Nobody}
                         /\ Ask[r].role \in Roles /\ Ask[r].costly \in BOOLEAN
  /\ \A t \in Tokens : Issued[t].tenant \in Tenants /\ Issued[t].role \in Roles
  /\ {GlobalLimit, CostlyLimit, CallerLimit, MaxWindow, AtOnce} \subseteq Nat

AccessTypeOK ==
  /\ window \in 0 .. MaxWindow
  /\ count \in [Scopes \X Callers -> [0 .. MaxWindow -> 0 .. Cardinality(Requests)]]
  /\ token \in [Tokens -> [state : {"none", "valid", "revoked"}, tenant : Tenants, role : Roles]]
  /\ member \subseteq Users \X Requests
  /\ connected \subseteq Tenants \X Accounts
  /\ scans \subseteq Tenants \X Accounts
  /\ audit \subseteq {"issued", "revoked"} \X Tokens
  /\ req \in [Requests -> [at : {"none", "new"} \cup Scopes \cup
                                {"auth", "handle", "insert", "follow", "done", "refused", "failed"},
                           window : 0 .. MaxWindow, counted : BOOLEAN,
                           answer : Tenants \cup Requests \cup {Nobody}]]

-----------------------------------------------------------------------------
(* The rate limit. *)

RequestAt(r, a) == req[r].at = a

RequestGoes(r, a) == req' = [req EXCEPT ![r].at = a]

\* The window of a request is that of the clock of its process when it arrives.
Arrive(r) ==
  /\ RequestAt(r, "new")
  /\ req' = [req EXCEPT ![r].at = "global", ![r].window = window]
  /\ UNCHANGED <<window, count, token, member, connected, scans, audit>>

LimitOf(scope) ==
  CASE scope = "global" -> GlobalLimit [] scope = "costly" -> CostlyLimit
    [] scope = "caller" -> CallerLimit

\* caller_identity: one counter for all, or one for each credential.
ChargedTo(r, scope) == IF scope = "global" THEN OperatorKey ELSE Ask[r].by

AfterScope(r, scope) ==
  CASE scope = "global" -> (IF Ask[r].costly THEN "costly" ELSE "caller")
    [] scope = "costly" -> "caller" [] scope = "caller" -> "auth"

\* The number before this request is compared.
_over_limit_Before(n, limit) == n - 1 > limit

\* n is what INCR has answered.
_over_limit(n, limit) == n > limit

\* check: one counter after the other; what was counted before a refusal stays counted.
Count(r) ==
  \E scope \in Scopes :
    LET key  == <<scope, ChargedTo(r, scope)>>
        n    == count[key][req[r].window] + 1
        over == LimitOf(scope) > 0 /\ _over_limit(n, LimitOf(scope))
    IN  /\ RequestAt(r, scope)
        /\ IF LimitOf(scope) = 0 THEN UNCHANGED count
           ELSE count' = [count EXCEPT ![key][req[r].window] = n]
        /\ req' = [req EXCEPT ![r].at = IF over THEN "refused" ELSE AfterScope(r, scope),
                              ![r].counted = scope = "caller" /\ ~over /\ req[r].window = window]
        /\ UNCHANGED <<window, token, member, connected, scans, audit>>

\* Redis cannot be reached: the request is let in.
LimiterFails(r) ==
  /\ req[r].at \in Scopes /\ RequestGoes(r, "auth")
  /\ UNCHANGED <<window, count, token, member, connected, scans, audit>>

\* EXPIRE: a counter goes a window after it was first used, so never within its window.
CounterExpires(key, w) ==
  /\ w < window /\ count[key][w] > 0
  /\ count' = [count EXCEPT ![key][w] = 0]
  /\ UNCHANGED <<window, token, member, connected, scans, audit, req>>

NextWindow ==
  /\ window < MaxWindow /\ window' = window + 1
  /\ UNCHANGED <<count, token, member, connected, scans, audit, req>>

-----------------------------------------------------------------------------
(* Who calls, and what he may do. *)

ROLE_CAPABILITIES ==
  [viewer |-> {"read"}, responder |-> {"read", "revoke", "triage"},
   auditor |-> {"read", "export_evidence"},
   admin |-> {"read", "export_evidence", "revoke", "triage", "configure"}]

Needed(r) == IF Ask[r].op = "read" THEN "read" ELSE "configure"

\* A revoked token is nobody; the operator key is an admin of no tenant.
resolve_principal(by) ==
  IF by = OperatorKey THEN {[role |-> "admin", tenant |-> Nobody]}
  ELSE IF token[by].state = "valid" THEN {[role |-> token[by].role, tenant |-> token[by].tenant]}
  ELSE {}

scoped_to(p, tenant) == p.tenant = Nobody \/ p.tenant = tenant

\* A bound principal acts on its own tenant; a route without a tenant asks for no more
\* than the capability.
Authenticate(r) ==
  /\ RequestAt(r, "auth")
  /\ RequestGoes(r, IF \E p \in resolve_principal(Ask[r].by) :
                /\ Needed(r) \in ROLE_CAPABILITIES[p.role]
                /\ Ask[r].tenant # Nobody => scoped_to(p, Ask[r].tenant)
           THEN "handle" ELSE "refused")
  /\ UNCHANGED <<window, count, token, member, connected, scans, audit>>

-----------------------------------------------------------------------------
(* Handlers.  A request that has been let in goes on, whatever becomes of its token. *)

Handles(r, op) == RequestAt(r, "handle") /\ Ask[r].op = op

Answer(r) ==
  /\ Handles(r, "read") /\ RequestGoes(r, "done")
  /\ UNCHANGED <<window, count, token, member, connected, scans, audit>>

create_read_token(r) ==
  LET t == Ask[r].token
  IN  /\ Handles(r, "mint") /\ token[t].state = "none"
      /\ token' = [token EXCEPT ![t] = [state |-> "valid", tenant |-> Ask[r].tenant, role |-> Ask[r].role]]
      /\ RequestGoes(r, "follow")
      /\ UNCHANGED <<window, count, member, connected, scans, audit>>

\* One UPDATE of a token of this tenant that is valid; otherwise 404.
revoke_read_token(r) ==
  LET t == Ask[r].token
  IN  /\ Handles(r, "revoke")
      /\ IF token[t].state = "valid" /\ token[t].tenant = Ask[r].tenant
         THEN token' = [token EXCEPT ![t].state = "revoked"] /\ RequestGoes(r, "follow")
         ELSE RequestGoes(r, "refused") /\ UNCHANGED token
      /\ UNCHANGED <<window, count, member, connected, scans, audit>>

\* record_admin_action: chained after the change, or not.
ChainAction(r) ==
  /\ RequestAt(r, "follow") /\ Ask[r].op \in {"mint", "revoke"}
  /\ \/ audit' = audit \cup {<<IF Ask[r].op = "mint" THEN "issued" ELSE "revoked", Ask[r].token>>}
     \/ UNCHANGED audit
  /\ RequestGoes(r, "done")
  /\ UNCHANGED <<window, count, token, member, connected, scans>>

\* Nothing is locked.
UserSerialized_Not(r) == TRUE

\* pg_advisory_xact_lock of the user.
UserSerialized(r) ==
  \A q \in Requests \ {r} :
    ~(Ask[q].op = "bootstrap" /\ RequestAt(q, "insert") /\ Ask[q].user = Ask[r].user)

TenantOfUser(u) == {m[2] : m \in {n \in member : n[1] = u}}

\* The lock, and the tenant that the user has already.
BootstrapReads(r) ==
  /\ Handles(r, "bootstrap") /\ UserSerialized(r)
  /\ IF TenantOfUser(Ask[r].user) = {} THEN RequestGoes(r, "insert")
     ELSE req' = [req EXCEPT ![r].at = "done", ![r].answer = CHOOSE t \in TenantOfUser(Ask[r].user) : TRUE]
  /\ UNCHANGED <<window, count, token, member, connected, scans, audit>>

\* The tenant, its member and its two tokens, in one commit; a user is a member once.
BootstrapCommits(r) ==
  /\ RequestAt(r, "insert") /\ Ask[r].op = "bootstrap"
  /\ IF TenantOfUser(Ask[r].user) = {}
     THEN /\ member' = member \cup {<<Ask[r].user, r>>}
          /\ req' = [req EXCEPT ![r].at = "done", ![r].answer = r]
     ELSE RequestGoes(r, "failed") /\ UNCHANGED member
  /\ UNCHANGED <<window, count, token, connected, scans, audit>>

OwnersOf(a) == {t \in Tenants : <<t, a>> \in connected}

\* gcp_connect: 409 if another tenant has connected the project.
ConnectReads(r) ==
  /\ Handles(r, "connect")
  /\ RequestGoes(r, IF OwnersOf(Ask[r].account) \subseteq {Ask[r].tenant} THEN "insert" ELSE "refused")
  /\ UNCHANGED <<window, count, token, member, connected, scans, audit>>

\* UNIQUE (tenant_id, provider, external_id): once for each tenant.
AccountFree_ForTenant(a, t) == TRUE

\* integration_connections_account_once: the account is connected to one tenant at most.
AccountFree(a, t) == OwnersOf(a) \subseteq {t}

ConnectCommits(r) ==
  /\ RequestAt(r, "insert") /\ Ask[r].op = "connect"
  /\ IF AccountFree(Ask[r].account, Ask[r].tenant)
     THEN connected' = connected \cup {<<Ask[r].tenant, Ask[r].account>>} /\ RequestGoes(r, "follow")
     ELSE RequestGoes(r, "failed") /\ UNCHANGED connected
  /\ UNCHANGED <<window, count, token, member, scans, audit>>

\* enqueue_gcp_scan, once the connection is committed.
QueueScan(r) ==
  /\ RequestAt(r, "follow") /\ Ask[r].op = "connect"
  /\ scans' = scans \cup {<<Ask[r].tenant, Ask[r].account>>} /\ RequestGoes(r, "done")
  /\ UNCHANGED <<window, count, token, member, connected, audit>>

\* The store, or the process, fails: what is not committed is gone.
RequestFails(r) ==
  /\ req[r].at \in {"handle", "insert", "follow"} /\ RequestGoes(r, "failed")
  /\ UNCHANGED <<window, count, token, member, connected, scans, audit>>

-----------------------------------------------------------------------------
AccessInit ==
  /\ window = 0
  /\ count = [k \in Scopes \X Callers |-> [w \in 0 .. MaxWindow |-> 0]]
  /\ token = [t \in Tokens |-> [state |-> IF t \in Minted THEN "none" ELSE "valid",
                               tenant |-> Issued[t].tenant, role |-> Issued[t].role]]
  /\ member = {} /\ connected = {} /\ scans = {} /\ audit = {}
  /\ \E Made \in {R \in SUBSET Requests : Cardinality(R) = AtOnce} :
       req = [r \in Requests |-> [at |-> IF r \in Made THEN "new" ELSE "none", window |-> 0, counted |-> FALSE,
                                   answer |-> Nobody]]

AccessNext ==
  \/ \E r \in Requests :
       \/ Arrive(r) \/ Count(r) \/ LimiterFails(r) \/ Authenticate(r)
       \/ Answer(r) \/ create_read_token(r) \/ revoke_read_token(r) \/ ChainAction(r)
       \/ BootstrapReads(r) \/ BootstrapCommits(r)
       \/ ConnectReads(r) \/ ConnectCommits(r) \/ QueueScan(r) \/ RequestFails(r)
  \/ NextWindow
  \/ \E key \in Scopes \X Callers, w \in 0 .. MaxWindow : CounterExpires(key, w)

AccessSpec == AccessInit /\ [][AccessNext]_accessVars

-----------------------------------------------------------------------------
(* Properties. *)

Admitted(w) == {r \in Requests : req[r].counted /\ req[r].window = w}

\* In no window are more requests let in than a limit allows, for one caller, for his
\* costly requests and for all callers together, however many are counted at once;
\* only a request that Redis did not count, or counted after its window had ended, is
\* beyond the limits (rate_limit.py:91-114).
LimitKept ==
  \A w \in 0 .. MaxWindow :
    /\ GlobalLimit > 0 => Cardinality(Admitted(w)) <= GlobalLimit
    /\ \A by \in Callers :
         LET own == {r \in Admitted(w) : Ask[r].by = by}
         IN  /\ CallerLimit > 0 => Cardinality(own) <= CallerLimit
             /\ CostlyLimit > 0 => Cardinality({r \in own : Ask[r].costly}) <= CostlyLimit

\* An account is connected to one tenant at most, and a scan of it is queued for that
\* tenant alone, although two tenants may look at once and find it free
\* (integrations.py:134-172, 0022_one_tenant_per_account.sql).
AccountOnce ==
  \A a \in Accounts :
    /\ Cardinality(OwnersOf(a)) <= 1
    /\ \A t \in Tenants : <<t, a>> \in scans => OwnersOf(a) = {t}

\* The calls that set up a user at the same time all answer with the one tenant he
\* is a member of, and none of them fails for another (onboarding.py:49-84).
OneTenantEach ==
  /\ \A m, n \in member : m[1] = n[1] => m = n
  /\ \A r \in {q \in Requests : Ask[q].op = "bootstrap"} :
       /\ RequestAt(r, "done") => TenantOfUser(Ask[r].user) = {req[r].answer}
       /\ RequestAt(r, "insert") => TenantOfUser(Ask[r].user) = {}
===============================================================================
