------------------------------- MODULE Sandbox -------------------------------
(***************************************************************************)
(* The demo: tenants that hold a staged incident.  A customer has one for  *)
(* good; an anonymous visitor has one that is reclaimed once it was not    *)
(* used for a time.  Runs of the demo are calls of POST /v1/demo/run and   *)
(* POST /v1/demo/public/run; time is counted in parts of an hour.          *)
(***************************************************************************)
EXTENDS Naturals, FiniteSets

CONSTANTS
  Visitors,      \* visitor_ref
  Customers,     \* owner_tenant_id
  Visits,        \* calls; a tenant is named by the call that creates it
  Mixes,         \* who may make the calls, in one behaviour: functions of Visits
  MaxRuns,       \* public_demo_max_runs_per_hour
  MaxRunsGlobal, \* public_demo_max_runs_per_hour_global
  MaxLive,       \* public_demo_max_live_tenants
  Hour,          \* an hour, in the unit of the clock
  Ttl,           \* public_demo_ttl_hours
  MaxClock        \* bound

VARIABLES
  by,         \* by[x]: the visitor or customer that makes the call
  clock,
  sandbox,    \* public_demo_tenants: [visitor, tenant, started, runs, expires]
  owned,      \* demo_tenants: <<customer, tenant>>
  data,       \* tenants with rows in the tables that are reclaimed
  shared,     \* tenants with a shared replay
  visit,
  torn        \* history: tenants that were reclaimed while a call used them

sandboxVars == <<by, clock, sandbox, owned, data, shared, visit, torn>>

Sandboxes ==
  [visitor : Visitors, tenant : Visits, started : 0 .. MaxClock, runs : 1 .. MaxRuns,
   expires : 0 .. MaxClock + Ttl]

ASSUME SandboxAssumption ==
  /\ Mixes \subseteq [Visits -> Visitors \cup Customers] /\ Visitors \cap Customers = {}
  /\ MaxRuns \in Nat \ {0}
  /\ Hour \in Nat \ {0, 1}         \* a call takes less than an hour
  /\ Ttl \in Nat /\ Ttl >= Hour
  /\ {MaxRunsGlobal, MaxLive, MaxClock} \subseteq Nat

SandboxTypeOK ==
  /\ by \in Mixes
  /\ clock \in 0 .. MaxClock
  /\ sandbox \subseteq Sandboxes
  /\ owned \subseteq Customers \X Visits
  /\ data \subseteq Visits /\ shared \subseteq Visits /\ torn \subseteq Visits
  /\ visit \in [Visits -> [at : {"new", "purge", "reclaim", "enter", "budget", "write", "seed",
                                 "record", "share", "done", "refused", "failed"},
                           now : 0 .. MaxClock, rows : SUBSET Sandboxes,
                           tenant : SUBSET Visits, granted : SUBSET (0 .. MaxClock)]]

-----------------------------------------------------------------------------
VisitAt(x, a) == visit[x].at = a

Public(x) == by[x] \in Visitors

RowsOf(v) == {s \in sandbox : s.visitor = v}

TenantsOf(rows) == {s.tenant : s \in rows}

\* A row that a purge has selected for update and not yet deleted.
Locked(s) == \E y \in Visits : VisitAt(y, "reclaim") /\ s \in visit[y].rows

Visit(x) ==
  /\ VisitAt(x, "new")
  /\ visit' = [visit EXCEPT ![x].at = IF Public(x) THEN "purge" ELSE "enter", ![x].now = clock]
  /\ UNCHANGED <<by, clock, sandbox, owned, data, shared, torn>>

\* SELECT ... FOR UPDATE SKIP LOCKED of what has expired.
PurgeSelects(x) ==
  /\ VisitAt(x, "purge")
  /\ visit' = [visit EXCEPT ![x].at = "reclaim",
                            ![x].rows = {s \in sandbox : s.expires <= visit[x].now /\ ~Locked(s)}]
  /\ UNCHANGED <<by, clock, sandbox, owned, data, shared, torn>>

InUse(t) == \E y \in Visits : t \in visit[y].tenant /\ visit[y].at \in {"budget", "write", "seed", "record", "share"}

\* The row goes, and what it points at stays.
Reclaimed_Row(rows) == {}

Reclaimed(rows) == TenantsOf(rows)

purge_expired_public_demos(x) ==
  /\ VisitAt(x, "reclaim")
  /\ sandbox' = sandbox \ visit[x].rows
  /\ data' = data \ Reclaimed(visit[x].rows) /\ shared' = shared \ Reclaimed(visit[x].rows)
  /\ torn' = torn \cup {t \in TenantsOf(visit[x].rows) : InUse(t)}
  /\ visit' = [visit EXCEPT ![x].at = "enter", ![x].rows = {}]
  /\ UNCHANGED <<by, clock, owned>>

\* No two calls are told apart.
VisitorSerialized_Not(x) == TRUE

\* pg_advisory_xact_lock, one for each visitor.
VisitorSerialized(x) == \A y \in Visits \ {x} : by[y] = by[x] => visit[y].at \notin {"budget", "write"}

EnterSandbox(x) ==
  /\ VisitAt(x, "enter") /\ Public(x) /\ VisitorSerialized(x)
  /\ visit' = [visit EXCEPT ![x].at = "budget", ![x].rows = RowsOf(by[x]),
                            ![x].tenant = TenantsOf(RowsOf(by[x]))]
  /\ UNCHANGED <<by, clock, sandbox, owned, data, shared, torn>>

RunsIn(S) == Cardinality({r \in S \X (1 .. MaxRuns) : r[2] <= r[1].runs})

\* Both are read without a lock: of what other visitors do at the same time, nothing is seen.
_public_demo_budget(x) ==
  /\ VisitAt(x, "budget")
  /\ LET recent == {s \in sandbox : s.started + Hour > visit[x].now}
         over   == \/ RunsIn(recent) >= MaxRunsGlobal
                   \/ visit[x].rows = {} /\ Cardinality(sandbox) >= MaxLive
     IN  visit' = [visit EXCEPT ![x].at = IF over THEN "refused" ELSE "write"]
  /\ UNCHANGED <<by, clock, sandbox, owned, data, shared, torn>>

CreateSandbox(x) ==
  /\ VisitAt(x, "write") /\ visit[x].rows = {}
  /\ IF RowsOf(by[x]) # {}
     THEN visit' = [visit EXCEPT ![x].at = "failed"] /\ UNCHANGED sandbox
     ELSE /\ sandbox' = sandbox \cup {[visitor |-> by[x], tenant |-> x, started |-> clock, runs |-> 1,
                                       expires |-> visit[x].now + Ttl]}
          /\ visit' = [visit EXCEPT ![x].at = "seed", ![x].tenant = {x}, ![x].granted = {clock}]
  /\ UNCHANGED <<by, clock, owned, data, shared, torn>>

\* The row as the UPDATE writes it: a new window, or one more run in the window it has.
Renewed(s, now) ==
  IF s.started + Hour <= now
  THEN [s EXCEPT !.started = now, !.runs = 1, !.expires = now + Ttl]
  ELSE [s EXCEPT !.runs = @ + 1, !.expires = now + Ttl]

\* The UPDATE names the visitor, and waits for a purge that has the row; it may find none.
RenewSandbox(x) ==
  /\ VisitAt(x, "write")
  /\ \E s \in visit[x].rows :
       IF s.started + Hour > visit[x].now /\ s.runs >= MaxRuns
       THEN visit' = [visit EXCEPT ![x].at = "refused", ![x].rows = {}] /\ UNCHANGED sandbox
       ELSE /\ ~\E r \in RowsOf(by[x]) : Locked(r)
            /\ sandbox' = {IF r.visitor = by[x] THEN [Renewed(s, visit[x].now) EXCEPT !.tenant = r.tenant]
                           ELSE r : r \in sandbox}
            /\ visit' = [visit EXCEPT ![x].at = "seed", ![x].rows = {},
                                      ![x].granted = {Renewed(s, visit[x].now).started}]
  /\ UNCHANGED <<by, clock, owned, data, shared, torn>>

\* A customer's own: one transaction under the lock of the customer.
_demo_tenant(x) ==
  /\ VisitAt(x, "enter") /\ ~Public(x)
  /\ LET mine == {o[2] : o \in {p \in owned : p[1] = by[x]}}
     IN  /\ owned' = IF mine = {} THEN owned \cup {<<by[x], x>>} ELSE owned
         /\ visit' = [visit EXCEPT ![x].at = "seed", ![x].tenant = IF mine = {} THEN {x} ELSE mine]
  /\ UNCHANGED <<by, clock, sandbox, data, shared, torn>>

_seed_graph(x) ==
  /\ VisitAt(x, "seed")
  /\ data' = data \cup visit[x].tenant
  /\ visit' = [visit EXCEPT ![x].at = "record"]
  /\ UNCHANGED <<by, clock, sandbox, owned, shared, torn>>

\* The staged event is ingested and evaluated: heads, meters and alerts of the tenant.
_run_for_tenant(x) ==
  /\ VisitAt(x, "record")
  /\ data' = data \cup visit[x].tenant
  /\ visit' = [visit EXCEPT ![x].at = IF Public(x) THEN "share" ELSE "done"]
  /\ UNCHANGED <<by, clock, sandbox, owned, shared, torn>>

ShareReplay(x) ==
  /\ VisitAt(x, "share")
  /\ shared' = shared \cup visit[x].tenant
  /\ visit' = [visit EXCEPT ![x].at = "done"]
  /\ UNCHANGED <<by, clock, sandbox, owned, data, torn>>

\* The store or the process fails; an open transaction leaves nothing.
VisitFails(x) ==
  /\ visit[x].at \in {"purge", "reclaim", "enter", "budget", "write", "seed", "record", "share"}
  /\ visit' = [visit EXCEPT ![x].at = "failed", ![x].rows = {}]
  /\ UNCHANGED <<by, clock, sandbox, owned, data, shared, torn>>

\* A call takes less than two units of the clock.
ClockTicks ==
  /\ clock < MaxClock /\ clock' = clock + 1
  /\ \A x \in Visits : visit[x].at \in {"new", "done", "refused", "failed"} \/ visit[x].now = clock
  /\ UNCHANGED <<by, sandbox, owned, data, shared, visit, torn>>

SandboxInit ==
  /\ by \in Mixes
  /\ clock = 0 /\ sandbox = {} /\ owned = {} /\ data = {} /\ shared = {} /\ torn = {}
  /\ visit = [x \in Visits |-> [at |-> "new", now |-> 0, rows |-> {}, tenant |-> {}, granted |-> {}]]

SandboxNext ==
  \/ \E x \in Visits :
       \/ Visit(x) \/ PurgeSelects(x) \/ purge_expired_public_demos(x) \/ EnterSandbox(x)
       \/ _public_demo_budget(x) \/ CreateSandbox(x) \/ RenewSandbox(x) \/ _demo_tenant(x)
       \/ _seed_graph(x) \/ _run_for_tenant(x) \/ ShareReplay(x) \/ VisitFails(x)
  \/ ClockTicks

SandboxSpec == SandboxInit /\ [][SandboxNext]_sandboxVars

-----------------------------------------------------------------------------
(* Properties. *)

\* In one window of an hour a visitor has no more runs than he may, however many of his
\* calls come at once; only a run in a sandbox that was reclaimed under the call is not
\* counted (demo.py:95-188).
VisitorLimitKept ==
  \A v \in Visitors, h \in 0 .. MaxClock :
    Cardinality({x \in Visits : by[x] = v /\ h \in visit[x].granted /\ visit[x].tenant \cap torn = {}})
      <= MaxRuns

\* What a sandbox holds can be reclaimed, because a row points at it, unless it was
\* reclaimed under a call that still used it (demo.py:95-114).
NothingStranded == data \cup shared \subseteq TenantsOf(sandbox) \cup {o[2] : o \in owned} \cup torn
===============================================================================
