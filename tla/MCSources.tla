------------------------------- MODULE MCSources -------------------------------
(***************************************************************************)
(* Small instances of the scanner with revocation, the tap, the OTLP path  *)
(* and the rules.  The four share no state, so a behaviour of all of them  *)
(* is for each a behaviour of its own: one is chosen, and the others stay  *)
(* as they start.  A call revokes an AWS key beside a job and an upload,   *)
(* and a token beside two jobs; two jobs scan AWS without it.  Days pass in one turn of the rules and a scan ends in another:  *)
(* what a baseline is built from is never what a scan has found.           *)
(***************************************************************************)
EXTENDS Scan, Tap, Sessions, Detection

CONSTANTS
  c1, o1, j1, j2, u1,           \* scanner
  m1, m2, m3, m4, L1, L2, V1,   \* tap
  r1, r2, r3, a1, a2, Context,  \* OTLP
  b1, b2, b3, b4, b5, n1, n2, n3, D1, D2, Tool, t1, v1 \* rules

VARIABLE turn

\* Two scans, or one and an upload, whichever of the jobs it is.
MCCasts == {ScanJobs} \cup {{j, u1} : j \in ScanJobs}

\* Nothing tells one job from the other.
JobsAlike == Permutations(ScanJobs)

MCOwnerOf == [c \in Creds |-> o1]

MCUsed == [c \in Creds |-> "cold"]

\* An administrator of everything, and the writer of one productive resource.
MCGrants ==
  {[access |-> "admin", wide |-> TRUE, everything |-> TRUE, prod |-> FALSE],
   [access |-> "write", wide |-> FALSE, everything |-> FALSE, prod |-> TRUE]}

Plain(from, id, kind) ==
  [from |-> from, id |-> id, kind |-> kind, list |-> NoneYet, exchange |-> NoneYet,
   retry |-> FALSE, version |-> NoneYet, refs |-> FALSE]

\* The client and the server number their first request alike; m3 retries the exchange
\* that m2 has opened, and lists other tools than m1; m4 is an array.
MCShape ==
  [m \in Messages |->
     CASE m = m1 -> [Plain("c2s", 1, "list") EXCEPT !.list = L1, !.version = V1, !.refs = TRUE]
       [] m = m2 -> [Plain("s2c", 1, "ask") EXCEPT !.exchange = L1]
       [] m = m3 -> [Plain("c2s", 2, "list") EXCEPT !.list = L2, !.exchange = L1, !.retry = TRUE]
       [] OTHER  -> Plain("c2s", 3, "junk")]

\* The messages that one session has; a remote server sends the proxy no requests.
MCScripts == IF transport = "http" THEN {{m1, m4}} ELSE {{m1, m2, m3}, {m2, m4}}

\* Of all the lines that two handlers and the tap make of two calls.
MCMaxLines == 6

\* r2 is a step of r1; it and r3, of another agent, belong to one A2A context.
MCParentOf == [r \in Runs |-> IF r = r2 THEN r1 ELSE NoRun]

MCAgentOf == [r \in Runs |-> IF r = r3 THEN a2 ELSE a1]

MCContextOf == [r \in Runs |-> IF r = r1 THEN NoRun ELSE Context]

Deed(session, credential, refs, listed) ==
  LET ids == {listed[t] : t \in DOMAIN listed}
  IN  [session |-> session, operation |-> "read", credential |-> credential, refs |-> refs \cup ids,
       hour |-> 1, inventory |-> IF ids = {} THEN NoInventory ELSE listed[Tool], tools |-> listed,
       captured |-> TRUE]

MCKindOf == t1 :> "table" @@ v1 :> "volume" @@ D1 :> "inventory" @@ D2 :> "inventory"

NoTools == [t \in {} |-> NoInventory]

Usual(session) == Deed(session, "key1", {t1}, NoTools)

\* Five sessions in eight days; then two that use a new credential, one of which lists a
\* tool and one of which acts at an unusual hour, and one that lists the tool again,
\* redefined, and deletes something productive.  With it the history names more resources
\* than a query returns.
MCAct ==
  b1 :> Usual(1) @@ b2 :> Usual(2) @@ b3 :> Usual(3) @@ b4 :> Usual(4) @@ b5 :> Usual(5)
  @@ n1 :> Deed(6, "key2", {t1}, Tool :> D1)
  @@ n2 :> [Deed(7, "key2", {t1}, NoTools) EXCEPT !.hour = 3]
  @@ n3 :> [Deed(5, "key1", {t1, v1}, Tool :> D2) EXCEPT !.operation = "delete", !.hour = 2]

MCPast ==
  [i \in 1 .. 5 |-> [act |-> CASE i = 1 -> b1 [] i = 2 -> b2 [] i = 3 -> b3 [] i = 4 -> b4
                              [] OTHER -> b5,
                     day |-> IF i = 1 THEN 1 ELSE 4 + i]]

MCOutcomes == {[flagged |-> FALSE, allowed |-> {t1}]}

-----------------------------------------------------------------------------
Turns == {"scan", "tap", "sessions", "rules", "graph", "jobs"}

SourcesInit ==
  /\ turn \in Turns
  /\ ScanInit /\ TapInit /\ SessionsInit /\ DetectionInit
  /\ turn = "scan" => (provider = "aws" <=> upload[u1].at = "new")
  /\ turn # "scan" => provider = "aws" /\ upload[u1].at = "over"
  /\ turn # "tap" => transport = "stdio"
  /\ ~graph.prod

SourcesNext ==
  /\ UNCHANGED turn
  /\ \/ /\ turn \in {"scan", "jobs"} /\ ScanNext
        /\ turn = "jobs" => UNCHANGED call
        /\ UNCHANGED <<tapVars, sessionsVars, detectionVars>>
     \/ /\ turn = "tap" /\ TapNext
        /\ \E script \in MCScripts : \A line \in passed' : line[1] \in script
        /\ Cardinality(passed') <= MCMaxLines
        /\ UNCHANGED <<scanVars, sessionsVars, detectionVars>>
     \/ turn = "sessions" /\ SessionsNext /\ UNCHANGED <<scanVars, tapVars, detectionVars>>
     \/ /\ turn \in {"rules", "graph"} /\ DetectionNext
        /\ turn = "rules" => UNCHANGED graph
        /\ turn = "graph" => UNCHANGED today
        /\ UNCHANGED <<scanVars, tapVars, sessionsVars>>

SourcesSpec == SourcesInit /\ [][SourcesNext]_<<turn, scanVars, tapVars, sessionsVars, detectionVars>>
===============================================================================
