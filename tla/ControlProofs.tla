---------------------------- MODULE ControlProofs -----------------------------
(*****************************************************************************)
(* The versions of a policy, for any number of names, bodies, processes      *)
(* and calls, and the master keys, for any number of keys, payloads,         *)
(* processes and jobs and any size of a batch.                               *)
(*****************************************************************************)
EXTENDS Policy, Keys, FiniteSetTheorems, NaturalsInduction, WellFoundedInduction, TLAPS

-----------------------------------------------------------------------------
(* The invariant. *)

PolicyShape ==
  /\ policies \subseteq [name : Names, version : Nat, body : Bodies, live : BOOLEAN]
  /\ write \in [Writes -> [at : {"new", "read", "update", "insert", "forget", "done", "refused", "failed"},
                           version : Nat, rows : SUBSET Nat]]

\* The versions of n are numbered without a gap up to k, the only one that is live.
Numbered(n, k) ==
  /\ VersionsOf(n) = 1 .. k
  /\ LiveOf(n) = IF k = 0 THEN {} ELSE {k}

AllNumbered == \A n \in Names : \E k \in Nat : Numbered(n, k)

RowsUnique == \A p, q \in policies : p.name = q.name /\ p.version = q.version => p = q

Writing(w) == write[w].at \in {"read", "update", "insert"}

\* The version a call will write is at most the next one.  If it still is the next, no
\* other call has written since it was read, so the rows the call has seen are live.
WriteFits ==
  \A w \in Writes, k \in Nat :
    Numbered(NameOf(w), k) =>
      /\ Writing(w) => write[w].version \in 1 .. k + 1
      /\ write[w].at \in {"update", "insert"} /\ write[w].version = k + 1
           => write[w].rows = LiveOf(NameOf(w))

VersionInv == PolicyShape /\ AllNumbered /\ RowsUnique /\ WriteFits

-----------------------------------------------------------------------------
\* The number of numbers below k is at most k.
LEMMA CountBelow ==
  ASSUME NEW k \in Nat, NEW N \in Nat, NEW V, V = 1 .. k
  PROVE  LET c == Cardinality({v \in 1 .. N : \E u \in V : v <= u})
         IN  c \in Nat /\ c <= k
<1> DEFINE S == {v \in 1 .. N : \E u \in V : v <= u}
<1>1. S \subseteq 1 .. k
  OBVIOUS
<1>2. IsFiniteSet(1 .. k) /\ Cardinality(1 .. k) = k
  BY FS_Interval
<1>3. QED
  BY <1>1, <1>2, FS_Subset, FS_CardinalityType

\* A name of a call is a name.
LEMMA NamesOfCalls == \A w \in Writes : NameOf(w) \in Names
BY PolicyAssumption DEF NameOf

\* A number of versions is determined.
LEMMA NumberUnique ==
  ASSUME NEW n, NEW k \in Nat, NEW m \in Nat, Numbered(n, k), Numbered(n, m)
  PROVE  k = m
<1>1. 1 .. k = 1 .. m
  BY DEF Numbered
<1>2. QED
  BY <1>1

\* Where neither policies nor what a call is about to write change, nothing is lost.
LEMMA VersionFrame ==
  ASSUME VersionInv, policies' = policies, PolicyShape',
         \A w \in Writes : write'[w].at \in {"read", "update", "insert"} => write'[w] = write[w]
  PROVE  VersionInv'
<1>1. \A n : VersionsOf(n)' = VersionsOf(n) /\ LiveOf(n)' = LiveOf(n)
  BY DEF VersionsOf, LiveOf
<1>2. \A n, k : Numbered(n, k)' <=> Numbered(n, k)
  BY <1>1 DEF Numbered
<1>3. AllNumbered' /\ RowsUnique'
  BY <1>2 DEF VersionInv, AllNumbered, RowsUnique
<1>4. WriteFits'
  BY <1>1, <1>2 DEF VersionInv, WriteFits, Writing, NameOf
<1>5. QED
  BY <1>3, <1>4 DEF VersionInv

\* Without any policy the invariant holds.
LEMMA InitVersion == PolicyInit => VersionInv
<1> SUFFICES ASSUME PolicyInit PROVE VersionInv
  OBVIOUS
<1>1. PolicyShape
  BY DEF PolicyInit, PolicyShape
<1>2. \A n : Numbered(n, 0)
  BY DEF PolicyInit, Numbered, VersionsOf, LiveOf
<1>3. AllNumbered /\ RowsUnique
  BY <1>2 DEF AllNumbered, RowsUnique, PolicyInit
<1>4. WriteFits
  BY DEF WriteFits, PolicyInit, Writing
<1>5. QED
  BY <1>1, <1>3, <1>4 DEF VersionInv

-----------------------------------------------------------------------------
(* Steps of a write. *)

\* What a call has read is the next version, or an earlier one.
LEMMA ReadVersionStep ==
  ASSUME VersionInv, NEW w \in Writes, ReadVersion(w)
  PROVE  VersionInv'
<1>0. PICK k \in Nat : Numbered(NameOf(w), k)
  BY NamesOfCalls DEF VersionInv, AllNumbered
<1> DEFINE c == Cardinality({v \in 1 .. Cardinality(Writes) : \E u \in VersionsOf(NameOf(w)) : v <= u})
<1>1. c \in Nat /\ c <= k
  <2>1. Cardinality(Writes) \in Nat
    BY FS_CardinalityType, PolicyAssumption
  <2>2. VersionsOf(NameOf(w)) = 1 .. k
    BY <1>0 DEF Numbered
  <2>3. QED
    BY <2>1, <2>2, CountBelow
<1> HIDE DEF c
<1>2. write' = [write EXCEPT ![w].at = "read", ![w].version = 1 + c]
  BY DEF ReadVersion, c
<1>3. policies' = policies
  BY DEF ReadVersion
<1>4. PolicyShape'
  <2>1. 1 + c \in Nat
    BY <1>1
  <2>2. QED
    BY <1>2, <1>3, <2>1 DEF VersionInv, PolicyShape
<1>5. \A n : VersionsOf(n)' = VersionsOf(n) /\ LiveOf(n)' = LiveOf(n)
  BY <1>3 DEF VersionsOf, LiveOf
<1>6. \A n, m : Numbered(n, m)' <=> Numbered(n, m)
  BY <1>5 DEF Numbered
<1>7. AllNumbered' /\ RowsUnique'
  BY <1>3, <1>6 DEF VersionInv, AllNumbered, RowsUnique
<1>8. WriteFits'
  <2> SUFFICES ASSUME NEW x \in Writes, NEW m \in Nat, Numbered(NameOf(x), m)
               PROVE  /\ Writing(x)' => write'[x].version \in 1 .. m + 1
                      /\ write'[x].at \in {"update", "insert"} /\ write'[x].version = m + 1
                           => write'[x].rows = LiveOf(NameOf(x))
    BY <1>5, <1>6 DEF WriteFits, NameOf
  <2>1. CASE x = w
    <3>1. write'[w].version = 1 + c /\ write'[w].at = "read"
      BY <1>2 DEF VersionInv, PolicyShape
    <3>2. m = k
      BY <1>0, <2>1, NumberUnique
    <3>3. QED
      BY <1>1, <2>1, <3>1, <3>2
  <2>2. CASE x # w
    <3>1. write'[x] = write[x]
      BY <1>2, <2>2 DEF VersionInv, PolicyShape
    <3>2. QED
      BY <3>1 DEF VersionInv, WriteFits, Writing
  <2>3. QED
    BY <2>1, <2>2
<1>9. QED
  BY <1>4, <1>7, <1>8 DEF VersionInv

\* The UPDATE sees the rows that are live, and locks those that still are.
LEMMA UpdateStep ==
  ASSUME VersionInv, NEW w \in Writes, UpdateBegins(w) \/ UpdateLocks(w)
  PROVE  VersionInv'
<1> DEFINE live == LiveOf(NameOf(w))
<1>1. policies' = policies
  BY DEF UpdateBegins, UpdateLocks
<1>2. live \subseteq Nat
  BY DEF LiveOf, VersionInv, PolicyShape
<1>3. /\ PolicyShape' /\ Writing(w) /\ write'[w].version = write[w].version
      /\ write'[w].rows = IF write[w].at = "read" THEN live ELSE write[w].rows \cap live
      /\ write[w].at \in {"read", "update"}
      /\ \A x \in Writes : x # w => write'[x] = write[x]
  <2>1. CASE UpdateBegins(w)
    BY <1>1, <1>2, <2>1 DEF VersionInv, PolicyShape, UpdateBegins, Writing
  <2>2. CASE UpdateLocks(w)
    BY <1>1, <1>2, <2>2 DEF VersionInv, PolicyShape, UpdateLocks, Writing
  <2>3. QED
    BY <2>1, <2>2
<1>4. \A n : VersionsOf(n)' = VersionsOf(n) /\ LiveOf(n)' = LiveOf(n)
  BY <1>1 DEF VersionsOf, LiveOf
<1>5. \A n, m : Numbered(n, m)' <=> Numbered(n, m)
  BY <1>4 DEF Numbered
<1>6. AllNumbered' /\ RowsUnique'
  BY <1>1, <1>5 DEF VersionInv, AllNumbered, RowsUnique
<1>7. WriteFits'
  <2> SUFFICES ASSUME NEW x \in Writes, NEW m \in Nat, Numbered(NameOf(x), m)
               PROVE  /\ Writing(x)' => write'[x].version \in 1 .. m + 1
                      /\ write'[x].at \in {"update", "insert"} /\ write'[x].version = m + 1
                           => write'[x].rows = LiveOf(NameOf(x))
    BY <1>4, <1>5 DEF WriteFits, NameOf
  <2>1. CASE x = w
    BY <1>3, <2>1 DEF VersionInv, WriteFits
  <2>2. CASE x # w
    BY <1>3, <2>2 DEF VersionInv, WriteFits, Writing
  <2>3. QED
    BY <2>1, <2>2
<1>8. QED
  BY <1>3, <1>6, <1>7 DEF VersionInv

\* The INSERT writes the next version, and leaves it as the only one that is live.
LEMMA InsertStep ==
  ASSUME VersionInv, NEW w \in Writes, InsertPolicy(w)
  PROVE  VersionInv'
<1> DEFINE name == NameOf(w)
           dropped(p) == p.name = name /\ p.version \in write[w].rows
           after(p) == IF dropped(p) THEN [p EXCEPT !.live = FALSE] ELSE p
<1>0. PICK k \in Nat : Numbered(name, k)
  BY NamesOfCalls DEF VersionInv, AllNumbered
<1>1. /\ policies \subseteq [name : Names, version : Nat, body : Bodies, live : BOOLEAN]
      /\ write[w].at = "insert" /\ write[w].version \in Nat /\ name \in Names
      /\ BodyOf[w][2] \in Bodies
  BY NamesOfCalls, PolicyAssumption DEF VersionInv, PolicyShape, InsertPolicy
<1>2. write[w].version = k + 1 /\ write[w].rows = LiveOf(name)
  <2>1. write[w].version \in 1 .. k + 1
    BY <1>0, <1>1 DEF VersionInv, WriteFits, Writing
  <2>2. write[w].version \notin 1 .. k
    BY <1>0 DEF InsertPolicy, Unique, Numbered
  <2>3. write[w].version = k + 1
    BY <1>0, <2>1, <2>2
  <2>4. QED
    BY <1>0, <1>1, <2>3 DEF VersionInv, WriteFits
<1>3. policies' = {after(p) : p \in policies} \cup {Written(w)}
  BY DEF InsertPolicy
<1>4. Written(w) = [name |-> name, version |-> k + 1, body |-> BodyOf[w][2], live |-> TRUE]
  BY <1>2 DEF Written
<1>5. \A p \in policies : /\ after(p).name = p.name /\ after(p).version = p.version
                          /\ after(p).live <=> p.live /\ ~dropped(p)
                          /\ after(p) \in [name : Names, version : Nat, body : Bodies, live : BOOLEAN]
  BY <1>1
<1> HIDE DEF after
<1>6. write' = [write EXCEPT ![w].at = "forget"]
  BY DEF InsertPolicy
<1>7. PolicyShape'
  <2>1. Written(w) \in [name : Names, version : Nat, body : Bodies, live : BOOLEAN]
    BY <1>0, <1>1, <1>4
  <2>2. policies' \subseteq [name : Names, version : Nat, body : Bodies, live : BOOLEAN]
    BY <1>3, <1>5, <2>1
  <2>3. QED
    BY <1>6, <2>2 DEF VersionInv, PolicyShape
<1>8. \A n : n # name => VersionsOf(n)' = VersionsOf(n) /\ LiveOf(n)' = LiveOf(n)
  <2> SUFFICES ASSUME NEW n, n # name
               PROVE  VersionsOf(n)' = VersionsOf(n) /\ LiveOf(n)' = LiveOf(n)
    OBVIOUS
  <2>1. VersionsOf(n)' = VersionsOf(n)
    BY <1>3, <1>4, <1>5 DEF VersionsOf
  <2>2. LiveOf(n)' = LiveOf(n)
    BY <1>3, <1>4, <1>5 DEF LiveOf
  <2>3. QED
    BY <2>1, <2>2
<1>9. VersionsOf(name)' = 1 .. k + 1
  <2>1. VersionsOf(name)' = VersionsOf(name) \cup {k + 1}
    BY <1>3, <1>4, <1>5 DEF VersionsOf
  <2>2. QED
    BY <1>0, <2>1 DEF Numbered
<1>10. LiveOf(name)' = {k + 1}
  <2>1. \A p \in policies : p.name = name /\ p.live => dropped(p)
    BY <1>2 DEF LiveOf
  <2>2. QED
    BY <1>3, <1>4, <1>5, <2>1 DEF LiveOf
<1>11. Numbered(name, k + 1)'
  BY <1>0, <1>9, <1>10 DEF Numbered
<1>12. AllNumbered'
  BY <1>0, <1>8, <1>11 DEF VersionInv, AllNumbered, Numbered
<1>13. RowsUnique'
  <2>1. \A p \in policies : p.name = name => p.version \in 1 .. k
    BY <1>0 DEF Numbered, VersionsOf
  <2>2. \A p, q \in policies : after(p).name = after(q).name /\ after(p).version = after(q).version => p = q
    BY <1>5 DEF VersionInv, RowsUnique
  <2>3. k + 1 \notin 1 .. k
    BY <1>0
  <2>4. \A p \in policies : ~(p.name = name /\ p.version = k + 1)
    BY <2>1, <2>3
  <2>5. SUFFICES ASSUME NEW p \in policies', NEW q \in policies', p.name = q.name, p.version = q.version
                 PROVE  p = q
    BY DEF RowsUnique
  <2>6. CASE p = Written(w) \/ q = Written(w)
    <3>1. \A o \in policies : ~(after(o).name = name /\ after(o).version = k + 1)
      BY <1>5, <2>4
    <3>2. \A o \in policies' : o = Written(w) \/ \E x \in policies : o = after(x)
      BY <1>3
    <3>3. Written(w).name = name /\ Written(w).version = k + 1
      BY <1>4
    <3>4. QED
      BY <2>5, <2>6, <3>1, <3>2, <3>3
  <2>7. CASE p # Written(w) /\ q # Written(w)
    BY <1>3, <2>2, <2>5, <2>7
  <2>8. QED
    BY <2>6, <2>7
<1>14. WriteFits'
  <2> SUFFICES ASSUME NEW x \in Writes, NEW m \in Nat, Numbered(NameOf(x), m)'
               PROVE  /\ Writing(x)' => write'[x].version \in 1 .. m + 1
                      /\ write'[x].at \in {"update", "insert"} /\ write'[x].version = m + 1
                           => write'[x].rows = LiveOf(NameOf(x))'
    BY DEF WriteFits, NameOf
  <2>1. CASE x = w
    BY <1>6, <2>1 DEF Writing, VersionInv, PolicyShape
  <2>2. CASE x # w /\ NameOf(x) = name
    <3>1. write'[x] = write[x]
      BY <1>6, <2>2 DEF VersionInv, PolicyShape
    <3>2. 1 .. m = 1 .. k + 1
      BY <1>9, <2>2 DEF Numbered
    <3>3. m = k + 1
      BY <1>0, <3>2
    <3>4. Writing(x) => write[x].version \in 1 .. k + 1
      BY <1>0, <2>2 DEF VersionInv, WriteFits
    <3>5. write[x].version \in Nat
      BY DEF VersionInv, PolicyShape
    <3>6. QED
      BY <1>0, <3>1, <3>3, <3>4, <3>5 DEF Writing
  <2>3. CASE x # w /\ NameOf(x) # name
    <3>1. write'[x] = write[x]
      BY <1>6, <2>3 DEF VersionInv, PolicyShape
    <3>2. Numbered(NameOf(x), m)
      BY <1>8, <2>3 DEF Numbered
    <3>3. QED
      BY <1>8, <2>3, <3>1, <3>2 DEF VersionInv, WriteFits, Writing
  <2>4. QED
    BY <2>1, <2>2, <2>3
<1>15. QED
  BY <1>7, <1>12, <1>13, <1>14 DEF VersionInv

-----------------------------------------------------------------------------
(* The theorem. *)

\* Every step keeps the invariant.
LEMMA VersionStep == VersionInv /\ [PolicyNext]_policyVars => VersionInv'
<1> SUFFICES ASSUME VersionInv, [PolicyNext]_policyVars PROVE VersionInv'
  OBVIOUS
<1>1. ASSUME NEW w \in Writes, RefuseWrite(w) \/ AbortWrite(w) \/ Forget(w)
      PROVE  VersionInv'
  <2>1. policies' = policies /\ PolicyShape'
    BY <1>1 DEF RefuseWrite, AbortWrite, Forget, VersionInv, PolicyShape
  <2>2. \A x \in Writes : write'[x].at \in {"read", "update", "insert"} => write'[x] = write[x]
    BY <1>1 DEF RefuseWrite, AbortWrite, Forget, VersionInv, PolicyShape
  <2>3. QED
    BY <2>1, <2>2, VersionFrame
<1>2. ASSUME NEW w \in Writes, ReadVersion(w)
      PROVE  VersionInv'
  BY <1>2, ReadVersionStep
<1>3. ASSUME NEW w \in Writes, UpdateBegins(w) \/ UpdateLocks(w)
      PROVE  VersionInv'
  BY <1>3, UpdateStep
<1>4. ASSUME NEW w \in Writes, InsertPolicy(w)
      PROVE  VersionInv'
  BY <1>4, InsertStep
<1>5. ASSUME NEW p \in PolicyProcs, RestartProc(p)
      PROVE  VersionInv'
  <2>1. policies' = policies /\ PolicyShape'
    BY <1>5 DEF RestartProc, VersionInv, PolicyShape
  <2>2. \A x \in Writes : write'[x].at \in {"read", "update", "insert"} => write'[x] = write[x]
    BY <1>5 DEF RestartProc, VersionInv, PolicyShape
  <2>3. QED
    BY <2>1, <2>2, VersionFrame
<1>6. ASSUME policies' = policies, write' = write
      PROVE  VersionInv'
  <2>1. PolicyShape'
    BY <1>6 DEF VersionInv, PolicyShape
  <2>2. QED
    BY <1>6, <2>1, VersionFrame
<1>7. QED
  BY <1>1, <1>2, <1>3, <1>4, <1>5, <1>6
     DEF PolicyNext, policyVars, AskDecision, ReadSetting, _load, Decide, StoreFails, _record,
         SwitchEnforcement

\* Where versions are numbered without a gap and the last one is live, one is in force.
LEMMA NumberedInForce == VersionInv => OneInForce
<1> SUFFICES ASSUME VersionInv, NEW n \in {p.name : p \in policies}
             PROVE  /\ \E v \in VersionsOf(n) : LiveOf(n) = {v} /\ \A u \in VersionsOf(n) : u <= v
                    /\ \A p, q \in policies : p.name = n /\ q.name = n /\ p.version = q.version => p = q
  BY DEF OneInForce
<1>1. n \in Names /\ VersionsOf(n) # {}
  BY DEF VersionInv, PolicyShape, VersionsOf
<1>2. PICK k \in Nat : Numbered(n, k)
  BY <1>1 DEF VersionInv, AllNumbered
<1>3. k # 0
  BY <1>1, <1>2 DEF Numbered
<1>4. k \in VersionsOf(n) /\ LiveOf(n) = {k} /\ \A u \in VersionsOf(n) : u <= k
  BY <1>2, <1>3 DEF Numbered
<1>5. QED
  BY <1>4 DEF VersionInv, RowsUnique

\* One version of every policy is in force, the latest, and no two rows have one version
\* (OneInForce).
THEOREM OneVersionInForce == PolicySpec => []OneInForce
<1>1. PolicyInit => VersionInv
  BY InitVersion
<1>2. VersionInv /\ [PolicyNext]_policyVars => VersionInv'
  BY VersionStep
<1>3. VersionInv => OneInForce
  BY NumberedInForce
<1>4. QED
  BY <1>1, <1>2, <1>3, PTL DEF PolicySpec

-----------------------------------------------------------------------------
(* Decisions. *)

RowRec == [name : Names, version : Nat, body : Bodies, live : BOOLEAN]

DecPhases == {"new", "setting", "load", "decide", "record", "over", "failed"}

Cites == (Names \X Nat) \cup {None}

DecRec == [at : DecPhases, request : ActionRequests, enforced : BOOLEAN, loaded : SUBSET RowRec,
           effect : Effects, cited : Cites, degraded : BOOLEAN, confirmed : SUBSET Writes]

DecShape ==
  /\ dec \in [Decisions -> DecRec]
  /\ memory \in [PolicyProcs -> Cites]
  /\ enforcement \in BOOLEAN

\* The row is in the table, whether it is still live or not.
Kept(p) == \E q \in policies : Cite(q) = Cite(p) /\ q.body = p.body

\* A call that has answered its writer has written its version.
WritesDone ==
  \A w \in Writes : write[w].at \in {"forget", "done"} => write[w].version \in VersionsOf(NameOf(w))

\* The writes that were answered when a call began have stayed so.
ConfirmedFit(d) == dec[d].confirmed \subseteq Confirmed

\* What a call has loaded: rows of the table, one of each name, none that had been replaced
\* when it began.
LoadedFit(d) ==
  dec[d].at = "decide" =>
    /\ \A p \in dec[d].loaded : Kept(p) /\ ~Replaced(Cite(p), dec[d].confirmed)
    /\ \A p, q \in dec[d].loaded : p.name = q.name => p = q

IsClosed(b) == b.enabled /\ b.on_error = "deny"

\* The policy that a denial cites is its cause.
Cause(d, b) ==
  IF dec[d].degraded
  THEN /\ IsClosed(b)
       /\ DroppedBefore(d, dec[d].cited) => <<ProcOf[d], dec[d].cited>> \in late
  ELSE /\ matches(b, dec[d].request) /\ b.effect = "deny"
       /\ ~Replaced(dec[d].cited, dec[d].confirmed)

AnswerFits(d) ==
  Answered(d) /\ dec[d].effect = "deny" =>
    \E p \in policies : Cite(p) = dec[d].cited /\ Cause(d, p.body)

CallFits(d) == ConfirmedFit(d) /\ LoadedFit(d) /\ AnswerFits(d)

\* A process remembers a policy that is fail-closed.
MemoryFit ==
  \A x \in PolicyProcs : memory[x] # None =>
    \E p \in policies : Cite(p) = memory[x] /\ IsClosed(p.body)

\* What it remembers has not been replaced by a write that it has answered, unless a call
\* has put it back.
LateFit ==
  \A x \in PolicyProcs :
    Replaced(memory[x], Confirmed \cap ServedBy(x)) => <<x, memory[x]>> \in late

DecisionInv ==
  /\ VersionInv /\ DecShape /\ WritesDone /\ MemoryFit /\ LateFit
  /\ \A d \in Decisions : CallFits(d)

-----------------------------------------------------------------------------
(* Facts about rows. *)

\* A set of numbers has a least one.
LEMMA LeastNumber ==
  ASSUME NEW S \in SUBSET Nat, S # {}
  PROVE  \E n \in S : \A m \in S : n <= m
<1>1. \E n \in S : \A m \in S : ~(<<m, n>> \in OpToRel(<, Nat))
  BY NatLessThanWellFounded, WFMin
<1>2. \E n \in S : \A m \in S : ~(m < n)
  BY <1>1, Zenon DEF OpToRel
<1>3. QED
  BY <1>2

\* Of rows with different names there is a first one.
LEMMA FirstIsOne ==
  ASSUME NEW R \in SUBSET RowRec, R # {}, \A p, q \in R : p.name = q.name => p = q
  PROVE  First(R) \in R
<1> DEFINE priorities == {p.body.priority : p \in R}
<1>0. \A p \in R : p.name \in Nat /\ p.body.priority \in Nat
  BY PolicyAssumption DEF RowRec
<1>1. PICK m \in priorities : \A k \in priorities : m <= k
  <2>1. priorities \in SUBSET Nat /\ priorities # {}
    BY <1>0
  <2>2. QED
    BY <2>1, LeastNumber
<1> DEFINE names == {p.name : p \in {q \in R : q.body.priority = m}}
<1>2. PICK n \in names : \A k \in names : n <= k
  <2>1. names \in SUBSET Nat /\ names # {}
    BY <1>0, <1>1
  <2>2. QED
    BY <2>1, LeastNumber
<1>3. PICK p \in R : p.body.priority = m /\ p.name = n
  OBVIOUS
<1>4. ASSUME NEW q \in R \ {p}
      PROVE  Before(p, q)
  <2>1. q.name # p.name /\ m <= q.body.priority
    BY <1>1
  <2>2. q.body.priority = m => n <= q.name
    BY <1>2
  <2>3. QED
    BY <1>0, <1>3, <2>1, <2>2 DEF Before
<1>5. QED
  BY <1>3, <1>4, Zenon DEF First

\* What is cited identifies a row.
LEMMA CitedRow ==
  ASSUME VersionInv, NEW p \in policies
  PROVE  RowOf(Cite(p)) = p
<1>1. \A q \in policies : Cite(q) = Cite(p) => q = p
  BY DEF VersionInv, RowsUnique, Cite
<1>2. QED
  BY <1>1, Zenon DEF RowOf

\* What is cited is a pair of a name and a version.
LEMMA CitePair ==
  ASSUME NEW p \in RowRec
  PROVE  Cite(p) \in Names \X Nat /\ Cite(p) # None
BY PolicyAssumption DEF RowRec, Cite

\* Of the versions of a name only the last is live.
LEMMA LastIsLive ==
  ASSUME VersionInv, NEW p \in policies, NEW v \in VersionsOf(p.name), p.version < v
  PROVE  ~p.live
<1>1. p.name \in Names /\ p.version \in Nat
  BY DEF VersionInv, PolicyShape
<1>2. PICK k \in Nat : Numbered(p.name, k)
  BY <1>1 DEF VersionInv, AllNumbered
<1>3. v \in 1 .. k
  BY <1>2 DEF Numbered
<1>4. p.live => p.version \in LiveOf(p.name)
  BY DEF LiveOf
<1>5. QED
  BY <1>1, <1>2, <1>3, <1>4 DEF Numbered

\* The rows that are live have different names.
LEMMA LiveUnique ==
  ASSUME VersionInv, NEW p \in policies, NEW q \in policies, p.live, q.live, p.name = q.name
  PROVE  p = q
<1>1. p.name \in Names /\ p.version \in Nat /\ q.version \in Nat
  BY DEF VersionInv, PolicyShape
<1>2. PICK k \in Nat : Numbered(p.name, k)
  BY <1>1 DEF VersionInv, AllNumbered
<1>3. p.version \in LiveOf(p.name) /\ q.version \in LiveOf(p.name)
  BY DEF LiveOf
<1>4. p.version = q.version
  BY <1>2, <1>3 DEF Numbered
<1>5. QED
  BY <1>4 DEF VersionInv, RowsUnique

-----------------------------------------------------------------------------
(* Steps. *)

\* Every row stays, with its body, and is not put in force again.
RowsStay ==
  \A p \in policies :
    \E q \in policies' : Cite(q) = Cite(p) /\ q.body = p.body /\ (q.live => p.live)

\* No step removes a row.
LEMMA StepKeepsRows ==
  ASSUME VersionInv, [PolicyNext]_policyVars
  PROVE  RowsStay
<1>1. ASSUME NEW w \in Writes, InsertPolicy(w)
      PROVE  RowsStay
  <2> SUFFICES ASSUME NEW p \in policies
               PROVE  \E q \in policies' : Cite(q) = Cite(p) /\ q.body = p.body /\ (q.live => p.live)
    BY DEF RowsStay
  <2> DEFINE q == IF p.name = NameOf(w) /\ p.version \in write[w].rows
                  THEN [p EXCEPT !.live = FALSE] ELSE p
  <2>1. q \in policies'
    BY <1>1 DEF InsertPolicy
  <2>2. p \in RowRec
    BY DEF VersionInv, PolicyShape, RowRec
  <2>3. q.name = p.name /\ q.version = p.version /\ q.body = p.body /\ (q.live => p.live)
    BY <2>2 DEF RowRec
  <2>4. QED
    BY <2>1, <2>3 DEF Cite
<1>2. ASSUME policies' = policies
      PROVE  RowsStay
  BY <1>2 DEF RowsStay
<1>3. QED
  BY <1>1, <1>2 DEF PolicyNext, policyVars, RefuseWrite, ReadVersion, UpdateBegins, UpdateLocks,
     AbortWrite, Forget, AskDecision, ReadSetting, _load, Decide, StoreFails, _record,
     SwitchEnforcement, RestartProc

\* What was answered stays as it is, and the history grows.
HistoryStays ==
  /\ \A w \in Confirmed : write'[w] = write[w]
  /\ late \subseteq late'

LEMMA StepKeepsHistory ==
  ASSUME VersionInv, [PolicyNext]_policyVars
  PROVE  HistoryStays
<1>1. write \in [Writes -> [at : {"new", "read", "update", "insert", "forget", "done", "refused", "failed"},
                            version : Nat, rows : SUBSET Nat]]
  BY DEF VersionInv, PolicyShape
<1>2. ASSUME NEW w \in Confirmed PROVE write'[w] = write[w]
  <2>1. w \in Writes /\ write[w].at = "done"
    BY <1>2 DEF Confirmed
  <2>2. ASSUME NEW x \in Writes,
               RefuseWrite(x) \/ ReadVersion(x) \/ UpdateBegins(x) \/ UpdateLocks(x)
                 \/ InsertPolicy(x) \/ AbortWrite(x) \/ Forget(x)
        PROVE  write'[w] = write[w]
    BY <1>1, <2>1, <2>2 DEF RefuseWrite, ReadVersion, UpdateBegins, UpdateLocks, InsertPolicy,
       AbortWrite, Forget
  <2>3. ASSUME NEW p \in PolicyProcs, RestartProc(p)
        PROVE  write'[w] = write[w]
    BY <1>1, <2>1, <2>3 DEF RestartProc
  <2>4. CASE write' = write
    BY <2>4
  <2>5. QED
    BY <2>2, <2>3, <2>4 DEF PolicyNext, policyVars, AskDecision, ReadSetting, _load, Decide,
       StoreFails, _record, SwitchEnforcement
<1>3. late \subseteq late'
  BY DEF PolicyNext, policyVars, RefuseWrite, ReadVersion, UpdateBegins, UpdateLocks, InsertPolicy,
     AbortWrite, Forget, AskDecision, ReadSetting, _load, Decide, StoreFails, _record,
     SwitchEnforcement, RestartProc
<1>4. QED
  BY <1>2, <1>3 DEF HistoryStays

\* Whether answered writes have replaced a version does not change.
LEMMA ReplacedStays ==
  ASSUME HistoryStays
  PROVE  /\ Confirmed \subseteq Confirmed'
         /\ \A c : \A W \in SUBSET Confirmed : Replaced(c, W)' <=> Replaced(c, W)
<1>1. Confirmed \subseteq Confirmed'
  BY DEF HistoryStays, Confirmed
<1>2. ASSUME NEW c, NEW W \in SUBSET Confirmed PROVE Replaced(c, W)' <=> Replaced(c, W)
  BY DEF HistoryStays, Replaced, NameOf
<1>3. QED
  BY <1>1, <1>2

\* A version that is live has not been replaced.
LEMMA LiveNotReplaced ==
  ASSUME VersionInv, WritesDone, NEW p \in policies, p.live, NEW W \in SUBSET Confirmed
  PROVE  ~Replaced(Cite(p), W)
<1>1. SUFFICES ASSUME NEW w \in W, NameOf(w) = p.name, p.version < write[w].version PROVE FALSE
  BY DEF Replaced, Cite
<1>2. write[w].version \in VersionsOf(p.name)
  BY <1>1 DEF Confirmed, WritesDone
<1>3. QED
  BY <1>1, <1>2, LastIsLive

\* A call that a step leaves alone still fits.
LEMMA CallFrame ==
  ASSUME HistoryStays, RowsStay, NEW d \in Decisions, CallFits(d), dec'[d] = dec[d]
  PROVE  CallFits(d)'
<1>1. /\ Confirmed \subseteq Confirmed' /\ late \subseteq late'
      /\ dec[d].confirmed \in SUBSET Confirmed
      /\ \A c : \A W \in SUBSET Confirmed : Replaced(c, W)' <=> Replaced(c, W)
  BY ReplacedStays DEF CallFits, ConfirmedFit, HistoryStays
<1>2. \A c : /\ Replaced(c, dec[d].confirmed)' <=> Replaced(c, dec[d].confirmed)
            /\ DroppedBefore(d, c)' <=> DroppedBefore(d, c)
  <2>1. ServedBy(ProcOf[d])' = ServedBy(ProcOf[d])
    BY DEF ServedBy
  <2> DEFINE W1 == dec[d].confirmed
             W2 == dec[d].confirmed \cap ServedBy(ProcOf[d])
  <2>2. W1 \in SUBSET Confirmed /\ W2 \in SUBSET Confirmed
    BY <1>1
  <2>3. \A c : /\ Replaced(c, W1)' <=> Replaced(c, W1)
              /\ Replaced(c, W2)' <=> Replaced(c, W2)
    BY <1>1, <2>1, <2>2 DEF Replaced
  <2>4. QED
    BY <2>3 DEF DroppedBefore
<1>3. ConfirmedFit(d)'
  BY <1>1 DEF ConfirmedFit
<1>4. LoadedFit(d)'
  <2>1. \A w \in dec[d].confirmed : write'[w] = write[w]
    BY <1>1 DEF HistoryStays
  <2>2. LoadedFit(d)
    BY DEF CallFits
  <2>3. QED
    BY <2>1, <2>2 DEF LoadedFit, Kept, RowsStay, Replaced, NameOf, Cite
<1>5. AnswerFits(d)'
  <2>1. Answered(d)' <=> Answered(d)
    BY DEF Answered
  <2>2. \A b : Cause(d, b) => Cause(d, b)'
    BY <1>1, <1>2 DEF Cause
  <2>3. QED
    BY <2>1, <2>2 DEF CallFits, AnswerFits, RowsStay
<1>6. QED
  BY <1>3, <1>4, <1>5 DEF CallFits

\* What a process remembers, and keeps, stays a policy that is fail-closed.
LEMMA MemoryFrame ==
  ASSUME RowsStay, MemoryFit, \A x \in PolicyProcs : memory'[x] \in {memory[x], None}
  PROVE  MemoryFit'
BY DEF MemoryFit, RowsStay

\* The calls of writers keep what they have written.
LEMMA WritesDoneStep ==
  ASSUME VersionInv, WritesDone, [PolicyNext]_policyVars
  PROVE  WritesDone'
<1>1. \A n : VersionsOf(n) \subseteq VersionsOf(n)'
  <2>1. RowsStay
    BY StepKeepsRows
  <2>2. \A p \in policies : \E q \in policies' : q.name = p.name /\ q.version = p.version
    BY <2>1 DEF RowsStay, Cite
  <2>3. QED
    BY <2>2 DEF VersionsOf
<1>2. SUFFICES ASSUME NEW w \in Writes, write'[w].at \in {"forget", "done"}
               PROVE  write'[w].version \in VersionsOf(NameOf(w))'
  BY DEF WritesDone, NameOf
<1>3. write \in [Writes -> [at : {"new", "read", "update", "insert", "forget", "done", "refused", "failed"},
                            version : Nat, rows : SUBSET Nat]]
  BY DEF VersionInv, PolicyShape
<1>4. CASE write[w].at \in {"forget", "done"} /\ write'[w].version = write[w].version
  BY <1>1, <1>4 DEF WritesDone
<1>5. CASE InsertPolicy(w)
  <2>1. Written(w) \in policies' /\ write'[w].version = write[w].version
    BY <1>3, <1>5 DEF InsertPolicy
  <2>2. QED
    BY <2>1 DEF Written, VersionsOf
<1>6. InsertPolicy(w) \/ (write[w].at \in {"forget", "done"} /\ write'[w].version = write[w].version)
  <2>1. ASSUME NEW x \in Writes,
               RefuseWrite(x) \/ ReadVersion(x) \/ UpdateBegins(x) \/ UpdateLocks(x)
                 \/ InsertPolicy(x) \/ AbortWrite(x) \/ Forget(x)
        PROVE  InsertPolicy(w) \/ (write[w].at \in {"forget", "done"} /\ write'[w].version = write[w].version)
    BY <1>2, <1>3, <2>1 DEF RefuseWrite, ReadVersion, UpdateBegins, UpdateLocks, InsertPolicy,
       AbortWrite, Forget
  <2>2. ASSUME NEW p \in PolicyProcs, RestartProc(p)
        PROVE  write[w].at \in {"forget", "done"} /\ write'[w].version = write[w].version
    BY <1>2, <1>3, <2>2 DEF RestartProc
  <2>3. CASE write' = write
    BY <1>2, <2>3
  <2>4. QED
    BY <2>1, <2>2, <2>3 DEF PolicyNext, policyVars, AskDecision, ReadSetting, _load, Decide,
       StoreFails, _record, SwitchEnforcement
<1>7. QED
  BY <1>4, <1>5, <1>6

\* Where only memory is dropped, and an answer given only with it, what is left is as before.
LEMMA LateFrame ==
  ASSUME LateFit, HistoryStays,
         \A x \in PolicyProcs : memory'[x] \in {memory[x], None},
         \A w \in Writes : write'[w].at = "done" /\ memory'[ProcOf[w]] # None => w \in Confirmed
  PROVE  LateFit'
<1>1. SUFFICES ASSUME NEW x \in PolicyProcs, memory'[x] # None, NEW w \in Writes,
                      write'[w].at = "done", ProcOf[w] = x,
                      NameOf(w) = memory'[x][1], memory'[x][2] < write'[w].version
               PROVE  <<x, memory'[x]>> \in late'
  BY DEF LateFit, ServedBy, Replaced, Confirmed, NameOf
<1>2. memory'[x] = memory[x] /\ w \in Confirmed /\ write'[w] = write[w]
  BY <1>1 DEF HistoryStays
<1>3. Replaced(memory[x], Confirmed \cap ServedBy(x))
  BY <1>1, <1>2 DEF Replaced, ServedBy
<1>4. QED
  BY <1>2, <1>3 DEF LateFit, HistoryStays

\* A process remembers nothing that it has dropped for good, unless a call puts it back.
LEMMA LateStep ==
  ASSUME DecisionInv, [PolicyNext]_policyVars
  PROVE  LateFit'
<1>1. HistoryStays
  BY StepKeepsHistory DEF DecisionInv
<1>2. /\ write \in [Writes -> [at : {"new", "read", "update", "insert", "forget", "done", "refused", "failed"},
                               version : Nat, rows : SUBSET Nat]]
      /\ memory \in [PolicyProcs -> Cites] /\ LateFit
  BY DEF DecisionInv, DecShape, VersionInv, PolicyShape
<1>3. ASSUME NEW w \in Writes, Forget(w)
      PROVE  LateFit'
  <2>1. ASSUME NEW v \in Writes, write'[v].at = "done", memory'[ProcOf[v]] # None
        PROVE  v \in Confirmed
    <3>1. ProcOf[v] # ProcOf[w] /\ v # w
      BY <1>2, <1>3, <2>1, PolicyAssumption DEF Forget
    <3>2. QED
      BY <1>2, <1>3, <2>1, <3>1 DEF Forget, Confirmed
  <2>2. \A x \in PolicyProcs : memory'[x] \in {memory[x], None}
    BY <1>2, <1>3 DEF Forget
  <2>3. QED
    BY <1>1, <1>2, <2>1, <2>2, LateFrame
<1>4. ASSUME NEW d \in Decisions, Decide(d)
      PROVE  LateFit'
  <2> DEFINE c == _remember_fail_closed(dec[d].loaded, dec[d].enforced)
             x == ProcOf[d]
  <2>1. /\ memory' = [memory EXCEPT ![x] = c] /\ write' = write
        /\ late' = IF Replaced(c, Confirmed \cap ServedBy(x)) THEN late \cup {<<x, c>>} ELSE late
    BY <1>4 DEF Decide
  <2> HIDE DEF c, x
  <2>2. \A z : \A W : Replaced(z, W)' <=> Replaced(z, W)
    BY <2>1 DEF Replaced, NameOf
  <2>3. Confirmed' = Confirmed /\ \A y : ServedBy(y)' = ServedBy(y)
    BY <2>1 DEF Confirmed, ServedBy
  <2>4. \A y \in PolicyProcs : memory'[y] = IF y = x THEN c ELSE memory[y]
    BY <1>2, <2>1
  <2>5. ASSUME NEW y \in PolicyProcs, Replaced(memory'[y], Confirmed \cap ServedBy(y))
        PROVE  <<y, memory'[y]>> \in late'
    BY <1>2, <2>1, <2>4, <2>5 DEF LateFit
  <2>6. QED
    BY <2>1, <2>3, <2>5 DEF LateFit, Replaced, NameOf
<1>5. ASSUME Confirmed' = Confirmed, \A x \in PolicyProcs : memory'[x] \in {memory[x], None}
      PROVE  LateFit'
  <2>1. \A w \in Writes : write'[w].at = "done" => w \in Confirmed
    BY <1>5 DEF Confirmed
  <2>2. QED
    BY <1>1, <1>2, <1>5, <2>1, LateFrame
<1>6. ASSUME NEW w \in Writes,
             RefuseWrite(w) \/ ReadVersion(w) \/ UpdateBegins(w) \/ UpdateLocks(w)
               \/ InsertPolicy(w) \/ AbortWrite(w)
      PROVE  LateFit'
  <2>1. \A v \in Writes : write'[v].at = "done" <=> write[v].at = "done"
    BY <1>2, <1>6 DEF RefuseWrite, ReadVersion, UpdateBegins, UpdateLocks, InsertPolicy, AbortWrite
  <2>2. memory' = memory
    BY <1>6 DEF RefuseWrite, ReadVersion, UpdateBegins, UpdateLocks, InsertPolicy, AbortWrite
  <2>3. QED
    BY <1>5, <2>1, <2>2 DEF Confirmed
<1>7. ASSUME NEW p \in PolicyProcs, RestartProc(p)
      PROVE  LateFit'
  <2>1. \A v \in Writes : write'[v].at = "done" <=> write[v].at = "done"
    BY <1>2, <1>7 DEF RestartProc
  <2>2. \A x \in PolicyProcs : memory'[x] \in {memory[x], None}
    BY <1>2, <1>7 DEF RestartProc
  <2>3. QED
    BY <1>5, <2>1, <2>2 DEF Confirmed
<1>8. CASE UNCHANGED <<write, memory>>
  BY <1>5, <1>8 DEF Confirmed
<1>9. QED
  BY <1>3, <1>4, <1>6, <1>7, <1>8 DEF PolicyNext, policyVars, AskDecision, ReadSetting, _load,
     StoreFails, _record, SwitchEnforcement

\* A step of the call d, which leaves the rows and the other calls alone.
LEMMA CallStep ==
  ASSUME DecisionInv, VersionInv', policies' = policies, WritesDone', LateFit', HistoryStays,
         NEW d \in Decisions, DecShape', MemoryFit', CallFits(d)',
         \A e \in Decisions : e # d => dec'[e] = dec[e]
  PROVE  DecisionInv'
<1>1. RowsStay
  BY DEF RowsStay
<1>2. \A e \in Decisions : CallFits(e)'
  BY <1>1, CallFrame DEF DecisionInv
<1>3. QED
  BY <1>2 DEF DecisionInv

\* What the steps of a call write to its record.
LEMMA DecWrites ==
  ASSUME NEW r \in DecRec
  PROVE  /\ \A q \in ActionRequests, O \in SUBSET Writes :
              [r EXCEPT !.at = "setting", !.request = q, !.confirmed = O] \in DecRec
         /\ \A b \in BOOLEAN : [r EXCEPT !.at = "load", !.enforced = b] \in DecRec
         /\ \A R \in SUBSET RowRec : [r EXCEPT !.at = "decide", !.loaded = R] \in DecRec
         /\ \A f \in Effects, c \in Cites, b \in BOOLEAN :
              [r EXCEPT !.at = "record", !.loaded = {}, !.effect = f, !.cited = c, !.degraded = b]
                \in DecRec
         /\ \A a \in DecPhases : /\ [r EXCEPT !.at = a] \in DecRec
                                 /\ [r EXCEPT !.at = a, !.loaded = {}] \in DecRec
<1>1. {"setting", "load", "decide", "record"} \subseteq DecPhases
  BY DEF DecPhases
<1>2. {} \in SUBSET RowRec
  OBVIOUS
<1>3. \A q \in ActionRequests, O \in SUBSET Writes :
        [r EXCEPT !.at = "setting", !.request = q, !.confirmed = O] \in DecRec
  BY <1>1, Zenon DEF DecRec
<1>4. \A b \in BOOLEAN : [r EXCEPT !.at = "load", !.enforced = b] \in DecRec
  BY <1>1, Zenon DEF DecRec
<1>5. \A R \in SUBSET RowRec : [r EXCEPT !.at = "decide", !.loaded = R] \in DecRec
  BY <1>1, Zenon DEF DecRec
<1>6. \A f \in Effects, c \in Cites, b \in BOOLEAN :
        [r EXCEPT !.at = "record", !.loaded = {}, !.effect = f, !.cited = c, !.degraded = b] \in DecRec
  BY <1>1, <1>2, Zenon DEF DecRec
<1>7. \A a \in DecPhases : /\ [r EXCEPT !.at = a] \in DecRec
                           /\ [r EXCEPT !.at = a, !.loaded = {}] \in DecRec
  BY <1>2, Zenon DEF DecRec
<1>8. QED
  BY <1>3, <1>4, <1>5, <1>6, <1>7

\* A call asks, reads the setting, or ends.
LEMMA PlainStep ==
  ASSUME DecisionInv, VersionInv', WritesDone', LateFit', HistoryStays, NEW d \in Decisions,
         AskDecision(d) \/ ReadSetting(d) \/ _record(d)
  PROVE  DecisionInv'
<1>1. /\ dec \in [Decisions -> DecRec] /\ memory' = memory /\ policies' = policies
      /\ enforcement' = enforcement
  BY DEF DecisionInv, DecShape, AskDecision, ReadSetting, _record
<1>2. MemoryFit'
  BY <1>1 DEF DecisionInv, MemoryFit
<1>7. Confirmed \subseteq Confirmed' /\ CallFits(d)
  BY ReplacedStays DEF DecisionInv
<1>3. CASE AskDecision(d)
  <2>1. PICK r \in ActionRequests :
          dec' = [dec EXCEPT ![d].at = "setting", ![d].request = r, ![d].confirmed = Confirmed]
    BY <1>3 DEF AskDecision
  <2>2. Confirmed \in SUBSET Writes
    BY DEF Confirmed
  <2> DEFINE new == [dec[d] EXCEPT !.at = "setting", !.request = r, !.confirmed = Confirmed]
  <2>3. new \in DecRec
    BY <1>1, <2>2, DecWrites
  <2>4. dec' = [dec EXCEPT ![d] = new]
    BY <1>1, <2>1
  <2>5. new.at = "setting" /\ new.confirmed = Confirmed
    BY <1>1 DEF DecRec
  <2> HIDE DEF new
  <2>6. DecShape' /\ dec'[d].at = "setting" /\ dec'[d].confirmed = Confirmed
        /\ \A e \in Decisions : e # d => dec'[e] = dec[e]
    BY <1>1, <2>3, <2>4, <2>5 DEF DecisionInv, DecShape
  <2>7. CallFits(d)'
    BY <1>7, <2>6 DEF CallFits, ConfirmedFit, LoadedFit, AnswerFits, Answered
  <2>8. QED
    BY <1>1, <1>2, <2>6, <2>7, CallStep
<1>4. CASE ReadSetting(d)
  <2> DEFINE new == [dec[d] EXCEPT !.at = "load", !.enforced = enforcement]
  <2>1. dec' = [dec EXCEPT ![d] = new] /\ dec[d].at = "setting"
    BY <1>1, <1>4 DEF ReadSetting
  <2>2. new.at = "load" /\ new.confirmed = dec[d].confirmed
    BY <1>1 DEF DecRec
  <2>3. new \in DecRec
    BY <1>1, DecWrites DEF DecisionInv, DecShape
  <2> HIDE DEF new
  <2>4. DecShape' /\ dec'[d].at = "load" /\ dec'[d].confirmed = dec[d].confirmed
        /\ \A e \in Decisions : e # d => dec'[e] = dec[e]
    BY <1>1, <2>1, <2>2, <2>3 DEF DecisionInv, DecShape
  <2>5. CallFits(d)'
    BY <1>7, <2>1, <2>4 DEF CallFits, ConfirmedFit, LoadedFit, AnswerFits, Answered
  <2>6. QED
    BY <1>1, <1>2, <2>4, <2>5, CallStep
<1>5. CASE _record(d)
  <2>1. /\ DecShape' /\ dec'[d].at = "over" /\ dec[d].at = "record"
        /\ dec'[d].effect = dec[d].effect /\ dec'[d].cited = dec[d].cited
        /\ dec'[d].request = dec[d].request /\ dec'[d].confirmed = dec[d].confirmed
        /\ dec'[d].degraded = dec[d].degraded
        /\ \A e \in Decisions : e # d => dec'[e] = dec[e]
    BY <1>1, <1>5 DEF DecisionInv, DecShape, DecRec, DecPhases, _record
  <2>2. late' = late /\ write' = write
    BY <1>5 DEF _record
  <2>3. \A b : Cause(d, b)' <=> Cause(d, b)
    BY <2>1, <2>2 DEF Cause, DroppedBefore, Replaced, ServedBy, NameOf
  <2>4. CallFits(d)'
    BY <1>1, <1>7, <2>1, <2>3 DEF CallFits, ConfirmedFit, LoadedFit, AnswerFits, Answered
  <2>5. QED
    BY <1>1, <1>2, <2>1, <2>4, CallStep
<1>6. QED
  BY <1>3, <1>4, <1>5

\* A call loads the rows that are live.
LEMMA LoadStep ==
  ASSUME DecisionInv, VersionInv', WritesDone', LateFit', HistoryStays, NEW d \in Decisions, _load(d)
  PROVE  DecisionInv'
<1> DEFINE new == [dec[d] EXCEPT !.at = "decide", !.loaded = Loaded]
<1>1. /\ dec \in [Decisions -> DecRec] /\ memory' = memory /\ policies' = policies
      /\ enforcement' = enforcement /\ dec[d].at = "load" /\ CallFits(d)
  BY DEF DecisionInv, DecShape, _load
<1>2. Loaded \in SUBSET RowRec
  BY DEF Loaded, DecisionInv, VersionInv, PolicyShape, RowRec
<1>3. new \in DecRec
  BY <1>1, <1>2, DecWrites
<1>4. dec' = [dec EXCEPT ![d] = new]
  BY <1>1 DEF _load
<1>5. new.at = "decide" /\ new.loaded = Loaded /\ new.confirmed = dec[d].confirmed
  BY <1>1 DEF DecRec
<1> HIDE DEF new
<1>6. /\ DecShape' /\ dec'[d].at = "decide" /\ dec'[d].loaded = Loaded
      /\ dec'[d].confirmed = dec[d].confirmed
      /\ \A e \in Decisions : e # d => dec'[e] = dec[e]
  BY <1>1, <1>3, <1>4, <1>5 DEF DecisionInv, DecShape
<1>12. write' = write /\ Confirmed' = Confirmed /\ dec[d].confirmed \in SUBSET Confirmed
  BY <1>1 DEF _load, Confirmed, CallFits, ConfirmedFit
<1>13. \A c, W : Replaced(c, W)' <=> Replaced(c, W)
  BY <1>12 DEF Replaced, NameOf
<1>7. \A p \in Loaded : Kept(p)' /\ ~Replaced(Cite(p), dec[d].confirmed)
  <2>1. ASSUME NEW p \in Loaded PROVE p \in policies /\ p.live
    BY DEF Loaded
  <2>2. \A p \in Loaded : Kept(p)'
    BY <1>1, <2>1 DEF Kept
  <2>3. \A p \in Loaded : ~Replaced(Cite(p), dec[d].confirmed)
    BY <1>12, <2>1, LiveNotReplaced DEF DecisionInv
  <2>4. QED
    BY <2>2, <2>3
<1>8. \A p, q \in Loaded : p.name = q.name => p = q
  BY LiveUnique DEF Loaded, DecisionInv
<1>9. CallFits(d)'
  BY <1>6, <1>7, <1>8, <1>12 DEF CallFits, ConfirmedFit, LoadedFit, AnswerFits, Answered, Replaced, NameOf,
     Cite
<1>10. MemoryFit'
  BY <1>1 DEF DecisionInv, MemoryFit
<1>11. QED
  BY <1>1, <1>6, <1>9, <1>10, CallStep

\* A verdict for what was loaded: a denial cites a row that matches and denies.
LEMMA VerdictFits ==
  ASSUME NEW R \in SUBSET RowRec, \A p, q \in R : p.name = q.name => p = q,
         NEW r \in ActionRequests, NEW e \in BOOLEAN
  PROVE  LET v == Advised(decide(R, r), e)
         IN  /\ v.effect \in Effects /\ v.cited \in Cites /\ v.degraded = FALSE
             /\ v.effect = "deny" =>
                  \E p \in R : v.cited = Cite(p) /\ matches(p.body, r) /\ p.body.effect = "deny"
<1> DEFINE M == {p \in R : matches(p.body, r)}
           v == Advised(decide(R, r), e)
<1>1. CASE M = {}
  <2>1. decide(R, r) = [effect |-> "allow", cited |-> None, degraded |-> FALSE]
    BY <1>1 DEF decide, Verdict
  <2>2. v.effect = "allow" /\ v.cited = None /\ v.degraded = FALSE
    BY <2>1 DEF Advised
  <2>3. QED
    BY <2>2 DEF Effects, Cites
<1>2. CASE M # {}
  <2>1. First(M) \in M
    <3>1. M \in SUBSET RowRec /\ \A p, q \in M : p.name = q.name => p = q
      OBVIOUS
    <3>2. QED
      BY <1>2, <3>1, FirstIsOne
  <2> DEFINE p == First(M)
  <2>2. p \in RowRec /\ p \in R /\ matches(p.body, r) /\ p.body.effect \in Effects
    BY <2>1, PolicyAssumption DEF RowRec
  <2>3. decide(R, r) = [effect |-> p.body.effect, cited |-> Cite(p), degraded |-> FALSE]
    BY <1>2 DEF decide, Verdict
  <2> HIDE DEF p
  <2>4. Cite(p) \in Cites
    BY <2>2, CitePair DEF Cites
  <2>5. /\ v.effect = IF e THEN p.body.effect ELSE "allow"
        /\ v.cited = Cite(p) /\ v.degraded = FALSE
    BY <2>3 DEF Advised
  <2>6. QED
    BY <2>2, <2>4, <2>5 DEF Effects
<1>3. QED
  BY <1>1, <1>2

\* What a process remembers of what it loaded is fail-closed.
LEMMA RememberedFits ==
  ASSUME NEW R \in SUBSET RowRec, \A p, q \in R : p.name = q.name => p = q, NEW e \in BOOLEAN
  PROVE  LET m == _remember_fail_closed(R, e)
         IN  m \in Cites /\ (m # None => \E p \in R : Cite(p) = m /\ IsClosed(p.body))
<1>1. CASE e /\ Closed(R) # {}
  <2>1. Closed(R) \in SUBSET RowRec /\ \A p, q \in Closed(R) : p.name = q.name => p = q
    BY DEF Closed
  <2>2. First(Closed(R)) \in Closed(R)
    BY <1>1, <2>1, FirstIsOne
  <2>3. First(Closed(R)) \in RowRec
    BY <2>1, <2>2
  <2>4. QED
    BY <1>1, <2>2, <2>3, CitePair DEF _remember_fail_closed, Closed, IsClosed, Cites
<1>2. CASE ~(e /\ Closed(R) # {})
  BY <1>2 DEF _remember_fail_closed, Cites
<1>3. QED
  BY <1>1, <1>2

\* What a verdict writes to the record of a call.
LEMMA DecidedWrites ==
  ASSUME dec \in [Decisions -> DecRec], NEW d \in Decisions, NEW v, Decided(d, v),
         v.effect \in Effects, v.cited \in Cites, v.degraded \in BOOLEAN
  PROVE  /\ dec' \in [Decisions -> DecRec]
         /\ dec'[d].at = "record" /\ dec'[d].effect = v.effect /\ dec'[d].cited = v.cited
         /\ dec'[d].degraded = v.degraded /\ dec'[d].confirmed = dec[d].confirmed
         /\ dec'[d].request = dec[d].request
         /\ \A e \in Decisions : e # d => dec'[e] = dec[e]
<1> DEFINE new == [dec[d] EXCEPT !.at = "record", !.loaded = {}, !.effect = v.effect,
                                 !.cited = v.cited, !.degraded = v.degraded]
<1>1. dec[d] \in DecRec
  OBVIOUS
<1>2. new \in DecRec
  BY <1>1, DecWrites
<1>3. dec' = [dec EXCEPT ![d] = new]
  BY DEF Decided
<1>4. /\ new.at = "record" /\ new.effect = v.effect /\ new.cited = v.cited
      /\ new.degraded = v.degraded /\ new.confirmed = dec[d].confirmed /\ new.request = dec[d].request
  BY <1>1 DEF DecRec
<1> HIDE DEF new
<1>5. dec'[d] = new /\ dec' \in [Decisions -> DecRec]
  BY <1>2, <1>3
<1>6. QED
  BY <1>3, <1>4, <1>5

\* What was loaded is remembered and evaluated.
LEMMA DecideStep ==
  ASSUME DecisionInv, VersionInv', WritesDone', LateFit', HistoryStays, NEW d \in Decisions, Decide(d)
  PROVE  DecisionInv'
<1> DEFINE R == dec[d].loaded
           v == Advised(decide(R, dec[d].request), dec[d].enforced)
           m == _remember_fail_closed(R, dec[d].enforced)
<1>1. /\ dec \in [Decisions -> DecRec] /\ policies' = policies /\ enforcement' = enforcement
      /\ enforcement \in BOOLEAN /\ memory \in [PolicyProcs -> Cites]
      /\ memory' = [memory EXCEPT ![ProcOf[d]] = m] /\ Decided(d, v)
      /\ dec[d].at = "decide" /\ CallFits(d)
  BY DEF DecisionInv, DecShape, Decide
<1>2. /\ R \in SUBSET RowRec /\ dec[d].request \in ActionRequests /\ dec[d].enforced \in BOOLEAN
      /\ \A p, q \in R : p.name = q.name => p = q
      /\ \A p \in R : Kept(p) /\ ~Replaced(Cite(p), dec[d].confirmed)
  BY <1>1 DEF DecRec, CallFits, LoadedFit
<1>3. /\ v.effect \in Effects /\ v.cited \in Cites /\ v.degraded = FALSE
      /\ v.effect = "deny" =>
           \E p \in R : v.cited = Cite(p) /\ matches(p.body, dec[d].request) /\ p.body.effect = "deny"
  BY <1>2, VerdictFits
<1>4. m \in Cites /\ (m # None => \E p \in R : Cite(p) = m /\ IsClosed(p.body))
  BY <1>2, RememberedFits
<1> HIDE DEF v, m, R
<1>5. /\ dec' \in [Decisions -> DecRec]
      /\ dec'[d].at = "record" /\ dec'[d].effect = v.effect /\ dec'[d].cited = v.cited
      /\ dec'[d].degraded = v.degraded /\ dec'[d].confirmed = dec[d].confirmed
      /\ dec'[d].request = dec[d].request
      /\ \A e \in Decisions : e # d => dec'[e] = dec[e]
  BY <1>1, <1>3, DecidedWrites
<1>6. memory' \in [PolicyProcs -> Cites]
  BY <1>1, <1>4
<1>7. DecShape'
  BY <1>1, <1>5, <1>6 DEF DecShape
<1>8. MemoryFit'
  <2> SUFFICES ASSUME NEW x \in PolicyProcs, memory'[x] # None
               PROVE  \E p \in policies : Cite(p) = memory'[x] /\ IsClosed(p.body)
    BY <1>1 DEF MemoryFit
  <2>1. CASE x = ProcOf[d]
    BY <1>1, <1>2, <1>4, <2>1 DEF Kept
  <2>2. CASE x # ProcOf[d]
    BY <1>1, <2>2 DEF DecisionInv, MemoryFit
  <2>3. QED
    BY <2>1, <2>2
<1>9. AnswerFits(d)'
  <2> SUFFICES ASSUME v.effect = "deny"
               PROVE  \E p \in policies : Cite(p) = v.cited /\ Cause(d, p.body)'
    BY <1>1, <1>5 DEF AnswerFits
  <2>1. PICK p \in R : v.cited = Cite(p) /\ matches(p.body, dec[d].request) /\ p.body.effect = "deny"
    BY <1>3
  <2>2. PICK q \in policies : Cite(q) = v.cited /\ q.body = p.body
    BY <1>2, <2>1 DEF Kept
  <2>3. ~Replaced(dec[d].cited, dec[d].confirmed)'
    <3>1. write' = write
      BY DEF Decide
    <3>2. ~Replaced(v.cited, dec[d].confirmed)
      BY <1>2, <2>1
    <3>3. dec'[d].confirmed = dec[d].confirmed /\ dec'[d].cited = v.cited
      BY <1>5
    <3>4. QED
      BY <3>1, <3>2, <3>3 DEF Replaced, NameOf
  <2>4. ~dec'[d].degraded
    BY <1>3, <1>5
  <2>5. Cause(d, p.body)'
    BY <1>5, <2>1, <2>3, <2>4 DEF Cause
  <2>6. QED
    BY <2>2, <2>5
<1>10. CallFits(d)'
  BY <1>1, <1>5, <1>9, ReplacedStays DEF CallFits, ConfirmedFit, LoadedFit
<1>11. QED
  BY <1>1, <1>5, <1>7, <1>8, <1>10, CallStep

\* The store cannot be reached: what is remembered decides.
LEMMA FailStep ==
  ASSUME DecisionInv, VersionInv', WritesDone', LateFit', HistoryStays, NEW d \in Decisions, StoreFails(d)
  PROVE  DecisionInv'
<1> DEFINE x == ProcOf[d]
           v == _degraded_decision(x)
<1>1. /\ dec \in [Decisions -> DecRec] /\ policies' = policies /\ enforcement' = enforcement
      /\ memory' = memory /\ Decided(d, v) /\ x \in PolicyProcs /\ memory[x] \in Cites
  BY PolicyAssumption DEF DecisionInv, DecShape, StoreFails
<1>2. /\ v.effect \in Effects /\ v.cited \in Cites /\ v.degraded = TRUE
      /\ v.effect = "deny" => v.cited = memory[x] /\ memory[x] # None
  BY <1>1 DEF _degraded_decision, Verdict, Effects, Cites
<1> HIDE DEF v, x
<1>3. /\ dec' \in [Decisions -> DecRec]
      /\ dec'[d].at = "record" /\ dec'[d].effect = v.effect /\ dec'[d].cited = v.cited
      /\ dec'[d].degraded = v.degraded /\ dec'[d].confirmed = dec[d].confirmed
      /\ \A e \in Decisions : e # d => dec'[e] = dec[e]
  BY <1>1, <1>2, DecidedWrites
<1>8. /\ write' = write /\ late' = late /\ CallFits(d) /\ dec[d].confirmed \subseteq Confirmed
  BY DEF StoreFails, DecisionInv, CallFits, ConfirmedFit
<1>4. DecShape' /\ MemoryFit'
  BY <1>1, <1>3 DEF DecisionInv, DecShape, MemoryFit
<1>5. AnswerFits(d)'
  <2> SUFFICES ASSUME v.effect = "deny"
               PROVE  \E p \in policies : Cite(p) = v.cited /\ Cause(d, p.body)'
    BY <1>1, <1>3 DEF AnswerFits
  <2>1. PICK p \in policies : Cite(p) = v.cited /\ IsClosed(p.body)
    BY <1>1, <1>2 DEF DecisionInv, MemoryFit
  <2>2. dec'[d].degraded /\ dec'[d].cited = v.cited /\ v.cited = memory[x]
    BY <1>2, <1>3
  <2>3. DroppedBefore(d, dec[d].cited)' => <<ProcOf[d], dec'[d].cited>> \in late'
    <3>1. SUFFICES ASSUME Replaced(v.cited, dec[d].confirmed \cap ServedBy(x))
                   PROVE  <<x, v.cited>> \in late
      BY <1>3, <1>8, <2>2 DEF DroppedBefore, Replaced, NameOf, ServedBy, x
    <3>2. Replaced(v.cited, Confirmed \cap ServedBy(x))
      BY <1>8, <3>1 DEF Replaced
    <3>3. QED
      BY <1>1, <2>2, <3>2 DEF DecisionInv, LateFit
  <2>4. Cause(d, p.body)'
    BY <2>1, <2>2, <2>3 DEF Cause, x
  <2>5. QED
    BY <2>1, <2>4
<1>6. CallFits(d)'
  BY <1>3, <1>5, <1>8, ReplacedStays DEF CallFits, ConfirmedFit, LoadedFit
<1>7. QED
  BY <1>1, <1>3, <1>4, <1>6, CallStep

\* A step that no call of decide_action makes.
LEMMA OtherStep ==
  ASSUME DecisionInv, VersionInv', WritesDone', LateFit', HistoryStays, RowsStay, DecShape',
         \A x \in PolicyProcs : memory'[x] \in {memory[x], None},
         \A d \in Decisions :
           \/ dec'[d] = dec[d]
           \/ dec'[d].at = "failed" /\ dec'[d].confirmed = dec[d].confirmed
  PROVE  DecisionInv'
<1>1. MemoryFit'
  BY MemoryFrame DEF DecisionInv
<1>2. ASSUME NEW d \in Decisions
      PROVE  CallFits(d)'
  <2>1. CASE dec'[d] = dec[d]
    BY <2>1, CallFrame DEF DecisionInv
  <2>2. CASE dec'[d].at = "failed" /\ dec'[d].confirmed = dec[d].confirmed
    BY <2>2, ReplacedStays DEF DecisionInv, CallFits, ConfirmedFit, LoadedFit, AnswerFits, Answered
  <2>3. QED
    BY <2>1, <2>2
<1>3. QED
  BY <1>1, <1>2 DEF DecisionInv

\* Every step keeps the invariant of the decisions.
LEMMA DecisionStep == DecisionInv /\ [PolicyNext]_policyVars => DecisionInv'
<1> SUFFICES ASSUME DecisionInv, [PolicyNext]_policyVars PROVE DecisionInv'
  OBVIOUS
<1>1. VersionInv' /\ WritesDone' /\ RowsStay /\ LateFit' /\ HistoryStays
  BY VersionStep, WritesDoneStep, StepKeepsRows, LateStep, StepKeepsHistory DEF DecisionInv
<1>2. ASSUME NEW d \in Decisions,
             AskDecision(d) \/ ReadSetting(d) \/ _load(d) \/ Decide(d) \/ StoreFails(d) \/ _record(d)
      PROVE  DecisionInv'
  BY <1>1, <1>2, PlainStep, LoadStep, DecideStep, FailStep
<1>3. ASSUME NEW p \in PolicyProcs, RestartProc(p)
      PROVE  DecisionInv'
  <2>1. /\ dec \in [Decisions -> DecRec] /\ memory \in [PolicyProcs -> Cites]
        /\ enforcement \in BOOLEAN /\ enforcement' = enforcement
        /\ memory' = [memory EXCEPT ![p] = None]
    BY <1>3 DEF DecisionInv, DecShape, RestartProc
  <2>2. \A d \in Decisions : [dec[d] EXCEPT !.at = "failed", !.loaded = {}] \in DecRec
    BY <2>1, DecWrites DEF DecPhases
  <2>3. \A d \in Decisions :
          LET new == [dec[d] EXCEPT !.at = "failed", !.loaded = {}]
          IN  new.at = "failed" /\ new.confirmed = dec[d].confirmed
    BY <2>1 DEF DecRec
  <2>4. /\ dec' \in [Decisions -> DecRec]
        /\ \A d \in Decisions : \/ dec'[d] = dec[d]
                                \/ dec'[d].at = "failed" /\ dec'[d].confirmed = dec[d].confirmed
    BY <1>3, <2>1, <2>2, <2>3 DEF RestartProc
  <2>5. memory' \in [PolicyProcs -> Cites] /\ \A x \in PolicyProcs : memory'[x] \in {memory[x], None}
    BY <2>1 DEF Cites
  <2>6. QED
    BY <1>1, <2>1, <2>4, <2>5, OtherStep DEF DecShape
<1>4. ASSUME dec' = dec, enforcement' \in BOOLEAN,
             memory' = memory \/ \E p : memory' = [memory EXCEPT ![p] = None]
      PROVE  DecisionInv'
  <2>1. memory \in [PolicyProcs -> Cites]
    BY DEF DecisionInv, DecShape
  <2>2. memory' \in [PolicyProcs -> Cites] /\ \A x \in PolicyProcs : memory'[x] \in {memory[x], None}
    BY <1>4, <2>1 DEF Cites
  <2>3. DecShape'
    BY <1>4, <2>2 DEF DecisionInv, DecShape
  <2>4. QED
    BY <1>1, <1>4, <2>2, <2>3, OtherStep
<1>5. ASSUME NEW w \in Writes,
             RefuseWrite(w) \/ ReadVersion(w) \/ UpdateBegins(w) \/ UpdateLocks(w)
               \/ InsertPolicy(w) \/ AbortWrite(w) \/ Forget(w)
      PROVE  DecisionInv'
  <2>1. dec' = dec /\ enforcement' = enforcement
    BY <1>5 DEF RefuseWrite, ReadVersion, UpdateBegins, UpdateLocks, InsertPolicy, AbortWrite, Forget
  <2>2. memory' = memory \/ memory' = [memory EXCEPT ![ProcOf[w]] = None]
    BY <1>5 DEF RefuseWrite, ReadVersion, UpdateBegins, UpdateLocks, InsertPolicy, AbortWrite, Forget
  <2>3. enforcement \in BOOLEAN
    BY DEF DecisionInv, DecShape
  <2>4. QED
    BY <1>4, <2>1, <2>2, <2>3
<1>6. CASE SwitchEnforcement \/ UNCHANGED policyVars
  <2>1. dec' = dec /\ memory' = memory
    BY <1>6 DEF SwitchEnforcement, policyVars
  <2>2. enforcement' \in BOOLEAN
    BY <1>6 DEF SwitchEnforcement, policyVars, DecisionInv, DecShape
  <2>3. QED
    BY <1>4, <2>1, <2>2
<1>7. QED
  BY <1>2, <1>3, <1>5, <1>6 DEF PolicyNext

\* Before any decision was asked for, the invariant of the decisions holds.
LEMMA DecisionInit == PolicyInit => DecisionInv
<1> SUFFICES ASSUME PolicyInit PROVE DecisionInv
  OBVIOUS
<1>1. VersionInv
  BY InitVersion
<1>2. PICK r \in ActionRequests :
        dec = [d \in Decisions |-> [at |-> "new", request |-> r, enforced |-> FALSE,
                                    loaded |-> {}, effect |-> "allow", cited |-> None,
                                    degraded |-> FALSE, confirmed |-> {}]]
  BY DEF PolicyInit
<1>3. [at |-> "new", request |-> r, enforced |-> FALSE, loaded |-> {}, effect |-> "allow",
       cited |-> None, degraded |-> FALSE, confirmed |-> {}] \in DecRec
  <2>1. "new" \in DecPhases /\ "allow" \in Effects /\ None \in Cites
    BY DEF DecPhases, Effects, Cites
  <2>2. QED
    BY <2>1, Zenon DEF DecRec
<1>4. DecShape
  BY <1>2, <1>3 DEF PolicyInit, DecShape, Cites
<1>5. \A d \in Decisions : dec[d].at = "new"
  BY <1>2
<1>6. \A d \in Decisions : CallFits(d)
  BY <1>2, <1>5 DEF CallFits, ConfirmedFit, LoadedFit, AnswerFits, Answered
<1>7. WritesDone /\ MemoryFit /\ LateFit
  BY DEF PolicyInit, WritesDone, MemoryFit, LateFit, Replaced
<1>8. QED
  BY <1>1, <1>4, <1>6, <1>7 DEF DecisionInv

\* An action is denied only for a policy that gives cause to, and a process that has dropped
\* a version denies for it again only if a call has put it back (DenialsHaveCause).
THEOREM DenialsAreCaused == PolicySpec => []DenialsHaveCause
<1>1. PolicyInit => DecisionInv
  BY DecisionInit
<1>2. DecisionInv /\ [PolicyNext]_policyVars => DecisionInv'
  BY DecisionStep
<1>3. DecisionInv => DenialsHaveCause
  <2> SUFFICES ASSUME DecisionInv, NEW d \in Decisions, Answered(d), dec[d].effect = "deny"
               PROVE  LET c == dec[d].cited
                          b == RowOf(c).body
                      IN  IF dec[d].degraded
                          THEN /\ b.enabled /\ b.on_error = "deny"
                               /\ DroppedBefore(d, c) => <<ProcOf[d], c>> \in late
                          ELSE matches(b, dec[d].request) /\ b.effect = "deny" /\ ~Replaced(c, dec[d].confirmed)
    BY DEF DenialsHaveCause
  <2>1. PICK p \in policies : Cite(p) = dec[d].cited /\ Cause(d, p.body)
    BY DEF DecisionInv, CallFits, AnswerFits
  <2>2. RowOf(dec[d].cited) = p
    BY <2>1, CitedRow DEF DecisionInv
  <2>3. QED
    BY <2>1, <2>2 DEF Cause, IsClosed
<1>4. QED
  BY <1>1, <1>2, <1>3, PTL DEF PolicySpec

-----------------------------------------------------------------------------
(* Master keys. *)

-----------------------------------------------------------------------------
(* The invariant. *)

SegRec == [at : Places, key : MasterKeys \cup {NoKey}, by : KeyProcs, late : SUBSET MasterKeys]

JobRec == [at : JobSteps, ring : Keyring, rows : SUBSET (Segments \X MasterKeys),
           moved : SUBSET Segments]

\* The parts of the types that the proofs use.
KeysShape ==
  /\ config \in Keyring
  /\ seg \in [Segments -> SegRec]
  /\ job \in [Jobs -> JobRec]
  /\ safe \subseteq MasterKeys

Seen == keys(config) \cup safe

\* No key is wrapped under, or held by a job, that was not configured once.
KeysKnown ==
  /\ config.active \notin safe
  /\ ring \in [KeyProcs -> Keyring] /\ \A p \in KeyProcs : keys(ring[p]) \subseteq Seen
  /\ \A s \in Segments : seg[s].at \in {"sealed", "stored"} => seg[s].key \in Seen
  /\ \A j \in Jobs : keys(job[j].ring) \subseteq Seen

\* What a job has updated is stored under a key that it takes for retired, and nothing is
\* updated by two jobs at once.
MovesFit ==
  \A j \in Jobs :
    /\ job[j].at # "wrap" => job[j].rows = {} /\ job[j].moved = {}
    /\ \A r \in job[j].rows : r[2] \in job[j].ring.retired
    /\ \A s \in job[j].moved : /\ seg[s].at = "stored" /\ seg[s].key \in job[j].ring.retired
                               /\ \A i \in Jobs \ {j} : s \notin job[i].moved

\* A ring retires keys that are older than its active one.
RingOrdered(r, age) == \A k \in r.retired : age[k] < age[r.active]

\* The keys can be numbered in the order of their promotion.  A key that was declared
\* safe after a payload had been stored is older than the key that wraps it.
Aged(age) ==
  /\ \A k \in Seen : age[k] <= age[config.active]
  /\ \A j \in Jobs : RingOrdered(job[j].ring, age)
  /\ \A s \in Stored : \A k \in safe \ seg[s].late : age[k] < age[seg[s].key]

KeysInv ==
  /\ KeysShape /\ KeysKnown /\ MovesFit
  /\ \E age \in [MasterKeys -> Nat] : Aged(age) /\ RingOrdered(config, age)

-----------------------------------------------------------------------------
(* Types. *)

\* The fields of a payload that a step may write.
LEMMA SegWrites ==
  ASSUME seg \in [Segments -> SegRec], NEW s \in Segments, NEW a \in Places
  PROVE  /\ \A k \in MasterKeys \cup {NoKey} :
              [seg EXCEPT ![s].at = a, ![s].key = k] \in [Segments -> SegRec]
         /\ \A k \in MasterKeys \cup {NoKey}, p \in KeyProcs :
              [seg EXCEPT ![s].at = a, ![s].key = k, ![s].by = p] \in [Segments -> SegRec]
         /\ \A L \in SUBSET MasterKeys :
              [seg EXCEPT ![s].at = a, ![s].late = L] \in [Segments -> SegRec]
<1>1. seg[s] \in SegRec /\ \A e \in SegRec : [seg EXCEPT ![s] = e] \in [Segments -> SegRec]
  OBVIOUS
<1>2. ASSUME NEW k \in MasterKeys \cup {NoKey}
      PROVE  [seg EXCEPT ![s].at = a, ![s].key = k] \in [Segments -> SegRec]
  <2>1. [seg[s] EXCEPT !.at = a, !.key = k] \in SegRec
    BY <1>1 DEF SegRec
  <2>2. QED
    BY <1>1, <2>1
<1>3. ASSUME NEW k \in MasterKeys \cup {NoKey}, NEW p \in KeyProcs
      PROVE  [seg EXCEPT ![s].at = a, ![s].key = k, ![s].by = p] \in [Segments -> SegRec]
  <2>1. [seg[s] EXCEPT !.at = a, !.key = k, !.by = p] \in SegRec
    BY <1>1 DEF SegRec
  <2>2. QED
    BY <1>1, <2>1
<1>4. ASSUME NEW L \in SUBSET MasterKeys
      PROVE  [seg EXCEPT ![s].at = a, ![s].late = L] \in [Segments -> SegRec]
  <2>1. [seg[s] EXCEPT !.at = a, !.late = L] \in SegRec
    BY <1>1 DEF SegRec
  <2>2. QED
    BY <1>1, <2>1
<1>5. QED
  BY <1>2, <1>3, <1>4

\* The fields of a job that a step may write.
LEMMA JobWrites ==
  ASSUME job \in [Jobs -> JobRec], NEW j \in Jobs, NEW a \in JobSteps,
         NEW R \in SUBSET (Segments \X MasterKeys), NEW M \in SUBSET Segments
  PROVE  /\ [job EXCEPT ![j].at = a] \in [Jobs -> JobRec]
         /\ \A r \in Keyring : [job EXCEPT ![j].at = a, ![j].ring = r] \in [Jobs -> JobRec]
         /\ [job EXCEPT ![j].at = a, ![j].rows = R] \in [Jobs -> JobRec]
         /\ [job EXCEPT ![j].at = a, ![j].moved = M] \in [Jobs -> JobRec]
         /\ [job EXCEPT ![j].rows = R, ![j].moved = M] \in [Jobs -> JobRec]
         /\ [job EXCEPT ![j].at = a, ![j].rows = R, ![j].moved = M] \in [Jobs -> JobRec]
<1>1. job[j] \in JobRec /\ \A e \in JobRec : [job EXCEPT ![j] = e] \in [Jobs -> JobRec]
  OBVIOUS
<1>2. [job EXCEPT ![j].at = a] \in [Jobs -> JobRec]
  <2>1. [job[j] EXCEPT !.at = a] \in JobRec
    BY <1>1 DEF JobRec
  <2>2. QED
    BY <1>1, <2>1
<1>3. ASSUME NEW r \in Keyring
      PROVE  [job EXCEPT ![j].at = a, ![j].ring = r] \in [Jobs -> JobRec]
  <2>1. [job[j] EXCEPT !.at = a, !.ring = r] \in JobRec
    BY <1>1 DEF JobRec
  <2>2. QED
    BY <1>1, <2>1
<1>4. [job EXCEPT ![j].at = a, ![j].rows = R] \in [Jobs -> JobRec]
  <2>1. [job[j] EXCEPT !.at = a, !.rows = R] \in JobRec
    BY <1>1 DEF JobRec
  <2>2. QED
    BY <1>1, <2>1
<1>5. [job EXCEPT ![j].at = a, ![j].moved = M] \in [Jobs -> JobRec]
  <2>1. [job[j] EXCEPT !.at = a, !.moved = M] \in JobRec
    BY <1>1 DEF JobRec
  <2>2. QED
    BY <1>1, <2>1
<1>6. [job EXCEPT ![j].rows = R, ![j].moved = M] \in [Jobs -> JobRec]
  <2>1. [job[j] EXCEPT !.rows = R, !.moved = M] \in JobRec
    BY <1>1 DEF JobRec
  <2>2. QED
    BY <1>1, <2>1
<1>7. [job EXCEPT ![j].at = a, ![j].rows = R, ![j].moved = M] \in [Jobs -> JobRec]
  <2>1. [job[j] EXCEPT !.at = a, !.rows = R, !.moved = M] \in JobRec
    BY <1>1 DEF JobRec
  <2>2. QED
    BY <1>1, <2>1
<1>8. QED
  BY <1>2, <1>3, <1>4, <1>5, <1>6, <1>7

\* What the fields of the variables are.
LEMMA KeysFields ==
  ASSUME KeysShape
  PROVE  /\ config.active \in MasterKeys /\ config.retired \in SUBSET MasterKeys
         /\ \A s \in Segments : seg[s].key \in MasterKeys \cup {NoKey}
         /\ \A j \in Jobs : /\ job[j] \in JobRec /\ job[j].ring \in Keyring
                            /\ job[j].ring.active \in MasterKeys
                            /\ job[j].ring.retired \in SUBSET MasterKeys
                            /\ job[j].rows \in SUBSET (Segments \X MasterKeys)
                            /\ job[j].moved \in SUBSET Segments
<1>1. \A j \in Jobs : job[j] \in JobRec
  BY DEF KeysShape
<1>2. \A s \in Segments : seg[s] \in SegRec
  BY DEF KeysShape
<1>3. QED
  BY <1>1, <1>2 DEF KeysShape, JobRec, SegRec, Keyring

-----------------------------------------------------------------------------
(* Steps. *)

\* The configuration and the processes.
LEMMA ConfigurationStep ==
  ASSUME KeysInv,
         \/ \E k \in MasterKeys : Promote(k) \/ DropKey(k)
         \/ \E p \in KeyProcs : RestartWithKeys(p)
  PROVE  KeysInv'
<1>1. PICK age \in [MasterKeys -> Nat] : Aged(age) /\ RingOrdered(config, age)
  BY DEF KeysInv
<1>2. ASSUME NEW k \in MasterKeys, Promote(k) PROVE KeysInv'
  <2>1. k \notin Seen /\ Seen' = Seen \cup {k} /\ config'.active = k /\ config'.retired = keys(config)
    BY <1>2 DEF Promote, Seen, keys
  <2>2. KeysShape'
    BY <1>2 DEF KeysInv, KeysShape, Promote, Keyring, keys
  <2>3. KeysKnown' /\ MovesFit'
    BY <1>2, <2>1 DEF KeysInv, KeysKnown, MovesFit, Promote, Seen
  <2>a. Seen \subseteq MasterKeys /\ config.active \in MasterKeys
    BY DEF KeysInv, KeysShape, Keyring, Seen, keys
  <2>b. [age EXCEPT ![k] = age[config.active] + 1] \in [MasterKeys -> Nat]
    BY <2>a
  <2>c. PICK later \in [MasterKeys -> Nat] : later = [age EXCEPT ![k] = age[config.active] + 1]
    BY <2>b
  <2>4. /\ Seen \subseteq MasterKeys /\ config.active \in MasterKeys
        /\ later[k] = age[config.active] + 1 /\ \A m \in Seen : later[m] = age[m]
    BY <2>1, <2>a, <2>c
  <2>5. \A m \in Seen' : later[m] <= later[k]
    BY <1>1, <2>1, <2>4 DEF Aged
  <2>6. \A j \in Jobs : RingOrdered(job[j].ring, later)
    BY <1>1, <2>4 DEF Aged, RingOrdered, KeysInv, KeysKnown, keys
  <2>7. \A s \in Stored : \A m \in safe \ seg[s].late : later[m] < later[seg[s].key]
    BY <1>1, <2>4 DEF Aged, KeysInv, KeysKnown, Stored, Seen
  <2>8. RingOrdered(config', later)
    BY <1>1, <2>1, <2>4 DEF Aged, RingOrdered, Seen, keys, KeysInv, KeysShape, Keyring
  <2>9. Aged(later)' /\ RingOrdered(config, later)'
    BY <1>2, <2>1, <2>5, <2>6, <2>7, <2>8 DEF Aged, RingOrdered, Promote, Stored
  <2>10. QED
    BY <2>2, <2>3, <2>4, <2>9 DEF KeysInv
<1>3. ASSUME NEW k \in MasterKeys, DropKey(k) PROVE KeysInv'
  <2>1. Seen' = Seen /\ config'.active = config.active /\ config'.retired = config.retired \ {k}
    BY <1>3 DEF DropKey, Seen, keys, KeysInv, KeysShape, Keyring
  <2>2. KeysShape'
    BY <1>3 DEF KeysInv, KeysShape, DropKey, Keyring
  <2>3. KeysKnown' /\ MovesFit'
    BY <1>3, <2>1 DEF KeysInv, KeysKnown, MovesFit, DropKey
  <2>4. Aged(age)' /\ RingOrdered(config, age)'
    BY <1>1, <1>3, <2>1 DEF Aged, RingOrdered, DropKey, Stored
  <2>5. QED
    BY <2>2, <2>3, <2>4 DEF KeysInv
<1>4. ASSUME NEW p \in KeyProcs, RestartWithKeys(p) PROVE KeysInv'
  <2>1. /\ Seen' = Seen
        /\ \A s \in Segments : \/ seg'[s] = seg[s]
                               \/ seg[s].at = "sealed" /\ seg'[s].at = "none"
    <3>1. \A s \in Segments :
            seg'[s] = IF seg[s].at = "sealed" /\ seg[s].by = p
                      THEN [seg[s] EXCEPT !.at = "none", !.key = NoKey] ELSE seg[s]
      BY <1>4 DEF RestartWithKeys
    <3>2. \A s \in Segments : seg[s] \in SegRec
      BY DEF KeysInv, KeysShape
    <3>3. \A s \in Segments : \/ seg'[s] = seg[s]
                              \/ seg[s].at = "sealed" /\ seg'[s].at = "none"
      BY <3>1, <3>2 DEF SegRec
    <3>4. QED
      BY <1>4, <3>3 DEF RestartWithKeys, Seen
  <2>2. KeysShape'
    <3>1. ASSUME NEW s \in Segments
          PROVE  (IF seg[s].at = "sealed" /\ seg[s].by = p
                  THEN [seg[s] EXCEPT !.at = "none", !.key = NoKey] ELSE seg[s]) \in SegRec
      <4>1. seg[s] \in SegRec
        BY DEF KeysInv, KeysShape
      <4>2. QED
        BY <4>1 DEF SegRec, Places
    <3>2. seg' \in [Segments -> SegRec]
      BY <1>4, <3>1 DEF RestartWithKeys
    <3>3. QED
      BY <1>4, <3>2 DEF KeysInv, KeysShape, RestartWithKeys
  <2>3. KeysKnown'
    <3>1. ring' \in [KeyProcs -> Keyring] /\ \A q \in KeyProcs : ring'[q] \in {ring[q], config}
      BY <1>4 DEF RestartWithKeys, KeysInv, KeysKnown, KeysShape
    <3>2. \A q \in KeyProcs : keys(ring'[q]) \subseteq Seen
      BY <3>1 DEF KeysInv, KeysKnown, Seen
    <3>3. \A s \in Segments : seg'[s].at \in {"sealed", "stored"} => seg'[s].key \in Seen
      BY <2>1 DEF KeysInv, KeysKnown
    <3>4. QED
      <4>1. UNCHANGED <<config, job, safe>>
        BY <1>4 DEF RestartWithKeys
      <4>2. QED
        BY <4>1, <2>1, <3>1, <3>2, <3>3 DEF KeysInv, KeysKnown
  <2>4. MovesFit'
    <3>1. \A j \in Jobs : job'[j] = job[j] /\ job[j].moved \subseteq Segments
      BY <1>4, KeysFields DEF RestartWithKeys, KeysInv
    <3>2. \A s \in Segments : seg[s].at = "stored" => seg'[s] = seg[s]
      BY <2>1
    <3>3. QED
      BY <3>1, <3>2 DEF KeysInv, MovesFit
  <2>5. Stored' = Stored /\ \A s \in Stored : seg'[s] = seg[s]
    BY <2>1 DEF Stored
  <2>6. Aged(age)' /\ RingOrdered(config, age)'
    BY <1>1, <1>4, <2>1, <2>5 DEF Aged, RingOrdered, RestartWithKeys
  <2>7. QED
    BY <2>2, <2>3, <2>4, <2>6 DEF KeysInv
<1>5. QED
  BY <1>2, <1>3, <1>4

\* What processes do with payloads.
LEMMA PayloadStep ==
  ASSUME KeysInv, NEW s \in Segments,
         (\E p \in KeyProcs : seal(p, s)) \/ StoreSegment(s) \/ delete_payload(s)
  PROVE  KeysInv'
<1>1. PICK age \in [MasterKeys -> Nat] : Aged(age) /\ RingOrdered(config, age)
  BY DEF KeysInv
<1>2. UNCHANGED <<config, ring, job, safe>> /\ Seen' = Seen
  BY DEF seal, StoreSegment, delete_payload, Seen
<1>3. KeysShape'
  <2>1. seg \in [Segments -> SegRec] /\ safe \in SUBSET MasterKeys
        /\ {"sealed", "stored", "erased"} \subseteq Places
        /\ \A p \in KeyProcs : ring[p].active \in MasterKeys
    BY DEF KeysInv, KeysShape, KeysKnown, Keyring, Places
  <2>2. seg' \in [Segments -> SegRec]
    <3>1. CASE \E p \in KeyProcs : seal(p, s)
      <4>1. PICK p \in KeyProcs :
              seg' = [seg EXCEPT ![s].at = "sealed", ![s].key = ring[p].active, ![s].by = p]
        BY <3>1 DEF seal
      <4>2. PICK k \in MasterKeys \cup {NoKey} :
              seg' = [seg EXCEPT ![s].at = "sealed", ![s].key = k, ![s].by = p]
        BY <2>1, <4>1
      <4>3. QED
        BY <2>1, <4>2, SegWrites
    <3>2. CASE StoreSegment(s)
      <4>1. PICK L \in SUBSET MasterKeys : seg' = [seg EXCEPT ![s].at = "stored", ![s].late = L]
        BY <2>1, <3>2 DEF StoreSegment
      <4>2. QED
        BY <2>1, <4>1, SegWrites
    <3>3. CASE delete_payload(s)
      <4>1. PICK k \in MasterKeys \cup {NoKey} : seg' = [seg EXCEPT ![s].at = "erased", ![s].key = k]
        BY <3>3 DEF delete_payload
      <4>2. QED
        BY <2>1, <4>1, SegWrites
    <3>4. QED
      BY <3>1, <3>2, <3>3
  <2>3. QED
    BY <1>2, <2>2 DEF KeysInv, KeysShape
<1>4. \A t \in Segments \ {s} : seg'[t] = seg[t]
  BY DEF seal, StoreSegment, delete_payload, KeysInv, KeysShape
<1>5. \A j \in Jobs : s \notin job[j].moved
  BY DEF KeysInv, MovesFit, seal, StoreSegment, delete_payload, Held
<1>6. seg'[s].at \in {"sealed", "stored"} => seg'[s].key \in Seen
  <2>1. CASE \E p \in KeyProcs : seal(p, s)
    <3>1. PICK p \in KeyProcs :
            seg' = [seg EXCEPT ![s].at = "sealed", ![s].key = ring[p].active, ![s].by = p]
      BY <2>1 DEF seal
    <3>2. seg \in [Segments -> SegRec] /\ seg[s] \in SegRec
      BY DEF KeysInv, KeysShape
    <3>3. seg'[s].key = ring[p].active
      BY <3>1, <3>2 DEF SegRec
    <3>4. QED
      BY <3>3 DEF KeysInv, KeysKnown, keys
  <2>2. CASE StoreSegment(s)
    BY <2>2 DEF StoreSegment, KeysInv, KeysShape, KeysKnown
  <2>3. CASE delete_payload(s)
    BY <2>3 DEF delete_payload, KeysInv, KeysShape
  <2>4. QED
    BY <2>1, <2>2, <2>3
<1>7. KeysKnown' /\ MovesFit'
  <2>1. \A t \in Segments : seg'[t].at \in {"sealed", "stored"} => seg'[t].key \in Seen
    BY <1>4, <1>6 DEF KeysInv, KeysKnown
  <2>2. \A j \in Jobs : job[j].moved \subseteq Segments \ {s}
    BY <1>5, KeysFields DEF KeysInv
  <2>3. KeysKnown'
    BY <1>2, <2>1 DEF KeysInv, KeysKnown
  <2>4. QED
    BY <1>2, <1>4, <2>2, <2>3 DEF KeysInv, MovesFit
<1>8. seg'[s].at = "stored" => seg'[s].late = safe
  <2>1. seg \in [Segments -> SegRec] /\ seg[s] \in SegRec
    BY DEF KeysInv, KeysShape
  <2>2. CASE \E p \in KeyProcs : seal(p, s)
    <3>1. PICK p \in KeyProcs :
            seg' = [seg EXCEPT ![s].at = "sealed", ![s].key = ring[p].active, ![s].by = p]
      BY <2>2 DEF seal
    <3>2. QED
      BY <2>1, <3>1 DEF SegRec
  <2>3. CASE StoreSegment(s)
    BY <2>1, <2>3 DEF StoreSegment, SegRec
  <2>4. CASE delete_payload(s)
    BY <2>1, <2>4 DEF delete_payload, SegRec
  <2>5. QED
    BY <2>2, <2>3, <2>4
<1>9. Aged(age)' /\ RingOrdered(config, age)'
  BY <1>1, <1>2, <1>4, <1>8 DEF Aged, RingOrdered, Stored
<1>10. QED
  BY <1>3, <1>7, <1>9 DEF KeysInv

\* A round of a job.
LEMMA JobStep ==
  ASSUME KeysInv, NEW j \in Jobs,
         \/ StartJob(j) \/ SelectBatch(j) \/ CommitBatch(j) \/ JobDies(j) \/ Report(j)
         \/ \E s \in Segments, k \in MasterKeys : Rewrap(j, s, k)
  PROVE  KeysInv'
<1>1. PICK age \in [MasterKeys -> Nat] : Aged(age) /\ RingOrdered(config, age)
  BY DEF KeysInv
<1>2. CASE StartJob(j)
  <2>1. /\ \A i \in Jobs : job'[i] = job[i] \/ /\ job'[i].ring = config
                                               /\ job'[i].rows = {} /\ job'[i].moved = {}
        /\ UNCHANGED <<config, ring, seg, safe>>
    <3>1. job \in [Jobs -> JobRec] /\ job[j] \in JobRec
      BY DEF KeysInv, KeysShape
    <3>2. job[j].at = "new" /\ job[j].rows = {} /\ job[j].moved = {}
      BY <1>2 DEF StartJob, KeysInv, MovesFit
    <3>3. PICK a \in JobSteps : job' = [job EXCEPT ![j].at = a, ![j].ring = config] /\ a # "wrap"
      BY <1>2 DEF StartJob, JobSteps
    <3>4. /\ \A i \in Jobs \ {j} : job'[i] = job[i]
          /\ job'[j].ring = config /\ job'[j].rows = {} /\ job'[j].moved = {}
      BY <3>1, <3>2, <3>3 DEF JobRec
    <3>5. QED
      BY <1>2, <3>4 DEF StartJob
  <2>2. KeysShape'
    <3>1. PICK a \in JobSteps : job' = [job EXCEPT ![j].at = a, ![j].ring = config]
      BY <1>2 DEF StartJob, JobSteps
    <3>2. job' \in [Jobs -> JobRec]
      BY <3>1, JobWrites DEF KeysInv, KeysShape
    <3>3. QED
      BY <1>2, <3>2 DEF StartJob, KeysInv, KeysShape
  <2>3. KeysKnown' /\ MovesFit'
    BY <2>1 DEF KeysInv, KeysKnown, MovesFit, Seen
  <2>4. Aged(age)' /\ RingOrdered(config, age)'
    BY <1>1, <2>1 DEF Aged, RingOrdered, Seen, Stored
  <2>5. QED
    BY <2>2, <2>3, <2>4 DEF KeysInv
<1>3. CASE SelectBatch(j)
  <2>1. PICK S \in SUBSET Pending(j) :
          job' = [job EXCEPT ![j].at = "wrap", ![j].rows = {<<s, seg[s].key>> : s \in S}]
    BY <1>3 DEF SelectBatch
  <2>2. UNCHANGED <<config, ring, seg, safe>> /\ job[j].at = "select"
    BY <1>3 DEF SelectBatch
  <2>3. /\ \A i \in Jobs : job'[i].ring = job[i].ring /\ job'[i].moved = job[i].moved
        /\ \A i \in Jobs \ {j} : job'[i] = job[i]
        /\ job'[j].at = "wrap" /\ \A r \in job'[j].rows : r[2] \in job[j].ring.retired
    BY <2>1 DEF KeysInv, KeysShape, Pending
  <2>4. KeysShape'
    <3>1. \A s \in S : s \in Segments /\ seg[s].key \in MasterKeys
      BY KeysFields DEF KeysInv, Pending, Stored
    <3>2. {<<s, seg[s].key>> : s \in S} \in SUBSET (Segments \X MasterKeys) /\ "wrap" \in JobSteps
      BY <3>1 DEF JobSteps
    <3>3. job' \in [Jobs -> JobRec]
      BY <2>1, <3>2, JobWrites DEF KeysInv, KeysShape
    <3>4. QED
      BY <2>2, <3>3 DEF KeysInv, KeysShape
  <2>5. KeysKnown' /\ MovesFit'
    BY <2>2, <2>3 DEF KeysInv, KeysKnown, MovesFit, Seen
  <2>6. Aged(age)' /\ RingOrdered(config, age)'
    BY <1>1, <2>2, <2>3 DEF Aged, RingOrdered, Seen, Stored
  <2>7. QED
    BY <2>4, <2>5, <2>6 DEF KeysInv
<1>4. CASE CommitBatch(j)
  <2>1. /\ UNCHANGED <<config, ring, safe>>
        /\ \A i \in Jobs : job'[i].ring = job[i].ring
        /\ \A i \in Jobs \ {j} : job'[i] = job[i]
        /\ job'[j].rows = {} /\ job'[j].moved = {}
    BY <1>4 DEF CommitBatch, KeysInv, KeysShape
  <2>2. \A s \in Segments :
          /\ seg'[s].at = seg[s].at /\ seg'[s].late = seg[s].late
          /\ seg'[s].key = IF s \in job[j].moved THEN job[j].ring.active ELSE seg[s].key
    BY <1>4 DEF CommitBatch, KeysInv, KeysShape
  <2>3. KeysShape'
    <3>1. PICK a \in JobSteps : job' = [job EXCEPT ![j].at = a, ![j].moved = {}]
      BY <1>4 DEF CommitBatch, NextStep, JobSteps
    <3>2. job' \in [Jobs -> JobRec]
      BY <3>1, JobWrites DEF KeysInv, KeysShape
    <3>3. ASSUME NEW s \in Segments
          PROVE  (IF s \in job[j].moved THEN [seg[s] EXCEPT !.key = job[j].ring.active] ELSE seg[s])
                   \in SegRec
      <4>1. seg[s] \in SegRec /\ job[j].ring.active \in MasterKeys
        BY KeysFields DEF KeysInv, KeysShape
      <4>2. QED
        BY <4>1 DEF SegRec
    <3>4. seg' \in [Segments -> SegRec]
      BY <1>4, <3>3 DEF CommitBatch
    <3>5. QED
      BY <1>4, <3>2, <3>4 DEF CommitBatch, KeysInv, KeysShape
  <2>4. KeysKnown'
    BY <2>1, <2>2 DEF KeysInv, KeysKnown, Seen, keys
  <2>5. MovesFit'
    <3>1. ASSUME NEW i \in Jobs \ {j}, NEW s \in job[i].moved
          PROVE  seg'[s].at = "stored" /\ seg'[s].key = seg[s].key
      <4>1. s \in Segments /\ s \notin job[j].moved
        BY KeysFields DEF KeysInv, MovesFit
      <4>2. QED
        BY <2>2, <4>1 DEF KeysInv, MovesFit
    <3>2. QED
      BY <2>1, <3>1 DEF KeysInv, MovesFit
  <2>6. Stored' = Stored
    BY <2>2 DEF Stored
  <2>7. ASSUME NEW s \in Stored, NEW k \in safe \ seg[s].late PROVE age[k] < age[seg'[s].key]
    <3>1. age[k] < age[seg[s].key] /\ s \in Segments
      BY <1>1, <2>7 DEF Aged, Stored
    <3>2. CASE s \in job[j].moved
      <4>1. seg[s].key \in job[j].ring.retired
        BY <3>2 DEF KeysInv, MovesFit
      <4>2. age[seg[s].key] < age[job[j].ring.active]
        BY <1>1, <4>1 DEF Aged, RingOrdered
      <4>3. {k, seg[s].key, job[j].ring.active} \subseteq MasterKeys
        BY <2>7, <4>1, KeysFields DEF KeysInv, KeysShape
      <4>4. QED
        BY <2>2, <3>1, <3>2, <4>2, <4>3
    <3>3. CASE s \notin job[j].moved
      BY <2>2, <3>1, <3>3
    <3>4. QED
      BY <3>2, <3>3
  <2>8. Aged(age)' /\ RingOrdered(config, age)'
    BY <1>1, <2>1, <2>2, <2>6, <2>7 DEF Aged, RingOrdered, Seen, Stored
  <2>9. QED
    BY <2>3, <2>4, <2>5, <2>8 DEF KeysInv
<1>5. CASE JobDies(j)
  <2>1. /\ UNCHANGED <<config, ring, seg, safe>>
        /\ \A i \in Jobs : job'[i].ring = job[i].ring
        /\ \A i \in Jobs \ {j} : job'[i] = job[i]
        /\ job'[j].rows = {} /\ job'[j].moved = {}
    BY <1>5 DEF JobDies, KeysInv, KeysShape
  <2>2. KeysShape'
    <3>1. job' \in [Jobs -> JobRec]
      BY <1>5, JobWrites DEF JobDies, KeysInv, KeysShape, JobSteps
    <3>2. QED
      BY <1>5, <3>1 DEF JobDies, KeysInv, KeysShape
  <2>3. KeysKnown' /\ MovesFit'
    BY <2>1 DEF KeysInv, KeysKnown, MovesFit, Seen
  <2>4. Aged(age)' /\ RingOrdered(config, age)'
    BY <1>1, <2>1 DEF Aged, RingOrdered, Seen, Stored
  <2>5. QED
    BY <2>2, <2>3, <2>4 DEF KeysInv
<1>6. CASE Report(j)
  <2>1. /\ UNCHANGED <<config, ring, seg>>
        /\ \A i \in Jobs : /\ job'[i].ring = job[i].ring
                           /\ job'[i].rows = job[i].rows /\ job'[i].moved = job[i].moved
        /\ \A i \in Jobs : job'[i].at = job[i].at \/ job[i].at = "report"
    BY <1>6 DEF Report, KeysInv, KeysShape
  <2>2. CASE safe' = safe
    <3>1. KeysShape'
      <4>1. "over" \in JobSteps /\ job' = [job EXCEPT ![j].at = "over"]
        BY <1>6 DEF Report, JobSteps
      <4>2. job' \in [Jobs -> JobRec]
        BY <4>1, JobWrites DEF KeysInv, KeysShape
      <4>3. QED
        BY <2>1, <2>2, <4>2 DEF KeysInv, KeysShape
    <3>2. KeysKnown' /\ MovesFit'
      BY <2>1, <2>2 DEF KeysInv, KeysKnown, MovesFit, Seen
    <3>3. Aged(age)' /\ RingOrdered(config, age)'
      BY <1>1, <2>1, <2>2 DEF Aged, RingOrdered, Seen, Stored
    <3>4. QED
      BY <3>1, <3>2, <3>3 DEF KeysInv
  <2>3. CASE safe' = safe \cup job[j].ring.retired /\ \A s \in Stored : seg[s].key = job[j].ring.active
    <3>1. Seen' = Seen
      BY <2>1, <2>3 DEF KeysInv, KeysKnown, Seen, keys
    <3>2. KeysShape'
      <4>1. "over" \in JobSteps /\ job' = [job EXCEPT ![j].at = "over"]
        BY <1>6 DEF Report, JobSteps
      <4>2. job' \in [Jobs -> JobRec]
        BY <4>1, JobWrites DEF KeysInv, KeysShape
      <4>3. safe' \subseteq MasterKeys
        BY <2>3, KeysFields DEF KeysInv, KeysShape
      <4>4. QED
        BY <1>6, <4>2, <4>3 DEF Report, KeysInv, KeysShape
    <3>3. config.active \notin job[j].ring.retired
      <4>1. {config.active, job[j].ring.active} \subseteq MasterKeys /\ job[j].ring.active \in Seen
        BY KeysFields DEF KeysInv, KeysKnown, keys
      <4>2. age[job[j].ring.active] <= age[config.active]
        BY <1>1, <4>1 DEF Aged
      <4>3. config.active \in job[j].ring.retired => age[config.active] < age[job[j].ring.active]
        BY <1>1 DEF Aged, RingOrdered
      <4>4. QED
        BY <4>1, <4>2, <4>3
    <3>4. KeysKnown' /\ MovesFit'
      BY <2>1, <2>3, <3>1, <3>3 DEF KeysInv, KeysKnown, MovesFit
    <3>5. \A s \in Stored : \A k \in safe' \ seg[s].late : age[k] < age[seg[s].key]
      BY <1>1, <2>3 DEF Aged, RingOrdered
    <3>6. Aged(age)' /\ RingOrdered(config, age)'
      BY <1>1, <2>1, <3>1, <3>5 DEF Aged, RingOrdered, Stored
    <3>7. QED
      BY <3>2, <3>4, <3>6 DEF KeysInv
  <2>4. QED
    BY <1>6, <2>2, <2>3 DEF Report
<1>7. ASSUME NEW s \in Segments, NEW k \in MasterKeys, Rewrap(j, s, k) PROVE KeysInv'
  <2>1. /\ UNCHANGED <<config, ring, seg, safe>> /\ job[j].at = "wrap"
        /\ \A i \in Jobs : job'[i].ring = job[i].ring /\ job'[i].at = job[i].at
        /\ \A i \in Jobs \ {j} : job'[i] = job[i] /\ s \notin job[i].moved
        /\ job'[j].rows \subseteq job[j].rows
        /\ job'[j].moved = job[j].moved
             \/ /\ job'[j].moved = job[j].moved \cup {s}
                /\ seg[s].at = "stored" /\ seg[s].key = k
        /\ k \in job[j].ring.retired
    <3>1. job \in [Jobs -> JobRec] /\ job[j] \in JobRec
      BY DEF KeysInv, KeysShape
    <3>2. /\ job[j].at = "wrap" /\ <<s, k>> \in job[j].rows /\ UNCHANGED <<config, ring, seg, safe>>
          /\ \A i \in Jobs \ {j} : s \notin job[i].moved
          /\ job' = [job EXCEPT ![j].rows = @ \ {<<s, k>>},
                                ![j].moved = IF Matches(s, k) THEN @ \cup {s} ELSE @]
      BY <1>7 DEF Rewrap
    <3>3. /\ job'[j].rows = job[j].rows \ {<<s, k>>} /\ job'[j].ring = job[j].ring
          /\ job'[j].at = job[j].at
          /\ job'[j].moved = IF Matches(s, k) THEN job[j].moved \cup {s} ELSE job[j].moved
          /\ \A i \in Jobs \ {j} : job'[i] = job[i]
      BY <3>1, <3>2 DEF JobRec
    <3>4. k \in job[j].ring.retired
      BY <3>2 DEF KeysInv, MovesFit
    <3>5. QED
      BY <3>2, <3>3, <3>4 DEF Matches
  <2>2. KeysShape'
    <3>1. job[j].rows \ {<<s, k>>} \in SUBSET (Segments \X MasterKeys)
          /\ (IF Matches(s, k) THEN job[j].moved \cup {s} ELSE job[j].moved) \in SUBSET Segments
      BY KeysFields DEF KeysInv
    <3>2. PICK R \in SUBSET (Segments \X MasterKeys), M \in SUBSET Segments :
            job' = [job EXCEPT ![j].rows = R, ![j].moved = M]
      BY <1>7, <3>1 DEF Rewrap
    <3>3. job' \in [Jobs -> JobRec]
      <4>1. "wrap" \in JobSteps
        BY DEF JobSteps
      <4>2. QED
        BY <3>2, <4>1, JobWrites DEF KeysInv, KeysShape
    <3>4. QED
      BY <1>7, <3>3 DEF Rewrap, KeysInv, KeysShape
  <2>3. KeysKnown'
    BY <2>1 DEF KeysInv, KeysKnown, Seen
  <2>4. MovesFit'
    BY <2>1 DEF KeysInv, MovesFit
  <2>5. Aged(age)' /\ RingOrdered(config, age)'
    BY <1>1, <2>1 DEF Aged, RingOrdered, Seen, Stored
  <2>6. QED
    BY <2>2, <2>3, <2>4, <2>5 DEF KeysInv
<1>8. QED
  BY <1>2, <1>3, <1>4, <1>5, <1>6, <1>7

-----------------------------------------------------------------------------
(* The theorem. *)

LEMMA KeysInvInit ==
  ASSUME KeysInit
  PROVE  KeysInv
<1>1. PICK k \in MasterKeys :
        /\ config = [active |-> k, retired |-> {}] /\ ring = [p \in KeyProcs |-> config]
        /\ job = [j \in Jobs |-> [at |-> "new", ring |-> config, rows |-> {}, moved |-> {}]]
  BY DEF KeysInit
<1>2. PICK p \in KeyProcs :
        seg = [s \in Segments |-> [at |-> "none", key |-> NoKey, by |-> p, late |-> {}]]
  BY DEF KeysInit
<1>3. safe = {}
  BY DEF KeysInit
<1>4. config \in Keyring /\ KeysShape
  BY <1>1, <1>2, <1>3 DEF KeysShape, Keyring, JobSteps, Places, SegRec, JobRec
<1>5. KeysKnown /\ MovesFit
  BY <1>1, <1>2, <1>3, <1>4 DEF KeysKnown, MovesFit, Seen, keys
<1>6. [m \in MasterKeys |-> 0] \in [MasterKeys -> Nat]
  OBVIOUS
<1>7. Aged([m \in MasterKeys |-> 0]) /\ RingOrdered(config, [m \in MasterKeys |-> 0])
  BY <1>1, <1>2, <1>3 DEF Aged, RingOrdered, Seen, Stored, keys
<1>8. QED
  BY <1>4, <1>5, <1>6, <1>7 DEF KeysInv

\* What the invariant says of a process with the current configuration.
LEMMA KeysInvReadable ==
  ASSUME KeysInv
  PROVE  ReadableUnlessLate
<1>1. PICK age \in [MasterKeys -> Nat] : Aged(age) /\ RingOrdered(config, age)
  BY DEF KeysInv
<1>2. SUFFICES ASSUME NEW p \in KeyProcs, ring[p] = config, NEW s \in unreadable_segments(p),
                      seg[s].key \notin seg[s].late
               PROVE  FALSE
  BY DEF ReadableUnlessLate
<1>3. s \in Stored /\ seg[s].key \notin keys(config)
  BY <1>2 DEF unreadable_segments, get_payload, Stored
<1>4. seg[s].key \in safe
  BY <1>3 DEF KeysInv, KeysKnown, Seen, Stored
<1>5. age[seg[s].key] < age[seg[s].key] /\ seg[s].key \in MasterKeys
  BY <1>1, <1>2, <1>3, <1>4 DEF Aged, KeysInv, KeysShape
<1>6. QED
  BY <1>5

\* A process with the current configuration reads every payload that was stored before its
\* key was declared safe, for any number of keys, jobs and rounds that overlap
\* (key_rotation.py:72-125).
THEOREM PayloadsStayReadable == KeysSpec => []ReadableUnlessLate
<1>1. KeysInv /\ [KeysNext]_keysVars => KeysInv'
  <2>1. ASSUME KeysInv, KeysNext PROVE KeysInv'
    BY <2>1, ConfigurationStep, PayloadStep, JobStep DEF KeysNext
  <2>2. ASSUME KeysInv, UNCHANGED keysVars PROVE KeysInv'
    BY <2>2 DEF keysVars, KeysInv, KeysShape, KeysKnown, MovesFit, Aged, RingOrdered, Seen, Stored
  <2>3. QED
    BY <2>1, <2>2
<1>2. QED
  BY <1>1, KeysInvInit, KeysInvReadable, PTL DEF KeysSpec

===============================================================================
