---------------------------- MODULE DeliveryProofs ----------------------------
(***************************************************************************)
(* Proofs about the delivery of what the tap has recorded, for any number  *)
(* of processes, events, files and faults.                                 *)
(***************************************************************************)
EXTENDS Delivery, NaturalsInduction, WellFoundedInduction, TLAPS

-----------------------------------------------------------------------------
(* Files and their order. *)

\* Every set of files that is not empty has an oldest file.
LEMMA OldestFirst ==
  ASSUME NEW S \in SUBSET Nat, S # {}
  PROVE  Oldest(S) \in S /\ \A m \in S : Oldest(S) <= m
<1>1. \E n \in S : \A m \in S : ~(<<m, n>> \in OpToRel(<, Nat))
  BY NatLessThanWellFounded, WFMin
<1>2. \E n \in S : \A m \in S : ~(m < n)
  BY <1>1, Zenon DEF OpToRel
<1>3. \E n \in S : \A m \in S : n <= m
  BY <1>2
<1>4. QED
  BY <1>3, Zenon DEF Oldest

\* Files that a sender sees, or saw before they were settled.
Visible == Files \ tmp

\* The older ones among them of the same process.
Before(n) == {m \in Visible : m < n /\ batch[m].by = batch[n].by}

\* A file goes from the spool only when it is settled.
FilesAccounted == Visible \subseteq spool \cup Settled

\* What is older than a file on the list of a sender, and of the same process, is on the
\* list as well or settled.
ListsComplete ==
  \A s \in Senders :
    /\ sender[s].todo \subseteq Visible
    /\ \A m \in sender[s].todo : Before(m) \subseteq sender[s].todo \cup Settled

\* A request is about the oldest file of a list; one that was answered with 200 is recorded.
RequestsFit ==
  \A s \in Senders :
    /\ sender[s].at = "posted" <=> sender[s].call # "none"
    /\ sender[s].at = "posted" => sender[s].todo # {}
    /\ sender[s].call = "200" => Oldest(sender[s].todo) \in recorded

\* The same for a batch that may be handled late, and for one that is settled.
LateInOrder == \A n \in late : n \in Visible /\ Before(n) \subseteq Settled

FileOrder == \A n \in Settled : n \in Visible /\ Before(n) \subseteq Settled

\* The file that a process writes is the youngest of its files and gets what is in the
\* buffer.
WritesFit ==
  \A p \in Procs :
    /\ buffer[p] <= emitted[p]
    /\ writing[p] # 0 =>
         /\ life[p] # "down" /\ writing[p] \in tmp /\ buffer[p] # 0
         /\ batch[writing[p]].by = p /\ batch[writing[p]].upto = emitted[p]
         /\ batch[writing[p]].from = emitted[p] - buffer[p] + 1
         /\ \A m \in Files : batch[m].by = p => m <= writing[p]

OrderInv ==
  /\ TypeOK /\ spool \subseteq Visible /\ WritesFit
  /\ FilesAccounted /\ ListsComplete /\ RequestsFit /\ LateInOrder /\ FileOrder

\* A step that names and renames no file.
LEMMA SameFiles ==
  ASSUME UNCHANGED <<batch, tmp>>
  PROVE  Files' = Files /\ Visible' = Visible /\ \A m \in Files : Before(m)' = Before(m)
BY DEF Files, Visible, Before

\* The oldest file on a list: all that is older is settled.
LEMMA OldestIsNext ==
  ASSUME TypeOK, ListsComplete, NEW s \in Senders, sender[s].todo # {}
  PROVE  LET n == Oldest(sender[s].todo)
         IN  n \in sender[s].todo /\ n \in Visible /\ Before(n) \subseteq Settled
<1>1. sender[s].todo \in SUBSET Nat
  BY DEF TypeOK, SenderStates
<1>2. QED
  <2> DEFINE n == Oldest(sender[s].todo)
  <2>1. n \in sender[s].todo /\ \A m \in sender[s].todo : n <= m
    BY <1>1, OldestFirst
  <2>2. sender[s].todo \subseteq Visible /\ Before(n) \subseteq sender[s].todo \cup Settled
    BY <2>1 DEF ListsComplete
  <2>3. \A m \in Before(n) : m < n /\ m \in Nat /\ n \in Nat
    BY <1>1, <2>1 DEF Before, Visible, Files
  <2>4. \A m \in Before(n) : m \notin sender[s].todo
    BY <2>1, <2>3
  <2>5. QED
    BY <2>1, <2>2, <2>4

-----------------------------------------------------------------------------
(* Types. *)

\* A sender that is not on its round.
LEMMA OffType == \A a \in {"off", "wait", "awake", "write", "list", "done", "dead"} : Off(a) \in SenderStates
  BY DEF Off, SenderStates

\* What Become does to the senders.
LEMMA BecomeOne ==
  ASSUME sender \in [Senders -> SenderStates], NEW s \in Senders, NEW state \in SenderStates,
         Become(s, state)
  PROVE  /\ sender' \in [Senders -> SenderStates] /\ sender'[s] = state
         /\ \A t \in Senders \ {s} : sender'[t] = sender[t]
  BY DEF Become

\* Before anything is handed over no file is written.
LEMMA NothingWritten ==
  ASSUME \A p \in Procs : buffer[p] = 0 /\ emitted[p] = 0 /\ writing[p] = 0
  PROVE  WritesFit
<1>1. 0 <= 0
  OBVIOUS
<1>2. \A p \in Procs : buffer[p] <= emitted[p]
  BY <1>1, Zenon
<1>3. QED
  BY <1>2, Zenon DEF WritesFit

LEMMA DeliveryInit == Init => OrderInv
<1> SUFFICES ASSUME Init PROVE OrderInv
  OBVIOUS
<1> USE DeliveryAssumption DEF Init, Off, Senders
<1>1. TypeOK
  <2>1. ASSUME NEW a \in {"wait", "off"} PROVE Off(a) \in SenderStates
    BY OffType
  <2>2. sender \in [Senders -> SenderStates]
    <3> HIDE DEF Off
    <3> QED
      BY <2>1
  <2>3. batch \in Seq(Batch)
    OBVIOUS
  <2>4. QED
    BY <2>2, <2>3 DEF TypeOK
<1>2. /\ spool \subseteq Visible /\ WritesFit
      /\ FilesAccounted /\ ListsComplete /\ RequestsFit /\ LateInOrder /\ FileOrder
  <2>1. Files = {} /\ Settled = {} /\ late = {} /\ spool = {} /\ Visible = {}
    BY DEF Files, Settled, Visible
  <2>2. \A s \in Senders : /\ sender[s].todo = {} /\ sender[s].call = "none"
                           /\ sender[s].at \in {"wait", "off"}
    OBVIOUS
  <2>3. \A p \in Procs : buffer[p] = 0 /\ emitted[p] = 0 /\ writing[p] = 0
    OBVIOUS
  <2>4. WritesFit
    BY <2>3, NothingWritten
  <2>5. QED
    BY <2>1, <2>2, <2>4 DEF FilesAccounted, ListsComplete, RequestsFit, LateInOrder, FileOrder
<1>3. QED
  BY <1>1, <1>2 DEF OrderInv

-----------------------------------------------------------------------------
(* The steps of a round. *)

\* A sender that goes on with a list as complete as the one it had.
LEMMA RoundStep ==
  ASSUME OrderInv, UNCHANGED <<batch, tmp>>, recorded \subseteq recorded', Settled \subseteq Settled',
         NEW s \in Senders, NEW state \in SenderStates, Become(s, state),
         state.at = "posted" <=> state.call # "none",
         state.at = "posted" => state.todo # {},
         state.call = "200" => Oldest(state.todo) \in recorded',
         state.todo \subseteq Visible,
         \A m \in state.todo : Before(m) \subseteq state.todo \cup Settled'
  PROVE  /\ Files' = Files
         /\ sender' \in [Senders -> SenderStates] /\ ListsComplete' /\ RequestsFit'
<1>1. /\ sender' \in [Senders -> SenderStates] /\ sender'[s] = state
      /\ \A t \in Senders \ {s} : sender'[t] = sender[t]
  BY BecomeOne DEF OrderInv, TypeOK
<1>2. /\ Files' = Files /\ Visible' = Visible /\ Visible \subseteq Files
      /\ \A m \in Files : Before(m)' = Before(m)
  BY SameFiles DEF Visible
<1>3. ListsComplete'
  <2>1. state.todo \subseteq Files /\ \A t \in Senders : sender[t].todo \subseteq Files
    BY <1>2 DEF ListsComplete, OrderInv
  <2>2. QED
    BY <1>1, <1>2, <2>1 DEF ListsComplete, OrderInv
<1>4. RequestsFit'
  BY <1>1 DEF RequestsFit, OrderInv
<1>5. QED
  BY <1>1, <1>2, <1>3, <1>4

\* A sender whose round is over: it has no list.
LEMMA IdleStep ==
  ASSUME OrderInv, UNCHANGED <<batch, tmp>>, recorded \subseteq recorded', Settled \subseteq Settled',
         NEW s \in Senders, NEW a \in {"off", "wait", "awake", "write", "list", "done", "dead"}, Become(s, Off(a))
  PROVE  /\ Files' = Files
         /\ sender' \in [Senders -> SenderStates] /\ ListsComplete' /\ RequestsFit'
<1>1. /\ Off(a) \in SenderStates /\ Off(a).todo = {} /\ Off(a).call = "none"
      /\ Off(a).at # "posted"
  BY OffType DEF Off
<1> HIDE DEF Off
<1>2. QED
  BY <1>1, RoundStep

\* The end of a round.
LEMMA EndRoundIdle ==
  ASSUME NEW s \in Senders, EndRound(s)
  PROVE  \E a \in {"wait", "done"} : Become(s, Off(a))
BY DEF EndRound

\* A sender that has done with the oldest file of its list.
LEMMA FinishedStep ==
  ASSUME OrderInv, UNCHANGED <<batch, tmp>>, recorded \subseteq recorded', Settled \subseteq Settled',
         NEW s \in Senders, sender[s].todo # {}, Oldest(sender[s].todo) \in Settled',
         \/ Finished(s)
         \/ /\ sender[s].at = "next"
            /\ Become(s, [sender[s] EXCEPT !.todo = @ \ {Oldest(sender[s].todo)}, !.tried = TRUE])
  PROVE  /\ Files' = Files
         /\ sender' \in [Senders -> SenderStates] /\ ListsComplete' /\ RequestsFit'
<1> DEFINE todo == sender[s].todo \ {Oldest(sender[s].todo)}
<1>1. sender[s] \in SenderStates
  BY DEF OrderInv, TypeOK
<1>2. \E state \in SenderStates :
        state.todo = todo /\ state.at = "next" /\ state.call = "none" /\ Become(s, state)
  <2>1. CASE Finished(s)
    BY <1>1, <2>1 DEF Finished, SenderStates
  <2>2. CASE /\ sender[s].at = "next"
             /\ Become(s, [sender[s] EXCEPT !.todo = @ \ {Oldest(sender[s].todo)}, !.tried = TRUE])
    <3>1. sender[s].call = "none"
      BY <2>2 DEF OrderInv, RequestsFit
    <3>2. QED
      BY <1>1, <2>2, <3>1 DEF SenderStates
  <2>3. QED
    BY <2>1, <2>2
<1>3. todo \subseteq Visible /\ \A m \in todo : Before(m) \subseteq todo \cup Settled'
  BY DEF OrderInv, ListsComplete
<1> HIDE DEF todo
<1>4. QED
  BY <1>2, <1>3, RoundStep

\* One more batch is settled, after all older ones: the rest of the invariant.
LEMMA SettleStep ==
  ASSUME OrderInv, UNCHANGED <<batch, tmp>>, NEW n \in Visible, Before(n) \subseteq Settled,
         Settled' = Settled \/ Settled' = Settled \cup {n},
         spool' \subseteq spool, spool \subseteq spool' \cup Settled',
         late' \subseteq late \cup {n}
  PROVE  FilesAccounted' /\ LateInOrder' /\ FileOrder'
<1>1. /\ Files' = Files /\ Visible' = Visible /\ Visible \subseteq Files
      /\ \A m \in Files : Before(m)' = Before(m)
  BY SameFiles DEF Visible
<1>2. FilesAccounted'
  BY <1>1 DEF OrderInv, FilesAccounted
<1>3. LateInOrder'
  BY <1>1 DEF OrderInv, LateInOrder
<1>4. FileOrder'
  BY <1>1 DEF OrderInv, FileOrder
<1>5. QED
  BY <1>2, <1>3, <1>4

\* Nothing is settled, nothing is written.
LEMMA QuietStep ==
  ASSUME OrderInv, UNCHANGED <<batch, tmp, spool, parked, recorded>>, late' = late
  PROVE  FilesAccounted' /\ LateInOrder' /\ FileOrder'
<1>1. /\ Visible' = Visible /\ Visible \subseteq Files /\ Settled' = Settled
      /\ \A m \in Files : Before(m)' = Before(m)
  BY SameFiles DEF Visible, Settled
<1>2. QED
  BY <1>1 DEF OrderInv, FilesAccounted, LateInOrder, FileOrder

\* A step of a round leaves the buffers alone: the rest of the invariant.
LEMMA RestStays ==
  ASSUME OrderInv, UNCHANGED <<life, emitted, closed, buffer, writing, batch, tmp, refused>>,
         sender' \in [Senders -> SenderStates], spool' \subseteq spool, parked' \subseteq Files,
         recorded' \subseteq Files, captured' \subseteq Files, late' \subseteq Files,
         faults' \in 0 .. MaxFaults,
         ListsComplete', RequestsFit', FilesAccounted', LateInOrder', FileOrder'
  PROVE  OrderInv'
<1>1. Files' = Files /\ Visible' = Visible
  BY SameFiles
<1>2. WritesFit'
  BY <1>1 DEF OrderInv, WritesFit
<1>3. spool' \subseteq Visible'
  BY <1>1 DEF OrderInv
<1>4. TypeOK'
  BY <1>1 DEF OrderInv, TypeOK
<1>5. QED
  BY <1>2, <1>3, <1>4 DEF OrderInv


LEMMA ListInv ==
  ASSUME OrderInv, NEW s \in Senders, List(s) PROVE OrderInv'
<1> DEFINE state == [sender[s] EXCEPT !.at = "next", !.todo = spool]
<1>1. /\ UNCHANGED <<process, written, spool, parked, collector>> /\ Become(s, state)
      /\ sender[s] \in SenderStates /\ spool \subseteq Visible /\ spool \in SUBSET Nat
      /\ sender[s].call = "none"
  BY DEF List, OrderInv, TypeOK, RequestsFit, Files
<1>2. UNCHANGED <<batch, tmp, writing, refused, closed, spool, parked, recorded, late, captured, life, emitted, buffer, faults>>
  BY <1>1 DEF process, written, collector
<1>3. state \in SenderStates /\ state.at = "next" /\ state.call = "none" /\ state.todo = spool
  BY <1>1 DEF SenderStates
<1>4. \A m \in spool : Before(m) \subseteq spool \cup Settled'
  BY <1>2 DEF OrderInv, FilesAccounted, Before, Settled
<1>5. Settled' = Settled
  BY <1>2 DEF Settled
<1> HIDE DEF state
<1>6. /\ Files' = Files
      /\ sender' \in [Senders -> SenderStates] /\ ListsComplete' /\ RequestsFit'
  BY <1>1, <1>2, <1>3, <1>4, <1>5, RoundStep
<1>7. FilesAccounted' /\ LateInOrder' /\ FileOrder'
  BY <1>2, QuietStep
<1>8. QED
  BY <1>2, <1>6, <1>7, RestStays DEF OrderInv, TypeOK

LEMMA PostInv ==
  ASSUME OrderInv, NEW s \in Senders, Post(s) PROVE OrderInv'
<1> DEFINE todo == sender[s].todo
           state == [sender[s] EXCEPT !.at = "posted", !.call = "sent"]
<1>1. /\ UNCHANGED <<process, written, spool, parked, collector>>
      /\ sender[s] \in SenderStates /\ todo # {} /\ sender[s].at = "next"
  BY DEF Post, OrderInv, TypeOK
<1>2. UNCHANGED <<batch, tmp, writing, refused, closed, spool, parked, recorded, late, captured, life, emitted, buffer, faults>>
  BY <1>1 DEF process, written, collector
<1>3. Settled' = Settled
  BY <1>2 DEF Settled
<1>4. Oldest(todo) \in Visible /\ todo \subseteq Visible
  BY <1>1, OldestIsNext DEF OrderInv, ListsComplete
<1>7. /\ Files' = Files
      /\ sender' \in [Senders -> SenderStates] /\ ListsComplete' /\ RequestsFit'
  <2> HIDE DEF state, todo
  <2>1. CASE Oldest(todo) \in spool
    <3> USE <2>1
    <3>1. Become(s, state)
      BY DEF Post, todo, state
    <3>2. state \in SenderStates /\ state.at = "posted" /\ state.call = "sent" /\ state.todo = todo
      BY <1>1 DEF SenderStates, state, todo
    <3>3. \A m \in todo : Before(m) \subseteq todo \cup Settled'
      BY <1>3 DEF OrderInv, ListsComplete, todo
    <3>4. QED
      BY <1>1, <1>2, <1>3, <1>4, <3>1, <3>2, <3>3, RoundStep
  <2>2. CASE Oldest(todo) \notin spool
    <3>1. Oldest(todo) \in Settled'
      BY <1>3, <1>4, <2>2 DEF OrderInv, FilesAccounted
    <3>2. Become(s, [sender[s] EXCEPT !.todo = @ \ {Oldest(sender[s].todo)}, !.tried = TRUE])
      BY <2>2 DEF Post, todo
    <3>3. QED
      BY <1>1, <1>2, <1>3, <3>1, <3>2, FinishedStep DEF todo
  <2>3. QED
    BY <2>1, <2>2
<1>8. FilesAccounted' /\ LateInOrder' /\ FileOrder'
  BY <1>2, QuietStep
<1>9. QED
  BY <1>2, <1>7, <1>8, RestStays DEF OrderInv, TypeOK

\* Steps that end a round, or a sender, and change nothing else.
LEMMA IdleInv ==
  ASSUME OrderInv, UNCHANGED <<process, written, spool, parked, collector>>, NEW s \in Senders,
         NEW a \in {"off", "wait", "awake", "write", "list", "done", "dead"}, Become(s, Off(a))
  PROVE  OrderInv'
<1>1. UNCHANGED <<batch, tmp, writing, refused, closed, spool, parked, recorded, late, captured, life, emitted, buffer, faults>>
  BY DEF process, written, collector
<1>2. Settled' = Settled
  BY <1>1 DEF Settled
<1>3. /\ Files' = Files
      /\ sender' \in [Senders -> SenderStates] /\ ListsComplete' /\ RequestsFit'
  BY <1>1, <1>2, IdleStep
<1>4. FilesAccounted' /\ LateInOrder' /\ FileOrder'
  BY <1>1, QuietStep
<1>5. QED
  BY <1>1, <1>3, <1>4, RestStays DEF OrderInv, TypeOK

LEMMA DeliveredInv ==
  ASSUME OrderInv, NEW s \in Senders, Delivered(s) PROVE OrderInv'
<1> DEFINE n == Oldest(sender[s].todo)
<1>1. /\ UNCHANGED <<process, written, parked, collector>> /\ spool' = spool \ {n} /\ Finished(s)
      /\ sender[s].todo # {} /\ n \in recorded
  BY DEF Delivered, Awaiting, OrderInv, RequestsFit
<1>2. UNCHANGED <<batch, tmp, writing, refused, closed, parked, recorded, late, captured, life, emitted, buffer, faults>>
  BY <1>1 DEF process, written, collector
<1>3. Settled' = Settled /\ n \in Settled'
  BY <1>1, <1>2 DEF Settled
<1>4. n \in Visible /\ Before(n) \subseteq Settled
  BY <1>1, OldestIsNext DEF OrderInv
<1>5. /\ Files' = Files
      /\ sender' \in [Senders -> SenderStates] /\ ListsComplete' /\ RequestsFit'
  BY <1>1, <1>2, <1>3, FinishedStep
<1> HIDE DEF n
<1>6. FilesAccounted' /\ LateInOrder' /\ FileOrder'
  BY <1>1, <1>2, <1>3, <1>4, SettleStep
<1>7. QED
  BY <1>1, <1>2, <1>5, <1>6, RestStays DEF OrderInv, TypeOK

LEMMA ParkInv ==
  ASSUME OrderInv, NEW s \in Senders, Park(s) PROVE OrderInv'
<1> DEFINE n == Oldest(sender[s].todo)
<1>1. /\ UNCHANGED <<process, written, collector>>
      /\ sender[s].todo # {}
  BY DEF Park, Awaiting, OrderInv, RequestsFit
<1>2. UNCHANGED <<batch, tmp, writing, refused, closed, recorded, late, captured, life, emitted, buffer, faults>>
  BY <1>1 DEF process, written, collector
<1>3. n \in Visible /\ Before(n) \subseteq Settled
  BY <1>1, OldestIsNext DEF OrderInv
<1>4. CASE n \in spool
  <2>1. spool' = spool \ {n} /\ parked' = parked \cup {n} /\ Finished(s)
    BY <1>4 DEF Park
  <2>2. Settled' = Settled \cup {n} /\ n \in Settled'
    BY <1>2, <2>1 DEF Settled
  <2>3. /\ Files' = Files
        /\ sender' \in [Senders -> SenderStates] /\ ListsComplete' /\ RequestsFit'
    BY <1>1, <1>2, <2>1, <2>2, FinishedStep
  <2> HIDE DEF n
  <2>4. FilesAccounted' /\ LateInOrder' /\ FileOrder'
    BY <1>2, <1>3, <2>1, <2>2, SettleStep
  <2>5. QED
    BY <1>2, <1>3, <2>1, <2>3, <2>4, RestStays DEF OrderInv, TypeOK, Visible
<1>5. CASE n \notin spool
  <2>1. Become(s, Off("dead")) /\ UNCHANGED <<process, written, spool, parked, collector>>
    BY <1>1, <1>5 DEF Park
  <2>2. QED
    BY <2>1, IdleInv
<1>6. QED
  BY <1>4, <1>5

\* The oldest file of a request the collector has not handled.
LEMMA UnhandledInOrder ==
  ASSUME OrderInv, NEW s \in Senders, NEW n \in Unhandled(s)
  PROVE  n \in Visible /\ Before(n) \subseteq Settled
<1>1. sender[s].call = "sent" /\ n = Oldest(sender[s].todo)
  BY DEF Unhandled
<1>2. sender[s].todo # {}
  BY <1>1 DEF OrderInv, RequestsFit
<1>3. QED
  BY <1>1, <1>2, OldestIsNext DEF OrderInv

LEMMA TimeOutInv ==
  ASSUME OrderInv, NEW s \in Senders, TimeOut(s) PROVE OrderInv'
<1>1. /\ UNCHANGED <<process, buffer, writing, batch, tmp, refused, spool, parked, recorded, captured>>
      /\ faults' \in 0 .. MaxFaults
      /\ late' \subseteq late \cup Unhandled(s) /\ EndRound(s)
  BY DeliveryAssumption DEF TimeOut, GiveUp, Fault, OrderInv, TypeOK
<1>2. PICK a \in {"wait", "done"} : Become(s, Off(a))
  BY <1>1, EndRoundIdle
<1>3. Settled' = Settled
  BY <1>1 DEF Settled
<1>4. /\ Files' = Files
      /\ sender' \in [Senders -> SenderStates] /\ ListsComplete' /\ RequestsFit'
  BY <1>1, <1>2, <1>3, IdleStep
<1>5. late' \subseteq Files /\ LateInOrder'
  <2>1. Visible' = Visible /\ Visible \subseteq Files /\ \A m \in Files : Before(m)' = Before(m)
    BY <1>1, SameFiles DEF Visible
  <2>2. \A n \in late' : n \in Visible /\ Before(n) \subseteq Settled
    BY <1>1, UnhandledInOrder DEF OrderInv, LateInOrder
  <2>3. QED
    BY <1>3, <2>1, <2>2 DEF LateInOrder
<1>6. FilesAccounted' /\ FileOrder'
  <2>1. Visible' = Visible /\ Visible \subseteq Files /\ \A m \in Files : Before(m)' = Before(m)
    BY <1>1, SameFiles DEF Visible
  <2>2. QED
    BY <1>1, <1>3, <2>1 DEF OrderInv, FilesAccounted, FileOrder
<1>7. QED
  BY <1>1, <1>4, <1>5, <1>6, RestStays DEF OrderInv, TypeOK, process

\* What the collector does with a batch when all older ones are settled.
LEMMA RecordStep ==
  ASSUME OrderInv, NEW n \in Visible, Before(n) \subseteq Settled, Record(n),
         UNCHANGED <<batch, tmp, spool, parked>>, late' \subseteq late
  PROVE  /\ FilesAccounted' /\ LateInOrder' /\ FileOrder' /\ Files' = Files
         /\ recorded' = recorded \cup {n} /\ recorded' \subseteq Files /\ captured' \subseteq Files
         /\ faults' \in 0 .. MaxFaults /\ Settled \subseteq Settled'
<1>1. recorded' = recorded \cup {n} /\ captured' \subseteq captured \cup {n}
      /\ faults' \in 0 .. MaxFaults
  BY DeliveryAssumption DEF Record, Fault, OrderInv, TypeOK
<1>2. Settled' = Settled \cup {n}
  BY <1>1 DEF Settled
<1>3. FilesAccounted' /\ LateInOrder' /\ FileOrder'
  BY <1>2, SettleStep
<1>4. QED
  BY <1>1, <1>2, <1>3 DEF Files, Visible, OrderInv, TypeOK

LEMMA AnswerInv ==
  ASSUME OrderInv, NEW s \in Senders, Answer(s) PROVE OrderInv'
<1> DEFINE n == Oldest(sender[s].todo)
           state(code) == [sender[s] EXCEPT !.call = code]
<1>1. /\ UNCHANGED <<process, buffer, writing, batch, tmp, refused, spool, parked, late>>
      /\ sender[s].todo # {} /\ sender[s].at = "posted" /\ sender[s] \in SenderStates
  BY DEF Answer, Awaiting, OrderInv, TypeOK, RequestsFit
<1>2. n \in Visible /\ Before(n) \subseteq Settled
  BY <1>1, OldestIsNext DEF OrderInv
<1>3. \A code \in {"200", "4xx"} :
        /\ state(code) \in SenderStates /\ state(code).at = "posted"
        /\ state(code).call = code /\ state(code).todo = sender[s].todo
  BY <1>1 DEF SenderStates
<1>4. \/ Record(n) /\ Become(s, state("200"))
      \/ Become(s, state("4xx")) /\ UNCHANGED <<recorded, captured, faults>>
  BY DEF Answer
<1>5. sender[s].todo \subseteq Visible
      /\ \A m \in sender[s].todo : Before(m) \subseteq sender[s].todo \cup Settled
  BY DEF OrderInv, ListsComplete
<1> HIDE DEF state
<1>6. CASE Record(n) /\ Become(s, state("200"))
  <2>1. /\ FilesAccounted' /\ LateInOrder' /\ FileOrder' /\ Files' = Files
        /\ recorded' = recorded \cup {n} /\ recorded' \subseteq Files /\ captured' \subseteq Files
        /\ faults' \in 0 .. MaxFaults /\ Settled \subseteq Settled'
    <3> HIDE DEF n
    <3> QED
      BY <1>1, <1>2, <1>6, RecordStep
  <2>2. \A m \in sender[s].todo : Before(m) \subseteq sender[s].todo \cup Settled'
    BY <1>5, <2>1
  <2>3. Oldest(state("200").todo) \in recorded'
    BY <1>3, <2>1
  <2>4. sender' \in [Senders -> SenderStates] /\ ListsComplete' /\ RequestsFit'
    <3> HIDE DEF n
    <3> QED
      BY <1>1, <1>3, <1>5, <1>6, <2>1, <2>2, <2>3, RoundStep
  <2>5. QED
    BY <1>1, <2>1, <2>4, RestStays DEF OrderInv, TypeOK, process
<1>7. CASE Become(s, state("4xx")) /\ UNCHANGED <<recorded, captured, faults>>
  <2>1. Settled' = Settled
    BY <1>1, <1>7 DEF Settled
  <2>2. /\ Files' = Files
        /\ sender' \in [Senders -> SenderStates] /\ ListsComplete' /\ RequestsFit'
    <3> HIDE DEF n
    <3> QED
      BY <1>1, <1>3, <1>5, <1>7, <2>1, RoundStep
  <2>3. FilesAccounted' /\ LateInOrder' /\ FileOrder'
    BY <1>1, <1>7, QuietStep
  <2>4. QED
    BY <1>1, <1>7, <2>2, <2>3, RestStays DEF OrderInv, TypeOK, process
<1>8. QED
  BY <1>4, <1>6, <1>7

LEMMA AnswerLateInv ==
  ASSUME OrderInv, NEW n \in late, AnswerLate(n) PROVE OrderInv'
<1>1. /\ UNCHANGED <<process, buffer, writing, batch, tmp, refused, sender, spool, parked>>
      /\ late' \subseteq late /\ Record(n)
  BY DEF AnswerLate
<1>2. n \in Visible /\ Before(n) \subseteq Settled
  BY DEF OrderInv, LateInOrder
<1>3. /\ FilesAccounted' /\ LateInOrder' /\ FileOrder' /\ Files' = Files
      /\ recorded' = recorded \cup {n} /\ recorded' \subseteq Files /\ captured' \subseteq Files
      /\ faults' \in 0 .. MaxFaults /\ Settled \subseteq Settled'
  BY <1>1, <1>2, RecordStep
<1>4. ListsComplete' /\ RequestsFit'
  <2>1. Visible' = Visible /\ Visible \subseteq Files /\ \A m \in Files : Before(m)' = Before(m)
    BY <1>1, SameFiles DEF Visible
  <2>2. QED
    BY <1>1, <1>3, <2>1 DEF OrderInv, ListsComplete, RequestsFit
<1>5. QED
  BY <1>1, <1>3, <1>4, RestStays DEF OrderInv, TypeOK, process

LEMMA RoundInv ==
  ASSUME OrderInv, NEW s \in Senders, Round(s) PROVE OrderInv'
<1>1. CASE Leave(s) \/ Refused(s)
  <2>1. EndRound(s) /\ UNCHANGED <<process, written, spool, parked, collector>>
    BY <1>1 DEF Leave, Refused, GiveUp
  <2>2. QED
    BY <2>1, EndRoundIdle, IdleInv
<1>2. QED
  BY <1>1, ListInv, PostInv, AnswerInv, DeliveredInv, ParkInv DEF Round

-----------------------------------------------------------------------------
(* The steps of a process. *)

\* Whether a sender goes on or takes up or ends its round: its requests fit.
LEMMA SenderOff ==
  ASSUME OrderInv, recorded' = recorded, NEW s \in Senders,
         NEW a \in {"off", "wait", "awake", "write", "list", "done", "dead"},
         sender' = sender \/ Become(s, Off(a))
  PROVE  /\ sender' \in [Senders -> SenderStates] /\ RequestsFit'
         /\ \A t \in Senders : sender'[t] = sender[t] \/ sender'[t].todo = {}
<1>1. Off(a) \in SenderStates /\ Off(a).todo = {} /\ Off(a).call = "none" /\ Off(a).at # "posted"
  BY OffType DEF Off
<1>2. CASE sender' = sender
  BY <1>2 DEF OrderInv, TypeOK, RequestsFit
<1>3. CASE Become(s, Off(a))
  <2>1. /\ sender' \in [Senders -> SenderStates] /\ sender'[s] = Off(a)
        /\ \A t \in Senders \ {s} : sender'[t] = sender[t]
    BY <1>1, <1>3, BecomeOne DEF OrderInv, TypeOK
  <2> HIDE DEF Off
  <2>2. QED
    BY <1>1, <2>1 DEF OrderInv, RequestsFit
<1>4. QED
  BY <1>2, <1>3

\* A step after which the senders see the same files.
LEMMA SameVisible ==
  ASSUME OrderInv, Visible' = Visible, \A m \in Visible : Before(m)' = Before(m),
         UNCHANGED <<spool, parked, collector>>,
         \A t \in Senders : sender'[t] = sender[t] \/ sender'[t].todo = {}
  PROVE  /\ spool' \subseteq Visible' /\ FilesAccounted' /\ ListsComplete' /\ LateInOrder' /\ FileOrder'
<1>1. Settled' = Settled /\ late' = late /\ spool' = spool
  BY DEF Settled, collector
<1>2. ListsComplete'
  BY <1>1 DEF OrderInv, ListsComplete
<1>3. QED
  BY <1>1, <1>2 DEF OrderInv, FilesAccounted, LateInOrder, FileOrder

\* The first step of a write names one file, that nobody sees.
LEMMA Named ==
  ASSUME OrderInv, NEW p \in Procs, NEW events \in Nat, NEW size \in Nat, size <= events,
         Write(p, events, size)
  PROVE  LET n == Len(batch) + 1
             b == [by |-> p, from |-> events - size + 1, upto |-> events]
         IN  /\ b \in Batch /\ n \in Nat \ {0} /\ Len(batch) \in Nat
             /\ batch' \in Seq(Batch) /\ Files' = Files \cup {n} /\ n \notin Files
             /\ batch'[n] = b /\ \A m \in Files : m < n /\ batch'[m] = batch[m]
             /\ tmp' \subseteq Files' /\ Visible' = Visible /\ Visible \subseteq Files
             /\ \A m \in Visible : Before(m)' = Before(m)
<1> DEFINE n == Len(batch) + 1
           b == [by |-> p, from |-> events - size + 1, upto |-> events]
<1>1. b \in Batch
  BY DEF Batch
<1>2. batch' = Append(batch, b) /\ tmp' = tmp \cup {n} /\ batch \in Seq(Batch) /\ tmp \subseteq Files
  BY DEF Write, OrderInv, TypeOK
<1> HIDE DEF b
<1>3. /\ n \in Nat \ {0} /\ Len(batch) \in Nat /\ batch' \in Seq(Batch) /\ Len(batch') = n /\ batch'[n] = b
      /\ \A m \in 1 .. Len(batch) : m < n /\ batch'[m] = batch[m]
  BY <1>1, <1>2
<1>4. Files' = Files \cup {n} /\ n \notin Files
  BY <1>3 DEF Files
<1>5. \A m \in Files : m < n /\ batch'[m] = batch[m]
  BY <1>3 DEF Files
<1>6. Visible' = Visible /\ Visible \subseteq Files /\ tmp' \subseteq Files'
  BY <1>2, <1>4 DEF Visible
<1>7. \A m \in Visible : Before(m)' = Before(m)
  BY <1>5, <1>6 DEF Before
<1>8. QED
  BY <1>1, <1>3, <1>4, <1>5, <1>6, <1>7 DEF b

\* A write begins.
LEMMA WriteInv ==
  ASSUME OrderInv, NEW p \in Procs, LockFree(p), NEW events \in Nat, NEW size \in Nat,
         size # 0, size <= events, Write(p, events, size),
         emitted' \in [Procs -> Nat], emitted'[p] = events,
         \A q \in Procs \ {p} : emitted'[q] = emitted[q] /\ life'[q] = life[q],
         life' \in [Procs -> {"up", "flushing", "closing", "down"}], life'[p] # "down",
         UNCHANGED <<closed, spool, parked, collector>>,
         NEW a \in {"awake", "write", "list"},
         sender' = sender \/ Become(<<p, "loop">>, Off(a))
  PROVE  OrderInv'
<1> DEFINE n == Len(batch) + 1
           b == [by |-> p, from |-> events - size + 1, upto |-> events]
<1>1. /\ b \in Batch /\ n \in Nat \ {0} /\ Len(batch) \in Nat
      /\ batch' \in Seq(Batch) /\ Files' = Files \cup {n} /\ n \notin Files
      /\ batch'[n] = b /\ \A m \in Files : m < n /\ batch'[m] = batch[m]
      /\ tmp' \subseteq Files' /\ Visible' = Visible /\ Visible \subseteq Files
      /\ \A m \in Visible : Before(m)' = Before(m)
  BY Named
<1>2. <<p, "loop">> \in Senders /\ recorded' = recorded /\ captured' = captured /\ late' = late
  BY DEF Senders, collector
<1>3. /\ sender' \in [Senders -> SenderStates] /\ RequestsFit'
      /\ \A t \in Senders : sender'[t] = sender[t] \/ sender'[t].todo = {}
  BY <1>2, SenderOff
<1>4. /\ spool' \subseteq Visible' /\ FilesAccounted' /\ ListsComplete' /\ LateInOrder' /\ FileOrder'
  BY <1>1, <1>3, SameVisible
<1>5. /\ writing' = [writing EXCEPT ![p] = n] /\ buffer' = [buffer EXCEPT ![p] = size]
      /\ tmp' = tmp \cup {n} /\ UNCHANGED <<refused, faults>>
  BY DEF Write
<1>6. /\ writing' \in [Procs -> Nat] /\ writing'[p] = n
      /\ buffer' \in [Procs -> Nat] /\ buffer'[p] = size
      /\ \A q \in Procs \ {p} : writing'[q] = writing[q] /\ buffer'[q] = buffer[q]
  BY <1>1, <1>5 DEF OrderInv, TypeOK
<1>7. WritesFit'
  <2> SUFFICES ASSUME NEW q \in Procs
               PROVE  /\ buffer'[q] <= emitted'[q]
                      /\ writing'[q] # 0 =>
                           /\ life'[q] # "down" /\ writing'[q] \in tmp' /\ buffer'[q] # 0
                           /\ batch'[writing'[q]].by = q /\ batch'[writing'[q]].upto = emitted'[q]
                           /\ batch'[writing'[q]].from = emitted'[q] - buffer'[q] + 1
                           /\ \A m \in Files' : batch'[m].by = q => m <= writing'[q]
    BY DEF WritesFit
  <2>1. CASE q = p
    <3>1. \A m \in Files' : m <= n
      BY <1>1 DEF Files
    <3>2. QED
      BY <1>1, <1>5, <1>6, <2>1, <3>1
  <2>2. CASE q # p
    <3>1. emitted'[q] = emitted[q] /\ life'[q] = life[q] /\ writing'[q] = writing[q] /\ buffer'[q] = buffer[q]
      BY <1>6, <2>2
    <3>2. batch'[n].by = p
      BY <1>1
    <3>3. tmp \subseteq Files
      BY DEF OrderInv, TypeOK
    <3> HIDE DEF n, b
    <3>4. QED
      BY <1>1, <1>5, <2>2, <3>1, <3>2, <3>3 DEF OrderInv, WritesFit
  <2>3. QED
    BY <2>1, <2>2
<1>8. TypeOK'
  BY <1>1, <1>2, <1>3, <1>5, <1>6 DEF OrderInv, TypeOK
<1>9. QED
  BY <1>3, <1>4, <1>7, <1>8 DEF OrderInv

\* The buffer grows, or nothing happens to it; no file is written.
LEMMA NoWriteInv ==
  ASSUME OrderInv, NEW p \in Procs, UNCHANGED <<writing, batch, tmp, refused, faults>>,
         buffer' \in [Procs -> Nat], emitted' \in [Procs -> Nat], closed' \in [Procs -> Nat],
         (buffer' = buffer /\ emitted' = emitted)
           \/ (writing[p] = 0 /\ buffer'[p] <= emitted'[p]),
         life' \in [Procs -> {"up", "flushing", "closing", "down"}],
         writing[p] # 0 => life'[p] # "down",
         \A q \in Procs \ {p} : /\ buffer'[q] = buffer[q] /\ emitted'[q] = emitted[q]
                                /\ life'[q] = life[q],
         UNCHANGED <<spool, parked, collector>>,
         NEW s \in Senders, NEW a \in {"off", "wait", "awake", "write", "list", "done", "dead"},
         sender' = sender \/ Become(s, Off(a))
  PROVE  OrderInv'
<1>1. /\ Files' = Files /\ Visible' = Visible /\ Visible \subseteq Files
      /\ \A m \in Files : Before(m)' = Before(m)
  BY SameFiles DEF Visible
<1>2. recorded' = recorded /\ captured' = captured /\ late' = late
  BY DEF collector
<1>3. /\ sender' \in [Senders -> SenderStates] /\ RequestsFit'
      /\ \A t \in Senders : sender'[t] = sender[t] \/ sender'[t].todo = {}
  BY <1>2, SenderOff
<1>4. /\ spool' \subseteq Visible' /\ FilesAccounted' /\ ListsComplete' /\ LateInOrder' /\ FileOrder'
  BY <1>1, <1>3, SameVisible
<1>5. WritesFit'
  BY <1>1 DEF OrderInv, WritesFit
<1>6. TypeOK'
  BY <1>1, <1>2, <1>3 DEF OrderInv, TypeOK
<1>7. QED
  BY <1>3, <1>4, <1>5, <1>6 DEF OrderInv

\* The end of a write.
LEMMA GoOnFits ==
  ASSUME OrderInv, NEW p \in Procs, writing[p] # 0, GoOn(p), UNCHANGED <<emitted, batch>>,
         tmp' = tmp \/ tmp' = tmp \ {writing[p]},
         buffer' = buffer \/ buffer' = [buffer EXCEPT ![p] = 0], recorded' = recorded
  PROVE  /\ WritesFit' /\ Files' = Files
         /\ life' \in [Procs -> {"up", "flushing", "closing", "down"}] /\ closed' \in [Procs -> Nat]
         /\ writing' \in [Procs -> Nat] /\ buffer' \in [Procs -> Nat]
         /\ sender' \in [Senders -> SenderStates] /\ RequestsFit'
         /\ \A t \in Senders : sender'[t] = sender[t] \/ sender'[t].todo = {}
<1>1. /\ writing' \in [Procs -> Nat] /\ writing'[p] = 0
      /\ \A q \in Procs \ {p} : writing'[q] = writing[q]
  BY DEF GoOn, OrderInv, TypeOK
<1>2. /\ life' \in [Procs -> {"up", "flushing", "closing", "down"}] /\ closed' \in [Procs -> Nat]
      /\ \A q \in Procs \ {p} : life'[q] = life[q]
  BY DEF GoOn, OrderInv, TypeOK
<1>3. buffer' \in [Procs -> Nat] /\ \A q \in Procs \ {p} : buffer'[q] = buffer[q]
      /\ buffer'[p] \in {0, buffer[p]}
  BY DEF OrderInv, TypeOK
<1>4. Files' = Files
  BY DEF Files
<1>5. \A q \in Procs \ {p} : writing[q] # 0 => writing[q] # writing[p]
  <2>1. \A q \in Procs : writing[q] # 0 => batch[writing[q]].by = q
    BY DEF OrderInv, WritesFit
  <2>2. QED
    BY <2>1
<1>6. buffer[p] <= emitted[p] /\ buffer[p] \in Nat /\ emitted[p] \in Nat
  BY DEF OrderInv, WritesFit, TypeOK
<1>7. WritesFit'
  BY <1>1, <1>2, <1>3, <1>4, <1>5, <1>6 DEF OrderInv, WritesFit
<1>8. <<p, "loop">> \in Senders /\ (sender' = sender \/ Become(<<p, "loop">>, Off("list")))
  BY DEF GoOn, Senders
<1>9. /\ sender' \in [Senders -> SenderStates] /\ RequestsFit'
      /\ \A t \in Senders : sender'[t] = sender[t] \/ sender'[t].todo = {}
  BY <1>8, SenderOff
<1>10. QED
  BY <1>1, <1>2, <1>3, <1>4, <1>7, <1>9

LEMMA WriteFailsInv ==
  ASSUME OrderInv, NEW p \in Procs, WriteFails(p) PROVE OrderInv'
<1>1. /\ writing[p] # 0 /\ GoOn(p) /\ faults' \in 0 .. MaxFaults /\ refused' = refused \cup {p}
      /\ UNCHANGED <<emitted, buffer, batch, tmp, spool, parked, collector>>
  BY DeliveryAssumption DEF WriteFails, Fault, OrderInv, TypeOK
<1>2. recorded' = recorded /\ captured' = captured /\ late' = late
  BY <1>1 DEF collector
<1>3. /\ WritesFit' /\ Files' = Files
      /\ life' \in [Procs -> {"up", "flushing", "closing", "down"}] /\ closed' \in [Procs -> Nat]
      /\ writing' \in [Procs -> Nat] /\ buffer' \in [Procs -> Nat]
      /\ sender' \in [Senders -> SenderStates] /\ RequestsFit'
      /\ \A t \in Senders : sender'[t] = sender[t] \/ sender'[t].todo = {}
  BY <1>1, <1>2, GoOnFits
<1>4. Visible' = Visible /\ \A m \in Visible : Before(m)' = Before(m)
  BY <1>1, SameFiles DEF Visible
<1>5. /\ spool' \subseteq Visible' /\ FilesAccounted' /\ ListsComplete' /\ LateInOrder' /\ FileOrder'
  BY <1>1, <1>3, <1>4, SameVisible
<1>6. TypeOK'
  BY <1>1, <1>2, <1>3 DEF OrderInv, TypeOK
<1>7. QED
  BY <1>3, <1>5, <1>6 DEF OrderInv

\* The file that is renamed is the youngest of its process: nothing that is on a list, is
\* settled or may be handled late comes after it.
LEMMA Appears ==
  ASSUME OrderInv, NEW p \in Procs, writing[p] # 0, UNCHANGED batch, tmp' = tmp \ {writing[p]}
  PROVE  /\ writing[p] \in Files /\ Files' = Files /\ Visible' = Visible \cup {writing[p]}
         /\ \A m \in Visible : Before(m)' = Before(m)
<1> DEFINE n == writing[p]
<1>1. /\ n \in tmp /\ batch[n].by = p /\ \A m \in Files : batch[m].by = p => m <= n
      /\ tmp \subseteq Files
  BY DEF OrderInv, WritesFit, TypeOK
<1>2. Files' = Files /\ Visible' = Visible \cup {n} /\ n \in Files
  BY <1>1 DEF Files, Visible
<1>3. ASSUME NEW m \in Visible PROVE Before(m)' = Before(m)
  <2>1. m \in Files /\ n \in Nat /\ m \in Nat
    BY <1>2 DEF Visible, Files
  <2> HIDE DEF n
  <2>2. ~(n < m /\ batch[n].by = batch[m].by)
    BY <1>1, <2>1
  <2>3. QED
    BY <1>2, <2>2 DEF Before
<1>4. QED
  BY <1>2, <1>3

LEMMA RenameInv ==
  ASSUME OrderInv, NEW p \in Procs, Rename(p) PROVE OrderInv'
<1> DEFINE n == writing[p]
<1>1. /\ n # 0 /\ GoOn(p) /\ refused' = refused \ {p}
      /\ tmp' = tmp \ {n} /\ spool' = spool \cup {n} /\ buffer' = [buffer EXCEPT ![p] = 0]
      /\ UNCHANGED <<emitted, batch, faults, parked, collector>>
  BY DEF Rename
<1>2. recorded' = recorded /\ captured' = captured /\ late' = late /\ Settled' = Settled
  BY <1>1 DEF collector, Settled
<1>3. /\ WritesFit' /\ Files' = Files
      /\ life' \in [Procs -> {"up", "flushing", "closing", "down"}] /\ closed' \in [Procs -> Nat]
      /\ writing' \in [Procs -> Nat] /\ buffer' \in [Procs -> Nat]
      /\ sender' \in [Senders -> SenderStates] /\ RequestsFit'
      /\ \A t \in Senders : sender'[t] = sender[t] \/ sender'[t].todo = {}
  BY <1>1, <1>2, GoOnFits
<1>4. n \in Files /\ Visible' = Visible \cup {n} /\ \A m \in Visible : Before(m)' = Before(m)
  BY <1>1, Appears
<1> HIDE DEF n
<1>5. spool' \subseteq Visible' /\ FilesAccounted'
  BY <1>1, <1>2, <1>4 DEF OrderInv, FilesAccounted
<1>6. ListsComplete'
  BY <1>2, <1>3, <1>4 DEF OrderInv, ListsComplete
<1>7. LateInOrder' /\ FileOrder'
  BY <1>2, <1>4 DEF OrderInv, LateInOrder, FileOrder
<1>8. TypeOK'
  BY <1>1, <1>2, <1>3, <1>4 DEF OrderInv, TypeOK
<1>9. QED
  BY <1>3, <1>5, <1>6, <1>7, <1>8 DEF OrderInv

LEMMA EndInv ==
  ASSUME OrderInv, NEW p \in Procs, End(p) PROVE OrderInv'
<1>1. /\ UNCHANGED <<emitted, closed, batch, tmp, refused, faults, spool, parked, recorded, captured>>
      /\ life' = [life EXCEPT ![p] = "down"] /\ buffer' = [buffer EXCEPT ![p] = 0]
      /\ writing' = [writing EXCEPT ![p] = 0]
      /\ sender' = [s \in Senders |-> IF s[1] = p THEN Off("done") ELSE sender[s]]
  BY DEF End
<1>2. late' \subseteq late \cup UNION {Unhandled(<<p, role>>) : role \in {"loop", "close"}}
  BY DEF End
<1>3. /\ Settled' = Settled /\ Files' = Files /\ Visible' = Visible /\ Visible \subseteq Files
      /\ \A m \in Files : Before(m)' = Before(m)
  BY <1>1, SameFiles DEF Settled, Visible
<1>4. Off("done") \in SenderStates /\ Off("done").todo = {} /\ Off("done").call = "none"
      /\ Off("done").at # "posted"
  BY OffType DEF Off
<1>5. sender' \in [Senders -> SenderStates]
      /\ \A s \in Senders : sender'[s] = sender[s] \/ sender'[s] = Off("done")
  BY <1>1, <1>4 DEF OrderInv, TypeOK
<1>6. ListsComplete' /\ RequestsFit'
  <2> HIDE DEF Off
  <2>1. ListsComplete'
    BY <1>3, <1>4, <1>5 DEF OrderInv, ListsComplete
  <2>2. RequestsFit'
    BY <1>1, <1>4, <1>5 DEF OrderInv, RequestsFit
  <2>3. QED
    BY <2>1, <2>2
<1>7. \A n \in late' : n \in Visible /\ Before(n) \subseteq Settled
  <2>1. <<p, "loop">> \in Senders /\ <<p, "close">> \in Senders
    BY DEF Senders
  <2>2. QED
    BY <1>2, <2>1, UnhandledInOrder DEF OrderInv, LateInOrder
<1>8. spool' \subseteq Visible' /\ FilesAccounted' /\ LateInOrder' /\ FileOrder'
  BY <1>1, <1>3, <1>7 DEF OrderInv, FilesAccounted, LateInOrder, FileOrder
<1>9. /\ life' \in [Procs -> {"up", "flushing", "closing", "down"}]
      /\ buffer' \in [Procs -> Nat] /\ writing' \in [Procs -> Nat]
      /\ buffer'[p] = 0 /\ writing'[p] = 0
      /\ \A q \in Procs \ {p} : /\ life'[q] = life[q] /\ buffer'[q] = buffer[q]
                                /\ writing'[q] = writing[q]
  BY <1>1 DEF OrderInv, TypeOK
<1>10. WritesFit'
  <2>1. emitted[p] \in Nat
    BY DEF OrderInv, TypeOK
  <2>2. QED
    BY <1>1, <1>3, <1>9, <2>1 DEF OrderInv, WritesFit
<1>11. TypeOK'
  BY <1>1, <1>3, <1>5, <1>7, <1>9 DEF OrderInv, TypeOK
<1>12. QED
  BY <1>6, <1>8, <1>10, <1>11 DEF OrderInv

LEMMA EmitInv ==
  ASSUME OrderInv, NEW p \in Procs, Emit(p) PROVE OrderInv'
<1>1. /\ LockFree(p) /\ emitted' = [emitted EXCEPT ![p] = @ + 1]
      /\ UNCHANGED <<life, closed, sender, spool, parked, collector>>
      /\ \/ Write(p, emitted[p] + 1, buffer[p] + 1)
         \/ /\ buffer' = [buffer EXCEPT ![p] = buffer[p] + 1]
            /\ UNCHANGED <<writing, batch, tmp, refused, faults>>
  BY DEF Emit
<1>2. /\ emitted[p] \in Nat /\ buffer[p] \in Nat /\ buffer[p] <= emitted[p]
      /\ emitted' \in [Procs -> Nat] /\ emitted'[p] = emitted[p] + 1
      /\ \A q \in Procs \ {p} : emitted'[q] = emitted[q]
  BY <1>1 DEF OrderInv, TypeOK, WritesFit
<1>3. life' \in [Procs -> {"up", "flushing", "closing", "down"}] /\ life'[p] # "down"
      /\ closed' \in [Procs -> Nat] /\ <<p, "loop">> \in Senders
  BY <1>1 DEF OrderInv, TypeOK, LockFree, Senders
<1>4. CASE Write(p, emitted[p] + 1, buffer[p] + 1)
  BY <1>1, <1>2, <1>3, <1>4, WriteInv
<1>5. CASE /\ buffer' = [buffer EXCEPT ![p] = buffer[p] + 1]
           /\ UNCHANGED <<writing, batch, tmp, refused, faults>>
  <2>1. /\ buffer' \in [Procs -> Nat] /\ buffer'[p] <= emitted'[p]
        /\ \A q \in Procs \ {p} : buffer'[q] = buffer[q]
    BY <1>2, <1>5 DEF OrderInv, TypeOK
  <2>2. writing[p] = 0
    BY <1>1 DEF LockFree
  <2>3. QED
    BY <1>1, <1>2, <1>3, <1>5, <2>1, <2>2, NoWriteInv
<1>6. QED
  BY <1>1, <1>4, <1>5

\* The flush of a sender thread.
LEMMA FlushInv ==
  ASSUME OrderInv, NEW p \in Procs, Flush(p), UNCHANGED <<process, spool, parked, collector>>
  PROVE  OrderInv'
<1>1. LockFree(p) /\ UNCHANGED <<life, emitted, closed, spool, parked, collector>>
  BY DEF Flush, process
<1>2. <<p, "loop">> \in Senders /\ life[p] # "down" /\ writing[p] = 0
  BY <1>1 DEF Senders, LockFree
<1>3. /\ emitted[p] \in Nat /\ buffer[p] \in Nat /\ buffer[p] <= emitted[p]
      /\ emitted \in [Procs -> Nat] /\ buffer \in [Procs -> Nat] /\ closed \in [Procs -> Nat]
      /\ life \in [Procs -> {"up", "flushing", "closing", "down"}]
  BY DEF OrderInv, TypeOK, WritesFit
<1>4. CASE Become(<<p, "loop">>, Off("list")) /\ UNCHANGED written
  <2>1. UNCHANGED <<writing, batch, tmp, refused, faults, buffer>>
    BY <1>4 DEF written
  <2>2. QED
    BY <1>1, <1>2, <1>3, <1>4, <2>1, NoWriteInv
<1>5. CASE buffer[p] # 0 /\ Become(<<p, "loop">>, Off("write")) /\ Write(p, emitted[p], buffer[p])
  BY <1>1, <1>2, <1>3, <1>5, WriteInv
<1>6. QED
  BY <1>4, <1>5 DEF Flush

LEMMA CloseInv ==
  ASSUME OrderInv, NEW p \in Procs, Close(p) PROVE OrderInv'
<1>1. LockFree(p) /\ UNCHANGED <<emitted, sender, spool, parked, collector>>
  BY DEF Close
<1>2. <<p, "loop">> \in Senders /\ life[p] # "down" /\ writing[p] = 0
  BY <1>1 DEF Senders, LockFree
<1>3. /\ emitted[p] \in Nat /\ buffer[p] \in Nat /\ buffer[p] <= emitted[p]
      /\ emitted \in [Procs -> Nat] /\ buffer \in [Procs -> Nat] /\ closed \in [Procs -> Nat]
      /\ life \in [Procs -> {"up", "flushing", "closing", "down"}]
  BY DEF OrderInv, TypeOK, WritesFit
<1>4. CASE /\ life' = [life EXCEPT ![p] = "closing"]
           /\ closed' = [closed EXCEPT ![p] = emitted[p]] /\ UNCHANGED written
  <2>1. UNCHANGED <<writing, batch, tmp, refused, faults, buffer>>
    BY <1>4 DEF written
  <2>2. /\ life' \in [Procs -> {"up", "flushing", "closing", "down"}] /\ closed' \in [Procs -> Nat]
        /\ \A q \in Procs \ {p} : life'[q] = life[q]
    BY <1>3, <1>4
  <2>3. QED
    BY <1>1, <1>2, <1>3, <2>1, <2>2, NoWriteInv
<1>5. CASE /\ buffer[p] # 0 /\ life' = [life EXCEPT ![p] = "flushing"]
           /\ Write(p, emitted[p], buffer[p]) /\ UNCHANGED closed
  <2>1. /\ life' \in [Procs -> {"up", "flushing", "closing", "down"}] /\ life'[p] # "down"
        /\ \A q \in Procs \ {p} : life'[q] = life[q]
    BY <1>3, <1>5
  <2>2. QED
    BY <1>1, <1>2, <1>3, <1>5, <2>1, WriteInv
<1>6. QED
  BY <1>4, <1>5 DEF Close

LEMMA ProcessInv ==
  ASSUME OrderInv, NEW p \in Procs,
         \/ Emit(p) \/ Rename(p) \/ WriteFails(p) \/ WakeUp(p) \/ GetLock(p)
         \/ Close(p) \/ Stopped(p) \/ Join(p) \/ Exit(p) \/ Crash(p)
  PROVE  OrderInv'
<1>1. <<p, "loop">> \in Senders /\ <<p, "close">> \in Senders
  BY DEF Senders
<1>2. CASE WakeUp(p)
  <2>1. CASE Flush(p)
    BY <1>2, <2>1, FlushInv DEF WakeUp
  <2>2. CASE Become(<<p, "loop">>, Off("awake")) /\ UNCHANGED written
    BY <1>1, <1>2, <2>2, IdleInv DEF WakeUp
  <2>3. QED
    BY <1>2, <2>1, <2>2 DEF WakeUp
<1>3. CASE GetLock(p)
  BY <1>3, FlushInv DEF GetLock
<1>4. CASE Stopped(p)
  BY <1>1, <1>4, IdleInv DEF Stopped
<1>5. CASE Join(p)
  BY <1>1, <1>5, IdleInv DEF Join
<1>6. CASE Exit(p) \/ Crash(p)
  BY <1>6, EndInv DEF Exit, Crash
<1>7. QED
  BY <1>2, <1>3, <1>4, <1>5, <1>6, EmitInv, RenameInv, WriteFailsInv, CloseInv

LEMMA DeliveryStep == OrderInv /\ [Next]_vars => OrderInv'
<1> SUFFICES ASSUME OrderInv, [Next]_vars PROVE OrderInv'
  OBVIOUS
<1>1. CASE Next
  BY <1>1, ProcessInv, RoundInv, TimeOutInv, AnswerLateInv DEF Next
<1>2. CASE UNCHANGED vars
  <2>1. UNCHANGED <<batch, tmp, writing, refused, closed, spool, parked, recorded, late, captured,
                    life, emitted, buffer, faults, sender>>
    BY <1>2 DEF vars, process, written, collector
  <2>2. FilesAccounted' /\ LateInOrder' /\ FileOrder'
    BY <2>1, QuietStep
  <2>3. /\ Files' = Files /\ Visible' = Visible /\ Visible \subseteq Files /\ Settled' = Settled
        /\ \A m \in Files : Before(m)' = Before(m)
    BY <2>1, SameFiles DEF Visible, Settled
  <2>4. ListsComplete' /\ RequestsFit'
    BY <2>1, <2>3 DEF OrderInv, ListsComplete, RequestsFit
  <2>5. QED
    BY <2>1, <2>2, <2>3, <2>4, RestStays DEF OrderInv, TypeOK
<1>3. QED
  BY <1>1, <1>2

-----------------------------------------------------------------------------
(* Events. *)

\* An event that is in a file which a sender sees, or saw.
Covered(p, i) == \E m \in Visible : <<p, i>> \in EventsOf(m)

\* What has left the buffer of a process that runs is in a file.
BufferIsRest ==
  \A p \in Procs : life[p] # "down" => \A i \in 1 .. emitted[p] - buffer[p] : Covered(p, i)

\* What its process handed over before a file's events is in that file or in an older one.
NoGap ==
  \A n \in Visible : \A i \in 1 .. batch[n].upto :
    \E m \in Visible : m <= n /\ <<batch[n].by, i>> \in EventsOf(m)

\* Unless the disk refuses, a buffer is no longer than a batch, and its events came after
\* the last flush of close().
BufferIsYoung ==
  \A p \in Procs : life[p] # "down" =>
    /\ life[p] # "closing" => closed[p] = 0
    /\ closed[p] <= emitted[p]
    /\ p \notin refused =>
         /\ buffer[p] <= FlushAt /\ (writing[p] = 0 => buffer[p] < FlushAt)
         /\ closed[p] <= emitted[p] - buffer[p]

\* What a process that has ended has handed over is in a file, or lost with a cause.
EndAccounted ==
  \A p \in Procs : life[p] = "down" => \A i \in 1 .. emitted[p] :
    Covered(p, i) \/ p \in refused \/ (i > closed[p] /\ i + FlushAt > emitted[p])

EventsInv == BufferIsRest /\ NoGap /\ BufferIsYoung /\ EndAccounted

\* A file is never rewritten.
LEMMA CoveredStays ==
  ASSUME Visible \subseteq Visible', \A m \in Visible : batch'[m] = batch[m]
  PROVE  /\ \A m \in Visible : EventsOf(m)' = EventsOf(m)
         /\ \A p, i : Covered(p, i) => Covered(p, i)'
<1>1. \A m \in Visible : EventsOf(m)' = EventsOf(m)
  BY DEF EventsOf
<1>2. QED
  BY <1>1 DEF Covered

\* A step after which the senders see the same files.
LEMMA SameFilesGap ==
  ASSUME NoGap, Visible' = Visible, \A m \in Visible : batch'[m] = batch[m]
  PROVE  NoGap'
<1>1. \A m \in Visible : EventsOf(m)' = EventsOf(m)
  BY CoveredStays
<1>2. QED
  BY <1>1 DEF NoGap

\* A step of one process that hands over, writes, flushes or closes: what it must leave for
\* the events to stay accounted for.
LEMMA OneProcess ==
  ASSUME OrderInv, EventsInv, NEW p \in Procs, life[p] # "down", life'[p] # "down",
         Visible' = Visible, \A m \in Visible : batch'[m] = batch[m],
         emitted'[p] - buffer'[p] = emitted[p] - buffer[p],
         life'[p] # "closing" => closed'[p] = 0, closed'[p] <= emitted'[p],
         p \notin refused' =>
           /\ buffer'[p] <= FlushAt /\ (writing'[p] = 0 => buffer'[p] < FlushAt)
           /\ closed'[p] <= emitted'[p] - buffer'[p],
         \A q \in Procs \ {p} :
           /\ life'[q] = life[q] /\ emitted'[q] = emitted[q] /\ buffer'[q] = buffer[q]
           /\ writing'[q] = writing[q] /\ closed'[q] = closed[q]
           /\ q \in refused' <=> q \in refused
  PROVE  EventsInv'
<1>1. \A q, i : Covered(q, i) => Covered(q, i)'
  BY CoveredStays
<1>2. NoGap'
  BY SameFilesGap DEF EventsInv
<1>3. BufferIsRest'
  BY <1>1 DEF EventsInv, BufferIsRest
<1>4. BufferIsYoung'
  BY DEF EventsInv, BufferIsYoung
<1>5. EndAccounted'
  BY <1>1 DEF EventsInv, EndAccounted
<1>6. QED
  BY <1>2, <1>3, <1>4, <1>5 DEF EventsInv

\* What a write that begins leaves alone.
LEMMA WriteLeaves ==
  ASSUME OrderInv, NEW p \in Procs, NEW events \in Nat, NEW size \in Nat, size <= events,
         Write(p, events, size)
  PROVE  /\ Visible' = Visible /\ \A m \in Visible : batch'[m] = batch[m]
         /\ buffer'[p] = size /\ writing'[p] # 0 /\ refused' = refused
         /\ \A q \in Procs \ {p} : buffer'[q] = buffer[q] /\ writing'[q] = writing[q]
<1>1. /\ Visible' = Visible /\ Visible \subseteq Files /\ Len(batch) \in Nat
      /\ \A m \in Files : batch'[m] = batch[m]
  BY Named
<1>2. /\ buffer' = [buffer EXCEPT ![p] = size] /\ refused' = refused
      /\ writing' = [writing EXCEPT ![p] = Len(batch) + 1]
  BY DEF Write
<1>3. Len(batch) + 1 # 0
  BY <1>1
<1>4. QED
  BY <1>1, <1>2, <1>3 DEF OrderInv, TypeOK

LEMMA EmitKeeps ==
  ASSUME OrderInv, EventsInv, NEW p \in Procs, Emit(p) PROVE EventsInv'
<1>1. /\ life[p] # "down" /\ writing[p] = 0 /\ emitted' = [emitted EXCEPT ![p] = @ + 1]
      /\ UNCHANGED <<life, closed>>
  BY DEF Emit, LockFree
<1>2. /\ emitted[p] \in Nat /\ buffer[p] \in Nat /\ buffer[p] <= emitted[p] /\ closed[p] \in Nat
      /\ emitted'[p] = emitted[p] + 1 /\ FlushAt \in Nat
      /\ \A q \in Procs \ {p} : emitted'[q] = emitted[q]
  BY <1>1, DeliveryAssumption DEF OrderInv, TypeOK, WritesFit
<1>3. /\ life[p] # "closing" => closed[p] = 0
      /\ closed[p] <= emitted[p]
      /\ p \notin refused => buffer[p] < FlushAt /\ closed[p] <= emitted[p] - buffer[p]
  BY <1>1 DEF EventsInv, BufferIsYoung
<1>4. CASE Write(p, emitted[p] + 1, buffer[p] + 1)
  <2>1. /\ Visible' = Visible /\ \A m \in Visible : batch'[m] = batch[m]
        /\ buffer'[p] = buffer[p] + 1 /\ writing'[p] # 0 /\ refused' = refused
        /\ \A q \in Procs \ {p} : buffer'[q] = buffer[q] /\ writing'[q] = writing[q]
    <3>1. emitted[p] + 1 \in Nat /\ buffer[p] + 1 \in Nat /\ buffer[p] + 1 <= emitted[p] + 1
      BY <1>2
    <3>2. QED
      BY <1>4, <3>1, WriteLeaves
  <2>2. QED
    BY <1>1, <1>2, <1>3, <2>1, OneProcess
<1>5. CASE /\ ~(buffer[p] + 1 >= FlushAt) /\ buffer' = [buffer EXCEPT ![p] = buffer[p] + 1]
           /\ UNCHANGED <<writing, batch, tmp, refused, faults>>
  <2>1. /\ Visible' = Visible /\ buffer'[p] = buffer[p] + 1
        /\ \A q \in Procs \ {p} : buffer'[q] = buffer[q]
    BY <1>5, SameFiles DEF OrderInv, TypeOK
  <2>2. QED
    BY <1>1, <1>2, <1>3, <1>5, <2>1, OneProcess
<1>6. QED
  BY <1>4, <1>5 DEF Emit

\* A flush, or close(), begins a write.
LEMMA BeginKeeps ==
  ASSUME OrderInv, EventsInv, NEW p \in Procs, LockFree(p), emitted' = emitted,
         life'[p] = life[p] \/ (life[p] = "up" /\ life'[p] = "flushing"), closed' = closed,
         Write(p, emitted[p], buffer[p]), \A q \in Procs \ {p} : life'[q] = life[q]
  PROVE  EventsInv'
<1>1. life[p] # "down" /\ writing[p] = 0
  BY DEF LockFree
<1>2. /\ emitted[p] \in Nat /\ buffer[p] \in Nat /\ buffer[p] <= emitted[p] /\ closed[p] \in Nat
      /\ FlushAt \in Nat
  BY DeliveryAssumption DEF OrderInv, TypeOK, WritesFit
<1>3. /\ closed[p] <= emitted[p] /\ (life[p] # "closing" => closed[p] = 0)
      /\ p \notin refused => buffer[p] < FlushAt /\ closed[p] <= emitted[p] - buffer[p]
  BY <1>1 DEF EventsInv, BufferIsYoung
<1>4. /\ Visible' = Visible /\ \A m \in Visible : batch'[m] = batch[m]
      /\ buffer'[p] = buffer[p] /\ writing'[p] # 0 /\ refused' = refused
      /\ \A q \in Procs \ {p} : buffer'[q] = buffer[q] /\ writing'[q] = writing[q]
  BY <1>2, WriteLeaves
<1>5. life'[p] # "down" /\ (life'[p] # "closing" => closed'[p] = 0)
  BY <1>1, <1>3
<1>6. QED
  BY <1>1, <1>2, <1>3, <1>4, <1>5, OneProcess

\* The buffer is empty: nothing is written.
LEMMA NothingKeeps ==
  ASSUME OrderInv, EventsInv, NEW p \in Procs, LockFree(p), emitted' = emitted,
         buffer[p] = 0, UNCHANGED written, life'[p] # "down",
         life'[p] # "closing" => closed'[p] = 0, closed'[p] \in {closed[p], emitted[p]},
         \A q \in Procs \ {p} : life'[q] = life[q] /\ closed'[q] = closed[q]
  PROVE  EventsInv'
<1>1. life[p] # "down" /\ writing[p] = 0
  BY DEF LockFree
<1>2. /\ emitted[p] \in Nat /\ closed[p] \in Nat /\ FlushAt \in Nat \ {0}
      /\ closed[p] <= emitted[p]
  BY <1>1, DeliveryAssumption DEF OrderInv, TypeOK, EventsInv, BufferIsYoung
<1>3. UNCHANGED <<buffer, writing, batch, tmp, refused>>
  BY DEF written
<1>4. Visible' = Visible
  BY <1>3, SameFiles
<1>5. QED
  BY <1>1, <1>2, <1>3, <1>4, OneProcess

LEMMA FlushKeeps ==
  ASSUME OrderInv, EventsInv, NEW p \in Procs, Flush(p), UNCHANGED process
  PROVE  EventsInv'
<1>1. LockFree(p) /\ life' = life /\ emitted' = emitted /\ closed' = closed
  BY DEF Flush, process
<1>2. life[p] # "down" /\ (life[p] # "closing" => closed[p] = 0)
  BY <1>1 DEF LockFree, EventsInv, BufferIsYoung
<1>3. CASE buffer[p] = 0 /\ UNCHANGED written
  BY <1>1, <1>2, <1>3, NothingKeeps
<1>4. CASE Write(p, emitted[p], buffer[p])
  BY <1>1, <1>4, BeginKeeps
<1>5. QED
  BY <1>3, <1>4 DEF Flush

LEMMA CloseKeeps ==
  ASSUME OrderInv, EventsInv, NEW p \in Procs, Close(p) PROVE EventsInv'
<1>1. LockFree(p) /\ emitted' = emitted /\ life[p] = "up"
  BY DEF Close
<1>2. closed[p] = 0
  BY <1>1 DEF EventsInv, BufferIsYoung
<1>3. CASE /\ buffer[p] = 0 /\ life' = [life EXCEPT ![p] = "closing"]
           /\ closed' = [closed EXCEPT ![p] = emitted[p]] /\ UNCHANGED written
  <2>1. /\ life'[p] = "closing" /\ closed'[p] = emitted[p]
        /\ \A q \in Procs \ {p} : life'[q] = life[q] /\ closed'[q] = closed[q]
    BY <1>3 DEF OrderInv, TypeOK
  <2>2. QED
    BY <1>1, <1>3, <2>1, NothingKeeps
<1>4. CASE /\ life' = [life EXCEPT ![p] = "flushing"]
           /\ Write(p, emitted[p], buffer[p]) /\ UNCHANGED closed
  <2>1. /\ life'[p] = "flushing" /\ \A q \in Procs \ {p} : life'[q] = life[q]
    BY <1>4 DEF OrderInv, TypeOK
  <2>2. QED
    BY <1>1, <1>4, <2>1, BeginKeeps
<1>5. QED
  BY <1>3, <1>4 DEF Close

\* The thread that wrote goes on.
LEMMA GoOnLeaves ==
  ASSUME OrderInv, NEW p \in Procs, writing[p] # 0, GoOn(p), emitted' = emitted
  PROVE  /\ writing'[p] = 0 /\ life[p] # "down" /\ life'[p] # "down"
         /\ (life'[p] = life[p] /\ closed'[p] = closed[p])
              \/ (life'[p] = "closing" /\ closed'[p] = emitted[p])
         /\ life[p] = "flushing" => life'[p] = "closing"
         /\ \A q \in Procs \ {p} : /\ writing'[q] = writing[q] /\ life'[q] = life[q]
                                   /\ closed'[q] = closed[q]
<1>1. life[p] # "down"
  BY DEF OrderInv, WritesFit
<1>2. QED
  BY <1>1 DEF GoOn, OrderInv, TypeOK

LEMMA WriteFailsKeeps ==
  ASSUME OrderInv, EventsInv, NEW p \in Procs, WriteFails(p) PROVE EventsInv'
<1>1. /\ writing[p] # 0 /\ GoOn(p) /\ refused' = refused \cup {p}
      /\ UNCHANGED <<emitted, buffer, batch, tmp>>
  BY DEF WriteFails
<1>2. /\ writing'[p] = 0 /\ life[p] # "down" /\ life'[p] # "down"
      /\ (life'[p] = life[p] /\ closed'[p] = closed[p])
           \/ (life'[p] = "closing" /\ closed'[p] = emitted[p])
      /\ \A q \in Procs \ {p} : /\ writing'[q] = writing[q] /\ life'[q] = life[q]
                                /\ closed'[q] = closed[q]
  BY <1>1, GoOnLeaves
<1>3. (life'[p] # "closing" => closed'[p] = 0) /\ closed'[p] <= emitted[p]
  <2>1. emitted[p] \in Nat
    BY DEF OrderInv, TypeOK
  <2>2. QED
    BY <1>2, <2>1 DEF EventsInv, BufferIsYoung
<1>4. Visible' = Visible
  BY <1>1, SameFiles
<1>5. QED
  BY <1>1, <1>2, <1>3, <1>4, OneProcess

\* Once its file is renamed, a process has all it was handed over in files.
LEMMA RenameKeeps ==
  ASSUME OrderInv, EventsInv, NEW p \in Procs, Rename(p) PROVE EventsInv'
<1> DEFINE n == writing[p]
<1>1. /\ n # 0 /\ GoOn(p) /\ refused' = refused \ {p} /\ tmp' = tmp \ {n}
      /\ buffer' = [buffer EXCEPT ![p] = 0] /\ UNCHANGED <<emitted, batch>>
  BY DEF Rename
<1>2. /\ writing'[p] = 0 /\ life[p] # "down" /\ life'[p] # "down"
      /\ (life'[p] = life[p] /\ closed'[p] = closed[p])
           \/ (life'[p] = "closing" /\ closed'[p] = emitted[p])
      /\ \A q \in Procs \ {p} : /\ writing'[q] = writing[q] /\ life'[q] = life[q]
                                /\ closed'[q] = closed[q]
  BY <1>1, GoOnLeaves
<1>3. n \in Files /\ Visible' = Visible \cup {n}
  BY <1>1, Appears
<1>4. /\ batch[n].by = p /\ batch[n].upto = emitted[p] /\ batch[n].from = emitted[p] - buffer[p] + 1
      /\ \A m \in Files : batch[m].by = p => m <= n
      /\ buffer[p] \in Nat /\ emitted[p] \in Nat /\ buffer[p] <= emitted[p] /\ closed[p] \in Nat
  BY <1>1 DEF OrderInv, WritesFit, TypeOK
<1> HIDE DEF n
<1>5. /\ \A m \in Visible \cup {n} : EventsOf(m)' = EventsOf(m)
      /\ \A q, i : Covered(q, i) => Covered(q, i)'
  <2>1. \A q, i : Covered(q, i) => Covered(q, i)'
    BY <1>1, <1>3, CoveredStays
  <2>2. QED
    BY <1>1, <2>1 DEF EventsOf
<1>6. ASSUME NEW i \in 1 .. emitted[p]
      PROVE  \E m \in Visible' : m <= n /\ <<p, i>> \in EventsOf(m)'
  <2>1. CASE i \in 1 .. emitted[p] - buffer[p]
    <3>1. PICK m \in Visible : <<p, i>> \in EventsOf(m)
      BY <1>2, <2>1 DEF EventsInv, BufferIsRest, Covered
    <3>2. batch[m].by = p /\ m \in Files
      BY <3>1 DEF EventsOf, Visible
    <3>3. QED
      BY <1>3, <1>4, <1>5, <3>1, <3>2
  <2>2. CASE i \notin 1 .. emitted[p] - buffer[p]
    <3>1. <<p, i>> \in EventsOf(n)
      BY <1>4, <2>2 DEF EventsOf
    <3>2. n <= n
      BY <1>3 DEF Files
    <3>3. QED
      BY <1>3, <1>5, <3>1, <3>2
  <2>3. QED
    BY <2>1, <2>2
<1>7. NoGap'
  <2>1. ASSUME NEW k \in Visible, NEW i \in 1 .. batch[k].upto
        PROVE  \E m \in Visible' : m <= k /\ <<batch[k].by, i>> \in EventsOf(m)'
    BY <1>3, <1>5 DEF EventsInv, NoGap
  <2>2. QED
    BY <1>1, <1>3, <1>4, <1>6, <2>1 DEF NoGap
<1>8. buffer'[p] = 0 /\ \A q \in Procs \ {p} : buffer'[q] = buffer[q]
  BY <1>1 DEF OrderInv, TypeOK
<1>9. BufferIsRest'
  <2>1. \A i \in 1 .. emitted[p] : Covered(p, i)'
    BY <1>6 DEF Covered
  <2>2. emitted'[p] - buffer'[p] = emitted[p]
    BY <1>1, <1>4, <1>8
  <2>3. QED
    BY <1>1, <1>2, <1>5, <1>8, <2>1, <2>2 DEF EventsInv, BufferIsRest
<1>10. BufferIsYoung'
  <2>1. FlushAt \in Nat \ {0} /\ (life[p] # "closing" => closed[p] = 0)
    BY <1>2, DeliveryAssumption DEF EventsInv, BufferIsYoung
  <2>2. closed[p] <= emitted[p]
    BY <1>2 DEF EventsInv, BufferIsYoung
  <2>3. QED
    BY <1>1, <1>2, <1>4, <1>8, <2>1, <2>2 DEF EventsInv, BufferIsYoung
<1>11. EndAccounted'
  BY <1>1, <1>2, <1>5 DEF EventsInv, EndAccounted
<1>12. QED
  BY <1>7, <1>9, <1>10, <1>11 DEF EventsInv

\* What a process loses with its memory.
LEMMA EndKeeps ==
  ASSUME OrderInv, EventsInv, NEW p \in Procs, life[p] # "down", End(p) PROVE EventsInv'
<1>1. /\ UNCHANGED <<emitted, closed, batch, tmp, refused>>
      /\ life' = [life EXCEPT ![p] = "down"] /\ buffer' = [buffer EXCEPT ![p] = 0]
      /\ writing' = [writing EXCEPT ![p] = 0]
  BY DEF End
<1>2. /\ life'[p] = "down"
      /\ \A q \in Procs \ {p} : /\ life'[q] = life[q] /\ buffer'[q] = buffer[q]
                                /\ writing'[q] = writing[q]
  BY <1>1 DEF OrderInv, TypeOK
<1>3. /\ Visible' = Visible /\ NoGap' /\ \A q, i : Covered(q, i) => Covered(q, i)'
  BY <1>1, SameFiles, SameFilesGap, CoveredStays DEF EventsInv
<1>4. BufferIsRest' /\ BufferIsYoung'
  BY <1>1, <1>2, <1>3 DEF EventsInv, BufferIsRest, BufferIsYoung
<1>5. /\ emitted[p] \in Nat /\ buffer[p] \in Nat /\ buffer[p] <= emitted[p] /\ closed[p] \in Nat
      /\ FlushAt \in Nat
  BY DeliveryAssumption DEF OrderInv, TypeOK, WritesFit
<1>6. ASSUME NEW i \in 1 .. emitted[p]
      PROVE  Covered(p, i) \/ p \in refused \/ (i > closed[p] /\ i + FlushAt > emitted[p])
  <2>1. CASE i \in 1 .. emitted[p] - buffer[p]
    BY <2>1 DEF EventsInv, BufferIsRest
  <2>2. CASE i \notin 1 .. emitted[p] - buffer[p]
    <3>1. i > emitted[p] - buffer[p]
      BY <1>5, <2>2
    <3>2. p \notin refused => buffer[p] <= FlushAt /\ closed[p] <= emitted[p] - buffer[p]
      BY DEF EventsInv, BufferIsYoung
    <3>3. QED
      BY <1>5, <3>1, <3>2
  <2>3. QED
    BY <2>1, <2>2
<1>7. EndAccounted'
  BY <1>1, <1>2, <1>3, <1>6 DEF EventsInv, EndAccounted
<1>8. QED
  BY <1>3, <1>4, <1>7 DEF EventsInv

\* Steps that leave buffers and files alone.
LEMMA QuietEvents ==
  ASSUME EventsInv, UNCHANGED <<life, emitted, closed, buffer, writing, batch, tmp, refused>>
  PROVE  EventsInv'
<1>1. /\ Visible' = Visible /\ NoGap' /\ \A q, i : Covered(q, i) => Covered(q, i)'
  BY SameFiles, SameFilesGap, CoveredStays DEF EventsInv
<1>2. QED
  BY <1>1 DEF EventsInv, BufferIsRest, BufferIsYoung, EndAccounted

LEMMA EventsStep == OrderInv /\ EventsInv /\ [Next]_vars => EventsInv'
<1> SUFFICES ASSUME OrderInv, EventsInv, [Next]_vars PROVE EventsInv'
  OBVIOUS
<1>1. ASSUME NEW p \in Procs, WakeUp(p) \/ GetLock(p) PROVE EventsInv'
  <2>1. CASE Flush(p)
    BY <1>1, <2>1, FlushKeeps DEF WakeUp, GetLock, process
  <2>2. CASE ~Flush(p)
    <3>1. UNCHANGED <<life, emitted, closed, buffer, writing, batch, tmp, refused>>
      BY <1>1, <2>2 DEF WakeUp, GetLock, process, written
    <3>2. QED
      BY <3>1, QuietEvents
  <2>3. QED
    BY <2>1, <2>2
<1>2. ASSUME NEW p \in Procs, Stopped(p) \/ Join(p) PROVE EventsInv'
  <2>1. UNCHANGED <<life, emitted, closed, buffer, writing, batch, tmp, refused>>
    BY <1>2 DEF Stopped, Join, process, written
  <2>2. QED
    BY <2>1, QuietEvents
<1>3. ASSUME NEW p \in Procs, Exit(p) \/ Crash(p) PROVE EventsInv'
  BY <1>3, EndKeeps DEF Exit, Crash
<1>4. ASSUME NEW s \in Senders, Round(s) \/ TimeOut(s) PROVE EventsInv'
  <2>1. UNCHANGED <<life, emitted, closed, buffer, writing, batch, tmp, refused>>
    BY <1>4 DEF Round, List, Post, Leave, Answer, Refused, Delivered, Park, TimeOut, process, written
  <2>2. QED
    BY <2>1, QuietEvents
<1>5. ASSUME NEW n \in late, AnswerLate(n) PROVE EventsInv'
  <2>1. UNCHANGED <<life, emitted, closed, buffer, writing, batch, tmp, refused>>
    BY <1>5 DEF AnswerLate, process
  <2>2. QED
    BY <2>1, QuietEvents
<1>6. CASE UNCHANGED vars
  <2>1. UNCHANGED <<life, emitted, closed, buffer, writing, batch, tmp, refused>>
    BY <1>6 DEF vars, process, written
  <2>2. QED
    BY <2>1, QuietEvents
<1>7. QED
  BY <1>1, <1>2, <1>3, <1>4, <1>5, <1>6, EmitKeeps, CloseKeeps, WriteFailsKeeps, RenameKeeps DEF Next

LEMMA EventsInit == Init => EventsInv
<1> SUFFICES ASSUME Init PROVE EventsInv
  OBVIOUS
<1>1. /\ \A p \in Procs : /\ life[p] = "up" /\ buffer[p] = 0 /\ emitted[p] = 0
                          /\ closed[p] = 0 /\ writing[p] = 0
      /\ batch = << >>
  BY DEF Init
<1>2. Visible = {}
  BY <1>1 DEF Visible, Files
<1>3. FlushAt \in Nat \ {0}
  BY DeliveryAssumption
<1>4. BufferIsRest /\ NoGap /\ EndAccounted
  BY <1>1, <1>2 DEF BufferIsRest, NoGap, EndAccounted
<1>5. BufferIsYoung
  BY <1>1, <1>3 DEF BufferIsYoung
<1>6. QED
  BY <1>4, <1>5 DEF EventsInv

-----------------------------------------------------------------------------
(* The theorems. *)

LEMMA DeliveryHolds == Spec => [](OrderInv /\ EventsInv)
<1>1. Init => OrderInv /\ EventsInv
  BY DeliveryInit, EventsInit
<1>2. OrderInv /\ EventsInv /\ [Next]_vars => (OrderInv /\ EventsInv)'
  BY DeliveryStep, EventsStep
<1>3. QED
  BY <1>1, <1>2, PTL DEF Spec

\* Every state has its type: what a sender lists, what is spooled, parked, recorded,
\* captured or handled late are files that were written.
THEOREM DeliveryTypes == Spec => []TypeOK
<1>1. OrderInv /\ EventsInv => TypeOK
  BY DEF OrderInv
<1>2. QED
  BY <1>1, DeliveryHolds, PTL

\* The events of a process are settled in the order in which they were handed over, for
\* any number of processes that name and rename files beside each other and of senders
\* that share the directory (emitter.py:72-82, 106-119).
THEOREM EventsInOrder == Spec => []OrderKept
<1>1. OrderInv /\ EventsInv => OrderKept
  <2> SUFFICES ASSUME OrderInv, EventsInv, NEW n \in Settled, NEW i \in 1 .. batch[n].upto
               PROVE  \E m \in Settled : <<batch[n].by, i>> \in EventsOf(m)
    BY DEF OrderKept
  <2>1. n \in Visible /\ Before(n) \subseteq Settled
    BY DEF OrderInv, FileOrder
  <2>2. PICK m \in Visible : m <= n /\ <<batch[n].by, i>> \in EventsOf(m)
    BY <2>1 DEF EventsInv, NoGap
  <2>3. batch[m].by = batch[n].by /\ m \in Nat /\ n \in Nat
    BY <2>1, <2>2 DEF EventsOf, Visible, Files
  <2>4. m = n \/ m \in Before(n)
    BY <2>2, <2>3 DEF Before
  <2>5. QED
    BY <2>1, <2>2, <2>4
<1>2. QED
  BY <1>1, DeliveryHolds, PTL

\* An event that was handed over is in the buffer of a process that runs, in a file of the
\* directory, or recorded, for any number of events, faults, processes and crashes; and
\* what a process loses when it ends it loses because the disk refused its last write, or
\* it is among its last events, after the last flush of close() if there was one
\* (emitter.py:66-93, 121-153).
THEOREM EventsNeverLost == Spec => []NothingLost
<1>1. OrderInv /\ EventsInv => NothingLost
  <2> SUFFICES ASSUME OrderInv, EventsInv, NEW p \in Procs, NEW i \in 1 .. emitted[p]
               PROVE  \/ Buffered(p, i) \/ Kept(p, i)
                      \/ life[p] = "down" /\ (p \in refused \/ (i > closed[p] /\ i + FlushAt > emitted[p]))
    BY DEF NothingLost
  <2>1. Covered(p, i) => Kept(p, i)
    BY DEF OrderInv, FilesAccounted, Covered, Kept, Settled
  <2>2. emitted[p] \in Nat /\ buffer[p] \in Nat
    BY DEF OrderInv, TypeOK
  <2>3. CASE life[p] = "down"
    BY <2>1, <2>3 DEF EventsInv, EndAccounted
  <2>4. CASE life[p] # "down" /\ i \in 1 .. emitted[p] - buffer[p]
    BY <2>1, <2>4 DEF EventsInv, BufferIsRest
  <2>5. CASE i \notin 1 .. emitted[p] - buffer[p]
    BY <2>2, <2>5 DEF Buffered
  <2>6. QED
    BY <2>3, <2>4, <2>5
<1>2. QED
  BY <1>1, DeliveryHolds, PTL

===============================================================================
