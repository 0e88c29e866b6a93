------------------------------- MODULE Delivery -------------------------------
(***************************************************************************)
(* How the tap delivers what it recorded: the emitters of several tap      *)
(* processes, the spool directory they share, and POST /v1/ingest behind a *)
(* network that loses requests and answers or delivers requests late.      *)
(*                                                                         *)
(* A process has a buffer, a sender thread that wakes up every few seconds *)
(* and, when the agent exits, a last flush and drain in close().  A write  *)
(* holds the lock of the buffer and takes two steps: the events go to a    *)
(* file that no sender sees, named with the time, and the file is renamed. *)
(* Every sender ships every file of the directory, oldest first, so two    *)
(* senders may be at the same file.  The file n is the n-th one named.     *)
(*                                                                         *)
(* A definition named Op_Fault is Op with a seeded fault.                  *)
(***************************************************************************)
EXTENDS Naturals, Sequences

CONSTANTS
  Procs,        \* tap processes that share a spool directory
  Plans,        \* bound: how many events the agents may cause, one of these plans
  Exiting,      \* processes whose agent exits some day; the others may crash
  FlushAt,      \* events that are written at once (FLUSH_AT_EVENTS)
  WithPayload,  \* events, <<p, i>>, that carry a payload to capture
  Malformed,    \* events for which the collector answers 4xx
  MaxFaults     \* bound: failed writes, failed requests and lost answers

ASSUME DeliveryAssumption ==
  /\ Plans \subseteq [Procs -> Nat]
  /\ Exiting \subseteq Procs
  /\ FlushAt \in Nat \ {0}
  /\ MaxFaults \in Nat

VARIABLES
  life,       \* life[p]: the process; one that starts later idles until then
  emitted,    \* emitted[p]: events handed to emit() so far
  buffer,     \* buffer[p]: how many of them, the last ones, are in _buffer
  writing,    \* writing[p]: the file that is written under the lock, or 0
  sender,     \* sender[<<p, role>>]: the sender thread, the drain of close()
  batch,      \* batch[n]: whose and which events the n-th file was named for
  tmp,        \* files that were not renamed (yet)
  spool,      \* files named batch-*.json
  parked,     \* files renamed to *.rejected
  recorded,   \* batches the collector has committed, once or more often
  captured,   \* batches whose payload segments exist
  late,       \* batches of abandoned requests the collector may still handle
  faults,     \* faults so far
  refused,    \* history: processes whose last write the disk did not take
  closed      \* history: closed[p]: the events before the last flush of close()

process == <<life, emitted, closed>>
written == <<buffer, writing, batch, tmp, refused, faults>>
collector == <<recorded, captured, late>>
vars == <<process, written, sender, spool, parked, collector>>

Senders == Procs \X {"loop", "close"}

Files == 1 .. Len(batch)

\* A sender that is not on its round: it has listed nothing.
Off(at) == [at |-> at, todo |-> {}, tried |-> FALSE, call |-> "none"]

SenderStates ==
  [at : {"off", "wait", "awake", "write", "list", "next", "posted", "done", "dead"},
   todo : SUBSET Nat, tried : BOOLEAN, call : {"none", "sent", "200", "4xx"}]

Batch == [by : Procs, from : Nat, upto : Nat]

TypeOK ==
  /\ life \in [Procs -> {"up", "flushing", "closing", "down"}]
  /\ emitted \in [Procs -> Nat] /\ buffer \in [Procs -> Nat]
  /\ closed \in [Procs -> Nat] /\ writing \in [Procs -> Nat]
  /\ sender \in [Senders -> SenderStates]
  /\ batch \in Seq(Batch)
  /\ tmp \subseteq Files /\ spool \subseteq Files /\ parked \subseteq Files
  /\ recorded \subseteq Files /\ captured \subseteq Files /\ late \subseteq Files
  /\ refused \subseteq Procs
  /\ faults \in 0 .. MaxFaults

Become(s, state) == sender' = [sender EXCEPT ![s] = state]

\* One more fault, while there may be one.
Fault == faults < MaxFaults /\ faults' = faults + 1

EventsOf(n) == {<<batch[n].by, i>> : i \in batch[n].from .. batch[n].upto}

Oldest(files) == CHOOSE n \in files : \A m \in files : n <= m

-----------------------------------------------------------------------------
(* The buffer and the spool. *)

\* The buffer is in nobody's hands.
LockFree(p) == life[p] # "down" /\ writing[p] = 0

\* The first step of a write: the events of the buffer, of which there are now this
\* many, go to a file that has its name and that no sender sees.
Write(p, events, size) ==
  /\ batch' = Append(batch, [by |-> p, from |-> events - size + 1, upto |-> events])
  /\ tmp' = tmp \cup {Len(batch) + 1}
  /\ writing' = [writing EXCEPT ![p] = Len(batch) + 1]
  /\ buffer' = [buffer EXCEPT ![p] = size]
  /\ UNCHANGED <<refused, faults>>

\* The thread that wrote goes on: the sender thread with its round, close() with
\* telling it to stop, the observer with the next event.
GoOn(p) ==
  /\ writing' = [writing EXCEPT ![p] = 0]
  /\ IF sender[<<p, "loop">>].at = "write" THEN Become(<<p, "loop">>, Off("list"))
     ELSE UNCHANGED sender
  /\ IF life[p] = "flushing"
     THEN /\ life' = [life EXCEPT ![p] = "closing"]
          /\ closed' = [closed EXCEPT ![p] = emitted[p]]
     ELSE UNCHANGED <<life, closed>>

\* The second step: the file appears in the directory and the buffer is emptied.
Rename(p) ==
  /\ writing[p] # 0
  /\ tmp' = tmp \ {writing[p]}
  /\ spool' = spool \cup {writing[p]}
  /\ buffer' = [buffer EXCEPT ![p] = 0]
  /\ refused' = refused \ {p}
  /\ GoOn(p)
  /\ UNCHANGED <<emitted, batch, faults, parked, collector>>

\* The disk does not take the file: the events stay in the buffer.
WriteFails(p) ==
  /\ writing[p] # 0
  /\ Fault
  /\ refused' = refused \cup {p}
  /\ GoOn(p)
  /\ UNCHANGED <<emitted, buffer, batch, tmp, spool, parked, collector>>

\* The observer hands over an event; with enough of them a file is written.  It
\* may still do so after close() has begun: it is joined for two seconds only.
Emit(p) ==
  LET size == buffer[p] + 1 IN
  /\ LockFree(p)
  /\ \E plan \in Plans : emitted[p] < plan[p] /\ \A q \in Procs : emitted[q] <= plan[q]
  /\ emitted' = [emitted EXCEPT ![p] = @ + 1]
  /\ IF size >= FlushAt THEN Write(p, emitted[p] + 1, size)
     ELSE /\ buffer' = [buffer EXCEPT ![p] = size]
          /\ UNCHANGED <<writing, batch, tmp, refused, faults>>
  /\ UNCHANGED <<life, closed, sender, spool, parked, collector>>

-----------------------------------------------------------------------------
(* A process. *)

\* The sender thread flushes what there is.
Flush(p) ==
  /\ LockFree(p)
  /\ IF buffer[p] = 0 THEN Become(<<p, "loop">>, Off("list")) /\ UNCHANGED written
     ELSE Become(<<p, "loop">>, Off("write")) /\ Write(p, emitted[p], buffer[p])

\* Its time has come, and it has not been told to stop; if the lock is taken it waits
\* for it, and may go on only when it has been told to.
WakeUp(p) ==
  /\ sender[<<p, "loop">>].at = "wait" /\ life[p] \in {"up", "flushing"}
  /\ \/ Flush(p)
     \/ writing[p] # 0 /\ Become(<<p, "loop">>, Off("awake")) /\ UNCHANGED written
  /\ UNCHANGED <<process, spool, parked, collector>>

GetLock(p) ==
  /\ sender[<<p, "loop">>].at = "awake"
  /\ Flush(p)
  /\ UNCHANGED <<process, spool, parked, collector>>

\* The thread is told to stop, and what is in the buffer is not written.
Close_Unflushed(p) ==
  /\ p \in Exiting /\ life[p] = "up" /\ LockFree(p)
  /\ life' = [life EXCEPT ![p] = "closing"]
  /\ closed' = [closed EXCEPT ![p] = emitted[p]]
  /\ UNCHANGED <<emitted, written, sender, spool, parked, collector>>

\* The agent exits: the last flush, and then the sender thread is told to stop.
Close(p) ==
  /\ p \in Exiting /\ life[p] = "up" /\ LockFree(p)
  /\ IF buffer[p] = 0
     THEN /\ life' = [life EXCEPT ![p] = "closing"]
          /\ closed' = [closed EXCEPT ![p] = emitted[p]]
          /\ UNCHANGED written
     ELSE /\ life' = [life EXCEPT ![p] = "flushing"]
          /\ Write(p, emitted[p], buffer[p])
          /\ UNCHANGED closed
  /\ UNCHANGED <<emitted, sender, spool, parked, collector>>

Stopped(p) ==
  /\ sender[<<p, "loop">>].at = "wait" /\ life[p] = "closing"
  /\ Become(<<p, "loop">>, Off("done"))
  /\ UNCHANGED <<process, written, spool, parked, collector>>

\* The thread has ended, or is waited for no longer: the last drain begins.
Join(p) ==
  /\ life[p] = "closing" /\ sender[<<p, "close">>].at = "off"
  /\ Become(<<p, "close">>, Off("list"))
  /\ UNCHANGED <<process, written, spool, parked, collector>>

\* The batch of a request that the collector has not handled.
Unhandled(s) == IF sender[s].call = "sent" THEN {Oldest(sender[s].todo)} ELSE {}

\* The memory of a process that ends is gone, with what its threads were at; a file
\* that was not renamed never will be.  Its requests may be handled yet.
End(p) ==
  /\ life' = [life EXCEPT ![p] = "down"]
  /\ buffer' = [buffer EXCEPT ![p] = 0]
  /\ writing' = [writing EXCEPT ![p] = 0]
  /\ \E left \in SUBSET UNION {Unhandled(<<p, role>>) : role \in {"loop", "close"}} :
       late' = late \cup left
  /\ sender' = [s \in Senders |-> IF s[1] = p THEN Off("done") ELSE sender[s]]
  /\ UNCHANGED <<emitted, closed, batch, tmp, refused, faults, spool, parked, recorded, captured>>

\* After the drain, or the exception that ended it, the process exits with its
\* threads.
Exit(p) ==
  /\ life[p] = "closing" /\ sender[<<p, "close">>].at \in {"done", "dead"}
  /\ End(p)

Crash(p) == life[p] # "down" /\ End(p)

-----------------------------------------------------------------------------
(* A sender's round. *)

EndRound(s) == Become(s, Off(IF s[2] = "loop" THEN "wait" ELSE "done"))

List(s) ==
  /\ sender[s].at = "list"
  /\ Become(s, [sender[s] EXCEPT !.at = "next", !.todo = spool])
  /\ UNCHANGED <<process, written, spool, parked, collector>>

\* The next file is read and posted; a file that is gone was somebody else's.
Post(s) ==
  LET todo == sender[s].todo IN
  /\ sender[s].at = "next" /\ todo # {}
  /\ IF Oldest(todo) \in spool
     THEN Become(s, [sender[s] EXCEPT !.at = "posted", !.call = "sent"])
     ELSE Become(s, [sender[s] EXCEPT !.todo = @ \ {Oldest(todo)}, !.tried = TRUE])
  /\ UNCHANGED <<process, written, spool, parked, collector>>

\* No file is left, or the deadline has passed (never before the first file).
Leave(s) ==
  /\ sender[s].at = "next"
  /\ sender[s].todo = {} \/ sender[s].tried
  /\ EndRound(s)
  /\ UNCHANGED <<process, written, spool, parked, collector>>

\* The file is done with: on to the next one.
Finished(s) ==
  Become(s, [at |-> "next", todo |-> sender[s].todo \ {Oldest(sender[s].todo)},
             tried |-> TRUE, call |-> "none"])

Awaiting(s, answer) == sender[s].at = "posted" /\ sender[s].call = answer

\* 200: the file is deleted, if it is still there.
Delivered(s) ==
  /\ Awaiting(s, "200")
  /\ spool' = spool \ {Oldest(sender[s].todo)}
  /\ Finished(s)
  /\ UNCHANGED <<process, written, parked, collector>>

\* A file the collector will never take is tried again like any other.
Park_Retry(s) ==
  /\ Awaiting(s, "4xx")
  /\ EndRound(s)
  /\ UNCHANGED <<process, written, spool, parked, collector>>

\* 4xx: the file is renamed.  If another sender was faster there is no file to
\* rename, and the exception ends the thread.
Park(s) ==
  LET n == Oldest(sender[s].todo) IN
  /\ Awaiting(s, "4xx")
  /\ IF n \in spool
     THEN spool' = spool \ {n} /\ parked' = parked \cup {n} /\ Finished(s)
     ELSE Become(s, Off("dead")) /\ UNCHANGED <<spool, parked>>
  /\ UNCHANGED <<process, written, collector>>

\* The round goes on with the next file after an error.
GiveUp_Skipping(s) == Finished(s)

\* What an error does to a round: it ends, and the file stays.
GiveUp(s) == EndRound(s)

\* 429 or 5xx of a collector in trouble; or no answer, because the request, the
\* answer or the patience was lost, and the collector may handle it all the same.
TimeOut(s) ==
  /\ sender[s].at = "posted"
  /\ Fault
  /\ late' \in {late, late \cup Unhandled(s)}
  /\ GiveUp(s)
  /\ UNCHANGED <<process, buffer, writing, batch, tmp, refused, spool, parked, recorded, captured>>

-----------------------------------------------------------------------------
(* The collector. *)

Bad(n) == EventsOf(n) \cap Malformed # {}

HasPayload(n) == EventsOf(n) \cap WithPayload # {}

\* A segment exists for a payload of the batch.
Conflicts(n) == n \in captured

\* The batch is committed.  If the object store does not take its payloads, it is
\* committed without them.
Record(n) ==
  /\ ~Bad(n)
  /\ recorded' = recorded \cup {n}
  /\ \/ /\ ~Conflicts(n)
        /\ captured' = IF HasPayload(n) THEN captured \cup {n} ELSE captured
        /\ UNCHANGED faults
     \/ HasPayload(n) /\ Fault /\ UNCHANGED captured

\* The batch is committed or found invalid.
Answer(s) ==
  LET n == Oldest(sender[s].todo) IN
  /\ Awaiting(s, "sent")
  /\ \/ Record(n) /\ Become(s, [sender[s] EXCEPT !.call = "200"])
     \/ Bad(n) /\ Become(s, [sender[s] EXCEPT !.call = "4xx"]) /\ UNCHANGED <<recorded, captured, faults>>
  /\ UNCHANGED <<process, buffer, writing, batch, tmp, refused, spool, parked, late>>

\* The segments of the batch exist: their second insert fails, 500.
Refused(s) ==
  /\ Awaiting(s, "sent")
  /\ ~Bad(Oldest(sender[s].todo)) /\ Conflicts(Oldest(sender[s].todo))
  /\ GiveUp(s)
  /\ UNCHANGED <<process, written, spool, parked, collector>>

\* A request whose sender has given up is handled.
AnswerLate(n) ==
  /\ n \in late /\ late' = late \ {n}
  /\ Record(n)
  /\ UNCHANGED <<process, buffer, writing, batch, tmp, refused, sender, spool, parked>>

-----------------------------------------------------------------------------
Init ==
  /\ life = [p \in Procs |-> "up"]
  /\ emitted = [p \in Procs |-> 0] /\ buffer = [p \in Procs |-> 0]
  /\ closed = [p \in Procs |-> 0] /\ writing = [p \in Procs |-> 0]
  /\ sender = [s \in Senders |-> Off(IF s[2] = "loop" THEN "wait" ELSE "off")]
  /\ batch = << >>
  /\ tmp = {} /\ spool = {} /\ parked = {}
  /\ recorded = {} /\ captured = {} /\ late = {}
  /\ refused = {} /\ faults = 0

\* What a sender does on its round, and the collector for it.
Round(s) ==
  \/ List(s) \/ Post(s) \/ Leave(s)
  \/ Answer(s) \/ Refused(s)
  \/ Delivered(s) \/ Park(s)

Next ==
  \/ \E p \in Procs :
       \/ Emit(p) \/ Rename(p) \/ WriteFails(p)
       \/ WakeUp(p) \/ GetLock(p)
       \/ Close(p) \/ Stopped(p) \/ Join(p) \/ Exit(p) \/ Crash(p)
  \/ \E s \in Senders : Round(s) \/ TimeOut(s)
  \/ \E n \in late : AnswerLate(n)

\* A sender thread that runs goes on, a write that was begun ends, and the collector
\* answers what it receives; with the bound on faults, the disk and the collector are
\* some day in order.
Fairness ==
  \A p \in Procs :
    WF_vars(WakeUp(p) \/ GetLock(p) \/ Round(<<p, "loop">>)) /\ WF_vars(Rename(p))

Spec == Init /\ [][Next]_vars /\ Fairness

-----------------------------------------------------------------------------
(* Properties. *)

\* The event is in the buffer; with the process, its buffer is gone.
Buffered(p, i) == emitted[p] - buffer[p] < i

\* The event is in a file of the directory, or recorded.
Kept(p, i) == \E n \in spool \cup parked \cup recorded : <<p, i>> \in EventsOf(n)

\* An event that was handed over is in the buffer of a process that runs, in a file, or
\* recorded: no lost answer, second sender, late request or deletion by another process
\* loses it.  It may be lost with a process that ended while the disk did not take its
\* writes; and otherwise only if it came after the last flush of close(), or without one,
\* and is among the last FlushAt: a crash, also between the two steps of a write, loses
\* no more (emitter.py:66-93, 121-153).
NothingLost ==
  \A p \in Procs : \A i \in 1 .. emitted[p] :
    \/ Buffered(p, i)
    \/ Kept(p, i)
    \/ life[p] = "down" /\ (p \in refused \/ (i > closed[p] /\ i + FlushAt > emitted[p]))

Settled == recorded \cup parked

\* The events of a process are settled in the order in which they were handed over: a
\* batch is recorded or parked only when all that its process caused before it is,
\* whatever the other senders, failed writes and late requests do (emitter.py:72-82,
\* 106-119).
OrderKept ==
  \A n \in Settled : \A i \in 1 .. batch[n].upto :
    \E m \in Settled : <<batch[n].by, i>> \in EventsOf(m)

\* A process with a sender thread that is alive.
SenderUp(p) == life[p] = "up" /\ sender[<<p, "loop">>].at # "dead"

\* Nothing waits for delivery but behind a batch whose payload segments exist.
Drained ==
  /\ spool = {} \/ Oldest(spool) \in captured
  /\ \A p \in Procs : SenderUp(p) => buffer[p] = 0

\* While some process keeps its sender thread, the spool drains, also the files of
\* processes that crashed, past malformed batches and through failures - unless
\* the oldest file is a batch with payloads that the collector has committed
\* already (emitter.py:97-119).
Drains == <>[](\E p \in Procs : SenderUp(p)) => <>[]Drained

\* "If the backend is down, spool files accumulate and drain on recovery"
\* (emitter.py:6-7).
DrainsOnRecovery == <>[](\E p \in Procs : SenderUp(p)) => <>[](spool = {})
===============================================================================
