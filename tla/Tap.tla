---------------------------------- MODULE Tap ----------------------------------
(***************************************************************************)
(* What the tap sees of an MCP session and makes of it.  Two pumps pass    *)
(* the lines of the client and of the server on, or, for a remote server,  *)
(* one handler for each request; each puts a copy of what it has passed    *)
(* into one bounded queue, from which the observer takes line after line   *)
(* and turns them into events.  The emitter behind it is module Delivery.  *)
(*                                                                         *)
(* A message is a request or a notification of one side; its reply is a    *)
(* line of the other.  Beside a remote call the tap writes lines of its    *)
(* own: what the request is authorised by, where it was redirected to and  *)
(* that its answer did not come or not all of it.                          *)
(***************************************************************************)
EXTENDS Naturals, Sequences, FiniteSets, SequencesExt

CONSTANTS
  Messages,
  Shape,      \* Shape[m]: [from, id, kind, list, exchange, retry, version, refs]
  NoneYet,    \* no inventory, exchange or version
  MaxQueue,   \* max size of the queue
  MaxPending  \* _MAX_PENDING

VARIABLES
  transport,  \* "stdio" or "http"
  hand,       \* what a pump or handler has passed on and not yet put into the queue
  passed,     \* lines that were passed on or that the tap wrote: <<m, part>>
  queue,      \* the observation queue
  missed,     \* lines that found the queue full
  seen,       \* history: the lines the observer has taken, in order
  pending,    \* requests without a reply, oldest first: <<key, m>>
  tools,      \* last_tools_hash
  exchanges,  \* _mrtr: <<key, m>>
  announced,  \* protocol_version and _announced
  events,     \* the events that were handed to the emitter
  end,        \* "run", "stopping", "joined", "stopped" and "over"
  hasty       \* pump_out was waited for in vain

observerVars == <<seen, pending, tools, exchanges, announced, events>>
tapVars == <<transport, hand, passed, queue, missed, observerVars, end, hasty>>

Directions == {"c2s", "s2c"}

\* From an odd reply the observer recovers; junk is no JSON, or an array.
Kinds == {"call", "note", "list", "ask", "odd", "junk"}

\* The last three are lines of the tap, and a chunk is a piece of a reply.
Parts == {"request", "reply", "chunk", "auth", "redirect", "failure"}

Lines == Messages \X Parts

\* The line that ends the observer.
Stop == <<NoneYet, "stop">>

ASSUME TapAssumption ==
  /\ \A m \in Messages : /\ Shape[m].from \in Directions /\ Shape[m].kind \in Kinds
                         /\ {Shape[m].retry, Shape[m].refs} \subseteq BOOLEAN
  \* MCP: a side gives an id to one request of a session; a notification has none.
  /\ \A m, n \in Messages :
       /\ Shape[m].from = Shape[n].from /\ Shape[m].id = Shape[n].id
       /\ "note" \notin {Shape[m].kind, Shape[n].kind}
       => m = n
  /\ MaxQueue \in Nat \ {0} /\ MaxPending \in Nat \ {0}

Threads == Directions \cup Messages

TapTypeOK ==
  /\ transport \in {"stdio", "http"}
  /\ hand \in [Threads -> SUBSET Lines] /\ \A t \in Threads : Cardinality(hand[t]) <= 1
  /\ passed \subseteq Lines /\ missed \subseteq Lines
  /\ queue \in Seq(Lines \cup {Stop}) /\ Len(queue) <= MaxQueue
  /\ seen \in Seq(Lines)
  /\ \A i \in DOMAIN pending : pending[i][2] \in Messages
  /\ Len(pending) <= MaxPending
  /\ \A x \in exchanges : x[2] \in Messages
  /\ end \in {"run", "stopping", "joined", "stopped", "over"} /\ hasty \in BOOLEAN

-----------------------------------------------------------------------------
(* Passing lines on.  Nothing is changed, and nothing waits for the observer. *)

Other(d) == IF d = "c2s" THEN "s2c" ELSE "c2s"

Notification(m) == Shape[m].kind = "note"

DirectionOf(line) ==
  IF line[2] \in {"request", "auth"} THEN Shape[line[1]].from ELSE Other(Shape[line[1]].from)

ThreadOf(line) == IF transport = "http" THEN line[1] ELSE DirectionOf(line)

\* pump_out reads to the end of what the server writes; the process waits for it, a while.
Pumping(d) == end \in {"run", "stopping"} \/ (end # "over" /\ (d = "c2s" \/ hasty))

Carry(line) ==
  /\ line \notin passed /\ hand[ThreadOf(line)] = {}
  /\ passed' = passed \cup {line}
  /\ hand' = [hand EXCEPT ![ThreadOf(line)] = {line}]
  /\ UNCHANGED <<transport, queue, missed, observerVars, end, hasty>>

\* pump_in and pump_out: the line is written first and put into the queue then.
Pump(line) ==
  /\ transport = "stdio" /\ Pumping(DirectionOf(line))
  /\ \/ line[2] = "request"
     \/ line[2] = "reply" /\ <<line[1], "request">> \in passed /\ ~Notification(line[1])
  /\ Carry(line)

\* A full queue drops the line.
Put(line) ==
  IF Len(queue) < MaxQueue THEN queue' = Append(queue, line) /\ UNCHANGED missed
  ELSE missed' = missed \cup {line} /\ UNCHANGED queue

_observe(t) ==
  \E line \in hand[t] :
    /\ end # "over" /\ Put(line)
    /\ hand' = [hand EXCEPT ![t] = {}]
    /\ UNCHANGED <<transport, passed, observerVars, end, hasty>>

\* do_POST: the request, and what it shows of its token, before it is forwarded.
Post(m) ==
  LET line == <<m, "request">>
      auth == IF Shape[m].refs THEN {<<m, "auth">>} ELSE {}
  IN  /\ transport = "http" /\ Shape[m].from = "c2s" /\ line \notin passed /\ hand[m] = {}
      /\ Put(line)
      /\ passed' = passed \cup {line} \cup auth
      /\ hand' = [hand EXCEPT ![m] = auth]
      /\ UNCHANGED <<transport, observerVars, end, hasty>>

\* The request of m was forwarded, and its handler has not given up on it.
Forwarded(m) ==
  transport = "http" /\ <<m, "request">> \in passed /\ <<m, "failure">> \notin passed

Answered(m) == \E part \in {"reply", "chunk"} : <<m, part>> \in passed

\* The answer: where it points to, a body in one chunk or in several of which none can be
\* read, and what the tap says of one that broke off.
_relay(line) ==
  LET m == line[1]
  IN  /\ Forwarded(m)
      /\ \/ line[2] = "redirect" /\ ~Answered(m)
         \/ line[2] = "reply" /\ ~Answered(m) /\ ~Notification(m)
         \/ line[2] = "chunk" /\ ~Answered(m)
         \/ line[2] = "failure"
      /\ Carry(line)

\* _incomplete: the server could not be reached.
_incomplete(m) ==
  /\ Forwarded(m) /\ ~Answered(m) /\ <<m, "redirect">> \notin passed
  /\ Carry(<<m, "failure">>)

-----------------------------------------------------------------------------
(* The observer. *)

\* One key for both sides.
Key_Id(m) == Shape[m].id

\* Both sides may use the same ids.
Key(m) == <<Shape[m].from, Shape[m].id>>

\* _remember: what was there first goes when there are too many.
Trimmed(s) == IF Len(s) > MaxPending THEN Tail(s) ELSE s

\* The same key keeps its place in the table.
Remembered(m) ==
  IF \E i \in DOMAIN pending : pending[i][1] = Key(m)
  THEN [i \in DOMAIN pending |-> IF pending[i][1] = Key(m) THEN <<Key(m), m>> ELSE pending[i]]
  ELSE Trimmed(Append(pending, <<Key(m), m>>))

ExchangeOf(k) == {x[2] : x \in {y \in exchanges : y[1] = k}}

\* seq numbers the events of the session; of is the request an event is about.
Event(m, part, of, more) ==
  [m |-> m, part |-> part, of |-> of, seq |-> Len(events), refs |-> more]

Marker(v) == IF v = NoneYet \/ v = announced THEN {} ELSE {<<"protocol", v>>}

\* A request or a notification.  A retry names the exchange it continues.
_observe_outbound(m) ==
  /\ pending' = IF Notification(m) THEN pending ELSE Remembered(m)
  /\ announced' = IF Shape[m].version = NoneYet THEN announced ELSE Shape[m].version
  /\ events' = Append(events, Event(m, "request", m,
       Marker(Shape[m].version) \cup
         IF Shape[m].retry THEN {<<"exchange", x>> : x \in ExchangeOf(Shape[m].exchange)} ELSE {}))
  /\ UNCHANGED <<tools, exchanges>>

\* A line that the tap has written itself; the pending request stays.
_observation(m, part) ==
  /\ events' = Append(events, Event(m, part, m, {}))
  /\ UNCHANGED <<pending, tools, exchanges, announced>>

Drift(m, of) ==
  IF Shape[of].kind = "list" /\ tools \notin {NoneYet, Shape[m].list} THEN {<<"drift", Shape[m].list>>}
  ELSE {}

\* _mrtr.setdefault for an interim result, _mrtr.pop for another.
Exchanges(of) ==
  LET k == Shape[of].exchange
  IN  IF Shape[of].kind # "ask" THEN {x \in exchanges : x[1] # k}
      ELSE IF ExchangeOf(k) = {} THEN exchanges \cup {<<k, of>>} ELSE exchanges

\* Without a pending request a reply is nothing.
_observe_reply(m) ==
  LET at == {i \in DOMAIN pending : pending[i][1] = Key(m)}
  IN  IF at = {}
      THEN UNCHANGED <<pending, tools, exchanges, announced, events>>
      ELSE LET i  == CHOOSE j \in at : TRUE
               of == pending[i][2]
           IN  /\ pending' = RemoveAt(pending, i)
               /\ UNCHANGED announced
               /\ IF Shape[m].kind = "odd" THEN UNCHANGED <<tools, exchanges, events>>
                  ELSE /\ tools' = IF Shape[of].kind = "list" THEN Shape[m].list ELSE tools
                       /\ exchanges' = Exchanges(of)
                       /\ events' = Append(events, Event(m, "reply", of, Drift(m, of) \cup
                            {<<"exchange", x>> : x \in {y[2] : y \in
                               {z \in exchanges \cup Exchanges(of) : z[1] = Shape[of].exchange}}}))

\* What is no JSON object: junk on either side, and the chunks of a reply.
Unreadable(line) == line[2] = "chunk" \/ (line[2] \in {"request", "reply"} /\ Shape[line[1]].kind = "junk")

\* None, once it is taken, ends the loop.
Observing == end \in {"run", "stopping", "joined"} \/ (end = "stopped" /\ \E i \in DOMAIN queue : queue[i] = Stop)

_observe_line(line) ==
  IF Unreadable(line) THEN UNCHANGED <<pending, tools, exchanges, announced, events>>
  ELSE CASE line[2] = "request" -> _observe_outbound(line[1])
         [] line[2] = "reply"   -> _observe_reply(line[1])
         [] OTHER               -> _observation(line[1], line[2])

observe ==
  /\ queue # << >> /\ Head(queue) # Stop /\ Observing
  /\ queue' = Tail(queue)
  /\ seen' = Append(seen, Head(queue))
  /\ _observe_line(Head(queue))
  /\ UNCHANGED <<transport, hand, passed, missed, end, hasty>>

-----------------------------------------------------------------------------
(* The end of a tap that runs a server; who started the proxy stops it. *)

ChildExits ==
  /\ transport = "stdio" /\ end = "run" /\ end' = "stopping"
  /\ UNCHANGED <<transport, hand, passed, queue, missed, observerVars, hasty>>

\* The end of pump_out is taken for granted.
Join_NotAwaited ==
  /\ end = "stopping" /\ end' = "joined"
  /\ UNCHANGED <<transport, hand, passed, queue, missed, observerVars, hasty>>

\* threads[1].join: pump_out has put what it read, or two seconds have passed.
Join ==
  /\ end = "stopping" /\ end' = "joined"
  /\ hasty' \in (IF hand["s2c"] = {} THEN BOOLEAN ELSE {TRUE})
  /\ UNCHANGED <<transport, hand, passed, queue, missed, observerVars>>

\* observe.put(None) waits for room.
PutStop ==
  /\ end = "joined" /\ end' = "stopped"
  /\ Len(queue) < MaxQueue
  /\ queue' = Append(queue, Stop)
  /\ UNCHANGED <<transport, hand, passed, missed, observerVars, hasty>>

\* The observer has come to the end.
TakeStop ==
  /\ end = "stopped" /\ queue # << >> /\ Head(queue) = Stop
  /\ queue' = Tail(queue)
  /\ UNCHANGED <<transport, hand, passed, missed, observerVars, end, hasty>>

\* The process ends, whether or not the observer has: it is waited for two seconds.
TapExits ==
  /\ end = "stopped" /\ end' = "over"
  /\ UNCHANGED <<transport, hand, passed, queue, missed, observerVars, hasty>>

TapInit ==
  /\ transport \in {"stdio", "http"}
  /\ hand = [t \in Threads |-> {}]
  /\ passed = {} /\ missed = {} /\ queue = << >> /\ seen = << >>
  /\ pending = << >> /\ tools = NoneYet /\ exchanges = {} /\ announced = NoneYet
  /\ events = << >> /\ end = "run" /\ hasty = FALSE

TapNext ==
  \/ \E line \in Lines : Pump(line) \/ _relay(line)
  \/ \E t \in Threads : _observe(t)
  \/ \E m \in Messages : Post(m) \/ _incomplete(m)
  \/ observe
  \/ ChildExits \/ Join \/ PutStop \/ TakeStop \/ TapExits

TapSpec == TapInit /\ [][TapNext]_tapVars

-----------------------------------------------------------------------------
(* Properties. *)

Happened(part, m) == {i \in DOMAIN events : events[i].m = m /\ events[i].part = part}

\* A recorded reply is that of the request it is recorded for, comes after it, and comes
\* once, although both sides number their requests alike, replies overtake one another
\* and requests are forgotten (observer.py:205-264, 281-344).
RepliesFit ==
  \A i \in DOMAIN events : events[i].part = "reply" =>
    /\ events[i].of = events[i].m
    /\ Happened("reply", events[i].m) = {i}
    /\ \E j \in Happened("request", events[i].m) : j < i

Waiting(line) == (\E t \in Threads : line \in hand[t]) \/ \E i \in DOMAIN queue : queue[i] = line

Seen(line) == {i \in DOMAIN seen : seen[i] = line}

\* More requests came after it than the table of pending requests holds.
Forgotten(m) ==
  \E i \in Seen(<<m, "request">>) :
    Cardinality({j \in DOMAIN seen : j > i /\ seen[j][2] = "request" /\ ~Notification(seen[j][1])
                                     /\ ~Unreadable(seen[j])})
      >= MaxPending

\* The process ended before the line was observed.  It was still ahead of the end mark, so
\* the observer was waited for in vain; or it came too late for the mark, and it was the
\* client's, whose pump is not waited for, or pump_out was waited for in vain.
LeftBehind(line) ==
  /\ end = "over"
  /\ \/ \E i, j \in DOMAIN queue : i < j /\ queue[i] = line /\ queue[j] = Stop
     \/ Waiting(line) /\ (DirectionOf(line) = "c2s" \/ hasty)

\* Every line that was passed on is recorded, or waits in a tap that still runs, or it is
\* lost for one of seven reasons: the queue was full, the process ended without waiting
\* for it any longer, it is no JSON object, its reply was seen without or before its
\* request, the table of pending requests was full, or the observer recovered from it
\* (pump.py:65-115, cli.py:41-52, observer.py:164-167, 195-215, 281-288).
LossHasCause ==
  \A line \in passed :
    LET m == line[1]
    IN  \/ Happened(line[2], m) # {} \/ line \in missed \/ Unreadable(line)
        \/ Waiting(line) /\ end # "over"
        \/ LeftBehind(line)
        \/ /\ line[2] = "reply"
           /\ \/ Seen(<<m, "request">>) = {}
              \/ \E i \in Seen(line), j \in Seen(<<m, "request">>) : i < j
              \/ Forgotten(m)
              \/ Shape[m].kind = "odd"
===============================================================================
