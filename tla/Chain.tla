-------------------------------- MODULE Chain --------------------------------
(***************************************************************************)
(* The hash chain of one tenant: what chain.py computes, and what a reader *)
(* of the chain may conclude.                                              *)
(*                                                                         *)
(* SHA-256 is modelled as injective.  The hash of an event is the sequence *)
(* of all the event bodies it commits to, from the first event of the      *)
(* tenant to the event itself: two hashes are equal exactly when the whole *)
(* histories are.  A body keeps the two fields the properties tell apart,  *)
(* the event id and whether a payload reference was recorded.              *)
(***************************************************************************)
EXTENDS Naturals, Sequences

CONSTANT EventIds    \* the ids the producers may put on their events

Body == [id : EventIds, ref : BOOLEAN]

Hash == Seq(Body)

GENESIS_HASH == << >>

\* The head of the chain: head_hash and head_seq of the row of chain_heads.
ChainHeads == [hash : Hash, seq : Nat]

EmptyHead == [hash |-> GENESIS_HASH, seq |-> 0]

\* What hashing a body on top of `prev` gives.
compute_event_hash(prev, body) == Append(prev, body)

(***************************************************************************)
(* The rows of one batch: each event is chained on the one before it, and  *)
(* the chain sequence numbers follow that of the head.  `ins` names the    *)
(* insert the rows came with, so that the set of rows can stand for a      *)
(* table that keeps the same row twice.                                    *)
(***************************************************************************)
ChainRows(head, bodies, ins) ==
  { [ seq  |-> head.seq + i,
      prev |-> head.hash \o SubSeq(bodies, 1, i - 1),
      body |-> bodies[i],
      hash |-> compute_event_hash(head.hash \o SubSeq(bodies, 1, i - 1), bodies[i]),
      ins  |-> ins ] : i \in 1 .. Len(bodies) }

\* The head once the batch is chained.
AdvanceHead(head, bodies) ==
  [hash |-> head.hash \o bodies, seq |-> head.seq + Len(bodies)]

\* A row carries the hash of its own content, on top of its own prev_hash.
SelfConsistent(row) == row.hash = compute_event_hash(row.prev, row.body)

\* The links are compared, the hashes taken on trust.
verify_chain_LinksOnly(rows) ==
  \A i \in 2 .. Len(rows) : rows[i].prev = rows[i - 1].hash

(***************************************************************************)
(* verify_chain on a sequence of rows: every hash is recomputed and every  *)
(* prev_hash compared with the hash before it.  The prev_hash of the first *)
(* row is left to the caller.                                              *)
(***************************************************************************)
verify_chain(rows) ==
  /\ \A i \in 1 .. Len(rows) : SelfConsistent(rows[i])
  /\ \A i \in 2 .. Len(rows) : rows[i].prev = rows[i - 1].hash
==============================================================================
