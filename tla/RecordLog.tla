------------------------------ MODULE RecordLog ------------------------------
(***************************************************************************)
(* What the collector promises about a tenant's record: it only grows, and *)
(* it grows by whole batches.  A step records the events of one batch, in  *)
(* their order and with nothing between them; which of the payloads were   *)
(* captured is the collector's choice.                                     *)
(***************************************************************************)
EXTENDS Naturals, Sequences

CONSTANTS
  Requests,   \* the calls that submit a batch
  Batch       \* Batch[r]: the sequence of events r submits

VARIABLE record   \* the sequence of event bodies recorded so far

Record(r) ==
  \E kept \in [1 .. Len(Batch[r]) -> BOOLEAN] :
    /\ \A i \in 1 .. Len(Batch[r]) : kept[i] => Batch[r][i].payload
    /\ record' = record \o
         [i \in 1 .. Len(Batch[r]) |-> [id |-> Batch[r][i].id, ref |-> kept[i]]]

Init == record = << >>

Next == \E r \in Requests : Record(r)

Spec == Init /\ [][Next]_record
==============================================================================
