-------------------------------- MODULE Verify --------------------------------
(***************************************************************************)
(* Reading the record back: the daily anchor job, GET /v1/chain/verify and *)
(* the evidence export with the stand-alone verifier an auditor runs on    *)
(* it, all beside a collector that goes on recording.                      *)
(*                                                                         *)
(* A verification reads PostgreSQL, the anchor bucket and the event log in *)
(* separate steps and no lock covers them, so batches may be inserted,     *)
(* committed or rolled back, and anchors put, between any two of its       *)
(* reads.  The event log may also lose or change a row: that is what       *)
(* verification is for.                                                    *)
(***************************************************************************)
EXTENDS Ingest, Functions

CONSTANTS
  NoAnchor,    \* nothing is stored under a date, or the listing failed
  NoJob,       \* no anchor job is running
  PageSize,    \* rows per page of an export (PAGE_SIZE)
  MaxDamage    \* bound: rows of the log that are damaged

ASSUME VerifyAssumption ==
  /\ NoAnchor \notin ChainHeads
  /\ PageSize \in Nat \ {0}
  /\ MaxDamage \in Nat

VARIABLES
  anchors,     \* anchors[d]: the chain head stored under the date d
  job,         \* the anchor job: the date it writes and the head it has read
  damage,      \* rows of the log damaged so far
  reader       \* one verification or one export, with what it has read

readerVars == <<anchors, job, damage, reader>>

allVars == <<vars, readerVars>>

\* Where a reader is.  A verification ends "done"; an export ends "done",
\* "refused" (an HTTP error) or "broken" (the stream stops half-way).
ReaderPhases ==
  {"idle", "head", "anchor", "full", "scanned", "suffix", "stream", "done",
   "refused", "broken"}

Modes == {"none", "full", "anchored_suffix", "anchor_failed"}

NewReader ==
  [op |-> "none", at |-> "idle", head |-> EmptyHead, anchor |-> NoAnchor,
   rows |-> << >>, mode |-> "none", valid |-> FALSE, matches |-> FALSE]

ReadersType ==
  [op : {"none", "verify", "export"}, at : ReaderPhases, head : ChainHeads,
   anchor : ChainHeads \cup {NoAnchor}, rows : Seq(Rows), mode : Modes,
   valid : BOOLEAN, matches : BOOLEAN]

ReaderTypeOK ==
  /\ anchors \in [Days -> ChainHeads \cup {NoAnchor}]
  /\ job \in [day : Days, head : ChainHeads] \cup {NoJob}
  /\ damage \in 0 .. MaxDamage
  /\ reader \in ReadersType

-----------------------------------------------------------------------------
(* What a query of the event log returns. *)

\* In the order of chain_seq; rows with the same number by the insert they came with.
RowBefore(a, b, rank) ==
  a.seq < b.seq \/ (a.seq = b.seq /\ rank[a.ins] < rank[b.ins])

\* The rows of a range, in that order: rows with the same number come in any order.
ScanOf(rows) ==
  LET inserts == {row.ins : row \in rows}
  IN  { [i \in 1 .. Cardinality(rows) |->
           CHOOSE row \in rows :
             Cardinality({x \in rows : RowBefore(x, row, rank)}) = i - 1] :
        rank \in Injection(inserts, 1 .. Cardinality(inserts)) }

RowsBetween(lo, hi) == {row \in log : row.seq \in lo .. hi}

\* Of rows with the same number only one is returned.
SuffixOf_Deduplicated(anchor, to) ==
  UNION { ScanOf(pick) :
          pick \in {s \in SUBSET RowsBetween(anchor.seq + 1, to.seq) :
                      /\ \A x, y \in s : x.seq = y.seq => x = y
                      /\ {x.seq : x \in s}
                           = {x.seq : x \in RowsBetween(anchor.seq + 1, to.seq)}} }

\* Everything after the anchor is read, also what was appended meanwhile.
SuffixOf_Unbounded(anchor, to) ==
  ScanOf({row \in log : row.seq > anchor.seq})

\* The rows after the anchor, up to the head that was read.
SuffixOf(anchor, to) == ScanOf(RowsBetween(anchor.seq + 1, to.seq))

LastOf(rows) == rows[Len(rows)]

BodiesOf(rows) == [i \in 1 .. Len(rows) |-> rows[i].body]

\* The anchor with the highest sequence number.
LatestAnchor ==
  LET put == {anchors[d] : d \in Days} \ {NoAnchor}
  IN  IF put = {} THEN NoAnchor
      ELSE CHOOSE a \in put : \A b \in put : b.seq <= a.seq

-----------------------------------------------------------------------------
(* The anchor job. *)

\* The newest row of the log is anchored.
AnchoredHead_FromLog ==
  IF log = {} THEN head
  ELSE LET last == CHOOSE row \in log : \A x \in log : x.seq <= row.seq
       IN  [hash |-> last.hash, seq |-> last.seq]

\* What the job copies: the committed chain head.
AnchoredHead == head

\* The date is taken once, when the job starts.
JobDate(d) == d

\* The job has taken its date, perhaps before midnight, and reads the heads; a
\* tenant that never recorded anything has none.
AnchorRead(d) ==
  /\ job = NoJob /\ head.seq > 0
  /\ d <= day
  /\ job' = [day |-> JobDate(d), head |-> AnchoredHead]
  /\ UNCHANGED <<vars, anchors, damage, reader>>

\* The head is put under the job's date; a second put of a day replaces it.
AnchorPut ==
  /\ job # NoJob
  /\ anchors' = [anchors EXCEPT ![job.day] = job.head]
  /\ job' = NoJob
  /\ UNCHANGED <<vars, damage, reader>>

\* The put fails or the job dies before it.
AnchorFail ==
  /\ job # NoJob
  /\ job' = NoJob
  /\ UNCHANGED <<vars, anchors, damage, reader>>

-----------------------------------------------------------------------------
(* Damage to the event log. *)

\* A row is lost, its content changes under its hash, or its content and its
\* hash are written anew.
DamageRow(row) ==
  LET changed == [row EXCEPT !.body.ref = ~@]
      rewritten == [changed EXCEPT !.hash = compute_event_hash(row.prev, changed.body)]
  IN  /\ damage < MaxDamage
      /\ damage' = damage + 1
      /\ log' \in { (log \ {row}) \cup kept : kept \in {{}, {changed}, {rewritten}} }
      /\ UNCHANGED <<pc, try, txn, lock, head, config, usage, metered, segments,
                     objects, commits, anchors, job, reader>>

-----------------------------------------------------------------------------
(* Steps shared by the verification and the export. *)

Reading(next) ==
  /\ reader' = next
  /\ UNCHANGED <<vars, anchors, job, damage>>

Verdict(mode, valid, matches, rows) ==
  Reading([reader EXCEPT !.at = "done", !.mode = mode, !.valid = valid,
                         !.matches = matches, !.rows = rows])

\* The first read: the committed chain head.
ReadHead(op) ==
  /\ reader.at = "idle"
  /\ Reading([reader EXCEPT !.op = op, !.head = head,
                            !.at = IF head.seq >= 1 THEN "head"
                                   ELSE IF op = "verify" THEN "full" ELSE "refused"])

\* The second: the anchors.  Listing them may fail, and then there is none: the
\* verification starts over from the first event, the export is refused.
ReadAnchors ==
  /\ reader.at = "head"
  /\ \E found \in {LatestAnchor, NoAnchor} :
       Reading([reader EXCEPT
                  !.anchor = found,
                  !.at = IF found # NoAnchor THEN "anchor"
                         ELSE IF reader.op = "verify" THEN "full" ELSE "refused"])

\* The anchor was taken after the head was read.
AnchorAhead == reader.anchor.seq > reader.head.seq

\* The row the anchor points at, any of them if there are several; none matches
\* the anchor if there is no such row (LIMIT 1).
CheckpointMatches ==
  LET found == {row \in log : row.seq = reader.anchor.seq}
  IN  IF found = {} THEN {FALSE} ELSE {row.hash = reader.anchor.hash : row \in found}

-----------------------------------------------------------------------------
(* GET /v1/chain/verify. *)

\* An anchor that the head does not cover, or that the log does not bear out.
RejectAnchor ==
  /\ reader.op = "verify" /\ reader.at = "anchor"
  /\ AnchorAhead \/ FALSE \in CheckpointMatches
  /\ Verdict("anchor_failed", FALSE, FALSE, << >>)

AcceptAnchor ==
  /\ reader.op = "verify" /\ reader.at = "anchor"
  /\ ~AnchorAhead /\ TRUE \in CheckpointMatches
  /\ Reading([reader EXCEPT !.at = "suffix"])

\* The hashes and the links of the suffix, its link to the anchor, and that it
\* ends where the head does.
SuffixValid(rows, anchor, to) ==
  LET last == IF rows = << >> THEN anchor.hash ELSE LastOf(rows).hash
  IN  /\ verify_chain(rows)
      /\ rows # << >> => rows[1].prev = anchor.hash
      /\ to.seq > anchor.seq => rows # << >> /\ LastOf(rows).seq = to.seq
      /\ last = to.hash

VerifySuffix ==
  /\ reader.op = "verify" /\ reader.at = "suffix"
  /\ \E rows \in SuffixOf(reader.anchor, reader.head) :
       LET valid == SuffixValid(rows, reader.anchor, reader.head)
       IN  Verdict("anchored_suffix", valid, valid, rows)

\* A log whose first row continues something else is not complete.
StartsAtGenesis_Ignored(rows) == TRUE

StartsAtGenesis(rows) == rows # << >> => rows[1].prev = GENESIS_HASH

\* Without an anchor: every row there is, also those past the committed head.
VerifyAll ==
  /\ reader.op = "verify" /\ reader.at = "full"
  /\ \E rows \in ScanOf(log) :
       IF verify_chain(rows) /\ StartsAtGenesis(rows) /\ rows # << >>
       THEN Reading([reader EXCEPT !.at = "scanned", !.rows = rows])
       ELSE Verdict("full", verify_chain(rows) /\ StartsAtGenesis(rows), FALSE, rows)

\* Only then is the head read, and compared if it is that of the last row.
CompareHead ==
  /\ reader.at = "scanned"
  /\ LET last    == LastOf(reader.rows)
         reached == head.seq > 0 /\ head.seq = last.seq
         matches == reached /\ last.hash = head.hash
     IN  Reading([reader EXCEPT !.at = "done", !.mode = "full", !.head = head,
                                !.valid = reached => matches, !.matches = matches])

-----------------------------------------------------------------------------
(* GET /v1/evidence/tenant, and abx_verify on what it streams. *)

RefuseExport ==
  /\ reader.op = "export" /\ reader.at = "anchor"
  /\ AnchorAhead \/ FALSE \in CheckpointMatches
  /\ Reading([reader EXCEPT !.at = "refused"])

StartExport ==
  /\ reader.op = "export" /\ reader.at = "anchor"
  /\ ~AnchorAhead /\ TRUE \in CheckpointMatches
  /\ Reading([reader EXCEPT !.at = "stream"])

\* The first page of what a query returns.
Limited(rows) == SubSeq(rows, 1, IF Len(rows) < PageSize THEN Len(rows) ELSE PageSize)

\* The next page is asked for from the last row that was sent.
NextPage_Overlapping(from, to) ==
  {Limited(rows) : rows \in ScanOf(RowsBetween(from - 1, to))}

\* The first PageSize rows not sent yet, up to the anchor.
NextPage(from, to) == {Limited(rows) : rows \in ScanOf(RowsBetween(from, to))}

\* One page is read and its rows are sent, unless one is out of sequence; the
\* stream then stops without its footer.
StreamPage ==
  LET sent == Len(reader.rows) IN
  /\ reader.at = "stream"
  /\ sent < reader.anchor.seq
  /\ \E page \in NextPage(sent + 1, reader.anchor.seq) :
       IF page # << >> /\ \A i \in 1 .. Len(page) : page[i].seq = sent + i
       THEN Reading([reader EXCEPT !.rows = @ \o page])
       ELSE Reading([reader EXCEPT !.at = "broken"])

\* The footer with the checkpoint and the anchor ends the bundle.
FinishExport ==
  /\ reader.at = "stream"
  /\ Len(reader.rows) >= reader.anchor.seq
  /\ Reading([reader EXCEPT !.at = "done"])

\* The verifier trusts the hash that each event carries.
Recomputes_Not(row) == TRUE

\* The verifier computes the hash of each event from its content.
Recomputes(row) == SelfConsistent(row)

\* What abx_verify says of a bundle: its rows, whether it has a footer, and the
\* anchor in the footer, against a head that the auditor got from elsewhere.
verify_file(rows, footer, anchor, trusted) ==
  /\ rows # << >>
  /\ \A i \in 1 .. Len(rows) :
       /\ rows[i].seq = i
       /\ rows[i].prev = IF i = 1 THEN GENESIS_HASH ELSE rows[i - 1].hash
       /\ Recomputes(rows[i])
  /\ footer
  /\ anchor.seq = Len(rows) /\ anchor.hash = LastOf(rows).hash
  /\ LastOf(rows).hash = trusted

-----------------------------------------------------------------------------
VerifyInit ==
  /\ Init
  /\ anchors = [d \in Days |-> NoAnchor]
  /\ job = NoJob
  /\ damage = 0
  /\ reader = NewReader

Collect == Next /\ UNCHANGED readerVars

VerifyNext ==
  \/ Collect
  \/ \E d \in Days : AnchorRead(d)
  \/ AnchorPut
  \/ AnchorFail
  \/ \E row \in log : DamageRow(row)
  \/ \E op \in {"verify", "export"} : ReadHead(op)
  \/ ReadAnchors
  \/ RejectAnchor \/ AcceptAnchor \/ VerifySuffix
  \/ VerifyAll \/ CompareHead
  \/ RefuseExport \/ StartExport \/ StreamPage \/ FinishExport

VerifySpec == VerifyInit /\ [][VerifyNext]_allVars

-----------------------------------------------------------------------------
(* Properties. *)

Verified == reader.op = "verify" /\ reader.at = "done"

\* Rows of transactions that were rolled back.
Orphans ==
  {row \in log : /\ row.ins \notin commits
                 /\ ~ \E r \in Requests : pc[r] = "inserted" /\ Sub(r) = row.ins}

\* Every anchor is a part of the record: what a transaction inserted and then
\* rolled back is never anchored, even if the job runs while it is in the log
\* (anchor.py:16-38 reads the head, not the log).
AnchorsOnChain ==
  \A d \in Days : anchors[d] # NoAnchor =>
    /\ 0 < anchors[d].seq /\ anchors[d].seq <= head.seq
    /\ anchors[d].hash = SubSeq(head.hash, 1, anchors[d].seq)

\* What an anchored verification declares valid is the record, event by event,
\* from the anchor to the head it read, whatever was recorded, rolled back or
\* damaged between its reads (verify.py:99-181).
AnchoredVerdictSound ==
  Verified /\ reader.valid /\ reader.mode = "anchored_suffix" =>
    BodiesOf(reader.rows)
      = SubSeq(reader.head.hash, reader.anchor.seq + 1, reader.head.seq)

\* What a full verification declares valid and the checkpoint confirms is the
\* whole record (verify.py:65-96).
FullVerdictSound ==
  Verified /\ reader.valid /\ reader.mode = "full" /\ reader.matches =>
    BodiesOf(reader.rows) = reader.head.hash

\* As long as the log is intact, a positive anchored verdict is one on committed
\* rows only: a row that a rolled-back transaction left in the range is never taken
\* for the committed one with the same content and number.  A full verification
\* does not promise this: it scans before it reads the head, and a repeated batch
\* may commit in between (verify.py:65-88).
AnchoredRowsCommitted ==
  Verified /\ reader.valid /\ reader.mode = "anchored_suffix" /\ damage = 0 =>
    \A i \in 1 .. Len(reader.rows) : reader.rows[i].ins \in commits

\* With an intact log and no rolled-back rows a verification fails in one case
\* only: the anchor it found is younger than the head it had read.  Batches that
\* are inserted or committed while it reads never make it fail.
NoFalseAlarm ==
  Verified /\ ~reader.valid /\ damage = 0 /\ Orphans = {} =>
    reader.mode = "anchor_failed" /\ AnchorAhead

\* A bundle that an auditor's run of abx_verify accepts against any hash that is
\* anchored holds the record up to that anchor; a stream that stopped half-way
\* is never accepted (evidence.py:60-98, abx_verify.py:102-194).
EvidenceSound ==
  reader.op = "export" =>
    \A d \in Days : anchors[d] # NoAnchor =>
      ( verify_file(reader.rows, reader.at = "done", reader.anchor, anchors[d].hash)
          => BodiesOf(reader.rows) = anchors[d].hash )

\* With an intact log and no rolled-back rows an export that has begun delivers
\* the record up to its anchor, page by page, and abx_verify accepts it, however
\* much is recorded meanwhile.
EvidenceComplete ==
  reader.op = "export" /\ damage = 0 /\ Orphans = {} =>
    /\ reader.at # "broken"
    /\ reader.at = "done" =>
         verify_file(reader.rows, TRUE, reader.anchor, reader.anchor.hash)

\* The step ends an anchored verification, which is what a tenant with an anchor
\* gets, with a positive verdict.
Confirms ==
  reader.at # "done" /\ Verified' /\ reader'.valid /\ reader'.mode = "anchored_suffix"

\* Rows that a failed commit left behind come to light in verification
\* (the comment of ingest.py:201-203): none lies within the part of the chain that
\* a positive verdict covers.
OrphansSurface ==
  [][Confirms => \A row \in Orphans : row.seq > reader'.head.seq]_allVars
===============================================================================
