---------------------------- MODULE CsvStreamer ----------------------------
(***************************************************************************)
(* The streaming exporter of export/csv.go over a writer that may fail:    *)
(* the byte order mark goes straight to the writer, records go through the *)
(* buffer of encoding/csv, which may pass on any part of itself when it    *)
(* runs full and, once the writer failed, refuses everything (the sticky   *)
(* error of bufio).  The caller writes rows in order and may go on after   *)
(* an error, with the same row or the next.                                *)
(*                                                                         *)
(* The mark and each record are two pieces, so that a write can be torn.   *)
(* Cells, their sanitisation and their quoting are left out.               *)
(***************************************************************************)
EXTENDS Naturals, SequencesExt

CONSTANTS
  Rows,            \* how many rows the caller has
  FlushIntervals,  \* values of FlushInterval to start with
  MaxFailures,     \* bound on failures of the writer
  MaxMarks,        \* bound on marks written: a failing header is tried so often
  Bom              \* the byte order mark

ASSUME CsvAssumption ==
  /\ Rows \in Nat
  /\ FlushIntervals \subseteq Nat
  /\ MaxFailures \in Nat
  /\ MaxMarks \in Nat
  /\ Bom \notin Nat

VARIABLES
  flushInterval,   \* options.FlushInterval
  includeBOM,      \* options.IncludeBOM
  pc,              \* what the call in progress has still to do
  out,             \* pieces that reached the writer
  buffer,          \* pieces in the csv.Writer
  sticky,          \* the csv.Writer has an error
  headerWritten,
  rowCount,
  row,             \* the row of the latest WriteRow, 0 before the first
  failed,          \* the latest call returned an error
  clean,           \* no call has
  flushed,         \* the latest call was a Flush that returned nil
  failures

options == <<flushInterval, includeBOM>>
result  == <<failed, clean, flushed>>
vars    == <<options, pc, out, buffer, sticky, headerWritten, rowCount, row,
             result, failures>>

Header == 0
Records == 0 .. Rows
Pieces(x) == <<<<x, 1>>, <<x, 2>>>>

CsvTypeOK ==
  /\ flushInterval \in FlushIntervals
  /\ pc \in {"ready", "bom", "header", "headerFlush", "row", "rowFlush", "flush"}
  /\ out \in Seq((Records \cup {Bom}) \X {1, 2})
  /\ buffer \in Seq(Records \X {1, 2})
  /\ {includeBOM, sticky, headerWritten, failed, clean, flushed} \subseteq BOOLEAN
  /\ rowCount \in 0 .. Rows
  /\ row \in 0 .. Rows
  /\ failures \in 0 .. MaxFailures

Init ==
  /\ flushInterval \in FlushIntervals
  /\ includeBOM \in BOOLEAN
  /\ pc = "ready"
  /\ out = <<>>
  /\ buffer = <<>>
  /\ sticky = FALSE
  /\ headerWritten = FALSE
  /\ rowCount = 0
  /\ row = 0
  /\ failed = FALSE
  /\ clean = TRUE
  /\ flushed = FALSE
  /\ failures = 0

-----------------------------------------------------------------------------

Return(ok) ==
  /\ pc' = "ready"
  /\ failed' = ~ok
  /\ clean' = (clean /\ ok)
  /\ UNCHANGED flushed

Continue(label) == pc' = label /\ UNCHANGED result

(* The call goes on with label, or it returns nil. *)
Then(more, label) == IF more THEN Continue(label) ELSE Return(TRUE)

WriterFails == failures < MaxFailures /\ failures' = failures + 1

(* So much of data goes to the writer; the buffer keeps the rest. *)
Spill(data) ==
  \E n \in 0 .. Len(data) :
    /\ out' = out \o SubSeq(data, 1, n)
    /\ buffer' = SubSeq(data, n + 1, Len(data))

-----------------------------------------------------------------------------
(* The calls *)

Begin(label) ==
  /\ pc = "ready"
  /\ pc' = label
  /\ flushed' = FALSE
  /\ UNCHANGED <<options, out, buffer, sticky, headerWritten, rowCount, failed, clean, failures>>

HeaderStart == IF includeBOM THEN "bom" ELSE "header"

MayTryHeader == Cardinality({i \in DOMAIN out : out[i] = <<Bom, 1>>}) < MaxMarks

(* WriteHeader of a caller that has written no row yet. *)
WriteHeader ==
  /\ row = 0
  /\ ~headerWritten
  /\ MayTryHeader
  /\ Begin(HeaderStart)
  /\ UNCHANGED row

(* WriteRow writes the header first if that has not succeeded. *)
WriteRow ==
  /\ row' \in {row + 1} \cup (IF failed THEN {row} ELSE {})
  /\ row' \in 1 .. Rows
  /\ headerWritten \/ MayTryHeader
  /\ Begin(IF headerWritten THEN "row" ELSE HeaderStart)

Flush == Begin("flush") /\ UNCHANGED row

-----------------------------------------------------------------------------
(* The byte order mark, past the csv.Writer *)

(* Mutant: the header counts as written from the start. *)
WriteBomMarking ==
  /\ pc = "bom"
  /\ headerWritten' = TRUE
  /\ \/ /\ out' = out \o Pieces(Bom)
        /\ Continue("header")
        /\ UNCHANGED failures
     \/ /\ WriterFails
        /\ \E part \in Prefixes(Pieces(Bom)) : out' = out \o part
        /\ Return(FALSE)
  /\ UNCHANGED <<options, buffer, sticky, rowCount, row>>

WriteBom ==
  /\ pc = "bom"
  /\ \/ /\ out' = out \o Pieces(Bom)
        /\ Continue("header")
        /\ UNCHANGED failures
     \/ /\ WriterFails
        /\ \E part \in Prefixes(Pieces(Bom)) : out' = out \o part
        /\ Return(FALSE)
  /\ UNCHANGED <<options, buffer, sticky, headerWritten, rowCount, row>>

-----------------------------------------------------------------------------
(* The csv.Writer *)

(* Write accepts the record and passes on any part of what it holds. *)
Put(x) ==
  /\ ~sticky
  /\ Spill(buffer \o Pieces(x))
  /\ UNCHANGED <<sticky, failures>>

(* It has an error, or gets one while it passes something on. *)
PutFails(x) ==
  \/ sticky /\ UNCHANGED <<out, buffer, sticky, failures>>
  \/ /\ ~sticky
     /\ WriterFails
     /\ Spill(buffer \o Pieces(x))
     /\ sticky' = TRUE

Push ==
  /\ ~sticky
  /\ out' = out \o buffer
  /\ buffer' = <<>>
  /\ UNCHANGED <<sticky, failures>>

PushFails ==
  \/ sticky /\ UNCHANGED <<out, buffer, sticky, failures>>
  \/ /\ ~sticky
     /\ buffer # <<>>
     /\ WriterFails
     /\ Spill(buffer)
     /\ sticky' = TRUE

-----------------------------------------------------------------------------
(* The steps of WriteHeader and WriteRow *)

PutHeader ==
  /\ pc = "header"
  /\ \/ Put(Header) /\ Continue("headerFlush")
     \/ PutFails(Header) /\ Return(FALSE)
  /\ UNCHANGED <<options, headerWritten, rowCount, row>>

(* Mutant: headerWritten is not set. *)
PushHeaderUnmarked ==
  /\ pc = "headerFlush"
  /\ \/ Push /\ Then(row # 0, "row")
     \/ PushFails /\ Return(FALSE)
  /\ UNCHANGED <<options, headerWritten, rowCount, row>>

PushHeader ==
  /\ pc = "headerFlush"
  /\ \/ Push /\ headerWritten' = TRUE /\ Then(row # 0, "row")
     \/ PushFails /\ UNCHANGED headerWritten /\ Return(FALSE)
  /\ UNCHANGED <<options, rowCount, row>>

(* Mutant: the row is counted before it is written. *)
PutRowCounting ==
  /\ pc = "row"
  /\ rowCount' = rowCount + 1
  /\ \/ /\ Put(row)
        /\ Then(flushInterval > 0 /\ rowCount' % flushInterval = 0, "rowFlush")
     \/ PutFails(row) /\ Return(FALSE)
  /\ UNCHANGED <<options, headerWritten, row>>

PutRow ==
  /\ pc = "row"
  /\ \/ /\ Put(row)
        /\ rowCount' = rowCount + 1
        /\ Then(flushInterval > 0 /\ rowCount' % flushInterval = 0, "rowFlush")
     \/ PutFails(row) /\ UNCHANGED rowCount /\ Return(FALSE)
  /\ UNCHANGED <<options, headerWritten, row>>

PushRow ==
  /\ pc = "rowFlush"
  /\ \/ Push /\ Return(TRUE)
     \/ PushFails /\ Return(FALSE)
  /\ UNCHANGED <<options, headerWritten, rowCount, row>>

(* Mutant: csvWriter.Error() is not asked. *)
EndFlushBlind ==
  /\ pc = "flush"
  /\ pc' = "ready"
  /\ failed' = FALSE
  /\ flushed' = TRUE
  /\ Push \/ PushFails
  /\ UNCHANGED <<options, headerWritten, rowCount, row, clean>>

(* Flush and Close *)
EndFlush ==
  /\ pc = "flush"
  /\ pc' = "ready"
  /\ \/ Push /\ failed' = FALSE /\ flushed' = TRUE /\ UNCHANGED clean
     \/ PushFails /\ failed' = TRUE /\ clean' = FALSE /\ UNCHANGED flushed
  /\ UNCHANGED <<options, headerWritten, rowCount, row>>

Next ==
  \/ WriteHeader \/ WriteRow \/ Flush
  \/ WriteBom \/ PutHeader \/ PushHeader \/ PutRow \/ PushRow \/ EndFlush

Spec == Init /\ [][Next]_vars

-----------------------------------------------------------------------------

(* The file with n rows. *)
Marks   == IF includeBOM THEN Pieces(Bom) ELSE <<>>
File(n) == Marks \o [i \in 1 .. 2 * (n + 1) |-> <<(i - 1) \div 2, 1 + ((i - 1) % 2)>>]

RowsIn(pieces) == {n \in 1 .. Rows : \E i \in DOMAIN pieces : pieces[i] = <<n, 2>>}

(* Between calls none of which failed, what was written and what is        *)
(* buffered are together the file with the rows written so far: one mark,  *)
(* one header, every row once and in order.                                *)
CleanFile ==
  pc = "ready" /\ clean =>
    /\ rowCount = row
    /\ out \o buffer = IF headerWritten THEN File(row) ELSE <<>>

(* Rows reach the writer when they should: if no call failed, then after a *)
(* Flush or Close that returned nil it has the whole file, and between     *)
(* calls fewer than FlushInterval rows are held back ("Flush underlying    *)
(* buffer every N rows").                                                  *)
FlushDelivers ==
  /\ flushed /\ clean /\ headerWritten => out = File(row)
  /\ pc = "ready" /\ ~sticky /\ flushInterval > 0 =>
       Cardinality(RowsIn(buffer)) < flushInterval

(* Record pieces in order, marks left aside: the header comes first, then *)
(* the second half after the first and a later row after an earlier one.   *)
IsMark(p)     == p[1] = Bom
Follows(p, q) == IF p[2] = 1 THEN q = <<p[1], 2>> ELSE q[2] = 1 /\ q[1] > p[1]

Placed(s, i) ==
  IF \A j \in 1 .. i - 1 : IsMark(s[j])
  THEN s[i] = <<Header, 1>>
  ELSE \E j \in 1 .. i - 1 : /\ ~IsMark(s[j])
                             /\ \A k \in j + 1 .. i - 1 : IsMark(s[k])
                             /\ Follows(s[j], s[i])

InOrder(s) == \A i \in DOMAIN s : IsMark(s[i]) \/ Placed(s, i)

(* Whatever failed and whatever the caller tried again: the records that   *)
(* reached the writer start with the header, no record comes twice or out  *)
(* of order, and nothing follows a torn record.                            *)
RecordsInOrder == InOrder(out)

(* RowCount, "the total number of data rows written": it counts every row  *)
(* the csv.Writer took and, once that has an error, no row it refused.     *)
RowCountHonest ==
  LET taken == Cardinality(RowsIn(out \o buffer))
  IN  /\ rowCount <= taken
      /\ ~sticky => rowCount = taken

=============================================================================
