------------------------------- MODULE MCCsv -------------------------------
(* Instances of CsvStreamer for TLC. *)
EXTENDS CsvStreamer

(* No interval, every row, every other row. *)
Intervals == {0, 1, 2}

=============================================================================
