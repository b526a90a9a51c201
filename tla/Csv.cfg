\* Four rows, two failures of the writer, three attempts at the mark, three flush intervals.
CONSTANTS
  Rows = 4
  FlushIntervals <- Intervals
  MaxFailures = 2
  MaxMarks = 3
  Bom = Bom
SPECIFICATION Spec
INVARIANTS
  CsvTypeOK
  CleanFile
  FlushDelivers
  RecordsInOrder
  RowCountHonest

