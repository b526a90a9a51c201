----------------------------- MODULE CsvProofs -----------------------------
(***************************************************************************)
(* Theorems about CsvStreamer, for every number of rows, flush interval    *)
(* and failing writer.  Without a failure inside the csv.Writer, what was  *)
(* written and what is buffered are together marks, the header and one run *)
(* of consecutive rows: StreamIsFile says so exactly, and with it what the *)
(* file looks like follows from where the two parts meet.                  *)
(***************************************************************************)
EXTENDS CsvStreamer, FiniteSetTheorems, SequenceTheorems, TLAPS

Mark   == {Bom} \X {1, 2}
Record == Records \X {1, 2}
Piece  == (Records \cup {Bom}) \X {1, 2}

(* The header and the n rows up to last, which are consecutive. *)
Lines(last, n) ==
  [i \in 1 .. 2 * (n + 1) |->
     <<IF i <= 2 THEN Header ELSE last - n + ((i - 1) \div 2), 1 + ((i - 1) % 2)>>]

(* Marks m, and the header and the rows after them once it is put.         *)
Content(m, put, last, n) == m \o (IF put THEN Lines(last, n) ELSE <<>>)

-----------------------------------------------------------------------------
(* Sequences of pieces *)

(* Marks are no records. *)
LEMMA PieceTypes ==
  /\ Mark \subseteq Piece
  /\ Record \subseteq Piece
  /\ \A p \in Mark : IsMark(p)
  /\ \A p \in Record : ~IsMark(p)
  BY CsvAssumption DEF Mark, Record, Piece, Records, IsMark

(* A record is two pieces. *)
LEMMA PiecesType ==
  /\ \A x \in Records : Pieces(x) \in Seq(Record)
  /\ Pieces(Bom) \in Seq(Mark)
  BY DEF Pieces, Record, Mark

(* Only what comes before a piece decides whether it is in its place. *)
LEMMA PlacedLocal ==
  ASSUME NEW s, NEW w, NEW i \in Nat, \A j \in 1 .. i : w[j] = s[j], Placed(s, i), i > 0
  PROVE  Placed(w, i)
<1>1. i \in 1 .. i /\ \A j \in 1 .. i - 1 : j \in 1 .. i
  OBVIOUS
<1>2. \A j \in 1 .. i - 1 : \A k \in j + 1 .. i - 1 : k \in 1 .. i
  OBVIOUS
<1>3. CASE \A j \in 1 .. i - 1 : IsMark(s[j])
  BY <1>1, <1>3 DEF Placed
<1>4. CASE ~ \A j \in 1 .. i - 1 : IsMark(s[j])
  <2>1. PICK j \in 1 .. i - 1 : /\ ~IsMark(s[j])
                                /\ \A k \in j + 1 .. i - 1 : IsMark(s[k])
                                /\ Follows(s[j], s[i])
    BY <1>4 DEF Placed
  <2>2. /\ w[j] = s[j] /\ w[i] = s[i]
        /\ \A k \in j + 1 .. i - 1 : w[k] = s[k]
    BY <1>1, <1>2
  <2>3. QED
    BY <2>1, <2>2 DEF Placed
<1>5. QED
  BY <1>3, <1>4

(* Of a sequence in order, what was written so far is in order. *)
LEMMA InOrderPrefix ==
  ASSUME NEW s \in Seq(Piece), NEW t \in Seq(Piece), InOrder(s \o t)
  PROVE  InOrder(s)
<1>1. ASSUME NEW i \in DOMAIN s, ~IsMark(s[i])
      PROVE  Placed(s, i)
  <2>1. /\ i \in Nat /\ i > 0 /\ i \in DOMAIN (s \o t)
        /\ \A j \in 1 .. i : s[j] = (s \o t)[j]
    OBVIOUS
  <2>2. i \in 1 .. i
    BY <2>1
  <2>3. Placed(s \o t, i)
    BY <1>1, <2>1, <2>2 DEF InOrder
  <2>4. QED
    BY <2>1, <2>3, PlacedLocal
<1>2. QED
  BY <1>1 DEF InOrder

(* A mark may follow anything. *)
LEMMA InOrderMarks ==
  ASSUME NEW s \in Seq(Piece), NEW t \in Seq(Mark), InOrder(s)
  PROVE  InOrder(s \o t)
<1>1. ASSUME NEW i \in DOMAIN (s \o t), i \notin DOMAIN s
      PROVE  IsMark((s \o t)[i])
  <2>1. i - Len(s) \in 1 .. Len(t) /\ (s \o t)[i] = t[i - Len(s)]
    BY <1>1
  <2>2. t[i - Len(s)] \in Mark
    BY <2>1
  <2>3. QED
    BY <2>1, <2>2, PieceTypes
<1>2. ASSUME NEW i \in DOMAIN s, ~IsMark((s \o t)[i])
      PROVE  Placed(s \o t, i)
  <2>1. /\ i \in Nat /\ i > 0
        /\ \A j \in 1 .. i : (s \o t)[j] = s[j]
    OBVIOUS
  <2>2. Placed(s, i)
    BY <1>2, <2>1 DEF InOrder
  <2>3. QED
    BY <2>1, <2>2, PlacedLocal
<1>3. QED
  BY <1>1, <1>2 DEF InOrder

(* So is what two parts of a sequence say about its pieces. *)
LEMMA SplitSequence ==
  ASSUME NEW S, NEW s \in Seq(S), NEW n \in 0 .. Len(s)
  PROVE  /\ SubSeq(s, 1, n) \in Seq(S)
         /\ SubSeq(s, n + 1, Len(s)) \in Seq(S)
         /\ SubSeq(s, 1, n) \o SubSeq(s, n + 1, Len(s)) = s
<1>1. /\ n + 1 \in 1 .. Len(s) + 1 /\ n \in 1 - 1 .. Len(s) /\ Len(s) \in n .. Len(s)
      /\ 1 \in 1 .. Len(s) + 1
  OBVIOUS
<1>2. SubSeq(s, 1, n) \o SubSeq(s, n + 1, Len(s)) = SubSeq(s, 1, Len(s))
  <2>1. /\ 1 \in 1 .. Len(s) + 1
        /\ n \in 1 - 1 .. Len(s)
        /\ Len(s) \in n .. Len(s)
    OBVIOUS
  <2>2. QED
    BY ONLY s \in Seq(S), <2>1, ConcatAdjacentSubSeq
<1>3. SubSeq(s, 1, Len(s)) = s
  BY SubSeqFull
<1>4. SubSeq(s, 1, n) \in Seq(S) /\ SubSeq(s, n + 1, Len(s)) \in Seq(S)
  OBVIOUS
<1>5. QED
  BY <1>2, <1>3, <1>4

(* Whatever part of it goes to the writer, no piece is lost. *)
LEMMA SpillKeeps ==
  ASSUME NEW data \in Seq(Record), out \in Seq(Piece), Spill(data)
  PROVE  /\ out' \in Seq(Piece)
         /\ buffer' \in Seq(Record)
         /\ out' \o buffer' = out \o data
         /\ \A i \in DOMAIN buffer' : \E j \in DOMAIN data : buffer'[i] = data[j]
<1>1. PICK n \in 0 .. Len(data) : /\ out' = out \o SubSeq(data, 1, n)
                                  /\ buffer' = SubSeq(data, n + 1, Len(data))
  BY DEF Spill
<1>2. /\ SubSeq(data, 1, n) \in Seq(Record)
      /\ SubSeq(data, n + 1, Len(data)) \in Seq(Record)
      /\ SubSeq(data, 1, n) \o SubSeq(data, n + 1, Len(data)) = data
  BY SplitSequence
<1>3. PICK a \in Seq(Record), b \in Seq(Record) : a \o b = data /\ out' = out \o a /\ buffer' = b
  BY <1>1, <1>2
<1>4. a \in Seq(Piece) /\ b \in Seq(Piece)
  BY PieceTypes, SeqMonotonic
<1>5. (out \o a) \o b = out \o (a \o b)
  BY <1>4, ConcatAssociative
<1>6. \A i \in DOMAIN b : Len(a) + i \in DOMAIN (a \o b) /\ (a \o b)[Len(a) + i] = b[i]
  OBVIOUS
<1>7. QED
  BY <1>3, <1>4, <1>5, <1>6

-----------------------------------------------------------------------------
(* Runs of rows *)

(* Where each piece of a run is, and what it is. *)
LEMMA LinesType ==
  ASSUME NEW last \in 0 .. Rows, NEW n \in 0 .. last
  PROVE  /\ Lines(last, n) \in Seq(Record)
         /\ Len(Lines(last, n)) = 2 * (n + 1)
         /\ \A i \in 1 .. 2 * (n + 1) :
              Lines(last, n)[i] = <<IF i <= 2 THEN Header ELSE last - n + ((i - 1) \div 2),
                                    1 + ((i - 1) % 2)>>
<1> DEFINE x(i) == IF i <= 2 THEN Header ELSE last - n + ((i - 1) \div 2)
           h(i) == 1 + ((i - 1) % 2)
<1>1. last \in Nat /\ n \in Nat /\ n <= last /\ last <= Rows
  BY CsvAssumption
<1>2. ASSUME NEW i \in 1 .. 2 * (n + 1)
      PROVE  x(i) \in Records /\ h(i) \in {1, 2}
  <2>1. i - 1 \in Nat /\ (i - 1) \div 2 \in 0 .. n /\ (i - 1) % 2 \in {0, 1}
    BY <1>1
  <2>2. QED
    BY <1>1, <2>1, CsvAssumption DEF Records, Header
<1>3. Lines(last, n) \in [1 .. 2 * (n + 1) -> Record]
  BY <1>2 DEF Lines, Record
<1>4. 2 * (n + 1) \in Nat
  BY <1>1
<1>5. Lines(last, n) \in Seq(Record)
  BY <1>3, <1>4, SeqDef
<1>6. Len(Lines(last, n)) = 2 * (n + 1)
  BY <1>3, <1>4, <1>5, LenProperties
<1>7. QED
  BY <1>5, <1>6 DEF Lines

(* The next row's pieces lengthen a run by it. *)
LEMMA LinesGrow ==
  ASSUME NEW last \in 0 .. Rows, NEW n \in 0 .. last, last + 1 <= Rows
  PROVE  Lines(last + 1, n + 1) = Lines(last, n) \o Pieces(last + 1)
<1> DEFINE a == Lines(last, n)
           b == Pieces(last + 1)
           c == Lines(last + 1, n + 1)
           x(i) == IF i <= 2 THEN Header ELSE last - n + ((i - 1) \div 2)
           h(i) == 1 + ((i - 1) % 2)
<1>1. last \in Nat /\ n \in Nat
  BY CsvAssumption
<1>2. last + 1 \in 0 .. Rows /\ n + 1 \in 0 .. last + 1 /\ last + 1 \in Records
  BY CsvAssumption DEF Records
<1>3. a \in Seq(Record) /\ Len(a) = 2 * (n + 1)
  BY LinesType
<1>4. c \in Seq(Record) /\ Len(c) = 2 * (n + 2)
  <2>1. c \in Seq(Record) /\ Len(c) = 2 * ((n + 1) + 1)
    BY <1>2, LinesType
  <2>2. QED
    BY <2>1, <1>1
<1>5. b \in Seq(Record) /\ Len(b) = 2 /\ b[1] = <<last + 1, 1>> /\ b[2] = <<last + 1, 2>>
  BY <1>2, PiecesType DEF Pieces
<1>6. \A i \in 1 .. 2 * (n + 1) : a[i] = <<x(i), h(i)>>
  BY DEF Lines
<1>7. \A i \in 1 .. 2 * (n + 2) : c[i] = <<x(i), h(i)>>
  <2>1. (last + 1) - (n + 1) = last - n /\ 2 * ((n + 1) + 1) = 2 * (n + 2)
    BY <1>1
  <2>2. QED
    BY <2>1 DEF Lines
<1> HIDE DEF a, b, c
<1>8. /\ a \o b \in Seq(Record)
      /\ Len(a \o b) = 2 * (n + 2)
      /\ \A i \in 1 .. Len(a) : (a \o b)[i] = a[i]
      /\ \A i \in 1 .. 2 : (a \o b)[Len(a) + i] = b[i]
  <2>1. Len(b) = 2 /\ Len(a) + Len(b) = 2 * (n + 2)
    BY <1>1, <1>3, <1>5
  <2>2. a \in Seq(Record) /\ b \in Seq(Record)
    BY <1>3, <1>5
  <2>3. a \o b \in Seq(Record) /\ Len(a \o b) = Len(a) + Len(b)
    BY <2>2
  <2>4. \A i \in 1 .. Len(a) : (a \o b)[i] = a[i]
    BY <2>2
  <2>5. \A i \in 1 .. Len(b) : (a \o b)[Len(a) + i] = b[i]
    BY <2>2
  <2>6. QED
    BY <2>1, <2>3, <2>4, <2>5
<1>9. ASSUME NEW i \in 1 .. 2 * (n + 2)
      PROVE  c[i] = (a \o b)[i]
  <2>1. CASE i \in 1 .. 2 * (n + 1)
    <3>1. (a \o b)[i] = a[i]
      BY <1>3, <1>8, <2>1
    <3>2. QED
      BY <3>1, <2>1, <1>6, <1>7
  <2>2. CASE i = 2 * (n + 1) + 1
    <3>1. (a \o b)[i] = b[1]
      BY <1>1, <1>3, <1>8, <2>2
    <3>2. x(i) = last + 1 /\ h(i) = 1
      BY <1>1, <2>2
    <3>3. QED
      BY <3>1, <3>2, <1>5, <1>7
  <2>3. CASE i = 2 * (n + 1) + 2
    <3>1. (a \o b)[i] = b[2]
      BY <1>1, <1>3, <1>8, <2>3
    <3>2. x(i) = last + 1 /\ h(i) = 2
      BY <1>1, <2>3
    <3>3. QED
      BY <3>1, <3>2, <1>5, <1>7
  <2>4. i \in 1 .. 2 * (n + 1) \/ i = 2 * (n + 1) + 1 \/ i = 2 * (n + 1) + 2
    BY <1>1
  <2>5. QED
    BY <2>1, <2>2, <2>3, <2>4
<1>10. c = a \o b
  BY <1>1, <1>4, <1>8, <1>9, SeqEqual
<1>11. QED
  BY <1>10 DEF a, b, c

(* The header's pieces are the run of no row. *)
LEMMA LinesStart ==
  ASSUME NEW last \in 0 .. Rows
  PROVE  Lines(last, 0) = Pieces(Header)
<1>1. 0 \in 0 .. last /\ Header \in Records
  BY CsvAssumption DEF Records, Header
<1>2. /\ Lines(last, 0) \in Seq(Record) /\ Len(Lines(last, 0)) = 2
      /\ Pieces(Header) \in Seq(Record) /\ Len(Pieces(Header)) = 2
  <2>1. Lines(last, 0) \in Seq(Record) /\ Len(Lines(last, 0)) = 2 * (0 + 1)
    BY <1>1, LinesType
  <2>2. Pieces(Header) \in Seq(Record)
    BY <1>1, PiecesType
  <2>3. Len(Pieces(Header)) = 2
    BY DEF Pieces
  <2>4. QED
    BY <2>1, <2>2, <2>3
<1>3. \A i \in 1 .. 2 : Lines(last, 0)[i] = <<Header, 1 + ((i - 1) % 2)>>
  BY <1>1, LinesType
<1>4. \A i \in 1 .. 2 : Lines(last, 0)[i] = Pieces(Header)[i]
  BY <1>3 DEF Pieces
<1>5. QED
  BY <1>2, <1>4, SeqEqual

(* The file with n rows is the run of all of them after its mark. *)
LEMMA FileIsLines ==
  ASSUME NEW n \in 0 .. Rows
  PROVE  File(n) = Marks \o Lines(n, n)
  BY CsvAssumption DEF File, Lines, Header

(* In a run each piece follows the one before. *)
LEMMA LinesFollow ==
  ASSUME NEW last \in 0 .. Rows, NEW n \in 0 .. last, NEW k \in 2 .. 2 * (n + 1)
  PROVE  Follows(Lines(last, n)[k - 1], Lines(last, n)[k])
<1> DEFINE x(i) == IF i <= 2 THEN Header ELSE last - n + ((i - 1) \div 2)
           h(i) == 1 + ((i - 1) % 2)
<1>1. last \in Nat /\ n \in Nat /\ k \in Nat /\ n <= last
  BY CsvAssumption
<1>2. /\ Lines(last, n)[k - 1] = <<x(k - 1), h(k - 1)>>
      /\ Lines(last, n)[k] = <<x(k), h(k)>>
  BY <1>1 DEF Lines
<1>3. \/ h(k - 1) = 1 /\ h(k) = 2 /\ x(k) = x(k - 1)
      \/ h(k - 1) = 2 /\ h(k) = 1 /\ x(k) > x(k - 1)
  BY <1>1 DEF Header
<1> HIDE DEF x, h
<1>4. QED
  BY <1>2, <1>3 DEF Follows

(* Marks and a run of rows after them are in order. *)
LEMMA LinesInOrder ==
  ASSUME NEW last \in 0 .. Rows, NEW n \in 0 .. last, NEW m \in Seq(Mark)
  PROVE  InOrder(m \o Lines(last, n))
<1> DEFINE a == Lines(last, n)
           w == m \o a
<1>1. last \in Nat /\ n \in Nat
  BY CsvAssumption
<1>2. /\ a \in Seq(Record) /\ Len(a) = 2 * (n + 1)
      /\ a[1] = <<Header, 1>>
      /\ \A k \in 2 .. Len(a) : Follows(a[k - 1], a[k])
  <2>1. a \in Seq(Record) /\ Len(a) = 2 * (n + 1)
    BY LinesType
  <2>2. 1 \in 1 .. 2 * (n + 1) /\ (1 - 1) % 2 = 0
    BY <1>1
  <2>3. a[1] = <<Header, 1>>
    BY <2>2 DEF Lines
  <2>4. QED
    BY <2>1, <2>3, LinesFollow
<1> HIDE DEF a
<1>3. /\ DOMAIN w = 1 .. Len(m) + Len(a)
      /\ \A i \in 1 .. Len(m) : w[i] = m[i]
      /\ \A k \in 1 .. Len(a) : w[Len(m) + k] = a[k]
  <2>1. m \in Seq(Piece) /\ a \in Seq(Piece)
    BY <1>2, PieceTypes, SeqMonotonic
  <2>2. Len(w) = Len(m) + Len(a) /\ DOMAIN w = 1 .. Len(w)
    BY <2>1
  <2>3. \A i \in 1 .. Len(m) : w[i] = m[i]
    BY <2>1
  <2>4. \A k \in 1 .. Len(a) : w[Len(m) + k] = a[k]
    BY <2>1
  <2>5. QED
    BY <2>2, <2>3, <2>4
<1> HIDE DEF w
<1>4. Len(m) \in Nat /\ Len(a) \in Nat
  BY <1>2
<1>5. \A i \in 1 .. Len(m) : IsMark(w[i])
  BY <1>3, PieceTypes
<1>6. \A k \in 1 .. Len(a) : ~IsMark(w[Len(m) + k])
  <2>1. \A k \in 1 .. Len(a) : a[k] \in Record
    BY <1>2, ElementOfSeq
  <2>2. QED
    BY <1>3, <2>1, PieceTypes
<1>7. ASSUME NEW k \in 1 .. Len(a)
      PROVE  Placed(w, Len(m) + k)
  <2>1. CASE k = 1
    <3>1. \A j \in 1 .. (Len(m) + k) - 1 : IsMark(w[j])
      BY <1>4, <1>5, <2>1
    <3>2. w[Len(m) + k] = <<Header, 1>>
      BY <1>2, <1>3, <2>1
    <3>3. QED
      BY <3>1, <3>2 DEF Placed
  <2>2. CASE k # 1
    <3>1. k - 1 \in 1 .. Len(a) /\ k \in 2 .. Len(a)
      BY <1>4, <2>2
    <3>2. /\ Len(m) + (k - 1) = (Len(m) + k) - 1
          /\ (Len(m) + k) - 1 \in 1 .. (Len(m) + k) - 1
      BY <1>4, <3>1
    <3>3. ~IsMark(w[(Len(m) + k) - 1])
      BY <1>6, <3>1, <3>2
    <3>4. Follows(w[(Len(m) + k) - 1], w[Len(m) + k])
      <4>1. w[(Len(m) + k) - 1] = a[k - 1] /\ w[Len(m) + k] = a[k]
        BY <1>3, <3>1, <3>2
      <4>2. QED
        BY <1>2, <3>1, <4>1
    <3>5. \A j \in ((Len(m) + k) - 1) + 1 .. (Len(m) + k) - 1 : IsMark(w[j])
      BY <1>4
    <3>6. QED
      BY <3>2, <3>3, <3>4, <3>5 DEF Placed
  <2>3. QED
    BY <2>1, <2>2
<1>8. ASSUME NEW i \in DOMAIN w
      PROVE  IsMark(w[i]) \/ Placed(w, i)
  <2>1. CASE i \in 1 .. Len(m)
    BY <1>5, <2>1
  <2>2. CASE i \notin 1 .. Len(m)
    <3>1. i - Len(m) \in 1 .. Len(a) /\ Len(m) + (i - Len(m)) = i
      BY <1>3, <1>4, <2>2
    <3>2. QED
      BY <1>7, <3>1
  <2>3. QED
    BY <2>1, <2>2
<1>9. QED
  BY <1>8 DEF InOrder, w, a

-----------------------------------------------------------------------------
(* The rows among some pieces *)

(* The rows of two parts together, of marks and of a record. *)
LEMMA RowsOfParts ==
  /\ \A s, t \in Seq(Piece) : RowsIn(s \o t) = RowsIn(s) \cup RowsIn(t)
  /\ \A s \in Seq(Mark) : RowsIn(s) = {}
  /\ \A x \in Records : RowsIn(Pieces(x)) = {x} \ {Header}
  /\ RowsIn(<<>>) = {}
<1>1. ASSUME NEW s \in Seq(Piece), NEW t \in Seq(Piece)
      PROVE  RowsIn(s \o t) = RowsIn(s) \cup RowsIn(t)
  <2>1. \A i \in DOMAIN s : i \in DOMAIN (s \o t) /\ (s \o t)[i] = s[i]
    OBVIOUS
  <2>2. \A i \in DOMAIN t : Len(s) + i \in DOMAIN (s \o t) /\ (s \o t)[Len(s) + i] = t[i]
    OBVIOUS
  <2>3. ASSUME NEW i \in DOMAIN (s \o t), i \notin DOMAIN s
        PROVE  i - Len(s) \in DOMAIN t /\ (s \o t)[i] = t[i - Len(s)]
    BY <2>3
  <2>4. QED
    BY <2>1, <2>2, <2>3 DEF RowsIn
<1>2. ASSUME NEW s \in Seq(Mark), NEW i \in DOMAIN s, NEW r \in 1 .. Rows
      PROVE  s[i] # <<r, 2>>
  <2>1. s[i] \in Mark /\ <<r, 2>> \in Record
    BY CsvAssumption DEF Record, Records
  <2>2. QED
    BY <2>1, PieceTypes
<1>3. ASSUME NEW x \in Records
      PROVE  RowsIn(Pieces(x)) = {x} \ {Header}
  <2>1. DOMAIN Pieces(x) = {1, 2} /\ Pieces(x)[1] = <<x, 1>> /\ Pieces(x)[2] = <<x, 2>>
    BY DEF Pieces
  <2>2. x \in Nat /\ (x \in 1 .. Rows <=> x # Header)
    BY CsvAssumption DEF Records, Header
  <2>3. QED
    BY <2>1, <2>2 DEF RowsIn
<1>4. ASSUME NEW s \in Seq(Mark)
      PROVE  RowsIn(s) = {}
  BY <1>2 DEF RowsIn
<1>5. RowsIn(<<>>) = {}
  BY DEF RowsIn
<1>6. QED
  BY <1>1, <1>3, <1>4, <1>5

(* A run is of as many rows as it says, and they are the latest. *)
LEMMA RowsOfLines ==
  ASSUME NEW last \in 0 .. Rows, NEW n \in 0 .. last
  PROVE  RowsIn(Lines(last, n)) = last - n + 1 .. last
<1> DEFINE a == Lines(last, n)
           x(i) == IF i <= 2 THEN Header ELSE last - n + ((i - 1) \div 2)
           h(i) == 1 + ((i - 1) % 2)
<1>1. last \in Nat /\ n \in Nat /\ n <= last /\ last <= Rows
  BY CsvAssumption
<1>2. DOMAIN a = 1 .. 2 * (n + 1) /\ \A i \in 1 .. 2 * (n + 1) : a[i] = <<x(i), h(i)>>
  BY DEF Lines
<1> HIDE DEF a
<1>3. ASSUME NEW r \in last - n + 1 .. last
      PROVE  r \in 1 .. Rows /\ \E i \in DOMAIN a : a[i] = <<r, 2>>
  <2>1. PICK d \in 1 .. n : r = last - n + d
    <3>1. r - (last - n) \in 1 .. n /\ r = last - n + (r - (last - n))
      BY <1>1
    <3>2. QED
      BY <3>1
  <2> DEFINE i == 2 * d + 2
  <2>2. i \in 1 .. 2 * (n + 1) /\ (i - 1) \div 2 = d /\ (i - 1) % 2 = 1 /\ ~(i <= 2)
    BY <1>1
  <2> HIDE DEF i
  <2>3. a[i] = <<r, 2>>
    <3>1. x(i) = r /\ h(i) = 2
      BY <2>1, <2>2
    <3>2. QED
      BY <1>2, <2>2, <3>1
  <2>4. r \in 1 .. Rows
    BY <1>1, CsvAssumption
  <2>5. QED
    BY <1>2, <2>2, <2>3, <2>4
<1>4. ASSUME NEW r \in 1 .. Rows, NEW i \in DOMAIN a, a[i] = <<r, 2>>
      PROVE  r \in last - n + 1 .. last
  <2>1. x(i) = r /\ i \in 1 .. 2 * (n + 1)
    BY <1>2, <1>4
  <2>2. QED
    BY <1>1, <2>1 DEF Header
<1>5. QED
  BY <1>3, <1>4 DEF RowsIn, a

-----------------------------------------------------------------------------
(* The flush interval *)

(* A count that has not reached a multiple goes on from the last one. *)
LEMMA NextRemainder ==
  ASSUME NEW N \in Nat \ {0}, NEW r \in Nat, (r + 1) % N # 0
  PROVE  (r + 1) % N = (r % N) + 1
<1> DEFINE q == r \div N
           p == (r + 1) \div N
           m == r % N
           k == (r + 1) % N
<1>1. q \in Int /\ m \in 0 .. N - 1 /\ r = N * q + m
  OBVIOUS
<1>2. p \in Int /\ k \in 0 .. N - 1 /\ r + 1 = N * p + k
  OBVIOUS
<1>3. CASE p >= q + 1
  <2>1. N * p >= N * (q + 1)
    BY <1>1, <1>2, <1>3
  <2>2. QED
    BY <2>1, <1>1, <1>2
<1>4. CASE p <= q - 1
  <2>1. N * p <= N * (q - 1)
    BY <1>1, <1>2, <1>4
  <2>2. QED
    BY <2>1, <1>1, <1>2
<1>5. CASE p = q
  BY <1>1, <1>2, <1>5
<1>6. QED
  BY <1>1, <1>2, <1>3, <1>4, <1>5

-----------------------------------------------------------------------------
(* The inductive invariant *)

(* The latest row that a WriteRow is past, written or not. *)
Passed == IF pc \in {"bom", "header", "headerFlush", "row"} /\ row > 0 THEN row - 1 ELSE row

HeaderPut == headerWritten \/ pc = "headerFlush"

(* What the control point, the flags and the results say of each other.  A *)
(* call that failed outside the csv.Writer failed at the mark.             *)
CallOK ==
  /\ pc \in {"bom", "header", "headerFlush"} => ~headerWritten
  /\ pc = "bom" => includeBOM
  /\ pc \in {"row", "rowFlush"} => headerWritten /\ row > 0
  /\ flushed => pc = "ready" /\ buffer = <<>>
  /\ failed \/ sticky => ~clean
  /\ clean => rowCount = Passed
  /\ ~headerWritten => rowCount = 0
  /\ ~sticky => /\ rowCount <= Passed
                /\ ~HeaderPut => buffer = <<>>
                /\ failed /\ pc \in {"ready", "flush"} => ~headerWritten

StreamFrom(m) ==
  /\ out \o buffer = Content(m, HeaderPut, Passed, rowCount)
  /\ clean => m = IF HeaderPut \/ pc = "header" THEN Marks ELSE <<>>

(* Written and buffered are marks, the header and the rows counted. *)
StreamIsFile == ~sticky => \E m \in Seq(Mark) : StreamFrom(m)

(* Only rows counted since the last multiple of FlushInterval wait. *)
BufferRecent ==
  ~sticky /\ flushInterval > 0 /\ pc # "rowFlush" =>
    RowsIn(buffer) \subseteq Passed - (rowCount % flushInterval) + 1 .. Passed

RowsCounted == rowCount <= Cardinality(RowsIn(out \o buffer))

CsvInv == CallOK /\ StreamIsFile /\ BufferRecent /\ RowsCounted /\ InOrder(out)

-----------------------------------------------------------------------------
(* What the csv.Writer does to the stream *)

(* What is in the stream has its type. *)
LEMMA StreamType ==
  ASSUME CsvTypeOK
  PROVE  /\ out \in Seq(Piece)
         /\ buffer \in Seq(Record) /\ buffer \in Seq(Piece)
         /\ out \o buffer \in Seq(Piece)
<1>1. out \in Seq(Piece) /\ buffer \in Seq(Record)
  BY DEF CsvTypeOK, Piece, Record
<1>2. buffer \in Seq(Piece)
  BY <1>1, PieceTypes, SeqMonotonic
<1>3. QED
  BY <1>1, <1>2

(* A record goes to the end of the stream, whatever part of it is written. *)
LEMMA AddRecord ==
  ASSUME CsvTypeOK, NEW x \in Records, Spill(buffer \o Pieces(x))
  PROVE  /\ out' \in Seq(Piece)
         /\ buffer' \in Seq(Record)
         /\ out' \o buffer' = (out \o buffer) \o Pieces(x)
         /\ RowsIn(buffer') \subseteq RowsIn(buffer) \cup ({x} \ {Header})
<1> DEFINE d == buffer \o Pieces(x)
<1>1. out \in Seq(Piece) /\ buffer \in Seq(Record) /\ buffer \in Seq(Piece)
  BY StreamType
<1>2. Pieces(x) \in Seq(Record) /\ Pieces(x) \in Seq(Piece)
  BY PiecesType, PieceTypes, SeqMonotonic
<1>3. d \in Seq(Record)
  BY <1>1, <1>2
<1>4. /\ out' \in Seq(Piece)
      /\ buffer' \in Seq(Record)
      /\ out' \o buffer' = out \o d
      /\ \A i \in DOMAIN buffer' : \E j \in DOMAIN d : buffer'[i] = d[j]
  BY <1>1, <1>3, SpillKeeps
<1>5. out \o d = (out \o buffer) \o Pieces(x)
  BY <1>1, <1>2, ConcatAssociative
<1>6. RowsIn(d) = RowsIn(buffer) \cup ({x} \ {Header})
  BY <1>1, <1>2, RowsOfParts
<1>7. RowsIn(buffer') \subseteq RowsIn(d)
  BY <1>4 DEF RowsIn
<1>8. QED
  BY <1>4, <1>5, <1>6, <1>7

(* Write took the record. *)
LEMMA PutEffect ==
  ASSUME CsvTypeOK, NEW x \in Records, Put(x)
  PROVE  /\ ~sticky /\ ~sticky' /\ sticky' \in BOOLEAN /\ failures' = failures
         /\ out' \in Seq(Piece)
         /\ buffer' \in Seq(Record)
         /\ out' \o buffer' = (out \o buffer) \o Pieces(x)
         /\ RowsIn(buffer') \subseteq RowsIn(buffer) \cup ({x} \ {Header})
<1>1. ~sticky /\ sticky' = sticky /\ failures' = failures /\ Spill(buffer \o Pieces(x))
  BY DEF Put
<1>2. QED
  BY <1>1, AddRecord DEF CsvTypeOK

(* Write refused the record, or failed with part of it. *)
LEMMA PutFailsEffect ==
  ASSUME CsvTypeOK, NEW x \in Records, PutFails(x)
  PROVE  /\ sticky' = TRUE /\ failures' \in 0 .. MaxFailures
         /\ out' \in Seq(Piece)
         /\ buffer' \in Seq(Record)
         /\ \/ sticky /\ out' = out /\ buffer' = buffer
            \/ ~sticky /\ out' \o buffer' = (out \o buffer) \o Pieces(x)
<1>1. CASE sticky /\ UNCHANGED <<out, buffer, sticky, failures>>
  BY <1>1, StreamType DEF CsvTypeOK
<1>2. CASE ~sticky /\ WriterFails /\ Spill(buffer \o Pieces(x)) /\ sticky' = TRUE
  <2>1. failures' \in 0 .. MaxFailures
    BY <1>2, CsvAssumption DEF WriterFails, CsvTypeOK
  <2>2. QED
    BY <1>2, <2>1, AddRecord
<1>3. QED
  BY <1>1, <1>2 DEF PutFails

(* Everything buffered is written. *)
LEMMA PushEffect ==
  ASSUME CsvTypeOK, Push
  PROVE  /\ ~sticky /\ ~sticky' /\ sticky' \in BOOLEAN /\ failures' = failures
         /\ out' \in Seq(Piece)
         /\ buffer' = <<>> /\ buffer' \in Seq(Record)
         /\ out' \o buffer' = out \o buffer
<1>1. out \o buffer \in Seq(Piece)
  BY StreamType
<1>2. out' = out \o buffer /\ buffer' = <<>>
  BY DEF Push
<1>3. (out \o buffer) \o <<>> = out \o buffer
  BY <1>1, ConcatEmptySeq
<1>4. QED
  BY <1>1, <1>2, <1>3 DEF Push, CsvTypeOK

(* Flush refused, or failed with part of the buffer written. *)
LEMMA PushFailsEffect ==
  ASSUME CsvTypeOK, PushFails
  PROVE  /\ sticky' = TRUE /\ failures' \in 0 .. MaxFailures
         /\ out' \in Seq(Piece)
         /\ buffer' \in Seq(Record)
         /\ out' \o buffer' = out \o buffer
         /\ sticky => out' = out /\ buffer' = buffer
<1>1. CASE sticky /\ UNCHANGED <<out, buffer, sticky, failures>>
  BY <1>1, StreamType DEF CsvTypeOK
<1>2. CASE ~sticky /\ WriterFails /\ Spill(buffer) /\ sticky' = TRUE
  <2>1. failures' \in 0 .. MaxFailures
    BY <1>2, CsvAssumption DEF WriterFails, CsvTypeOK
  <2>2. QED
    BY <1>2, <2>1, StreamType, SpillKeeps
<1>3. QED
  BY <1>1, <1>2 DEF PushFails

(* Rows that are there are counted however many more there are. *)
LEMMA CountKept ==
  ASSUME NEW A \in SUBSET (1 .. Rows), NEW B \in SUBSET (1 .. Rows), A \subseteq B,
         NEW k \in Nat, k <= Cardinality(A)
  PROVE  k <= Cardinality(B)
<1>1. IsFiniteSet(1 .. Rows)
  BY CsvAssumption, FS_Interval
<1>2. IsFiniteSet(A) /\ IsFiniteSet(B)
  BY <1>1, FS_Subset
<1>3. Cardinality(A) \in Nat /\ Cardinality(B) \in Nat /\ Cardinality(A) <= Cardinality(B)
  BY <1>2, FS_Subset, FS_CardinalityType
<1>4. QED
  BY <1>3

(* A stream of marks, the header and rows is in order and has the rows it  *)
(* says.                                                                   *)
LEMMA LinesFacts ==
  ASSUME NEW m \in Seq(Mark), NEW last \in 0 .. Rows, NEW n \in 0 .. last
  PROVE  /\ InOrder(m \o Lines(last, n))
         /\ Cardinality(RowsIn(m \o Lines(last, n))) = n
<1>1. m \in Seq(Piece) /\ Lines(last, n) \in Seq(Piece)
  BY LinesType, PieceTypes, SeqMonotonic
<1>2. RowsIn(m \o Lines(last, n)) = last - n + 1 .. last
  <2>1. RowsIn(m \o Lines(last, n)) = RowsIn(m) \cup RowsIn(Lines(last, n))
    BY <1>1, RowsOfParts
  <2>2. QED
    BY <2>1, RowsOfParts, RowsOfLines
<1>3. Cardinality(last - n + 1 .. last) = n
  <2>1. last - n + 1 \in Int /\ last \in Int /\ n \in Nat
    BY CsvAssumption
  <2>2. QED
    BY <2>1, FS_Interval
<1>4. QED
  BY <1>2, <1>3, LinesInOrder

(* A stream of marks is in order and has no row. *)
LEMMA MarksFacts ==
  ASSUME NEW m \in Seq(Mark)
  PROVE  InOrder(m \o <<>>) /\ Cardinality(RowsIn(m \o <<>>)) = 0
<1>1. m \o <<>> = m
  BY ConcatEmptySeq
<1>2. \A i \in DOMAIN m : IsMark(m[i])
  BY PieceTypes, ElementOfSeq, LenProperties
<1>3. InOrder(m)
  BY <1>2 DEF InOrder
<1>4. QED
  BY <1>1, <1>3, RowsOfParts, FS_EmptySet

(* A step after which the csv.Writer has no error keeps the invariant if   *)
(* it keeps the stream a file.                                             *)
LEMMA GoodStep ==
  ASSUME CsvTypeOK', CallOK', BufferRecent', ~sticky', NEW m \in Seq(Mark), StreamFrom(m)'
  PROVE  CsvInv'
<1>1. /\ out' \in Seq(Piece) /\ buffer' \in Seq(Piece)
      /\ Passed' \in 0 .. Rows /\ rowCount' \in 0 .. Passed'
      /\ ~HeaderPut' => rowCount' = 0
  <2>1. out' \in Seq(Piece) /\ buffer' \in Seq(Record)
    BY DEF CsvTypeOK, Piece, Record
  <2>2. buffer' \in Seq(Piece)
    BY <2>1, PieceTypes, SeqMonotonic
  <2>3. row' \in 0 .. Rows /\ rowCount' \in 0 .. Rows
    BY DEF CsvTypeOK
  <2>4. Passed' \in 0 .. Rows
    <3>1. \A r \in 0 .. Rows : r > 0 => r - 1 \in 0 .. Rows
      BY CsvAssumption
    <3>2. QED
      BY <2>3, <3>1 DEF Passed
  <2>5. rowCount' <= Passed' /\ (~HeaderPut' => rowCount' = 0)
    BY DEF CallOK, HeaderPut
  <2>6. QED
    BY <2>1, <2>2, <2>3, <2>4, <2>5, CsvAssumption
<1>2. out' \o buffer' = m \o (IF HeaderPut' THEN Lines(Passed', rowCount') ELSE <<>>)
  BY DEF StreamFrom, Content
<1>3. InOrder(out' \o buffer') /\ Cardinality(RowsIn(out' \o buffer')) = rowCount'
  <2>1. CASE HeaderPut'
    <3>1. PICK last \in 0 .. Rows, n \in Nat : n \in 0 .. last /\ last = Passed' /\ n = rowCount'
      BY <1>1
    <3>2. InOrder(m \o Lines(last, n)) /\ Cardinality(RowsIn(m \o Lines(last, n))) = n
      BY <3>1, LinesFacts
    <3>3. out' \o buffer' = m \o Lines(Passed', rowCount')
      BY <1>2, <2>1
    <3>4. QED
      BY <3>1, <3>2, <3>3
  <2>2. CASE ~HeaderPut'
    <3>1. out' \o buffer' = m \o <<>> /\ rowCount' = 0
      BY <1>1, <1>2, <2>2
    <3>2. QED
      BY <3>1, MarksFacts
  <2>3. QED
    BY <2>1, <2>2
<1>4. rowCount' <= Cardinality(RowsIn(out' \o buffer'))
  BY <1>1, <1>3
<1>5. InOrder(out')
  BY <1>1, <1>3, InOrderPrefix
<1>6. QED
  BY <1>4, <1>5 DEF CsvInv, StreamIsFile, RowsCounted

(* The same for a call that fails: what reached the writer is in order if  *)
(* the stream was, and no row is lost from the stream.                     *)
LEMMA FailedStep ==
  ASSUME CsvTypeOK', CallOK', sticky', InOrder(out'), RowsCounted'
  PROVE  CsvInv'
  BY DEF CsvInv, StreamIsFile, BufferRecent

(* A stream with more rows has at least those counted. *)
LEMMA RowsKept ==
  ASSUME CsvTypeOK, RowsCounted, rowCount' = rowCount,
         RowsIn(out \o buffer) \subseteq RowsIn(out' \o buffer')
  PROVE  RowsCounted'
<1>1. /\ RowsIn(out \o buffer) \in SUBSET (1 .. Rows)
      /\ RowsIn(out' \o buffer') \in SUBSET (1 .. Rows)
  BY DEF RowsIn
<1>2. rowCount \in Nat
  BY CsvAssumption DEF CsvTypeOK
<1>3. rowCount <= Cardinality(RowsIn(out' \o buffer'))
  BY <1>1, <1>2, CountKept DEF RowsCounted
<1>4. QED
  BY <1>3 DEF RowsCounted

(* What is buffered is in order, too, after what is written. *)
LEMMA StreamInOrder ==
  ASSUME CsvTypeOK, CsvInv, ~sticky
  PROVE  InOrder(out \o buffer)
<1>1. PICK m \in Seq(Mark) : StreamFrom(m)
  BY DEF CsvInv, StreamIsFile
<1>2. CASE HeaderPut
  <2>1. Passed \in 0 .. Rows /\ rowCount \in 0 .. Passed
    BY CsvAssumption DEF CsvTypeOK, CsvInv, CallOK, Passed
  <2>2. out \o buffer = m \o Lines(Passed, rowCount)
    BY <1>1, <1>2 DEF StreamFrom, Content
  <2>3. QED
    BY <2>1, <2>2, LinesFacts
<1>3. CASE ~HeaderPut
  <2>1. out \o buffer = m \o <<>>
    BY <1>1, <1>3 DEF StreamFrom, Content
  <2>2. QED
    BY <2>1, MarksFacts
<1>4. QED
  BY <1>2, <1>3

(* While the csv.Writer has no error, the stream and all of it that may be *)
(* written is in order, with the record that the call is at.               *)
LEMMA HeaderExtends ==
  ASSUME CsvTypeOK, CsvInv, ~sticky, pc = "header"
  PROVE  /\ InOrder((out \o buffer) \o Pieces(Header))
         /\ \E m \in Seq(Mark) : /\ (out \o buffer) \o Pieces(Header) = m \o Lines(Passed, 0)
                                 /\ clean => m = Marks
<1>1. PICK m \in Seq(Mark) : StreamFrom(m)
  BY DEF CsvInv, StreamIsFile
<1>2. m \in Seq(Piece)
  BY PieceTypes, SeqMonotonic
<1>3. ~HeaderPut
  BY DEF CsvInv, CallOK, HeaderPut
<1>4. out \o buffer = m
  BY <1>1, <1>2, <1>3, ConcatEmptySeq DEF StreamFrom, Content
<1>5. Passed \in 0 .. Rows
  BY CsvAssumption DEF CsvTypeOK, Passed
<1>6. (out \o buffer) \o Pieces(Header) = m \o Lines(Passed, 0)
  BY <1>4, <1>5, LinesStart
<1>7. InOrder(m \o Lines(Passed, 0))
  <2>1. 0 \in 0 .. Passed
    BY <1>5
  <2>2. QED
    BY <1>5, <2>1, LinesFacts
<1>8. QED
  BY <1>1, <1>6, <1>7 DEF StreamFrom

(* The same for the row that a WriteRow is at, which makes the run longer. *)
LEMMA RowExtends ==
  ASSUME CsvTypeOK, CsvInv, ~sticky, pc = "row"
  PROVE  /\ InOrder((out \o buffer) \o Pieces(row))
         /\ \E m \in Seq(Mark) : /\ (out \o buffer) \o Pieces(row) = m \o Lines(row, rowCount + 1)
                                 /\ clean => m = Marks
<1>1. PICK m \in Seq(Mark) : StreamFrom(m)
  BY DEF CsvInv, StreamIsFile
<1>2. HeaderPut /\ row > 0 /\ Passed = row - 1 /\ rowCount <= Passed
  BY DEF CsvInv, CallOK, HeaderPut, Passed
<1>3. row \in Records /\ Passed \in 0 .. Rows /\ rowCount \in 0 .. Passed /\ Passed + 1 = row
  BY <1>2, CsvAssumption DEF CsvTypeOK, Records
<1>4. Lines(row, rowCount + 1) = Lines(Passed, rowCount) \o Pieces(row)
  <2>1. Passed + 1 <= Rows
    BY <1>3, CsvAssumption DEF Records
  <2>2. Lines(Passed + 1, rowCount + 1) = Lines(Passed, rowCount) \o Pieces(Passed + 1)
    BY <1>3, <2>1, LinesGrow
  <2>3. QED
    BY <1>3, <2>2
<1>5. m \in Seq(Piece) /\ Lines(Passed, rowCount) \in Seq(Piece) /\ Pieces(row) \in Seq(Piece)
  BY <1>3, LinesType, PiecesType, PieceTypes, SeqMonotonic
<1>6. (m \o Lines(Passed, rowCount)) \o Pieces(row) = m \o Lines(row, rowCount + 1)
  <2>1. (m \o Lines(Passed, rowCount)) \o Pieces(row) = m \o (Lines(Passed, rowCount) \o Pieces(row))
    BY <1>5, ConcatAssociative
  <2>2. QED
    BY <2>1, <1>4
<1>7. (out \o buffer) \o Pieces(row) = m \o Lines(row, rowCount + 1)
  BY <1>1, <1>2, <1>6 DEF StreamFrom, Content
<1>8. InOrder(m \o Lines(row, rowCount + 1))
  <2>1. row \in 0 .. Rows /\ rowCount + 1 \in 0 .. row
    BY <1>3 DEF CsvTypeOK
  <2>2. QED
    BY <2>1, LinesFacts
<1>9. QED
  BY <1>1, <1>2, <1>7, <1>8 DEF StreamFrom

-----------------------------------------------------------------------------
(* The steps *)

(* Nothing is in the file at first. *)
LEMMA CsvStart == Init => CsvTypeOK /\ CsvInv
<1> SUFFICES ASSUME Init PROVE CsvTypeOK /\ CsvInv
  OBVIOUS
<1>1. CsvTypeOK
  <2>1. 0 \in 0 .. Rows /\ 0 \in 0 .. MaxFailures
    BY CsvAssumption
  <2>2. {includeBOM, sticky, headerWritten, failed, clean, flushed} \subseteq BOOLEAN
    BY DEF Init
  <2>3. QED
    BY <2>1, <2>2 DEF Init, CsvTypeOK
<1>2. CallOK
  BY DEF Init, CallOK, Passed, HeaderPut
<1>3. out \o buffer = <<>> /\ <<>> \in Seq(Mark) /\ <<>> \o <<>> = <<>>
  BY DEF Init
<1>4. StreamFrom(<<>>)
  BY <1>3 DEF Init, StreamFrom, Content, HeaderPut
<1>5. RowsIn(buffer) = {} /\ RowsIn(out \o buffer) = {}
  BY <1>3, RowsOfParts DEF Init
<1>6. RowsCounted
  BY <1>5, FS_EmptySet DEF Init, RowsCounted
<1>7. InOrder(out)
  BY DEF Init, InOrder
<1>8. QED
  BY <1>1, <1>2, <1>3, <1>4, <1>5, <1>6, <1>7 DEF CsvInv, StreamIsFile, BufferRecent

(* A call starts: with the mark if there is one to write, with the row if  *)
(* the header is written.                                                  *)
LEMMA CallStarts ==
  ASSUME CsvTypeOK, CsvInv, NEW label \in {"bom", "header", "row", "flush"}, Begin(label),
         row' \in 0 .. Rows,
         label \in {"bom", "header"} => ~headerWritten /\ (label = "bom" <=> includeBOM),
         label = "row" => headerWritten /\ row' > 0,
         Passed' = Passed \/ (failed /\ row' = row)
  PROVE  CsvTypeOK' /\ CsvInv'
<1>1. /\ pc = "ready" /\ pc' = label /\ flushed' = FALSE
      /\ flushInterval' = flushInterval /\ includeBOM' = includeBOM
      /\ out' = out /\ buffer' = buffer /\ sticky' = sticky
      /\ headerWritten' = headerWritten /\ rowCount' = rowCount
      /\ failed' = failed /\ clean' = clean /\ failures' = failures
  BY DEF Begin, options
<1>2. CsvTypeOK'
  BY <1>1 DEF CsvTypeOK
<1>3. ~sticky /\ headerWritten => Passed' = Passed
  BY <1>1 DEF CsvInv, CallOK
<1>4. clean => Passed' = Passed
  BY DEF CsvInv, CallOK
<1>5. HeaderPut' = headerWritten /\ HeaderPut = headerWritten
  BY <1>1 DEF HeaderPut, CsvTypeOK
<1>6. ~headerWritten => rowCount = 0
  BY DEF CsvInv, CallOK
<1>7. Passed' \in Nat
  <2>1. \A r \in 0 .. Rows : r \in Nat /\ (r > 0 => r - 1 \in Nat)
    BY CsvAssumption
  <2>2. QED
    BY <2>1 DEF Passed
<1>8. CallOK'
  BY <1>1, <1>3, <1>4, <1>5, <1>6, <1>7 DEF CsvInv, CallOK
<1>9. CASE sticky
  BY <1>1, <1>2, <1>8, <1>9, FailedStep DEF CsvInv, RowsCounted
<1>10. CASE ~sticky
  <2>1. PICK m \in Seq(Mark) : StreamFrom(m)
    BY <1>10 DEF CsvInv, StreamIsFile
  <2>2. Content(m, HeaderPut', Passed', rowCount') = Content(m, HeaderPut, Passed, rowCount)
    BY <1>1, <1>3, <1>5, <1>10 DEF Content
  <2>3. clean => m = IF HeaderPut' \/ pc' = "header" THEN Marks' ELSE <<>>
    BY <1>1, <1>5, <2>1 DEF StreamFrom, Marks
  <2>4. StreamFrom(m)'
    BY <1>1, <2>1, <2>2, <2>3 DEF StreamFrom
  <2>5. BufferRecent'
    <3>1. CASE headerWritten
      BY <1>1, <1>3, <3>1 DEF CsvInv, BufferRecent
    <3>2. CASE ~headerWritten
      <4>1. buffer = <<>>
        BY <1>5, <1>10, <3>2 DEF CsvInv, CallOK
      <4>2. QED
        BY <1>1, <4>1, RowsOfParts DEF BufferRecent
    <3>3. QED
      BY <3>1, <3>2
  <2>6. QED
    BY <1>1, <1>2, <1>8, <1>10, <2>4, <2>5, GoodStep
<1>11. QED
  BY <1>9, <1>10

(* WriteHeader starts before any row. *)
LEMMA WriteHeaderStep ==
  CsvTypeOK /\ CsvInv /\ WriteHeader => CsvTypeOK' /\ CsvInv'
<1> SUFFICES ASSUME CsvTypeOK, CsvInv, WriteHeader PROVE CsvTypeOK' /\ CsvInv'
  OBVIOUS
<1> DEFINE label == IF includeBOM THEN "bom" ELSE "header"
<1>1. row = 0 /\ row' = 0 /\ ~headerWritten /\ Begin(label)
  BY DEF WriteHeader, HeaderStart
<1>2. label \in {"bom", "header", "row", "flush"} /\ label # "row" /\ (label = "bom" <=> includeBOM)
  OBVIOUS
<1>3. row' \in 0 .. Rows
  BY <1>1, CsvAssumption
<1>4. Passed' = Passed
  BY <1>1 DEF Passed
<1> HIDE DEF label
<1>5. QED
  BY <1>1, <1>2, <1>3, <1>4, CallStarts

(* WriteRow starts with the next row, or again with the one that failed. *)
LEMMA WriteRowStep ==
  CsvTypeOK /\ CsvInv /\ WriteRow => CsvTypeOK' /\ CsvInv'
<1> SUFFICES ASSUME CsvTypeOK, CsvInv, WriteRow PROVE CsvTypeOK' /\ CsvInv'
  OBVIOUS
<1> DEFINE label == IF headerWritten THEN "row" ELSE IF includeBOM THEN "bom" ELSE "header"
<1>1. /\ row' \in 1 .. Rows
      /\ row' = row + 1 \/ (failed /\ row' = row)
      /\ Begin(label)
  BY DEF WriteRow, HeaderStart
<1>2. /\ label \in {"bom", "header", "row", "flush"}
      /\ label \in {"bom", "header"} => ~headerWritten /\ (label = "bom" <=> includeBOM)
      /\ label = "row" => headerWritten
      /\ label \in {"bom", "header", "headerFlush", "row"}
  OBVIOUS
<1> HIDE DEF label
<1>3. pc = "ready" /\ pc' = label
  BY <1>1 DEF Begin
<1>4. row' \in 0 .. Rows /\ row' > 0
  BY <1>1, CsvAssumption
<1>5. CASE row' = row + 1
  <2>1. \A r \in 0 .. Rows : (r + 1) - 1 = r /\ r + 1 > 0
    BY CsvAssumption
  <2>2. Passed = row /\ Passed' = row' - 1
    BY <1>2, <1>3, <1>4 DEF Passed
  <2>3. Passed' = Passed
    BY <1>5, <2>1, <2>2 DEF CsvTypeOK
  <2>4. QED
    BY <1>1, <1>2, <1>4, <2>3, CallStarts
<1>6. CASE failed /\ row' = row
  BY <1>1, <1>2, <1>4, <1>6, CallStarts
<1>7. QED
  BY <1>1, <1>5, <1>6

(* Flush and Close start at any time. *)
LEMMA FlushStep ==
  CsvTypeOK /\ CsvInv /\ Flush => CsvTypeOK' /\ CsvInv'
<1> SUFFICES ASSUME CsvTypeOK, CsvInv, Flush PROVE CsvTypeOK' /\ CsvInv'
  OBVIOUS
<1>1. Begin("flush") /\ row' = row /\ row' \in 0 .. Rows
  BY DEF Flush, CsvTypeOK
<1>2. Passed' = Passed
  BY <1>1 DEF Passed, Begin
<1>3. QED
  BY <1>1, <1>2, CallStarts

(* The mark goes past the csv.Writer, which is empty unless it failed. *)
LEMMA WriteBomStep ==
  CsvTypeOK /\ CsvInv /\ WriteBom => CsvTypeOK' /\ CsvInv'
<1> SUFFICES ASSUME CsvTypeOK, CsvInv, WriteBom PROVE CsvTypeOK' /\ CsvInv'
  OBVIOUS
<1>1. /\ pc = "bom" /\ flushInterval' = flushInterval /\ includeBOM' = includeBOM
      /\ buffer' = buffer /\ sticky' = sticky /\ headerWritten' = headerWritten
      /\ rowCount' = rowCount /\ row' = row /\ flushed' = flushed
  BY DEF WriteBom, options, Continue, Return, result
<1>2. PICK part \in Seq(Mark) :
        /\ out' = out \o part
        /\ \/ /\ part = Pieces(Bom) /\ pc' = "header" /\ failed' = failed /\ clean' = clean
              /\ failures' = failures
           \/ /\ pc' = "ready" /\ failed' = TRUE /\ clean' = FALSE
              /\ failures' \in 0 .. MaxFailures
  <2>1. CASE out' = out \o Pieces(Bom) /\ Continue("header") /\ UNCHANGED failures
    BY <2>1, PiecesType DEF Continue, result
  <2>2. CASE /\ WriterFails /\ Return(FALSE)
             /\ \E part \in Prefixes(Pieces(Bom)) : out' = out \o part
    <3>1. PICK n \in 0 .. Len(Pieces(Bom)) : out' = out \o SubSeq(Pieces(Bom), 1, n)
      BY <2>2 DEF Prefixes
    <3>2. SubSeq(Pieces(Bom), 1, n) \in Seq(Mark)
      BY PiecesType, SplitSequence
    <3>3. failures' \in 0 .. MaxFailures
      BY <2>2, CsvAssumption DEF WriterFails, CsvTypeOK
    <3>4. QED
      BY <2>2, <3>1, <3>2, <3>3 DEF Return
  <2>3. QED
    BY <2>1, <2>2 DEF WriteBom
<1>3. out \in Seq(Piece) /\ buffer \in Seq(Piece) /\ part \in Seq(Piece) /\ out' \in Seq(Piece)
  <2>1. out \in Seq(Piece) /\ buffer \in Seq(Piece)
    BY StreamType
  <2>2. part \in Seq(Piece)
    BY PieceTypes, SeqMonotonic
  <2>3. QED
    BY <1>2, <2>1, <2>2
<1>4. CsvTypeOK'
  BY <1>1, <1>2, <1>3 DEF CsvTypeOK, Piece
<1>5. ~headerWritten /\ rowCount = 0 /\ ~HeaderPut /\ ~HeaderPut' /\ includeBOM
  BY <1>1, <1>2 DEF CsvInv, CallOK, HeaderPut
<1>6. ~flushed
  BY <1>1 DEF CsvInv, CallOK
<1>7. Passed' \in 0 .. Rows /\ (pc' = "header" => Passed' = Passed)
  <2>1. \A r \in 0 .. Rows : r > 0 => r - 1 \in 0 .. Rows
    BY CsvAssumption
  <2>2. QED
    BY <1>1, <1>2, <2>1 DEF Passed, CsvTypeOK
<1>8. ~sticky => buffer = <<>>
  BY <1>5 DEF CsvInv, CallOK
<1>9. CallOK'
  <2>1. \A n \in 0 .. Rows : 0 <= n
    BY CsvAssumption
  <2>2. QED
    BY <1>1, <1>2, <1>5, <1>6, <1>7, <1>8, <2>1 DEF CsvInv, CallOK
<1>10. CASE sticky
  <2>1. InOrder(out')
    BY <1>2, <1>3, InOrderMarks DEF CsvInv
  <2>2. RowsIn(out \o buffer) \subseteq RowsIn(out' \o buffer')
    <3>1. RowsIn(out \o buffer) = RowsIn(out) \cup RowsIn(buffer)
      BY <1>3, RowsOfParts
    <3>2. RowsIn(out') = RowsIn(out) \cup RowsIn(part)
      BY <1>2, <1>3, RowsOfParts
    <3>3. RowsIn(out' \o buffer') = RowsIn(out') \cup RowsIn(buffer)
      BY <1>1, <1>3, RowsOfParts
    <3>4. QED
      BY <3>1, <3>2, <3>3
  <2>3. RowsCounted'
    BY <1>1, <2>2, RowsKept DEF CsvInv
  <2>4. QED
    BY <1>1, <1>4, <1>9, <1>10, <2>1, <2>3, FailedStep
<1>11. CASE ~sticky
  <2>1. PICK m \in Seq(Mark) : StreamFrom(m)
    BY <1>11 DEF CsvInv, StreamIsFile
  <2>2. m \in Seq(Piece) /\ out = m
    <3>1. m \in Seq(Piece)
      BY PieceTypes, SeqMonotonic
    <3>2. out \o <<>> = m \o <<>>
      BY <1>5, <1>8, <1>11, <2>1 DEF StreamFrom, Content
    <3>3. QED
      BY <1>3, <3>1, <3>2, ConcatEmptySeq
  <2>3. m \o part \in Seq(Mark)
    OBVIOUS
  <2>4. out' \o buffer' = Content(m \o part, HeaderPut', Passed', rowCount')
    BY <1>1, <1>2, <1>5, <1>8, <1>11, <2>2 DEF Content
  <2>5. clean' => m \o part = IF HeaderPut' \/ pc' = "header" THEN Marks' ELSE <<>>
    <3>1. clean => m = <<>>
      BY <1>1, <1>5, <2>1 DEF StreamFrom
    <3>2. <<>> \o Pieces(Bom) = Pieces(Bom)
      BY PiecesType, ConcatEmptySeq
    <3>3. QED
      BY <1>1, <1>2, <1>5, <3>1, <3>2 DEF Marks
  <2>6. StreamFrom(m \o part)'
    BY <2>4, <2>5 DEF StreamFrom
  <2>7. BufferRecent'
    BY <1>1, <1>8, <1>11, RowsOfParts DEF BufferRecent
  <2>8. QED
    BY <1>1, <1>4, <1>9, <1>11, <2>3, <2>6, <2>7, GoodStep
<1>12. QED
  BY <1>10, <1>11

(* A call that fails in the csv.Writer ends with its error. *)
LEMMA CallFails ==
  ASSUME CsvTypeOK, CsvInv, CsvTypeOK', pc # "ready", pc' = "ready", failed' = TRUE,
         clean' = FALSE, flushed' = flushed, headerWritten' = headerWritten,
         rowCount' = rowCount, sticky', InOrder(out'), RowsCounted'
  PROVE  CsvInv'
<1>1. ~flushed /\ (~headerWritten => rowCount = 0)
  BY DEF CsvInv, CallOK
<1>2. CallOK'
  BY <1>1 DEF CallOK
<1>3. QED
  BY <1>2, FailedStep

(* What a record that was refused leaves in the file. *)
LEMMA RefusedPut ==
  ASSUME CsvTypeOK, CsvInv, NEW x \in Records, PutFails(x), rowCount' = rowCount,
         ~sticky => InOrder((out \o buffer) \o Pieces(x))
  PROVE  InOrder(out') /\ RowsCounted'
<1>1. /\ out' \in Seq(Piece) /\ buffer' \in Seq(Piece)
      /\ \/ sticky /\ out' = out /\ buffer' = buffer
         \/ ~sticky /\ out' \o buffer' = (out \o buffer) \o Pieces(x)
  <2>1. buffer' \in Seq(Record) => buffer' \in Seq(Piece)
    BY PieceTypes, SeqMonotonic
  <2>2. QED
    BY <2>1, PutFailsEffect
<1>2. CASE sticky /\ out' = out /\ buffer' = buffer
  BY <1>2 DEF CsvInv, RowsCounted
<1>3. CASE ~sticky /\ out' \o buffer' = (out \o buffer) \o Pieces(x)
  <2>1. InOrder(out' \o buffer')
    BY <1>3
  <2>2. InOrder(out')
    BY <1>1, <2>1, InOrderPrefix
  <2>3. out \o buffer \in Seq(Piece) /\ Pieces(x) \in Seq(Piece)
    BY StreamType, PiecesType, PieceTypes, SeqMonotonic
  <2>4. RowsIn(out \o buffer) \subseteq RowsIn((out \o buffer) \o Pieces(x))
    BY <2>3, RowsOfParts
  <2>5. RowsIn(out \o buffer) \subseteq RowsIn(out' \o buffer')
    BY <1>3, <2>4
  <2>6. RowsCounted'
    BY <2>5, RowsKept DEF CsvInv
  <2>7. QED
    BY <2>2, <2>6
<1>4. QED
  BY <1>1, <1>2, <1>3

(* What a flush that failed leaves in the file. *)
LEMMA RefusedPush ==
  ASSUME CsvTypeOK, CsvInv, PushFails, rowCount' = rowCount
  PROVE  InOrder(out') /\ RowsCounted'
<1>1. /\ out' \in Seq(Piece) /\ buffer' \in Seq(Piece)
      /\ out' \o buffer' = out \o buffer
      /\ sticky => out' = out
  <2>1. buffer' \in Seq(Record) => buffer' \in Seq(Piece)
    BY PieceTypes, SeqMonotonic
  <2>2. QED
    BY <2>1, PushFailsEffect
<1>2. RowsCounted'
  BY <1>1 DEF CsvInv, RowsCounted
<1>3. InOrder(out')
  <2>1. CASE sticky
    BY <1>1, <2>1 DEF CsvInv
  <2>2. CASE ~sticky
    <3>1. InOrder(out' \o buffer')
      BY <1>1, <2>2, StreamInOrder
    <3>2. QED
      BY <1>1, <3>1, InOrderPrefix
  <2>3. QED
    BY <2>1, <2>2
<1>4. QED
  BY <1>2, <1>3

(* The header goes to an empty csv.Writer, or fails with a part of it. *)
LEMMA PutHeaderStep ==
  CsvTypeOK /\ CsvInv /\ PutHeader => CsvTypeOK' /\ CsvInv'
<1> SUFFICES ASSUME CsvTypeOK, CsvInv, PutHeader PROVE CsvTypeOK' /\ CsvInv'
  OBVIOUS
<1>1. /\ pc = "header" /\ flushInterval' = flushInterval /\ includeBOM' = includeBOM
      /\ headerWritten' = headerWritten /\ rowCount' = rowCount /\ row' = row
      /\ flushed' = flushed
  BY DEF PutHeader, options, Continue, Return, result
<1>2. Header \in Records
  BY CsvAssumption DEF Header, Records
<1>3. ~headerWritten /\ rowCount = 0 /\ ~flushed
  BY <1>1 DEF CsvInv, CallOK
<1>4. CASE Put(Header) /\ Continue("headerFlush")
  <2>1. /\ ~sticky /\ ~sticky' /\ sticky' \in BOOLEAN /\ failures' = failures
        /\ out' \in Seq(Piece) /\ buffer' \in Seq(Record)
        /\ out' \o buffer' = (out \o buffer) \o Pieces(Header)
        /\ RowsIn(buffer') \subseteq RowsIn(buffer) \cup ({Header} \ {Header})
    BY <1>2, <1>4, PutEffect
  <2>2. pc' = "headerFlush" /\ failed' = failed /\ clean' = clean
    BY <1>4 DEF Continue, result
  <2>3. CsvTypeOK'
    BY <1>1, <2>1, <2>2 DEF CsvTypeOK, Piece, Record
  <2>4. Passed' = Passed /\ HeaderPut'
    BY <1>1, <2>2 DEF Passed, HeaderPut
  <2>5. CallOK'
    BY <1>1, <1>3, <2>1, <2>2, <2>4 DEF CsvInv, CallOK
  <2>6. PICK m \in Seq(Mark) : /\ (out \o buffer) \o Pieces(Header) = m \o Lines(Passed, 0)
                               /\ clean => m = Marks
    BY <1>1, <2>1, HeaderExtends
  <2>7. StreamFrom(m)'
    <3>1. out' \o buffer' = Content(m, HeaderPut', Passed', rowCount')
      BY <1>1, <1>3, <2>1, <2>4, <2>6 DEF Content
    <3>2. Marks' = Marks
      BY <1>1 DEF Marks
    <3>3. QED
      BY <2>2, <2>4, <2>6, <3>1, <3>2 DEF StreamFrom
  <2>8. BufferRecent'
    <3>1. buffer = <<>>
      BY <1>1, <1>3, <2>1 DEF CsvInv, CallOK, HeaderPut
    <3>2. RowsIn(buffer') = {}
      BY <2>1, <3>1, RowsOfParts
    <3>3. QED
      BY <3>2 DEF BufferRecent
  <2>9. QED
    BY <2>1, <2>3, <2>5, <2>7, <2>8, GoodStep
<1>5. CASE PutFails(Header) /\ Return(FALSE)
  <2>1. /\ sticky' = TRUE /\ failures' \in 0 .. MaxFailures
        /\ out' \in Seq(Piece) /\ buffer' \in Seq(Record)
    BY <1>2, <1>5, PutFailsEffect
  <2>2. pc' = "ready" /\ failed' = TRUE /\ clean' = FALSE
    BY <1>5 DEF Return
  <2>3. CsvTypeOK'
    BY <1>1, <2>1, <2>2 DEF CsvTypeOK, Piece, Record
  <2>4. InOrder(out') /\ RowsCounted'
    BY <1>1, <1>2, <1>5, HeaderExtends, RefusedPut
  <2>5. QED
    BY <1>1, <2>1, <2>2, <2>3, <2>4, CallFails
<1>6. QED
  BY <1>4, <1>5 DEF PutHeader

(* The header is flushed and counts as written, or the writer failed. *)
LEMMA PushHeaderStep ==
  CsvTypeOK /\ CsvInv /\ PushHeader => CsvTypeOK' /\ CsvInv'
<1> SUFFICES ASSUME CsvTypeOK, CsvInv, PushHeader PROVE CsvTypeOK' /\ CsvInv'
  OBVIOUS
<1>1. /\ pc = "headerFlush" /\ flushInterval' = flushInterval /\ includeBOM' = includeBOM
      /\ rowCount' = rowCount /\ row' = row /\ flushed' = flushed
  BY DEF PushHeader, options, Then, Continue, Return, result
<1>2. ~headerWritten /\ rowCount = 0 /\ ~flushed /\ HeaderPut
  BY <1>1 DEF CsvInv, CallOK, HeaderPut
<1>3. CASE Push /\ headerWritten' = TRUE /\ Then(row # 0, "row")
  <2>1. /\ ~sticky /\ ~sticky' /\ sticky' \in BOOLEAN /\ failures' = failures
        /\ out' \in Seq(Piece) /\ buffer' = <<>> /\ buffer' \in Seq(Record)
        /\ out' \o buffer' = out \o buffer
    BY <1>3, PushEffect
  <2>2. \/ row # 0 /\ pc' = "row" /\ failed' = failed /\ clean' = clean
        \/ row = 0 /\ pc' = "ready" /\ failed' = FALSE /\ clean' = clean
    BY <1>3 DEF Then, Continue, Return, result, CsvTypeOK
  <2>3. CsvTypeOK'
    BY <1>1, <1>3, <2>1, <2>2 DEF CsvTypeOK, Piece, Record
  <2>4. Passed' = Passed /\ HeaderPut' /\ (row # 0 => row > 0)
    <3>1. \A r \in 0 .. Rows : r # 0 => r > 0
      BY CsvAssumption
    <3>2. row # 0 => row > 0
      BY <3>1 DEF CsvTypeOK
    <3>3. QED
      BY <1>1, <1>3, <2>2, <3>2 DEF Passed, HeaderPut
  <2>5. CallOK'
    BY <1>1, <1>2, <1>3, <2>1, <2>2, <2>4 DEF CsvInv, CallOK
  <2>6. PICK m \in Seq(Mark) : StreamFrom(m)
    BY <2>1 DEF CsvInv, StreamIsFile
  <2>7. StreamFrom(m)'
    <3>1. out' \o buffer' = Content(m, HeaderPut', Passed', rowCount')
      BY <1>1, <1>2, <2>1, <2>4, <2>6 DEF StreamFrom, Content
    <3>2. Marks' = Marks
      BY <1>1 DEF Marks
    <3>3. QED
      BY <1>2, <2>2, <2>4, <2>6, <3>1, <3>2 DEF StreamFrom
  <2>8. BufferRecent'
    BY <2>1, RowsOfParts DEF BufferRecent
  <2>9. QED
    BY <2>1, <2>3, <2>5, <2>7, <2>8, GoodStep
<1>4. CASE PushFails /\ UNCHANGED headerWritten /\ Return(FALSE)
  <2>1. /\ sticky' = TRUE /\ failures' \in 0 .. MaxFailures
        /\ out' \in Seq(Piece) /\ buffer' \in Seq(Record)
    BY <1>4, PushFailsEffect
  <2>2. pc' = "ready" /\ failed' = TRUE /\ clean' = FALSE
    BY <1>4 DEF Return
  <2>3. CsvTypeOK'
    BY <1>1, <1>4, <2>1, <2>2 DEF CsvTypeOK, Piece, Record
  <2>4. InOrder(out') /\ RowsCounted'
    BY <1>1, <1>4, RefusedPush
  <2>5. QED
    BY <1>1, <1>4, <2>1, <2>2, <2>3, <2>4, CallFails
<1>5. QED
  BY <1>3, <1>4 DEF PushHeader

(* A row that is taken is counted, and waits unless the interval is full. *)
LEMMA PutRowStep ==
  CsvTypeOK /\ CsvInv /\ PutRow => CsvTypeOK' /\ CsvInv'
<1> SUFFICES ASSUME CsvTypeOK, CsvInv, PutRow PROVE CsvTypeOK' /\ CsvInv'
  OBVIOUS
<1>1. /\ pc = "row" /\ flushInterval' = flushInterval /\ includeBOM' = includeBOM
      /\ headerWritten' = headerWritten /\ row' = row /\ flushed' = flushed
  BY DEF PutRow, options, Then, Continue, Return, result
<1>2. headerWritten /\ row > 0 /\ ~flushed /\ Passed = row - 1
  BY <1>1 DEF CsvInv, CallOK, Passed
<1>3. row \in 1 .. Rows /\ row \in Records
  BY <1>2, CsvAssumption DEF CsvTypeOK, Records
<1>4. CASE /\ Put(row)
           /\ rowCount' = rowCount + 1
           /\ Then(flushInterval > 0 /\ rowCount' % flushInterval = 0, "rowFlush")
  <2>1. /\ ~sticky /\ ~sticky' /\ sticky' \in BOOLEAN /\ failures' = failures
        /\ out' \in Seq(Piece) /\ buffer' \in Seq(Record)
        /\ out' \o buffer' = (out \o buffer) \o Pieces(row)
        /\ RowsIn(buffer') \subseteq RowsIn(buffer) \cup ({row} \ {Header})
    BY <1>3, <1>4, PutEffect
  <2>2. \/ /\ flushInterval > 0 /\ rowCount' % flushInterval = 0
           /\ pc' = "rowFlush" /\ failed' = failed /\ clean' = clean
        \/ /\ ~(flushInterval > 0 /\ rowCount' % flushInterval = 0)
           /\ pc' = "ready" /\ failed' = FALSE /\ clean' = clean
    BY <1>4 DEF Then, Continue, Return, result, CsvTypeOK
  <2>3. rowCount \in 0 .. Passed /\ rowCount + 1 \in 0 .. row /\ rowCount + 1 \in 0 .. Rows
    <3>1. rowCount <= Passed
      BY <2>1 DEF CsvInv, CallOK
    <3>2. rowCount \in 0 .. Rows
      BY DEF CsvTypeOK
    <3>3. QED
      BY <1>2, <1>3, <3>1, <3>2, CsvAssumption
  <2>4. CsvTypeOK'
    BY <1>1, <1>4, <2>1, <2>2, <2>3 DEF CsvTypeOK, Piece, Record
  <2>5. Passed' = row /\ HeaderPut'
    BY <1>1, <1>2, <2>2 DEF Passed, HeaderPut
  <2>6. CallOK'
    <3>1. rowCount' <= Passed' /\ (clean => rowCount' = Passed')
      <4>1. clean => rowCount = Passed
        BY DEF CsvInv, CallOK
      <4>2. \A r \in 1 .. Rows : (r - 1) + 1 = r
        BY CsvAssumption
      <4>3. rowCount + 1 <= row
        BY <1>3, <2>3, CsvAssumption
      <4>4. QED
        BY <1>2, <1>3, <1>4, <2>5, <4>1, <4>2, <4>3
    <3>2. QED
      BY <1>1, <1>2, <2>1, <2>2, <2>5, <3>1 DEF CsvInv, CallOK
  <2>7. PICK m \in Seq(Mark) : /\ (out \o buffer) \o Pieces(row) = m \o Lines(row, rowCount + 1)
                               /\ clean => m = Marks
    BY <1>1, <2>1, RowExtends
  <2>8. StreamFrom(m)'
    <3>1. out' \o buffer' = Content(m, HeaderPut', Passed', rowCount')
      BY <1>4, <2>1, <2>5, <2>7 DEF Content
    <3>2. Marks' = Marks
      BY <1>1 DEF Marks
    <3>3. QED
      BY <2>2, <2>5, <2>7, <3>1, <3>2 DEF StreamFrom
  <2>9. BufferRecent'
    <3>1. SUFFICES ASSUME flushInterval > 0, pc' # "rowFlush"
                   PROVE  RowsIn(buffer') \subseteq row - ((rowCount + 1) % flushInterval) + 1 .. row
      BY <1>1, <1>4, <2>5 DEF BufferRecent
    <3>2. flushInterval \in Nat \ {0} /\ (rowCount + 1) % flushInterval # 0
      BY <1>4, <2>2, <3>1, CsvAssumption DEF CsvTypeOK
    <3>3. rowCount \in Nat /\ row \in Nat /\ Passed \in Nat /\ row = Passed + 1
      BY <1>2, <1>3, <2>3, CsvAssumption
    <3>4. (rowCount + 1) % flushInterval = (rowCount % flushInterval) + 1
      BY <3>2, <3>3, NextRemainder
    <3>5. RowsIn(buffer) \subseteq Passed - (rowCount % flushInterval) + 1 .. Passed
      BY <1>1, <2>1, <3>1 DEF CsvInv, BufferRecent
    <3>6. rowCount % flushInterval \in Nat
      BY <3>2, <3>3
    <3>7. Passed - (rowCount % flushInterval) + 1 .. Passed
            \subseteq row - ((rowCount % flushInterval) + 1) + 1 .. row
      BY <3>3, <3>6
    <3>8. row \in row - ((rowCount % flushInterval) + 1) + 1 .. row
      BY <3>3, <3>6
    <3>9. QED
      BY <2>1, <3>4, <3>5, <3>7, <3>8
  <2>10. QED
    BY <2>1, <2>4, <2>6, <2>8, <2>9, GoodStep
<1>5. CASE PutFails(row) /\ UNCHANGED rowCount /\ Return(FALSE)
  <2>1. /\ sticky' = TRUE /\ failures' \in 0 .. MaxFailures
        /\ out' \in Seq(Piece) /\ buffer' \in Seq(Record)
    BY <1>3, <1>5, PutFailsEffect
  <2>2. pc' = "ready" /\ failed' = TRUE /\ clean' = FALSE
    BY <1>5 DEF Return
  <2>3. CsvTypeOK'
    BY <1>1, <1>5, <2>1, <2>2 DEF CsvTypeOK, Piece, Record
  <2>4. InOrder(out') /\ RowsCounted'
    BY <1>1, <1>3, <1>5, RowExtends, RefusedPut
  <2>5. QED
    BY <1>1, <1>5, <2>1, <2>2, <2>3, <2>4, CallFails
<1>6. QED
  BY <1>4, <1>5 DEF PutRow

(* What is pushed is the same stream, with nothing left to wait. *)
LEMMA StreamPushed ==
  ASSUME CsvTypeOK, CsvInv, Push, CsvTypeOK', CallOK',
         Passed' = Passed, HeaderPut' = HeaderPut, rowCount' = rowCount, clean' = clean,
         includeBOM' = includeBOM, pc # "header", pc' # "header"
  PROVE  CsvInv'
<1>1. ~sticky /\ ~sticky' /\ buffer' = <<>> /\ out' \o buffer' = out \o buffer
  BY PushEffect
<1>2. PICK m \in Seq(Mark) : StreamFrom(m)
  BY <1>1 DEF CsvInv, StreamIsFile
<1>3. out' \o buffer' = Content(m, HeaderPut', Passed', rowCount')
  BY <1>1, <1>2 DEF StreamFrom, Content
<1>4. Marks' = Marks
  BY DEF Marks
<1>5. StreamFrom(m)'
  BY <1>2, <1>3, <1>4 DEF StreamFrom
<1>6. BufferRecent'
  BY <1>1, RowsOfParts DEF BufferRecent
<1>7. QED
  BY <1>1, <1>5, <1>6, GoodStep

(* A full interval is flushed, or the writer failed. *)
LEMMA PushRowStep ==
  CsvTypeOK /\ CsvInv /\ PushRow => CsvTypeOK' /\ CsvInv'
<1> SUFFICES ASSUME CsvTypeOK, CsvInv, PushRow PROVE CsvTypeOK' /\ CsvInv'
  OBVIOUS
<1>1. /\ pc = "rowFlush" /\ pc' = "ready"
      /\ flushInterval' = flushInterval /\ includeBOM' = includeBOM
      /\ headerWritten' = headerWritten /\ rowCount' = rowCount /\ row' = row
      /\ flushed' = flushed
  BY DEF PushRow, options, Return
<1>2. headerWritten /\ ~flushed /\ HeaderPut /\ HeaderPut' /\ Passed' = Passed
  BY <1>1 DEF CsvInv, CallOK, HeaderPut, Passed
<1>3. CASE Push /\ Return(TRUE)
  <2>1. /\ ~sticky /\ ~sticky' /\ sticky' \in BOOLEAN /\ failures' = failures
        /\ out' \in Seq(Piece) /\ buffer' = <<>> /\ buffer' \in Seq(Record)
    BY <1>3, PushEffect
  <2>2. failed' = FALSE /\ clean' = clean
    BY <1>3 DEF Return, CsvTypeOK
  <2>3. CsvTypeOK'
    BY <1>1, <2>1, <2>2 DEF CsvTypeOK, Piece, Record
  <2>4. CallOK'
    BY <1>1, <1>2, <2>1, <2>2 DEF CsvInv, CallOK
  <2>5. QED
    BY <1>1, <1>2, <1>3, <2>2, <2>3, <2>4, StreamPushed DEF HeaderPut
<1>4. CASE PushFails /\ Return(FALSE)
  <2>1. /\ sticky' = TRUE /\ failures' \in 0 .. MaxFailures
        /\ out' \in Seq(Piece) /\ buffer' \in Seq(Record)
    BY <1>4, PushFailsEffect
  <2>2. failed' = TRUE /\ clean' = FALSE
    BY <1>4 DEF Return
  <2>3. CsvTypeOK'
    BY <1>1, <2>1, <2>2 DEF CsvTypeOK, Piece, Record
  <2>4. InOrder(out') /\ RowsCounted'
    BY <1>1, <1>4, RefusedPush
  <2>5. QED
    BY <1>1, <2>1, <2>2, <2>3, <2>4, CallFails
<1>5. QED
  BY <1>3, <1>4 DEF PushRow

(* Flush and Close write what waits, or return the error. *)
LEMMA EndFlushStep ==
  CsvTypeOK /\ CsvInv /\ EndFlush => CsvTypeOK' /\ CsvInv'
<1> SUFFICES ASSUME CsvTypeOK, CsvInv, EndFlush PROVE CsvTypeOK' /\ CsvInv'
  OBVIOUS
<1>1. /\ pc = "flush" /\ pc' = "ready"
      /\ flushInterval' = flushInterval /\ includeBOM' = includeBOM
      /\ headerWritten' = headerWritten /\ rowCount' = rowCount /\ row' = row
  BY DEF EndFlush, options
<1>2. HeaderPut' = HeaderPut /\ Passed' = Passed
  BY <1>1 DEF HeaderPut, Passed
<1>3. CASE Push /\ failed' = FALSE /\ flushed' = TRUE /\ UNCHANGED clean
  <2>1. /\ ~sticky /\ ~sticky' /\ sticky' \in BOOLEAN /\ failures' = failures
        /\ out' \in Seq(Piece) /\ buffer' = <<>> /\ buffer' \in Seq(Record)
    BY <1>3, PushEffect
  <2>2. CsvTypeOK'
    BY <1>1, <1>3, <2>1 DEF CsvTypeOK, Piece, Record
  <2>3. CallOK'
    BY <1>1, <1>2, <1>3, <2>1 DEF CsvInv, CallOK
  <2>4. QED
    BY <1>1, <1>2, <1>3, <2>2, <2>3, StreamPushed
<1>4. CASE PushFails /\ failed' = TRUE /\ clean' = FALSE /\ UNCHANGED flushed
  <2>1. /\ sticky' = TRUE /\ failures' \in 0 .. MaxFailures
        /\ out' \in Seq(Piece) /\ buffer' \in Seq(Record)
    BY <1>4, PushFailsEffect
  <2>2. CsvTypeOK'
    BY <1>1, <1>4, <2>1 DEF CsvTypeOK, Piece, Record
  <2>3. InOrder(out') /\ RowsCounted'
    BY <1>1, <1>4, RefusedPush
  <2>4. QED
    BY <1>1, <1>4, <2>1, <2>2, <2>3, CallFails
<1>5. QED
  BY <1>1, <1>3, <1>4 DEF EndFlush

(* Every step of the streamer keeps its types and the invariant. *)
LEMMA CsvStep ==
  CsvTypeOK /\ CsvInv /\ [Next]_vars => CsvTypeOK' /\ CsvInv'
<1>1. CsvTypeOK /\ CsvInv /\ Next => CsvTypeOK' /\ CsvInv'
  BY WriteHeaderStep, WriteRowStep, FlushStep, WriteBomStep, PutHeaderStep, PushHeaderStep,
     PutRowStep, PushRowStep, EndFlushStep DEF Next
<1>2. ASSUME CsvTypeOK, CsvInv, UNCHANGED vars
      PROVE  CsvTypeOK' /\ CsvInv'
  <2>1. Passed' = Passed /\ HeaderPut' = HeaderPut /\ Marks' = Marks
    BY <1>2 DEF vars, options, Passed, HeaderPut, Marks
  <2>2. CsvTypeOK'
    BY <1>2 DEF vars, options, result, CsvTypeOK
  <2>3. CallOK' /\ RowsCounted' /\ InOrder(out')
    BY <1>2, <2>1 DEF vars, options, result, CsvInv, CallOK, RowsCounted
  <2>4. ASSUME NEW m, StreamFrom(m)
        PROVE  StreamFrom(m)'
    BY <1>2, <2>1, <2>4 DEF vars, options, result, StreamFrom, Content
  <2>5. StreamIsFile'
    BY <1>2, <2>4 DEF vars, CsvInv, StreamIsFile
  <2>6. BufferRecent'
    BY <1>2, <2>1 DEF vars, options, CsvInv, BufferRecent
  <2>7. QED
    BY <2>2, <2>3, <2>5, <2>6 DEF CsvInv
<1>3. QED
  BY <1>1, <1>2

(* The variables keep their types, and the invariant holds. *)
THEOREM CsvInvariant == Spec => [](CsvTypeOK /\ CsvInv)
  BY CsvStart, CsvStep, PTL DEF Spec

-----------------------------------------------------------------------------

(* Every variable keeps its type: no row is counted that the caller does   *)
(* not have, and only marks and records get into the file.                 *)
THEOREM CsvTypeCorrect == Spec => []CsvTypeOK
  BY CsvInvariant, PTL

(* Without a failed call the file is one mark, one header and every row    *)
(* once and in order, however the buffer was written out.                  *)
THEOREM FileIsExact == Spec => []CleanFile
<1>1. CsvTypeOK /\ CsvInv => CleanFile
  <2> SUFFICES ASSUME CsvTypeOK, CsvInv, pc = "ready", clean
               PROVE  /\ rowCount = row
                      /\ out \o buffer = IF headerWritten THEN File(row) ELSE <<>>
    BY DEF CleanFile
  <2>1. ~sticky /\ rowCount = Passed /\ Passed = row
    BY DEF CsvInv, CallOK, Passed
  <2>2. PICK m \in Seq(Mark) : StreamFrom(m)
    BY <2>1 DEF CsvInv, StreamIsFile
  <2>3. HeaderPut = headerWritten
    BY DEF HeaderPut, CsvTypeOK
  <2>4. row \in 0 .. Rows /\ <<>> \o <<>> = <<>>
    BY DEF CsvTypeOK
  <2>5. CASE headerWritten
    <3>1. m = Marks /\ out \o buffer = Marks \o Lines(row, row)
      BY <2>1, <2>2, <2>3, <2>5 DEF StreamFrom, Content
    <3>2. QED
      BY <2>1, <2>4, <2>5, <3>1, FileIsLines
  <2>6. CASE ~headerWritten
    BY <2>1, <2>2, <2>3, <2>4, <2>6 DEF StreamFrom, Content
  <2>7. QED
    BY <2>5, <2>6
<1>2. QED
  BY <1>1, CsvInvariant, PTL

(* A Flush that returned nil has written the whole file, and fewer than    *)
(* FlushInterval rows wait between calls.                                  *)
THEOREM RowsAreDelivered == Spec => []FlushDelivers
<1>1. CsvTypeOK /\ CsvInv /\ CleanFile => FlushDelivers
  <2> SUFFICES ASSUME CsvTypeOK, CsvInv, CleanFile
               PROVE  FlushDelivers
    OBVIOUS
  <2>1. ASSUME flushed, clean, headerWritten
        PROVE  out = File(row)
    <3>1. pc = "ready" /\ buffer = <<>>
      BY <2>1 DEF CsvInv, CallOK
    <3>2. out \o <<>> = out
      BY StreamType, ConcatEmptySeq
    <3>3. QED
      BY <2>1, <3>1, <3>2 DEF CleanFile
  <2>2. ASSUME pc = "ready", ~sticky, flushInterval > 0
        PROVE  Cardinality(RowsIn(buffer)) < flushInterval
    <3>1. flushInterval \in Nat \ {0} /\ rowCount \in Nat /\ row \in Nat
      BY <2>2, CsvAssumption DEF CsvTypeOK
    <3>2. rowCount % flushInterval \in 0 .. flushInterval - 1
      BY <3>1
    <3>3. RowsIn(buffer) \subseteq row - (rowCount % flushInterval) + 1 .. row
      BY <2>2 DEF CsvInv, BufferRecent, Passed
    <3>4. \A k \in 0 .. flushInterval - 1 :
             IsFiniteSet(row - k + 1 .. row) /\ Cardinality(row - k + 1 .. row) = k
      <4> TAKE k \in 0 .. flushInterval - 1
      <4>1. row - k + 1 \in Int /\ row \in Int /\ k \in Int /\ k >= 0
        BY <3>1
      <4>2. /\ IsFiniteSet(row - k + 1 .. row)
            /\ Cardinality(row - k + 1 .. row)
                 = IF row - k + 1 > row THEN 0 ELSE row - (row - k + 1) + 1
        BY <4>1, FS_Interval
      <4>3. (IF row - k + 1 > row THEN 0 ELSE row - (row - k + 1) + 1) = k
        BY <3>1, <4>1
      <4>4. QED
        BY <4>2, <4>3
    <3>5. /\ IsFiniteSet(row - (rowCount % flushInterval) + 1 .. row)
          /\ Cardinality(row - (rowCount % flushInterval) + 1 .. row) = rowCount % flushInterval
      BY <3>2, <3>4
    <3>6. /\ Cardinality(RowsIn(buffer)) \in Nat
          /\ Cardinality(RowsIn(buffer))
               <= Cardinality(row - (rowCount % flushInterval) + 1 .. row)
      BY <3>3, <3>5, FS_Subset, FS_CardinalityType
    <3>7. QED
      BY <3>1, <3>2, <3>5, <3>6
  <2>3. QED
    BY <2>1, <2>2 DEF FlushDelivers
<1>2. QED
  BY <1>1, CsvInvariant, FileIsExact, PTL

(* Whatever failed and was tried again, what reached the writer is in      *)
(* order: no record twice, none before the header, none after a torn one.  *)
THEOREM FileIsOrdered == Spec => []RecordsInOrder
<1>1. CsvInv => RecordsInOrder
  BY DEF CsvInv, RecordsInOrder
<1>2. QED
  BY <1>1, CsvInvariant, PTL

(* RowCount is the number of rows in the stream and, once the csv.Writer   *)
(* has an error, no more than that.                                        *)
THEOREM CountIsHonest == Spec => []RowCountHonest
<1>1. CsvTypeOK /\ CsvInv => RowCountHonest
  <2> SUFFICES ASSUME CsvTypeOK, CsvInv
               PROVE  RowCountHonest
    OBVIOUS
  <2>1. ASSUME ~sticky
        PROVE  rowCount = Cardinality(RowsIn(out \o buffer))
    <3>1. PICK m \in Seq(Mark) : StreamFrom(m)
      BY <2>1 DEF CsvInv, StreamIsFile
    <3>2. CASE HeaderPut
      <4>1. Passed \in 0 .. Rows /\ rowCount \in 0 .. Passed
        BY <2>1, CsvAssumption DEF CsvTypeOK, CsvInv, CallOK, Passed
      <4>2. out \o buffer = m \o Lines(Passed, rowCount)
        BY <3>1, <3>2 DEF StreamFrom, Content
      <4>3. QED
        BY <4>1, <4>2, LinesFacts
    <3>3. CASE ~HeaderPut
      <4>1. out \o buffer = m \o <<>> /\ rowCount = 0
        BY <3>1, <3>3 DEF StreamFrom, Content, CsvInv, CallOK, HeaderPut
      <4>2. QED
        BY <4>1, MarksFacts
    <3>4. QED
      BY <3>2, <3>3
  <2>2. QED
    BY <2>1 DEF CsvInv, RowsCounted, RowCountHonest
<1>2. QED
  BY <1>1, CsvInvariant, PTL

=============================================================================
