--------------------------- MODULE UtilitiesProofs ---------------------------
(***************************************************************************)
(* Proofs about Utilities, for any parameters of its components: the       *)
(* export and the JAXB contexts are proved here, what RestClientProofs     *)
(* proves of the REST client is carried over.                              *)
(***************************************************************************)
EXTENDS Utilities, SequenceTheorems, FiniteSetTheorems, TLAPS

-----------------------------------------------------------------------------
(* The export, for every size of the sheets and every list of beans *)

SomeSheet == [bean : Nat, first : Nat, last : Int]

\* What is being filled: the bean in hand is one that has rows and a header as
\* soon as it has a sheet, and the beans behind have been skipped or filled.
BeanInv ==
    /\ beans \in Seq(ExcelDataBean)
    /\ b \in 1..Len(beans) + 1
    /\ i \in Nat
    /\ sheetCount \in Nat
    /\ workbook \in Seq(SomeSheet)
    /\ i > 0 => b <= Len(beans) /\ ~Skipped(beans[b]) /\ Complete(beans[b])
    /\ \A j \in 1..b - 1 : Skipped(beans[j]) \/ Complete(beans[j])

\* The count of sheets never falls behind the workbook.
PositionInv ==
    /\ Len(workbook) <= sheetCount + i
    /\ i > 0 => Len(workbook) <= sheetCount + 1

\* The sheets of a bean are apart, and those of the bean in hand hold its rows
\* up to i * SheetSize.
PageInv ==
    /\ \A k \in 1..Len(workbook) :
         /\ workbook[k].bean <= b
         /\ workbook[k].bean = b => i > 0 /\ workbook[k].last < i * SheetSize
         /\ workbook[k].last - workbook[k].first < SheetSize
    /\ \A k, l \in 1..Len(workbook) :
         k < l /\ workbook[k].bean = workbook[l].bean => workbook[k].last < workbook[l].first

CoverInv ==
    \A j \in 1..Len(beans) :
      beans[j].rows # Nil =>
        \A r \in 0..beans[j].rows - 1 :
          j < b \/ (j = b /\ r < i * SheetSize)
            => \E k \in 1..Len(workbook) : Holds(workbook[k], j, r)

FilledInv ==
    /\ BeanInv /\ PositionInv /\ PageInv /\ CoverInv
    /\ status = "written" => b > Len(beans)

\* A failed export may leave a sheet that holds nothing of its bean.
IInv == BeanInv /\ (status # "failed" => FilledInv)

-----------------------------------------------------------------------------
(* There is at least one sheet, and the sheets are as many as it takes to *)
(* hold n rows and one more.                                              *)
LEMMA SheetNumProperty ==
    ASSUME NEW n \in Nat
    PROVE  /\ SheetNum(n) \in Nat
           /\ SheetNum(n) > 0
           /\ \A p \in Nat : p >= SheetNum(n) => n < p * SheetSize
<1> DEFINE q == (n + SheetSize) \div SheetSize
<1>1. SheetSize \in Nat /\ SheetSize > 0
  BY ExportAssumption
<1>2. /\ q \in Int
      /\ q * SheetSize <= n + SheetSize
      /\ n + SheetSize < q * SheetSize + SheetSize
  BY <1>1
<1>3. q > 0
  <2> SUFFICES ASSUME q <= 0
               PROVE  FALSE
    BY <1>2
  <2>1. q * SheetSize <= 0
    BY <1>1, <1>2
  <2>. QED
    BY <1>1, <1>2, <2>1
<1>4. ASSUME NEW p \in Nat, p >= q
      PROVE  n < p * SheetSize
  <2>1. q * SheetSize <= p * SheetSize
    BY <1>1, <1>2, <1>4
  <2>. QED
    BY <1>1, <1>2, <2>1
<1>. QED
  BY <1>2, <1>3, <1>4 DEF SheetNum

(* A sheet whose position is not before the end of the workbook is appended. *)
LEMMA Appended ==
    ASSUME NEW T, workbook \in Seq(T), NEW sheet \in T, NEW position \in Nat,
           position >= Len(workbook), CreateSheet(sheet, position)
    PROVE  workbook' = Append(workbook, sheet)
<1>1. CASE position > Len(workbook)
  BY <1>1 DEF CreateSheet
<1>2. CASE position = Len(workbook)
  <2>1. workbook' = SubSeq(workbook, 1, Len(workbook)) \o <<sheet>>
                      \o SubSeq(workbook, Len(workbook) + 1, Len(workbook))
    BY <1>2 DEF CreateSheet, InsertAt
  <2>2. SubSeq(workbook, 1, Len(workbook)) = workbook
    OBVIOUS
  <2>3. SubSeq(workbook, Len(workbook) + 1, Len(workbook)) = <<>>
    OBVIOUS
  <2>4. workbook' = (workbook \o <<sheet>>) \o <<>>
    BY <2>1, <2>2, <2>3
  <2>5. workbook \o <<sheet>> = Append(workbook, sheet)
    OBVIOUS
  <2>6. Append(workbook, sheet) \o <<>> = Append(workbook, sheet)
    <3>1. Append(workbook, sheet) \in Seq(T)
      OBVIOUS
    <3>. QED
      BY <3>1, ConcatEmptySeq
  <2>. QED
    BY <2>4, <2>5, <2>6
<1>. QED
  BY <1>1, <1>2

(* What is known of a bean that is not skipped and complete. *)
LEMMA RowsOfBean ==
    ASSUME beans \in Seq(ExcelDataBean), NEW j \in 1..Len(beans)
    PROVE  /\ beans[j].rows # Nil => beans[j].rows \in Nat
           /\ Complete(beans[j]) => beans[j].rows \in Nat
           /\ Skipped(beans[j]) /\ beans[j].rows # Nil => beans[j].rows = 0
<1>1. beans[j] \in ExcelDataBean
  OBVIOUS
<1>2. beans[j].rows \in 0..MaxRows \union {Nil}
  BY <1>1 DEF ExcelDataBean
<1>. QED
  BY <1>2, ExportAssumption DEF Complete, Skipped

LEMMA SheetFields ==
    ASSUME workbook \in Seq(SomeSheet), NEW k \in 1..Len(workbook)
    PROVE  workbook[k].bean \in Nat /\ workbook[k].first \in Nat /\ workbook[k].last \in Int
<1>1. workbook[k] \in SomeSheet
  OBVIOUS
<1>. QED
  BY <1>1 DEF SomeSheet

LEMMA InitInv == Init => FilledInv
<1> SUFFICES ASSUME Init PROVE FilledInv
  OBVIOUS
<1>1. beans \in Seq(ExcelDataBean) /\ Len(beans) \in Nat
  <2>1. PICK m \in 0..MaxBeans : beans \in [1..m -> ExcelDataBean]
    BY DEF Init, BoundedSeq, SeqOf
  <2>2. m \in Nat
    BY ExportAssumption
  <2>. QED
    BY <2>1, <2>2
<1>2. /\ b = 1 /\ i = 0 /\ sheetCount = 0 /\ workbook = <<>> /\ status = "filling"
      /\ Len(workbook) = 0
  BY DEF Init
<1>3. BeanInv
  BY <1>1, <1>2 DEF BeanInv
<1>4. PositionInv /\ PageInv
  BY <1>2 DEF PositionInv, PageInv
<1>5. CoverInv
  BY <1>1, <1>2, RowsOfBean, ExportAssumption DEF CoverInv
<1>. QED
  BY <1>2, <1>3, <1>4, <1>5 DEF FilledInv

(* A round of the loop puts the next page of the bean behind the workbook. *)
LEMMA FillSheetInv ==
    ASSUME FilledInv, FillSheet
    PROVE  FilledInv' /\ IsPrefix(workbook, workbook')
<1> DEFINE n == beans[b].rows
           sheet == [bean |-> b, first |-> i * SheetSize, last |-> LastIndex(i, n)]
<1>1. /\ beans \in Seq(ExcelDataBean)
      /\ b \in 1..Len(beans)
      /\ b \in Nat
      /\ i \in Nat
      /\ sheetCount \in Nat
      /\ workbook \in Seq(SomeSheet)
  BY DEF FilledInv, BeanInv, FillSheet, Filling
<1>2. n \in Nat
  BY <1>1, RowsOfBean DEF FillSheet
<1>3. SheetSize \in Nat /\ SheetSize > 0
  BY ExportAssumption
<1>4. i * SheetSize \in Nat /\ (i + 1) * SheetSize = i * SheetSize + SheetSize
  BY <1>1, <1>3
<1>5. /\ LastIndex(i, n) \in Int
      /\ LastIndex(i, n) < (i + 1) * SheetSize
      /\ LastIndex(i, n) - i * SheetSize < SheetSize
      /\ \A r \in 0..n - 1 : r < (i + 1) * SheetSize => r <= LastIndex(i, n)
  <2> HIDE DEF n
  <2> DEFINE P == i * SheetSize
             Q == (i + 1) * SheetSize
  <2>1. P \in Nat /\ Q \in Nat /\ Q = P + SheetSize
    BY <1>3, <1>4
  <2>2. LastIndex(i, n) = IF Q - 1 > n - 1 THEN n - 1 ELSE Q - 1
    BY DEF LastIndex
  <2> HIDE DEF P, Q
  <2>3. /\ LastIndex(i, n) \in Int
        /\ LastIndex(i, n) < Q
        /\ LastIndex(i, n) - P < SheetSize
        /\ \A r \in 0..n - 1 : r < Q => r <= LastIndex(i, n)
    BY <1>2, <1>3, <2>1, <2>2
  <2>. QED
    BY <2>3 DEF P, Q
<1>6. sheet \in SomeSheet
  BY <1>1, <1>4, <1>5 DEF SomeSheet
<1>7. workbook' = Append(workbook, sheet)
  <2>1. i + sheetCount \in Nat /\ i + sheetCount >= Len(workbook)
    BY <1>1 DEF FilledInv, PositionInv
  <2>2. CreateSheet(sheet, i + sheetCount)
    BY DEF FillSheet
  <2> HIDE DEF sheet
  <2>. QED
    BY <1>1, <1>6, <2>1, <2>2, Appended
<1>8. /\ workbook' \in Seq(SomeSheet)
      /\ Len(workbook') = Len(workbook) + 1
      /\ \A k \in 1..Len(workbook) : workbook'[k] = workbook[k]
      /\ workbook'[Len(workbook) + 1] = sheet
      /\ Len(workbook) \in Nat
  <2> HIDE DEF sheet
  <2>. QED
    BY <1>1, <1>6, <1>7
<1>9. /\ i' = i + 1 /\ sheetCount' = sheetCount + i
      /\ beans' = beans /\ b' = b /\ status' = status
  BY DEF FillSheet
<1>10. BeanInv'
  BY <1>1, <1>8, <1>9 DEF FilledInv, BeanInv, FillSheet, Skipped, Complete
<1>11. PositionInv'
  BY <1>1, <1>8, <1>9 DEF FilledInv, PositionInv
<1>12. PageInv'
  <2>1. ASSUME NEW k \in 1..Len(workbook')
        PROVE  /\ workbook'[k].bean <= b
               /\ workbook'[k].bean = b =>
                    i + 1 > 0 /\ workbook'[k].last < (i + 1) * SheetSize
               /\ workbook'[k].last - workbook'[k].first < SheetSize
    <3>1. CASE k \in 1..Len(workbook)
      <4>1. k \in 1..Len(workbook)
        BY <3>1
      <4>2. workbook[k].last \in Int /\ workbook[k].first \in Nat /\ workbook[k].bean \in Nat
        BY <1>1, <4>1, SheetFields
      <4>3. /\ workbook[k].bean <= b
            /\ workbook[k].bean = b => i > 0 /\ workbook[k].last < i * SheetSize
            /\ workbook[k].last - workbook[k].first < SheetSize
        BY <3>1 DEF FilledInv, PageInv
      <4>. QED
        BY <1>1, <1>3, <1>4, <1>8, <3>1, <4>2, <4>3
    <3>2. CASE k = Len(workbook) + 1
      BY <1>1, <1>5, <1>8, <3>2
    <3>. QED
      BY <1>8, <3>1, <3>2
  <2>2. ASSUME NEW k \in 1..Len(workbook'), NEW l \in 1..Len(workbook'),
               k < l, workbook'[k].bean = workbook'[l].bean
        PROVE  workbook'[k].last < workbook'[l].first
    <3>1. k \in 1..Len(workbook) /\ workbook'[k] = workbook[k]
      BY <1>8, <2>2
    <3>2. CASE l \in 1..Len(workbook)
      BY <1>8, <2>2, <3>1, <3>2 DEF FilledInv, PageInv
    <3>3. CASE l = Len(workbook) + 1
      <4>1. workbook'[l].bean = b /\ workbook'[l].first = i * SheetSize
        BY <1>8, <3>3
      <4>2. workbook[k].last < i * SheetSize
        BY <2>2, <3>1, <4>1 DEF FilledInv, PageInv
      <4>. QED
        BY <3>1, <4>1, <4>2
    <3>. QED
      BY <1>8, <3>2, <3>3
  <2>. QED
    BY <1>9, <2>1, <2>2 DEF PageInv
<1>13. CoverInv'
  <2>1. ASSUME NEW j \in 1..Len(beans), beans[j].rows # Nil,
               NEW r \in 0..beans[j].rows - 1,
               j < b \/ (j = b /\ r < (i + 1) * SheetSize)
        PROVE  \E k \in 1..Len(workbook') : Holds(workbook'[k], j, r)
    <3>1. CASE j < b \/ (j = b /\ r < i * SheetSize)
      <4>1. PICK k \in 1..Len(workbook) : Holds(workbook[k], j, r)
        BY <2>1, <3>1 DEF FilledInv, CoverInv
      <4>2. k \in 1..Len(workbook') /\ workbook'[k] = workbook[k]
        BY <1>8
      <4>. QED
        BY <4>1, <4>2
    <3>2. CASE j = b /\ i * SheetSize <= r
      <4>1. r < (i + 1) * SheetSize /\ r \in 0..n - 1
        BY <1>1, <2>1, <3>2
      <4>2. r <= LastIndex(i, n)
        BY <1>5, <4>1
      <4>3. Holds(sheet, j, r)
        BY <3>2, <4>2 DEF Holds
      <4>4. Len(workbook) + 1 \in 1..Len(workbook')
        BY <1>8
      <4>. QED
        BY <1>8, <4>3, <4>4
    <3>. QED
      BY <1>1, <1>2, <1>4, <2>1, <3>1, <3>2
  <2>. QED
    BY <1>9, <2>1 DEF CoverInv
<1>14. IsPrefix(workbook, workbook')
  <2>1. SubSeq(workbook, 1, Len(workbook)) = SubSeq(workbook', 1, Len(workbook))
    <3> HIDE DEF sheet
    <3>. QED
      BY <1>1, <1>6, <1>7, <1>8
  <2>. QED
    BY <1>8, <2>1 DEF IsPrefix
<1>15. status' = "filling"
  BY <1>9 DEF FillSheet, Filling
<1>. QED
  BY <1>10, <1>11, <1>12, <1>13, <1>14, <1>15 DEF FilledInv

(* Behind the bean in hand there is no sheet, and no row on one. *)
LEMMA NextBeanPages ==
    ASSUME b \in Nat, PageInv, b' = b + 1, i' = 0, workbook' = workbook,
           workbook \in Seq(SomeSheet)
    PROVE  PageInv'
<1>1. \A k \in 1..Len(workbook) : workbook[k].bean \in Nat /\ workbook[k].bean <= b
  BY SheetFields DEF PageInv
<1>. QED
  BY <1>1 DEF PageInv

LEMMA NoRowYet ==
    ASSUME NEW r \in Nat
    PROVE  ~(r < 0 * SheetSize)
  BY ExportAssumption

(* The loop ends when every row of the bean is on a sheet. *)
LEMMA EndBeanInv ==
    ASSUME FilledInv, EndBean
    PROVE  FilledInv'
<1>1. /\ beans \in Seq(ExcelDataBean)
      /\ b \in 1..Len(beans)
      /\ i \in Nat
      /\ sheetCount \in Nat
      /\ workbook \in Seq(SomeSheet)
      /\ Complete(beans[b])
  BY DEF FilledInv, BeanInv, EndBean, Filling
<1>2. /\ b' = b + 1 /\ i' = 0 /\ sheetCount' = sheetCount + 1
      /\ beans' = beans /\ workbook' = workbook /\ status' = "filling"
  BY DEF EndBean, Filling
<1>3. beans[b].rows \in Nat
  BY <1>1, RowsOfBean
<1>4. i > 0 /\ beans[b].rows < i * SheetSize
  <2>1. i >= SheetNum(beans[b].rows)
    BY DEF EndBean
  <2>2. /\ SheetNum(beans[b].rows) \in Nat
        /\ SheetNum(beans[b].rows) > 0
        /\ \A p \in Nat : p >= SheetNum(beans[b].rows) => beans[b].rows < p * SheetSize
    BY <1>3, SheetNumProperty
  <2>3. i > 0
    BY <1>1, <2>1, <2>2
  <2>. QED
    BY <1>1, <2>1, <2>2, <2>3
<1>5. BeanInv'
  BY <1>1, <1>2 DEF FilledInv, BeanInv, Skipped, Complete
<1>6. PositionInv'
  BY <1>1, <1>2, <1>4 DEF FilledInv, PositionInv
<1>7. PageInv'
  BY <1>1, <1>2, NextBeanPages DEF FilledInv
<1>8. CoverInv'
  <2>1. ASSUME NEW j \in 1..Len(beans), beans[j].rows # Nil,
               NEW r \in 0..beans[j].rows - 1, j < b + 1
        PROVE  \E k \in 1..Len(workbook) : Holds(workbook[k], j, r)
    <3>1. i * SheetSize \in Nat
      BY <1>1, ExportAssumption
    <3>2. j < b \/ (j = b /\ r < i * SheetSize)
      BY <1>1, <1>3, <1>4, <2>1, <3>1
    <3>. QED
      BY <2>1, <3>2 DEF FilledInv, CoverInv
  <2>. QED
    BY <1>1, <1>2, <2>1, ExportAssumption, NoRowYet DEF CoverInv
<1>. QED
  BY <1>2, <1>5, <1>6, <1>7, <1>8 DEF FilledInv

(* A bean that is skipped has no sheet and no row. *)
LEMMA SkipBeanInv ==
    ASSUME FilledInv, SkipBean
    PROVE  FilledInv'
<1>1. /\ beans \in Seq(ExcelDataBean)
      /\ b \in 1..Len(beans)
      /\ workbook \in Seq(SomeSheet)
      /\ Skipped(beans[b])
      /\ i = 0
      /\ sheetCount \in Nat
  BY DEF FilledInv, BeanInv, SkipBean, Filling
<1>2. /\ b' = b + 1 /\ i' = 0 /\ sheetCount' = sheetCount
      /\ beans' = beans /\ workbook' = workbook /\ status' = "filling"
  BY <1>1 DEF SkipBean, Filling
<1>3. BeanInv'
  BY <1>1, <1>2 DEF FilledInv, BeanInv, Skipped, Complete
<1>4. PositionInv'
  BY <1>1, <1>2 DEF FilledInv, PositionInv
<1>5. PageInv'
  BY <1>1, <1>2, NextBeanPages DEF FilledInv
<1>6. CoverInv'
  <2>1. ASSUME NEW j \in 1..Len(beans), beans[j].rows # Nil,
               NEW r \in 0..beans[j].rows - 1, j < b + 1
        PROVE  \E k \in 1..Len(workbook) : Holds(workbook[k], j, r)
    <3>1. j # b
      BY <1>1, <2>1, RowsOfBean
    <3>2. j < b
      BY <1>1, <2>1, <3>1
    <3>. QED
      BY <2>1, <3>2 DEF FilledInv, CoverInv
  <2>. QED
    BY <1>1, <1>2, <2>1, ExportAssumption, NoRowYet DEF CoverInv
<1>. QED
  BY <1>2, <1>3, <1>4, <1>5, <1>6 DEF FilledInv

(* A step that leaves the workbook and the place in it alone. *)
LEMMA OtherStepInv ==
    ASSUME FilledInv, Refuse \/ Write \/ UNCHANGED vars
    PROVE  FilledInv'
<1>1. UNCHANGED <<beans, b, i, sheetCount, workbook>>
  BY DEF Refuse, Write, vars
<1>2. BeanInv' /\ PositionInv' /\ PageInv' /\ CoverInv'
  BY <1>1 DEF FilledInv, BeanInv, PositionInv, PageInv, CoverInv, Skipped, Complete
<1>3. status' = "written" => b > Len(beans)
  BY DEF FilledInv, Refuse, Write, vars
<1>. QED
  BY <1>1, <1>2, <1>3 DEF FilledInv

(* The sheet that a bean without a header fails on is put behind the others. *)
LEMMA FailBeanInv ==
    ASSUME FilledInv, FailBean
    PROVE  /\ BeanInv' /\ status' = "failed" /\ IsPrefix(workbook, workbook')
           /\ workbook' # workbook =>
                 /\ b \in 1..Len(beans)
                 /\ workbook' = Append(workbook, [bean |-> b, first |-> 0, last |-> -1])
<1> DEFINE sheet == [bean |-> b, first |-> 0, last |-> -1]
<1>1. /\ workbook \in Seq(SomeSheet) /\ b \in 1..Len(beans) /\ status' = "failed"
      /\ UNCHANGED <<beans, b, i, sheetCount>>
  BY DEF FilledInv, BeanInv, FailBean, Filling
<1>2. sheet \in SomeSheet
  BY <1>1 DEF SomeSheet
<1>3. CASE workbook' = workbook
  BY <1>1, <1>3 DEF FilledInv, BeanInv, Skipped, Complete, IsPrefix
<1>4. CASE workbook' # workbook
  <2>1. CreateSheet(sheet, i + sheetCount)
    BY <1>4 DEF FailBean
  <2> HIDE DEF sheet
  <2>2. i + sheetCount \in Nat /\ i + sheetCount >= Len(workbook)
    BY <1>1 DEF FilledInv, BeanInv, PositionInv
  <2>3. workbook' = Append(workbook, sheet)
    BY <1>1, <1>2, <2>1, <2>2, Appended
  <2>4. workbook' \in Seq(SomeSheet)
    BY <1>1, <1>2, <2>3
  <2>5. BeanInv'
    BY <1>1, <2>4 DEF FilledInv, BeanInv, Skipped, Complete
  <2>6. IsPrefix(workbook, workbook')
    <3>1. SubSeq(workbook, 1, Len(workbook)) = SubSeq(workbook', 1, Len(workbook))
      BY <1>1, <1>2, <2>3
    <3>2. Len(workbook) <= Len(workbook')
      BY <1>1, <1>2, <2>3
    <3>. QED
      BY <3>1, <3>2 DEF IsPrefix
  <2>. QED
    BY <1>1, <2>3, <2>5, <2>6 DEF sheet
<1>. QED
  BY <1>3, <1>4

(* An export that has failed stays as it is. *)
LEMMA FailedStays ==
    ASSUME status = "failed", [Next]_vars
    PROVE  UNCHANGED vars
BY DEF Next, Refuse, SkipBean, FailBean, FillSheet, EndBean, Write, Filling, vars

(* The invariant is inductive. *)
LEMMA NextInv == IInv /\ [Next]_vars => IInv'
<1> SUFFICES ASSUME IInv, [Next]_vars
             PROVE  IInv'
  OBVIOUS
<1>1. CASE status = "failed"
  BY <1>1, FailedStays DEF IInv, BeanInv, Skipped, Complete, vars
<1>2. CASE status # "failed"
  <2>1. FilledInv
    BY <1>2 DEF IInv
  <2>2. FilledInv' => IInv'
    BY DEF IInv, FilledInv
  <2>. QED
    BY <2>1, <2>2, FillSheetInv, EndBeanInv, SkipBeanInv, OtherStepInv, FailBeanInv
    DEF Next, IInv
<1>. QED
  BY <1>1, <1>2

THEOREM Invariance == Spec => []IInv
<1>1. Init => IInv
  BY InitInv DEF IInv, FilledInv
<1>. QED
  BY <1>1, NextInv, PTL DEF Spec

-----------------------------------------------------------------------------
(* The bounds of the types: a page starts before the end of the rows, or where *)
(* they end, and no bean is taken from behind the list.                        *)
LEMMA PageInBounds ==
    ASSUME NEW n \in 0..MaxRows, NEW p \in Nat, p < SheetNum(n)
    PROVE  /\ p * SheetSize \in 0..MaxRows
           /\ LastIndex(p, n) \in -1..MaxRows - 1
<1> DEFINE q == (n + SheetSize) \div SheetSize
<1>1. SheetSize \in Nat /\ SheetSize > 0 /\ MaxRows \in Nat /\ n \in Nat /\ n <= MaxRows
  BY ExportAssumption
<1>2. q \in Int /\ q * SheetSize <= n + SheetSize
  BY <1>1
<1>3. p + 1 <= q
  BY <1>2 DEF SheetNum
<1>4. (p + 1) * SheetSize <= q * SheetSize
  BY <1>1, <1>2, <1>3
<1>5. (p + 1) * SheetSize = p * SheetSize + SheetSize /\ p * SheetSize \in Nat
  BY <1>1
<1>6. p * SheetSize <= n
  BY <1>1, <1>2, <1>4, <1>5
<1>. QED
  BY <1>1, <1>5, <1>6 DEF LastIndex

LEMMA BeansAreBounded ==
    ASSUME beans \in BoundedSeq(ExcelDataBean, MaxBeans)
    PROVE  Len(beans) \in Nat /\ Len(beans) <= MaxBeans
<1>1. PICK m \in 0..MaxBeans : beans \in [1..m -> ExcelDataBean]
  BY DEF BoundedSeq, SeqOf
<1>. QED
  BY <1>1, ExportAssumption

LEMMA TypeStep == IInv /\ TypeOK /\ [Next]_vars => TypeOK'
<1> SUFFICES ASSUME IInv, TypeOK, [Next]_vars
             PROVE  TypeOK'
  OBVIOUS
<1>1. beans' = beans /\ Len(beans) \in Nat /\ Len(beans) <= MaxBeans
  BY BeansAreBounded DEF TypeOK, Next, Refuse, SkipBean, FailBean, FillSheet, EndBean, Write,
       vars
<1>2. CASE FillSheet
  <2> DEFINE n == beans[b].rows
             sheet == [bean |-> b, first |-> i * SheetSize, last |-> LastIndex(i, n)]
  <2>1. b \in 1..Len(beans) /\ i \in Nat /\ i < SheetNum(n)
    BY <1>1, <1>2 DEF FillSheet, Filling, TypeOK
  <2>2. beans[b] \in ExcelDataBean /\ n # Nil
    BY <1>2, <2>1 DEF FillSheet, Complete, IInv, BeanInv
  <2>3. n \in 0..MaxRows
    BY <2>2 DEF ExcelDataBean
  <2>4. sheet \in Sheet
    <3>1. b \in 1..MaxBeans
      BY <1>1, <2>1, ExportAssumption
    <3>2. i * SheetSize \in 0..MaxRows /\ LastIndex(i, n) \in -1..MaxRows - 1
      BY <2>1, <2>3, PageInBounds
    <3>. QED
      BY <3>1, <3>2 DEF Sheet
  <2>5. CreateSheet(sheet, i + sheetCount)
    BY <1>2 DEF FillSheet
  <2>6. workbook' \in Seq(Sheet)
    <3> HIDE DEF sheet
    <3>1. i + sheetCount \in Nat /\ i + sheetCount >= Len(workbook) /\ workbook \in Seq(Sheet)
      BY <1>2 DEF FillSheet, Filling, IInv, FilledInv, PositionInv, TypeOK
    <3>2. workbook' = Append(workbook, sheet)
      BY <2>4, <2>5, <3>1, Appended
    <3>. QED
      BY <2>4, <3>1, <3>2
  <2>. QED
    BY <1>1, <1>2, <2>6 DEF FillSheet, TypeOK
<1>3. CASE SkipBean \/ EndBean
  BY <1>1, <1>3 DEF SkipBean, EndBean, Filling, TypeOK
<1>4. CASE Refuse \/ Write
  BY <1>1, <1>4 DEF Refuse, Write, TypeOK
<1>5. CASE UNCHANGED vars
  BY <1>5 DEF vars, TypeOK
<1>6. CASE FailBean
  <2>1. FilledInv
    BY <1>6 DEF FailBean, Filling, IInv
  <2>2. ASSUME b \in 1..Len(beans)
        PROVE  [bean |-> b, first |-> 0, last |-> -1] \in Sheet
    BY <1>1, <2>2, ExportAssumption DEF Sheet
  <2>3. workbook' \in Seq(Sheet)
    BY <1>6, <2>1, <2>2, FailBeanInv DEF TypeOK
  <2>. QED
    BY <1>1, <1>6, <2>3 DEF FailBean, TypeOK
<1>. QED
  BY <1>2, <1>3, <1>4, <1>5, <1>6 DEF Next

LEMMA InitType == Init => TypeOK
<1> SUFFICES ASSUME Init PROVE TypeOK
  OBVIOUS
<1>1. Len(beans) \in Nat
  BY BeansAreBounded DEF Init
<1>. QED
  BY <1>1 DEF Init, TypeOK

(* Every variable keeps its type: no sheet starts behind the last row of its *)
(* bean, or ends behind it.                                                  *)
THEOREM TypeCorrect == Spec => []TypeOK
BY InitType, TypeStep, Invariance, PTL DEF Spec

-----------------------------------------------------------------------------
(* The position computed for a sheet is never before the end of the workbook. *)
LEMMA SheetsAppended == IInv /\ [Next]_vars => [IsPrefix(workbook, workbook')]_vars
<1> SUFFICES ASSUME IInv, [Next]_vars
             PROVE  [IsPrefix(workbook, workbook')]_vars
  OBVIOUS
<1>1. ASSUME workbook' = workbook
      PROVE  IsPrefix(workbook, workbook')
  <2>1. workbook \in Seq(SomeSheet)
    BY DEF IInv, BeanInv
  <2>. QED
    BY <1>1, <2>1 DEF IsPrefix
<1>2. CASE FillSheet \/ FailBean
  <2>1. FilledInv
    BY <1>2 DEF FillSheet, FailBean, Filling, IInv
  <2>. QED
    BY <1>2, <2>1, FillSheetInv, FailBeanInv
<1>3. CASE ~(FillSheet \/ FailBean)
  BY <1>1, <1>3 DEF Next, Refuse, SkipBean, EndBean, Write, vars
<1>. QED
  BY <1>2, <1>3

(* No sheet is put between sheets that are there, whatever the beans.         *)
THEOREM NoSheetBetween == Spec => SheetsAreAppended
BY SheetsAppended, Invariance, PTL DEF Spec, SheetsAreAppended

(* A row is on a sheet once its bean is filled, and on no other one, because  *)
(* the sheets of a bean are apart.                                            *)
LEMMA RowsOnce == IInv => EveryRowOnce
<1> SUFFICES ASSUME IInv, status = "written"
             PROVE  /\ \A j \in 1..Len(beans) : beans[j].rows # Nil =>
                         \A r \in 0..beans[j].rows - 1 :
                           \E k \in 1..Len(workbook) :
                             /\ Holds(workbook[k], j, r)
                             /\ \A l \in 1..Len(workbook) :
                                  Holds(workbook[l], j, r) => l = k
                    /\ \A k \in 1..Len(workbook) :
                         workbook[k].last - workbook[k].first < SheetSize
  BY DEF EveryRowOnce
<1>0. FilledInv
  BY DEF IInv
<1>1. /\ beans \in Seq(ExcelDataBean) /\ workbook \in Seq(SomeSheet)
      /\ b \in Nat /\ b > Len(beans)
  BY <1>0 DEF FilledInv, BeanInv
<1>2. ASSUME NEW j \in 1..Len(beans), beans[j].rows # Nil,
             NEW r \in 0..beans[j].rows - 1
      PROVE  \E k \in 1..Len(workbook) :
               /\ Holds(workbook[k], j, r)
               /\ \A l \in 1..Len(workbook) : Holds(workbook[l], j, r) => l = k
  <2>1. j < b
    BY <1>1
  <2>2. PICK k \in 1..Len(workbook) : Holds(workbook[k], j, r)
    BY <1>0, <1>2, <2>1 DEF FilledInv, CoverInv
  <2>3. ASSUME NEW l \in 1..Len(workbook), Holds(workbook[l], j, r)
        PROVE  l = k
    <3>1. r \in Int
      OBVIOUS
    <3>2. /\ workbook[k].last \in Int /\ workbook[k].first \in Nat
          /\ workbook[l].last \in Int /\ workbook[l].first \in Nat
      BY <1>1, SheetFields
    <3>3. /\ k < l => workbook[k].last < workbook[l].first
          /\ l < k => workbook[l].last < workbook[k].first
      BY <1>0, <2>2, <2>3 DEF FilledInv, PageInv, Holds
    <3>4. k \in Int /\ l \in Int
      OBVIOUS
    <3>. QED
      BY <2>2, <2>3, <3>1, <3>2, <3>3, <3>4 DEF Holds
  <2>. QED
    BY <2>2, <2>3
<1>. QED
  BY <1>0, <1>2 DEF FilledInv, PageInv

(* Each row of each bean is on exactly one sheet of a workbook that has been  *)
(* written, whatever the size of a sheet and the number of rows.              *)
THEOREM RowsAreKept == Spec => []EveryRowOnce
BY RowsOnce, Invariance, PTL

-----------------------------------------------------------------------------
(* The JAXB contexts *)

\* The numbers of the contexts built so far.
Built == {n \in Jaxb!Numbers : made[n] # Nobody}

\* The threads that may still build one.
Builders == {t \in Threads : pc[t] \in {"get", "build"}}

\* The contexts are numbered as they are built, and each call builds one at most.
CountInv ==
    /\ IsFiniteSet(Builders)
    /\ Built = 1..Cardinality(Built)
    /\ Cardinality(Built) + Cardinality(Builders) <= calls

\* The map holds contexts of their class, and none of a class that has none.
MapInv ==
    \A c \in Classes :
        jaxbContexts[c] # Nobody => c \notin Broken /\ made[jaxbContexts[c]] = c

\* What a thread knows at each place: a context that was there when the call
\* began is still there when the thread looks, so that who builds found none.
ThreadInv ==
    \A t \in Threads :
        /\ pc[t] # "idle" => clazz[t] \in Classes
        /\ pc[t] = "get" /\ atStart[t] # Nobody => jaxbContexts[clazz[t]] = atStart[t]
        /\ pc[t] = "build" => local[t] = Nobody
        /\ pc[t] \in {"build", "put"} => atStart[t] = Nobody
        /\ pc[t] = "put" =>
              clazz[t] \notin Broken /\ local[t] # Nobody /\ made[local[t]] = clazz[t]
        /\ pc[t] = "done" =>
              /\ IF clazz[t] \in Broken THEN local[t] = Nobody
                 ELSE local[t] # Nobody /\ made[local[t]] = clazz[t]
              /\ atStart[t] # Nobody => local[t] = atStart[t]

JaxbInv == Jaxb!TypeOK /\ CountInv /\ MapInv /\ ThreadInv

LEMMA JaxbConstants ==
    /\ Broken \subseteq Classes /\ MaxCalls \in Nat
    /\ Nobody \notin Classes /\ Nobody \notin Nat
    /\ Jaxb!Numbers = 1..MaxCalls
BY UtilitiesAssumption DEF Jaxb!JaxbAssumption, Jaxb!Numbers

LEMMA OneCardinality == \A S : Jaxb!Cardinality(S) = Cardinality(S)
BY DEF Cardinality, Jaxb!Cardinality, IsFiniteSet, Jaxb!IsFiniteSet

(* A set of the first numbers is finite and as large as the last of them. *)
LEMMA FirstNumbers ==
    ASSUME NEW n \in Nat
    PROVE  IsFiniteSet(1..n) /\ Cardinality(1..n) = n
BY FS_Interval

LEMMA BuiltFinite == IsFiniteSet(Built) /\ Cardinality(Built) \in Nat
<1>1. IsFiniteSet(1..MaxCalls)
  BY JaxbConstants, FirstNumbers
<1>2. Built \subseteq 1..MaxCalls
  BY JaxbConstants DEF Built
<1>. QED
  BY <1>1, <1>2, FS_Subset, FS_CardinalityType

LEMMA JaxbInitInv == Jaxb!Init => JaxbInv
<1> SUFFICES ASSUME Jaxb!Init
             PROVE  JaxbInv
  OBVIOUS
<1>1. Jaxb!TypeOK
  BY JaxbConstants DEF Jaxb!Init, Jaxb!TypeOK
<1>2. Built = {} /\ Builders = {}
  BY DEF Jaxb!Init, Built, Builders
<1>3. CountInv
  BY <1>2, FS_EmptySet DEF CountInv, Jaxb!Init
<1>4. MapInv /\ ThreadInv
  BY DEF Jaxb!Init, MapInv, ThreadInv
<1>. QED
  BY <1>1, <1>3, <1>4 DEF JaxbInv

(* A thread leaves or joins those that may build. *)
LEMMA BuildersLess ==
    ASSUME IsFiniteSet(Builders), NEW t \in Builders, Builders' = Builders \ {t}
    PROVE  IsFiniteSet(Builders') /\ Cardinality(Builders') = Cardinality(Builders) - 1
BY FS_RemoveElement

LEMMA BuildersMore ==
    ASSUME IsFiniteSet(Builders), NEW t, t \notin Builders, Builders' = Builders \union {t}
    PROVE  IsFiniteSet(Builders') /\ Cardinality(Builders') = Cardinality(Builders) + 1
BY FS_AddElement

LEMMA ConvertInv ==
    ASSUME JaxbInv, NEW t \in Threads, NEW c \in Classes, Jaxb!Convert(t, c)
    PROVE  JaxbInv'
<1> USE DEF JaxbInv
<1>1. Jaxb!TypeOK'
  BY JaxbConstants DEF Jaxb!Convert, Jaxb!TypeOK
<1>2. CountInv'
  <2>1. Built' = Built
    BY DEF Jaxb!Convert, Built, Jaxb!Numbers
  <2>2. t \notin Builders /\ Builders' = Builders \union {t}
    BY DEF Jaxb!Convert, Builders, Jaxb!TypeOK
  <2>3. calls' = calls + 1 /\ calls \in Nat
    BY JaxbConstants DEF Jaxb!Convert, Jaxb!TypeOK
  <2>4. Cardinality(Builders) \in Nat
    BY FS_CardinalityType DEF CountInv
  <2>5. IsFiniteSet(Builders') /\ Cardinality(Builders') = Cardinality(Builders) + 1
    BY <2>2, BuildersMore DEF CountInv
  <2>. QED
    BY <2>1, <2>3, <2>4, <2>5, BuiltFinite DEF CountInv
<1>3. MapInv'
  BY DEF Jaxb!Convert, MapInv
<1>4. ThreadInv'
  BY DEF Jaxb!Convert, ThreadInv, Jaxb!TypeOK
<1>. QED
  BY <1>1, <1>2, <1>3, <1>4

LEMMA GetInv ==
    ASSUME JaxbInv, NEW t \in Threads, Jaxb!Get(t)
    PROVE  JaxbInv'
<1> USE DEF JaxbInv
<1>1. Jaxb!TypeOK' /\ clazz[t] \in Classes
  BY JaxbConstants DEF Jaxb!Get, Jaxb!TypeOK, ThreadInv
<1>2. CountInv'
  <2>1. Built' = Built /\ calls' = calls
    BY DEF Jaxb!Get, Built, Jaxb!Numbers
  <2>2. t \in Builders
    BY DEF Jaxb!Get, Builders
  <2>3. CASE local'[t] = Nobody
    <3>1. Builders' = Builders
      BY <2>3 DEF Jaxb!Get, Builders, Jaxb!TypeOK
    <3>. QED
      BY <2>1, <3>1 DEF CountInv
  <2>4. CASE local'[t] # Nobody
    <3>1. Builders' = Builders \ {t}
      BY <2>4 DEF Jaxb!Get, Builders, Jaxb!TypeOK
    <3>2. Cardinality(Builders) \in Nat /\ calls \in Nat
      BY FS_CardinalityType, JaxbConstants DEF CountInv, Jaxb!TypeOK
    <3>3. IsFiniteSet(Builders') /\ Cardinality(Builders') = Cardinality(Builders) - 1
      BY <2>2, <3>1, BuildersLess DEF CountInv
    <3>. QED
      BY <2>1, <3>2, <3>3, BuiltFinite DEF CountInv
  <2>. QED
    BY <2>3, <2>4
<1>3. MapInv'
  BY DEF Jaxb!Get, MapInv
<1>4. ThreadInv'
  BY <1>1, JaxbConstants DEF Jaxb!Get, ThreadInv, MapInv, Jaxb!TypeOK
<1>. QED
  BY <1>1, <1>2, <1>3, <1>4

(* The next number is free: fewer contexts are built than calls are made. *)
LEMMA BuildInv ==
    ASSUME JaxbInv, NEW t \in Threads, Jaxb!Build(t)
    PROVE  JaxbInv'
<1> USE DEF JaxbInv
<1> DEFINE n == Cardinality(Built) + 1
<1>0. /\ made' = [made EXCEPT ![n] = clazz[t]]
      /\ local' = [local EXCEPT ![t] = n]
  <2>1. Built = {j \in Jaxb!Numbers : made[j] # Nobody}
    BY DEF Built
  <2>. QED
    BY <2>1, OneCardinality DEF Jaxb!Build
<1>1. /\ made' = [made EXCEPT ![n] = clazz[t]]
      /\ local' = [local EXCEPT ![t] = n]
      /\ pc[t] = "build" /\ clazz[t] \in Classes /\ clazz[t] \notin Broken
      /\ pc' = [pc EXCEPT ![t] = "put"]
      /\ UNCHANGED <<jaxbContexts, clazz, calls, atStart>>
  BY <1>0, Zenon DEF Jaxb!Build, ThreadInv
<1>2. t \in Builders /\ Builders' = Builders \ {t}
  BY <1>1 DEF Builders, Jaxb!TypeOK
<1>3. /\ IsFiniteSet(Builders) /\ Cardinality(Builders) \in Nat
      /\ IsFiniteSet(Builders') /\ Cardinality(Builders') = Cardinality(Builders) - 1
      /\ Cardinality(Builders') \in Nat
  BY <1>2, BuildersLess, FS_CardinalityType DEF CountInv
<1>4. n \in Jaxb!Numbers /\ n \in Nat /\ n \notin Built /\ Cardinality(Built) \in Nat
  <2>1. Cardinality(Built) \in Nat
    BY BuiltFinite
  <2>2. Cardinality(Builders) >= 1
    BY <1>3
  <2>3. n <= calls /\ calls <= MaxCalls /\ calls \in Nat
    BY <1>3, <2>1, <2>2, JaxbConstants DEF CountInv, Jaxb!TypeOK
  <2>4. n \notin 1..Cardinality(Built)
    BY <2>1
  <2>. QED
    BY <2>1, <2>3, <2>4, JaxbConstants DEF CountInv
<1>5. made[n] = Nobody
  BY <1>4 DEF Built
<1>6. Jaxb!TypeOK'
  BY <1>1, <1>4, JaxbConstants DEF Jaxb!TypeOK
<1>7. CountInv'
  <2>1. Built' = Built \union {n}
    BY <1>1, <1>4, JaxbConstants DEF Built, Jaxb!TypeOK, Jaxb!Numbers
  <2>2. Built' = 1..n
    BY <2>1, <1>4 DEF CountInv
  <2>3. Cardinality(Built') = n
    BY <2>2, <1>4, FirstNumbers
  <2>. QED
    BY <1>1, <1>3, <1>4, <2>2, <2>3, JaxbConstants DEF CountInv, Jaxb!TypeOK
<1>8. \A m \in Jaxb!Numbers : made[m] # Nobody => made'[m] = made[m]
  BY <1>1, <1>5 DEF Jaxb!TypeOK
<1>9. MapInv'
  BY <1>1, <1>8, JaxbConstants DEF MapInv, Jaxb!TypeOK
<1>10. ThreadInv'
  <2> SUFFICES ASSUME NEW u \in Threads
               PROVE  ThreadInv!(u)'
    BY DEF ThreadInv
  <2>1. CASE u = t
    BY <1>1, <1>4, <2>1, JaxbConstants DEF ThreadInv, Jaxb!TypeOK
  <2>2. CASE u # t
    <3>1. /\ pc'[u] = pc[u] /\ local'[u] = local[u] /\ clazz'[u] = clazz[u]
          /\ atStart'[u] = atStart[u] /\ jaxbContexts' = jaxbContexts
      BY <1>1, <2>2 DEF Jaxb!TypeOK
    <3>2. local[u] # Nobody => local[u] \in Jaxb!Numbers
      BY DEF Jaxb!TypeOK
    <3>3. ThreadInv!(u)
      BY DEF ThreadInv
    <3>. QED
      BY <1>8, <3>1, <3>2, <3>3, JaxbConstants
  <2>. QED
    BY <2>1, <2>2
<1>. QED
  BY <1>6, <1>7, <1>9, <1>10

LEMMA BuildFailsInv ==
    ASSUME JaxbInv, NEW t \in Threads, Jaxb!BuildFails(t)
    PROVE  JaxbInv'
<1> USE DEF JaxbInv
<1>1. Jaxb!TypeOK' /\ MapInv'
  BY DEF Jaxb!BuildFails, Jaxb!TypeOK, MapInv
<1>2. CountInv'
  <2>1. Built' = Built /\ calls' = calls
    BY DEF Jaxb!BuildFails, Built, Jaxb!Numbers
  <2>2. t \in Builders /\ Builders' = Builders \ {t}
    BY DEF Jaxb!BuildFails, Builders, Jaxb!TypeOK
  <2>3. Cardinality(Builders) \in Nat /\ calls \in Nat
    BY FS_CardinalityType, JaxbConstants DEF CountInv, Jaxb!TypeOK
  <2>4. IsFiniteSet(Builders') /\ Cardinality(Builders') = Cardinality(Builders) - 1
    BY <2>2, BuildersLess DEF CountInv
  <2>. QED
    BY <2>1, <2>3, <2>4, BuiltFinite DEF CountInv
<1>3. ThreadInv'
  BY DEF Jaxb!BuildFails, ThreadInv, Jaxb!TypeOK
<1>. QED
  BY <1>1, <1>2, <1>3

(* The map takes the first context of a class; nobody who asked earlier minds, *)
(* for who found one does not look again, and it is not replaced.              *)
LEMMA PutInv ==
    ASSUME JaxbInv, NEW t \in Threads, Jaxb!Put(t)
    PROVE  JaxbInv'
<1> USE DEF JaxbInv
<1>1. /\ clazz[t] \in Classes /\ clazz[t] \notin Broken
      /\ local[t] # Nobody /\ made[local[t]] = clazz[t] /\ atStart[t] = Nobody
  BY DEF Jaxb!Put, ThreadInv
<1>2. Jaxb!TypeOK'
  BY <1>1 DEF Jaxb!Put, Jaxb!TypeOK
<1>3. CountInv'
  <2>1. Built' = Built /\ Builders' = Builders /\ calls' = calls
    BY DEF Jaxb!Put, Built, Builders, Jaxb!Numbers, Jaxb!TypeOK
  <2>. QED
    BY <2>1 DEF CountInv
<1>4. MapInv'
  BY <1>1 DEF Jaxb!Put, MapInv, Jaxb!TypeOK
<1>5. \A c \in Classes : jaxbContexts[c] # Nobody => jaxbContexts'[c] = jaxbContexts[c]
  BY <1>1 DEF Jaxb!Put, Jaxb!TypeOK
<1>6. ThreadInv'
  <2> SUFFICES ASSUME NEW u \in Threads
               PROVE  ThreadInv!(u)'
    BY DEF ThreadInv
  <2>1. ThreadInv!(u)
    BY DEF ThreadInv
  <2>2. CASE u = t
    BY <1>1, <2>1, <2>2 DEF Jaxb!Put, Jaxb!TypeOK
  <2>3. CASE u # t
    <3>1. pc'[u] = pc[u] /\ UNCHANGED <<made, clazz, local, atStart>>
      BY <2>3 DEF Jaxb!Put, Jaxb!TypeOK
    <3>. QED
      BY <1>5, <2>1, <3>1
  <2>. QED
    BY <2>2, <2>3
<1>. QED
  BY <1>2, <1>3, <1>4, <1>6

LEMMA ReturnInv ==
    ASSUME JaxbInv, NEW t \in Threads, Jaxb!Return(t)
    PROVE  JaxbInv'
<1> USE DEF JaxbInv
<1>1. Jaxb!TypeOK' /\ MapInv'
  BY DEF Jaxb!Return, Jaxb!TypeOK, MapInv
<1>2. CountInv'
  <2>1. Built' = Built /\ Builders' = Builders /\ calls' = calls
    BY DEF Jaxb!Return, Built, Builders, Jaxb!Numbers, Jaxb!TypeOK
  <2>. QED
    BY <2>1 DEF CountInv
<1>3. ThreadInv'
  BY DEF Jaxb!Return, ThreadInv, Jaxb!TypeOK
<1>. QED
  BY <1>1, <1>2, <1>3

LEMMA JaxbNextInv == JaxbInv /\ [Jaxb!Next]_jaxb => JaxbInv'
<1> SUFFICES ASSUME JaxbInv, [Jaxb!Next]_jaxb
             PROVE  JaxbInv'
  OBVIOUS
<1>1. CASE Jaxb!Next
  BY <1>1, ConvertInv, GetInv, BuildInv, BuildFailsInv, PutInv, ReturnInv DEF Jaxb!Next
<1>2. CASE UNCHANGED jaxb
  BY <1>2 DEF jaxb, JaxbInv, Jaxb!TypeOK, CountInv, Built, Builders, MapInv, ThreadInv
<1>. QED
  BY <1>1, <1>2

LEMMA JaxbInvImplies == JaxbInv => Jaxb!TypeOK /\ ContextsAreShared
BY DEF JaxbInv, ThreadInv, ContextsAreShared, Jaxb!ContextFits, Jaxb!LateCallsShare

-----------------------------------------------------------------------------
(* The REST client *)

RP == INSTANCE RestClientProofs WITH Nil <- Nobody

LEMMA RestConstants == RP!RestAssumption
BY UtilitiesAssumption DEF RP!RestAssumption, Rest!RestAssumption, RP!Call, Rest!Call,
     RP!Outcomes, Rest!Outcomes, RP!IsFiniteSet, Rest!IsFiniteSet

(* The module that is proved about is the one that is composed here. *)
LEMMA RestIsRest ==
    /\ Rest!Init => RP!Init
    /\ [Rest!Next]_rest => [RP!Next]_(RP!vars)
<1>1. Rest!Init => RP!Init
  BY DEF Rest!Init, RP!Init, Rest!Clients, RP!Clients
<1>2. ASSUME NEW t
      PROVE  /\ Rest!Enter(t) => RP!Enter(t)
             /\ Rest!Lease(t) => RP!Lease(t)
             /\ Rest!Proceed(t) => RP!Proceed(t)
  <2> USE DEF Rest!Take, RP!Take, Rest!Fail, RP!Fail, Rest!Failure, RP!Failure,
              Rest!Release, RP!Release, Rest!Client, RP!Client, Rest!Goto, RP!Goto,
              Rest!callVars, RP!callVars
  <2>1. ASSUME NEW c
        PROVE  /\ Rest!Unformatted(t, c) => RP!Unformatted(t, c)
               /\ Rest!Unbuilt(t, c) => RP!Unbuilt(t, c)
               /\ Rest!Execute(t, c) => RP!Execute(t, c)
    BY DEF Rest!Unformatted, RP!Unformatted, Rest!Unbuilt, RP!Unbuilt,
           Rest!Execute, RP!Execute
  <2>2. Rest!Lease(t) => RP!Lease(t)
    BY DEF Rest!Lease, RP!Lease
  <2>3. /\ Rest!Send(t) => RP!Send(t)
        /\ Rest!Retry(t) => RP!Retry(t)
    BY DEF Rest!Send, RP!Send, Rest!Retry, RP!Retry, Rest!RetryAllowed, RP!RetryAllowed
  <2>4. /\ Rest!GiveUp(t) => RP!GiveUp(t)
        /\ Rest!Respond(t) => RP!Respond(t)
    BY DEF Rest!GiveUp, RP!GiveUp, Rest!Respond, RP!Respond
  <2>5. /\ Rest!ReadContent(t) => RP!ReadContent(t)
        /\ Rest!ContentFails(t) => RP!ContentFails(t)
    BY DEF Rest!ReadContent, RP!ReadContent, Rest!ContentFails, RP!ContentFails
  <2>6. /\ Rest!Return(t) => RP!Return(t)
        /\ Rest!Finally(t) => RP!Finally(t)
    BY DEF Rest!Return, RP!Return, Rest!Finally, RP!Finally
  <2>. QED
    BY <2>1, <2>2, <2>3, <2>4, <2>5, <2>6 DEF Rest!Enter, RP!Enter, Rest!Proceed, RP!Proceed
<1>3. Rest!Next => RP!Next
  BY <1>2 DEF Rest!Next, RP!Next
<1>4. UNCHANGED rest => UNCHANGED RP!vars
  BY DEF rest, RP!vars, RP!callVars
<1>. QED
  BY <1>1, <1>3, <1>4

LEMMA RestInitInv == Rest!Init => RP!IInv
BY RestConstants, RestIsRest, RP!InitIInv

LEMMA RestNextInv == RP!IInv /\ [Rest!Next]_rest => RP!IInv'
BY RestConstants, RestIsRest, RP!NextIInv

LEMMA RestInvImplies == RP!IInv => Rest!TypeOK /\ CallCleansUp
<1> SUFFICES ASSUME RP!IInv
             PROVE  Rest!TypeOK /\ CallCleansUp
  OBVIOUS
<1>1. Rest!TypeOK
  BY DEF RP!IInv, RP!TypeOK, Rest!TypeOK, RP!Outcomes, Rest!Outcomes, RP!Clients, Rest!Clients
<1>2. Rest!StreamIsClosed
  BY DEF RP!IInv, RP!StreamIsClosed, Rest!StreamIsClosed
<1>3. \A S : RP!Cardinality(S) = Rest!Cardinality(S)
  BY DEF RP!Cardinality, Rest!Cardinality
<1>4. Rest!ConnectionsComeBack
  <2>1. \A c \in Rest!Clients :
          free[c] + Rest!Cardinality({t \in Callers : leased[t] /\ Rest!Client(t) = c})
            = MaxConnections
    BY <1>3 DEF RP!IInv, RP!PoolInv, RP!Holders, RP!Clients, Rest!Clients, RP!Client, Rest!Client
  <2>2. \A t \in Callers : leased[t] => stage[t] # "idle"
    BY DEF RP!IInv, RP!StageInv
  <2>. QED
    BY <2>1, <2>2 DEF Rest!ConnectionsComeBack
<1>. QED
  BY <1>1, <1>2, <1>4 DEF CallCleansUp

LEMMA CallIsCall ==
    /\ RP!RC!Init => Rest!RC!Init
    /\ [RP!RC!Next]_(RP!RC!vars) => [Rest!RC!Next]_(Rest!RC!vars)
<1>1. RP!RC!Init => Rest!RC!Init
  BY DEF RP!RC!Init, Rest!RC!Init
<1>2. RP!RC!Next => Rest!RC!Next
  <2>1. ASSUME NEW t
        PROVE  /\ RP!RC!Start(t) => Rest!RC!Start(t)
               /\ RP!RC!Refuse(t) => Rest!RC!Refuse(t)
    BY DEF RP!RC!Start, Rest!RC!Start, RP!RC!Refuse, Rest!RC!Refuse
  <2>2. ASSUME NEW t
        PROVE  /\ RP!RC!Deliver(t) => Rest!RC!Deliver(t)
               /\ RP!RC!Return(t) => Rest!RC!Return(t)
               /\ RP!RC!Fail(t) => Rest!RC!Fail(t)
    BY DEF RP!RC!Deliver, Rest!RC!Deliver, RP!RC!Repeatable, Rest!RC!Repeatable,
           RP!RC!Return, Rest!RC!Return, RP!RC!Fail, Rest!RC!Fail,
           RP!RC!Failures, Rest!RC!Failures
  <2>. QED
    BY <2>1, <2>2 DEF RP!RC!Next, Rest!RC!Next
<1>3. UNCHANGED RP!RC!vars => UNCHANGED Rest!RC!vars
  BY DEF RP!RC!vars, Rest!RC!vars
<1>. QED
  BY <1>1, <1>2, <1>3

LEMMA RestInitCall == Rest!Init => Rest!RC!Init
BY RestIsRest, RP!InitCall, CallIsCall

LEMMA RestNextCall == RP!IInv /\ [Rest!Next]_rest => [Rest!RC!Next]_(Rest!RC!vars)
BY RestConstants, RestIsRest, RP!NextCall, CallIsCall

-----------------------------------------------------------------------------
(* The utilities together *)

LEMMA InitParts == UtilitiesInit => Init /\ Rest!Init /\ Jaxb!Init
BY DEF UtilitiesInit

(* A step of one utility leaves the others alone. *)
LEMMA NextParts ==
    [UtilitiesNext]_utilities => [Next]_vars /\ [Rest!Next]_rest /\ [Jaxb!Next]_jaxb
BY DEF UtilitiesNext, utilities

LEMMA UtilitiesInductive == UtilitiesSpec => [](IInv /\ TypeOK /\ RP!IInv /\ JaxbInv)
<1>1. UtilitiesInit => IInv /\ TypeOK /\ RP!IInv /\ JaxbInv
  BY InitParts, InitInv, InitType, RestInitInv, JaxbInitInv DEF IInv, FilledInv
<1>2. IInv /\ TypeOK /\ RP!IInv /\ JaxbInv /\ [UtilitiesNext]_utilities
        => (IInv /\ TypeOK /\ RP!IInv /\ JaxbInv)'
  BY NextParts, NextInv, TypeStep, RestNextInv, JaxbNextInv
<1>. QED
  BY <1>1, <1>2, PTL DEF UtilitiesSpec

(* The types of the three utilities, for any parameters. *)
THEOREM UtilitiesTypes == UtilitiesSpec => []UtilitiesTypeOK
<1>1. TypeOK /\ RP!IInv /\ JaxbInv => UtilitiesTypeOK
  BY RestInvImplies, JaxbInvImplies DEF UtilitiesTypeOK
<1>. QED
  BY <1>1, UtilitiesInductive, PTL

(* RestClient.execute gives back each connection and closes each stream,     *)
(* however many callers there are and however often a request is retried.    *)
THEOREM CallsCleanUp == UtilitiesSpec => []CallCleansUp
BY RestInvImplies, UtilitiesInductive, PTL

(* What execute promises a caller: a result stands for an answer, and what   *)
(* is not repeatable reaches the service once.                               *)
THEOREM CallsAreRemoteCalls == UtilitiesSpec => ImplementsRemoteCall
<1>1. UtilitiesInit => Rest!RC!Init
  BY InitParts, RestInitCall
<1>2. RP!IInv /\ [UtilitiesNext]_utilities => [Rest!RC!Next]_(Rest!RC!vars)
  BY NextParts, RestNextCall
<1>. QED
  BY <1>1, <1>2, UtilitiesInductive, PTL
  DEF UtilitiesSpec, ImplementsRemoteCall, Rest!RC!Spec

(* CommonUtil.getJaxbContext: whatever threads race for a class, a context   *)
(* is for the class it was asked for, and who calls when there is one gets   *)
(* that one.                                                                 *)
THEOREM ContextsAreTheirOwn == UtilitiesSpec => []ContextsAreShared
BY JaxbInvImplies, UtilitiesInductive, PTL

(* The rows of an exported workbook and the place of its sheets, for the     *)
(* utilities together.                                                       *)
THEOREM ExportIsWhole == UtilitiesSpec => []EveryRowOnce /\ SheetsAreAppended
<1>1. IInv => EveryRowOnce
  BY RowsOnce
<1>2. IInv /\ [UtilitiesNext]_utilities => [IsPrefix(workbook, workbook')]_vars
  BY NextParts, SheetsAppended
<1>. QED
  BY <1>1, <1>2, UtilitiesInductive, PTL DEF UtilitiesSpec, SheetsAreAppended
=============================================================================
