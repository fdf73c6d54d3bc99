---------------------------- MODULE ExcelExport ----------------------------
(***************************************************************************)
(* ExcelExportUtils.exportToExcel: the rows of each data bean are spread   *)
(* over as many sheets as they need, and the sheets of all beans are put   *)
(* into one workbook.                                                      *)
(***************************************************************************)
EXTENDS Integers, Sequences, SequencesExt

CONSTANTS
    SheetSize,  \* rows of data a sheet takes: 65535
    MaxRows,    \* bound on the rows of a bean
    MaxBeans,   \* bound on the number of beans
    Nil         \* Java's null

ASSUME ExportAssumption ==
    /\ SheetSize \in Nat \ {0}
    /\ MaxRows \in Nat /\ MaxBeans \in Nat
    /\ Nil \notin Nat

\* excelDataMaps may be null, and dataFieldMap null, empty or not.
ExcelDataBean ==
    [rows : 0..MaxRows \union {Nil}, header : {"null", "empty", "given"}]

\* A sheet: the bean it belongs to, and the indexes of its first and last row,
\* last being first - 1 when it has no row.
Sheet == [bean : 1..MaxBeans, first : 0..MaxRows, last : -1..MaxRows - 1]

VARIABLES
    beans,       \* the argument excelDatas
    b,           \* the bean in hand
    i,           \* the sheet of the bean in hand
    sheetCount,  \* where the sheets of the bean start, more or less
    workbook,    \* the sheets in the order of the workbook
    status       \* "filling", "written", or "failed" with an ExcelException

vars == <<beans, b, i, sheetCount, workbook, status>>

TypeOK ==
    /\ beans \in BoundedSeq(ExcelDataBean, MaxBeans)
    /\ b \in 1..Len(beans) + 1
    /\ i \in Nat
    /\ sheetCount \in Nat
    /\ workbook \in Seq(Sheet)
    /\ status \in {"filling", "written", "failed"}

Init ==
    /\ beans \in BoundedSeq(ExcelDataBean, MaxBeans)
    /\ b = 1
    /\ i = 0
    /\ sheetCount = 0
    /\ workbook = <<>>
    /\ status = "filling"

-----------------------------------------------------------------------------
\* Nothing to show: neither rows nor a header.
Skipped(bean) == bean.rows \in {0, Nil} /\ bean.header \in {"null", "empty"}

\* Math.ceil((list.size() + 1) / sheetSize)
SheetNum(n) == (n + SheetSize) \div SheetSize

\* jxl's createSheet: a position behind the last sheet means behind the last.
CreateSheet(sheet, position) ==
    workbook' = IF position > Len(workbook)
                THEN Append(workbook, sheet)
                ELSE InsertAt(workbook, position + 1, sheet)

Filling == status = "filling" /\ b <= Len(beans)

\* An empty list of beans is refused.
Refuse ==
    /\ status = "filling" /\ beans = <<>>
    /\ status' = "failed"
    /\ UNCHANGED <<beans, b, i, sheetCount, workbook>>

SkipBean ==
    /\ Filling /\ Skipped(beans[b])
    /\ b' = b + 1
    /\ UNCHANGED <<beans, i, sheetCount, workbook, status>>

Complete(bean) == bean.rows # Nil /\ bean.header # "null"

\* A null list has no size, a null header no entries: the NullPointerException
\* becomes an ExcelException. The sheet that the header is missing for has been
\* created by then, and stays in a workbook nobody writes.
FailBean ==
    /\ Filling /\ ~Skipped(beans[b]) /\ ~Complete(beans[b])
    /\ status' = "failed"
    /\ IF beans[b].rows = Nil
         THEN UNCHANGED workbook
         ELSE CreateSheet([bean |-> b, first |-> 0, last |-> -1], i + sheetCount)
    /\ UNCHANGED <<beans, b, i, sheetCount>>

\* Mutant of LastIndex: the end of the list is forgotten.
LastIndexOpen(page, n) == (page + 1) * SheetSize - 1

\* Mutant of LastIndex: the last row of the list is left out.
LastIndexShort(page, n) ==
    IF (page + 1) * SheetSize - 1 > n - 1 THEN n - 2 ELSE (page + 1) * SheetSize - 1

LastIndex(page, n) ==
    IF (page + 1) * SheetSize - 1 > n - 1 THEN n - 1 ELSE (page + 1) * SheetSize - 1

\* One round of fillAllSheet's loop.
FillSheet ==
    /\ Filling /\ ~Skipped(beans[b]) /\ Complete(beans[b])
    /\ i < SheetNum(beans[b].rows)
    /\ CreateSheet([bean |-> b, first |-> i * SheetSize, last |-> LastIndex(i, beans[b].rows)],
                   i + sheetCount)
    /\ sheetCount' = sheetCount + i
    /\ i' = i + 1
    /\ UNCHANGED <<beans, b, status>>

\* Mutant of EndBean: the next bean starts where this one did.
EndBeanUncounted ==
    /\ Filling /\ ~Skipped(beans[b]) /\ Complete(beans[b])
    /\ i >= SheetNum(beans[b].rows)
    /\ b' = b + 1
    /\ i' = 0
    /\ UNCHANGED <<beans, sheetCount, workbook, status>>

EndBean ==
    /\ Filling /\ ~Skipped(beans[b]) /\ Complete(beans[b])
    /\ i >= SheetNum(beans[b].rows)
    /\ sheetCount' = sheetCount + 1
    /\ b' = b + 1
    /\ i' = 0
    /\ UNCHANGED <<beans, workbook, status>>

\* The workbook is written to the stream, or that fails.
Write ==
    /\ status = "filling" /\ beans # <<>> /\ b > Len(beans)
    /\ status' \in {"written", "failed"}
    /\ UNCHANGED <<beans, b, i, sheetCount, workbook>>

Next == Refuse \/ SkipBean \/ FailBean \/ FillSheet \/ EndBean \/ Write

Spec == Init /\ [][Next]_vars

-----------------------------------------------------------------------------
(* Properties *)

\* The position computed for a new sheet is always behind the sheets that are
\* there, though the count of sheets is not kept exactly: no sheet is put
\* between the sheets of an earlier bean.
SheetsAreAppended ==
    [][IsPrefix(workbook, workbook')]_vars

\* A workbook that has been written holds each row of each bean on exactly one
\* sheet, and no sheet holds more rows than Excel takes.
Holds(sheet, j, r) == sheet.bean = j /\ sheet.first <= r /\ r <= sheet.last

EveryRowOnce ==
    status = "written" =>
      /\ \A j \in 1..Len(beans) : beans[j].rows # Nil =>
           \A r \in 0..beans[j].rows - 1 :
             \E k \in 1..Len(workbook) :
               /\ Holds(workbook[k], j, r)
               /\ \A l \in 1..Len(workbook) : Holds(workbook[l], j, r) => l = k
      /\ \A k \in 1..Len(workbook) :
           workbook[k].last - workbook[k].first < SheetSize

\* A bean needs a further sheet only when its rows do not fit: as the comment
\* says, a sheet takes 65535 rows besides the header, so no sheet of a bean
\* that has rows is without rows, unless the export failed on it.
NoSheetWithoutRows ==
    status # "failed" => \A k \in 1..Len(workbook) :
      beans[workbook[k].bean].rows > 0 => workbook[k].first <= workbook[k].last
=============================================================================
