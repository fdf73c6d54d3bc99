--------------------------- MODULE MCExcelExport ---------------------------
(* Small instances of ExcelExport for TLC. *)
EXTENDS ExcelExport
=============================================================================
