----------------------------- MODULE MCIngestion -----------------------------
(***************************************************************************)
(* Ingestion for TLC: two PDFs, or a PDF and a legacy Word document.       *)
(***************************************************************************)
EXTENDS Ingestion

CONSTANTS d1, d2

MCFileType == [d \in Docs |-> IF d = d1 THEN "pdf" ELSE "docx"]
=============================================================================
