--------------------------- MODULE MCReportReader ---------------------------
(* A reader of the report folder beside the runs that write it.            *)
EXTENDS ReportReader, TLC

Symmetry == Permutations(Run)
=============================================================================
