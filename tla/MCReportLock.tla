---------------------------- MODULE MCReportLock ----------------------------
(* The report folder's lock among a few runs.                              *)
EXTENDS ReportLock, TLC

Symmetry == Permutations(Run)
=============================================================================
