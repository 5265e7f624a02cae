--------------------------- MODULE MCReportFolder ---------------------------
(* Writing a report folder, a few runs at a time.                          *)
EXTENDS ReportFolder, TLC

Symmetry == Permutations(Run)
=============================================================================
