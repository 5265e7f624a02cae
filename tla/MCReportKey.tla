---------------------------- MODULE MCReportKey ----------------------------
(* Three first runs: one that may be killed, one whose disk may fail, and    *)
(* one that meets neither.                                                  *)
EXTENDS ReportKey

CONSTANTS r1, r2, r3

OneOfEach == [r \in Run |-> IF r = r1 THEN {"kill"} ELSE IF r = r2 THEN {"disk"} ELSE {}]
=============================================================================
