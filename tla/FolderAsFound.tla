---------------------------- MODULE FolderAsFound ---------------------------
(***************************************************************************)
(* ReportFolder with a history variable: the folder as the first run found *)
(* it, to say what a run that fails leaves behind.                         *)
(***************************************************************************)
EXTENDS ReportFolder

VARIABLE found

Folder == [dir |-> dir, marker |-> marker, files |-> files]

FoundInit == Init /\ found = Folder

FoundNext == Next /\ UNCHANGED found

FoundSpec == FoundInit /\ [][FoundNext]_<<vars, found>>

FoundFairSpec == FoundSpec /\ Fairness

(* "A run that ends without writing its report leaves the folder as it     *)
(* found it" (lib.rs:1694): the folder, its marker and every report file.  *)
(* Said of the first run to come, for once another has begun it may        *)
(* rightly have changed them, and not of a run that failed in the lock     *)
(* itself, whose lock file is what else is in the folder.                  *)
FailedAlone(r) ==
    /\ at[r] = "ended" /\ how[r] # "written" /\ lk[r] # "failed"
    /\ \A q \in Run \ {r} : at[q] = "idle"

FailedRunLeavesFolder ==
    (\E r \in Run : FailedAlone(r)) =>
        dir = found.dir /\ marker = found.marker /\ files = found.files
=============================================================================
