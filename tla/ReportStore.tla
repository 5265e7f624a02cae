---------------------------- MODULE ReportStore -----------------------------
(***************************************************************************)
(* What a report folder promises whoever reads it.  It offers the report   *)
(* of one run, or none.  A report is offered only by the run that owns the *)
(* folder at that moment, and never in one step in place of another's: the *)
(* one before it has been withdrawn by then.                               *)
(*                                                                         *)
(* A report may be withdrawn at any time, and not only by the owner: that  *)
(* is as much as the code keeps, since a run that failed takes its marker  *)
(* away after it has let the folder go.                                    *)
(***************************************************************************)
CONSTANTS Run, Past, NoRun

VARIABLES owner, offered

storeVars == <<owner, offered>>

Init == owner = NoRun /\ offered \in {Past, NoRun}

TakeFolder(r) == owner = NoRun /\ owner' = r /\ UNCHANGED offered

LeaveFolder(r) == owner = r /\ owner' = NoRun /\ UNCHANGED offered

Withdraw == offered # NoRun /\ offered' = NoRun /\ UNCHANGED owner

Publish(r) == owner = r /\ offered = NoRun /\ offered' = r /\ UNCHANGED owner

Next == Withdraw \/ \E r \in Run : TakeFolder(r) \/ LeaveFolder(r) \/ Publish(r)

Spec == Init /\ [][Next]_storeVars
=============================================================================
