--------------------------- MODULE OneRunAtATime ----------------------------
(***************************************************************************)
(* What the lock promises, without saying how: the folder belongs to one   *)
(* run at a time, a run gets it only when nobody has it, and a run that    *)
(* lets it go, or is killed, leaves it free for the next.                  *)
(***************************************************************************)
CONSTANTS Run, NoRun

VARIABLE owner

Init == owner = NoRun

TakeFolder(r) == owner = NoRun /\ owner' = r

LeaveFolder(r) == owner = r /\ owner' = NoRun

Next == \E r \in Run : TakeFolder(r) \/ LeaveFolder(r)

Spec == Init /\ [][Next]_owner
=============================================================================
