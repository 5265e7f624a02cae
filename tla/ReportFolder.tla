---------------------------- MODULE ReportFolder ----------------------------
(***************************************************************************)
(* Writing a report folder: `claim_report_folder`, `write_report` and      *)
(* `seal_report_folder` (crates/sv-cli/src/lib.rs) in the one order        *)
(* `write_report_folder` (report_folder.rs) keeps, with the lock of        *)
(* ReportLock underneath and what a run that ends early takes away again   *)
(* (`Undo` in report_lock.rs).                                             *)
(*                                                                         *)
(* A report file is the run that wrote it; a seal is the run whose files   *)
(* it is over.  The report files are numbered in the order they are        *)
(* written, and RecordFile is report.json, which says when its run         *)
(* started.  The marker's old name (ADR-062), links and names that differ  *)
(* in capitals are left out: nothing here is told apart by them.           *)
(***************************************************************************)
EXTENDS ReportLock

CONSTANTS
    NumFiles,    \* how many report files there are
    RecordFile,  \* the one that carries the run's record
    Skew,        \* how far ahead of the clock a start is still believed
    Horizon      \* a start in the future, beyond what is believed

ASSUME FilesAssumption == NumFiles \in Nat \ {0} /\ RecordFile \in 1..NumFiles
ASSUME SkewAssumption == Skew \in Nat /\ Horizon \in Nat

VARIABLES
    at,       \* where each run is in writing the folder
    how,      \* how the run is ending, once it is
    made,     \* whether the run made the folder
    undo,     \* what the run takes away if it ends without a report
    next,     \* the report file the run writes next
    started,  \* when the run that wrote a report started
    clock,    \* this computer's clock
    dir,      \* whether the folder exists
    others,   \* whether it holds files `sv` did not write
    marker,   \* sv's marker in it, and whose seal the marker carries
    files,    \* each report file, as the run that wrote it
    staging   \* the runs with a part-written file in the folder

runVars == <<at, how, made, undo, next>>
timeVars == <<started, clock>>
folderVars == <<dir, others, marker, files, staging>>
vars == <<lockVars, runVars, timeVars, folderVars>>

File == 1..NumFiles

NoMarker == [kind |-> "none", by |-> NoRun]
Plain == [kind |-> "plain", by |-> NoRun]
Sealed(w) == [kind |-> "sealed", by |-> w]

Nothing == [marker |-> FALSE, folder |-> FALSE]

At(r, place) == at' = [at EXCEPT ![r] = place]

End(r, outcome) == how' = [how EXCEPT ![r] = outcome]

(* The seal is over the bytes of every file; it holds for them alone.      *)
SealHolds == marker.kind = "sealed" /\ \A f \in File : files[f] = marker.by

(* refuse_someone_elses_folder: beside files of somebody else's, only where *)
(* the seal shows that `sv` wrote the report there.                        *)
Accepted == others => SealHolds

Empty ==
    /\ ~others
    /\ marker = NoMarker
    /\ \A f \in File : files[f] = NoRun
    /\ staging = {}
    /\ lockFile = 0
    /\ holder = NoRun

(* The report an earlier run left: all of it, or what a run stopped while   *)
(* writing got to.                                                         *)
PastFiles(k) == [f \in File |-> IF f <= k THEN Past ELSE NoRun]

(* The folder is not there yet; or it is, with what of a report there may  *)
(* be, a killed run's lock or none, and somebody else's files or none.     *)
FolderInit ==
    /\ at = [r \in Run |-> "idle"]
    /\ how = [r \in Run |-> "going"]
    /\ made = [r \in Run |-> FALSE]
    /\ undo = [r \in Run |-> Nothing]
    /\ next = [r \in Run |-> 1]
    /\ clock = 0
    /\ \E s \in {0, Skew, Horizon} : started = [w \in Writer |-> IF w = Past THEN s ELSE 0]
    /\ dir \in BOOLEAN
    /\ others \in BOOLEAN
    /\ marker \in {NoMarker, Plain, Sealed(Past)}
    /\ \E k \in 0..NumFiles : files = PastFiles(k)
    /\ staging = {}
    /\ marker.kind = "sealed" => SealHolds
    /\ ~dir => Empty

Init == LockInit /\ FolderInit

-----------------------------------------------------------------------------
(* claim_report_folder                                                     *)

Begin(r) ==
    /\ at[r] = "idle"
    /\ made' = [made EXCEPT ![r] = ~dir]
    /\ At(r, "make")
    /\ UNCHANGED <<lockVars, how, undo, next, timeVars, folderVars>>

(* The folder is made if it is not there, and looked at.                   *)
MakeFolder(r) ==
    /\ at[r] = "make"
    /\ Accepted
    /\ dir' = TRUE
    /\ At(r, "take")
    /\ Ask(r)
    /\ UNCHANGED <<how, made, undo, next, timeVars, others, marker, files, staging>>

RefuseFolder(r) ==
    /\ at[r] = "make"
    /\ ~Accepted
    /\ End(r, "refused")
    /\ At(r, "ended")
    /\ UNCHANGED <<lockVars, made, undo, next, timeVars, folderVars>>

TakeLock(r) ==
    /\ at[r] = "take"
    /\ \/ Take(r) /\ (lk[r] = "open" => dir)
       \/ OpenFails(r) /\ (dir => "disk" \in Faults)
    /\ UNCHANGED <<runVars, timeVars, folderVars>>

(* Mutant: only a refusal ends the claim, not an error.                    *)
ClaimFailsIfRefused(r) ==
    /\ at[r] = "take"
    /\ lk[r] = "refused"
    /\ dir' = (dir /\ ~(made[r] /\ Empty))
    /\ End(r, "refused")
    /\ At(r, "ended")
    /\ UNCHANGED <<lockVars, made, undo, next, timeVars, others, marker, files, staging>>

(* The folder was not to be had: it goes again if this run made it and it  *)
(* is empty.                                                               *)
ClaimFails(r) ==
    /\ at[r] = "take"
    /\ lk[r] \in {"refused", "failed"}
    /\ dir' = (dir /\ ~(made[r] /\ Empty))
    /\ End(r, IF lk[r] = "refused" THEN "refused" ELSE "failed")
    /\ At(r, "ended")
    /\ UNCHANGED <<lockVars, made, undo, next, timeVars, others, marker, files, staging>>

(* Mutant: a marker the run itself writes is not to be undone.             *)
RegisterFolderOnly(r) ==
    /\ at[r] = "take"
    /\ lk[r] \in {"held", "unguarded"}
    /\ undo' = [undo EXCEPT ![r] = [marker |-> FALSE, folder |-> made[r]]]
    /\ At(r, "clean")
    /\ UNCHANGED <<lockVars, how, made, next, timeVars, folderVars>>

(* What to undo is settled before the marker is written.                   *)
Register(r) ==
    /\ at[r] = "take"
    /\ lk[r] \in {"held", "unguarded"}
    /\ undo' = [undo EXCEPT ![r] = [marker |-> marker = NoMarker, folder |-> made[r]]]
    /\ At(r, "clean")
    /\ UNCHANGED <<lockVars, how, made, next, timeVars, folderVars>>

(* Part-written files go, whichever run they are of.                       *)
Clean(r) ==
    /\ at[r] = "clean"
    /\ staging' = {}
    /\ At(r, "mark")
    /\ UNCHANGED <<lockVars, how, made, undo, next, timeVars, dir, others, marker, files>>

(* Mutant: the marker is left for write_report to write.                   *)
AlreadyMarkedOrNot(r) ==
    /\ at[r] = "mark"
    /\ At(r, "begin")
    /\ UNCHANGED <<lockVars, how, made, undo, next, timeVars, folderVars>>

AlreadyMarked(r) ==
    /\ at[r] = "mark"
    /\ marker # NoMarker
    /\ At(r, "begin")
    /\ UNCHANGED <<lockVars, how, made, undo, next, timeVars, folderVars>>

-----------------------------------------------------------------------------
(* write_without_following: a new file under a name of the run's own, then *)
(* renamed into place.  What is to be put in place is in the action that   *)
(* does the renaming.                                                      *)

Writing == [mark |-> "marking", remark |-> "remarking",
            write |-> "writing", seal |-> "sealing"]

Stage(r) ==
    /\ at[r] \in DOMAIN Writing
    /\ at[r] = "mark" => marker = NoMarker
    /\ dir
    /\ staging' = staging \cup {r}
    /\ At(r, Writing[at[r]])
    /\ UNCHANGED <<lockVars, how, made, undo, next, timeVars, dir, others, marker, files>>

PutInPlace(r, from, to) ==
    /\ at[r] = from
    /\ r \in staging
    /\ staging' = staging \ {r}
    /\ At(r, to)

(* The run ends without its report; whoever wrote part of a file removes it. *)
Fail(r) ==
    /\ staging' = staging \ {r}
    /\ End(r, "failed")
    /\ At(r, "letgo")
    /\ UNCHANGED <<lockVars, made, undo, next, timeVars, dir, others, marker, files>>

(* The disk refuses a file, or another run has removed the part-written one. *)
WriteFails(r) ==
    /\ at[r] \in {"mark", "marking", "remark", "remarking", "write", "writing"}
    /\ \/ "disk" \in Faults
       \/ at[r] \in {"marking", "remarking", "writing"} /\ r \notin staging
    /\ Fail(r)

Mark(r) ==
    /\ PutInPlace(r, "marking", "begin")
    /\ marker' = Plain
    /\ UNCHANGED <<lockVars, how, made, undo, next, timeVars, dir, others, files>>

-----------------------------------------------------------------------------
(* write_report_folder: the report is built, which takes minutes and may   *)
(* fail, or be stopped with Ctrl-C once the app or a tool has run.         *)

(* The clock may not have moved, in its milliseconds, since another start. *)
BeginBuild(r) ==
    /\ at[r] = "begin"
    /\ clock' \in {clock, clock + 1}
    /\ started' = [started EXCEPT ![r] = clock']
    /\ At(r, "build")
    /\ UNCHANGED <<lockVars, how, made, undo, next, folderVars>>

Built(r) ==
    /\ at[r] = "build"
    /\ At(r, "older")
    /\ UNCHANGED <<lockVars, how, made, undo, next, timeVars, folderVars>>

BuildFails(r) ==
    /\ "build" \in Faults
    /\ at[r] = "build"
    /\ Fail(r)

(* let_go_of_all, and the process exits: its lock goes last.               *)
Interrupted(r) ==
    /\ "ctrl-c" \in Faults
    /\ at[r] = "build"
    /\ End(r, "stopped")
    /\ At(r, "letgo")
    /\ UNCHANGED <<lockVars, made, undo, next, timeVars, folderVars>>

(* Mutant: the skew is allowed for the wrong clock.                        *)
NewerBySkew(r) ==
    LET there == files[RecordFile]
    IN  /\ there # NoRun
        /\ started[there] > started[r] + Skew
        /\ started[there] <= clock + Skew

(* refuse_older_than: report.json there is of a run that started later,    *)
(* unless that is later than any run can have started.                     *)
Newer(r) ==
    LET there == files[RecordFile]
    IN  /\ there # NoRun
        /\ started[there] > started[r]
        /\ started[there] <= clock + Skew

KeepsNewer(r) ==
    /\ at[r] = "older"
    /\ Newer(r)
    /\ Fail(r)

(* write_report looks at the folder again before it writes.                *)
NotAccepted(r) ==
    /\ at[r] = "older"
    /\ ~Newer(r)
    /\ ~Accepted
    /\ Fail(r)

(* Mutant: the marker keeps the old seal while the files are replaced.     *)
MayWriteUnderOldSeal(r) ==
    /\ at[r] = "older"
    /\ ~Newer(r)
    /\ Accepted
    /\ dir' = TRUE
    /\ At(r, "write")
    /\ UNCHANGED <<lockVars, how, made, undo, next, timeVars, others, marker, files, staging>>

MayWrite(r) ==
    /\ at[r] = "older"
    /\ ~Newer(r)
    /\ Accepted
    /\ dir' = TRUE
    /\ At(r, "remark")
    /\ UNCHANGED <<lockVars, how, made, undo, next, timeVars, others, marker, files, staging>>

-----------------------------------------------------------------------------
(* write_report: the marker first, without a seal, then every file.        *)

Remark(r) ==
    /\ PutInPlace(r, "remarking", "write")
    /\ marker' = Plain
    /\ UNCHANGED <<lockVars, how, made, undo, next, timeVars, dir, others, files>>

WriteFile(r) ==
    /\ PutInPlace(r, "writing", IF next[r] = NumFiles THEN "seal" ELSE "write")
    /\ files' = [files EXCEPT ![next[r]] = r]
    /\ next' = [next EXCEPT ![r] = IF @ = NumFiles THEN @ ELSE @ + 1]
    /\ UNCHANGED <<lockVars, how, made, undo, timeVars, dir, others, marker>>

(* seal_in: the marker again, now with the seal.                           *)
Seal(r) ==
    /\ PutInPlace(r, "sealing", "wrote")
    /\ marker' = Sealed(r)
    /\ UNCHANGED <<lockVars, how, made, undo, next, timeVars, dir, others, files>>

(* No key, or the marker could not be written: the report stands unsealed. *)
SealFails(r) ==
    /\ at[r] \in {"seal", "sealing"}
    /\ "disk" \in Faults \/ (at[r] = "sealing" /\ r \notin staging)
    /\ staging' = staging \ {r}
    /\ At(r, "wrote")
    /\ UNCHANGED <<lockVars, how, made, undo, next, timeVars, dir, others, marker, files>>

Written(r) ==
    /\ at[r] = "wrote"
    /\ undo' = [undo EXCEPT ![r] = Nothing]
    /\ End(r, "written")
    /\ At(r, "letgo")
    /\ UNCHANGED <<lockVars, made, next, timeVars, folderVars>>

-----------------------------------------------------------------------------
(* Letting go: the lock's files, the lock, and then what is to be undone.  *)
(* A run that exits keeps the operating system's lock to the end.          *)

(* Mutant: the process exits without letting go of its lock's files.       *)
LetFolderGoByExit(r) ==
    /\ at[r] = "letgo"
    /\ opened' = [opened EXCEPT ![r] = 0]
    /\ locked' = [locked EXCEPT ![r] = FALSE]
    /\ GoTo(r, "gone")
    /\ At(r, "undomark")
    /\ UNCHANGED <<tries, onDisk, saidVars, how, made, undo, next, timeVars, folderVars>>

LetFolderGo(r) ==
    /\ at[r] = "letgo"
    /\ \/ LetGo(r) /\ UNCHANGED at
       \/ RemoveHolder(r) /\ UNCHANGED at
       \/ RemoveLock(r) /\ UNCHANGED at
       \/ how[r] # "stopped" /\ Unlock(r) /\ At(r, "undomark")
       \/ /\ lk[r] = "unguarded" \/ (how[r] = "stopped" /\ lk[r] = "unlock")
          /\ At(r, "undomark")
          /\ UNCHANGED lockVars
    /\ UNCHANGED <<how, made, undo, next, timeVars, folderVars>>

UndoMarker(r) ==
    /\ at[r] = "undomark"
    /\ marker' = IF undo[r].marker THEN NoMarker ELSE marker
    /\ At(r, "undofolder")
    /\ UNCHANGED <<lockVars, how, made, undo, next, timeVars, dir, others, files, staging>>

UndoFolder(r) ==
    /\ at[r] = "undofolder"
    /\ dir' = (dir /\ ~(undo[r].folder /\ Empty))
    /\ At(r, "ended")
    /\ IF lk[r] = "unlock" THEN Unlock(r) ELSE UNCHANGED lockVars
    /\ UNCHANGED <<how, made, undo, next, timeVars, others, marker, files, staging>>

(* kill -9, a second Ctrl-C, a power cut.                                  *)
Crash(r) ==
    /\ at[r] \notin {"idle", "ended", "dead"}
    /\ Die(r)
    /\ End(r, "crashed")
    /\ At(r, "dead")
    /\ UNCHANGED <<made, undo, next, timeVars, folderVars>>

Claim(r) ==
    \/ MakeFolder(r) \/ RefuseFolder(r) \/ TakeLock(r) \/ ClaimFails(r)
    \/ Register(r) \/ Clean(r) \/ AlreadyMarked(r) \/ Mark(r)

Write(r) ==
    \/ Stage(r) \/ WriteFails(r)
    \/ BeginBuild(r) \/ Built(r) \/ BuildFails(r)
    \/ KeepsNewer(r) \/ NotAccepted(r) \/ MayWrite(r)
    \/ Remark(r) \/ WriteFile(r) \/ Seal(r) \/ SealFails(r) \/ Written(r)

Leave(r) == LetFolderGo(r) \/ UndoMarker(r) \/ UndoFolder(r)

(* What a run does of itself, once begun.                                  *)
Step(r) == Claim(r) \/ Write(r) \/ Leave(r)

Next == \E r \in Run : Begin(r) \/ Step(r) \/ Interrupted(r) \/ Crash(r)

Spec == Init /\ [][Next]_vars

(* The operating system goes on running every process, and everything a    *)
(* run waits for has a time limit (sv-run's TEST_LIMIT and its likes).     *)
Fairness == \A r \in Run : WF_vars(Step(r))

FairSpec == Spec /\ Fairness

-----------------------------------------------------------------------------
Place == {"idle", "make", "take", "clean", "mark", "marking", "begin", "build",
          "older", "remark", "remarking", "write", "writing", "seal", "sealing",
          "wrote", "letgo", "undomark", "undofolder", "ended", "dead"}

Outcome == {"going", "written", "refused", "failed", "stopped", "crashed"}

Marker == {NoMarker, Plain} \cup {Sealed(w) : w \in Writer}

(* What each variable may hold.                                            *)
TypeOK ==
    /\ LockTypeOK
    /\ at \in [Run -> Place]
    /\ how \in [Run -> Outcome]
    /\ made \in [Run -> BOOLEAN]
    /\ undo \in [Run -> [marker : BOOLEAN, folder : BOOLEAN]]
    /\ next \in [Run -> File]
    /\ started \in [Writer -> Nat]
    /\ clock \in Nat
    /\ dir \in BOOLEAN
    /\ others \in BOOLEAN
    /\ marker \in Marker
    /\ files \in [File -> Writer \cup {NoRun}]
    /\ staging \in SUBSET Run

(* Where a run may be while the folder is its own, and where it may write  *)
(* a report file or the seal.                                              *)
Working == {"clean", "mark", "marking", "begin", "build", "older", "remark",
            "remarking", "write", "writing", "seal", "sealing", "wrote"}

(* No run works in the folder while another does, from its claim to its    *)
(* last write, on a disk that locks.                                       *)
OneAtWork ==
    \A r, q \in Run : at[r] \in Working /\ at[q] \in Working => r = q

(* A seal is never over files of two runs: in every state, between any two *)
(* writes, whoever was stopped or killed where, a marker that carries a    *)
(* run's seal is beside that run's files and no other's.                   *)
SealedIsWhole == marker.kind = "sealed" => SealHolds

(* A report is replaced only by one of a run that started no earlier, or   *)
(* when its own start is one that no run can have.                         *)
Believed(w) == started[w] <= clock + Skew

ReplacedByNewer ==
    \A w \in Writer :
        files[RecordFile] = w /\ files'[RecordFile] # w =>
            \/ started[w] <= started[files'[RecordFile]]
            \/ ~Believed(w)

NewerKept == [][ReplacedByNewer]_vars

(* Only one thing ever takes the marker from under a run that is building  *)
(* its report: the undoing of a run that failed before it and had let the  *)
(* folder go.  No crash, no refused run, no part-written file does.        *)
UnmarkedOnlyByUndo ==
    \A r \in Run : at[r] = "build" /\ marker = NoMarker =>
        \E q \in Run \ {r} :
            /\ undo[q].marker
            /\ how[q] \in {"failed", "stopped", "crashed"}
            /\ at[q] \in {"undofolder", "ended", "dead"}

(* The folder implements ReportStore.                                      *)
Offered == IF SealHolds THEN marker.by ELSE NoRun

Store == INSTANCE ReportStore WITH owner <- Owner, offered <- Offered

ImplementsStore == Store!Spec

(* The lock inside the folder is the lock of ReportLock, whatever else its *)
(* runs do in between.                                                     *)
ImplementsLock == LockSpec

(* Every run that has begun ends, whatever the others do and wherever they *)
(* are killed.                                                             *)
EveryRunEnds ==
    \A r \in Run : at[r] # "idle" ~> at[r] \in {"ended", "dead"}
=============================================================================
