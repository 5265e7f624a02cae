----------------------------- MODULE ReportLock -----------------------------
(***************************************************************************)
(* The lock on a report folder (crates/sv-cli/src/report_lock.rs): how a   *)
(* run takes the folder (`take`), what it writes about itself while it     *)
(* holds it, and how it lets the folder go (`Held`'s drop, `let_go_of`).   *)
(*                                                                         *)
(* The lock file is a name in the folder; the operating system's lock is   *)
(* on the file behind the name, which stays lockable after the name has    *)
(* been removed.  Every file ever made under the name has a number here,   *)
(* its place in lockText, and lockFile is the number behind the name now.  *)
(* A step is one call to the file system, so that runs interleave between  *)
(* any two of them.                                                        *)
(***************************************************************************)
EXTENDS Naturals, Sequences, FiniteSets

CONSTANTS
    Run,       \* the runs of `sv` that ask for the folder, one process each
    Past,      \* a run from before this behaviour begins
    NoRun,     \* no run: a record that is absent, empty or does not read
    MaxTries,  \* how many times `take` goes round
    Lockless,  \* the runs that reach the folder by a disk that locks nothing
    Faults     \* which misfortunes may happen

Fault == {"disk", "build", "ctrl-c", "crash"}

ASSUME RunsAreDistinct == Past \notin Run /\ NoRun \notin Run /\ Past # NoRun
ASSUME TriesArePositive == MaxTries \in Nat \ {0}
ASSUME DiskAssumption == Lockless \subseteq Run
ASSUME FaultAssumption == Faults \subseteq Fault

VARIABLES
    lk,        \* where each run is in taking the folder or letting it go
    opened,    \* the file each run has open as the lock, or 0
    locked,    \* whether the run holds the operating system's lock on it
    tries,     \* the turns of `take` a run has used up
    lockFile,  \* the file the lock's name stands for, or 0 for no such name
    lockText,  \* for each file made under that name, whose record is in it
    holder,    \* whose record the holder file carries
    told,      \* the run a refused run was told holds the folder
    before     \* the run a holder was told had stopped before it finished

lockVars == <<lk, opened, locked, tries, lockFile, lockText, holder, told, before>>

handles == <<opened, locked>>
onDisk == <<lockFile, lockText, holder>>
saidVars == <<told, before>>

Writer == Run \cup {Past}

Phase == {"out", "open", "exist", "try", "same", "record", "holder", "held",
          "unguarded", "refused", "failed", "unhold", "unlink", "unlock",
          "gone", "dead"}

(* Every phase in which a run has the folder for itself: from the moment   *)
(* it knows the file it locked is the one the name stands for, to the      *)
(* moment it removes the name.                                             *)
Owning == {"record", "holder", "held", "unhold", "unlink"}

Lockable == Lockless = {}

Locked(f) == \E q \in Run : locked[q] /\ opened[q] = f

(* Nobody holds the folder at the start.  It is clean, or a run that was   *)
(* killed left its lock there, with the holder file or, from a version of  *)
(* `sv` before that file, without it.                                      *)
LockInit ==
    /\ lk = [r \in Run |-> "out"]
    /\ opened = [r \in Run |-> 0]
    /\ locked = [r \in Run |-> FALSE]
    /\ tries = [r \in Run |-> 0]
    /\ \/ lockFile = 0 /\ lockText = <<>> /\ holder = NoRun
       \/ lockFile = 1 /\ lockText = <<Past>> /\ holder \in {NoRun, Past}
    /\ told = [r \in Run |-> NoRun]
    /\ before = [r \in Run |-> NoRun]

GoTo(r, phase) == lk' = [lk EXCEPT ![r] = phase]

Ask(r) ==
    /\ lk[r] = "out"
    /\ GoTo(r, "open")
    /\ UNCHANGED <<handles, tries, onDisk, saidVars>>

(* `open`: a new file is made under the name, unless something is there.   *)
OpenNew(r) ==
    /\ lk[r] = "open"
    /\ lockFile = 0
    /\ lockText' = Append(lockText, NoRun)
    /\ lockFile' = Len(lockText')
    /\ opened' = [opened EXCEPT ![r] = lockFile']
    /\ GoTo(r, "try")
    /\ UNCHANGED <<locked, tries, holder, saidVars>>

NameExists(r) ==
    /\ lk[r] = "open"
    /\ lockFile # 0
    /\ GoTo(r, "exist")
    /\ UNCHANGED <<handles, tries, onDisk, saidVars>>

(* Something was there a moment ago.  When it still is, it is opened; when *)
(* its holder has removed it since, the run ends with an error.            *)
OpenExisting(r) ==
    /\ lk[r] = "exist"
    /\ lockFile # 0
    /\ opened' = [opened EXCEPT ![r] = lockFile]
    /\ GoTo(r, "try")
    /\ UNCHANGED <<locked, tries, onDisk, saidVars>>

NameVanished(r) ==
    /\ lk[r] = "exist"
    /\ lockFile = 0
    /\ GoTo(r, "failed")
    /\ UNCHANGED <<handles, tries, onDisk, saidVars>>

(* Mutant: a shared lock, which any number of runs get at once.            *)
TryLockShared(r) ==
    /\ lk[r] = "try"
    /\ r \notin Lockless
    /\ locked' = [locked EXCEPT ![r] = TRUE]
    /\ GoTo(r, "same")
    /\ UNCHANGED <<opened, tries, onDisk, saidVars>>

TryLock(r) ==
    /\ lk[r] = "try"
    /\ r \notin Lockless
    /\ ~Locked(opened[r])
    /\ locked' = [locked EXCEPT ![r] = TRUE]
    /\ GoTo(r, "same")
    /\ UNCHANGED <<opened, tries, onDisk, saidVars>>

(* Who is said to hold the folder: the holder file's record, or the one in *)
(* the lock file this run has open.                                        *)
Named(r) == IF holder # NoRun THEN holder ELSE lockText[opened[r]]

(* Mutants: another run's lock is waited for, or tried for again (within   *)
(* the turns there are, or without end), or is taken to be held because a  *)
(* record of it is there.                                                  *)
RefuseWaits(r) ==
    /\ lk[r] = "try"
    /\ r \notin Lockless
    /\ Locked(opened[r])
    /\ UNCHANGED lockVars

RefuseTriesAgain(r) ==
    /\ lk[r] = "try"
    /\ r \notin Lockless
    /\ Locked(opened[r])
    /\ tries' = [tries EXCEPT ![r] = @ + 1]
    /\ opened' = [opened EXCEPT ![r] = 0]
    /\ GoTo(r, IF tries[r] + 1 < MaxTries THEN "open" ELSE "failed")
    /\ UNCHANGED <<locked, onDisk, saidVars>>

RefuseWhenNamed(r) ==
    /\ lk[r] = "try"
    /\ r \notin Lockless
    /\ Locked(opened[r]) \/ holder # NoRun
    /\ told' = [told EXCEPT ![r] = Named(r)]
    /\ opened' = [opened EXCEPT ![r] = 0]
    /\ GoTo(r, "refused")
    /\ UNCHANGED <<locked, tries, onDisk, before>>

(* The operating system says another process has the lock.                 *)
Refuse(r) ==
    /\ lk[r] = "try"
    /\ r \notin Lockless
    /\ Locked(opened[r])
    /\ told' = [told EXCEPT ![r] = Named(r)]
    /\ opened' = [opened EXCEPT ![r] = 0]
    /\ GoTo(r, "refused")
    /\ UNCHANGED <<locked, tries, onDisk, before>>

(* A disk without locks, or a mount of it that does not pass them on: the  *)
(* run goes on unguarded, and closes the file.                             *)
NoLocks(r) ==
    /\ lk[r] = "try"
    /\ r \in Lockless
    /\ opened' = [opened EXCEPT ![r] = 0]
    /\ GoTo(r, "unguarded")
    /\ UNCHANGED <<locked, tries, onDisk, saidVars>>

(* Mutant: the file locked is not compared with the one under the name.    *)
SameFileUnchecked(r) ==
    /\ lk[r] = "same"
    /\ before' = [before EXCEPT ![r] = Named(r)]
    /\ GoTo(r, "record")
    /\ UNCHANGED <<handles, tries, onDisk, told>>

(* The file this run locked is still the one under the name ...            *)
SameFile(r) ==
    /\ lk[r] = "same"
    /\ lockFile = opened[r]
    /\ before' = [before EXCEPT ![r] = Named(r)]
    /\ GoTo(r, "record")
    /\ UNCHANGED <<handles, tries, onDisk, told>>

(* ... or it is not, and the run starts again, MaxTries times at most.     *)
OtherFile(r) ==
    /\ lk[r] = "same"
    /\ lockFile # opened[r]
    /\ opened' = [opened EXCEPT ![r] = 0]
    /\ locked' = [locked EXCEPT ![r] = FALSE]
    /\ tries' = [tries EXCEPT ![r] = @ + 1]
    /\ GoTo(r, IF tries[r] + 1 < MaxTries THEN "open" ELSE "failed")
    /\ UNCHANGED <<onDisk, saidVars>>

(* `put`: what a file held is gone before the new record is in it.         *)
EmptyLock(r) ==
    /\ lk[r] = "record"
    /\ lockText[opened[r]] # NoRun
    /\ lockText' = [lockText EXCEPT ![opened[r]] = NoRun]
    /\ UNCHANGED <<lk, handles, tries, lockFile, holder, saidVars>>

PutLock(r) ==
    /\ lk[r] = "record"
    /\ lockText[opened[r]] = NoRun
    /\ lockText' = [lockText EXCEPT ![opened[r]] = r]
    /\ GoTo(r, "holder")
    /\ UNCHANGED <<handles, tries, lockFile, holder, saidVars>>

EmptyHolder(r) ==
    /\ lk[r] = "holder"
    /\ holder # NoRun
    /\ holder' = NoRun
    /\ UNCHANGED <<lk, handles, tries, lockFile, lockText, saidVars>>

PutHolder(r) ==
    /\ lk[r] = "holder"
    /\ holder = NoRun
    /\ holder' = r
    /\ GoTo(r, "held")
    /\ UNCHANGED <<handles, tries, lockFile, lockText, saidVars>>

(* A record could not be written, or not brought to the disk: what was     *)
(* under it is still there, or gone, or the record is there after all (for *)
(* the lock file that is failing at "holder"); the lock is dropped with    *)
(* the error, and the files stay.                                          *)
PutFails(r) ==
    /\ "disk" \in Faults
    /\ lk[r] \in {"record", "holder"}
    /\ \/ holder' = holder
       \/ lk[r] = "holder" /\ holder = NoRun /\ holder' = r
    /\ opened' = [opened EXCEPT ![r] = 0]
    /\ locked' = [locked EXCEPT ![r] = FALSE]
    /\ GoTo(r, "failed")
    /\ UNCHANGED <<tries, lockFile, lockText, saidVars>>

(* The lock file could not be made: the disk refused, or the folder is no  *)
(* longer there (ReportFolder says when).                                  *)
OpenFails(r) ==
    /\ lk[r] = "open"
    /\ GoTo(r, "failed")
    /\ UNCHANGED <<handles, tries, onDisk, saidVars>>

(* `remove_mine`: only a run whose file the name still stands for removes  *)
(* the holder file and then the name, in that order, while still locked.   *)
LetGo(r) ==
    /\ lk[r] = "held"
    /\ GoTo(r, IF lockFile = opened[r] THEN "unhold" ELSE "unlock")
    /\ UNCHANGED <<handles, tries, onDisk, saidVars>>

(* Mutant: the holder file is left where it is.                            *)
RemoveHolderNot(r) ==
    /\ lk[r] = "unhold"
    /\ GoTo(r, "unlink")
    /\ UNCHANGED <<handles, tries, onDisk, saidVars>>

RemoveHolder(r) ==
    /\ lk[r] = "unhold"
    /\ holder' = NoRun
    /\ GoTo(r, "unlink")
    /\ UNCHANGED <<handles, tries, lockFile, lockText, saidVars>>

RemoveLock(r) ==
    /\ lk[r] = "unlink"
    /\ lockFile' = 0
    /\ GoTo(r, "unlock")
    /\ UNCHANGED <<handles, tries, lockText, holder, saidVars>>

Unlock(r) ==
    /\ lk[r] = "unlock"
    /\ opened' = [opened EXCEPT ![r] = 0]
    /\ locked' = [locked EXCEPT ![r] = FALSE]
    /\ GoTo(r, "gone")
    /\ UNCHANGED <<tries, onDisk, saidVars>>

(* The process is killed: the operating system closes its files and lets   *)
(* go of its lock; nothing on the disk changes.                            *)
Die(r) ==
    /\ "crash" \in Faults
    /\ lk[r] # "dead"
    /\ opened' = [opened EXCEPT ![r] = 0]
    /\ locked' = [locked EXCEPT ![r] = FALSE]
    /\ GoTo(r, "dead")
    /\ UNCHANGED <<tries, onDisk, saidVars>>

Take(r) ==
    \/ OpenNew(r) \/ NameExists(r) \/ OpenExisting(r) \/ NameVanished(r)
    \/ TryLock(r) \/ Refuse(r) \/ NoLocks(r) \/ SameFile(r) \/ OtherFile(r)
    \/ EmptyLock(r) \/ PutLock(r) \/ EmptyHolder(r) \/ PutHolder(r) \/ PutFails(r)

Release(r) == LetGo(r) \/ RemoveHolder(r) \/ RemoveLock(r) \/ Unlock(r)

LockStep(r) == Ask(r) \/ Take(r) \/ OpenFails(r) \/ Release(r) \/ Die(r)

LockNext == \E r \in Run : LockStep(r)

LockSpec == LockInit /\ [][LockNext]_lockVars

-----------------------------------------------------------------------------
(* What each variable may hold.                                            *)
LockTypeOK ==
    /\ lk \in [Run -> Phase]
    /\ lockText \in Seq(Writer \cup {NoRun})
    /\ lockFile \in 0..Len(lockText)
    /\ opened \in [Run -> 0..Len(lockText)]
    /\ locked \in [Run -> BOOLEAN]
    /\ tries \in [Run -> 0..MaxTries]
    /\ holder \in Writer \cup {NoRun}
    /\ told \in [Run -> Writer \cup {NoRun}]
    /\ before \in [Run -> Writer \cup {NoRun}]

(* No two runs have the folder at once, although a name can be removed and *)
(* made again while a run still has the old file locked or is about to     *)
(* lock it.  This is what `take`'s comparison of the file under the name   *)
(* with the file it locked is for.                                         *)
OneHolder ==
    \A r, q \in Run : lk[r] \in Owning /\ lk[q] \in Owning => r = q

(* While a run holds the folder, both records name it and no other run: a  *)
(* run that lets go late never removes or overwrites its successor's.      *)
HolderIsNamed ==
    \A r \in Run : lk[r] = "held" =>
        holder = r /\ lockFile = opened[r] /\ lockText[lockFile] = r

(* A run is told that an earlier one "stopped before it finished" only of  *)
(* a run that was killed or ended in an error, never of one that let the   *)
(* folder go as it should or is still at work.                             *)
NoteIsTrue ==
    \A r, q \in Run : before[r] = q => lk[q] \in {"dead", "failed"}

(* A turn of `take` is used up only because another run let the folder go  *)
(* between this one opening the lock file and locking it, as the comment   *)
(* in `take` says: a run never goes round more often than others let go.   *)
HasLetGo(q) == lk[q] \in {"unlock", "gone", "dead"}

TurnsAreOthers ==
    \A r \in Run : tries[r] <= Cardinality({q \in Run \ {r} : HasLetGo(q)})

(* A lock that a killed run left behind does not block: a run is refused   *)
(* only while another run is alive with the folder or on its way in or     *)
(* out of it, whatever files lie in the folder.                            *)
AtWork(q) == lk[q] \in Owning \cup {"same", "unlock"}

DeadRunNeverBlocks ==
    [][\A r \in Run :
         lk[r] # "refused" /\ lk'[r] = "refused" =>
             \E q \in Run \ {r} : AtWork(q)]_lockVars

(* `take` answers at once, one way or another: it never waits for the run  *)
(* that holds the folder, which may hold it for as long as it likes.       *)
LockFairness == \A r \in Run : WF_lockVars(Take(r))

LockFairSpec == LockSpec /\ LockFairness

TakeAnswers ==
    \A r \in Run :
        lk[r] = "open" ~> lk[r] \in {"held", "unguarded", "refused", "failed", "dead"}

(* The lock implements OneRunAtATime: the run that has the folder is its   *)
(* owner, and no step hands it from one run straight to another.           *)
OwnerAmong(phase) ==
    IF \E r \in Run : phase[r] \in Owning
    THEN CHOOSE r \in Run : phase[r] \in Owning
    ELSE NoRun

Owner == OwnerAmong(lk)

Turns == INSTANCE OneRunAtATime WITH owner <- Owner

ImplementsTurns == Turns!Spec
=============================================================================
