------------------------- MODULE ReportFolderProofs -------------------------
(***************************************************************************)
(* Proofs about the lock on a report folder and about writing and reading  *)
(* the folder, for any number of runs and of report files, and any bound   *)
(* on the turns of `take`.  The lock comes first: its theorems carry over  *)
(* to the folder, because every step there is a step of the lock or leaves *)
(* it alone.                                                               *)
(***************************************************************************)
EXTENDS ReportReader, FolderAsFound, FiniteSetTheorems, TLAPS

-----------------------------------------------------------------------------
(* The lock, on a disk that locks or does not.                             *)

(* What keeps the lock's promises from step to step:                       *)
(*   - a run that has locked a file has it open, and is past TryLock;      *)
(*   - two runs never have the same file locked;                           *)
(*   - the file of a run that owns the folder is the one under the name.   *)
LockedIsOpen ==
    \A r \in Run :
        /\ locked[r] => opened[r] # 0
        /\ locked[r] <=> lk[r] \in Owning \cup {"same", "unlock"}
        /\ lk[r] = "try" => opened[r] # 0

LocksDiffer ==
    \A r, q \in Run : locked[r] /\ locked[q] /\ opened[r] = opened[q] => r = q

OwnerHasName == \A r \in Run : lk[r] \in Owning => lockFile = opened[r]

TurnsLeft == \A r \in Run : lk[r] \notin {"failed", "dead"} => tries[r] < MaxTries

Inv1 == LockTypeOK /\ LockedIsOpen /\ LocksDiffer /\ OwnerHasName /\ TurnsLeft

(* Writing a record into a lock file replaces one element of lockText.     *)
LEMMA PutKeepsSeq ==
    ASSUME NEW S, NEW s \in Seq(S), NEW i \in 1..Len(s), NEW x \in S
    PROVE  LET t == [s EXCEPT ![i] = x]
           IN  t \in Seq(S) /\ Len(t) = Len(s) /\ DOMAIN t = DOMAIN s
<1> DEFINE t == [s EXCEPT ![i] = x]
<1>1. s \in [1..Len(s) -> S] /\ Len(s) \in Nat
  OBVIOUS
<1>2. t \in [1..Len(s) -> S]
  BY <1>1
<1>3. t \in Seq(S)
  BY <1>1, <1>2
<1>4. Len(t) = Len(s)
  BY <1>1, <1>2, <1>3
<1>5. QED
  BY <1>1, <1>2, <1>3, <1>4

LEMMA InitInv1 == LockInit => Inv1
<1> SUFFICES ASSUME LockInit PROVE Inv1
  OBVIOUS
<1>1. lockText \in Seq(Writer \cup {NoRun}) /\ lockFile \in 0..Len(lockText)
      /\ 0 \in 0..Len(lockText)
  <2>1. CASE lockText = <<>>
    BY <2>1 DEF LockInit
  <2>2. CASE lockText = <<Past>>
    <3>1. Past \in Writer \cup {NoRun}
      BY DEF Writer
    <3>2. <<Past>> \in Seq(Writer \cup {NoRun}) /\ Len(<<Past>>) = 1
      BY <3>1
    <3>3. QED
      BY <2>2, <3>2 DEF LockInit
  <2>3. QED
    BY <2>1, <2>2 DEF LockInit
<1>2. LockTypeOK
  BY <1>1, TriesArePositive DEF LockInit, LockTypeOK, Phase, Writer
<1>3. QED
  BY <1>2, TriesArePositive
     DEF LockInit, Inv1, LockedIsOpen, LocksDiffer, OwnerHasName, TurnsLeft, Owning

LEMMA StepInv1 == Inv1 /\ [LockNext]_lockVars => Inv1'
<1> SUFFICES ASSUME Inv1, [LockNext]_lockVars PROVE Inv1'
  OBVIOUS
<1> USE TriesArePositive, RunsAreDistinct
<1> USE DEF Inv1, LockTypeOK, LockedIsOpen, LocksDiffer, OwnerHasName, TurnsLeft,
            Phase, Owning, Writer, GoTo, handles, onDisk, saidVars
<1>1. CASE UNCHANGED lockVars
  BY <1>1 DEF lockVars
<1>2. ASSUME NEW r \in Run, Ask(r) PROVE Inv1'
  BY <1>2 DEF Ask
<1>3. ASSUME NEW r \in Run, OpenNew(r) PROVE Inv1'
  BY <1>3 DEF OpenNew
<1>4. ASSUME NEW r \in Run, NameExists(r) PROVE Inv1'
  BY <1>4 DEF NameExists
<1>5. ASSUME NEW r \in Run, OpenExisting(r) PROVE Inv1'
  BY <1>5 DEF OpenExisting
<1>6. ASSUME NEW r \in Run, NameVanished(r) PROVE Inv1'
  BY <1>6 DEF NameVanished
<1>7. ASSUME NEW r \in Run, TryLock(r) PROVE Inv1'
  BY <1>7 DEF TryLock, Locked
<1>8. ASSUME NEW r \in Run, Refuse(r) PROVE Inv1'
  BY <1>8 DEF Refuse, Named
<1>9. ASSUME NEW r \in Run, NoLocks(r) PROVE Inv1'
  BY <1>9 DEF NoLocks
<1>10. ASSUME NEW r \in Run, SameFile(r) PROVE Inv1'
  BY <1>10 DEF SameFile, Named
<1>11. ASSUME NEW r \in Run, OtherFile(r) PROVE Inv1'
  <2>0. tries[r] \in Nat /\ tries[r] < MaxTries
    BY <1>11 DEF OtherFile
  <2>1. tries' \in [Run -> 0..MaxTries]
    BY <1>11, <2>0 DEF OtherFile
  <2>2. TurnsLeft'
    <3> SUFFICES ASSUME NEW q \in Run, lk'[q] \notin {"failed", "dead"}
                 PROVE  tries'[q] < MaxTries
      OBVIOUS
    <3>1. CASE q = r
      BY <1>11, <2>0, <3>1 DEF OtherFile
    <3>2. CASE q # r
      BY <1>11, <3>2 DEF OtherFile
    <3>3. QED
      BY <3>1, <3>2
  <2>3. lk' \in [Run -> Phase] /\ opened' \in [Run -> 0..Len(lockText)]
        /\ locked' \in [Run -> BOOLEAN]
    BY <1>11 DEF OtherFile
  <2>4. LockTypeOK'
    BY <1>11, <2>1, <2>3 DEF OtherFile
  <2>5. LockedIsOpen' /\ LocksDiffer' /\ OwnerHasName'
    BY <1>11 DEF OtherFile
  <2>6. QED
    BY <2>2, <2>4, <2>5
<1>12. ASSUME NEW r \in Run, PutLock(r) PROVE Inv1'
  <2>1. lockText' \in Seq(Writer \cup {NoRun}) /\ Len(lockText') = Len(lockText)
    BY <1>12, PutKeepsSeq DEF PutLock
  <2>2. QED
    BY <1>12, <2>1 DEF PutLock
<1>13. ASSUME NEW r \in Run, PutHolder(r) PROVE Inv1'
  BY <1>13 DEF PutHolder
<1>14. ASSUME NEW r \in Run, PutFails(r) PROVE Inv1'
  BY <1>14 DEF PutFails
<1>15. ASSUME NEW r \in Run, OpenFails(r) PROVE Inv1'
  BY <1>15 DEF OpenFails
<1>16. ASSUME NEW r \in Run, LetGo(r) PROVE Inv1'
  BY <1>16 DEF LetGo
<1>17. ASSUME NEW r \in Run, RemoveHolder(r) PROVE Inv1'
  BY <1>17 DEF RemoveHolder
<1>18. ASSUME NEW r \in Run, RemoveLock(r) PROVE Inv1'
  BY <1>18 DEF RemoveLock
<1>19. ASSUME NEW r \in Run, Unlock(r) PROVE Inv1'
  BY <1>19 DEF Unlock
<1>20. ASSUME NEW r \in Run, Die(r) PROVE Inv1'
  BY <1>20 DEF Die
<1>21. ASSUME NEW r \in Run, EmptyLock(r) PROVE Inv1'
  <2>1. lockText' \in Seq(Writer \cup {NoRun}) /\ Len(lockText') = Len(lockText)
    <3>1. opened[r] \in 1..Len(lockText) /\ NoRun \in Writer \cup {NoRun}
      BY <1>21 DEF EmptyLock
    <3>2. QED
      BY <1>21, <3>1, PutKeepsSeq DEF EmptyLock
  <2>2. QED
    BY <1>21, <2>1 DEF EmptyLock
<1>22. ASSUME NEW r \in Run, EmptyHolder(r) PROVE Inv1'
  BY <1>22 DEF EmptyHolder
<1>23. QED
  BY <1>1, <1>2, <1>3, <1>4, <1>5, <1>6, <1>7, <1>8, <1>9, <1>10, <1>11, <1>12, <1>13,
     <1>14, <1>15, <1>16, <1>17, <1>18, <1>19, <1>20, <1>21, <1>22
     DEF LockNext, LockStep, Take, Release

LEMMA AlwaysInv1 == LockSpec => []Inv1
BY InitInv1, StepInv1, PTL DEF LockSpec

(* The variables keep to their types.                                      *)
THEOREM LockTyped == LockSpec => []LockTypeOK
<1>1. Inv1 => LockTypeOK
  BY DEF Inv1
<1>2. QED
  BY <1>1, AlwaysInv1, PTL

(* No two runs have the folder at once.                                    *)
THEOREM LockExcludes == LockSpec => []OneHolder
<1>1. Inv1 => OneHolder
  BY DEF Inv1, OneHolder, LockTypeOK, LockedIsOpen, LocksDiffer, OwnerHasName
<1>2. QED
  BY <1>1, AlwaysInv1, PTL

-----------------------------------------------------------------------------
(* Whose records lie in the folder.  A run's records are there from the    *)
(* moment it writes them until it removes them, and then only if it was    *)
(* killed or ended in an error: that is what the order in `remove_mine`    *)
(* (the holder file first, the name last, both while locked) is for.       *)
RecordsAreOwners ==
    \A q \in Run :
        /\ lk[q] = "held" => holder = q
        /\ lk[q] \in {"holder", "held", "unhold", "unlink"} => lockText[lockFile] = q
        /\ holder = q => lk[q] \in {"held", "unhold", "dead", "failed"}
        /\ lockFile # 0 /\ lockText[lockFile] = q =>
               lk[q] \in {"holder", "held", "unhold", "unlink", "dead", "failed"}

Inv2 == Inv1 /\ RecordsAreOwners /\ NoteIsTrue

LEMMA InitInv2 == LockInit => Inv2
BY InitInv1, RunsAreDistinct DEF LockInit, Inv2, RecordsAreOwners, NoteIsTrue

LEMMA StepInv2 == Inv2 /\ [LockNext]_lockVars => Inv2'
<1> SUFFICES ASSUME Inv2, [LockNext]_lockVars, Inv1' PROVE Inv2'
  BY StepInv1 DEF Inv2
<1> USE RunsAreDistinct
<1> USE DEF Inv2, Inv1, LockTypeOK, LockedIsOpen, LocksDiffer, OwnerHasName, RecordsAreOwners, NoteIsTrue,
            Phase, Owning, Writer, GoTo, handles, onDisk, saidVars
<1>1. CASE UNCHANGED lockVars
  BY <1>1 DEF lockVars
<1>2. ASSUME NEW r \in Run, Ask(r) PROVE Inv2'
  BY <1>2 DEF Ask
<1>3. ASSUME NEW r \in Run, OpenNew(r) PROVE Inv2'
  BY <1>3 DEF OpenNew
<1>4. ASSUME NEW r \in Run, NameExists(r) PROVE Inv2'
  BY <1>4 DEF NameExists
<1>5. ASSUME NEW r \in Run, OpenExisting(r) PROVE Inv2'
  BY <1>5 DEF OpenExisting
<1>6. ASSUME NEW r \in Run, NameVanished(r) PROVE Inv2'
  BY <1>6 DEF NameVanished
<1>7. ASSUME NEW r \in Run, TryLock(r) PROVE Inv2'
  BY <1>7 DEF TryLock, Locked
<1>8. ASSUME NEW r \in Run, Refuse(r) PROVE Inv2'
  BY <1>8 DEF Refuse, Named
<1>9. ASSUME NEW r \in Run, NoLocks(r) PROVE Inv2'
  BY <1>9 DEF NoLocks
<1>10. ASSUME NEW r \in Run, SameFile(r) PROVE Inv2'
  BY <1>10 DEF SameFile, Named
<1>11. ASSUME NEW r \in Run, OtherFile(r) PROVE Inv2'
  BY <1>11 DEF OtherFile
<1>12. ASSUME NEW r \in Run, PutLock(r) PROVE Inv2'
  BY <1>12 DEF PutLock
<1>13. ASSUME NEW r \in Run, PutHolder(r) PROVE Inv2'
  BY <1>13 DEF PutHolder
<1>14. ASSUME NEW r \in Run, PutFails(r) PROVE Inv2'
  BY <1>14 DEF PutFails
<1>15. ASSUME NEW r \in Run, OpenFails(r) PROVE Inv2'
  BY <1>15 DEF OpenFails
<1>16. ASSUME NEW r \in Run, LetGo(r) PROVE Inv2'
  BY <1>16 DEF LetGo
<1>17. ASSUME NEW r \in Run, RemoveHolder(r) PROVE Inv2'
  BY <1>17 DEF RemoveHolder
<1>18. ASSUME NEW r \in Run, RemoveLock(r) PROVE Inv2'
  BY <1>18 DEF RemoveLock
<1>19. ASSUME NEW r \in Run, Unlock(r) PROVE Inv2'
  BY <1>19 DEF Unlock
<1>20. ASSUME NEW r \in Run, Die(r) PROVE Inv2'
  BY <1>20 DEF Die
<1>21. ASSUME NEW r \in Run, EmptyLock(r) PROVE Inv2'
  BY <1>21 DEF EmptyLock
<1>22. ASSUME NEW r \in Run, EmptyHolder(r) PROVE Inv2'
  BY <1>22 DEF EmptyHolder
<1>23. QED
  BY <1>1, <1>2, <1>3, <1>4, <1>5, <1>6, <1>7, <1>8, <1>9, <1>10, <1>11, <1>12, <1>13, <1>14, <1>15, <1>16, <1>17, <1>18, <1>19, <1>20, <1>21, <1>22
     DEF LockNext, LockStep, Take, Release

LEMMA AlwaysInv2 == LockSpec => []Inv2
BY InitInv2, StepInv2, PTL DEF LockSpec

(* While a run holds the folder, both records name it.                     *)
THEOREM HolderNamed == LockSpec => []HolderIsNamed
<1>1. Inv2 => HolderIsNamed
  BY DEF Inv2, Inv1, RecordsAreOwners, HolderIsNamed, OwnerHasName, Owning
<1>2. QED
  BY <1>1, AlwaysInv2, PTL

(* Only a run that was killed or failed is said to have stopped early.     *)
THEOREM NotesTrue == LockSpec => []NoteIsTrue
<1>1. Inv2 => NoteIsTrue
  BY DEF Inv2
<1>2. QED
  BY <1>1, AlwaysInv2, PTL

-----------------------------------------------------------------------------
(* The lock implements OneRunAtATime.  The owner is the run in an Owning   *)
(* phase, if there is one: OneHolder makes it the only one.                *)
LEMMA OwnerIs ==
    ASSUME NEW f, NEW r \in Run, f[r] \in Owning,
           \A q \in Run : f[q] \in Owning => q = r
    PROVE  OwnerAmong(f) = r
BY DEF OwnerAmong

LEMMA NoOwner ==
    ASSUME NEW f, \A r \in Run : f[r] \notin Owning
    PROVE  OwnerAmong(f) = NoRun
BY DEF OwnerAmong

(* A step moves one run, and the rest stay where they are.                 *)
LEMMA OneMoves ==
    ASSUME LockTypeOK, LockNext
    PROVE  \E r \in Run : \E p \in Phase : lk' = [lk EXCEPT ![r] = p]
BY DEF LockNext, LockStep, Take, Release, Ask, OpenNew, NameExists, OpenExisting,
       NameVanished, TryLock, Refuse, NoLocks, SameFile, OtherFile, EmptyLock, PutLock,
       EmptyHolder, PutHolder, PutFails, OpenFails, LetGo, RemoveHolder, RemoveLock, Unlock, Die, GoTo, LockTypeOK, Phase

LEMMA OwnerSteps == Inv1 /\ Inv1' /\ [LockNext]_lockVars => [Turns!Next]_Owner
<1> SUFFICES ASSUME Inv1, Inv1', [LockNext]_lockVars PROVE [Turns!Next]_Owner
  OBVIOUS
<1>1. CASE UNCHANGED lockVars
  BY <1>1 DEF lockVars, Owner
<1>2. CASE LockNext
  <2>1. PICK r \in Run : \E p \in Phase : lk' = [lk EXCEPT ![r] = p]
    BY <1>2, OneMoves DEF Inv1
  <2>2. \A q \in Run \ {r} : lk'[q] = lk[q]
    BY <2>1 DEF Inv1, LockTypeOK
  <2>3. OneHolder /\ OneHolder'
    BY DEF Inv1, OneHolder, LockTypeOK, LockedIsOpen, LocksDiffer, OwnerHasName
  <2>4. CASE lk[r] \in Owning /\ lk'[r] \in Owning
    <3>1. Owner = r
      BY <2>3, <2>4, OwnerIs DEF OneHolder, Owner
    <3>2. Owner' = r
      BY <2>3, <2>4, OwnerIs DEF OneHolder, Owner
    <3>3. QED
      BY <3>1, <3>2
  <2>5. CASE lk[r] \in Owning /\ lk'[r] \notin Owning
    <3>1. \A q \in Run : lk'[q] \notin Owning
      BY <2>2, <2>3, <2>5 DEF OneHolder
    <3>2. Owner = r
      BY <2>3, <2>5, OwnerIs DEF OneHolder, Owner
    <3>4. Owner' = NoRun
      BY <3>1, NoOwner DEF Owner
    <3>3. QED
      BY <3>2, <3>4 DEF Turns!Next, Turns!LeaveFolder
  <2>6. CASE lk[r] \notin Owning /\ lk'[r] \in Owning
    <3>1. \A q \in Run : lk[q] \notin Owning
      BY <2>2, <2>3, <2>6 DEF OneHolder
    <3>2. Owner' = r
      BY <2>3, <2>6, OwnerIs DEF OneHolder, Owner
    <3>4. Owner = NoRun
      BY <3>1, NoOwner DEF Owner
    <3>3. QED
      BY <3>2, <3>4 DEF Turns!Next, Turns!TakeFolder
  <2>7. CASE lk[r] \notin Owning /\ lk'[r] \notin Owning
    <3>1. CASE \E q \in Run : lk[q] \in Owning
      <4>1. PICK q \in Run : lk[q] \in Owning
        BY <3>1
      <4>2. lk'[q] \in Owning
        BY <2>2, <2>7, <4>1
      <4>3. Owner = q
        BY <2>3, <4>1, OwnerIs DEF OneHolder, Owner
      <4>4. Owner' = q
        BY <2>3, <4>2, OwnerIs DEF OneHolder, Owner
      <4>5. QED
        BY <4>3, <4>4
    <3>2. CASE \A q \in Run : lk[q] \notin Owning
      <4>1. \A q \in Run : lk'[q] \notin Owning
        BY <2>2, <2>7, <3>2
      <4>2. Owner = NoRun /\ Owner' = NoRun
        BY <3>2, <4>1, NoOwner DEF Owner
      <4>3. QED
        BY <4>2
    <3>3. QED
      BY <3>1, <3>2
  <2>8. QED
    BY <2>4, <2>5, <2>6, <2>7
<1>3. QED
  BY <1>1, <1>2

(* The lock gives the folder to one run at a time and never hands it on.   *)
THEOREM LockImplementsTurns == LockSpec => ImplementsTurns
<1>1. LockInit => Turns!Init
  BY NoOwner DEF LockInit, Turns!Init, Owning, Owner
<1>2. QED
  BY <1>1, OwnerSteps, AlwaysInv1, PTL DEF LockSpec, ImplementsTurns, Turns!Spec
-----------------------------------------------------------------------------
(* A run is refused only by another run at work on the same file.          *)
THEOREM DeadNeverBlock == LockSpec => DeadRunNeverBlocks
<1> DEFINE Blocks ==
      \A r \in Run : lk[r] # "refused" /\ lk'[r] = "refused" =>
          \E q \in Run \ {r} : AtWork(q)
<1>1. Inv1 /\ [LockNext]_lockVars => [Blocks]_lockVars
  <2> SUFFICES ASSUME Inv1, LockNext, NEW r \in Run, lk[r] # "refused", lk'[r] = "refused"
               PROVE  \E q \in Run \ {r} : AtWork(q)
    BY DEF lockVars
  <2> USE DEF Inv1, LockTypeOK, LockedIsOpen
  <2>1. PICK s \in Run : LockStep(s)
    BY DEF LockNext
  <2>2. s = r /\ Refuse(r)
    BY <2>1 DEF LockStep, Take, Release, Ask, OpenNew, NameExists, OpenExisting,
           NameVanished, TryLock, Refuse, NoLocks, SameFile, OtherFile, EmptyLock, PutLock,
           EmptyHolder, PutHolder, PutFails, OpenFails, LetGo, RemoveHolder, RemoveLock,
           Unlock, Die, GoTo
  <2>3. PICK q \in Run : locked[q] /\ opened[q] = opened[r]
    BY <2>2 DEF Refuse, Locked
  <2>4. q # r /\ AtWork(q)
    BY <2>2, <2>3 DEF Refuse, AtWork, Owning
  <2>5. QED
    BY <2>4
<1>2. QED
  BY <1>1, AlwaysInv1, PTL DEF LockSpec, DeadRunNeverBlocks

-----------------------------------------------------------------------------
(* How often the name has been removed: the files made under it are        *)
(* numbered, and the last is gone when the name stands for none.           *)
Removed == IF lockFile = 0 THEN Len(lockText) ELSE Len(lockText) - 1

LetGone == {q \in Run : HasLetGo(q)}

(* Each removal is the doing of a run that has let go since, and a run's   *)
(* turns stay under the number of the file it has open, so that going      *)
(* round once more takes one removal more.                                 *)
NameIsNewest == lockFile \in {0, Len(lockText)}

RemovalsAreRuns ==
    /\ IsFiniteSet({q \in Run : lk[q] # "out"})
    /\ Removed <= Cardinality(LetGone)

TurnsAreRemovals ==
    \A r \in Run :
        /\ lk[r] \in {"out", "open", "exist"} => tries[r] <= Removed
        /\ lk[r] \in {"try", "same"} => tries[r] < opened[r]

Inv3 == Inv1 /\ NameIsNewest /\ RemovalsAreRuns /\ TurnsAreRemovals /\ TurnsAreOthers

(* Let go is let go: a run that has let the folder go does not come back.  *)
LEMMA LetGoStays ==
    ASSUME LockTypeOK, LockNext
    PROVE  LetGone \subseteq LetGone'
BY DEF LockNext, LockStep, Take, Release, Ask, OpenNew, NameExists, OpenExisting,
       NameVanished, TryLock, Refuse, NoLocks, SameFile, OtherFile, EmptyLock, PutLock,
       EmptyHolder, PutHolder, PutFails, OpenFails, LetGo, RemoveHolder, RemoveLock,
       Unlock, Die, GoTo, LockTypeOK, Phase, LetGone, HasLetGo

(* Only finitely many runs have asked for the folder so far.               *)
LEMMA AskedStayFinite ==
    ASSUME LockTypeOK, LockNext, IsFiniteSet({q \in Run : lk[q] # "out"})
    PROVE  IsFiniteSet({q \in Run : lk[q] # "out"})'
<1>1. PICK r \in Run : \E p \in Phase : lk' = [lk EXCEPT ![r] = p]
  BY OneMoves
<1>2. {q \in Run : lk'[q] # "out"} \subseteq {q \in Run : lk[q] # "out"} \cup {r}
  BY <1>1 DEF LockTypeOK
<1>3. IsFiniteSet({q \in Run : lk[q] # "out"} \cup {r})
  BY FS_AddElement
<1>4. QED
  BY <1>2, <1>3, FS_Subset

(* With them, every set of runs that have let go can be counted.           *)
LEMMA CountLetGone ==
    ASSUME IsFiniteSet({q \in Run : lk[q] # "out"})
    PROVE  /\ IsFiniteSet(LetGone) /\ Cardinality(LetGone) \in Nat
           /\ \A r \in Run : /\ IsFiniteSet(LetGone \ {r})
                             /\ Cardinality(LetGone \ {r}) \in Nat
                             /\ {q \in Run \ {r} : HasLetGo(q)} = LetGone \ {r}
<1>1. LetGone \subseteq {q \in Run : lk[q] # "out"}
  BY DEF LetGone, HasLetGo
<1>2. IsFiniteSet(LetGone)
  BY <1>1, FS_Subset
<1>3. ASSUME NEW r \in Run
      PROVE  /\ IsFiniteSet(LetGone \ {r})
             /\ Cardinality(LetGone \ {r}) \in Nat
             /\ {q \in Run \ {r} : HasLetGo(q)} = LetGone \ {r}
  <2>1. IsFiniteSet(LetGone \ {r})
    BY <1>2, FS_Subset
  <2>2. {q \in Run \ {r} : HasLetGo(q)} = LetGone \ {r}
    BY DEF LetGone
  <2>3. QED
    BY <2>1, <2>2, FS_CardinalityType
<1>4. QED
  BY <1>2, <1>3, FS_CardinalityType

(* A step leaves the number of removals as it is, unless it removes the    *)
(* name: then the run that does it is one more that has let go.            *)
LEMMA RemovedSteps ==
    ASSUME Inv1, NameIsNewest, LockNext
    PROVE  /\ NameIsNewest' /\ Removed \in Nat /\ Removed' \in Nat
           /\ \/ Removed' = Removed
              \/ /\ Removed' = Removed + 1
                 /\ \E r \in Run : r \notin LetGone /\ r \in LetGone'
<1> USE DEF Inv1, LockTypeOK, NameIsNewest, Removed, handles, onDisk, saidVars, GoTo
<1>1. PICK r \in Run : LockStep(r)
  BY DEF LockNext
<1>2. CASE UNCHANGED <<lockFile, lockText>>
  BY <1>2
<1>3. CASE OpenNew(r)
  <2>1. Len(lockText') = Len(lockText) + 1 /\ lockFile' = Len(lockText')
    BY <1>3 DEF OpenNew
  <2>2. lockFile = 0
    BY <1>3 DEF OpenNew
  <2>3. QED
    BY <2>1, <2>2
<1>4. CASE RemoveLock(r)
  <2>1. lockFile = opened[r] /\ opened[r] # 0
    BY <1>4 DEF RemoveLock, LockedIsOpen, OwnerHasName, Owning
  <2>2. lockFile' = 0 /\ lockText' = lockText
    BY <1>4 DEF RemoveLock
  <2>3. r \notin LetGone /\ r \in LetGone'
    BY <1>4 DEF RemoveLock, LetGone, HasLetGo
  <2>4. QED
    BY <2>1, <2>2, <2>3
<1>5. CASE EmptyLock(r) \/ PutLock(r)
  <2>1. opened[r] \in 1..Len(lockText) /\ lockFile' = lockFile
    BY <1>5 DEF EmptyLock, PutLock, LockedIsOpen, Owning
  <2>2. Len(lockText') = Len(lockText)
    BY <1>5, <2>1, PutKeepsSeq DEF EmptyLock, PutLock, Writer
  <2>3. QED
    BY <2>1, <2>2
<1>6. QED
  BY <1>1, <1>2, <1>3, <1>4, <1>5
     DEF LockStep, Take, Release, Ask, NameExists, OpenExisting, NameVanished, TryLock,
         Refuse, NoLocks, SameFile, OtherFile, EmptyHolder, PutHolder, PutFails, OpenFails,
         LetGo, RemoveHolder, Unlock, Die

LEMMA InitInv3 == LockInit => Inv3
<1> SUFFICES ASSUME LockInit PROVE Inv3
  OBVIOUS
<1>1. {q \in Run : lk[q] # "out"} = {} /\ LetGone = {}
  BY DEF LockInit, LetGone, HasLetGo
<1>2. IsFiniteSet({q \in Run : lk[q] # "out"}) /\ Cardinality(LetGone) = 0
  BY <1>1, FS_EmptySet
<1>3. Removed = 0 /\ NameIsNewest
  <2>1. CASE lockFile = 0 /\ lockText = <<>>
    BY <2>1 DEF Removed, NameIsNewest
  <2>2. CASE lockFile = 1 /\ lockText = <<Past>>
    <3>1. Len(lockText) = 1
      BY <2>2
    <3>2. QED
      BY <2>2, <3>1 DEF Removed, NameIsNewest
  <2>3. QED
    BY <2>1, <2>2 DEF LockInit
<1>4. ASSUME NEW r \in Run PROVE Cardinality({q \in Run \ {r} : HasLetGo(q)}) = 0
  <2>1. {q \in Run \ {r} : HasLetGo(q)} = {}
    BY <1>1 DEF LetGone
  <2>2. QED
    BY <2>1, FS_EmptySet
<1>5. RemovalsAreRuns
  BY <1>2, <1>3 DEF RemovalsAreRuns
<1>6. TurnsAreRemovals
  BY <1>3 DEF LockInit, TurnsAreRemovals
<1>7. TurnsAreOthers
  BY <1>4 DEF LockInit, TurnsAreOthers
<1>8. QED
  BY <1>3, <1>5, <1>6, <1>7, InitInv1 DEF Inv3

LEMMA StepInv3 == Inv3 /\ [LockNext]_lockVars => Inv3'
<1> SUFFICES ASSUME Inv3, [LockNext]_lockVars, Inv1' PROVE Inv3'
  BY StepInv1 DEF Inv3
<1>1. CASE UNCHANGED lockVars
  BY <1>1 DEF lockVars, Inv3, NameIsNewest, RemovalsAreRuns, TurnsAreRemovals,
              TurnsAreOthers, Removed, LetGone, HasLetGo
<1>2. CASE LockNext
  <2>1. /\ NameIsNewest' /\ Removed \in Nat /\ Removed' \in Nat
        /\ \/ Removed' = Removed
           \/ /\ Removed' = Removed + 1
              /\ \E r \in Run : r \notin LetGone /\ r \in LetGone'
    BY <1>2, RemovedSteps DEF Inv3
  <2>2. IsFiniteSet({q \in Run : lk[q] # "out"})'
    BY <1>2, AskedStayFinite DEF Inv3, Inv1, RemovalsAreRuns
  <2>3. LetGone \subseteq LetGone'
    BY <1>2, LetGoStays DEF Inv3, Inv1
  <2>4. /\ IsFiniteSet(LetGone) /\ Cardinality(LetGone) \in Nat
        /\ \A r \in Run : /\ IsFiniteSet(LetGone \ {r})
                          /\ Cardinality(LetGone \ {r}) \in Nat
                          /\ {q \in Run \ {r} : HasLetGo(q)} = LetGone \ {r}
    BY CountLetGone DEF Inv3, RemovalsAreRuns
  <2>5. (/\ IsFiniteSet(LetGone) /\ Cardinality(LetGone) \in Nat
         /\ \A r \in Run : /\ IsFiniteSet(LetGone \ {r})
                           /\ Cardinality(LetGone \ {r}) \in Nat
                           /\ {q \in Run \ {r} : HasLetGo(q)} = LetGone \ {r})'
    BY <2>2, CountLetGone, PTL
  <2>6. Removed' <= Cardinality(LetGone')
    <3>0. Removed <= Cardinality(LetGone)
      BY DEF Inv3, RemovalsAreRuns
    <3>1. CASE Removed' = Removed
      <4>1. Cardinality(LetGone) <= Cardinality(LetGone')
        BY <2>3, <2>5, FS_Subset
      <4>2. QED
        BY <2>1, <2>4, <2>5, <3>0, <3>1, <4>1
    <3>2. CASE /\ Removed' = Removed + 1
               /\ \E r \in Run : r \notin LetGone /\ r \in LetGone'
      <4>1. PICK r \in Run : r \notin LetGone /\ r \in LetGone'
        BY <3>2
      <4>2. LetGone \subseteq LetGone' \ {r}
        BY <2>3, <4>1
      <4>3. /\ IsFiniteSet(LetGone' \ {r})
            /\ Cardinality(LetGone' \ {r}) = Cardinality(LetGone') - 1
        BY <2>5, <4>1, FS_RemoveElement
      <4>4. Cardinality(LetGone) <= Cardinality(LetGone' \ {r})
        BY <4>2, <4>3, FS_Subset
      <4>5. QED
        BY <2>1, <2>4, <2>5, <3>0, <3>2, <4>3, <4>4
    <3>3. QED
      BY <2>1, <3>1, <3>2
  <2>11. ASSUME NEW q \in Run
         PROVE  tries[q] <= Cardinality({p \in Run \ {q} : HasLetGo(p)}')
    <3>1. tries[q] <= Cardinality({p \in Run \ {q} : HasLetGo(p)})
      BY DEF Inv3, TurnsAreOthers
    <3>2. {p \in Run \ {q} : HasLetGo(p)} = LetGone \ {q}
      BY <2>4
    <3>3. {p \in Run \ {q} : HasLetGo(p)}' = LetGone' \ {q}
      BY <2>5
    <3>4. Cardinality(LetGone \ {q}) <= Cardinality(LetGone' \ {q})
      BY <2>3, <2>5, FS_Subset
    <3>5. tries[q] \in Nat
      BY DEF Inv3, Inv1, LockTypeOK
    <3>6. Cardinality(LetGone \ {q}) \in Nat /\ Cardinality(LetGone' \ {q}) \in Nat
      BY <2>4, <2>5
    <3>7. QED
      BY <3>1, <3>2, <3>3, <3>4, <3>5, <3>6
  <2>7. PICK r \in Run : LockStep(r)
    BY <1>2 DEF LockNext
  <2>8. CASE OtherFile(r)
    <3>1. /\ lk[r] = "same" /\ lockFile # opened[r] /\ tries' = [tries EXCEPT ![r] = @ + 1]
          /\ lockFile' = lockFile /\ lockText' = lockText
          /\ \A q \in Run \ {r} : lk'[q] = lk[q] /\ opened'[q] = opened[q]
          /\ lk'[r] \in {"open", "failed"}
      BY <2>8 DEF OtherFile, onDisk, GoTo, Inv3, Inv1, LockTypeOK
    <3>2. Removed' = Removed
      BY <3>1 DEF Removed
    <3>3. opened[r] \in Nat /\ opened[r] <= Removed
      BY <3>1 DEF Removed, Inv3, Inv1, LockTypeOK, LockedIsOpen, NameIsNewest
    <3>4. tries[r] \in Nat /\ tries[r] < opened[r]
      BY <3>1 DEF Inv3, Inv1, LockTypeOK, TurnsAreRemovals
    <3>5. tries'[r] = tries[r] + 1 /\ \A q \in Run \ {r} : tries'[q] = tries[q]
      BY <3>1 DEF Inv3, Inv1, LockTypeOK
    <3>6. tries'[r] <= Removed'
      BY <2>1, <3>2, <3>3, <3>4, <3>5
    <3>7. TurnsAreRemovals'
      BY <3>1, <3>2, <3>5, <3>6 DEF Inv3, TurnsAreRemovals
    <3>8. r \notin LetGone' /\ LetGone' \ {r} = LetGone'
      BY <3>1 DEF LetGone, HasLetGo
    <3>9. TurnsAreOthers'
      <4> SUFFICES ASSUME NEW q \in Run
                   PROVE  tries'[q] <= Cardinality({p \in Run \ {q} : HasLetGo(p)}')
        BY DEF TurnsAreOthers
      <4>1. CASE q = r
        BY <2>1, <2>5, <2>6, <3>3, <3>4, <3>5, <3>6, <3>8, <4>1
      <4>2. CASE q # r
        <5>1. tries'[q] \in Nat /\ tries'[q] = tries[q]
          BY <3>5, <4>2 DEF Inv3, Inv1, LockTypeOK
        <5>2. QED
          BY <2>11, <5>1
      <4>3. QED
        BY <4>1, <4>2
    <3>10. QED
      BY <2>1, <2>2, <2>6, <3>7, <3>9 DEF Inv3, RemovalsAreRuns
  <2>9. CASE ~OtherFile(r)
    <3>1. tries' = tries
      BY <2>7, <2>9
         DEF LockStep, Take, Release, Ask, OpenNew, NameExists, OpenExisting,
             NameVanished, TryLock, Refuse, NoLocks, SameFile, EmptyLock, PutLock,
             EmptyHolder, PutHolder, PutFails, OpenFails, LetGo, RemoveHolder, RemoveLock,
             Unlock, Die
    <3>2. TurnsAreOthers'
      <4> SUFFICES ASSUME NEW q \in Run
                   PROVE  tries'[q] <= Cardinality({p \in Run \ {q} : HasLetGo(p)}')
        BY DEF TurnsAreOthers
      <4>1. tries'[q] \in Nat /\ tries'[q] = tries[q]
        BY <3>1 DEF Inv3, Inv1, LockTypeOK
      <4>2. QED
        BY <2>11, <4>1
    <3>3. TurnsAreRemovals'
      <4>0. Removed <= Removed'
        BY <2>1
      <4>1. \A q \in Run \ {r} : lk'[q] = lk[q] /\ opened'[q] = opened[q]
        BY <2>7, <2>9
           DEF LockStep, Take, Release, Ask, OpenNew, NameExists, OpenExisting,
               NameVanished, TryLock, Refuse, NoLocks, SameFile, EmptyLock, PutLock,
               EmptyHolder, PutHolder, PutFails, OpenFails, LetGo, RemoveHolder,
               RemoveLock, Unlock, Die, GoTo, handles, Inv3, Inv1, LockTypeOK
      <4>2. ASSUME NEW q \in Run, q # r
            PROVE  /\ lk'[q] \in {"out", "open", "exist"} => tries'[q] <= Removed'
                   /\ lk'[q] \in {"try", "same"} => tries'[q] < opened'[q]
        <5>1. tries[q] \in Nat
          BY DEF Inv3, Inv1, LockTypeOK
        <5>2. QED
          BY <2>1, <3>1, <4>0, <4>1, <4>2, <5>1 DEF Inv3, TurnsAreRemovals
      <4>3. /\ lk'[r] \in {"out", "open", "exist"} => tries'[r] <= Removed'
            /\ lk'[r] \in {"try", "same"} => tries'[r] < opened'[r]
        <5>1. tries[r] \in Nat
          BY DEF Inv3, Inv1, LockTypeOK
        <5>2. CASE OpenNew(r) \/ OpenExisting(r)
          <6>1. /\ lk[r] \in {"open", "exist"} /\ lk'[r] = "try"
                /\ opened'[r] = lockFile' /\ lockFile' # 0
            BY <5>2 DEF OpenNew, OpenExisting, GoTo, onDisk, Inv3, Inv1, LockTypeOK
          <6>2. lockFile' = Removed' + 1
            BY <2>1, <6>1 DEF NameIsNewest, Removed, Inv1, LockTypeOK
          <6>3. QED
            BY <2>1, <3>1, <4>0, <5>1, <6>1, <6>2 DEF Inv3, TurnsAreRemovals
        <5>3. CASE ~OpenNew(r) /\ ~OpenExisting(r)
          <6>1. /\ lk'[r] \in {"out", "open", "exist"} => lk[r] \in {"out", "open", "exist"}
                /\ lk'[r] \in {"try", "same"} =>
                       lk[r] \in {"try", "same"} /\ opened'[r] = opened[r]
            BY <2>7, <2>9, <5>3
               DEF LockStep, Take, Release, Ask, NameExists, NameVanished, TryLock,
                   Refuse, NoLocks, SameFile, EmptyLock, PutLock, EmptyHolder, PutHolder,
                   PutFails, OpenFails, LetGo, RemoveHolder, RemoveLock, Unlock, Die,
                   GoTo, handles, Inv3, Inv1, LockTypeOK
          <6>2. QED
            BY <2>1, <3>1, <4>0, <5>1, <6>1 DEF Inv3, TurnsAreRemovals
        <5>4. QED
          BY <5>2, <5>3
      <4>4. QED
        BY <4>2, <4>3 DEF TurnsAreRemovals
    <3>4. QED
      BY <2>1, <2>2, <2>6, <3>2, <3>3 DEF Inv3, RemovalsAreRuns
  <2>10. QED
    BY <2>8, <2>9
<1>3. QED
  BY <1>1, <1>2

(* A run goes round in `take` no more often than other runs let go.        *)
THEOREM TurnsAreLettings == LockSpec => []TurnsAreOthers
<1>1. Inv3 => TurnsAreOthers
  BY DEF Inv3
<1>2. QED
  BY <1>1, InitInv3, StepInv3, PTL DEF LockSpec

-----------------------------------------------------------------------------
(* The folder.                                                             *)

LEMMA StepIsLockStep == [Next]_vars => [LockNext]_lockVars
<1> SUFFICES ASSUME [Next]_vars PROVE [LockNext]_lockVars
  OBVIOUS
<1> USE DEF LockNext, LockStep, Take, Release
<1>1. CASE UNCHANGED vars
  BY <1>1 DEF vars
<1>2. ASSUME NEW r \in Run, Begin(r) PROVE [LockNext]_lockVars
  BY <1>2 DEF Begin
<1>3. ASSUME NEW r \in Run, MakeFolder(r) PROVE [LockNext]_lockVars
  BY <1>3 DEF MakeFolder
<1>4. ASSUME NEW r \in Run, RefuseFolder(r) PROVE [LockNext]_lockVars
  BY <1>4 DEF RefuseFolder
<1>5. ASSUME NEW r \in Run, TakeLock(r) PROVE [LockNext]_lockVars
  BY <1>5 DEF TakeLock
<1>6. ASSUME NEW r \in Run, ClaimFails(r) PROVE [LockNext]_lockVars
  BY <1>6 DEF ClaimFails
<1>7. ASSUME NEW r \in Run, Register(r) PROVE [LockNext]_lockVars
  BY <1>7 DEF Register
<1>8. ASSUME NEW r \in Run, Clean(r) PROVE [LockNext]_lockVars
  BY <1>8 DEF Clean
<1>9. ASSUME NEW r \in Run, AlreadyMarked(r) PROVE [LockNext]_lockVars
  BY <1>9 DEF AlreadyMarked
<1>10. ASSUME NEW r \in Run, Mark(r) PROVE [LockNext]_lockVars
  BY <1>10 DEF Mark, PutInPlace
<1>11. ASSUME NEW r \in Run, Stage(r) PROVE [LockNext]_lockVars
  BY <1>11 DEF Stage
<1>12. ASSUME NEW r \in Run, WriteFails(r) PROVE [LockNext]_lockVars
  BY <1>12 DEF WriteFails, Fail, End
<1>13. ASSUME NEW r \in Run, BeginBuild(r) PROVE [LockNext]_lockVars
  BY <1>13 DEF BeginBuild
<1>14. ASSUME NEW r \in Run, Built(r) PROVE [LockNext]_lockVars
  BY <1>14 DEF Built
<1>15. ASSUME NEW r \in Run, BuildFails(r) PROVE [LockNext]_lockVars
  BY <1>15 DEF BuildFails, Fail, End
<1>16. ASSUME NEW r \in Run, KeepsNewer(r) PROVE [LockNext]_lockVars
  BY <1>16 DEF KeepsNewer, Fail, End
<1>17. ASSUME NEW r \in Run, NotAccepted(r) PROVE [LockNext]_lockVars
  BY <1>17 DEF NotAccepted, Fail, End
<1>18. ASSUME NEW r \in Run, MayWrite(r) PROVE [LockNext]_lockVars
  BY <1>18 DEF MayWrite
<1>19. ASSUME NEW r \in Run, Remark(r) PROVE [LockNext]_lockVars
  BY <1>19 DEF Remark, PutInPlace
<1>20. ASSUME NEW r \in Run, WriteFile(r) PROVE [LockNext]_lockVars
  BY <1>20 DEF WriteFile, PutInPlace
<1>21. ASSUME NEW r \in Run, Seal(r) PROVE [LockNext]_lockVars
  BY <1>21 DEF Seal, PutInPlace
<1>22. ASSUME NEW r \in Run, SealFails(r) PROVE [LockNext]_lockVars
  BY <1>22 DEF SealFails
<1>23. ASSUME NEW r \in Run, Written(r) PROVE [LockNext]_lockVars
  BY <1>23 DEF Written
<1>24. ASSUME NEW r \in Run, LetFolderGo(r) PROVE [LockNext]_lockVars
  BY <1>24 DEF LetFolderGo
<1>25. ASSUME NEW r \in Run, UndoMarker(r) PROVE [LockNext]_lockVars
  BY <1>25 DEF UndoMarker
<1>26. ASSUME NEW r \in Run, UndoFolder(r) PROVE [LockNext]_lockVars
  BY <1>26 DEF UndoFolder
<1>27. ASSUME NEW r \in Run, Interrupted(r) PROVE [LockNext]_lockVars
  BY <1>27 DEF Interrupted
<1>28. ASSUME NEW r \in Run, Crash(r) PROVE [LockNext]_lockVars
  BY <1>28 DEF Crash
<1>29. QED
  BY <1>1, <1>2, <1>3, <1>4, <1>5, <1>6, <1>7, <1>8, <1>9, <1>10, <1>11, <1>12, <1>13, <1>14,
     <1>15, <1>16, <1>17, <1>18, <1>19, <1>20, <1>21, <1>22, <1>23, <1>24, <1>25, <1>26, <1>27, <1>28
     DEF Next, Step, Claim, Write, Leave

(* Whatever a run does between taking the folder and letting it go, the    *)
(* lock is used as ReportLock says.                                        *)
THEOREM FolderImplementsLock == Spec => ImplementsLock
<1>1. Init => LockInit
  BY DEF Init
<1>2. QED
  BY <1>1, StepIsLockStep, PTL DEF Spec, LockSpec, ImplementsLock

LEMMA AlwaysLockInv == Spec => []Inv1
BY FolderImplementsLock, AlwaysInv1, PTL DEF ImplementsLock

-----------------------------------------------------------------------------
(* Types.                                                                  *)
FolderTypes ==
    /\ at \in [Run -> Place]
    /\ how \in [Run -> Outcome]
    /\ made \in [Run -> BOOLEAN]
    /\ undo \in [Run -> [marker : BOOLEAN, folder : BOOLEAN]]
    /\ next \in [Run -> File]
    /\ started \in [Writer -> Nat]
    /\ clock \in Nat
    /\ dir \in BOOLEAN
    /\ others \in BOOLEAN
    /\ marker \in Marker
    /\ files \in [File -> Writer \cup {NoRun}]
    /\ staging \in SUBSET Run

LEMMA InitTypes == Init => FolderTypes
BY FilesAssumption, SkewAssumption
   DEF Init, FolderInit, FolderTypes, Place, Outcome, Marker, File, Writer, Nothing,
       PastFiles, NoMarker, Plain, Sealed

LEMMA StepTypes == FolderTypes /\ [Next]_vars => FolderTypes'
<1> SUFFICES ASSUME FolderTypes, [Next]_vars PROVE FolderTypes'
  OBVIOUS
<1> USE FilesAssumption, SkewAssumption
<1> USE DEF FolderTypes, Place, Outcome, Marker, File, Writer, Nothing, NoMarker, Plain, Sealed,
            At, End, runVars, timeVars, folderVars
<1>1. CASE UNCHANGED vars
  BY <1>1 DEF vars
<1>2. ASSUME NEW r \in Run, Begin(r) PROVE FolderTypes'
  BY <1>2 DEF Begin
<1>3. ASSUME NEW r \in Run, MakeFolder(r) PROVE FolderTypes'
  BY <1>3 DEF MakeFolder
<1>4. ASSUME NEW r \in Run, RefuseFolder(r) PROVE FolderTypes'
  BY <1>4 DEF RefuseFolder
<1>5. ASSUME NEW r \in Run, TakeLock(r) PROVE FolderTypes'
  BY <1>5 DEF TakeLock
<1>6. ASSUME NEW r \in Run, ClaimFails(r) PROVE FolderTypes'
  BY <1>6 DEF ClaimFails
<1>7. ASSUME NEW r \in Run, Register(r) PROVE FolderTypes'
  BY <1>7 DEF Register
<1>8. ASSUME NEW r \in Run, Clean(r) PROVE FolderTypes'
  BY <1>8 DEF Clean
<1>9. ASSUME NEW r \in Run, AlreadyMarked(r) PROVE FolderTypes'
  BY <1>9 DEF AlreadyMarked
<1>10. ASSUME NEW r \in Run, Mark(r) PROVE FolderTypes'
  BY <1>10 DEF Mark, PutInPlace
<1>11. ASSUME NEW r \in Run, Stage(r) PROVE FolderTypes'
  BY <1>11 DEF Stage, Writing
<1>12. ASSUME NEW r \in Run, WriteFails(r) PROVE FolderTypes'
  BY <1>12 DEF WriteFails, Fail
<1>13. ASSUME NEW r \in Run, BeginBuild(r) PROVE FolderTypes'
  BY <1>13 DEF BeginBuild
<1>14. ASSUME NEW r \in Run, Built(r) PROVE FolderTypes'
  BY <1>14 DEF Built
<1>15. ASSUME NEW r \in Run, BuildFails(r) PROVE FolderTypes'
  BY <1>15 DEF BuildFails, Fail
<1>16. ASSUME NEW r \in Run, KeepsNewer(r) PROVE FolderTypes'
  BY <1>16 DEF KeepsNewer, Fail
<1>17. ASSUME NEW r \in Run, NotAccepted(r) PROVE FolderTypes'
  BY <1>17 DEF NotAccepted, Fail
<1>18. ASSUME NEW r \in Run, MayWrite(r) PROVE FolderTypes'
  BY <1>18 DEF MayWrite
<1>19. ASSUME NEW r \in Run, Remark(r) PROVE FolderTypes'
  BY <1>19 DEF Remark, PutInPlace
<1>20. ASSUME NEW r \in Run, WriteFile(r) PROVE FolderTypes'
  BY <1>20 DEF WriteFile, PutInPlace
<1>21. ASSUME NEW r \in Run, Seal(r) PROVE FolderTypes'
  BY <1>21 DEF Seal, PutInPlace
<1>22. ASSUME NEW r \in Run, SealFails(r) PROVE FolderTypes'
  BY <1>22 DEF SealFails
<1>23. ASSUME NEW r \in Run, Written(r) PROVE FolderTypes'
  BY <1>23 DEF Written
<1>24. ASSUME NEW r \in Run, LetFolderGo(r) PROVE FolderTypes'
  BY <1>24 DEF LetFolderGo
<1>25. ASSUME NEW r \in Run, UndoMarker(r) PROVE FolderTypes'
  BY <1>25 DEF UndoMarker
<1>26. ASSUME NEW r \in Run, UndoFolder(r) PROVE FolderTypes'
  BY <1>26 DEF UndoFolder
<1>27. ASSUME NEW r \in Run, Interrupted(r) PROVE FolderTypes'
  BY <1>27 DEF Interrupted
<1>28. ASSUME NEW r \in Run, Crash(r) PROVE FolderTypes'
  BY <1>28 DEF Crash
<1>29. QED
  BY <1>1, <1>2, <1>3, <1>4, <1>5, <1>6, <1>7, <1>8, <1>9, <1>10, <1>11, <1>12, <1>13, <1>14,
     <1>15, <1>16, <1>17, <1>18, <1>19, <1>20, <1>21, <1>22, <1>23, <1>24, <1>25, <1>26, <1>27, <1>28
     DEF Next, Step, Claim, Write, Leave

LEMMA AlwaysTypes == Spec => []FolderTypes
BY InitTypes, StepTypes, PTL DEF Spec

(* The variables keep to their types.                                      *)
THEOREM FolderTyped == Spec => []TypeOK
<1>1. FolderTypes /\ Inv1 => TypeOK
  BY DEF FolderTypes, Inv1, TypeOK
<1>2. QED
  BY <1>1, AlwaysTypes, AlwaysLockInv, PTL

-----------------------------------------------------------------------------
(* Where a run is in the folder tells where it is with the lock.           *)
PlacesFit ==
    \A r \in Run :
        /\ at[r] \in {"idle", "make"} => lk[r] = "out"
        /\ at[r] \in Working => lk[r] \in {"held", "unguarded"}
        /\ lk[r] = "unguarded" => r \in Lockless

LEMMA InitPlaces == Init => PlacesFit
BY DEF Init, LockInit, FolderInit, PlacesFit, Working

LEMMA StepPlaces ==
    LockTypeOK /\ FolderTypes /\ PlacesFit /\ [Next]_vars => PlacesFit'
<1> SUFFICES ASSUME LockTypeOK, FolderTypes, PlacesFit, [Next]_vars PROVE PlacesFit'
  OBVIOUS
<1> USE DEF LockTypeOK, FolderTypes, PlacesFit, Working, At, GoTo, lockVars
<1>1. CASE UNCHANGED vars
  BY <1>1 DEF vars, runVars
<1>2. ASSUME NEW r \in Run, Begin(r) PROVE PlacesFit'
  BY <1>2 DEF Begin
<1>3. ASSUME NEW r \in Run, MakeFolder(r) PROVE PlacesFit'
  BY <1>3 DEF MakeFolder, Ask
<1>4. ASSUME NEW r \in Run, RefuseFolder(r) PROVE PlacesFit'
  BY <1>4 DEF RefuseFolder
<1>5. ASSUME NEW r \in Run, TakeLock(r) PROVE PlacesFit'
  BY <1>5 DEF TakeLock, Ask, Take, OpenNew, NameExists, OpenExisting, NameVanished, TryLock, Refuse, NoLocks, SameFile, OtherFile, EmptyLock, PutLock, EmptyHolder, PutHolder, PutFails, OpenFails, runVars
<1>6. ASSUME NEW r \in Run, ClaimFails(r) PROVE PlacesFit'
  BY <1>6 DEF ClaimFails
<1>7. ASSUME NEW r \in Run, Register(r) PROVE PlacesFit'
  BY <1>7 DEF Register
<1>8. ASSUME NEW r \in Run, Clean(r) PROVE PlacesFit'
  BY <1>8 DEF Clean
<1>9. ASSUME NEW r \in Run, AlreadyMarked(r) PROVE PlacesFit'
  BY <1>9 DEF AlreadyMarked
<1>10. ASSUME NEW r \in Run, Mark(r) PROVE PlacesFit'
  BY <1>10 DEF Mark, PutInPlace
<1>11. ASSUME NEW r \in Run, Stage(r) PROVE PlacesFit'
  BY <1>11 DEF Stage, Writing
<1>12. ASSUME NEW r \in Run, WriteFails(r) PROVE PlacesFit'
  BY <1>12 DEF WriteFails, Fail
<1>13. ASSUME NEW r \in Run, BeginBuild(r) PROVE PlacesFit'
  BY <1>13 DEF BeginBuild
<1>14. ASSUME NEW r \in Run, Built(r) PROVE PlacesFit'
  BY <1>14 DEF Built
<1>15. ASSUME NEW r \in Run, BuildFails(r) PROVE PlacesFit'
  BY <1>15 DEF BuildFails, Fail
<1>16. ASSUME NEW r \in Run, KeepsNewer(r) PROVE PlacesFit'
  BY <1>16 DEF KeepsNewer, Fail
<1>17. ASSUME NEW r \in Run, NotAccepted(r) PROVE PlacesFit'
  BY <1>17 DEF NotAccepted, Fail
<1>18. ASSUME NEW r \in Run, MayWrite(r) PROVE PlacesFit'
  BY <1>18 DEF MayWrite
<1>19. ASSUME NEW r \in Run, Remark(r) PROVE PlacesFit'
  BY <1>19 DEF Remark, PutInPlace
<1>20. ASSUME NEW r \in Run, WriteFile(r) PROVE PlacesFit'
  BY <1>20 DEF WriteFile, PutInPlace
<1>21. ASSUME NEW r \in Run, Seal(r) PROVE PlacesFit'
  BY <1>21 DEF Seal, PutInPlace
<1>22. ASSUME NEW r \in Run, SealFails(r) PROVE PlacesFit'
  BY <1>22 DEF SealFails
<1>23. ASSUME NEW r \in Run, Written(r) PROVE PlacesFit'
  BY <1>23 DEF Written
<1>24. ASSUME NEW r \in Run, LetFolderGo(r) PROVE PlacesFit'
  BY <1>24 DEF LetFolderGo, LetGo, RemoveHolder, RemoveLock, Unlock
<1>25. ASSUME NEW r \in Run, UndoMarker(r) PROVE PlacesFit'
  BY <1>25 DEF UndoMarker
<1>26. ASSUME NEW r \in Run, UndoFolder(r) PROVE PlacesFit'
  BY <1>26 DEF UndoFolder, Unlock
<1>27. ASSUME NEW r \in Run, Interrupted(r) PROVE PlacesFit'
  BY <1>27 DEF Interrupted
<1>28. ASSUME NEW r \in Run, Crash(r) PROVE PlacesFit'
  BY <1>28 DEF Crash, Die
<1>29. QED
  BY <1>1, <1>2, <1>3, <1>4, <1>5, <1>6, <1>7, <1>8, <1>9, <1>10, <1>11, <1>12, <1>13, <1>14,
     <1>15, <1>16, <1>17, <1>18, <1>19, <1>20, <1>21, <1>22, <1>23, <1>24, <1>25, <1>26, <1>27, <1>28
     DEF Next, Step, Claim, Write, Leave

LEMMA AlwaysPlaces == Spec => []PlacesFit
<1>1. Inv1 => LockTypeOK
  BY DEF Inv1
<1>2. QED
  BY <1>1, InitPlaces, StepPlaces, AlwaysTypes, AlwaysLockInv, PTL DEF Spec

LEMMA OneWorks ==
    ASSUME Lockable PROVE Inv1 /\ PlacesFit => OneAtWork
<1> SUFFICES ASSUME Inv1, PlacesFit, NEW r \in Run, NEW q \in Run,
                    at[r] \in Working, at[q] \in Working
             PROVE  r = q
  BY DEF OneAtWork
<1>1. lk[r] = "held" /\ lk[q] = "held"
  BY DEF PlacesFit, Lockable
<1>2. QED
  BY <1>1 DEF Inv1, LockedIsOpen, LocksDiffer, OwnerHasName, Owning

(* No run works in the folder while another does.                          *)
THEOREM OneRunWorks == ASSUME Lockable PROVE Spec => []OneAtWork
BY OneWorks, AlwaysLockInv, AlwaysPlaces, PTL

-----------------------------------------------------------------------------
(* From the moment a run has replaced the marker to the moment it seals,   *)
(* the marker carries no seal, and the files before the next one are its   *)
(* own.  No other run writes a file or seals in between (OneAtWork); one   *)
(* that is late in undoing may still take the marker away, which seals     *)
(* nothing.                                                                *)
Rewriting == {"write", "writing", "seal", "sealing"}

FilesFit ==
    \A r \in Run :
        /\ at[r] \in {"idle", "make", "take", "clean", "mark", "marking", "begin", "build",
                      "older", "remark", "remarking"} => next[r] = 1
        /\ at[r] \in Rewriting => marker.kind # "sealed"
        /\ at[r] \in {"write", "writing"} => \A f \in File : f < next[r] => files[f] = r
        /\ at[r] \in {"seal", "sealing"} => \A f \in File : files[f] = r

SealInv == FilesFit /\ SealedIsWhole

LEMMA InitSeal == Init => SealInv
BY FilesAssumption
   DEF Init, FolderInit, SealInv, FilesFit, SealedIsWhole, SealHolds, Rewriting, File

LEMMA StepSeal ==
    FolderTypes /\ OneAtWork /\ SealInv /\ [Next]_vars => SealInv'
<1> SUFFICES ASSUME FolderTypes, OneAtWork, SealInv, [Next]_vars PROVE SealInv'
  OBVIOUS
<1> USE FilesAssumption
<1> USE DEF FolderTypes, OneAtWork, SealInv, FilesFit, SealedIsWhole, SealHolds, Rewriting,
            Working, File, At, NoMarker, Plain, Sealed, timeVars, folderVars
<1>1. CASE UNCHANGED vars
  BY <1>1 DEF vars, runVars
<1>2. ASSUME NEW r \in Run, Begin(r) PROVE SealInv'
  BY <1>2 DEF Begin
<1>3. ASSUME NEW r \in Run, MakeFolder(r) PROVE SealInv'
  BY <1>3 DEF MakeFolder
<1>4. ASSUME NEW r \in Run, RefuseFolder(r) PROVE SealInv'
  BY <1>4 DEF RefuseFolder
<1>5. ASSUME NEW r \in Run, TakeLock(r) PROVE SealInv'
  BY <1>5 DEF TakeLock, runVars
<1>6. ASSUME NEW r \in Run, ClaimFails(r) PROVE SealInv'
  <2>1. at[r] = "take" /\ at' = [at EXCEPT ![r] = "ended"] /\ UNCHANGED <<next, marker, files>>
    BY <1>6 DEF ClaimFails
  <2>2. QED
    BY <2>1
<1>7. ASSUME NEW r \in Run, Register(r) PROVE SealInv'
  <2>1. at[r] = "take" /\ at' = [at EXCEPT ![r] = "clean"] /\ UNCHANGED <<next, marker, files>>
    BY <1>7 DEF Register
  <2>2. QED
    BY <2>1
<1>8. ASSUME NEW r \in Run, Clean(r) PROVE SealInv'
  BY <1>8 DEF Clean
<1>9. ASSUME NEW r \in Run, AlreadyMarked(r) PROVE SealInv'
  BY <1>9 DEF AlreadyMarked
<1>10. ASSUME NEW r \in Run, Mark(r) PROVE SealInv'
  BY <1>10 DEF Mark, PutInPlace
<1>11. ASSUME NEW r \in Run, Stage(r) PROVE SealInv'
  BY <1>11 DEF Stage, Writing
<1>12. ASSUME NEW r \in Run, WriteFails(r) PROVE SealInv'
  BY <1>12 DEF WriteFails, Fail
<1>13. ASSUME NEW r \in Run, BeginBuild(r) PROVE SealInv'
  BY <1>13 DEF BeginBuild
<1>14. ASSUME NEW r \in Run, Built(r) PROVE SealInv'
  BY <1>14 DEF Built
<1>15. ASSUME NEW r \in Run, BuildFails(r) PROVE SealInv'
  BY <1>15 DEF BuildFails, Fail
<1>16. ASSUME NEW r \in Run, KeepsNewer(r) PROVE SealInv'
  BY <1>16 DEF KeepsNewer, Fail
<1>17. ASSUME NEW r \in Run, NotAccepted(r) PROVE SealInv'
  BY <1>17 DEF NotAccepted, Fail
<1>18. ASSUME NEW r \in Run, MayWrite(r) PROVE SealInv'
  BY <1>18 DEF MayWrite
<1>19. ASSUME NEW r \in Run, Remark(r) PROVE SealInv'
  BY <1>19 DEF Remark, PutInPlace
<1>20. ASSUME NEW r \in Run, WriteFile(r) PROVE SealInv'
  BY <1>20 DEF WriteFile, PutInPlace
<1>21. ASSUME NEW r \in Run, Seal(r) PROVE SealInv'
  BY <1>21 DEF Seal, PutInPlace
<1>22. ASSUME NEW r \in Run, SealFails(r) PROVE SealInv'
  BY <1>22 DEF SealFails
<1>23. ASSUME NEW r \in Run, Written(r) PROVE SealInv'
  BY <1>23 DEF Written
<1>24. ASSUME NEW r \in Run, LetFolderGo(r) PROVE SealInv'
  BY <1>24 DEF LetFolderGo
<1>25. ASSUME NEW r \in Run, UndoMarker(r) PROVE SealInv'
  BY <1>25 DEF UndoMarker
<1>26. ASSUME NEW r \in Run, UndoFolder(r) PROVE SealInv'
  BY <1>26 DEF UndoFolder
<1>27. ASSUME NEW r \in Run, Interrupted(r) PROVE SealInv'
  BY <1>27 DEF Interrupted
<1>28. ASSUME NEW r \in Run, Crash(r) PROVE SealInv'
  BY <1>28 DEF Crash
<1>29. QED
  BY <1>1, <1>2, <1>3, <1>4, <1>5, <1>6, <1>7, <1>8, <1>9, <1>10, <1>11, <1>12, <1>13, <1>14,
     <1>15, <1>16, <1>17, <1>18, <1>19, <1>20, <1>21, <1>22, <1>23, <1>24, <1>25, <1>26, <1>27, <1>28
     DEF Next, Step, Claim, Write, Leave

(* A seal is never beside a file of another run.                           *)
THEOREM SealsWhole == ASSUME Lockable PROVE Spec => []SealedIsWhole
<1>1. Spec => []SealInv
  BY InitSeal, StepSeal, AlwaysTypes, OneRunWorks, PTL DEF Spec
<1>2. SealInv => SealedIsWhole
  BY DEF SealInv
<1>3. QED
  BY <1>1, <1>2, PTL

-----------------------------------------------------------------------------
(* What a run found when it looked for a newer report still stands while   *)
(* it writes: nobody else writes one, starts one, or moves the clock.      *)
NothingNewer ==
    \A r \in Run : at[r] \in {"remark", "remarking", "write", "writing"} => ~Newer(r)

LEMMA InitNewer == Init => NothingNewer
BY DEF Init, FolderInit, NothingNewer

LEMMA StepNewer ==
    FolderTypes /\ OneAtWork /\ NothingNewer /\ [Next]_vars => NothingNewer'
<1> SUFFICES ASSUME FolderTypes, OneAtWork, NothingNewer, [Next]_vars PROVE NothingNewer'
  OBVIOUS
<1> USE FilesAssumption, SkewAssumption, RunsAreDistinct
<1> USE DEF FolderTypes, OneAtWork, NothingNewer, Newer, Writer,
            Working, File, At, timeVars, folderVars
<1>1. CASE UNCHANGED vars
  BY <1>1 DEF vars, runVars
<1>2. ASSUME NEW r \in Run, Begin(r) PROVE NothingNewer'
  BY <1>2 DEF Begin
<1>3. ASSUME NEW r \in Run, MakeFolder(r) PROVE NothingNewer'
  BY <1>3 DEF MakeFolder
<1>4. ASSUME NEW r \in Run, RefuseFolder(r) PROVE NothingNewer'
  BY <1>4 DEF RefuseFolder
<1>5. ASSUME NEW r \in Run, TakeLock(r) PROVE NothingNewer'
  BY <1>5 DEF TakeLock, runVars
<1>6. ASSUME NEW r \in Run, ClaimFails(r) PROVE NothingNewer'
  BY <1>6 DEF ClaimFails
<1>7. ASSUME NEW r \in Run, Register(r) PROVE NothingNewer'
  BY <1>7 DEF Register
<1>8. ASSUME NEW r \in Run, Clean(r) PROVE NothingNewer'
  BY <1>8 DEF Clean
<1>9. ASSUME NEW r \in Run, AlreadyMarked(r) PROVE NothingNewer'
  BY <1>9 DEF AlreadyMarked
<1>10. ASSUME NEW r \in Run, Mark(r) PROVE NothingNewer'
  BY <1>10 DEF Mark, PutInPlace
<1>11. ASSUME NEW r \in Run, Stage(r) PROVE NothingNewer'
  BY <1>11 DEF Stage, Writing
<1>12. ASSUME NEW r \in Run, WriteFails(r) PROVE NothingNewer'
  BY <1>12 DEF WriteFails, Fail
<1>13. ASSUME NEW r \in Run, BeginBuild(r) PROVE NothingNewer'
  BY <1>13 DEF BeginBuild
<1>14. ASSUME NEW r \in Run, Built(r) PROVE NothingNewer'
  BY <1>14 DEF Built
<1>15. ASSUME NEW r \in Run, BuildFails(r) PROVE NothingNewer'
  BY <1>15 DEF BuildFails, Fail
<1>16. ASSUME NEW r \in Run, KeepsNewer(r) PROVE NothingNewer'
  BY <1>16 DEF KeepsNewer, Fail
<1>17. ASSUME NEW r \in Run, NotAccepted(r) PROVE NothingNewer'
  BY <1>17 DEF NotAccepted, Fail
<1>18. ASSUME NEW r \in Run, MayWrite(r) PROVE NothingNewer'
  BY <1>18 DEF MayWrite
<1>19. ASSUME NEW r \in Run, Remark(r) PROVE NothingNewer'
  BY <1>19 DEF Remark, PutInPlace
<1>20. ASSUME NEW r \in Run, WriteFile(r) PROVE NothingNewer'
  BY <1>20 DEF WriteFile, PutInPlace
<1>21. ASSUME NEW r \in Run, Seal(r) PROVE NothingNewer'
  BY <1>21 DEF Seal, PutInPlace
<1>22. ASSUME NEW r \in Run, SealFails(r) PROVE NothingNewer'
  BY <1>22 DEF SealFails
<1>23. ASSUME NEW r \in Run, Written(r) PROVE NothingNewer'
  BY <1>23 DEF Written
<1>24. ASSUME NEW r \in Run, LetFolderGo(r) PROVE NothingNewer'
  BY <1>24 DEF LetFolderGo
<1>25. ASSUME NEW r \in Run, UndoMarker(r) PROVE NothingNewer'
  BY <1>25 DEF UndoMarker
<1>26. ASSUME NEW r \in Run, UndoFolder(r) PROVE NothingNewer'
  BY <1>26 DEF UndoFolder
<1>27. ASSUME NEW r \in Run, Interrupted(r) PROVE NothingNewer'
  BY <1>27 DEF Interrupted
<1>28. ASSUME NEW r \in Run, Crash(r) PROVE NothingNewer'
  BY <1>28 DEF Crash
<1>29. QED
  BY <1>1, <1>2, <1>3, <1>4, <1>5, <1>6, <1>7, <1>8, <1>9, <1>10, <1>11, <1>12, <1>13, <1>14,
     <1>15, <1>16, <1>17, <1>18, <1>19, <1>20, <1>21, <1>22, <1>23, <1>24, <1>25, <1>26, <1>27, <1>28
     DEF Next, Step, Claim, Write, Leave

LEMMA OnlyWriteFileWrites ==
    ASSUME [Next]_vars, files' # files PROVE \E r \in Run : WriteFile(r)
BY DEF Next, Step, Claim, Write, Leave, vars, folderVars, Begin, MakeFolder, RefuseFolder,
       TakeLock, ClaimFails, Register, Clean, AlreadyMarked, Mark, Stage, WriteFails, BeginBuild,
       Built, BuildFails, KeepsNewer, NotAccepted, MayWrite, Remark, Seal, SealFails, Written,
       LetFolderGo, UndoMarker, UndoFolder, Interrupted, Crash, Fail

LEMMA NewerSteps ==
    FolderTypes /\ NothingNewer /\ [Next]_vars => [ReplacedByNewer]_vars
<1> SUFFICES ASSUME FolderTypes, NothingNewer, [Next]_vars, NEW w \in Writer,
                    files[RecordFile] = w, files'[RecordFile] # w
             PROVE  started[w] <= started[files'[RecordFile]] \/ ~Believed(w)
  BY DEF ReplacedByNewer
<1>1. PICK r \in Run : WriteFile(r)
  BY OnlyWriteFileWrites
<1>2. files'[RecordFile] = r /\ ~Newer(r)
  BY <1>1, FilesAssumption DEF WriteFile, PutInPlace, FolderTypes, File, NothingNewer
<1>3. w # NoRun /\ started[w] \in Nat /\ started[r] \in Nat
  BY RunsAreDistinct DEF FolderTypes, Writer
<1>4. QED
  BY <1>2, <1>3 DEF Newer, Believed

(* A run never replaces a report of a run that started after it.           *)
THEOREM NewerIsKept == ASSUME Lockable PROVE Spec => NewerKept
<1>1. Spec => []NothingNewer
  BY InitNewer, StepNewer, AlwaysTypes, OneRunWorks, PTL DEF Spec
<1>2. QED
  BY <1>1, NewerSteps, AlwaysTypes, PTL DEF Spec, NewerKept

-----------------------------------------------------------------------------
(* The folder implements ReportStore.  A step changes who owns the folder  *)
(* or what it offers, never both.                                          *)
Untouched == UNCHANGED <<marker, files>>

LEMMA TouchingSteps ==
    ASSUME [Next]_vars, ~Untouched
    PROVE  \E r \in Run : Mark(r) \/ Remark(r) \/ WriteFile(r) \/ Seal(r) \/ UndoMarker(r)
BY DEF Untouched, Next, Step, Claim, Write, Leave, vars, folderVars, Begin, MakeFolder,
       RefuseFolder, TakeLock, ClaimFails, Register, Clean, AlreadyMarked, Stage, WriteFails,
       BeginBuild, Built, BuildFails, KeepsNewer, NotAccepted, MayWrite, SealFails, Written,
       LetFolderGo, UndoFolder, Interrupted, Crash, Fail

LEMMA StoreSteps ==
    ASSUME Lockable
    PROVE  /\ Inv1 /\ Inv1' /\ FolderTypes /\ PlacesFit /\ SealInv /\ SealInv'
           /\ [Next]_vars
           => [Store!Next]_<<Owner, Offered>>
<1> SUFFICES ASSUME Inv1, Inv1', FolderTypes, PlacesFit, SealInv, SealInv', [Next]_vars
             PROVE  [Store!Next]_<<Owner, Offered>>
  OBVIOUS
<1> USE DEF Store!Next, Store!storeVars
<1>1. CASE Untouched
  <2>1. Offered' = Offered
    BY <1>1 DEF Untouched, Offered, SealHolds
  <2>2. [Turns!Next]_Owner
    BY StepIsLockStep, OwnerSteps
  <2>3. QED
    BY <2>1, <2>2
       DEF Turns!Next, Turns!TakeFolder, Turns!LeaveFolder, Store!TakeFolder, Store!LeaveFolder
<1>2. CASE ~Untouched
  <2>1. PICK r \in Run : Mark(r) \/ Remark(r) \/ WriteFile(r) \/ Seal(r) \/ UndoMarker(r)
    BY <1>2, TouchingSteps
  <2>2. Owner' = Owner
    BY <2>1 DEF Mark, Remark, WriteFile, Seal, UndoMarker, lockVars, Owner
  <2>3. CASE Offered' = NoRun
    BY <2>2, <2>3 DEF Store!Withdraw
  <2>4. CASE Mark(r) \/ Remark(r)
    <3>1. ~SealHolds'
      BY <2>4 DEF Mark, Remark, SealHolds, Plain
    <3>2. QED
      BY <3>1, <2>3 DEF Offered
  <2>5. CASE WriteFile(r)
    <3>1. marker.kind # "sealed" /\ marker' = marker
      BY <2>5 DEF WriteFile, PutInPlace, SealInv, FilesFit, Rewriting
    <3>2. QED
      BY <2>3, <3>1 DEF Offered, SealHolds
  <2>6. CASE Seal(r)
    <3>1. at[r] = "sealing"
      BY <2>6 DEF Seal, PutInPlace
    <3>2. marker.kind # "sealed" /\ \A f \in File : files[f] = r
      BY <3>1 DEF SealInv, FilesFit, Rewriting
    <3>3. Offered = NoRun
      BY <3>2 DEF Offered, SealHolds
    <3>4. Offered' = r
      BY <2>6, <3>2 DEF Offered, SealHolds, Seal, Sealed
    <3>5. lk[r] \in Owning
      BY <3>1 DEF PlacesFit, Lockable, Working, Owning
    <3>6. \A q \in Run : lk[q] \in Owning => q = r
      BY <3>5 DEF Inv1, LockTypeOK, LockedIsOpen, LocksDiffer, OwnerHasName
    <3>7. Owner = r
      BY <3>5, <3>6, OwnerIs DEF Owner
    <3>8. QED
      BY <2>2, <3>3, <3>4, <3>7 DEF Store!Publish
  <2>7. CASE UndoMarker(r)
    <3>1. CASE undo[r].marker
      <4>1. ~SealHolds'
        BY <2>7, <3>1 DEF UndoMarker, SealHolds, NoMarker
      <4>2. QED
        BY <4>1, <2>3 DEF Offered
    <3>2. CASE ~undo[r].marker
      BY <1>2, <2>7, <3>2 DEF UndoMarker, Untouched
    <3>3. QED
      BY <3>1, <3>2
  <2>8. QED
    BY <2>1, <2>4, <2>5, <2>6, <2>7
<1>3. QED
  BY <1>1, <1>2

LEMMA InitStore == Init => Store!Init
<1> SUFFICES ASSUME Init PROVE Store!Init
  OBVIOUS
<1>1. Owner = NoRun
  BY NoOwner DEF Init, LockInit, Owning, Owner
<1>2. Offered \in {Past, NoRun}
  BY DEF Init, FolderInit, Offered, SealHolds, NoMarker, Plain, Sealed
<1>3. QED
  BY <1>1, <1>2 DEF Store!Init

(* A report is offered only by the run that owns the folder, once the one  *)
(* before has been withdrawn.                                              *)
THEOREM FolderImplementsStore == ASSUME Lockable PROVE Spec => ImplementsStore
<1>1. Spec => []SealInv
  BY InitSeal, StepSeal, AlwaysTypes, OneRunWorks, PTL DEF Spec
<1>2. QED
  BY <1>1, InitStore, StoreSteps, AlwaysLockInv, AlwaysTypes, AlwaysPlaces, PTL
     DEF Spec, ImplementsStore, Store!Spec, Store!storeVars
-----------------------------------------------------------------------------
(* Who takes the marker from under a run that builds its report.  The run  *)
(* found a marker or wrote one, so that it has gone since; and a marker    *)
(* goes only when a run that failed or was stopped before its report, and  *)
(* found none when it came, undoes it.                                     *)
HasUndone(q) ==
    /\ undo[q].marker
    /\ how[q] \in {"failed", "stopped", "crashed"}
    /\ at[q] \in {"undofolder", "ended", "dead"}

UndoneBy ==
    \A r \in Run :
        /\ at[r] \in {"letgo", "undomark"} /\ undo[r].marker => how[r] \in {"failed", "stopped"}
        /\ at[r] \in {"begin", "build"} /\ marker = NoMarker =>
               \E q \in Run \ {r} : HasUndone(q)

LEMMA StepUndone == FolderTypes /\ UndoneBy /\ [Next]_vars => UndoneBy'
<1> SUFFICES ASSUME FolderTypes, UndoneBy, [Next]_vars PROVE UndoneBy'
  OBVIOUS
<1> USE DEF FolderTypes, UndoneBy, HasUndone, At, End, NoMarker, Plain, Sealed, Nothing, timeVars, folderVars
<1>1. CASE UNCHANGED vars
  BY <1>1 DEF vars, runVars
<1>2. ASSUME NEW r \in Run, Begin(r) PROVE UndoneBy'
  BY <1>2 DEF Begin
<1>3. ASSUME NEW r \in Run, MakeFolder(r) PROVE UndoneBy'
  BY <1>3 DEF MakeFolder
<1>4. ASSUME NEW r \in Run, RefuseFolder(r) PROVE UndoneBy'
  BY <1>4 DEF RefuseFolder
<1>5. ASSUME NEW r \in Run, TakeLock(r) PROVE UndoneBy'
  BY <1>5 DEF TakeLock, runVars
<1>6. ASSUME NEW r \in Run, ClaimFails(r) PROVE UndoneBy'
  BY <1>6 DEF ClaimFails
<1>7. ASSUME NEW r \in Run, Register(r) PROVE UndoneBy'
  BY <1>7 DEF Register
<1>8. ASSUME NEW r \in Run, Clean(r) PROVE UndoneBy'
  BY <1>8 DEF Clean
<1>9. ASSUME NEW r \in Run, AlreadyMarked(r) PROVE UndoneBy'
  BY <1>9 DEF AlreadyMarked
<1>10. ASSUME NEW r \in Run, Mark(r) PROVE UndoneBy'
  BY <1>10 DEF Mark, PutInPlace
<1>11. ASSUME NEW r \in Run, Stage(r) PROVE UndoneBy'
  BY <1>11 DEF Stage, Writing
<1>12. ASSUME NEW r \in Run, WriteFails(r) PROVE UndoneBy'
  BY <1>12 DEF WriteFails, Fail
<1>13. ASSUME NEW r \in Run, BeginBuild(r) PROVE UndoneBy'
  BY <1>13 DEF BeginBuild
<1>14. ASSUME NEW r \in Run, Built(r) PROVE UndoneBy'
  BY <1>14 DEF Built
<1>15. ASSUME NEW r \in Run, BuildFails(r) PROVE UndoneBy'
  BY <1>15 DEF BuildFails, Fail
<1>16. ASSUME NEW r \in Run, KeepsNewer(r) PROVE UndoneBy'
  BY <1>16 DEF KeepsNewer, Fail
<1>17. ASSUME NEW r \in Run, NotAccepted(r) PROVE UndoneBy'
  BY <1>17 DEF NotAccepted, Fail
<1>18. ASSUME NEW r \in Run, MayWrite(r) PROVE UndoneBy'
  BY <1>18 DEF MayWrite
<1>19. ASSUME NEW r \in Run, Remark(r) PROVE UndoneBy'
  BY <1>19 DEF Remark, PutInPlace
<1>20. ASSUME NEW r \in Run, WriteFile(r) PROVE UndoneBy'
  BY <1>20 DEF WriteFile, PutInPlace
<1>21. ASSUME NEW r \in Run, Seal(r) PROVE UndoneBy'
  BY <1>21 DEF Seal, PutInPlace
<1>22. ASSUME NEW r \in Run, SealFails(r) PROVE UndoneBy'
  BY <1>22 DEF SealFails
<1>23. ASSUME NEW r \in Run, Written(r) PROVE UndoneBy'
  BY <1>23 DEF Written
<1>24. ASSUME NEW r \in Run, LetFolderGo(r) PROVE UndoneBy'
  BY <1>24 DEF LetFolderGo
<1>25. ASSUME NEW r \in Run, UndoMarker(r) PROVE UndoneBy'
  BY <1>25 DEF UndoMarker
<1>26. ASSUME NEW r \in Run, UndoFolder(r) PROVE UndoneBy'
  BY <1>26 DEF UndoFolder
<1>27. ASSUME NEW r \in Run, Interrupted(r) PROVE UndoneBy'
  BY <1>27 DEF Interrupted
<1>28. ASSUME NEW r \in Run, Crash(r) PROVE UndoneBy'
  BY <1>28 DEF Crash
<1>29. QED
  BY <1>1, <1>2, <1>3, <1>4, <1>5, <1>6, <1>7, <1>8, <1>9, <1>10, <1>11, <1>12, <1>13, <1>14,
     <1>15, <1>16, <1>17, <1>18, <1>19, <1>20, <1>21, <1>22, <1>23, <1>24, <1>25, <1>26,
     <1>27, <1>28
     DEF Next, Step, Claim, Write, Leave

(* Nothing but the undoing of a failed run takes the marker from under a   *)
(* run that is building its report, on any disk.                           *)
THEOREM UndoAloneUnmarks == Spec => []UnmarkedOnlyByUndo
<1>1. Init => UndoneBy
  BY DEF Init, FolderInit, UndoneBy, Nothing
<1>2. UndoneBy => UnmarkedOnlyByUndo
  BY DEF UndoneBy, HasUndone, UnmarkedOnlyByUndo
<1>3. QED
  BY <1>1, <1>2, StepUndone, AlwaysTypes, PTL DEF Spec

-----------------------------------------------------------------------------
(* Whose reports a reader hands over (ReportReader).  A seal is of a run   *)
(* that finished, and a run that finished stays so.                        *)
SealersFinish ==
    /\ \A r \in Run :
         /\ at[r] \in {"seal", "sealing", "wrote"} => next[r] = NumFiles
         /\ at[r] \notin {"ended", "dead", "letgo", "undomark", "undofolder"} => how[r] = "going"
    /\ marker.kind = "sealed" => Finished(marker.by)

LEMMA FinishedStays ==
    ASSUME FolderTypes, SealersFinish, [Next]_vars, NEW w \in Writer, Finished(w)
    PROVE  Finished(w)'
<1> USE DEF FolderTypes, SealersFinish, Finished, Writer, At, End
<1>1. CASE UNCHANGED vars
  BY <1>1 DEF vars, runVars
<1>2. ASSUME NEW r \in Run, Begin(r) PROVE Finished(w)'
  BY <1>2 DEF Begin
<1>3. ASSUME NEW r \in Run, MakeFolder(r) PROVE Finished(w)'
  BY <1>3 DEF MakeFolder
<1>4. ASSUME NEW r \in Run, RefuseFolder(r) PROVE Finished(w)'
  BY <1>4 DEF RefuseFolder
<1>5. ASSUME NEW r \in Run, TakeLock(r) PROVE Finished(w)'
  BY <1>5 DEF TakeLock, runVars
<1>6. ASSUME NEW r \in Run, ClaimFails(r) PROVE Finished(w)'
  BY <1>6 DEF ClaimFails
<1>7. ASSUME NEW r \in Run, Register(r) PROVE Finished(w)'
  BY <1>7 DEF Register
<1>8. ASSUME NEW r \in Run, Clean(r) PROVE Finished(w)'
  BY <1>8 DEF Clean
<1>9. ASSUME NEW r \in Run, AlreadyMarked(r) PROVE Finished(w)'
  BY <1>9 DEF AlreadyMarked
<1>10. ASSUME NEW r \in Run, Mark(r) PROVE Finished(w)'
  BY <1>10 DEF Mark, PutInPlace
<1>11. ASSUME NEW r \in Run, Stage(r) PROVE Finished(w)'
  BY <1>11 DEF Stage, Writing
<1>12. ASSUME NEW r \in Run, WriteFails(r) PROVE Finished(w)'
  BY <1>12 DEF WriteFails, Fail
<1>13. ASSUME NEW r \in Run, BeginBuild(r) PROVE Finished(w)'
  BY <1>13 DEF BeginBuild
<1>14. ASSUME NEW r \in Run, Built(r) PROVE Finished(w)'
  BY <1>14 DEF Built
<1>15. ASSUME NEW r \in Run, BuildFails(r) PROVE Finished(w)'
  BY <1>15 DEF BuildFails, Fail
<1>16. ASSUME NEW r \in Run, KeepsNewer(r) PROVE Finished(w)'
  BY <1>16 DEF KeepsNewer, Fail
<1>17. ASSUME NEW r \in Run, NotAccepted(r) PROVE Finished(w)'
  BY <1>17 DEF NotAccepted, Fail
<1>18. ASSUME NEW r \in Run, MayWrite(r) PROVE Finished(w)'
  BY <1>18 DEF MayWrite
<1>19. ASSUME NEW r \in Run, Remark(r) PROVE Finished(w)'
  BY <1>19 DEF Remark, PutInPlace
<1>20. ASSUME NEW r \in Run, WriteFile(r) PROVE Finished(w)'
  BY <1>20 DEF WriteFile, PutInPlace
<1>21. ASSUME NEW r \in Run, Seal(r) PROVE Finished(w)'
  BY <1>21 DEF Seal, PutInPlace
<1>22. ASSUME NEW r \in Run, SealFails(r) PROVE Finished(w)'
  BY <1>22 DEF SealFails
<1>23. ASSUME NEW r \in Run, Written(r) PROVE Finished(w)'
  BY <1>23 DEF Written
<1>24. ASSUME NEW r \in Run, LetFolderGo(r) PROVE Finished(w)'
  BY <1>24 DEF LetFolderGo
<1>25. ASSUME NEW r \in Run, UndoMarker(r) PROVE Finished(w)'
  BY <1>25 DEF UndoMarker
<1>26. ASSUME NEW r \in Run, UndoFolder(r) PROVE Finished(w)'
  BY <1>26 DEF UndoFolder
<1>27. ASSUME NEW r \in Run, Interrupted(r) PROVE Finished(w)'
  BY <1>27 DEF Interrupted
<1>28. ASSUME NEW r \in Run, Crash(r) PROVE Finished(w)'
  BY <1>28 DEF Crash
<1>29. QED
  BY <1>1, <1>2, <1>3, <1>4, <1>5, <1>6, <1>7, <1>8, <1>9, <1>10, <1>11, <1>12, <1>13, <1>14,
     <1>15, <1>16, <1>17, <1>18, <1>19, <1>20, <1>21, <1>22, <1>23, <1>24, <1>25, <1>26,
     <1>27, <1>28
     DEF Next, Step, Claim, Write, Leave

LEMMA StepSealers == FolderTypes /\ SealersFinish /\ [Next]_vars => SealersFinish'
<1> SUFFICES ASSUME FolderTypes, SealersFinish, [Next]_vars PROVE SealersFinish'
  OBVIOUS
<1> DEFINE Going(r) ==
      /\ at[r] \in {"seal", "sealing", "wrote"} => next[r] = NumFiles
      /\ at[r] \notin {"ended", "dead", "letgo", "undomark", "undofolder"} => how[r] = "going"
<1>1. \A q \in Run : Going(q)'
  <2> USE DEF FolderTypes, SealersFinish, At, End
  <2>1. CASE UNCHANGED vars
    BY <2>1 DEF vars, runVars
  <2>2. ASSUME NEW r \in Run, Begin(r) PROVE \A q \in Run : Going(q)'
    BY <2>2 DEF Begin
  <2>3. ASSUME NEW r \in Run, MakeFolder(r) PROVE \A q \in Run : Going(q)'
    BY <2>3 DEF MakeFolder
  <2>4. ASSUME NEW r \in Run, RefuseFolder(r) PROVE \A q \in Run : Going(q)'
    BY <2>4 DEF RefuseFolder
  <2>5. ASSUME NEW r \in Run, TakeLock(r) PROVE \A q \in Run : Going(q)'
    BY <2>5 DEF TakeLock, runVars
  <2>6. ASSUME NEW r \in Run, ClaimFails(r) PROVE \A q \in Run : Going(q)'
    BY <2>6 DEF ClaimFails
  <2>7. ASSUME NEW r \in Run, Register(r) PROVE \A q \in Run : Going(q)'
    BY <2>7 DEF Register
  <2>8. ASSUME NEW r \in Run, Clean(r) PROVE \A q \in Run : Going(q)'
    BY <2>8 DEF Clean
  <2>9. ASSUME NEW r \in Run, AlreadyMarked(r) PROVE \A q \in Run : Going(q)'
    BY <2>9 DEF AlreadyMarked
  <2>10. ASSUME NEW r \in Run, Mark(r) PROVE \A q \in Run : Going(q)'
    BY <2>10 DEF Mark, PutInPlace
  <2>11. ASSUME NEW r \in Run, Stage(r) PROVE \A q \in Run : Going(q)'
    BY <2>11 DEF Stage, Writing
  <2>12. ASSUME NEW r \in Run, WriteFails(r) PROVE \A q \in Run : Going(q)'
    BY <2>12 DEF WriteFails, Fail
  <2>13. ASSUME NEW r \in Run, BeginBuild(r) PROVE \A q \in Run : Going(q)'
    BY <2>13 DEF BeginBuild
  <2>14. ASSUME NEW r \in Run, Built(r) PROVE \A q \in Run : Going(q)'
    BY <2>14 DEF Built
  <2>15. ASSUME NEW r \in Run, BuildFails(r) PROVE \A q \in Run : Going(q)'
    BY <2>15 DEF BuildFails, Fail
  <2>16. ASSUME NEW r \in Run, KeepsNewer(r) PROVE \A q \in Run : Going(q)'
    BY <2>16 DEF KeepsNewer, Fail
  <2>17. ASSUME NEW r \in Run, NotAccepted(r) PROVE \A q \in Run : Going(q)'
    BY <2>17 DEF NotAccepted, Fail
  <2>18. ASSUME NEW r \in Run, MayWrite(r) PROVE \A q \in Run : Going(q)'
    BY <2>18 DEF MayWrite
  <2>19. ASSUME NEW r \in Run, Remark(r) PROVE \A q \in Run : Going(q)'
    BY <2>19 DEF Remark, PutInPlace
  <2>20. ASSUME NEW r \in Run, WriteFile(r) PROVE \A q \in Run : Going(q)'
    BY <2>20 DEF WriteFile, PutInPlace
  <2>21. ASSUME NEW r \in Run, Seal(r) PROVE \A q \in Run : Going(q)'
    BY <2>21 DEF Seal, PutInPlace
  <2>22. ASSUME NEW r \in Run, SealFails(r) PROVE \A q \in Run : Going(q)'
    BY <2>22 DEF SealFails
  <2>23. ASSUME NEW r \in Run, Written(r) PROVE \A q \in Run : Going(q)'
    BY <2>23 DEF Written
  <2>24. ASSUME NEW r \in Run, LetFolderGo(r) PROVE \A q \in Run : Going(q)'
    BY <2>24 DEF LetFolderGo
  <2>25. ASSUME NEW r \in Run, UndoMarker(r) PROVE \A q \in Run : Going(q)'
    BY <2>25 DEF UndoMarker
  <2>26. ASSUME NEW r \in Run, UndoFolder(r) PROVE \A q \in Run : Going(q)'
    BY <2>26 DEF UndoFolder
  <2>27. ASSUME NEW r \in Run, Interrupted(r) PROVE \A q \in Run : Going(q)'
    BY <2>27 DEF Interrupted
  <2>28. ASSUME NEW r \in Run, Crash(r) PROVE \A q \in Run : Going(q)'
    BY <2>28 DEF Crash
  <2>29. QED
    BY <2>1, <2>2, <2>3, <2>4, <2>5, <2>6, <2>7, <2>8, <2>9, <2>10, <2>11, <2>12, <2>13, <2>14,
       <2>15, <2>16, <2>17, <2>18, <2>19, <2>20, <2>21, <2>22, <2>23, <2>24, <2>25, <2>26,
       <2>27, <2>28
       DEF Next, Step, Claim, Write, Leave
<1>2. ASSUME marker'.kind = "sealed" PROVE Finished(marker.by)'
  <2>1. CASE UNCHANGED marker
    <3>1. marker.by \in Writer
      BY <1>2, <2>1 DEF FolderTypes, Marker, NoMarker, Plain, Sealed
    <3>2. QED
      BY <1>2, <2>1, <3>1, FinishedStays DEF SealersFinish
  <2>2. CASE ~UNCHANGED marker
    <3>1. PICK r \in Run : Mark(r) \/ Remark(r) \/ WriteFile(r) \/ Seal(r) \/ UndoMarker(r)
      BY <2>2, TouchingSteps DEF Untouched
    <3>2. Seal(r)
      BY <1>2, <2>2, <3>1 DEF Mark, Remark, WriteFile, UndoMarker, Plain, NoMarker
    <3>3. /\ at[r] = "sealing" /\ at' = [at EXCEPT ![r] = "wrote"]
          /\ next' = next /\ how' = how /\ marker'.by = r
      BY <3>2 DEF Seal, PutInPlace, At, Sealed
    <3>4. QED
      BY <3>3 DEF SealersFinish, FolderTypes, Finished
  <2>3. QED
    BY <2>1, <2>2
<1>3. QED
  BY <1>1, <1>2 DEF SealersFinish

LEMMA AlwaysSealers == Spec => []SealersFinish
<1>1. Init => SealersFinish
  BY DEF Init, FolderInit, SealersFinish, Finished, NoMarker, Plain, Sealed
<1>2. QED
  BY <1>1, StepSealers, AlwaysTypes, PTL DEF Spec

(* The reader has a seal of a run that had finished when it read it.       *)
ReadsFinished ==
    /\ reading \in {"digests", "proven", "looked", "given"} =>
           sealOf \in Writer /\ Finished(sealOf)
    /\ given # NoRun => given \in Writer /\ Finished(given)

LEMMA StepReads ==
    FolderTypes /\ SealersFinish /\ ReadsFinished /\ [ReadingNext]_allVars => ReadsFinished'
<1> SUFFICES ASSUME FolderTypes, SealersFinish, ReadsFinished, [ReadingNext]_allVars
             PROVE  ReadsFinished'
  OBVIOUS
<1>1. CASE [Next]_vars /\ UNCHANGED readerVars
  <2>1. \A w \in Writer : Finished(w) => Finished(w)'
    BY <1>1, FinishedStays
  <2>2. QED
    BY <1>1, <2>1 DEF ReadsFinished, readerVars
<1>2. CASE Reader /\ UNCHANGED vars
  <2>1. \A w : Finished(w)' <=> Finished(w)
    BY <1>2 DEF vars, runVars, Finished
  <2>2. CASE ReadSeal
    <3>1. marker.kind = "sealed" => marker.by \in Writer
      BY DEF FolderTypes, Marker, NoMarker, Plain, Sealed
    <3>2. QED
      BY <2>1, <2>2, <3>1 DEF ReadSeal, ReadsFinished, SealersFinish
  <2>3. CASE HandOver
    BY <2>1, <2>3 DEF HandOver, ReadsFinished
  <2>4. QED
    BY <1>2, <2>1, <2>2, <2>3 DEF Reader, ListFolder, Digest, Look, ReadsFinished
<1>3. QED
  BY <1>1, <1>2 DEF ReadingNext, allVars

(* The reader hands over files of finished runs only, whatever is written  *)
(* around it and whether or not the disk locks.                            *)
THEOREM FinishedIsGiven == ReadingSpec => []OnlyFinishedGiven
<1>1. ReadingSpec => Spec
  <2>1. ReadingInit => Init
    BY DEF ReadingInit
  <2>2. [ReadingNext]_allVars => [Next]_vars
    BY DEF ReadingNext, allVars
  <2>3. QED
    BY <2>1, <2>2, PTL DEF ReadingSpec, Spec
<1>2. ReadingInit => ReadsFinished
  BY DEF ReadingInit, ReaderInit, ReadsFinished
<1>3. ReadsFinished => OnlyFinishedGiven
  BY DEF ReadsFinished, OnlyFinishedGiven
<1>4. QED
  BY <1>1, <1>2, <1>3, StepReads, AlwaysTypes, AlwaysSealers, PTL DEF ReadingSpec

-----------------------------------------------------------------------------
(* What a run that ends without its report leaves behind (FolderAsFound),  *)
(* on a disk that locks and refuses nothing.  As long as no other run has  *)
(* begun, this is how far the folder is from the one found, and what the   *)
(* run knows to undo.                                                      *)
Staged == {"marking", "remarking", "writing", "sealing"}

(* Before the first report file is replaced, or after it was settled that  *)
(* none will be.                                                           *)
Unreplaced(r) ==
    \/ at[r] \in {"idle", "make", "take", "clean", "mark", "marking", "begin", "build", "older"}
    \/ at[r] \in {"letgo", "undomark", "undofolder", "ended"} /\ how[r] # "written"

Alone(r) == \A q \in Run \ {r} : at[q] = "idle"

LockAsFound(r) ==
    /\ lk[r] # "refused"
    /\ lk[r] = "unlink" => holder = NoRun
    /\ lk[r] \in {"unlock", "gone"} => holder = NoRun /\ lockFile = 0
    /\ at[r] = "letgo" => lk[r] \in {"held", "unhold", "unlink", "unlock"}
    /\ at[r] \in {"undomark", "undofolder"} => lk[r] \in {"unlock", "gone"}

DirAsFound(r) ==
    /\ at[r] # "idle" => made[r] = ~found.dir
    /\ at[r] \in {"idle", "make"} => dir = found.dir
    /\ at[r] \notin {"idle", "make", "ended", "dead"} => dir
    /\ at[r] = "ended" /\ how[r] # "written" /\ lk[r] # "failed" => dir = found.dir

MarkerAsFound(r) ==
    /\ at[r] \notin {"idle", "make", "take", "ended", "dead"} /\ how[r] # "written" =>
           undo[r] = [marker |-> found.marker = NoMarker, folder |-> ~found.dir]
    /\ at[r] \in {"idle", "make", "take", "clean", "mark", "marking"} => marker = found.marker
    /\ at[r] = "marking" => marker = NoMarker
    /\ Unreplaced(r) => marker = found.marker \/ found.marker = NoMarker
    /\ at[r] \in {"undofolder", "ended"} /\ how[r] # "written" => marker = found.marker

FilesAsFound(r) ==
    /\ Unreplaced(r) => files = found.files
    /\ at[r] # "dead" => staging = IF at[r] \in Staged THEN {r} ELSE {}

AsFound(r) == LockAsFound(r) /\ DirAsFound(r) /\ MarkerAsFound(r) /\ FilesAsFound(r)

FoundInv ==
    /\ found.dir \in BOOLEAN
    /\ ~found.dir => ~others /\ found.marker = NoMarker /\ \A f \in File : found.files[f] = NoRun
    /\ \A r \in Run : Alone(r) => AsFound(r)

(* Once it has begun, a run is never again one that has not.               *)
LEMMA BegunMoves ==
    ASSUME FolderTypes, NEW r \in Run, Begin(r) \/ Step(r) \/ Interrupted(r) \/ Crash(r)
    PROVE  at'[r] # "idle" /\ \A q \in Run \ {r} : at'[q] = at[q]
<1> USE DEF FolderTypes, At
<1>1. CASE Begin(r)
  BY <1>1 DEF Begin
<1>2. CASE MakeFolder(r)
  BY <1>2 DEF MakeFolder
<1>3. CASE RefuseFolder(r)
  BY <1>3 DEF RefuseFolder
<1>4. CASE TakeLock(r)
  BY <1>4 DEF TakeLock, runVars
<1>5. CASE ClaimFails(r)
  BY <1>5 DEF ClaimFails
<1>6. CASE Register(r)
  BY <1>6 DEF Register
<1>7. CASE Clean(r)
  BY <1>7 DEF Clean
<1>8. CASE AlreadyMarked(r)
  BY <1>8 DEF AlreadyMarked
<1>9. CASE Mark(r)
  BY <1>9 DEF Mark, PutInPlace
<1>10. CASE Stage(r)
  BY <1>10 DEF Stage, Writing
<1>11. CASE WriteFails(r)
  BY <1>11 DEF WriteFails, Fail
<1>12. CASE BeginBuild(r)
  BY <1>12 DEF BeginBuild
<1>13. CASE Built(r)
  BY <1>13 DEF Built
<1>14. CASE BuildFails(r)
  BY <1>14 DEF BuildFails, Fail
<1>15. CASE KeepsNewer(r)
  BY <1>15 DEF KeepsNewer, Fail
<1>16. CASE NotAccepted(r)
  BY <1>16 DEF NotAccepted, Fail
<1>17. CASE MayWrite(r)
  BY <1>17 DEF MayWrite
<1>18. CASE Remark(r)
  BY <1>18 DEF Remark, PutInPlace
<1>19. CASE WriteFile(r)
  BY <1>19 DEF WriteFile, PutInPlace
<1>20. CASE Seal(r)
  BY <1>20 DEF Seal, PutInPlace
<1>21. CASE SealFails(r)
  BY <1>21 DEF SealFails
<1>22. CASE Written(r)
  BY <1>22 DEF Written
<1>23. CASE LetFolderGo(r)
  BY <1>23 DEF LetFolderGo
<1>24. CASE UndoMarker(r)
  BY <1>24 DEF UndoMarker
<1>25. CASE UndoFolder(r)
  BY <1>25 DEF UndoFolder
<1>26. CASE Interrupted(r)
  BY <1>26 DEF Interrupted
<1>27. CASE Crash(r)
  BY <1>27 DEF Crash
<1>28. QED
  BY <1>1, <1>2, <1>3, <1>4, <1>5, <1>6, <1>7, <1>8, <1>9, <1>10, <1>11, <1>12, <1>13, <1>14,
     <1>15, <1>16, <1>17, <1>18, <1>19, <1>20, <1>21, <1>22, <1>23, <1>24, <1>25, <1>26,
     <1>27
     DEF Step, Claim, Write, Leave

(* A run alone in the folder is refused by nobody.                         *)
LEMMA NobodyRefuses ==
    ASSUME Inv1, PlacesFit, NEW r \in Run, Alone(r)
    PROVE  ~Refuse(r)
<1>1. \A q \in Run \ {r} : ~locked[q]
  BY DEF Inv1, LockedIsOpen, PlacesFit, Alone, Owning
<1>2. lk[r] = "try" => ~locked[r]
  BY DEF Inv1, LockedIsOpen, Owning
<1>3. QED
  BY <1>1, <1>2 DEF Refuse, Locked

LEMMA LockStaysAsFound ==
    ASSUME Lockable, Inv1, FolderTypes, PlacesFit, NEW r \in Run, Alone(r), AsFound(r),
           Begin(r) \/ Step(r) \/ Interrupted(r) \/ Crash(r)
    PROVE  LockAsFound(r)'
<1> USE DEF Inv1, LockTypeOK, FolderTypes, PlacesFit, Working, AsFound, LockAsFound, At, End, GoTo,
            Lockable, Phase, Owning
<1>1. CASE Begin(r)
  BY <1>1 DEF Begin, lockVars
<1>2. CASE MakeFolder(r)
  BY <1>2 DEF MakeFolder, Ask, lockVars, onDisk
<1>3. CASE RefuseFolder(r)
  BY <1>3 DEF RefuseFolder, lockVars
<1>4. CASE TakeLock(r)
  <2>1. ~Refuse(r)
    BY NobodyRefuses
  <2>2. at[r] = "take" /\ at' = at
    BY <1>4 DEF TakeLock, runVars
  <2>3. lk'[r] \notin {"refused", "unlink", "unlock", "gone"}
    BY <1>4, <2>1
       DEF TakeLock, Take, OpenNew, NameExists, OpenExisting, NameVanished, TryLock, NoLocks,
           SameFile, OtherFile, EmptyLock, PutLock, EmptyHolder, PutHolder, PutFails, OpenFails
  <2>4. QED
    BY <2>2, <2>3
<1>5. CASE ClaimFails(r)
  BY <1>5 DEF ClaimFails, lockVars
<1>6. CASE Register(r)
  BY <1>6 DEF Register, lockVars
<1>7. CASE Clean(r)
  BY <1>7 DEF Clean, lockVars
<1>8. CASE AlreadyMarked(r)
  BY <1>8 DEF AlreadyMarked, lockVars
<1>9. CASE Mark(r)
  BY <1>9 DEF Mark, PutInPlace, lockVars
<1>10. CASE Stage(r)
  BY <1>10 DEF Stage, Writing, lockVars
<1>11. CASE WriteFails(r)
  BY <1>11 DEF WriteFails, Fail, lockVars
<1>12. CASE BeginBuild(r)
  BY <1>12 DEF BeginBuild, lockVars
<1>13. CASE Built(r)
  BY <1>13 DEF Built, lockVars
<1>14. CASE BuildFails(r)
  BY <1>14 DEF BuildFails, Fail, lockVars
<1>15. CASE KeepsNewer(r)
  BY <1>15 DEF KeepsNewer, Fail, lockVars
<1>16. CASE NotAccepted(r)
  BY <1>16 DEF NotAccepted, Fail, lockVars
<1>17. CASE MayWrite(r)
  BY <1>17 DEF MayWrite, lockVars
<1>18. CASE Remark(r)
  BY <1>18 DEF Remark, PutInPlace, lockVars
<1>19. CASE WriteFile(r)
  BY <1>19 DEF WriteFile, PutInPlace, lockVars
<1>20. CASE Seal(r)
  BY <1>20 DEF Seal, PutInPlace, lockVars
<1>21. CASE SealFails(r)
  BY <1>21 DEF SealFails, lockVars
<1>22. CASE Written(r)
  BY <1>22 DEF Written, lockVars
<1>23. CASE LetFolderGo(r)
  BY <1>23 DEF LetFolderGo, LetGo, RemoveHolder, RemoveLock, Unlock, OwnerHasName, lockVars, onDisk
<1>24. CASE UndoMarker(r)
  BY <1>24 DEF UndoMarker, lockVars
<1>25. CASE UndoFolder(r)
  BY <1>25 DEF UndoFolder, Unlock, lockVars, onDisk
<1>26. CASE Interrupted(r)
  BY <1>26 DEF Interrupted, lockVars
<1>27. CASE Crash(r)
  BY <1>27 DEF Crash, Die
<1>28. QED
  BY <1>1, <1>2, <1>3, <1>4, <1>5, <1>6, <1>7, <1>8, <1>9, <1>10, <1>11, <1>12, <1>13, <1>14,
     <1>15, <1>16, <1>17, <1>18, <1>19, <1>20, <1>21, <1>22, <1>23, <1>24, <1>25, <1>26,
     <1>27
     DEF Step, Claim, Write, Leave

LEMMA DirStaysAsFound ==
    ASSUME Lockable, "disk" \notin Faults, FolderTypes, PlacesFit, SealersFinish, FoundInv, UNCHANGED found,
           NEW r \in Run, Alone(r),
           Begin(r) \/ Step(r) \/ Interrupted(r) \/ Crash(r)
    PROVE  DirAsFound(r)'
<1> USE DEF FolderTypes, SealersFinish, AsFound, FoundInv, DirAsFound, MarkerAsFound, FilesAsFound,
            LockAsFound, Staged, Unreplaced, At, End, folderVars
<1>1. CASE Begin(r)
  BY <1>1 DEF Begin
<1>2. CASE MakeFolder(r)
  BY <1>2 DEF MakeFolder
<1>3. CASE RefuseFolder(r)
  BY <1>3 DEF RefuseFolder
<1>4. CASE TakeLock(r)
  BY <1>4 DEF TakeLock, runVars
<1>5. CASE ClaimFails(r)
  <2>1. at[r] = "take" /\ lk[r] = "failed" /\ lk' = lk /\ at' = [at EXCEPT ![r] = "ended"] /\ made' = made
    BY <1>5 DEF ClaimFails, lockVars
  <2>2. at'[r] = "ended" /\ lk'[r] = "failed"
    BY <2>1
  <2>3. QED
    BY <2>1, <2>2
<1>6. CASE Register(r)
  BY <1>6 DEF Register
<1>7. CASE Clean(r)
  BY <1>7 DEF Clean
<1>8. CASE AlreadyMarked(r)
  BY <1>8 DEF AlreadyMarked
<1>9. CASE Mark(r)
  BY <1>9 DEF Mark, PutInPlace
<1>10. CASE Stage(r)
  <2>1. /\ at[r] \in {"mark", "remark", "write", "seal"}
        /\ at'[r] \in {"marking", "remarking", "writing", "sealing"}
        /\ at[r] = "mark" => at'[r] = "marking" /\ marker = NoMarker
        /\ at'[r] = "marking" => at[r] = "mark"
    BY <1>10 DEF Stage, Writing
  <2>2. UNCHANGED <<lockVars, how, made, undo, dir, marker, files>>
    BY <1>10 DEF Stage
  <2>3. QED
    BY <2>1, <2>2 DEF lockVars
<1>11. CASE WriteFails(r)
  BY <1>11 DEF WriteFails, Fail
<1>12. CASE BeginBuild(r)
  BY <1>12 DEF BeginBuild
<1>13. CASE Built(r)
  BY <1>13 DEF Built
<1>14. CASE BuildFails(r)
  BY <1>14 DEF BuildFails, Fail
<1>15. CASE KeepsNewer(r)
  BY <1>15 DEF KeepsNewer, Fail
<1>16. CASE NotAccepted(r)
  BY <1>16 DEF NotAccepted, Fail
<1>17. CASE MayWrite(r)
  BY <1>17 DEF MayWrite
<1>18. CASE Remark(r)
  BY <1>18 DEF Remark, PutInPlace
<1>19. CASE WriteFile(r)
  BY <1>19 DEF WriteFile, PutInPlace
<1>20. CASE Seal(r)
  BY <1>20 DEF Seal, PutInPlace
<1>21. CASE SealFails(r)
  BY <1>21 DEF SealFails
<1>22. CASE Written(r)
  BY <1>22 DEF Written
<1>23. CASE LetFolderGo(r)
  BY <1>23 DEF LetFolderGo
<1>24. CASE UndoMarker(r)
  BY <1>24 DEF UndoMarker
<1>25. CASE UndoFolder(r)
  <2>1. /\ at[r] = "undofolder" /\ at'[r] = "ended" /\ how' = how /\ made' = made
        /\ dir' = (dir /\ ~(undo[r].folder /\ Empty))
    BY <1>25 DEF UndoFolder
  <2>2. ASSUME how[r] # "written" PROVE dir' = found.dir
    <3>1. dir /\ undo[r].folder = ~found.dir /\ marker = found.marker /\ files = found.files
      BY <2>1, <2>2
    <3>2. staging = {} /\ holder = NoRun /\ lockFile = 0
      BY <2>1
    <3>3. ~found.dir => Empty
      BY <3>1, <3>2 DEF Empty
    <3>4. QED
      BY <2>1, <3>1, <3>3
  <2>3. QED
    BY <2>1, <2>2
<1>26. CASE Interrupted(r)
  BY <1>26 DEF Interrupted
<1>27. CASE Crash(r)
  BY <1>27 DEF Crash
<1>28. QED
  BY <1>1, <1>2, <1>3, <1>4, <1>5, <1>6, <1>7, <1>8, <1>9, <1>10, <1>11, <1>12, <1>13, <1>14,
     <1>15, <1>16, <1>17, <1>18, <1>19, <1>20, <1>21, <1>22, <1>23, <1>24, <1>25, <1>26,
     <1>27
     DEF Step, Claim, Write, Leave

LEMMA MarkerStaysAsFound ==
    ASSUME Lockable, "disk" \notin Faults, FolderTypes, PlacesFit, SealersFinish, FoundInv, UNCHANGED found,
           NEW r \in Run, Alone(r),
           Begin(r) \/ Step(r) \/ Interrupted(r) \/ Crash(r)
    PROVE  MarkerAsFound(r)'
<1> USE DEF FolderTypes, SealersFinish, AsFound, FoundInv, DirAsFound, MarkerAsFound, FilesAsFound,
            LockAsFound, Staged, Unreplaced, At, End, folderVars
<1>1. CASE Begin(r)
  BY <1>1 DEF Begin
<1>2. CASE MakeFolder(r)
  BY <1>2 DEF MakeFolder
<1>3. CASE RefuseFolder(r)
  BY <1>3 DEF RefuseFolder
<1>4. CASE TakeLock(r)
  BY <1>4 DEF TakeLock, runVars
<1>5. CASE ClaimFails(r)
  BY <1>5 DEF ClaimFails
<1>6. CASE Register(r)
  BY <1>6 DEF Register
<1>7. CASE Clean(r)
  BY <1>7 DEF Clean
<1>8. CASE AlreadyMarked(r)
  BY <1>8 DEF AlreadyMarked
<1>9. CASE Mark(r)
  BY <1>9 DEF Mark, PutInPlace
<1>10. CASE Stage(r)
  <2>1. /\ at[r] \in {"mark", "remark", "write", "seal"}
        /\ at'[r] \in {"marking", "remarking", "writing", "sealing"}
        /\ at[r] = "mark" => at'[r] = "marking" /\ marker = NoMarker
        /\ at'[r] = "marking" => at[r] = "mark"
    BY <1>10 DEF Stage, Writing
  <2>2. UNCHANGED <<lockVars, how, made, undo, dir, marker, files>>
    BY <1>10 DEF Stage
  <2>3. QED
    BY <2>1, <2>2 DEF lockVars
<1>11. CASE WriteFails(r)
  BY <1>11 DEF WriteFails, Fail
<1>12. CASE BeginBuild(r)
  BY <1>12 DEF BeginBuild
<1>13. CASE Built(r)
  BY <1>13 DEF Built
<1>14. CASE BuildFails(r)
  BY <1>14 DEF BuildFails, Fail
<1>15. CASE KeepsNewer(r)
  BY <1>15 DEF KeepsNewer, Fail
<1>16. CASE NotAccepted(r)
  BY <1>16 DEF NotAccepted, Fail
<1>17. CASE MayWrite(r)
  BY <1>17 DEF MayWrite
<1>18. CASE Remark(r)
  BY <1>18 DEF Remark, PutInPlace
<1>19. CASE WriteFile(r)
  BY <1>19 DEF WriteFile, PutInPlace
<1>20. CASE Seal(r)
  BY <1>20 DEF Seal, PutInPlace
<1>21. CASE SealFails(r)
  BY <1>21 DEF SealFails
<1>22. CASE Written(r)
  BY <1>22 DEF Written
<1>23. CASE LetFolderGo(r)
  BY <1>23 DEF LetFolderGo
<1>24. CASE UndoMarker(r)
  BY <1>24 DEF UndoMarker
<1>25. CASE UndoFolder(r)
  BY <1>25 DEF UndoFolder
<1>26. CASE Interrupted(r)
  BY <1>26 DEF Interrupted
<1>27. CASE Crash(r)
  BY <1>27 DEF Crash
<1>28. QED
  BY <1>1, <1>2, <1>3, <1>4, <1>5, <1>6, <1>7, <1>8, <1>9, <1>10, <1>11, <1>12, <1>13, <1>14,
     <1>15, <1>16, <1>17, <1>18, <1>19, <1>20, <1>21, <1>22, <1>23, <1>24, <1>25, <1>26,
     <1>27
     DEF Step, Claim, Write, Leave

LEMMA FilesStayAsFound ==
    ASSUME Lockable, "disk" \notin Faults, FolderTypes, PlacesFit, SealersFinish, FoundInv, UNCHANGED found,
           NEW r \in Run, Alone(r),
           Begin(r) \/ Step(r) \/ Interrupted(r) \/ Crash(r)
    PROVE  FilesAsFound(r)'
<1> USE DEF FolderTypes, SealersFinish, AsFound, FoundInv, FilesAsFound, LockAsFound,
            Staged, Unreplaced, At, End, folderVars
<1>1. CASE Begin(r)
  BY <1>1 DEF Begin
<1>2. CASE MakeFolder(r)
  BY <1>2 DEF MakeFolder
<1>3. CASE RefuseFolder(r)
  BY <1>3 DEF RefuseFolder
<1>4. CASE TakeLock(r)
  BY <1>4 DEF TakeLock, runVars
<1>5. CASE ClaimFails(r)
  BY <1>5 DEF ClaimFails
<1>6. CASE Register(r)
  BY <1>6 DEF Register
<1>7. CASE Clean(r)
  BY <1>7 DEF Clean
<1>8. CASE AlreadyMarked(r)
  BY <1>8 DEF AlreadyMarked
<1>9. CASE Mark(r)
  BY <1>9 DEF Mark, PutInPlace
<1>10. CASE Stage(r)
  BY <1>10 DEF Stage, Writing
<1>11. CASE WriteFails(r)
  BY <1>11 DEF WriteFails, Fail
<1>12. CASE BeginBuild(r)
  BY <1>12 DEF BeginBuild
<1>13. CASE Built(r)
  BY <1>13 DEF Built
<1>14. CASE BuildFails(r)
  BY <1>14 DEF BuildFails, Fail
<1>15. CASE KeepsNewer(r)
  BY <1>15 DEF KeepsNewer, Fail
<1>16. CASE NotAccepted(r)
  BY <1>16 DEF NotAccepted, Fail
<1>17. CASE MayWrite(r)
  BY <1>17 DEF MayWrite
<1>18. CASE Remark(r)
  BY <1>18 DEF Remark, PutInPlace
<1>19. CASE WriteFile(r)
  BY <1>19 DEF WriteFile, PutInPlace
<1>20. CASE Seal(r)
  BY <1>20 DEF Seal, PutInPlace
<1>21. CASE SealFails(r)
  BY <1>21 DEF SealFails
<1>22. CASE Written(r)
  BY <1>22 DEF Written
<1>23. CASE LetFolderGo(r)
  BY <1>23 DEF LetFolderGo
<1>24. CASE UndoMarker(r)
  BY <1>24 DEF UndoMarker
<1>25. CASE UndoFolder(r)
  BY <1>25 DEF UndoFolder
<1>26. CASE Interrupted(r)
  BY <1>26 DEF Interrupted
<1>27. CASE Crash(r)
  BY <1>27 DEF Crash
<1>28. QED
  BY <1>1, <1>2, <1>3, <1>4, <1>5, <1>6, <1>7, <1>8, <1>9, <1>10, <1>11, <1>12, <1>13, <1>14,
     <1>15, <1>16, <1>17, <1>18, <1>19, <1>20, <1>21, <1>22, <1>23, <1>24, <1>25, <1>26,
     <1>27
     DEF Step, Claim, Write, Leave

LEMMA StepFound ==
    ASSUME Lockable, "disk" \notin Faults, Inv1, FolderTypes, PlacesFit, SealersFinish,
           FoundInv, [FoundNext]_<<vars, found>>
    PROVE  FoundInv'
<1>1. CASE UNCHANGED <<vars, found>>
  BY <1>1 DEF FoundInv, Alone, AsFound, LockAsFound, DirAsFound, MarkerAsFound, FilesAsFound,
              Unreplaced, vars, lockVars, runVars, timeVars, folderVars
<1>2. CASE FoundNext
  <2>1. found' = found /\ others' = others
    BY <1>2 DEF FoundNext, Next, Step, Claim, Write, Leave, folderVars, Begin, MakeFolder,
         RefuseFolder, TakeLock, ClaimFails, Register, Clean, AlreadyMarked, Mark, Stage, WriteFails,
         BeginBuild, Built, BuildFails, KeepsNewer, NotAccepted, MayWrite, Remark, WriteFile, Seal,
         SealFails, Written, LetFolderGo, UndoMarker, UndoFolder, Interrupted, Crash, Fail
  <2>2. PICK r \in Run : Begin(r) \/ Step(r) \/ Interrupted(r) \/ Crash(r)
    BY <1>2 DEF FoundNext, Next
  <2>3. at'[r] # "idle" /\ \A q \in Run \ {r} : at'[q] = at[q]
    BY <2>2, BegunMoves
  <2>4. ASSUME NEW q \in Run, Alone(q)' PROVE AsFound(q)'
    <3>1. q = r
      BY <2>3, <2>4 DEF Alone
    <3>2. Alone(r) /\ AsFound(r)
      BY <2>3, <2>4, <3>1 DEF Alone, FoundInv
    <3>3. QED
      BY <2>1, <2>2, <3>1, <3>2, LockStaysAsFound, DirStaysAsFound, MarkerStaysAsFound,
         FilesStayAsFound DEF AsFound
  <2>5. QED
    BY <2>1, <2>4 DEF FoundInv
<1>3. QED
  BY <1>1, <1>2

LEMMA InitFound == FoundInit => FoundInv
<1> SUFFICES ASSUME FoundInit PROVE FoundInv
  OBVIOUS
<1>1. found.dir = dir /\ found.marker = marker /\ found.files = files
  BY DEF FoundInit, Folder
<1>2. /\ dir \in BOOLEAN /\ (~dir => Empty) /\ staging = {}
      /\ \A r \in Run : at[r] = "idle" /\ lk[r] = "out"
  BY DEF FoundInit, Init, FolderInit, LockInit
<1>3. ASSUME NEW r \in Run PROVE AsFound(r)
  BY <1>1, <1>2 DEF AsFound, LockAsFound, DirAsFound, MarkerAsFound, FilesAsFound, Staged
<1>4. QED
  BY <1>1, <1>2, <1>3 DEF FoundInv, Empty

(* A run that ends without its report leaves the folder as it found it,    *)
(* on a disk that locks and refuses nothing.                               *)
THEOREM FailureLeavesFolder ==
    ASSUME Lockable, "disk" \notin Faults
    PROVE  FoundSpec => []FailedRunLeavesFolder
<1>1. FoundSpec => Spec
  <2>1. FoundInit => Init
    BY DEF FoundInit
  <2>2. [FoundNext]_<<vars, found>> => [Next]_vars
    BY DEF FoundNext
  <2>3. QED
    BY <2>1, <2>2, PTL DEF FoundSpec, Spec
<1>2. Inv1 /\ FolderTypes /\ PlacesFit /\ SealersFinish /\ FoundInv /\ [FoundNext]_<<vars, found>>
      => FoundInv'
  BY StepFound
<1>3. FoundSpec => []FoundInv
  BY <1>1, <1>2, InitFound, AlwaysLockInv, AlwaysTypes, AlwaysPlaces, AlwaysSealers, PTL
     DEF FoundSpec
<1>4. FoundInv => FailedRunLeavesFolder
  BY DEF FoundInv, FailedRunLeavesFolder, FailedAlone, Alone, AsFound, DirAsFound, MarkerAsFound,
         FilesAsFound, Unreplaced
<1>5. QED
  BY <1>3, <1>4, PTL
=============================================================================
