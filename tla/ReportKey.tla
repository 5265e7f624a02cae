----------------------------- MODULE ReportKey -----------------------------
(***************************************************************************)
(* The key a computer seals its reports and reviews with, and how runs on  *)
(* a computer that has none yet make it (Key::load_or_make_named of        *)
(* sv-check/src/seal.rs): each looks, writes a key of its own to a file of *)
(* its own, and links that file to the key's name, which only one can.     *)
(*                                                                         *)
(* A key is 32 random bytes, so no two runs draw the same: it is named by  *)
(* the run that drew it, Past for one made before.  Left out, because no   *)
(* run does it: a link or a folder under the key's name, and a key that is *)
(* taken away while it is being made.                                      *)
(***************************************************************************)
EXTENDS Naturals

CONSTANTS
    Run,    \* the runs that need a key
    Past,   \* a run before them
    NoKey,  \* no file
    Part,   \* a file with part of a key in it
    Faults  \* what may go wrong for each run: "disk", "kill"

Key == Run \union {Past}

ASSUME KeyAssumption == Past \notin Run /\ NoKey \notin Key /\ Part \notin Key /\ NoKey # Part
ASSUME FaultsAssumption == Faults \in [Run -> SUBSET {"disk", "kill"}]

VARIABLES
    name,   \* what the key's own name holds
    draft,  \* what each run's own file holds
    pc,     \* where each run is
    has,    \* the key each run was given
    made    \* load_or_make_named's second result: it was made now

vars == <<name, draft, pc, has, made>>

Init ==
    /\ name \in {NoKey, Past}
    /\ draft = [r \in Run |-> NoKey]
    /\ pc = [r \in Run |-> "look"]
    /\ has = [r \in Run |-> NoKey]
    /\ made = [r \in Run |-> FALSE]

Goto(r, step) == pc' = [pc EXCEPT ![r] = step]

\* load_named finds no key, and the run draws one.
LookNone(r) ==
    /\ pc[r] = "look"
    /\ name = NoKey
    /\ Goto(r, "make")
    /\ UNCHANGED <<name, draft, has, made>>

\* load_named: what the name holds, when it is a whole key.
Load(r) ==
    /\ pc[r] \in {"look", "lost"}
    /\ name # NoKey
    /\ IF name \in Key
       THEN has' = [has EXCEPT ![r] = name] /\ Goto(r, "done")
       ELSE Goto(r, "failed") /\ UNCHANGED has
    /\ UNCHANGED <<name, draft, made>>

\* Mutant: the file is made under the key's own name, and written after.
MakeInPlace(r) ==
    /\ pc[r] = "make"
    /\ name = NoKey
    /\ name' = Part
    /\ draft' = [draft EXCEPT ![r] = Part]
    /\ Goto(r, "write")
    /\ UNCHANGED <<has, made>>

\* The run's own file, made and not yet written.
MakeDraft(r) ==
    /\ pc[r] = "make"
    /\ draft' = [draft EXCEPT ![r] = Part]
    /\ Goto(r, "write")
    /\ UNCHANGED <<name, has, made>>

WriteDraft(r) ==
    /\ pc[r] = "write"
    /\ draft' = [draft EXCEPT ![r] = r]
    /\ Goto(r, "link")
    /\ UNCHANGED <<name, has, made>>

\* The disk refuses the folder, the file, its writing or the link.
DiskFails(r) ==
    /\ "disk" \in Faults[r]
    /\ pc[r] \in {"make", "write", "link"}
    /\ Goto(r, "remove, failed")
    /\ UNCHANGED <<name, draft, has, made>>

\* Mutant: the draft is moved into place, over whatever is there.
Rename(r) ==
    /\ pc[r] = "link"
    /\ name' = draft[r]
    /\ Goto(r, "remove, made")
    /\ UNCHANGED <<draft, has, made>>

\* hard_link, where the name is not taken.
Link(r) ==
    /\ pc[r] = "link"
    /\ name = NoKey
    /\ name' = draft[r]
    /\ Goto(r, "remove, made")
    /\ UNCHANGED <<draft, has, made>>

\* Mutant: a run that lost fails.
LinkTakenFails(r) ==
    /\ pc[r] = "link"
    /\ name # NoKey
    /\ Goto(r, "remove, failed")
    /\ UNCHANGED <<name, draft, has, made>>

\* hard_link, where it is.
LinkTaken(r) ==
    /\ pc[r] = "link"
    /\ name # NoKey
    /\ Goto(r, "remove, lost")
    /\ UNCHANGED <<name, draft, has, made>>

Removing == {"remove, made", "remove, lost", "remove, failed"}

\* The draft is removed, and what came of the link is given back or gone on from.
RemoveDraft(r) ==
    /\ pc[r] \in Removing
    /\ \/ draft' = [draft EXCEPT ![r] = NoKey]
       \/ "disk" \in Faults[r] /\ UNCHANGED draft
    /\ Goto(r, IF pc[r] = "remove, lost" THEN "lost"
               ELSE IF pc[r] = "remove, made" THEN "done" ELSE "failed")
    /\ IF pc[r] = "remove, made"
       THEN has' = [has EXCEPT ![r] = r] /\ made' = [made EXCEPT ![r] = TRUE]
       ELSE UNCHANGED <<has, made>>
    /\ UNCHANGED name

Going(r) == pc[r] \notin {"done", "failed", "killed"}

Kill(r) ==
    /\ "kill" \in Faults[r]
    /\ Going(r)
    /\ Goto(r, "killed")
    /\ UNCHANGED <<name, draft, has, made>>

Step(r) ==
    \/ LookNone(r) \/ Load(r) \/ MakeDraft(r) \/ WriteDraft(r)
    \/ DiskFails(r) \/ Link(r) \/ LinkTaken(r) \/ RemoveDraft(r)

Next == \E r \in Run : Step(r) \/ Kill(r)

Spec == Init /\ [][Next]_vars

FairSpec == Spec /\ \A r \in Run : WF_vars(Step(r))

-----------------------------------------------------------------------------
(* Properties. *)

\* What each variable may hold; only a whole key is about to be linked to the name.
TypeOK ==
    /\ name \in Key \union {NoKey, Part}
    /\ draft \in [Run -> Key \union {NoKey, Part}]
    /\ pc \in [Run -> {"look", "make", "write", "link", "lost", "done", "failed", "killed"}
                      \union Removing]
    /\ has \in [Run -> Key \union {NoKey}]
    /\ made \in [Run -> BOOLEAN]
    /\ \A r \in Run : pc[r] = "link" => draft[r] = r

\* "The name only ever holds a whole key": whoever reads it between any two steps of any run.
NameIsWhole == name # Part

\* Every key that was given out is the one under the name, so the seals of one run hold for every
\* other ("the run that lost uses the key that won").
AgreedKey == \A r \in Run : has[r] \in {NoKey, name}

\* One run at most is told that it made the key, and it is the one whose key is there.
MadeByOne == \A r \in Run : made[r] => name = r

\* No run fails for what another did, or was killed while doing ("rather than failing").
FailsForCause == \A r \in Run : pc[r] = "failed" => "disk" \in Faults[r]

\* A run that was not killed, and whose disk did not fail, leaves no draft of a key behind.
NoDraftLeft ==
    \A r \in Run : pc[r] \in {"done", "failed"} => draft[r] = NoKey \/ "disk" \in Faults[r]

\* The runs settle one key for the computer, for good.
Abstract == INSTANCE KeyOnce WITH key <- name
ImplementsKeyOnce == Abstract!Spec

\* Every run that needs a key is given one, unless it is killed or its disk fails.
EveryRunHasAKey ==
    \A r \in Run : "disk" \notin Faults[r] => <>(has[r] # NoKey \/ pc[r] = "killed")
=============================================================================
