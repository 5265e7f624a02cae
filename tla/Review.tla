------------------------------- MODULE Review -------------------------------
(***************************************************************************)
(* A person recording their word on what an AI coding tool wrote: `sv      *)
(* review' (sv-cli/src/review.rs), beside the tool, which may change the   *)
(* same files while the person reads and answers.                          *)
(*                                                                         *)
(* stackvet.toml is read twice at the start: as the text to be written     *)
(* back, and as the entries that are shown.  security-notes.md is read     *)
(* again whenever one of its entries is dealt with.  Entries whose seal is *)
(* of the older kind are signed again at one yes; the others are asked     *)
(* about one at a time.  What is recorded is saved at once: the file is    *)
(* read, written whole, read again to see that the seal holds, and put     *)
(* back as it was if it does not.                                          *)
(*                                                                         *)
(* A seal is known by the text it was made over; nobody but the person can *)
(* make one.  Left out: what the questions say, answers that are refused   *)
(* and asked again, the key and its passphrase, and the parts of an entry  *)
(* that the review itself writes.  The scope, which is asked about last,   *)
(* is one of the entries.                                                  *)
(***************************************************************************)
EXTENDS Naturals

CONSTANTS
    Entry,     \* the entries of both files
    InNotes,   \* those of security-notes.md
    Confirms,  \* those of stackvet.toml that confirm the tool's answer, and repeat it
    Older,     \* those that were recorded before there were signatures
    Text,      \* what an entry, or the answer it confirms, may say
    NoSeal,
    MaxEdits   \* bound: the tool's changes while the review runs

ASSUME EntryAssumption ==
    InNotes \subseteq Entry /\ Confirms \subseteq Entry \ InNotes /\ Older \subseteq Entry
ASSUME EditsAssumption == MaxEdits \in Nat

Seal == [over : Text, signed : BOOLEAN]

ASSUME SealAssumption == NoSeal \notin Seal

VARIABLES
    file,      \* what each entry says in its file now, and its seal
    doc,       \* the text the review writes back, of either file
    shown,     \* the entries as the review read them
    before,    \* what save_text found in the file
    pc,        \* where the review is
    at,        \* the entries it is recording
    older,     \* the entries still to be signed again
    waiting,   \* the entries still to be asked about
    recorded,  \* the entries it has recorded
    agreed,    \* what the person has said yes to, in this review or before
    edited,    \* the entries the tool has changed since the review read them
    edits      \* how often it has changed one

session == <<doc, shown, before, pc, at, older, waiting>>
said == <<recorded, agreed>>
tool == <<edited, edits>>
vars == <<file, session, said, tool>>

Entries == [Entry -> [text : Text, seal : Seal \union {NoSeal}]]

Signed(t) == [over |-> t, signed |-> TRUE]

WithSeal(entries, e, s) == [entries EXCEPT ![e].seal = s]

\* What comes of a yes: a seal over what the person was shown.
Recorded(e) == Signed(shown[e].text)

\* The checker takes the seal: a confirmation is held against the answer it repeats.
Holds(entries, e) ==
    /\ entries[e].seal # NoSeal
    /\ e \in Confirms \/ entries[e].seal.over = entries[e].text

\* The report takes the entry as the person's word.
Counts(entries, e) == entries[e].seal # NoSeal /\ entries[e].seal.over = entries[e].text

\* One file's entries as they are in `a', the other's as they are in `b'.
Notes(a, b) == [x \in Entry |-> IF x \in InNotes THEN a[x] ELSE b[x]]

\* What is in both files when the file of what is being recorded is written.
Written(entries) == IF at \subseteq InNotes THEN Notes(entries, file) ELSE Notes(file, entries)

\* What the tool wrote, or the person recorded then.
Proposed == {[text |-> t, seal |-> NoSeal] : t \in Text}
RecordedThen == {[text |-> t, seal |-> [over |-> t, signed |-> FALSE]] : t \in Text}
AtFirst(e) == Proposed \union IF e \in Older THEN RecordedThen ELSE {}

Init ==
    /\ file \in {f \in Entries : \A e \in Entry : f[e] \in AtFirst(e)}
    /\ doc = file
    /\ shown = file
    /\ before = file
    /\ pc = "read"
    /\ at = {}
    /\ older = {}
    /\ waiting = {}
    /\ recorded = {}
    /\ agreed = {<<e, file[e].text>> : e \in {x \in Entry : Counts(file, x)}}
    /\ edited = {}
    /\ edits = 0

\* The text of stackvet.toml.
ReadText ==
    /\ pc = "read"
    /\ doc' = Notes(doc, file)
    /\ edited' = {}
    /\ pc' = "load"
    /\ UNCHANGED <<file, shown, before, at, older, waiting, said, edits>>

\* Its entries, read from the file once more.
Load ==
    /\ pc = "load"
    /\ shown' = Notes(shown, file)
    /\ pc' = "sort"
    /\ UNCHANGED <<file, doc, before, at, older, waiting, said, tool>>

\* The notes are read, and what waits for the person is listed.
Sort ==
    /\ pc = "sort"
    /\ shown' = Notes(file, shown)
    /\ waiting' = {e \in Entry : ~Holds(shown', e)}
    /\ older' = {e \in Entry \ waiting' : ~shown'[e].seal.signed}
    /\ pc' = IF older' = {} THEN "next" ELSE "again?"
    /\ UNCHANGED <<file, doc, before, at, said, tool>>

\* One yes for all that are to be signed again, or none of them is.
YesOrNo ==
    /\ pc = "again?"
    /\ \/ pc' = "again" /\ UNCHANGED older
       \/ pc' = "next" /\ older' = {}
    /\ UNCHANGED <<file, doc, shown, before, at, waiting, said, tool>>

\* An entry of the notes, read again, is signed over what it says now.
SignNotes ==
    /\ pc = "again"
    /\ \E e \in older \intersect InNotes :
        /\ at' = {e}
        /\ older' = older \ {e}
        /\ doc' = Notes(WithSeal(file, e, Signed(file[e].text)), doc)
    /\ pc' = "save"
    /\ UNCHANGED <<file, shown, before, waiting, said, tool>>

\* Mutant: what is signed again is the entry as it will be written, not as it was checked.
SignWritten ==
    /\ pc = "again"
    /\ older # {}
    /\ older \intersect InNotes = {}
    /\ at' = older
    /\ older' = {}
    /\ doc' = [e \in Entry |-> IF e \in older THEN [doc[e] EXCEPT !.seal = Signed(doc[e].text)]
                                              ELSE doc[e]]
    /\ pc' = "save"
    /\ UNCHANGED <<file, shown, before, waiting, said, tool>>

\* After those, the entries of stackvet.toml, all at once, over what their seals hold for.
SignManifest ==
    /\ pc = "again"
    /\ older # {}
    /\ older \intersect InNotes = {}
    /\ at' = older
    /\ older' = {}
    /\ doc' = [e \in Entry |-> IF e \in older
                               THEN [doc[e] EXCEPT !.seal = Signed(shown[e].seal.over)]
                               ELSE doc[e]]
    /\ pc' = "save"
    /\ UNCHANGED <<file, shown, before, waiting, said, tool>>

\* An entry to ask about; one of the notes is read now, the file's text and the entry at once.
Show ==
    /\ pc = "next"
    /\ \E e \in waiting :
        /\ at' = {e}
        /\ waiting' = waiting \ {e}
        /\ IF e \in InNotes
           THEN /\ doc' = Notes(file, doc)
                /\ shown' = [shown EXCEPT ![e] = file[e]]
                /\ edited' = edited \ {e}
           ELSE UNCHANGED <<doc, shown, edited>>
    /\ pc' = "asked"
    /\ UNCHANGED <<file, before, older, said, edits>>

\* The entry is left as a proposal.
Decline ==
    /\ pc = "asked"
    /\ pc' = "next"
    /\ UNCHANGED <<file, doc, shown, before, at, older, waiting, said, tool>>

\* The person says yes: the seal is put on the entry in the text that will be written.
Agree ==
    /\ pc = "asked"
    /\ \E e \in at :
        /\ doc' = WithSeal(doc, e, Recorded(e))
        /\ agreed' = agreed \union {<<e, shown[e].text>>}
    /\ pc' = "save"
    /\ UNCHANGED <<file, shown, before, at, older, waiting, recorded, tool>>

\* Mutant: what is put back is the file as it was when the review began.
KeepAsShown ==
    /\ pc = "save"
    /\ before' = shown
    /\ pc' = "write"
    /\ UNCHANGED <<file, doc, shown, at, older, waiting, said, tool>>

\* save_text reads what is there, to put it back if need be.
Keep ==
    /\ pc = "save"
    /\ before' = file
    /\ pc' = "write"
    /\ UNCHANGED <<file, doc, shown, at, older, waiting, said, tool>>

\* The whole file is written beside it and renamed over it, or the disk refuses one of the two.
WriteBack ==
    /\ pc = "write"
    /\ \/ file' = Written(doc) /\ pc' = "check"
       \/ pc' = "failed" /\ UNCHANGED file
    /\ UNCHANGED <<doc, shown, before, at, older, waiting, said, tool>>

\* The file is read back; what was recorded must hold as the report will read it.
Check ==
    /\ pc = "check"
    /\ IF \A e \in at : Holds(file, e)
       THEN /\ pc' = IF older = {} THEN "next" ELSE "again"
            /\ recorded' = recorded \union at
       ELSE pc' = "put back" /\ UNCHANGED recorded
    /\ UNCHANGED <<file, doc, shown, before, at, older, waiting, agreed, tool>>

\* Nothing is said when this write fails.
PutBack ==
    /\ pc = "put back"
    /\ file' \in {Written(before), file}
    /\ pc' = "failed"
    /\ UNCHANGED <<doc, shown, before, at, older, waiting, said, tool>>

Finish ==
    /\ pc = "next"
    /\ waiting = {}
    /\ pc' = "finished"
    /\ UNCHANGED <<file, doc, shown, before, at, older, waiting, said, tool>>

\* The terminal is closed, or the review is killed: whatever was renamed into place stays.
Stop ==
    /\ pc \notin {"finished", "failed", "stopped"}
    /\ pc' = "stopped"
    /\ UNCHANGED <<file, doc, shown, before, at, older, waiting, said, tool>>

\* The AI coding tool changes what an entry says, or takes its seal away.
ToolEdits ==
    /\ edits < MaxEdits
    /\ \E e \in Entry :
        /\ \E t \in Text, s \in {NoSeal, file[e].seal} :
            /\ [text |-> t, seal |-> s] # file[e]
            /\ file' = [file EXCEPT ![e] = [text |-> t, seal |-> s]]
        /\ edited' = edited \union {e}
    /\ edits' = edits + 1
    /\ UNCHANGED <<session, said>>

Next ==
    \/ ReadText \/ Load \/ Sort
    \/ YesOrNo \/ SignNotes \/ SignManifest
    \/ Show \/ Decline \/ Agree
    \/ Keep \/ WriteBack \/ Check \/ PutBack
    \/ Finish \/ Stop
    \/ ToolEdits

Spec == Init /\ [][Next]_vars

-----------------------------------------------------------------------------
(* Properties. *)

Steps == {"read", "load", "sort", "again?", "again", "next", "asked", "save", "write", "check",
          "put back", "finished", "failed", "stopped"}

\* What each variable may hold; nothing is asked about while something is still to be signed again.
TypeOK ==
    /\ file \in Entries /\ doc \in Entries /\ shown \in Entries /\ before \in Entries
    /\ pc \in Steps
    /\ at \subseteq Entry /\ older \subseteq Entry /\ waiting \subseteq Entry
    /\ recorded \subseteq Entry
    /\ agreed \subseteq Entry \X Text
    /\ edited \subseteq Entry /\ edits \in 0..MaxEdits
    /\ pc \in {"read", "load", "sort", "next", "asked", "finished"} => older = {}

Agreed(e) == Counts(file, e) => <<e, file[e].text>> \in agreed

\* An entry counts as the person's word only in words they said yes to, whatever the tool changed in
\* between and wherever the review was stopped ("Each is signed over what it says now, which is what
\* its seal holds for", sign_again).
OnlyAgreedCounts == \A e \in Entry : Agreed(e)

\* The same of every entry but those of the notes that sign_again reads once more after the yes: "what
\* was confirmed is what was shown, so an answer changed later is not carried" (record_confirmation).
AgreedUnlessReread == \A e \in Entry \ (Older \intersect InNotes) : Agreed(e)

\* The seal of what was recorded goes on holding, unless the tool changed that entry since the review
\* read it: an answer later in the review that fails, and is put back, takes no earlier one with it,
\* and neither does a change of another entry.
RecordedStays == \A e \in recorded \ edited : Holds(file, e)
=============================================================================
