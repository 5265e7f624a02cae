---------------------------- MODULE ReviewProofs ----------------------------
(***************************************************************************)
(* What is proved of a review, for any entries, any words and any number   *)
(* of changes by the tool.                                                 *)
(***************************************************************************)
EXTENDS Review, TLAPS

USE EntryAssumption, EditsAssumption, SealAssumption

LEMMA WithSealTyped ==
    ASSUME NEW f \in Entries, NEW e \in Entry, NEW s \in Seal \union {NoSeal}
    PROVE  WithSeal(f, e, s) \in Entries
  BY DEF WithSeal, Entries

LEMMA NotesTyped ==
    ASSUME NEW f \in Entries, NEW g \in Entries
    PROVE  Notes(f, g) \in Entries
  BY DEF Notes, Entries

LEMMA WrittenTyped ==
    ASSUME TypeOK, NEW f \in Entries
    PROVE  Written(f) \in Entries
  BY NotesTyped DEF Written, TypeOK

LEMMA SignedTyped == \A t \in Text : Signed(t) \in Seal /\ Signed(t).over = t /\ Signed(t).signed
  BY DEF Signed, Seal

(* Every seal anywhere is over words that the person said yes to, but for   *)
(* an entry of the notes that had one of the older kind; a seal that is not *)
(* signed was there at first; and what is to be signed again has one.       *)
SealsAgreed(f, yes) ==
    \A e \in Entry : f[e].seal # NoSeal =>
        /\ <<e, f[e].seal.over>> \in yes \/ e \in Older \intersect InNotes
        /\ f[e].seal.signed \/ e \in Older

ReviewInv ==
    /\ TypeOK
    /\ SealsAgreed(file, agreed) /\ SealsAgreed(doc, agreed) /\ SealsAgreed(shown, agreed) /\ SealsAgreed(before, agreed)
    /\ \A e \in older : e \in Older /\ shown[e].seal # NoSeal

LEMMA ReviewInit == Init => ReviewInv
  <1> SUFFICES ASSUME Init PROVE ReviewInv
    OBVIOUS
  <1>1. ASSUME NEW e \in Entry
        PROVE  /\ file[e] \in [text : Text, seal : Seal \union {NoSeal}]
               /\ file[e].seal # NoSeal =>
                     e \in Older /\ file[e].seal \in Seal /\ file[e].seal.over = file[e].text
    <2>1. file[e] \in AtFirst(e)
      BY DEF Init
    <2>2. CASE file[e] \in Proposed
      <3>1. PICK t \in Text : file[e] = [text |-> t, seal |-> NoSeal]
        BY <2>2 DEF Proposed
      <3>2. file[e].seal = NoSeal
        BY <3>1
      <3> QED BY <3>1, <3>2
    <2>3. CASE e \in Older /\ file[e] \in RecordedThen
      <3>1. PICK t \in Text : file[e] = [text |-> t, seal |-> [over |-> t, signed |-> FALSE]]
        BY <2>3 DEF RecordedThen
      <3> DEFINE s == [over |-> t, signed |-> FALSE]
      <3>2. s \in Seal /\ s.over = t
        BY DEF Seal
      <3> HIDE DEF s
      <3>3. file[e] = [text |-> t, seal |-> s]
        BY <3>1 DEF s
      <3> QED BY <2>3, <3>2, <3>3
    <2> QED BY <2>1, <2>2, <2>3 DEF AtFirst
  <1>2. file \in Entries
    BY <1>1 DEF Init, Entries
  <1>3. SealsAgreed(file, agreed)
    BY <1>1 DEF Init, SealsAgreed, Counts
  <1>4. TypeOK
    <2>1. agreed \subseteq Entry \X Text
      BY <1>1 DEF Init
    <2> QED BY <1>2, <2>1 DEF Init, TypeOK, Steps
  <1> QED BY <1>3, <1>4 DEF Init, ReviewInv, SealsAgreed

(* Entries taken from two files that are sealed so are sealed so.           *)
LEMMA NotesAgreed ==
    ASSUME NEW f, NEW g, SealsAgreed(f, agreed), SealsAgreed(g, agreed)
    PROVE  SealsAgreed(Notes(f, g), agreed)
  BY DEF SealsAgreed, Notes

LEMMA WrittenAgreed ==
    ASSUME NEW f, SealsAgreed(f, agreed), SealsAgreed(file, agreed)
    PROVE  SealsAgreed(Written(f), agreed)
  BY NotesAgreed DEF Written

LEMMA EntryTyped ==
    ASSUME NEW f \in Entries, NEW e \in Entry
    PROVE  /\ f[e].text \in Text /\ f[e].seal \in Seal \union {NoSeal}
           /\ f[e].seal # NoSeal => f[e].seal.over \in Text
  BY DEF Entries, Seal

(* A new seal over agreed words is one more of the same kind.               *)
LEMMA MoreIsAgreed ==
    ASSUME NEW f, NEW yes, NEW more, SealsAgreed(f, yes), yes \subseteq more
    PROVE  SealsAgreed(f, more)
  BY DEF SealsAgreed

LEMMA WithSealAgreed ==
    ASSUME NEW f \in Entries, NEW yes, SealsAgreed(f, yes), NEW e \in Entry, NEW t \in Text,
           <<e, t>> \in yes
    PROVE  SealsAgreed(WithSeal(f, e, Signed(t)), yes)
  <1> DEFINE g == WithSeal(f, e, Signed(t))
  <1>1. g[e].seal = Signed(t) /\ \A x \in Entry \ {e} : g[x] = f[x]
    BY DEF WithSeal, Entries
  <1> HIDE DEF g
  <1>2. SealsAgreed(g, yes)
    BY <1>1, SignedTyped DEF SealsAgreed
  <1> QED BY <1>2 DEF g

LEMMA ReadingKeeps ==
    ASSUME ReviewInv, ReadText \/ Load \/ Sort \/ YesOrNo
    PROVE  ReviewInv'
  <1> USE DEF ReviewInv, session, said, tool
  <1>1. CASE ReadText
    <2>1. TypeOK' /\ agreed' = agreed
      BY <1>1, NotesTyped DEF ReadText, TypeOK, Steps
    <2>2. SealsAgreed(doc', agreed)
      BY <1>1, NotesAgreed DEF ReadText
    <2> QED BY <1>1, <2>1, <2>2 DEF ReadText, SealsAgreed
  <1>2. CASE Load
    <2>1. TypeOK' /\ agreed' = agreed
      BY <1>2, NotesTyped DEF Load, TypeOK, Steps
    <2>2. SealsAgreed(shown', agreed)
      BY <1>2, NotesAgreed DEF Load
    <2>3. older = {}
      BY <1>2 DEF Load, TypeOK
    <2> QED BY <1>2, <2>1, <2>2, <2>3 DEF Load, SealsAgreed
  <1>3. CASE Sort
    <2>1. TypeOK' /\ agreed' = agreed
      BY <1>3, NotesTyped DEF Sort, TypeOK, Steps
    <2>2. SealsAgreed(shown', agreed)
      BY <1>3, NotesAgreed DEF Sort
    <2>3. \A e \in older' : e \in Entry /\ shown'[e].seal # NoSeal /\ ~shown'[e].seal.signed
      BY <1>3 DEF Sort, Holds
    <2>4. \A e \in older' : e \in Older
      BY <2>2, <2>3 DEF SealsAgreed
    <2> QED BY <1>3, <2>1, <2>2, <2>3, <2>4 DEF Sort, SealsAgreed
  <1>4. CASE YesOrNo
    <2>1. TypeOK'
      BY <1>4 DEF YesOrNo, TypeOK, Steps
    <2> QED BY <1>4, <2>1 DEF YesOrNo, SealsAgreed
  <1> QED BY <1>1, <1>2, <1>3, <1>4

LEMMA SigningKeeps ==
    ASSUME ReviewInv, SignNotes \/ SignManifest
    PROVE  ReviewInv'
  <1> USE DEF ReviewInv, session, said, tool
  <1>1. CASE SignNotes
    <2> PICK e \in older \intersect InNotes :
            /\ at' = {e}
            /\ older' = older \ {e}
            /\ doc' = Notes(WithSeal(file, e, Signed(file[e].text)), doc)
      BY <1>1 DEF SignNotes
    <2> DEFINE f == WithSeal(file, e, Signed(file[e].text))
    <2>1. e \in Entry /\ e \in Older /\ file[e].text \in Text
      BY EntryTyped DEF TypeOK
    <2>2. f \in Entries
      BY <2>1, WithSealTyped, SignedTyped DEF TypeOK
    <2>3. SealsAgreed(f, agreed)
      <3>1. \A x \in Entry \ {e} : f[x] = file[x]
        BY <2>1 DEF WithSeal, TypeOK, Entries
      <3> HIDE DEF f
      <3> QED BY <2>1, <3>1 DEF SealsAgreed
    <2> HIDE DEF f
    <2>4. doc' \in Entries /\ SealsAgreed(doc', agreed)
      BY <2>2, <2>3, NotesTyped, NotesAgreed DEF f, TypeOK
    <2>5. TypeOK'
      BY <1>1, <2>4 DEF SignNotes, TypeOK, Steps
    <2> QED BY <1>1, <2>4, <2>5 DEF SignNotes, SealsAgreed
  <1>2. CASE SignManifest
    <2>1. ASSUME NEW e \in older
          PROVE  /\ e \in Entry
                 /\ shown[e].seal.over \in Text
                 /\ <<e, shown[e].seal.over>> \in agreed
      BY <1>2, EntryTyped DEF SignManifest, TypeOK, SealsAgreed
    <2>2. doc' \in Entries
      <3> SUFFICES ASSUME NEW e \in Entry
                   PROVE  doc'[e] \in [text : Text, seal : Seal \union {NoSeal}]
        BY <1>2 DEF SignManifest, Entries
      <3>1. CASE e \in older
        <4>1. doc'[e] = [doc[e] EXCEPT !.seal = Signed(shown[e].seal.over)]
          BY <1>2, <3>1 DEF SignManifest
        <4>2. Signed(shown[e].seal.over) \in Seal
          BY <2>1, <3>1, SignedTyped
        <4>3. doc[e] \in [text : Text, seal : Seal \union {NoSeal}]
          BY DEF TypeOK, Entries
        <4> QED BY <4>1, <4>2, <4>3
      <3>2. CASE e \notin older
        BY <1>2, <3>2 DEF SignManifest, TypeOK, Entries
      <3> QED BY <3>1, <3>2
    <2>3. TypeOK'
      BY <1>2, <2>2 DEF SignManifest, TypeOK, Steps
    <2>4. SealsAgreed(doc', agreed)
      <3> SUFFICES ASSUME NEW e \in Entry, doc'[e].seal # NoSeal
                   PROVE  /\ <<e, doc'[e].seal.over>> \in agreed \/ e \in Older \intersect InNotes
                          /\ doc'[e].seal.signed \/ e \in Older
        BY DEF SealsAgreed
      <3>1. CASE e \in older
        <4>1. doc'[e].seal = Signed(shown[e].seal.over)
          BY <1>2, <3>1 DEF SignManifest, TypeOK, Entries
        <4> QED BY <4>1, <2>1, <3>1, SignedTyped
      <3>2. CASE e \notin older
        BY <1>2, <3>2 DEF SignManifest, SealsAgreed
      <3> QED BY <3>1, <3>2
    <2> QED BY <1>2, <2>3, <2>4 DEF SignManifest, SealsAgreed
  <1> QED BY <1>1, <1>2

LEMMA AskingKeeps ==
    ASSUME ReviewInv, Show \/ Decline \/ Agree
    PROVE  ReviewInv'
  <1> USE DEF ReviewInv, session, said, tool
  <1>1. CASE Show
    <2> PICK e \in waiting :
            /\ at' = {e}
            /\ waiting' = waiting \ {e}
            /\ IF e \in InNotes
               THEN /\ doc' = Notes(file, doc)
                    /\ shown' = [shown EXCEPT ![e] = file[e]]
                    /\ edited' = edited \ {e}
               ELSE UNCHANGED <<doc, shown, edited>>
      BY <1>1 DEF Show
    <2>1. doc' \in Entries /\ shown' \in Entries /\ edited' \subseteq Entry
      <3>1. CASE e \in InNotes
        <4>1. doc' \in Entries
          BY <3>1, NotesTyped DEF TypeOK
        <4>2. e \in Entry /\ shown' = [shown EXCEPT ![e] = file[e]]
          BY <3>1 DEF TypeOK
        <4> QED BY <3>1, <4>1, <4>2 DEF TypeOK, Entries
      <3> QED BY <3>1 DEF TypeOK
    <2>2. TypeOK'
      BY <1>1, <2>1 DEF Show, TypeOK, Steps
    <2>3. SealsAgreed(doc', agreed) /\ SealsAgreed(shown', agreed)
      <3>1. SealsAgreed(doc', agreed)
        BY NotesAgreed
      <3>2. \A x \in Entry : shown'[x] \in {shown[x], file[x]}
        BY DEF TypeOK, Entries
      <3>3. SealsAgreed(shown', agreed)
        BY <3>2 DEF SealsAgreed
      <3> QED BY <3>1, <3>3
    <2>4. older' = {}
      BY <1>1 DEF Show, TypeOK
    <2> QED BY <1>1, <2>2, <2>3, <2>4 DEF Show, SealsAgreed
  <1>2. CASE Decline
    <2>1. TypeOK'
      BY <1>2 DEF Decline, TypeOK, Steps
    <2> QED BY <1>2, <2>1 DEF Decline, SealsAgreed
  <1>3. CASE Agree
    <2> PICK e \in at : /\ doc' = WithSeal(doc, e, Recorded(e))
                        /\ agreed' = agreed \union {<<e, shown[e].text>>}
      BY <1>3 DEF Agree
    <2>1. e \in Entry /\ shown[e].text \in Text
      BY EntryTyped DEF TypeOK
    <2>2. doc' \in Entries
      BY <2>1, WithSealTyped, SignedTyped DEF Recorded, TypeOK
    <2>3. TypeOK'
      BY <1>3, <2>1, <2>2 DEF Agree, TypeOK, Steps
    <2>4. /\ SealsAgreed(doc, agreed') /\ SealsAgreed(file, agreed')
          /\ SealsAgreed(shown, agreed') /\ SealsAgreed(before, agreed')
      BY MoreIsAgreed
    <2>5. SealsAgreed(doc', agreed')
      BY <2>1, <2>4, WithSealAgreed DEF Recorded, TypeOK
    <2> QED BY <1>3, <2>3, <2>4, <2>5 DEF Agree, SealsAgreed
  <1> QED BY <1>1, <1>2, <1>3

LEMMA SavingKeeps ==
    ASSUME ReviewInv, Keep \/ WriteBack \/ Check \/ PutBack \/ Finish \/ Stop
    PROVE  ReviewInv'
  <1> USE DEF ReviewInv, session, said, tool
  <1>1. CASE Keep
    <2>1. TypeOK'
      BY <1>1 DEF Keep, TypeOK, Steps
    <2> QED BY <1>1, <2>1 DEF Keep, SealsAgreed
  <1>2. CASE WriteBack
    <2>1. file' \in {Written(doc), file}
      BY <1>2 DEF WriteBack
    <2>2. file' \in Entries /\ SealsAgreed(file', agreed)
      BY <2>1, WrittenTyped, WrittenAgreed DEF TypeOK
    <2>3. TypeOK'
      BY <1>2, <2>2 DEF WriteBack, TypeOK, Steps
    <2> QED BY <1>2, <2>2, <2>3 DEF WriteBack, SealsAgreed
  <1>3. CASE Check
    <2>1. TypeOK'
      BY <1>3 DEF Check, TypeOK, Steps
    <2> QED BY <1>3, <2>1 DEF Check, SealsAgreed
  <1>4. CASE PutBack
    <2>1. file' \in Entries /\ SealsAgreed(file', agreed)
      BY <1>4, WrittenTyped, WrittenAgreed DEF PutBack, TypeOK
    <2>2. TypeOK'
      BY <1>4, <2>1 DEF PutBack, TypeOK, Steps
    <2> QED BY <1>4, <2>1, <2>2 DEF PutBack, SealsAgreed
  <1>5. CASE Finish
    <2>1. TypeOK'
      BY <1>5 DEF Finish, TypeOK, Steps
    <2> QED BY <1>5, <2>1 DEF Finish, SealsAgreed
  <1>6. CASE Stop
    <2>1. TypeOK'
      BY <1>6 DEF Stop, TypeOK, Steps
    <2> QED BY <1>6, <2>1 DEF Stop, SealsAgreed
  <1> QED BY <1>1, <1>2, <1>3, <1>4, <1>5, <1>6

LEMMA ToolKeeps == ReviewInv /\ ToolEdits => ReviewInv'
  <1> SUFFICES ASSUME ReviewInv, ToolEdits PROVE ReviewInv'
    OBVIOUS
  <1> USE DEF ReviewInv, session, said
  <1>0. PICK e \in Entry :
            /\ \E t \in Text, s \in {NoSeal, file[e].seal} :
                   file' = [file EXCEPT ![e] = [text |-> t, seal |-> s]]
            /\ edited' = edited \union {e}
    BY DEF ToolEdits
  <1> PICK t \in Text, s \in {NoSeal, file[e].seal} :
          file' = [file EXCEPT ![e] = [text |-> t, seal |-> s]]
    BY <1>0
  <1>1. s \in Seal \union {NoSeal}
    BY EntryTyped DEF TypeOK
  <1>2. file' \in Entries
    BY <1>1 DEF TypeOK, Entries
  <1>3. TypeOK'
    BY <1>0, <1>2 DEF ToolEdits, TypeOK
  <1>4. \A x \in Entry : file'[x].seal \in {NoSeal, file[x].seal}
    BY DEF TypeOK, Entries
  <1>5. SealsAgreed(file', agreed)
    BY <1>4 DEF SealsAgreed
  <1> QED BY <1>3, <1>5 DEF ToolEdits, SealsAgreed

LEMMA ReviewInvariant == Spec => []ReviewInv
  <1>1. ReviewInv /\ UNCHANGED vars => ReviewInv'
    BY DEF ReviewInv, TypeOK, SealsAgreed, vars, session, said, tool
  <1>2. ReviewInv /\ [Next]_vars => ReviewInv'
    BY <1>1, ReadingKeeps, SigningKeeps, AskingKeeps, SavingKeeps, ToolKeeps DEF Next
  <1> QED BY ReviewInit, <1>2, PTL DEF Spec

(* What each variable may hold, and that nothing waits to be signed again   *)
(* once the person is asked about single entries.                           *)
THEOREM ReviewTyped == Spec => []TypeOK
  <1>1. ReviewInv => TypeOK
    BY DEF ReviewInv
  <1> QED BY <1>1, ReviewInvariant, PTL

(* No entry counts as the person's word but in words they said yes to, for  *)
(* any entries, words and number of changes by the tool; entries of the     *)
(* notes that are signed again are left out, and they alone.                *)
THEOREM AgreedAlone == Spec => []AgreedUnlessReread
  <1>1. ReviewInv => AgreedUnlessReread
    BY DEF ReviewInv, SealsAgreed, AgreedUnlessReread, Agreed, Counts
  <1> QED BY <1>1, ReviewInvariant, PTL

-----------------------------------------------------------------------------
(* What was recorded stays.  An entry is recorded once, when it is neither  *)
(* waiting nor to be signed again; from then on its seal holds in the file  *)
(* and in whatever text the review may yet write over it: `doc', which for  *)
(* the notes is read again each time, and `before', which is put back.  All *)
(* of this is said of entries the tool has not changed.                     *)
Answering == {"asked", "save", "write", "check", "put back"}

HoldsOn(e) ==
    /\ Holds(file, e)
    /\ e \notin InNotes => Holds(doc, e)
    /\ e \in InNotes /\ at \subseteq InNotes /\ pc \in {"asked", "save", "write"} => Holds(doc, e)
    /\ pc \in {"write", "check", "put back"} => Holds(before, e)

OnceEach ==
    /\ older \intersect waiting = {}
    /\ recorded \intersect (waiting \union older) = {}
    /\ pc \in {"read", "load", "sort", "again?"} => recorded = {}
    /\ pc \in Answering =>
           /\ at # {} /\ (at \subseteq InNotes \/ at \intersect InNotes = {})
           /\ at \intersect (waiting \union older \union recorded) = {}
    /\ pc = "check" => \A e \in at \ edited : file[e] = doc[e]

RecordInv == OnceEach /\ \A e \in recorded \ edited : HoldsOn(e)

(* What a written file says: of its own entries what was to be written, of  *)
(* the other file's what is there.                                          *)
LEMMA WrittenSays ==
    ASSUME TypeOK, NEW f \in Entries, NEW e \in Entry
    PROVE  /\ Written(f)[e] \in {f[e], file[e]}
           /\ e \notin InNotes /\ at \subseteq InNotes => Written(f)[e] = file[e]
           /\ e \in at /\ (at \subseteq InNotes \/ at \intersect InNotes = {}) => Written(f)[e] = f[e]
           /\ e \in InNotes /\ ~(at \subseteq InNotes) => Written(f)[e] = file[e]
  BY DEF Written, Notes

(* Whether a seal holds is a matter of the entry alone.                     *)
LEMMA HoldsOfEntry ==
    ASSUME NEW f, NEW g, NEW e, f[e] = g[e], Holds(f, e)
    PROVE  Holds(g, e)
  BY DEF Holds

LEMMA RecordInit == Init => RecordInv
  BY DEF Init, RecordInv, OnceEach, Answering

LEMMA ReadingRecords ==
    ASSUME ReviewInv, RecordInv, ReadText \/ Load \/ Sort \/ YesOrNo
    PROVE  RecordInv'
  <1>1. recorded = {} /\ recorded' = {} /\ pc' \in {"load", "sort", "next", "again", "again?"}
    BY DEF ReadText, Load, Sort, YesOrNo, RecordInv, OnceEach, said
  <1>2. (older \intersect waiting)' = {}
    BY DEF ReadText, Load, Sort, YesOrNo, RecordInv, OnceEach
  <1> QED BY <1>1, <1>2 DEF RecordInv, OnceEach, Answering

LEMMA SigningRecords ==
    ASSUME ReviewInv, RecordInv, SignNotes \/ SignManifest
    PROVE  RecordInv'
  <1> USE DEF RecordInv, OnceEach, Answering, said, tool
  <1>1. CASE SignNotes
    <2> PICK e \in older \intersect InNotes :
            /\ at' = {e}
            /\ older' = older \ {e}
            /\ doc' = Notes(WithSeal(file, e, Signed(file[e].text)), doc)
      BY <1>1 DEF SignNotes
    <2>1. /\ pc' = "save" /\ e \in InNotes /\ e \in older
          /\ UNCHANGED <<file, waiting, recorded, edited>>
      BY <1>1 DEF SignNotes
    <2>2. OnceEach'
      BY <2>1
    <2>3. ASSUME NEW x \in recorded \ edited PROVE HoldsOn(x)'
      <3>1. x \in Entry /\ x # e
        BY <2>1 DEF ReviewInv, TypeOK
      <3>2. doc'[x] = IF x \in InNotes THEN file[x] ELSE doc[x]
        BY <3>1 DEF Notes, WithSeal, ReviewInv, TypeOK, Entries
      <3>3. Holds(file, x) /\ (x \notin InNotes => Holds(doc, x))
        BY DEF HoldsOn
      <3>4. Holds(doc', x)
        BY <3>2, <3>3, HoldsOfEntry
      <3> QED BY <2>1, <3>3, <3>4 DEF HoldsOn
    <2> QED BY <2>1, <2>2, <2>3
  <1>2. CASE SignManifest
    <2>1. /\ pc' = "save" /\ at' = older /\ older' = {} /\ older # {} /\ older \intersect InNotes = {}
          /\ doc' = [e \in Entry |-> IF e \in older
                                     THEN [doc[e] EXCEPT !.seal = Signed(shown[e].seal.over)]
                                     ELSE doc[e]]
          /\ UNCHANGED <<file, waiting, recorded, edited>>
      BY <1>2 DEF SignManifest
    <2>2. OnceEach'
      BY <2>1
    <2>3. ASSUME NEW x \in recorded \ edited PROVE HoldsOn(x)'
      <3>1. doc'[x] = doc[x]
        BY <2>1 DEF ReviewInv, TypeOK
      <3>2. Holds(file, x) /\ (x \notin InNotes => Holds(doc, x))
        BY DEF HoldsOn
      <3>3. x \notin InNotes => Holds(doc', x)
        BY <3>1, <3>2, HoldsOfEntry
      <3> QED BY <2>1, <3>2, <3>3 DEF HoldsOn
    <2> QED BY <2>1, <2>2, <2>3
  <1> QED BY <1>1, <1>2

LEMMA AskingRecords ==
    ASSUME ReviewInv, RecordInv, Show \/ Decline \/ Agree
    PROVE  RecordInv'
  <1> USE DEF RecordInv, OnceEach, Answering, said, tool
  <1>1. CASE Show
    <2> PICK e \in waiting :
            /\ at' = {e}
            /\ waiting' = waiting \ {e}
            /\ IF e \in InNotes
               THEN /\ doc' = Notes(file, doc)
                    /\ shown' = [shown EXCEPT ![e] = file[e]]
                    /\ edited' = edited \ {e}
               ELSE UNCHANGED <<doc, shown, edited>>
      BY <1>1 DEF Show
    <2>1. pc = "next" /\ pc' = "asked" /\ UNCHANGED <<file, older, recorded>> /\ older = {}
      BY <1>1 DEF Show, ReviewInv, TypeOK
    <2>2. OnceEach'
      BY <2>1
    <2>3. ASSUME NEW x \in recorded \ edited' PROVE HoldsOn(x)'
      <3>1. x \in recorded \ edited /\ x \in Entry
        BY <2>1 DEF ReviewInv, TypeOK
      <3>2. Holds(file, x) /\ (x \notin InNotes => Holds(doc, x))
        BY <3>1 DEF HoldsOn
      <3>3. CASE e \in InNotes
        <4>1. doc'[x] = IF x \in InNotes THEN file[x] ELSE doc[x]
          BY <3>1, <3>3 DEF Notes
        <4>2. Holds(doc', x)
          BY <3>2, <4>1, HoldsOfEntry
        <4> QED BY <2>1, <3>2, <4>2 DEF HoldsOn
      <3>4. CASE e \notin InNotes
        BY <2>1, <3>2, <3>4 DEF HoldsOn
      <3> QED BY <3>3, <3>4
    <2> QED BY <2>1, <2>2, <2>3
  <1>2. CASE Decline
    <2>1. pc' = "next" /\ UNCHANGED <<file, doc, before, at, older, waiting, recorded, edited>>
      BY <1>2 DEF Decline
    <2>2. \A x \in recorded \ edited : HoldsOn(x)'
      BY <2>1 DEF HoldsOn, Holds
    <2> QED BY <2>1, <2>2
  <1>3. CASE Agree
    <2> PICK e \in at : doc' = WithSeal(doc, e, Recorded(e))
      BY <1>3 DEF Agree
    <2>1. /\ pc = "asked" /\ pc' = "save"
          /\ UNCHANGED <<file, at, older, waiting, recorded, edited>>
      BY <1>3 DEF Agree
    <2>2. ASSUME NEW x \in recorded \ edited PROVE HoldsOn(x)'
      <3>1. x # e
        BY <2>1
      <3>2. doc'[x] = doc[x]
        BY <3>1 DEF WithSeal, ReviewInv, TypeOK, Entries
      <3>3. Holds(doc, x) => Holds(doc', x)
        BY <3>2, HoldsOfEntry
      <3> QED BY <2>1, <3>3 DEF HoldsOn
    <2> QED BY <2>1, <2>2
  <1> QED BY <1>1, <1>2, <1>3

LEMMA SavingRecords ==
    ASSUME ReviewInv, RecordInv, Keep \/ WriteBack \/ Check \/ PutBack \/ Finish \/ Stop
    PROVE  RecordInv'
  <1> USE DEF RecordInv, OnceEach, Answering, said, tool
  <1>1. CASE Keep
    <2>1. /\ pc = "save" /\ pc' = "write" /\ before' = file
          /\ UNCHANGED <<file, doc, at, older, waiting, recorded, edited>>
      BY <1>1 DEF Keep
    <2>2. \A x \in recorded \ edited : HoldsOn(x)'
      BY <2>1 DEF HoldsOn, Holds
    <2> QED BY <2>1, <2>2
  <1>2. CASE WriteBack
    <2>1. /\ pc = "write" /\ UNCHANGED <<doc, before, at, older, waiting, recorded, edited>>
          /\ \/ file' = Written(doc) /\ pc' = "check"
             \/ pc' = "failed" /\ file' = file
      BY <1>2 DEF WriteBack
    <2>2. CASE pc' = "failed" /\ file' = file
      <3>1. \A x \in recorded \ edited : HoldsOn(x)'
        BY <2>1, <2>2 DEF HoldsOn, Holds
      <3> QED BY <2>1, <2>2, <3>1
    <2>3. CASE file' = Written(doc) /\ pc' = "check"
      <3>1. \A x \in at : file'[x] = doc[x]
        BY <2>1, <2>3, WrittenSays DEF ReviewInv, TypeOK
      <3>2. ASSUME NEW x \in recorded \ edited PROVE HoldsOn(x)'
        <4>1. /\ Holds(file, x) /\ Holds(before, x)
              /\ x \notin InNotes \/ at \subseteq InNotes => Holds(doc, x)
          BY <2>1 DEF HoldsOn
        <4>2. /\ file'[x] \in {doc[x], file[x]}
              /\ ~(x \notin InNotes \/ at \subseteq InNotes) => file'[x] = file[x]
          BY <2>3, WrittenSays DEF ReviewInv, TypeOK
        <4>3. Holds(file', x)
          BY <4>1, <4>2, HoldsOfEntry
        <4> QED BY <2>1, <2>3, <4>1, <4>3 DEF HoldsOn, Holds
      <3> QED BY <2>1, <2>3, <3>1, <3>2
    <2> QED BY <2>1, <2>2, <2>3
  <1>3. CASE Check
    <2>1. /\ pc = "check" /\ UNCHANGED <<file, doc, before, at, older, waiting, edited>>
          /\ \/ /\ \A e \in at : Holds(file, e)
                /\ pc' \in {"next", "again"} /\ recorded' = recorded \union at
             \/ pc' = "put back" /\ recorded' = recorded
      BY <1>3 DEF Check
    <2>2. ASSUME NEW x \in recorded \ edited PROVE HoldsOn(x)'
      BY <2>1 DEF HoldsOn, Holds
    <2>3. ASSUME NEW x \in at \ edited, recorded' = recorded \union at,
                 \A e \in at : Holds(file, e), pc' \in {"next", "again"}
          PROVE  HoldsOn(x)'
      <3>1. Holds(file, x) /\ file[x] = doc[x]
        BY <2>1, <2>3
      <3>2. Holds(doc, x)
        BY <3>1, HoldsOfEntry
      <3> QED BY <2>1, <2>3, <3>1, <3>2 DEF HoldsOn, Holds
    <2> QED BY <2>1, <2>2, <2>3
  <1>4. CASE PutBack
    <2>1. /\ pc = "put back" /\ pc' = "failed" /\ file' \in {Written(before), file}
          /\ UNCHANGED <<doc, before, at, older, waiting, recorded, edited>>
      BY <1>4 DEF PutBack
    <2>2. ASSUME NEW x \in recorded \ edited PROVE HoldsOn(x)'
      <3>1. Holds(file, x) /\ Holds(before, x) /\ (x \notin InNotes => Holds(doc, x))
        BY <2>1 DEF HoldsOn
      <3>2. file'[x] \in {before[x], file[x]}
        BY <2>1, WrittenSays DEF ReviewInv, TypeOK
      <3>3. Holds(file', x)
        BY <3>1, <3>2, HoldsOfEntry
      <3> QED BY <2>1, <3>1, <3>3 DEF HoldsOn, Holds
    <2> QED BY <2>1, <2>2
  <1>5. CASE Finish \/ Stop
    <2>1. /\ pc' \in {"finished", "stopped"}
          /\ UNCHANGED <<file, doc, before, at, older, waiting, recorded, edited>>
      BY <1>5 DEF Finish, Stop
    <2>2. \A x \in recorded \ edited : HoldsOn(x)'
      BY <2>1 DEF HoldsOn, Holds
    <2> QED BY <2>1, <2>2
  <1> QED BY <1>1, <1>2, <1>3, <1>4, <1>5

LEMMA ToolRecords ==
    ASSUME ReviewInv, RecordInv, ToolEdits
    PROVE  RecordInv'
  <1> USE DEF RecordInv, OnceEach, Answering, session, said
  <1>1. PICK e \in Entry :
            /\ edited' = edited \union {e}
            /\ \A x \in Entry \ {e} : file'[x] = file[x]
    BY DEF ToolEdits, ReviewInv, TypeOK, Entries
  <1>2. UNCHANGED <<doc, before, pc, at, older, waiting, recorded>>
    BY DEF ToolEdits
  <1>3. OnceEach'
    BY <1>1, <1>2 DEF ReviewInv, TypeOK
  <1>4. ASSUME NEW x \in recorded \ edited' PROVE HoldsOn(x)'
    <2>1. x \in recorded \ edited /\ file'[x] = file[x]
      BY <1>1, <1>4 DEF ReviewInv, TypeOK
    <2>2. HoldsOn(x)
      BY <2>1
    <2> QED BY <1>2, <2>1, <2>2 DEF HoldsOn, Holds
  <1> QED BY <1>2, <1>3, <1>4

(* The seal of a recorded entry goes on holding, whatever the review does   *)
(* later, unless the tool changes that entry itself.                        *)
THEOREM RecordedHold == Spec => []RecordedStays
  <1>1. RecordInv /\ UNCHANGED vars => RecordInv'
    BY DEF RecordInv, OnceEach, HoldsOn, Holds, vars, session, said, tool
  <1>2. ReviewInv /\ RecordInv /\ [Next]_vars => RecordInv'
    BY <1>1, ReadingRecords, SigningRecords, AskingRecords, SavingRecords, ToolRecords DEF Next
  <1>3. RecordInv => RecordedStays
    BY DEF RecordInv, HoldsOn, RecordedStays
  <1> QED BY RecordInit, ReviewInvariant, <1>2, <1>3, PTL DEF Spec
=============================================================================
