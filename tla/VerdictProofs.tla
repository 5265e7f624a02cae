---------------------------- MODULE VerdictProofs ----------------------------
(***************************************************************************)
(* What is proved of a report, for any app, any rules and requirements, any *)
(* findings and any entries of reviews.                                     *)
(***************************************************************************)
EXTENDS Verdict, TLAPS, FiniteSetTheorems, SequenceTheorems, WellFoundedInduction

LEMMA RulesAreConditions == \A r \in Requirement : RulesFor(r) \subseteq Condition
  <1> SUFFICES ASSUME NEW r \in Requirement, NEW c \in RulesFor(r) PROVE c \in Condition
    OBVIOUS
  <1> DEFINE first == {j \in DOMAIN ScopesOf[r] : \A k \in 1 .. j - 1 : Rules(ScopesOf[r][k]) = {}}
  <1>1. \E s \in {Rules(ScopesOf[r][i]) : i \in first} : c \in s
    BY DEF RulesFor
  <1> HIDE DEF first
  <1>2. PICK i \in first : c \in Rules(ScopesOf[r][i])
    BY <1>1
  <1>3. i \in DOMAIN ScopesOf[r]
    BY DEF first
  <1>4. ScopesOf[r] \in Seq(Scope)
    BY RuleAssumption
  <1>5. i \in 1 .. Len(ScopesOf[r])
    BY <1>3, <1>4, LenProperties
  <1>6. ScopesOf[r][i] \in Scope
    BY <1>4, <1>5, ElementOfSeq
  <1> QED BY <1>2, <1>6, RuleAssumption DEF Rules

(* Adding a yes to the answers, the owner's or the scan's, never takes a    *)
(* requirement away (sv-manifest's resolve: "both directions add            *)
(* requirements; neither removes one").                                     *)
THEOREM YesOnlyAdds ==
    ASSUME NEW a \in Answers, NEW b \in Answers, Adds(a, b), NEW r \in Requirement,
           Place(a, r) = "applies"
    PROVE  Place(b, r) = "applies"
  <1>1. \A c \in Condition : Claim(a, c) = "yes" => Claim(b, c) = "yes"
    BY ConditionAssumption DEF Claim, Adds, Answers
  <1>2. \A c \in Condition : Effective(a, c) = "yes" => Effective(b, c) = "yes"
    BY <1>1, ConditionAssumption DEF Effective, Adds, Answers
  <1>3. RulesFor(r) \subseteq Condition
    BY RulesAreConditions
  <1>4. Says(a, r, "yes") => Says(b, r, "yes")
    BY <1>2, <1>3 DEF Says
  <1>5. Target(a) = Target(b) /\ Target(a) \in Nat
    BY DEF Target, Adds
  <1>6. ~(Level[r] > Target(a)) /\ (RulesFor(r) = {} \/ Says(a, r, "yes"))
    <2>1. "above the level" # "applies" /\ "not assessed" # "applies" /\ "does not apply" # "applies"
      OBVIOUS
    <2> QED BY <2>1, Zenon DEF Place
  <1> QED BY <1>4, <1>5, <1>6 DEF Place

(* Each condition that does not hold is denied or open.                     *)
LEMMA NoIsDenied ==
    ASSUME NEW a \in Answers, NEW c \in Condition
    PROVE  /\ Effective(a, c) \in Answer
           /\ Effective(a, c) = "no" => Denied(a, c)
           /\ Effective(a, c) # "yes" => c = Never \/ (c # Always /\ a.found[c] # "yes")
  <1>1. a.stated[c] \in Answer /\ a.found[c] \in Answer /\ a.stated[Ai] \in Answer /\ a.stated[Oauth] \in Answer
    BY ConditionAssumption DEF Answers
  <1>2. Claim(a, c) \in Answer
    BY <1>1 DEF Claim, Answer
  <1>3. Effective(a, c) \in Answer
    BY <1>1, <1>2 DEF Effective, Answer
  <1>4. ASSUME Effective(a, c) = "no" PROVE Denied(a, c)
    BY <1>1, <1>4, ConditionAssumption DEF Effective, Claim, Denied, Answer
  <1> QED BY <1>3, <1>4, <1>1, ConditionAssumption DEF Effective, Answer

(* In a set of findings there is one that goes ahead of all the others.     *)
LEMMA LeastNat ==
    ASSUME NEW S, S \subseteq Nat, S # {}
    PROVE  \E x \in S : \A y \in S : x <= y
  <1>1. \E x \in S : \A y \in S : ~(<<y, x>> \in OpToRel(<, Nat))
    BY NatLessThanWellFounded, WFMin
  <1>2. PICK x \in S : \A y \in S : ~(<<y, x>> \in OpToRel(<, Nat))
    BY <1>1
  <1>3. ASSUME NEW y \in S PROVE x <= y
    <2>1. ~(<<y, x>> \in OpToRel(<, Nat))
      BY <1>2
    <2>2. x \in Nat /\ y \in Nat
      OBVIOUS
    <2>3. ~(y < x)
      BY <2>1, <2>2 DEF OpToRel
    <2> QED BY <2>2, <2>3
  <1> QED BY <1>3

LEMMA LeaderLeads ==
    ASSUME NEW S, S \subseteq Finding, S # {}
    PROVE  /\ Leader(S) \in S
           /\ \A g \in S : Severity[Leader(S)] <= Severity[g]
  <1> USE FindingAssumption
  <1>1. \A f \in S : f \in Nat /\ Severity[f] \in Nat
    BY DEF Finding
  <1>2. PICK worst \in {Severity[f] : f \in S} : \A n \in {Severity[f] : f \in S} : worst <= n
    <2>1. {Severity[f] : f \in S} \subseteq Nat /\ {Severity[f] : f \in S} # {}
      BY <1>1
    <2> QED BY <2>1, LeastNat
  <1> DEFINE bad == {f \in S : Severity[f] = worst}
             mine == {f \in bad : f \in Own}
             best == IF mine # {} THEN mine ELSE bad
  <1>3. best # {} /\ best \subseteq Nat /\ best \subseteq bad
    BY <1>1, <1>2
  <1>4. PICK f \in best : \A g \in best : f <= g
    BY <1>3, LeastNat
  <1>5. ASSUME NEW g \in S PROVE Ahead(f, g)
    <2>1. worst <= Severity[g] /\ Severity[f] = worst /\ Severity[g] \in Nat /\ worst \in Nat
      BY <1>1, <1>2, <1>3, <1>4
    <2>2. CASE worst < Severity[g]
      BY <2>1, <2>2 DEF Ahead
    <2>3. CASE Severity[g] = worst
      <3>1. CASE mine = {}
        <4>1. f \notin Own /\ g \notin Own /\ f <= g
          BY <2>3, <3>1, <1>3, <1>4
        <4> QED BY <2>1, <2>3, <4>1 DEF Ahead
      <3>2. CASE mine # {} /\ g \in Own
        <4>1. f \in Own /\ f <= g
          BY <2>3, <3>2, <1>4
        <4> QED BY <2>1, <2>3, <3>2, <4>1 DEF Ahead
      <3>3. CASE mine # {} /\ g \notin Own
        <4>1. f \in Own
          BY <3>3, <1>4
        <4> QED BY <2>1, <2>3, <3>3, <4>1 DEF Ahead
      <3> QED BY <3>1, <3>2, <3>3
    <2> QED BY <2>1, <2>2, <2>3
  <1>6. \E x \in S : \A g \in S : Ahead(x, g)
    BY <1>3, <1>4, <1>5
  <1>7. Leader(S) \in S /\ \A g \in S : Ahead(Leader(S), g)
    BY <1>6 DEF Leader
  <1>8. ASSUME NEW g \in S PROVE Severity[Leader(S)] <= Severity[g]
    <2> DEFINE l == Leader(S)
    <2>1. Ahead(l, g) /\ l \in S
      BY <1>7
    <2>2. Severity[l] \in Nat /\ Severity[g] \in Nat
      BY <1>1, <2>1
    <2> HIDE DEF l
    <2>3. Severity[l] <= Severity[g]
      BY <2>1, <2>2 DEF Ahead
    <2> QED BY <2>3 DEF l
  <1> QED BY <1>7, <1>8

(* A requirement's status is the first of the credits that it earns, and it *)
(* earns that one.                                                          *)
LEMMA StatusEarned ==
    ASSUME NEW r \in Requirement
    PROVE  \/ /\ StatusOf(r) = "needs attention"
              /\ \E f \in leads : Withholds(f) /\ r \in NamesOf(f)
           \/ /\ ~\E f \in leads : Withholds(f) /\ r \in NamesOf(f)
              /\ \E n \in 1 .. 8 : /\ StatusOf(r) = Strongest[n] /\ Earns(r, Strongest[n])
                                   /\ \A m \in 1 .. n - 1 : ~Earns(r, Strongest[m])
  <1> DEFINE here == \E f \in leads : Withholds(f) /\ r \in NamesOf(f)
             Is(n) == Earns(r, Strongest[n]) /\ \A m \in 1 .. n - 1 : ~Earns(r, Strongest[m])
             i == CHOOSE n \in DOMAIN Strongest : Is(n)
             earned == {n \in 1 .. 8 : Earns(r, Strongest[n])}
  <1>1. DOMAIN Strongest = 1 .. 8
    BY DEF Strongest
  <1>2. 8 \in earned
    <2>1. Strongest[8] = "not verified"
      BY DEF Strongest
    <2>2. Earns(r, Strongest[8])
      BY <2>1 DEF Earns, ByMachine, ByWord
    <2> QED BY <2>2
  <1>3. PICK n \in earned : \A m \in earned : n <= m
    <2>1. earned \subseteq Nat /\ earned # {}
      BY <1>2
    <2> HIDE DEF earned
    <2> QED BY <2>1, LeastNat
  <1>4. \A m \in 1 .. n - 1 : ~Earns(r, Strongest[m])
    <2> SUFFICES ASSUME NEW m \in 1 .. n - 1, Earns(r, Strongest[m]) PROVE FALSE
      OBVIOUS
    <2>1. m \in 1 .. 8 /\ m < n
      BY <1>3
    <2>2. m \in earned
      BY <2>1
    <2> QED BY <2>1, <2>2, <1>3
  <1>5. n \in DOMAIN Strongest /\ Is(n)
    BY <1>1, <1>3, <1>4
  <1>6. i \in DOMAIN Strongest /\ Is(i)
    <2> HIDE DEF Is
    <2> QED BY <1>5
  <1>7. CASE here
    BY <1>7 DEF StatusOf
  <1>8. CASE ~here
    <2>1. StatusOf(r) = Strongest[i]
      BY <1>8 DEF StatusOf
    <2> QED BY <2>1, <1>1, <1>6, <1>8
  <1> QED BY <1>7, <1>8

LEMMA RunsTyped == \A p \in Profiles \union {Later} : Runs(p) \subseteq Worlds
  BY ProfileAssumption DEF Runs, Worlds

LEMMA FirstIsIn ==
    ASSUME NEW S, S \subseteq Finding, S # {}
    PROVE  FirstOf(S) \in S
  <1>1. S \subseteq Nat
    BY FindingAssumption DEF Finding
  <1>2. \E f \in S : \A g \in S : f <= g
    BY <1>1, LeastNat
  <1> QED BY <1>2 DEF FirstOf

LEMMA WorldTyped ==
    ASSUME TypeOK
    PROVE  /\ Entries \in Seq(Entry)
           /\ Len(Entries) \in Nat
           /\ DOMAIN Entries = 1 .. Len(Entries)
           /\ \A k \in DOMAIN Entries : Entries[k] \in Entry
           /\ world.seen \subseteq Finding \ {NotHeld}
           /\ world.answers \in Answers
           /\ Made \subseteq Finding
  <1>1. Entries \in Seq(Entry) /\ world.seen \subseteq Finding \ {NotHeld} /\ world.answers \in Answers
    BY DEF TypeOK, Worlds, Entries
  <1>2. Len(Entries) \in Nat /\ DOMAIN Entries = 1 .. Len(Entries) /\ \A k \in DOMAIN Entries : Entries[k] \in Entry
    BY <1>1, LenProperties, ElementOfSeq
  <1>3. Made \subseteq Finding
    BY <1>1, FindingAssumption DEF Made
  <1> QED BY <1>1, <1>2, <1>3

(* An entry that comes late finds another that took its finding before.     *)
LEMMA LateFindsOne ==
    ASSUME TypeOK, NEW e, Late(e)
    PROVE  /\ FirstOf(Candidates(e)) \in Candidates(e)
           /\ TakenBefore(e) \in 1 .. Len(Entries)
  <1>1. Candidates(e) # {} /\ Free(e) = {} /\ Candidates(e) \subseteq Finding
    BY DEF Late, Counts, Candidates, TypeOK
  <1>2. FirstOf(Candidates(e)) \in Candidates(e)
    BY <1>1, FirstIsIn
  <1>3. taken[FirstOf(Candidates(e))] # 0
    BY <1>1, <1>2 DEF Free
  <1>4. taken[FirstOf(Candidates(e))] \in 0 .. Len(Entries)
    BY <1>1, <1>2 DEF TypeOK
  <1> QED BY <1>2, <1>3, <1>4, WorldTyped DEF TakenBefore

LEMMA StatusTyped == \A r \in Requirement : StatusOf(r) \in Status
  <1> SUFFICES ASSUME NEW r \in Requirement PROVE StatusOf(r) \in Status
    OBVIOUS
  <1>1. ASSUME NEW n \in 1 .. 8 PROVE Strongest[n] \in Status
    <2>1. n \in {1, 2, 3, 4, 5, 6, 7, 8}
      OBVIOUS
    <2>2. /\ Strongest[1] = "checked" /\ Strongest[2] = "checked in part"
          /\ Strongest[3] = "app tested" /\ Strongest[4] = "documented"
          /\ Strongest[5] = "by hand" /\ Strongest[6] = "attested"
          /\ Strongest[7] = "stated" /\ Strongest[8] = "not verified"
      BY DEF Strongest
    <2>3. Strongest[n] \in {"checked", "checked in part", "app tested", "documented", "by hand",
                           "attested", "stated", "not verified"}
      BY <2>1, <2>2
    <2> QED BY <2>3 DEF Status
  <1> QED BY <1>1, StatusEarned DEF Status

LEMMA PlaceTyped == \A a \in Answers, r \in Requirement : Place(a, r) \in Places
  BY DEF Place, Places

LEMMA VerdictInit == Init => TypeOK
  <1> SUFFICES ASSUME Init PROVE TypeOK
    OBVIOUS
  <1>1. world \in Worlds
    BY RunsTyped DEF Init
  <1>2. Entries \in Seq(Entry) /\ world.seen \subseteq Finding
    BY <1>1 DEF Worlds, Entries
  <1>3. Len(Entries) \in Nat
    BY <1>2, LenProperties
  <1>4. next \in 1 .. Len(Entries) + 1 /\ taken \in [Finding -> 0 .. Len(Entries)]
    BY <1>3 DEF Init, Untaken
  <1>5. place \in [Requirement -> Places \union {"none"}] /\ status \in [Requirement -> Status \union {"none", "apart"}]
    BY DEF Init, Unplaced
  <1> QED BY <1>1, <1>2, <1>4, <1>5 DEF Init, TypeOK

LEMMA VerdictNext == TypeOK /\ [Next]_vars => TypeOK'
  <1> SUFFICES ASSUME TypeOK, [Next]_vars PROVE TypeOK'
    OBVIOUS
  <1> USE DEF given, review, report
  <1>0. Len(Entries) \in Nat /\ DOMAIN Entries = 1 .. Len(Entries)
    BY WorldTyped
  <1>1. CASE PlaceAll
    <2>1. place' \in [Requirement -> Places \union {"none"}]
      BY <1>1, PlaceTyped, WorldTyped DEF PlaceAll
    <2> QED BY <1>1, <2>1 DEF PlaceAll, TypeOK, Entries
  <1>2. CASE HoldDecision
    <2>1. findings' \subseteq Finding
      BY <1>2, FindingAssumption DEF HoldDecision, TypeOK
    <2> QED BY <1>2, <2>1 DEF HoldDecision, TypeOK, Entries
  <1>3. ASSUME NEW e, NotCounted(e) \/ Takes(e) \/ SaysAgain(e) \/ Opposes(e)
        PROVE  TypeOK'
    <2>1. Applying(e)
      BY <1>3 DEF NotCounted, Takes, SaysAgain, Opposes, Late
    <2>2. next \in 1 .. Len(Entries) /\ next' \in 1 .. Len(Entries) + 1
      BY <2>1, <1>0 DEF Applying
    <2>3. taken' \in [Finding -> 0 .. Len(Entries)]
      BY <1>3, <2>2 DEF NotCounted, Takes, SaysAgain, Opposes, TypeOK
    <2>4. voided' \subseteq 1 .. Len(Entries)
      <3>1. CASE Opposes(e)
        <4>1. TakenBefore(e) \in 1 .. Len(Entries)
          BY <3>1, LateFindsOne DEF Opposes
        <4> QED BY <3>1, <4>1, <2>2 DEF Opposes, TypeOK
      <3>2. CASE ~Opposes(e)
        BY <1>3, <3>2 DEF NotCounted, Takes, SaysAgain, TypeOK
      <3> QED BY <3>1, <3>2
    <2> QED BY <2>1, <2>2, <2>3, <2>4 DEF Applying, TypeOK, Entries
  <1>4. CASE SetAside
    <2>1. findings' \subseteq Finding /\ aside' \subseteq Finding
      BY <1>4 DEF SetAside, TypeOK
    <2> QED BY <1>4, <2>1 DEF SetAside, TypeOK, Entries
  <1>5. CASE Fold
    <2>1. leads' \subseteq Finding
      BY <1>5 DEF Fold, TypeOK
    <2> QED BY <1>5, <2>1 DEF Fold, TypeOK, Entries
  <1>6. CASE Build
    <2>1. \A r \in Requirement : Listed(r) \in Status \union {"apart"}
      BY StatusTyped DEF Listed
    <2>2. status' \in [Requirement -> Status \union {"none", "apart"}]
      BY <1>6, <2>1 DEF Build
    <2>3. elsewhere' \subseteq Finding \X Requirement
      BY <1>6 DEF Build, TypeOK
    <2> QED BY <1>6, <2>2, <2>3 DEF Build, TypeOK, Entries
  <1>7. CASE Exit
    <2>1. code' \in 0 .. 2
      BY <1>7 DEF Exit, Worse, Attention, NotAssessed
    <2> QED BY <1>7, <2>1 DEF Exit, TypeOK, Entries
  <1>8. CASE Again
    <2>1. world' \in Worlds
      BY <1>8, RunsTyped DEF Again
    <2>2. Entries' \in Seq(Entry) /\ world'.seen \subseteq Finding
      BY <2>1 DEF Worlds, Entries
    <2>3. Len(Entries)' \in Nat
      BY <2>2, LenProperties
    <2>4. next' \in 1 .. Len(Entries)' + 1 /\ taken' \in [Finding -> 0 .. Len(Entries)']
      BY <1>8, <2>3 DEF Again, Untaken
    <2>5. place' \in [Requirement -> Places \union {"none"}] /\ status' \in [Requirement -> Status \union {"none", "apart"}]
      BY <1>8 DEF Again, Unplaced
    <2>6. baseline' \subseteq Fingerprint /\ older' \subseteq Fingerprint
      BY <1>8 DEF Again, Prints, Fingerprint, TypeOK
    <2>7. /\ findings' = world'.seen /\ code' = 0 /\ at' = "placing" /\ voided' = {}
          /\ aside' = {} /\ leads' = {} /\ elsewhere' = {}
      BY <1>8 DEF Again
    <2> QED BY <2>1, <2>2, <2>4, <2>5, <2>6, <2>7 DEF TypeOK
  <1>9. CASE UNCHANGED vars
    BY <1>9 DEF vars, TypeOK, Entries
  <1> QED BY <1>1, <1>2, <1>3, <1>4, <1>5, <1>6, <1>7, <1>8, <1>9 DEF Next, ApplyEntry

(* Type correctness, for any app, rules, findings and reviews.              *)
THEOREM VerdictTyped == Spec => []TypeOK
  BY VerdictInit, VerdictNext, PTL DEF Spec

(***************************************************************************)
(* The entries.  A finding is taken by one entry that holds and means it,   *)
(* one entry takes one finding, and an entry that means a finding alone has *)
(* taken it, found it taken by one that says the same, or voided that one.  *)
(***************************************************************************)
Settled == at \in {"folding", "building", "ending", "ended"}

Alone(k, f) == /\ f \in Made /\ Entries[k].holds
               /\ \A g \in Made : Matches(Entries[k], g) <=> g = f

TakenTruly ==
    \A f \in Finding : taken[f] # 0 =>
        /\ f \in Made /\ taken[f] < next
        /\ Entries[taken[f]].holds /\ Matches(Entries[taken[f]], f)
TakenOnce == \A f, g \in Finding : taken[f] # 0 /\ taken[f] = taken[g] => f = g
Answered ==
    \A k \in 1 .. next - 1 : \A f \in Finding : Alone(k, f) =>
        /\ taken[f] # 0
        /\ taken[f] \in voided \/ Entries[taken[f]].verdict = Entries[k].verdict

ListInv ==
    /\ at \in {"placing", "deciding"} => findings = world.seen
    /\ at = "reviewing" => findings = Made
    /\ Settled => /\ next > Len(Entries)
                  /\ \A f \in Finding : f \in aside <=> f \in Made /\ FalseAlarm(f)
                  /\ \A f \in Finding : f \in findings <=>
                        f \in Made \ aside /\ (f = NotHeld => Running \notin aside)

EntriesInv == TypeOK /\ ListInv /\ TakenTruly /\ TakenOnce /\ Answered

LEMMA EntriesInit == Init => EntriesInv
  <1> SUFFICES ASSUME Init PROVE EntriesInv
    OBVIOUS
  <1>1. TypeOK
    BY VerdictInit
  <1>2. at = "placing" /\ findings = world.seen /\ next = 1 /\ \A f \in Finding : taken[f] = 0
    BY DEF Init, Untaken
  <1> QED BY <1>1, <1>2 DEF EntriesInv, ListInv, TakenTruly, TakenOnce, Answered, Settled

(* What an entry means depends on the run alone.                            *)
LEMMA SameRun ==
    ASSUME UNCHANGED world
    PROVE  /\ Entries' = Entries /\ Made' = Made
           /\ \A k, f : Alone(k, f)' <=> Alone(k, f)
  BY DEF Entries, Made, Alone, Matches

LEMMA SameReviews ==
    ASSUME EntriesInv, UNCHANGED <<world, next, taken, voided>>
    PROVE  TakenTruly' /\ TakenOnce' /\ Answered'
  <1>1. Entries' = Entries /\ Made' = Made /\ \A k, f : Alone(k, f)' <=> Alone(k, f)
    BY SameRun
  <1>2. TakenTruly'
    BY <1>1 DEF EntriesInv, TakenTruly, Matches
  <1>3. TakenOnce'
    BY DEF EntriesInv, TakenOnce
  <1>4. Answered'
    BY <1>1 DEF EntriesInv, Answered
  <1> QED BY <1>2, <1>3, <1>4

(* An entry that means a finding alone counts, and finds that one only.     *)
LEMMA AloneCounts ==
    ASSUME EntriesInv, NEW e, Applying(e), NEW f \in Finding, Alone(next, f)
    PROVE  Counts(e) /\ Candidates(e) = {f}
  <1>1. findings = Made /\ e = Entries[next] /\ e.holds
    BY DEF EntriesInv, ListInv, Applying, Alone
  <1>2. Candidates(e) = {f}
    BY <1>1 DEF Candidates, Alone
  <1>3. {Line[g] : g \in Candidates(e)} = {Line[f]}
    BY <1>2
  <1>4. Cardinality({Line[g] : g \in Candidates(e)}) = 1
    BY <1>3, FS_Singleton
  <1>5. ~Ambiguous(e)
    BY <1>4 DEF Ambiguous
  <1> QED BY <1>1, <1>2, <1>5 DEF Counts

LEMMA EntryApplied ==
    ASSUME EntriesInv, NEW e, NotCounted(e) \/ Takes(e) \/ SaysAgain(e) \/ Opposes(e)
    PROVE  TakenTruly' /\ TakenOnce' /\ Answered'
  <1>1. Applying(e)
    BY DEF NotCounted, Takes, SaysAgain, Opposes, Late
  <1>2. /\ Entries' = Entries /\ Made' = Made /\ \A k, f : Alone(k, f)' <=> Alone(k, f)
        /\ next' = next + 1 /\ findings = Made /\ e = Entries[next]
        /\ next \in 1 .. Len(Entries) /\ Len(Entries) \in Nat
    BY <1>1, SameRun, WorldTyped DEF Applying, given, EntriesInv, ListInv
  <1>3. \A f \in Finding : taken[f] \in 0 .. Len(Entries)
    BY DEF EntriesInv, TypeOK
  <1>4. \A k \in 1 .. next' - 1 : k \in 1 .. next - 1 \/ k = next
    BY <1>2
  <1>5. CASE NotCounted(e)
    <2>1. UNCHANGED <<taken, voided>> /\ ~Counts(e)
      BY <1>5 DEF NotCounted
    <2>2. TakenTruly'
      BY <1>2, <1>3, <2>1 DEF EntriesInv, TakenTruly, Matches
    <2>3. TakenOnce'
      BY <2>1 DEF EntriesInv, TakenOnce
    <2>4. \A f \in Finding : ~Alone(next, f)
      BY <1>1, <2>1, AloneCounts
    <2>5. Answered'
      BY <1>2, <1>4, <2>1, <2>4 DEF EntriesInv, Answered
    <2> QED BY <2>2, <2>3, <2>5
  <1>6. CASE Takes(e)
    <2> DEFINE x == FirstOf(Free(e))
    <2>1. x \in Free(e)
      <3>1. Free(e) # {} /\ Free(e) \subseteq Finding
        BY <1>6 DEF Takes, Free, Candidates, EntriesInv, TypeOK
      <3> QED BY <3>1, FirstIsIn
    <2>2. x \in Finding /\ x \in Made /\ taken[x] = 0 /\ Matches(e, x) /\ e.holds
      BY <1>2, <1>6, <2>1 DEF Takes, Counts, Free, Candidates, EntriesInv, TypeOK
    <2>3. taken' = [taken EXCEPT ![x] = next] /\ voided' = voided
      BY <1>6 DEF Takes
    <2>4. \A f \in Finding : taken'[f] = IF f = x THEN next ELSE taken[f]
      BY <2>2, <2>3 DEF EntriesInv, TypeOK
    <2>5. \A f \in Made : Alone(next, f) => f = x
      <3> SUFFICES ASSUME NEW f \in Made, Alone(next, f) PROVE f = x
        OBVIOUS
      <3>1. f \in Finding
        BY WorldTyped DEF EntriesInv
      <3> QED BY <1>1, <2>1, <3>1, AloneCounts DEF Free
    <2> HIDE DEF x
    <2>6. TakenTruly'
      <3> SUFFICES ASSUME NEW f \in Finding, taken'[f] # 0
                   PROVE  /\ f \in Made' /\ taken'[f] < next'
                          /\ Entries'[taken'[f]].holds /\ Matches(Entries'[taken'[f]], f)
        BY DEF TakenTruly, Matches
      <3>1. CASE f = x
        BY <1>2, <2>2, <2>4, <3>1
      <3>2. CASE f # x
        <4>1. taken'[f] = taken[f] /\ taken[f] # 0
          BY <2>4, <3>2
        <4>2. /\ f \in Made /\ taken[f] < next
              /\ Entries[taken[f]].holds /\ Matches(Entries[taken[f]], f)
          BY <4>1 DEF EntriesInv, TakenTruly
        <4>3. taken[f] < next + 1
          BY <1>2, <1>3, <4>2
        <4> QED BY <1>2, <4>1, <4>2, <4>3
      <3> QED BY <3>1, <3>2
    <2>7. TakenOnce'
      <3>1. \A f \in Finding : taken[f] # 0 => taken[f] # next
        BY <1>2, <1>3 DEF EntriesInv, TakenTruly
      <3> QED BY <1>2, <2>4, <3>1 DEF EntriesInv, TakenOnce
    <2>8. Answered'
      <3> SUFFICES ASSUME NEW k \in 1 .. next' - 1, NEW f \in Finding, Alone(k, f)
                   PROVE  /\ taken'[f] # 0
                          /\ taken'[f] \in voided' \/ Entries'[taken'[f]].verdict = Entries'[k].verdict
        BY <1>2 DEF Answered
      <3>1. CASE k = next
        <4>1. f = x
          BY <2>5, <3>1 DEF Alone
        <4> QED BY <1>2, <2>4, <3>1, <4>1
      <3>2. CASE k \in 1 .. next - 1
        <4>1. taken[f] # 0 /\ (taken[f] \in voided \/ Entries[taken[f]].verdict = Entries[k].verdict)
          BY <3>2 DEF EntriesInv, Answered
        <4>2. taken'[f] = taken[f]
          BY <2>2, <2>4, <4>1
        <4> QED BY <1>2, <2>3, <4>1, <4>2
      <3> QED BY <1>4, <3>1, <3>2
    <2> QED BY <2>6, <2>7, <2>8
  <1>7. CASE SaysAgain(e) \/ Opposes(e)
    <2>1. Late(e) /\ taken' = taken /\ voided \subseteq voided'
      BY <1>7 DEF SaysAgain, Opposes
    <2>2. TakenTruly'
      BY <1>2, <1>3, <2>1 DEF EntriesInv, TakenTruly, Matches
    <2>3. TakenOnce'
      BY <2>1 DEF EntriesInv, TakenOnce
    <2>4. ASSUME NEW f \in Finding, Alone(next, f)
          PROVE  taken[f] # 0 /\ (taken[f] \in voided' \/ Entries[taken[f]].verdict = Entries[next].verdict)
      <3>1. Candidates(e) = {f}
        BY <1>1, <2>4, AloneCounts
      <3>2. FirstOf(Candidates(e)) = f /\ TakenBefore(e) = taken[f]
        BY <2>1, <3>1, LateFindsOne DEF EntriesInv, TakenBefore
      <3>3. taken[f] # 0
        BY <2>1, <3>2, LateFindsOne, <1>2 DEF EntriesInv
      <3>4. taken[f] \in voided' \/ Entries[taken[f]].verdict = e.verdict
        BY <1>7, <3>2 DEF SaysAgain, Opposes
      <3> QED BY <1>2, <3>3, <3>4
    <2>5. Answered'
      BY <1>2, <1>4, <2>1, <2>4 DEF EntriesInv, Answered
    <2> QED BY <2>2, <2>3, <2>5
  <1> QED BY <1>5, <1>6, <1>7

LEMMA EntriesNext == EntriesInv /\ [Next]_vars => EntriesInv'
  <1> SUFFICES ASSUME EntriesInv, [Next]_vars PROVE EntriesInv'
    OBVIOUS
  <1> USE DEF given, review, report
  <1>0. TypeOK' /\ TypeOK
    BY VerdictNext DEF EntriesInv
  <1>1. ASSUME UNCHANGED <<world, next, taken, voided>>, ListInv' PROVE EntriesInv'
    BY <1>0, <1>1, SameReviews DEF EntriesInv
  <1>2. CASE PlaceAll
    <2>1. ListInv'
      BY <1>2 DEF PlaceAll, EntriesInv, ListInv, Settled
    <2> QED BY <1>1, <1>2, <2>1 DEF PlaceAll
  <1>3. CASE HoldDecision
    <2>1. findings' = Made /\ Made' = Made /\ at' = "reviewing"
      BY <1>3 DEF HoldDecision, EntriesInv, ListInv, Made
    <2>2. ListInv'
      BY <2>1 DEF ListInv, Settled
    <2> QED BY <1>1, <1>3, <2>2 DEF HoldDecision
  <1>4. ASSUME NEW e, NotCounted(e) \/ Takes(e) \/ SaysAgain(e) \/ Opposes(e)
        PROVE  EntriesInv'
    <2>1. Applying(e)
      BY <1>4 DEF NotCounted, Takes, SaysAgain, Opposes, Late
    <2>2. ListInv'
      BY <2>1 DEF Applying, EntriesInv, ListInv, Settled, Made
    <2> QED BY <1>0, <1>4, <2>2, EntryApplied DEF EntriesInv
  <1>5. CASE SetAside
    <2>1. Made' = Made /\ findings = Made /\ at' = "folding" /\ next' > Len(Entries')
      BY <1>5 DEF SetAside, EntriesInv, ListInv, Made, Entries
    <2>2. \A f : FalseAlarm(f)' <=> FalseAlarm(f)
      BY <1>5 DEF SetAside, FalseAlarm, Entries
    <2>3. \A f \in Finding : f \in aside' <=> f \in Made /\ FalseAlarm(f)
      BY <1>5, <2>1 DEF SetAside
    <2>4. \A f \in Finding : f \in findings' <=>
             f \in Made \ aside' /\ (f = NotHeld => Running \notin aside')
      BY <1>5, <2>1 DEF SetAside
    <2>5. ListInv'
      BY <2>1, <2>2, <2>3, <2>4 DEF ListInv, Settled
    <2> QED BY <1>1, <1>5, <2>5 DEF SetAside
  <1>6. ASSUME Settled, Settled', UNCHANGED <<world, findings, next, taken, voided, aside>>
        PROVE  EntriesInv'
    <2>1. Made' = Made /\ Entries' = Entries
      BY <1>6, SameRun
    <2>2. \A f : FalseAlarm(f)' <=> FalseAlarm(f)
      BY <1>6, <2>1 DEF FalseAlarm
    <2>3. ListInv'
      BY <1>6, <2>1, <2>2 DEF EntriesInv, ListInv, Settled
    <2> QED BY <1>1, <1>6, <2>3
  <1>7. CASE Fold \/ Build \/ Exit
    BY <1>6, <1>7 DEF Fold, Build, Exit, Settled
  <1>8. CASE Again
    <2>1. /\ at' = "placing" /\ findings' = world'.seen /\ next' = 1
          /\ \A f \in Finding : taken'[f] = 0
      BY <1>8 DEF Again, Untaken
    <2>2. ListInv' /\ TakenTruly' /\ TakenOnce' /\ Answered'
      BY <2>1 DEF ListInv, Settled, TakenTruly, TakenOnce, Answered
    <2> QED BY <1>0, <2>2 DEF EntriesInv
  <1>9. CASE UNCHANGED vars
    <2>1. ListInv'
      BY <1>9 DEF vars, EntriesInv, ListInv, Settled, Made, FalseAlarm, Entries
    <2> QED BY <1>1, <1>9, <2>1 DEF vars
  <1> QED BY <1>2, <1>3, <1>4, <1>5, <1>7, <1>8, <1>9 DEF Next, ApplyEntry

(***************************************************************************)
(* The report.  Each of its parts is what the step that made it says, of    *)
(* the list as it was left.                                                 *)
(***************************************************************************)
Folded == at \in {"building", "ending", "ended"}

ReportInv ==
    /\ at # "placing" => place = [r \in Requirement |-> Place(world.answers, r)]
    /\ Folded => leads = {f \in findings : f = Leader(Mates(f))}
    /\ Reported => /\ \A r \in Requirement :
                         status[r] = IF r \notin Applicable THEN "none" ELSE Listed(r)
                   /\ elsewhere = {fr \in leads \X Requirement :
                                     fr[2] \in NamesOf(fr[1]) \ Applicable}
    /\ at = "ended" => code = Worse(IF Over # {} THEN Attention ELSE 0,
                                    IF Short THEN NotAssessed ELSE 0)

(* What is said of a requirement depends on the run, on where it landed, on *)
(* the list, on what was set aside and on the leads.                        *)
LEMMA SameList ==
    ASSUME UNCHANGED <<world, place, findings>>
    PROVE  /\ \A f : Mates(f)' = Mates(f)
           /\ \A f : NamesOf(f)' = NamesOf(f)
           /\ Applicable' = Applicable
           /\ \A f : Withholds(f)' <=> Withholds(f)
  <1>1. \A f : Mates(f)' = Mates(f)
    BY DEF Mates
  <1>2. \A f : NamesOf(f)' = NamesOf(f)
    BY <1>1 DEF NamesOf
  <1>3. Applicable' = Applicable
    BY DEF Applicable
  <1>4. \A f : HeldTo(f)' = HeldTo(f)
    BY <1>2, <1>3 DEF HeldTo
  <1>5. \A f : CheckedWhileRunning(f)' <=> CheckedWhileRunning(f)
    BY <1>1, <1>4 DEF CheckedWhileRunning
  <1> QED BY <1>1, <1>2, <1>3, <1>5 DEF Withholds

LEMMA SameReport ==
    ASSUME UNCHANGED <<world, place, findings, aside, leads>>
    PROVE  \A r : Listed(r)' = Listed(r)
  <1>1. ASSUME NEW r PROVE Checks(r)' = Checks(r) /\ Tests(r)' = Tests(r)
    BY DEF Checks, Tests
  <1>2. ASSUME NEW r PROVE SetAsideHere(r)' <=> SetAsideHere(r)
    BY DEF SetAsideHere
  <1>3. ASSUME NEW r, NEW s PROVE Earns(r, s)' <=> Earns(r, s)
    <2>1. Checks(r)' = Checks(r) /\ Tests(r)' = Tests(r) /\ (SetAsideHere(r)' <=> SetAsideHere(r))
      BY <1>1, <1>2
    <2> QED BY <2>1 DEF Earns
  <1>4. ASSUME NEW r PROVE StatusOf(r)' = StatusOf(r)
    <2>1. (\E f \in leads : Withholds(f) /\ r \in NamesOf(f))' <=>
          \E f \in leads : Withholds(f) /\ r \in NamesOf(f)
      BY SameList
    <2> DEFINE Is(n) == Earns(r, Strongest[n]) /\ \A m \in 1 .. n - 1 : ~Earns(r, Strongest[m])
               i == CHOOSE n \in DOMAIN Strongest : Is(n)
    <2>2. \A n : Is(n)' <=> Is(n)
      BY <1>3
    <2>3. i' = i
      <3> HIDE DEF Is
      <3> QED BY <2>2
    <2>4. StatusOf(r) = IF \E f \in leads : Withholds(f) /\ r \in NamesOf(f)
                        THEN "needs attention" ELSE Strongest[i]
      BY DEF StatusOf
    <2>5. StatusOf(r)' = IF (\E f \in leads : Withholds(f) /\ r \in NamesOf(f))'
                         THEN "needs attention" ELSE Strongest[i']
      BY DEF StatusOf
    <2> HIDE DEF i
    <2> QED BY <2>1, <2>3, <2>4, <2>5
  <1> QED BY <1>4 DEF Listed

LEMMA ReportInit == Init => ReportInv
  BY DEF Init, ReportInv, Folded, Reported

LEMMA ReportNext == EntriesInv /\ ReportInv /\ [Next]_vars => ReportInv'
  <1> SUFFICES ASSUME EntriesInv, ReportInv, [Next]_vars PROVE ReportInv'
    OBVIOUS
  <1> USE DEF given, review, report
  <1>1. CASE PlaceAll
    <2>1. at' = "deciding" /\ place' = [r \in Requirement |-> Place(world'.answers, r)]
      BY <1>1 DEF PlaceAll
    <2> QED BY <2>1 DEF ReportInv, Folded, Reported
  <1>2. ASSUME UNCHANGED <<world, place>>, at \notin {"placing", "ending", "ended"},
               at' \in {"deciding", "reviewing", "folding"}
        PROVE  ReportInv'
    BY <1>2 DEF ReportInv, Folded, Reported
  <1>3. CASE HoldDecision \/ SetAside
    BY <1>2, <1>3 DEF HoldDecision, SetAside
  <1>4. ASSUME NEW e, Applying(e) PROVE ReportInv'
    BY <1>2, <1>4 DEF Applying
  <1>5. CASE ApplyEntry
    BY <1>4, <1>5 DEF ApplyEntry, NotCounted, Takes, SaysAgain, Opposes, Late
  <1>6. CASE Fold
    <2>1. UNCHANGED <<world, place, findings>> /\ at = "folding" /\ at' = "building"
      BY <1>6 DEF Fold
    <2>2. \A f : Mates(f)' = Mates(f)
      BY <2>1, SameList
    <2>3. leads' = {f \in findings' : f = Leader(Mates(f)')}
      BY <1>6, <2>1, <2>2 DEF Fold
    <2> QED BY <2>1, <2>3 DEF ReportInv, Folded, Reported
  <1>7. ASSUME UNCHANGED <<world, place, findings, aside, leads>>, Folded,
               (leads = {f \in findings : f = Leader(Mates(f))})
        PROVE  /\ leads' = {f \in findings' : f = Leader(Mates(f)')}
               /\ Applicable' = Applicable
               /\ \A f : NamesOf(f)' = NamesOf(f)
               /\ \A r : Listed(r)' = Listed(r)
    BY <1>7, SameList, SameReport
  <1>8. CASE Build
    <2>1. /\ UNCHANGED <<world, place, findings, aside, leads>>
          /\ at = "building" /\ at' = "ending" /\ Folded
          /\ leads = {f \in findings : f = Leader(Mates(f))}
      BY <1>8 DEF Build, ReportInv, Folded
    <2>2. /\ leads' = {f \in findings' : f = Leader(Mates(f)')}
          /\ Applicable' = Applicable /\ \A f : NamesOf(f)' = NamesOf(f)
          /\ \A r : Listed(r)' = Listed(r)
      BY <1>7, <2>1
    <2>3. \A r \in Requirement :
             status'[r] = IF r \notin Applicable' THEN "none" ELSE Listed(r)'
      BY <1>8, <2>2 DEF Build
    <2>4. elsewhere' = {fr \in leads' \X Requirement :
                          fr[2] \in NamesOf(fr[1])' \ Applicable'}
      BY <1>8, <2>1, <2>2 DEF Build
    <2>5. place' = [r \in Requirement |-> Place(world'.answers, r)]
      BY <2>1 DEF ReportInv
    <2> QED BY <2>1, <2>2, <2>3, <2>4, <2>5 DEF ReportInv, Folded, Reported
  <1>9. ASSUME UNCHANGED <<world, place, findings, aside, leads, status, elsewhere>>, Reported
        PROVE  /\ place' = [r \in Requirement |-> Place(world'.answers, r)]
               /\ leads' = {f \in findings' : f = Leader(Mates(f)')}
               /\ \A r \in Requirement :
                     status'[r] = IF r \notin Applicable' THEN "none" ELSE Listed(r)'
               /\ elsewhere' = {fr \in leads' \X Requirement :
                                  fr[2] \in NamesOf(fr[1])' \ Applicable'}
    <2>1. Folded /\ at # "placing"
      BY <1>9 DEF Folded, Reported
    <2>2. /\ leads' = {f \in findings' : f = Leader(Mates(f)')}
          /\ Applicable' = Applicable /\ \A f : NamesOf(f)' = NamesOf(f)
          /\ \A r : Listed(r)' = Listed(r)
      BY <1>7, <1>9, <2>1 DEF ReportInv
    <2>3. \A r \in Requirement :
             status'[r] = IF r \notin Applicable' THEN "none" ELSE Listed(r)'
      BY <1>9, <2>2 DEF ReportInv
    <2>4. elsewhere' = {fr \in leads' \X Requirement :
                          fr[2] \in NamesOf(fr[1])' \ Applicable'}
      BY <1>9, <2>2 DEF ReportInv
    <2> QED BY <1>9, <2>1, <2>2, <2>3, <2>4 DEF ReportInv
  <1>10. CASE Exit
    <2>1. /\ UNCHANGED <<world, place, findings, aside, leads, status, elsewhere, baseline>>
          /\ Reported /\ at' = "ended"
      BY <1>10 DEF Exit, Reported
    <2>2. Over' = Over /\ (Short' <=> Short)
      BY <2>1 DEF Over, InBaseline, Short
    <2>3. code' = Worse(IF Over' # {} THEN Attention ELSE 0,
                        IF Short' THEN NotAssessed ELSE 0)
      BY <1>10, <2>2 DEF Exit
    <2> QED BY <1>9, <2>1, <2>3 DEF ReportInv, Folded, Reported
  <1>11. CASE Again
    BY <1>11 DEF Again, ReportInv, Folded, Reported
  <1>12. CASE UNCHANGED vars
    <2>1. UNCHANGED <<world, at, place, findings, aside, leads, status, elsewhere, code, baseline>>
      BY <1>12 DEF vars
    <2>2. CASE Reported
      <3>1. Over' = Over /\ (Short' <=> Short)
        BY <2>1 DEF Over, InBaseline, Short
      <3>2. at' = "ended" => code' = Worse(IF Over' # {} THEN Attention ELSE 0,
                                           IF Short' THEN NotAssessed ELSE 0)
        BY <2>1, <3>1 DEF ReportInv
      <3> QED BY <1>9, <2>1, <2>2, <3>2 DEF ReportInv, Folded, Reported
    <2>3. CASE ~Reported
      <3>1. \A f : Mates(f)' = Mates(f)
        BY <2>1, SameList
      <3> QED BY <2>1, <2>3, <3>1 DEF ReportInv, Folded, Reported
    <2> QED BY <2>2, <2>3
  <1> QED BY <1>1, <1>3, <1>5, <1>6, <1>8, <1>10, <1>11, <1>12 DEF Next

LEMMA AlwaysReported == Spec => [](EntriesInv /\ ReportInv)
  <1>1. Init => EntriesInv /\ ReportInv
    BY EntriesInit, ReportInit
  <1>2. EntriesInv /\ ReportInv /\ [Next]_vars => (EntriesInv /\ ReportInv)'
    BY EntriesNext, ReportNext
  <1> QED BY <1>1, <1>2, PTL DEF Spec

(* A finding in the list is on the line of a lead as severe as it, which is *)
(* itself for one on no line.                                               *)
LEMMA LedByOne ==
    ASSUME EntriesInv, ReportInv, Folded, NEW f \in findings
    PROVE  \E l \in leads : /\ l \in Mates(f) /\ Mates(l) = Mates(f) /\ f \in Mates(l)
                            /\ l = f \/ (Line[f] = Line[l] /\ Line[f] # 0)
                            /\ Severity[l] <= Severity[f]
  <1> DEFINE l == Leader(Mates(f))
  <1>1. Mates(f) \subseteq findings /\ f \in Mates(f) /\ findings \subseteq Finding
    BY DEF Mates, EntriesInv, TypeOK
  <1>2. l \in Mates(f) /\ Severity[l] <= Severity[f]
    BY <1>1, LeaderLeads
  <1>3. Mates(l) = Mates(f) /\ (l = f \/ (Line[f] = Line[l] /\ Line[f] # 0))
    <2> HIDE DEF l
    <2> QED BY <1>2 DEF Mates
  <1>4. l \in leads
    BY <1>1, <1>2, <1>3 DEF ReportInv
  <1> QED BY <1>1, <1>2, <1>3, <1>4

LEMMA NamedThere ==
    ASSUME NEW l, NEW f \in Mates(l), NEW r \in Names[f]
    PROVE  r \in NamesOf(l)
  <1>1. Names[f] \in {Names[g] : g \in Mates(l)}
    OBVIOUS
  <1> QED BY <1>1 DEF NamesOf

(* Exit 0 means that all was read and that no finding is over the bar, under *)
(* whatever other finding of its line.                                       *)
THEOREM ZeroIsClean == Spec => []CleanMeansClean
  <1>1. EntriesInv /\ ReportInv => CleanMeansClean
    <2> SUFFICES ASSUME EntriesInv, ReportInv, at = "ended", code = 0
                 PROVE  /\ "could not run" \notin world.gaps
                        /\ world.strict => "partly" \notin world.gaps
                        /\ \A f \in findings : Severity[f] <= world.bar =>
                              \E l \in leads \intersect Mates(f) :
                                  InBaseline(l) /\ Severity[l] <= Severity[f]
      BY DEF CleanMeansClean
    <2>1. code = Worse(IF Over # {} THEN Attention ELSE 0, IF Short THEN NotAssessed ELSE 0)
      BY DEF ReportInv
    <2>2. Over = {} /\ ~Short
      BY <2>1 DEF Worse, Attention, NotAssessed
    <2>3. ASSUME NEW f \in findings, Severity[f] <= world.bar
          PROVE  \E l \in leads \intersect Mates(f) : InBaseline(l) /\ Severity[l] <= Severity[f]
      <3> Folded
        BY DEF Folded
      <3>1. PICK l \in leads : l \in Mates(f) /\ Severity[l] <= Severity[f]
        BY <2>3, LedByOne
      <3>2. Severity[l] \in Nat /\ Severity[f] \in Nat /\ world.bar \in Nat
        BY <2>3, FindingAssumption DEF EntriesInv, TypeOK, Worlds
      <3>3. Severity[l] <= world.bar
        BY <2>3, <3>1, <3>2
      <3> QED BY <2>2, <3>1, <3>3 DEF Over
    <2> QED BY <2>2, <2>3 DEF Short
  <1> QED BY <1>1, AlwaysReported, PTL

(* No requirement is kept from the report but for a cause that somebody gave. *)
THEOREM LeftOutForCause == Spec => []NothingLeftOut
  <1>1. ASSUME EntriesInv, ReportInv, Reported, NEW r \in Requirement, status[r] = "apart"
        PROVE  /\ r \in Process
               /\ \A f \in findings \ Quiet : r \in Names[f] => CheckedWhileRunning(f)
               /\ world.credit[r] \intersect ByWord = {}
    <2>1. StatusOf(r) \in Status
      BY StatusTyped
    <2>2. Listed(r) = "apart"
      BY <1>1 DEF ReportInv
    <2>3. r \in Process /\ StatusOf(r) = "not verified"
      BY <2>1, <2>2 DEF Listed, Status
    <2>4. /\ ~\E f \in leads : Withholds(f) /\ r \in NamesOf(f)
          /\ \E n \in 1 .. 8 : /\ StatusOf(r) = Strongest[n]
                               /\ \A m \in 1 .. n - 1 : ~Earns(r, Strongest[m])
      BY <2>3, StatusEarned
    <2>5. PICK n \in 1 .. 8 : StatusOf(r) = Strongest[n] /\ \A m \in 1 .. n - 1 : ~Earns(r, Strongest[m])
      BY <2>4
    <2>6. n = 8
      <3>1. n \in {1, 2, 3, 4, 5, 6, 7, 8}
        OBVIOUS
      <3>2. /\ Strongest[1] = "checked" /\ Strongest[2] = "checked in part"
            /\ Strongest[3] = "app tested" /\ Strongest[4] = "documented"
            /\ Strongest[5] = "by hand" /\ Strongest[6] = "attested" /\ Strongest[7] = "stated"
        BY DEF Strongest
      <3> QED BY <2>3, <2>5, <3>1, <3>2
    <2>7. \A s \in ByWord : ~Earns(r, s)
      <3>1. /\ Strongest[4] = "documented" /\ Strongest[5] = "by hand"
            /\ Strongest[6] = "attested" /\ Strongest[7] = "stated"
        BY DEF Strongest
      <3>2. ~Earns(r, Strongest[4]) /\ ~Earns(r, Strongest[5]) /\ ~Earns(r, Strongest[6]) /\ ~Earns(r, Strongest[7])
        BY <2>5, <2>6
      <3> QED BY <3>1, <3>2 DEF ByWord
    <2>8. \A s \in ByWord : s \notin world.credit[r]
      <3>1. \A s \in ByWord : s \notin ByMachine /\ s # "checked" /\ s # "checked in part" /\ s # "app tested"
        BY DEF ByWord, ByMachine
      <3> QED BY <2>7, <3>1 DEF Earns
    <2>9. ASSUME NEW f \in findings \ Quiet, r \in Names[f] PROVE CheckedWhileRunning(f)
      <3> Folded /\ f \in findings
        BY <1>1, <2>9 DEF Reported, Folded
      <3>1. PICK l \in leads : /\ l \in Mates(f) /\ Mates(l) = Mates(f) /\ f \in Mates(l)
                               /\ l = f \/ (Line[f] = Line[l] /\ Line[f] # 0)
        BY <1>1, LedByOne
      <3>2. r \in NamesOf(l)
        BY <2>9, <3>1, NamedThere
      <3>3. l \in Quiet \/ CheckedWhileRunning(l)
        BY <2>4, <3>2 DEF Withholds
      <3>4. l \notin Quiet
        BY <2>9, <3>1, FindingAssumption
      <3>5. HeldTo(l) = HeldTo(f)
        <4>1. NamesOf(l) = NamesOf(f)
          BY <3>1 DEF NamesOf
        <4> QED BY <4>1 DEF HeldTo
      <3>6. CheckedWhileRunning(l) /\ Mates(l) = Mates(f)
        BY <3>1, <3>3, <3>4
      <3> QED BY <3>5, <3>6, Zenon DEF CheckedWhileRunning
    <2> QED BY <2>3, <2>8, <2>9
  <1>2. ASSUME EntriesInv, ReportInv, Reported, NEW r \in Requirement, status[r] = "none"
        PROVE  LET a == world.answers IN
               \/ Level[r] > 1 /\ a.data = "plain" /\ ~a.exposed
               \/ Level[r] > 2
               \/ /\ \A c \in RulesFor(r) : Denied(a, c)
                  /\ RulesFor(r) # {}
               \/ /\ place[r] = "not assessed"
                  /\ \A c \in RulesFor(r) \ {Never} : a.found[c] # "yes" /\ c # Always
    <2> DEFINE a == world.answers
    <2>1. a \in Answers
      BY <1>2, WorldTyped DEF EntriesInv
    <2>2. Listed(r) # "none"
      <3>1. StatusOf(r) \in Status
        BY StatusTyped
      <3> QED BY <3>1 DEF Listed, Status
    <2>3. place[r] = Place(a, r) /\ place[r] # "applies"
      BY <1>2, <2>2 DEF ReportInv, Reported, Applicable
    <2>4. \A c \in RulesFor(r) : /\ Effective(a, c) \in Answer
                                 /\ Effective(a, c) = "no" => Denied(a, c)
                                 /\ Effective(a, c) # "yes" => c = Never \/ (c # Always /\ a.found[c] # "yes")
      BY <2>1, RulesAreConditions, NoIsDenied
    <2> HIDE DEF a
    <2>5. CASE Level[r] > Target(a)
      BY <2>5 DEF Target, a
    <2>6. CASE ~(Level[r] > Target(a))
      <3>1. RulesFor(r) # {} /\ ~Says(a, r, "yes")
        BY <2>3, <2>6, Zenon DEF Place
      <3>2. CASE Says(a, r, "unknown")
        <4>1. place[r] = "not assessed"
          BY <2>3, <2>6, <3>1, <3>2 DEF Place
        <4>2. \A c \in RulesFor(r) : Effective(a, c) # "yes"
          BY <3>1 DEF Says
        <4>3. \A c \in RulesFor(r) \ {Never} : a.found[c] # "yes" /\ c # Always
          BY <2>4, <4>2
        <4> QED BY <4>1, <4>3 DEF a
      <3>3. CASE ~Says(a, r, "unknown")
        <4>1. \A c \in RulesFor(r) : Effective(a, c) # "yes" /\ Effective(a, c) # "unknown"
          BY <3>1, <3>3 DEF Says
        <4>2. \A c \in RulesFor(r) : Effective(a, c) = "no"
          BY <2>4, <4>1 DEF Answer
        <4>3. \A c \in RulesFor(r) : Denied(a, c)
          BY <2>4, <4>2
        <4> QED BY <3>1, <4>3 DEF a
      <3> QED BY <3>2, <3>3
    <2> QED BY <2>5, <2>6
  <1>3. EntriesInv /\ ReportInv => NothingLeftOut
    BY <1>1, <1>2 DEF NothingLeftOut
  <1> QED BY <1>3, AlwaysReported, PTL

(* Every finding is seen against what it is about, or a person's entry, and *)
(* no more than that one, has set it aside.                                 *)
THEOREM FindingsCount == Spec => []EveryFindingCounts
  <1>1. ASSUME EntriesInv, ReportInv, Reported, NEW f \in findings PROVE Shown(f)
    <2>1. PICK l \in leads : /\ f \in Mates(l)
                             /\ l = f \/ (Line[f] = Line[l] /\ Line[f] # 0)
      BY <1>1, LedByOne DEF Reported, Folded
    <2>2. ASSUME NEW r \in Names[f]
          PROVE  \/ <<l, r>> \in elsewhere
                 \/ status[r] = "needs attention"
                 \/ l \in Quiet \/ CheckedWhileRunning(l)
      <3>1. r \in NamesOf(l) /\ r \in Requirement
        <4>1. f \in Finding
          BY <1>1 DEF EntriesInv, TypeOK
        <4>2. Names[f] \subseteq Requirement
          BY <4>1, FindingAssumption
        <4> QED BY <2>1, <2>2, <4>2, NamedThere
      <3>2. CASE r \notin Applicable
        BY <1>1, <3>1, <3>2 DEF ReportInv
      <3>3. CASE r \in Applicable /\ Withholds(l)
        <4>1. StatusOf(r) = "needs attention"
          BY <3>1, <3>3, StatusEarned
        <4>2. status[r] = Listed(r)
          BY <1>1, <3>1, <3>3 DEF ReportInv
        <4> QED BY <4>1, <4>2 DEF Listed
      <3>4. CASE ~Withholds(l)
        BY <3>4 DEF Withholds
      <3> QED BY <3>2, <3>3, <3>4
    <2> QED BY <2>1, <2>2 DEF Shown
  <1>2. ASSUME EntriesInv, Reported, NEW f \in aside
        PROVE  /\ f \in Made /\ taken[f] \in DOMAIN Entries /\ taken[f] \notin voided
               /\ Means(Entries[taken[f]], f, "false alarm")
    <2>1. f \in Finding /\ Settled
      BY <1>2 DEF EntriesInv, TypeOK, Reported, Settled
    <2>2. f \in Made /\ FalseAlarm(f)
      BY <1>2, <2>1 DEF EntriesInv, ListInv
    <2>3. taken[f] \in 0 .. Len(Entries) /\ taken[f] # 0
      BY <1>2, <2>1, <2>2 DEF EntriesInv, TypeOK, FalseAlarm
    <2>4. taken[f] \in DOMAIN Entries
      BY <2>3, <1>2, WorldTyped DEF EntriesInv
    <2> QED BY <1>2, <2>1, <2>2, <2>3, <2>4 DEF EntriesInv, TakenTruly, Means, FalseAlarm
  <1>3. ASSUME EntriesInv, Reported, NEW f \in aside PROVE Excused(f)
    <2>1. EntriesOf(f, "false alarm") # {}
      BY <1>2, <1>3 DEF EntriesOf
    <2>2. ASSUME NEW k \in EntriesOf(f, "accepted")
          PROVE  \E g \in Made \ {f} : Means(Entries[k], g, "accepted")
      <3> SUFFICES ASSUME \A g \in Made \ {f} : ~Means(Entries[k], g, "accepted") PROVE FALSE
        OBVIOUS
      <3>1. k \in DOMAIN Entries /\ Means(Entries[k], f, "accepted")
        BY DEF EntriesOf
      <3>2. Alone(k, f)
        BY <1>2, <1>3, <3>1 DEF Alone, Means
      <3>3. k \in 1 .. next - 1 /\ f \in Finding
        <4>1. /\ k \in 1 .. Len(Entries) /\ Len(Entries) \in Nat
              /\ next > Len(Entries) /\ next \in 1 .. Len(Entries) + 1
          BY <1>3, <3>1, WorldTyped DEF EntriesInv, ListInv, Settled, Reported, TypeOK
        <4> QED BY <4>1, <1>3 DEF EntriesInv, TypeOK
      <3>4. taken[f] \in voided \/ Entries[taken[f]].verdict = Entries[k].verdict
        BY <1>3, <3>2, <3>3 DEF EntriesInv, Answered
      <3> QED BY <1>2, <1>3, <3>1, <3>4 DEF Means
    <2> QED BY <2>1, <2>2 DEF Excused
  <1>4. ASSUME EntriesInv, Reported
        PROVE  Cardinality(aside) <= Cardinality({k \in DOMAIN Entries :
                                        Entries[k].holds /\ Entries[k].verdict = "false alarm"})
    <2> DEFINE K == {k \in DOMAIN Entries :
                       Entries[k].holds /\ Entries[k].verdict = "false alarm"}
               h == [f \in aside |-> taken[f]]
    <2>1. IsFiniteSet(K)
      <3>1. Len(Entries) \in Nat /\ K \subseteq 1 .. Len(Entries)
        BY <1>4, WorldTyped DEF EntriesInv
      <3>2. IsFiniteSet(1 .. Len(Entries))
        <4> DEFINE n == Len(Entries)
        <4> HIDE DEF n
        <4>1. n \in Nat
          BY <3>1, Zenon DEF n
        <4>2. IsFiniteSet(1 .. n)
          BY <4>1, FS_Interval
        <4> QED BY <4>2 DEF n
      <3> QED BY <3>1, <3>2, FS_Subset
    <2>2. h \in [aside -> K]
      BY <1>2, <1>4 DEF Means
    <2>3. \A f, g \in aside : h[f] = h[g] => f = g
      <3> SUFFICES ASSUME NEW f \in aside, NEW g \in aside, taken[f] = taken[g] PROVE f = g
        OBVIOUS
      <3>1. f \in Finding /\ g \in Finding
        BY <1>4 DEF EntriesInv, TypeOK
      <3>2. taken[f] # 0
        <4>1. taken[f] \in DOMAIN Entries
          BY <1>2, <1>4
        <4> QED BY <1>4, <4>1, WorldTyped DEF EntriesInv
      <3> QED BY <1>4, <3>1, <3>2 DEF EntriesInv, TakenOnce
    <2> HIDE DEF h, K
    <2>4. h \in Injection(aside, K)
      BY <2>2, <2>3 DEF Injection, IsInjective
    <2>5. Cardinality(aside) <= Cardinality(K)
      BY <2>1, <2>4, FS_Injection
    <2> QED BY <2>5 DEF K
  <1>5. ASSUME EntriesInv, ReportInv, Reported, NEW f \in aside \ Quiet, NEW r \in Names[f]
        PROVE  status[r] \notin ByMachine
    <2>1. r \in Requirement
      BY <1>5, FindingAssumption DEF EntriesInv, TypeOK
    <2>2. SetAsideHere(r)
      BY DEF SetAsideHere
    <2>3. \A s : Earns(r, s) => s \notin ByMachine
      BY <2>2 DEF Earns
    <2>4. StatusOf(r) = "needs attention" \/ Earns(r, StatusOf(r))
      BY <2>1, StatusEarned
    <2>5. StatusOf(r) \notin ByMachine
      BY <2>3, <2>4 DEF ByMachine
    <2>6. status[r] \in {"none", "apart", StatusOf(r)}
      BY <1>5, <2>1 DEF ReportInv, Listed
    <2> QED BY <2>5, <2>6 DEF ByMachine
  <1>6. EntriesInv /\ ReportInv => EveryFindingCounts
    <2> SUFFICES ASSUME EntriesInv, ReportInv, Reported
                 PROVE  /\ \A f \in Made : \/ f \in findings /\ Shown(f)
                                           \/ f \in aside /\ Excused(f)
                                           \/ f = NotHeld /\ Running \in aside
                        /\ Cardinality(aside) <= Cardinality({k \in DOMAIN Entries :
                               Entries[k].holds /\ Entries[k].verdict = "false alarm"})
                        /\ \A f \in aside \ Quiet : \A r \in Names[f] : status[r] \notin ByMachine
      BY DEF EveryFindingCounts
    <2>1. ASSUME NEW f \in Made
          PROVE  \/ f \in findings \/ f \in aside
                 \/ f = NotHeld /\ Running \in aside
      <3>1. f \in Finding /\ Settled
        BY <2>1, WorldTyped DEF EntriesInv, Reported, Settled
      <3> QED BY <2>1, <3>1 DEF EntriesInv, ListInv
    <2>2. \A f \in findings : Shown(f)
      BY <1>1
    <2>3. \A f \in aside : Excused(f)
      BY <1>3
    <2>4. \A f \in aside \ Quiet : \A r \in Names[f] : status[r] \notin ByMachine
      BY <1>5
    <2> QED BY <1>4, <2>1, <2>2, <2>3, <2>4
  <1> QED BY <1>6, AlwaysReported, PTL
=============================================================================
