------------------------------- MODULE Verdict -------------------------------
(***************************************************************************)
(* From what a run found to what its report says and how it ends: the      *)
(* requirements are placed (Applicability), a decision written down adds a *)
(* finding of its own, the owner's reviews are applied one by one, what is *)
(* left on a line becomes one finding, each requirement gets its status,   *)
(* and the findings and gaps come to an exit status.  The person may then  *)
(* run it again, with the report just made as the baseline, on an app that *)
(* has changed.                                                            *)
(*                                                                         *)
(* sv-cli's settle, decisions_then_reviews, baseline and exit; sv-check's  *)
(* review::apply and one_per_line; sv-report's mark_outranked, status_of   *)
(* and build.                                                              *)
(*                                                                         *)
(* Findings are numbered in the order of the list.  Left out: two tools'   *)
(* reports of one weakness, which are merged first; how sure a rule is;    *)
(* counterparts, questions and threats; why an entry does not hold, which  *)
(* is part of the entry.                                                   *)
(***************************************************************************)
EXTENDS Applicability, FiniteSets

CONSTANTS
    ManualOnly,     \* requirements that only a person can answer
    NotForTests,    \* and those that the app's own tests cannot show
    Process,        \* those of Appendix C
    Findings,       \* how many findings there may be
    Names,          \* the requirements that each is about
    Severity,       \* 1 is the worst
    Own,            \* those of sv's own rules
    Quiet,          \* those that leave credit alone
    Line,           \* the line of code, 0 for none
    Now, Before,    \* the fingerprint of each, in either form
    Running,        \* the check of the running app that a decision is held to
    NotHeld,        \* the finding that the decision is not held to
    Profiles,       \* the runs to look at: sets of what each is given and finds
    Later           \* the profile of the runs that a baseline may be given to

Finding == 1 .. Findings
Credit == {"probe", "probe in part", "check", "check in part", "tests",
           "documented", "by hand", "attested", "stated"}
Status == {"needs attention", "not verified", "stated", "attested", "by hand", "documented",
           "app tested", "checked in part", "checked"}
Entry == [print : {Now[f] : f \in Finding} \union {Before[f] : f \in Finding},
          earlier : BOOLEAN, verdict : {"false alarm", "accepted"}, holds : BOOLEAN]
Worlds == [answers : Answers, seen : SUBSET (Finding \ {NotHeld}), decided : BOOLEAN,
           credit : [Requirement -> SUBSET Credit], entries : Seq(Entry),
           gaps : SUBSET {"could not run", "partly"}, bar : Nat, strict : BOOLEAN]

ASSUME FindingAssumption ==
    /\ Findings \in Nat
    /\ Names \in [Finding -> SUBSET Requirement]
    /\ Severity \in [Finding -> Nat \ {0}]
    /\ Line \in [Finding -> Nat]
    /\ DOMAIN Now = Finding /\ DOMAIN Before = Finding
    /\ Running \in Finding /\ NotHeld \in Finding /\ Running # NotHeld
    /\ Names[NotHeld] = Names[Running]
    /\ Line[Running] = 0 /\ Line[NotHeld] = 0
    /\ \A f \in Quiet : Line[f] = 0

\* The runs of a profile.
Runs(p) == [answers : p.answers, seen : p.seen, decided : p.decided, credit : p.credit,
            entries : p.entries, gaps : p.gaps, bar : p.bar, strict : p.strict]

ASSUME ProfileAssumption == \A p \in Profiles \union {Later} :
    /\ p.answers \subseteq Answers
    /\ p.seen \subseteq SUBSET (Finding \ {NotHeld})
    /\ p.decided \subseteq BOOLEAN
    /\ p.credit \subseteq [Requirement -> SUBSET Credit]
    /\ p.entries \subseteq Seq(Entry)
    /\ p.gaps \subseteq SUBSET {"could not run", "partly"}
    /\ p.bar \subseteq Nat
    /\ p.strict \subseteq BOOLEAN

VARIABLES
    world,      \* what the run was given and what its checks found
    at,         \* the step it is at
    place,      \* where each requirement landed
    findings,   \* the findings in the list
    next,       \* the entry of the reviews that is applied next
    taken,      \* the entry that has taken each finding, 0 for none
    voided,     \* the entries that an opposite one has voided
    aside,      \* the findings set aside as false alarms
    leads,      \* the findings that the report lists, one per line of code
    status,     \* what the report says of each requirement
    elsewhere,  \* findings about requirements that the app is not held to
    code,       \* how the run ends
    baseline,   \* the fingerprints that the older report's list has
    older       \* the fingerprints of all findings that the older report holds

review == <<next, taken, voided, aside>>
report == <<leads, status, elsewhere>>
given == <<world, baseline, older>>
vars == <<world, at, place, findings, next, taken, voided, aside, leads, status, elsewhere,
          code, baseline, older>>

Fingerprint == {Now[f] : f \in Finding} \union {Before[f] : f \in Finding}

Unplaced == [r \in Requirement |-> "none"]
Untaken == [f \in Finding |-> 0]

Init ==
    /\ \E p \in Profiles : world \in Runs(p)
    /\ baseline = {} /\ older = {}
    /\ at = "placing"
    /\ place = Unplaced /\ status = Unplaced
    /\ findings = world.seen
    /\ next = 1 /\ taken = Untaken
    /\ voided = {} /\ aside = {} /\ leads = {} /\ elsewhere = {}
    /\ code = 0

PlaceAll ==
    /\ at = "placing"
    /\ place' = [r \in Requirement |-> Place(world.answers, r)]
    /\ at' = "deciding"
    /\ UNCHANGED <<given, findings, review, report, code>>

\* not_held_to: the decision says the safe way, and the running app does otherwise.
HoldDecision ==
    /\ at = "deciding"
    /\ findings' = IF world.decided /\ Running \in findings THEN findings \union {NotHeld}
                   ELSE findings
    /\ at' = "reviewing"
    /\ UNCHANGED <<given, place, review, report, code>>

-----------------------------------------------------------------------------
(* The entries of the reviews, one by one.                                 *)

Entries == world.entries
Matches(e, f) == e.print = IF e.earlier THEN Before[f] ELSE Now[f]
Candidates(e) == {f \in findings : Matches(e, f)}
FirstOf(s) == CHOOSE f \in s : \A g \in s : f <= g
Free(e) == {f \in Candidates(e) : taken[f] = 0}

\* An entry of the earlier form names lines by their text, which several may have.
Ambiguous(e) == e.earlier /\ Cardinality({Line[f] : f \in Candidates(e)}) > 1
Counts(e) == Candidates(e) # {} /\ ~Ambiguous(e) /\ e.holds

Applying(e) ==
    /\ at = "reviewing"
    /\ next \in DOMAIN Entries
    /\ e = Entries[next]
    /\ next' = next + 1
    /\ UNCHANGED <<given, at, place, findings, aside, report, code>>

\* It matches nothing, or more than one place, or does not hold.
NotCounted(e) ==
    /\ Applying(e)
    /\ ~Counts(e)
    /\ UNCHANGED <<taken, voided>>

Takes(e) ==
    /\ Applying(e)
    /\ Counts(e) /\ Free(e) # {}
    /\ taken' = [taken EXCEPT ![FirstOf(Free(e))] = next]
    /\ UNCHANGED voided

TakenBefore(e) == taken[FirstOf(Candidates(e))]

\* Every finding that it matches is taken already.
Late(e) == Applying(e) /\ Counts(e) /\ Free(e) = {}

SaysAgain(e) ==
    /\ Late(e)
    /\ Entries[TakenBefore(e)].verdict = e.verdict
    /\ UNCHANGED <<taken, voided>>

\* Until 5 October 2026 the entry before it stayed in force.
OpposesOnly(e) ==
    /\ Late(e)
    /\ Entries[TakenBefore(e)].verdict # e.verdict
    /\ voided' = voided \union {next}
    /\ UNCHANGED taken

Opposes(e) ==
    /\ Late(e)
    /\ Entries[TakenBefore(e)].verdict # e.verdict
    /\ voided' = voided \union {next, TakenBefore(e)}
    /\ UNCHANGED taken

ApplyEntry == \E e \in {Entries[k] : k \in DOMAIN Entries} :
    NotCounted(e) \/ Takes(e) \/ SaysAgain(e) \/ Opposes(e)

FalseAlarm(f) ==
    taken[f] # 0 /\ taken[f] \notin voided /\ Entries[taken[f]].verdict = "false alarm"

\* The false alarms leave the list, and a decision's finding with the check's it rests on.
SetAside ==
    /\ at = "reviewing"
    /\ next > Len(Entries)
    /\ aside' = {f \in findings : FalseAlarm(f)}
    /\ findings' = {f \in findings \ aside' : f = NotHeld => Running \notin aside'}
    /\ at' = "folding"
    /\ UNCHANGED <<given, place, next, taken, voided, report, code>>

-----------------------------------------------------------------------------
(* The report.                                                             *)

\* The findings that are one entry of the report with f.
Mates(f) == IF Line[f] = 0 THEN {f} ELSE {g \in findings : Line[g] = Line[f]}

\* The order in which one is kept: the worst first, then sv's own, then the first.
Ahead(f, g) ==
    \/ Severity[f] < Severity[g]
    \/ Severity[f] = Severity[g] /\ f \in Own /\ g \notin Own
    \/ Severity[f] = Severity[g] /\ (f \in Own <=> g \in Own) /\ f <= g

\* The first on the line, however bad the others are.
LeaderFirst(s) == FirstOf(s)
Leader(s) == CHOOSE f \in s : \A g \in s : Ahead(f, g)

Fold ==
    /\ at = "folding"
    /\ leads' = {f \in findings : f = Leader(Mates(f))}
    /\ at' = "building"
    /\ UNCHANGED <<given, place, findings, review, status, elsewhere, code>>

Applicable == {r \in Requirement : place[r] = "applies"}
NamesOf(f) == UNION {Names[g] : g \in Mates(f)}
HeldTo(f) == NamesOf(f) \intersect Applicable

\* A tool's finding whose requirements the run's own checks of the running app verified.
CheckedWhileRunning(f) ==
    /\ Mates(f) \intersect Own = {}
    /\ HeldTo(f) # {}
    /\ \A r \in HeldTo(f) :
          r \notin ManualOnly /\ world.credit[r] \intersect {"probe", "probe in part"} # {}

Withholds(f) == f \notin Quiet /\ ~CheckedWhileRunning(f)

\* What counts of a requirement's credit.
Checks(r) ==
    IF r \in ManualOnly THEN {}
    ELSE world.credit[r] \intersect {"probe", "probe in part", "check", "check in part"}
Tests(r) ==
    IF r \in ManualOnly \union NotForTests THEN {} ELSE world.credit[r] \intersect {"tests"}
SetAsideHere(r) == \E f \in aside \ Quiet : r \in Names[f]

Strongest == <<"checked", "checked in part", "app tested", "documented", "by hand", "attested",
               "stated", "not verified">>

ByMachine == {"checked", "checked in part", "app tested"}
ByWord == {"documented", "by hand", "attested", "stated"}

Earns(r, s) ==
    /\ s \in ByMachine => ~SetAsideHere(r)
    /\ s = "checked" => Checks(r) \intersect {"probe", "check"} # {}
    /\ s = "checked in part" => Checks(r) # {}
    /\ s = "app tested" => Tests(r) # {}
    /\ s \in ByWord => s \in world.credit[r]

\* A finding beats every credit; then the strongest credit that is there.
StatusOf(r) ==
    IF \E f \in leads : Withholds(f) /\ r \in NamesOf(f) THEN "needs attention"
    ELSE LET i == CHOOSE n \in DOMAIN Strongest :
                     /\ Earns(r, Strongest[n])
                     /\ \A m \in 1 .. n - 1 : ~Earns(r, Strongest[m])
         IN Strongest[i]

\* A requirement of Appendix C that nothing has reached leaves the list.
Listed(r) ==
    IF r \in Process /\ StatusOf(r) = "not verified" THEN "apart" ELSE StatusOf(r)

Build ==
    /\ at = "building"
    /\ status' = [r \in Requirement |->
          IF r \notin Applicable THEN "none" ELSE Listed(r)]
    /\ elsewhere' = {fr \in leads \X Requirement : fr[2] \in NamesOf(fr[1]) \ Applicable}
    /\ at' = "ending"
    /\ UNCHANGED <<given, place, findings, review, leads, code>>

-----------------------------------------------------------------------------
(* How it ends.                                                            *)

\* Every fingerprint of either form of these findings.
Prints(fs) == {Now[f] : f \in fs} \union {Before[f] : f \in fs}
InBaseline(f) == {Now[f], Before[f]} \intersect baseline # {}

Attention == 1
NotAssessed == 2
Worse(a, b) == IF Attention \in {a, b} THEN Attention
               ELSE IF NotAssessed \in {a, b} THEN NotAssessed ELSE 0

Over == {f \in leads : Severity[f] <= world.bar /\ ~InBaseline(f)}

\* What was not read or run counts, and with `--fail-on not-assessed' what was in part.
Short == "could not run" \in world.gaps \/ (world.strict /\ "partly" \in world.gaps)

Exit ==
    /\ at = "ending"
    /\ code' = Worse(IF Over # {} THEN Attention ELSE 0, IF Short THEN NotAssessed ELSE 0)
    /\ at' = "ended"
    /\ UNCHANGED <<given, place, findings, review, report>>

\* `--baseline', with the report just made, on the app as it is by then.
Again ==
    /\ at = "ended"
    /\ older = {}
    /\ findings # {}
    /\ world' \in Runs(Later)
    /\ baseline' = Prints(leads)
    /\ older' = Prints(findings)
    /\ at' = "placing"
    /\ place' = Unplaced /\ status' = Unplaced
    /\ findings' = world'.seen
    /\ next' = 1 /\ taken' = Untaken
    /\ voided' = {} /\ aside' = {} /\ leads' = {} /\ elsewhere' = {}
    /\ code' = 0

Next == \/ PlaceAll \/ HoldDecision \/ ApplyEntry \/ SetAside \/ Fold \/ Build \/ Exit \/ Again

Spec == Init /\ [][Next]_vars

-----------------------------------------------------------------------------
(* Properties.                                                             *)

\* Every variable stays in its set: the run's input, the list, and the report.
TypeOK ==
    /\ world \in Worlds
    /\ at \in {"placing", "deciding", "reviewing", "folding", "building", "ending", "ended"}
    /\ place \in [Requirement -> Places \union {"none"}]
    /\ findings \subseteq Finding /\ aside \subseteq Finding /\ leads \subseteq Finding
    /\ next \in 1 .. Len(Entries) + 1
    /\ taken \in [Finding -> 0 .. Len(Entries)]
    /\ voided \subseteq 1 .. Len(Entries)
    /\ status \in [Requirement -> Status \union {"none", "apart"}]
    /\ elsewhere \subseteq Finding \X Requirement
    /\ code \in 0 .. 2
    /\ baseline \subseteq Fingerprint /\ older \subseteq Fingerprint

Reported == at \in {"ending", "ended"}

\* A requirement is kept out of the report's list of what the app has to meet only for a cause
\* that somebody gave: it is above the level of an app whose data is said to be plain and that
\* is not exposed, every rule of the narrowest scope is denied by the owner or by the code
\* (sv-manifest's resolve: "never a requirement they needed and were told they did not"), a
\* question is open and none is answered yes, or it is about the development process and
\* nothing was found or credited.
NothingLeftOut ==
    Reported => \A r \in Requirement :
        LET a == world.answers IN
        CASE status[r] = "apart" ->
               /\ r \in Process
               /\ \A f \in findings \ Quiet : r \in Names[f] => CheckedWhileRunning(f)
               /\ world.credit[r] \intersect ByWord = {}
          [] status[r] = "none" ->
               \/ Level[r] > 1 /\ a.data = "plain" /\ ~a.exposed
               \/ Level[r] > 2
               \/ /\ \A c \in RulesFor(r) : Denied(a, c)
                  /\ RulesFor(r) # {}
               \/ /\ place[r] = "not assessed"
                  /\ \A c \in RulesFor(r) \ {Never} : a.found[c] # "yes" /\ c # Always
          [] OTHER -> TRUE

\* An entry that holds, says this and means the finding.
Means(e, f, verdict) ==
    e.holds /\ e.verdict = verdict /\ Matches(e, f)
EntriesOf(f, verdict) == {k \in DOMAIN Entries : Means(Entries[k], f, verdict)}

\* Everything that the checks found, and the decision's own finding where it is not held to.
Made == world.seen \union (IF world.decided /\ Running \in world.seen THEN {NotHeld} ELSE {})

\* A person's entry sets it aside, and none that means it alone says the opposite.
Excused(f) ==
    /\ EntriesOf(f, "false alarm") # {}
    /\ \A k \in EntriesOf(f, "accepted") : \E g \in Made \ {f} : Means(Entries[k], g, "accepted")

\* What is found about a requirement is seen in the report, whatever else is on its line.
Shown(f) ==
    \E l \in leads : /\ l = f \/ (Line[f] = Line[l] /\ Line[f] # 0)
                     /\ \A r \in Names[f] :
                          \/ <<l, r>> \in elsewhere
                          \/ status[r] = "needs attention"
                          \/ l \in Quiet \/ CheckedWhileRunning(l)

\* Every finding that was made is seen against each requirement that it is about, or a person's
\* entry has set it aside, one entry one finding and never against an entry that says the
\* opposite; a requirement that lost a finding that way is not called checked or tested for it
\* (review::apply: "neither counts and the finding stands", one_per_line: "each still counts
\* against what it is evidence about", status_of: "a finding beats every credit").
EveryFindingCounts ==
    Reported =>
        /\ \A f \in Made : \/ f \in findings /\ Shown(f)
                           \/ f \in aside /\ Excused(f)
                           \/ f = NotHeld /\ Running \in aside
        /\ Cardinality(aside) <= Cardinality({k \in DOMAIN Entries :
                                   Entries[k].holds /\ Entries[k].verdict = "false alarm"})
        /\ \A f \in aside \ Quiet : \A r \in Names[f] :
              status[r] \notin ByMachine

\* A run that ends with 0 left nothing unread that it was to say, and has no finding as severe as
\* asked for, under whatever other finding of its line, but with a baseline that holds the one it
\* is listed with (Gaps::status_of: "at or above the bar").
CleanMeansClean ==
    at = "ended" /\ code = 0 =>
        /\ "could not run" \notin world.gaps
        /\ world.strict => "partly" \notin world.gaps
        /\ \A f \in findings : Severity[f] <= world.bar =>
              \E l \in leads \intersect Mates(f) : InBaseline(l) /\ Severity[l] <= Severity[f]

\* A finding that the older report already held does not set exit 1 (baseline.rs).
HeldNeverFails ==
    at = "ended" /\ older # {} /\ code = Attention =>
        \E f \in leads : Severity[f] <= world.bar /\ {Now[f], Before[f]} \intersect older = {}
=============================================================================
