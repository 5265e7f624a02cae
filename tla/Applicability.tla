---------------------------- MODULE Applicability ----------------------------
(***************************************************************************)
(* Which requirements an app is held to: from the owner's answers in       *)
(* stackvet.toml and what the scan found in the code to the four places    *)
(* that a requirement can land in (sv-manifest's claims and resolve,       *)
(* sv-frameworks' rules_for and bucket).                                   *)
(*                                                                         *)
(* A condition is answered "yes", "no" or not at all, by the owner         *)
(* (`stated'), by the scan (`found'), or both.  Left out: what a report    *)
(* says of a claim, the reason printed beside an exclusion, `no-auth',     *)
(* which no rule names, and `level-2', which follows from the level.       *)
(***************************************************************************)
EXTENDS Naturals, Sequences

CONSTANTS
    Condition,
    Always, Never,          \* the conditions that are what they are
    Ai, AboutAi,            \* "uses AI", and what is only asked of an app that does
    Oauth, AuthServer,      \* "uses OAuth", and "runs an authorization server"
    Derived,                \* the conditions that nobody is asked
    Requirement,
    Level,                  \* 1 or higher, of each requirement
    Scope,
    ScopesOf,               \* itself, its section and its chapter, of each requirement
    Base, Overlay           \* the conditions of the rules at each scope, of either file

ASSUME ConditionAssumption ==
    /\ {Always, Never, Ai, Oauth, AuthServer} \union AboutAi \union Derived \subseteq Condition
    /\ Always # Never
    /\ Derived \intersect ({Always, Never, Ai, Oauth, AuthServer} \union AboutAi) = {}
    /\ {Always, Never, Ai, Oauth, AuthServer} \intersect AboutAi = {}
    /\ AuthServer \notin {Always, Never, Ai, Oauth}
ASSUME RuleAssumption ==
    /\ Level \in [Requirement -> Nat]
    /\ ScopesOf \in [Requirement -> Seq(Scope)]
    /\ Base \in [Scope -> SUBSET Condition]
    /\ Overlay \in [Scope -> SUBSET Condition]

Answer == {"yes", "no", "unknown"}

Answers == [stated : [Condition -> Answer], found : [Condition -> Answer],
            data : {"unsaid", "plain", "sensitive", "unlisted"}, exposed : BOOLEAN]

Target(a) == IF a.data # "plain" \/ a.exposed THEN 2 ELSE 1

Claim(a, c) ==
    CASE c \in AboutAi ->
           IF a.stated[Ai] = "yes" THEN a.stated[c] ELSE a.stated[Ai]
      [] c = AuthServer ->
           IF a.stated[c] # "yes" /\ a.stated[Oauth] = "no" THEN "no" ELSE a.stated[c]
      [] OTHER -> a.stated[c]

\* Before 26 September 2026, a scan that found nothing answered for an owner who said nothing.
EffectiveOfSilence(a, c) ==
    CASE c = Always -> "yes"
      [] c = Never -> "no"
      [] c \in Derived -> a.found[c]
      [] OTHER -> IF a.found[c] = "yes" \/ Claim(a, c) = "unknown" THEN a.found[c]
                  ELSE Claim(a, c)

Effective(a, c) ==
    CASE c = Always -> "yes"
      [] c = Never -> "no"
      [] c \in Derived -> a.found[c]
      [] OTHER -> IF a.found[c] = "yes" THEN "yes" ELSE Claim(a, c)

\* The overlay replaces the rules at a scope that it names.
Rules(s) == IF Overlay[s] # {} THEN Overlay[s] ELSE Base[s]

\* The rules at the narrowest scope that has any.
RulesFor(r) ==
    UNION {Rules(ScopesOf[r][i]) : i \in
        {j \in DOMAIN ScopesOf[r] : \A k \in 1 .. j - 1 : Rules(ScopesOf[r][k]) = {}}}

\* Some rule of the requirement has this answer.
Says(a, r, answer) == \E c \in RulesFor(r) : Effective(a, c) = answer

Place(a, r) ==
    IF Level[r] > Target(a) THEN "above the level"
    ELSE IF RulesFor(r) = {} \/ Says(a, r, "yes") THEN "applies"
    ELSE IF Says(a, r, "unknown") THEN "not assessed" ELSE "does not apply"

Places == {"above the level", "applies", "not assessed", "does not apply"}

-----------------------------------------------------------------------------
(* What may keep a requirement away, said without the code's steps.        *)

\* Nobody says yes, and somebody whose answer settles it says no.
Denied(a, c) ==
    \/ c = Never
    \/ c \in Derived /\ a.found[c] = "no"
    \/ /\ c \notin Derived \union {Always}
       /\ a.found[c] # "yes"
       /\ \/ c \in AboutAi /\ a.stated[Ai] = "no"
          \/ c = AuthServer /\ a.stated[Oauth] = "no" /\ a.stated[c] # "yes"
          \/ a.stated[c] = "no" /\ (c \in AboutAi => a.stated[Ai] = "yes")

\* Two sets of answers of which the second only adds a yes here or there.
Adds(a, b) ==
    /\ \A c \in Condition : /\ a.stated[c] # b.stated[c] => b.stated[c] = "yes"
                            /\ a.found[c] # b.found[c] => b.found[c] = "yes"
    /\ a.data = b.data /\ a.exposed = b.exposed
=============================================================================
