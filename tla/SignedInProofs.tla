--------------------------- MODULE SignedInProofs ---------------------------
(***************************************************************************)
(* Proofs about the signed-in checks of a run, for apps with any of the    *)
(* traits, any sections stated, and any number of requests that crash,     *)
(* fall silent or stay limited.                                            *)
(***************************************************************************)
EXTENDS SignedIn, FiniteSetTheorems, TLAPS

-----------------------------------------------------------------------------
(* The order of the checks.                                                *)

(* What a step goes on to: the check after it, the settling where a sign-in *)
(* was not shown to work, and A's signing in again after a wait.           *)
LEMMA NextGoes ==
    ASSUME Next
    PROVE  \/ at' = Order(at)
           \/ at \in {"sign_in", "sign_in_again"} /\ at' = "settle"
           \/ at = "session_timeout_checks" /\ at' = "sign_in_again"
<1> USE DEF Goto
<1>1. CASE PrivateAnonymous
  BY <1>1 DEF PrivateAnonymous
<1>2. CASE SignInA
  BY <1>2 DEF SignInA
<1>3. CASE SessionTimeoutChecks
  BY <1>3 DEF SessionTimeoutChecks, Waited
<1>4. CASE SignInAgain
  BY <1>4 DEF SignInAgain
<1>5. CASE OwnedChecks
  BY <1>5 DEF OwnedChecks
<1>6. CASE AdminChecks \/ InventedSessionCheck \/ FlowChecks \/ LogoutCheck
  BY <1>6 DEF AdminChecks, InventedSessionCheck, FlowChecks, LogoutCheck
<1>7. CASE SignsInAfresh \/ SignOutOnGetCheck \/ BruteForceCheck \/ Settle
  BY <1>7 DEF SignsInAfresh, SignOutOnGetCheck, BruteForceCheck, Settle
<1>8. CASE ChangePasswordChecks
  BY <1>8 DEF ChangePasswordChecks
<1>9. CASE ResetChecks
  BY <1>9 DEF ResetChecks
<1> QED
  BY <1>1, <1>2, <1>3, <1>4, <1>5, <1>6, <1>7, <1>8, <1>9 DEF Next

(* What a step leaves alone, unless it is the one check that is for it.    *)
LEMMA NextLeaves ==
    ASSUME Next
    PROVE  /\ UNCHANGED world
           /\ at # "brute_force_check" => UNCHANGED refusing
           /\ at \notin {"change_password_checks", "reset_checks"} => UNCHANGED valid
           /\ at # "private_anonymous" => UNCHANGED judged
           /\ at # "sign_in" => UNCHANGED works
           /\ at # "sign_in_again" => UNCHANGED main
           /\ at # "owned_checks" => UNCHANGED readBack
           /\ at # "settle" => UNCHANGED doubted
           /\ at \in OwnSessions \union LastOfAll \union Suites \union {"brute_force_check"}
                => UNCHANGED <<outcome, crashed, limited>>
<1> USE DEF NotAsked, Unmoved, world, outcome, OwnSessions, LastOfAll, Suites
<1>1. CASE PrivateAnonymous
  BY <1>1 DEF PrivateAnonymous
<1>2. CASE SignInA
  BY <1>2 DEF SignInA
<1>3. CASE SessionTimeoutChecks
  BY <1>3 DEF SessionTimeoutChecks
<1>4. CASE SignInAgain
  BY <1>4 DEF SignInAgain
<1>5. CASE OwnedChecks
  BY <1>5 DEF OwnedChecks
<1>6. CASE AdminChecks \/ InventedSessionCheck \/ FlowChecks \/ LogoutCheck
  BY <1>6 DEF AdminChecks, InventedSessionCheck, FlowChecks, LogoutCheck
<1>7. CASE SignsInAfresh \/ SignOutOnGetCheck \/ BruteForceCheck \/ Settle
  BY <1>7 DEF SignsInAfresh, SignOutOnGetCheck, BruteForceCheck, Settle
<1>8. CASE ChangePasswordChecks
  <2>1. at = "change_password_checks"
    BY <1>8 DEF ChangePasswordChecks
  <2>2. UNCHANGED <<world, refusing, main, judged, works, readBack, doubted>>
    <3>1. CASE ~("change" \in plan /\ Confirm)
      BY <1>8, <3>1 DEF ChangePasswordChecks
    <3>2. CASE "change" \in plan /\ Confirm
      BY <1>8, <3>2, ZenonT(60) DEF ChangePasswordChecks
    <3> QED
      BY <3>1, <3>2
  <2> QED
    BY <2>1, <2>2
<1>9. CASE ResetChecks
  BY <1>9 DEF ResetChecks
<1> QED
  BY <1>1, <1>2, <1>3, <1>4, <1>5, <1>6, <1>7, <1>8, <1>9 DEF Next

(* The refusing begins with the guesses, and nothing goes back from there. *)
LEMMA NextGuesses == GuessesCostThemselves /\ [Next]_vars => GuessesCostThemselves'
<1> SUFFICES ASSUME GuessesCostThemselves, [Next]_vars PROVE GuessesCostThemselves'
  OBVIOUS
<1> USE DEF GuessesCostThemselves, LastOfAll, Settled, Suites
<1>1. CASE Next
  BY <1>1, NextGoes, NextLeaves DEF Order
<1>2. CASE UNCHANGED vars
  BY <1>2 DEF vars, script
<1> QED
  BY <1>1, <1>2

(* An app that refuses everybody after the guesses costs the run the       *)
(* guessing checks and the suites alone (step 11 of run_checks).           *)
THEOREM GuessesLast == Spec => []GuessesCostThemselves
<1>1. Init => GuessesCostThemselves
  BY DEF Init, GuessesCostThemselves
<1> QED
  BY <1>1, NextGuesses, PTL DEF Spec

-----------------------------------------------------------------------------
(* The passwords of the two test users.                                    *)

\* The stated passwords the app took at the start.
Made == [u \in User |-> IF NeverMade(u) \in app THEN {} ELSE {"stated"}]

\* The places where the checks that change passwords may be over.
Changing == {"reset_checks", "brute_force_check", "settle"} \union LastOfAll \union Settled

(* Until the checks that change passwords the app takes the stated ones,   *)
(* and B's until the reset.                                                *)
PasswordsInv ==
    /\ at \in Checks
    /\ valid \in [User -> SUBSET Password]
    /\ at \notin Changing => valid = Made
    /\ at = "reset_checks" => valid["B"] = Made["B"]

LEMMA NextAt == at \in Checks /\ [Next]_vars => at' \in Checks
<1> SUFFICES ASSUME at \in Checks, [Next]_vars PROVE at' \in Checks
  OBVIOUS
<1> USE DEF Checks, OwnSessions, LastOfAll, Settled, Suites
<1>1. CASE Next
  BY <1>1, NextGoes DEF Order
<1>2. CASE UNCHANGED vars
  BY <1>2 DEF vars, script
<1> QED
  BY <1>1, <1>2

(* A check that changes a password changes that of one user.               *)
LEMMA LeavesOne ==
    ASSUME NEW user \in User, NEW taken \in SUBSET Password, Leaves(user, taken),
           valid \in [User -> SUBSET Password]
    PROVE  /\ valid' \in [User -> SUBSET Password]
           /\ \A u \in User \ {user} : valid'[u] = valid[u]
BY DEF Leaves

LEMMA TakenTyped ==
    ASSUME valid \in [User -> SUBSET Password], NEW user \in User,
           NEW taken \in SUBSET Password, NEW new \in Password, NEW keeps
    PROVE  PasswordsOf(user) \in SUBSET Password /\ Set(taken, new, keeps) \in SUBSET Password
BY DEF PasswordsOf, Set, Password

LEMMA ChangeTyped ==
    ASSUME ChangePasswordChecks, valid \in [User -> SUBSET Password]
    PROVE  valid' \in [User -> SUBSET Password] /\ valid'["B"] = valid["B"]
<1>1. CASE ~("change" \in plan /\ Confirm)
  BY <1>1 DEF ChangePasswordChecks, NotAsked
<1>2. CASE "change" \in plan /\ Confirm
  <2>1. \E taken \in SUBSET Password : Leaves("A", taken)
    BY <1>2, TakenTyped DEF ChangePasswordChecks, User, Password
  <2> QED
    BY <2>1, LeavesOne DEF User
<1> QED
  BY <1>1, <1>2

LEMMA ResetTyped ==
    ASSUME ResetChecks, valid \in [User -> SUBSET Password]
    PROVE  valid' \in [User -> SUBSET Password]
<1>1. CASE ~("reset" \in plan /\ Confirm)
  BY <1>1 DEF ResetChecks, NotAsked
<1>2. CASE "reset" \in plan /\ Confirm
  <2>1. \E taken \in SUBSET Password : Leaves("B", taken)
    BY <1>2, TakenTyped DEF ResetChecks, User, Password
  <2> QED
    BY <2>1, LeavesOne DEF User
<1> QED
  BY <1>1, <1>2

LEMMA InitPasswords == Init => PasswordsInv
BY DEF Init, PasswordsInv, Made, Checks, NeverMade, User, Password, Changing, LastOfAll, Settled,
       Suites

LEMMA NextPasswords == PasswordsInv /\ [Next]_vars => PasswordsInv'
<1> SUFFICES ASSUME PasswordsInv, [Next]_vars PROVE PasswordsInv'
  OBVIOUS
<1>1. at' \in Checks
  BY NextAt DEF PasswordsInv
<1>2. CASE UNCHANGED vars
  BY <1>1, <1>2 DEF vars, script, world, PasswordsInv, Made
<1>3. CASE Next /\ at \notin {"change_password_checks", "reset_checks"}
  <2>1. UNCHANGED <<valid, app>>
    BY <1>3, NextLeaves DEF world
  <2>2. Made' = Made
    BY <2>1 DEF Made
  <2>3. at \in Changing => at' \in Changing
    BY <1>3, NextGoes DEF Changing, LastOfAll, Settled, Suites, Order
  <2>4. at' = "reset_checks" => FALSE
    BY <1>3, NextGoes DEF Order
  <2> QED
    BY <1>1, <2>1, <2>2, <2>3, <2>4 DEF PasswordsInv
<1>4. CASE Next /\ at = "change_password_checks"
  <2>1. ChangePasswordChecks
    BY <1>4 DEF Next, PrivateAnonymous, SignInA, SessionTimeoutChecks, SignInAgain, OwnedChecks,
       AdminChecks, InventedSessionCheck, FlowChecks, LogoutCheck, SignsInAfresh,
       SignOutOnGetCheck, ResetChecks, BruteForceCheck, Settle, OwnSessions, LastOfAll, Suites
  <2>2. at' = "reset_checks" /\ UNCHANGED app
    BY <1>4, NextGoes, NextLeaves DEF Order, world
  <2>3. Made' = Made
    BY <2>2 DEF Made
  <2>4. valid["B"] = Made["B"]
    BY <1>4 DEF PasswordsInv, Changing, LastOfAll, Settled, Suites
  <2> QED
    BY <1>1, <2>1, <2>2, <2>3, <2>4, ChangeTyped DEF PasswordsInv, Changing
<1>5. CASE Next /\ at = "reset_checks"
  <2>1. ResetChecks
    BY <1>5 DEF Next, PrivateAnonymous, SignInA, SessionTimeoutChecks, SignInAgain, OwnedChecks,
       AdminChecks, InventedSessionCheck, FlowChecks, LogoutCheck, SignsInAfresh,
       SignOutOnGetCheck, ChangePasswordChecks, BruteForceCheck, Settle, OwnSessions,
       LastOfAll, Suites
  <2>2. at' = "brute_force_check"
    BY <1>5, NextGoes DEF Order
  <2> QED
    BY <1>1, <2>1, <2>2, ResetTyped DEF PasswordsInv, Changing
<1> QED
  BY <1>2, <1>3, <1>4, <1>5

LEMMA PasswordsAlways == Spec => []PasswordsInv
BY InitPasswords, NextPasswords, PTL DEF Spec

(* Before the suites no check signs a test user in with a password that an *)
(* earlier check has changed (comments of step 10 of run_checks).          *)
THEOREM PasswordsLast == Spec => []SuitePasswordsHold
<1>1. PasswordsInv => SuitePasswordsHold
  BY DEF PasswordsInv, SuitePasswordsHold, PasswordsHold, NeedsPassword, Fresh, Made, NeverMade,
         User, Checks, Changing, OwnSessions, LastOfAll, Settled, Suites
<1> QED
  BY <1>1, PasswordsAlways, PTL

-----------------------------------------------------------------------------
(* What holds of the sessions, the findings and the credits.               *)

\* What excuses a finding that is not true of the app: it goes at the settling, or is doubted
\* there, or is one of the known mistakes.
Excused(f) ==
    \/ limited # {}
    \/ RaisedOnARefusal(f.rule) \intersect crashed # {}
    \/ FoundByMistake(f)

\* What takes a credit away at the settling.
Withheld(c) == limited # {} \/ RestsOnARefusal(c.rule) \intersect crashed # {}

\* The private page is private, as far as the checks can tell.
SeemsPrivate == Public => "private-anonymous" \in crashed \/ limited # {}

PrivateInv ==
    /\ PasswordsInv
    /\ at = "private_anonymous" => findings = {} /\ ~works /\ judged = ("private" \in plan)
    /\ at \in {"private_anonymous", "sign_in"} => main = <<"A", "a">>
    /\ at = "sign_in" =>
        /\ ServedAnonymously => Public
        /\ judged => ServedAnonymously \/ SeemsPrivate
        /\ "private" \in plan /\ ~Public => judged
    /\ works => SeemsPrivate
    /\ at = "sign_in_again" => works
    /\ main[1] = "A"

FindingsInv ==
    /\ \A f \in findings : Has(f.fault) \/ Excused(f)
    /\ at \in Settled =>
        /\ limited # {} => doubted = findings
        /\ \A f \in findings : RaisedOnARefusal(f.rule) \intersect crashed = {}

\* The sign-ins of the waiting end A's other session, where the app keeps one for each user.
EndedByWaiting == "single" \in app /\ "slow" \in plan

\* What is known by when A's shared session is not alive.
MainLost ==
    \/ "login-a" \in crashed \/ limited # {} \/ "noA" \in app \/ EndedByWaiting
    \/ PublicTakenForPrivate /\ "login-a-after-wait" \in crashed

BeforeFlows == {"private_anonymous", "sign_in", "session_timeout_checks", "sign_in_again",
                "owned_checks", "admin_checks", "invented_session_check", "flow_checks"}

\* A's shared session is alive where a check asks with it that credits its refusal, or it is
\* known why not.
SessionInv ==
    /\ at \in {"session_timeout_checks", "owned_checks", "admin_checks"}
        => main \in alive \/ MainLost
    /\ at \in {"session_timeout_checks", "owned_checks", "admin_checks", "invented_session_check",
               "flow_checks", "logout_check"} /\ works
        => main \in alive \/ Public \/ EndedByWaiting
    /\ at \in {"admin_checks", "invented_session_check", "flow_checks", "logout_check"} /\ readBack
        => main \in alive
    /\ at \in {"private_anonymous", "sign_in", "session_timeout_checks", "sign_in_again",
               "owned_checks"}
        => ~readBack

PassesInv ==
    /\ SessionInv
    /\ \A c \in credits : Has(c.fault) => Withheld(c) \/ PassedByMistake(c)
    /\ at \in Settled => \A c \in credits : Has(c.fault) => PassedByMistake(c)

\* The checks of the first sign-in, and those up to the logout but for the sign-in after a wait.
First == {"private_anonymous", "sign_in"}
UpTo(c) ==
    CASE c = "timeouts" -> First \union {"session_timeout_checks"}
      [] c = "owned" -> First \union {"session_timeout_checks", "sign_in_again", "owned_checks"}
      [] c = "admin" -> First \union {"session_timeout_checks", "sign_in_again", "owned_checks",
                                      "admin_checks"}
      [] c = "invented" -> BeforeFlows \ {"flow_checks"}
      [] c = "flows" -> BeforeFlows
      [] c = "logout" -> BeforeFlows \union {"logout_check"}
      [] OTHER -> BeforeFlows \union {"logout_check", "sign_out_on_get_check",
                                      "change_password_checks"} \union OwnSessions

\* The credits of a correct app by the checks that are over.
Granted ==
    When(at \notin First, Says("PRIVATE_PAGE", "open"))
    \union When("slow" \in plan /\ at \notin UpTo("timeouts"),
                Says("NO_IDLE_TIMEOUT", "keepsIdle") \union Says("NO_SESSION_LIFETIME", "keepsOld"))
    \union When("owned" \in plan /\ at \notin UpTo("owned"), Says("OTHER_USERS_DATA", "shared"))
    \union When("admin" \in plan /\ at \notin UpTo("admin"), Says("ADMIN_PAGE", "adminOpen"))
    \union When(at \notin UpTo("invented"), Says("SESSION_TOKEN_UNVERIFIED", "anySession"))
    \union When("flow" \in plan /\ at \notin UpTo("flows"), Says("STEP_SKIPPED", "skips"))
    \union When("logout" \in plan /\ at \notin UpTo("logout"), Says("LOGOUT", "keepsLogout"))
    \union When("change" \in plan /\ at \notin UpTo("change"),
                Says("CHANGE_WITHOUT_CURRENT", "noCurrent")
                \union Says("CHANGE_PASSWORD", "keepsChanged")
                \union Says("CHANGE_ENDS_SESSIONS", "keepsOthers"))

Correct == app \subseteq {"byAddress"} /\ crashed \union limited = {} /\ "private" \in plan

CorrectInv ==
    Correct =>
        /\ at \notin First => works
        /\ at \in UpTo("logout") \ (First \union {"sign_in_again"}) => main \in alive
        /\ credits = Granted

-----------------------------------------------------------------------------
(* What a request meets, and what is written down of it.                   *)

LEMMA AnswersAre ==
    ASSUME NEW requests, NEW how \in Answers(requests)
    PROVE  how \in [requests -> Kind]
<1> DEFINE left == MaxTroubled - Cardinality(crashed \union limited)
           Tried == {[T -> Kind \ {"app"}] : T \in UNION {kSubset(k, requests) : k \in 0..left}}
<1>1. PICK t \in UNION Tried : how = [q \in requests |-> IF q \in DOMAIN t THEN t[q] ELSE "app"]
  BY DEF Answers
<1>2. PICK T : t \in [T -> Kind \ {"app"}]
  BY <1>1
<1> QED
  BY <1>1, <1>2 DEF Kind

Grows == crashed \subseteq crashed' /\ limited \subseteq limited'
\* What a check writes down anew is of its own requests, none of them both crashed and limited.
Adds(requests) ==
    /\ crashed' \ crashed \subseteq requests
    /\ limited' \ limited \subseteq requests
    /\ (crashed' \ crashed) \intersect (limited' \ limited) = {}

(* A request that was sent was answered by the app, or is written down.    *)
LEMMA NoteMeets ==
    ASSUME NEW requests, NEW sent \in SUBSET requests, NEW how \in [requests -> Kind],
           Note(how, sent)
    PROVE  /\ Grows /\ Adds(requests)
           /\ \A q \in sent : how[q] = "app" \/ q \in crashed' \/ limited' # {}
BY DEF Note, Kind, Grows, Adds

-----------------------------------------------------------------------------
(* The checks, one by one: what each finds, credits and leaves alive.      *)

FoundTruly == \A f \in findings' : f \in findings \/ Has(f.fault) \/ Excused(f)'
PassedTruly ==
    \A c \in credits' :
        c \in credits \/ ~Has(c.fault) \/ Withheld(c)' \/ PassedByMistake(c)'

\* What a check adds is of its kind.
Worded(s) == s.rule \in Rule /\ s.fault \in Traits \union {"skips"}
Sound ==
    /\ alive' \subseteq alive \union Session
    /\ \A s \in credits' : s \in credits \/ Worded(s)
    /\ \A s \in findings' : s \in findings \/ Worded(s)

\* The step of a check, taken where the invariants of the sessions hold.
Step(Check) == Check /\ PrivateInv /\ UNCHANGED world

LEMMA PrivateSteps ==
    ASSUME Step(PrivateAnonymous)
    PROVE  /\ Grows /\ Adds({"front-anonymous", "private-anonymous"})
           /\ UNCHANGED <<credits, alive, works, main, readBack>>
           /\ ServedAnonymously' => Public
           /\ judged' => ServedAnonymously' \/ SeemsPrivate'
           /\ "private" \in plan /\ ~Public => judged'
           /\ FoundTruly /\ Sound
<1> USE DEF Step, world, outcome
<1> DEFINE R == {"front-anonymous", "private-anonymous"}
           asked == {"front-anonymous"} \union When("private" \in plan, {"private-anonymous"})
<1>1. PICK how \in Answers(asked) :
            LET served == "private" \in plan /\ Public /\ how["private-anonymous"] = "app"
                shell == served /\ "shell" \in app /\ how["front-anonymous"] = "app"
            IN  /\ Note(how, asked)
                /\ judged' = (judged /\ ~shell)
                /\ Finds(When(served /\ ~shell, Says("PRIVATE_PAGE", "open")))
  BY DEF PrivateAnonymous
<1> DEFINE served == "private" \in plan /\ Public /\ how["private-anonymous"] = "app"
           shell == served /\ "shell" \in app /\ how["front-anonymous"] = "app"
<1>2. at = "private_anonymous" /\ UNCHANGED <<credits, alive, works, main, readBack>>
  BY DEF PrivateAnonymous
<1>3. how \in [asked -> Kind]
  BY AnswersAre
<1>4. /\ Grows /\ Adds(asked)
      /\ \A q \in asked : how[q] = "app" \/ q \in crashed' \/ limited' # {}
  <2>1. Note(how, asked)
    BY <1>1
  <2> HIDE DEF asked
  <2> QED
    BY <1>3, <2>1, NoteMeets
<1>5. Adds(R)
  BY <1>4 DEF Adds, When
<1>6. findings = {} /\ judged = ("private" \in plan)
  BY <1>2 DEF PrivateInv
<1>7. findings' = When(served /\ ~shell, Says("PRIVATE_PAGE", "open"))
      /\ judged' = ("private" \in plan /\ ~shell)
  BY <1>1, <1>6 DEF Finds
<1>8. \A f \in findings' : served /\ ~shell /\ f = [rule |-> "PRIVATE_PAGE", fault |-> "open"]
  BY <1>7 DEF When, Says
<1>9. served /\ ~shell => ServedAnonymously'
  BY <1>7 DEF When, Says, ServedAnonymously
<1>10. "private" \in plan => how["private-anonymous"] = "app"
                             \/ "private-anonymous" \in crashed' \/ limited' # {}
  BY <1>4 DEF When
<1>11. judged' => ServedAnonymously' \/ SeemsPrivate'
  BY <1>7, <1>9, <1>10 DEF SeemsPrivate, Public
<1>12. FoundTruly
  <2>1. how["front-anonymous"] = "app" \/ "front-anonymous" \in crashed' \/ limited' # {}
    BY <1>4
  <2>2. served /\ ~shell => \/ "open" \in app \/ limited' # {}
                            \/ "shell" \in app /\ "front-anonymous" \in crashed'
    BY <2>1 DEF Public
  <2> HIDE DEF served, shell
  <2> QED
    BY <1>8, <2>2 DEF FoundTruly, Has, Excused, FoundByMistake, ShellTakenForPage
<1>13. Sound
  BY <1>2, <1>8 DEF Sound, Worded, Rule, Traits
<1> QED
  BY <1>2, <1>4, <1>5, <1>7, <1>8, <1>11, <1>12, <1>13 DEF ServedAnonymously

(* One sign-in: the session is known where the app acted on it and takes   *)
(* the stated password, and with one session per user it ends the others.  *)
LEMMA SignInKnows ==
    ASSUME NEW known, NEW session, NEW kind
    PROVE  LET new == SignIn(known, session, kind)
           IN  /\ new \subseteq known \union {session}
               /\ Done(kind) /\ "stated" \in valid[session[1]] => session \in new
               /\ session \in new /\ session \notin known
                    => Done(kind) /\ "stated" \in valid[session[1]]
               /\ "single" \notin app => known \subseteq new
               /\ \A s \in known : s[1] # session[1] => s \in new
BY DEF SignIn

LEMMA FirstSteps ==
    ASSUME Step(SignInA)
    PROVE  /\ Grows /\ Adds({"login-a", "private-a"})
           /\ UNCHANGED <<findings, main, readBack>>
           /\ works' => SeemsPrivate'
           /\ PassedTruly /\ Sound
           /\ works' => main \in alive' \/ Public
           /\ at' # "settle"
                => main \in alive' \/ "login-a" \in crashed' \/ limited' # {} \/ "noA" \in app
           /\ Correct' => /\ works' /\ at' = "session_timeout_checks" /\ main \in alive'
                          /\ credits' = credits \union Says("PRIVATE_PAGE", "open")
<1> USE DEF Step, world
<1>1. PICK how \in Answers({"login-a", "private-a"}) :
        LET known == SignIn(alive, main, how["login-a"])
        IN  /\ alive' = known
            /\ works' = (/\ how["login-a"] # "silent"
                         /\ judged
                         /\ Opens(known, main, how["private-a"])
                         /\ ~ServedAnonymously)
            /\ Note(how, IF how["login-a"] # "silent" /\ judged THEN {"login-a", "private-a"}
                         ELSE {"login-a"})
            /\ IF how["login-a"] # "silent" /\ MayGoOn THEN Goto(at) ELSE at' = "settle"
            /\ Credits(When(works', Says("PRIVATE_PAGE", "open")))
  BY DEF SignInA
<1>2. at = "sign_in" /\ UNCHANGED <<valid, main, readBack, findings, doubted, refusing>>
  BY DEF SignInA
<1>3. how \in [{"login-a", "private-a"} -> Kind]
  BY AnswersAre
<1> DEFINE sent == IF how["login-a"] # "silent" /\ judged THEN {"login-a", "private-a"}
                   ELSE {"login-a"}
<1>4. /\ Grows /\ Adds({"login-a", "private-a"})
      /\ \A q \in sent : how[q] = "app" \/ q \in crashed' \/ limited' # {}
  <2>1. sent \in SUBSET {"login-a", "private-a"} /\ Note(how, sent)
    BY <1>1
  <2> HIDE DEF sent
  <2> QED
    BY <1>3, <2>1, NoteMeets
<1>5. main = <<"A", "a">> /\ ("noA" \notin app => "stated" \in valid[main[1]])
  BY <1>2 DEF PrivateInv, PasswordsInv, Made, NeverMade, User, Changing, LastOfAll, Settled, Suites
<1>6. works' => SeemsPrivate
  BY <1>1, <1>2 DEF PrivateInv
<1>7. works' => SeemsPrivate'
  BY <1>4, <1>6 DEF SeemsPrivate, Grows, Public
<1>8. PassedTruly
  BY <1>1, <1>7
     DEF PassedTruly, Credits, When, Says, SeemsPrivate, Withheld, RestsOnARefusal, Has, Public
<1>9. how["login-a"] \in {"app", "silent"} /\ "noA" \notin app => main \in alive'
  BY <1>1, <1>5, SignInKnows DEF Done
<1>10. works' => main \in alive' \/ Public
  BY <1>1 DEF Opens
<1>11. at' # "settle"
        => main \in alive' \/ "login-a" \in crashed' \/ limited' # {} \/ "noA" \in app
  BY <1>1, <1>4, <1>9
<1>12. ASSUME Correct'
       PROVE  /\ works' /\ at' = "session_timeout_checks" /\ main \in alive'
              /\ credits' = credits \union Says("PRIVATE_PAGE", "open")
  <2>1. ~Public /\ "noA" \notin app /\ judged /\ crashed' = {} /\ limited' = {}
    BY <1>2, <1>12 DEF Correct, Public, PrivateInv
  <2>2. how["login-a"] = "app" /\ how["private-a"] = "app"
    BY <1>4, <2>1
  <2>3. main \in alive' /\ ~ServedAnonymously
    BY <1>2, <1>9, <2>1, <2>2 DEF PrivateInv
  <2>4. works'
    BY <1>1, <2>1, <2>2, <2>3 DEF Opens
  <2> QED
    BY <1>1, <1>2, <2>2, <2>3, <2>4 DEF MayGoOn, Goto, Order, Credits, When
<1>13. Sound
  <2>1. main \in Session
    BY <1>5 DEF Session, User
  <2>2. alive' \subseteq alive \union Session
    BY <1>1, <2>1, SignInKnows
  <2>3. \A s \in credits' : s \in credits \/ Worded(s)
    BY <1>1 DEF Credits, When, Says, Worded, Rule, Traits
  <2> QED
    BY <1>2, <2>2, <2>3 DEF Sound
<1> QED
  BY <1>2, <1>4, <1>7, <1>8, <1>10, <1>11, <1>12, <1>13

LEMMA TimeoutSteps ==
    ASSUME Step(SessionTimeoutChecks)
    PROVE  /\ Grows /\ Adds(TimeoutStart \union TimeoutWaits)
           /\ UNCHANGED <<works, main, readBack>>
           /\ FoundTruly /\ PassedTruly /\ Sound
           /\ at' = "sign_in_again" => works
           /\ at' # "sign_in_again" /\ ("single" \notin app \/ "slow" \notin plan)
                => alive \subseteq alive'
           /\ Correct' /\ works =>
                /\ "slow" \notin plan => at' = "owned_checks" /\ UNCHANGED <<alive, credits>>
                /\ "slow" \in plan =>
                    /\ at' = "sign_in_again"
                    /\ credits' = credits \union Says("NO_IDLE_TIMEOUT", "keepsIdle")
                                          \union Says("NO_SESSION_LIFETIME", "keepsOld")
<1> USE DEF Step, world
<1>1. CASE ~("slow" \in plan /\ Confirm)
  BY <1>1 DEF SessionTimeoutChecks, NotAsked, outcome, Goto, Order, Grows, Adds, FoundTruly,
     PassedTruly, Confirm, Sound
<1>2. CASE "slow" \in plan /\ Confirm
  <2>1. PICK how \in Answers(TimeoutStart \union TimeoutWaits) :
        LET first == SignIn(alive, Left, how["login-idle"])
            both  == SignIn(first, Busy, how["login-busy"])
            begun == /\ how["login-idle"] # "silent" /\ how["login-busy"] # "silent"
                     /\ Opens(both, Left, how["timeout-idle-start"])
                     /\ Opens(both, Busy, how["timeout-busy-start"])
            idled == IF "keepsIdle" \in app THEN both ELSE both \intersect {Busy}
            leftOpen == Opens(idled, Left, how["timeout-idle-after"])
            busyOpen == Opens(idled, Busy, how["timeout-busy-after-idle"])
            aged  == IF "keepsOld" \in app THEN idled ELSE {}
            oldOpen == Opens(aged, Busy, how["timeout-busy-after-lifetime"])
            again == SignIn(aged, <<"A", "after-lifetime">>, how["login-after-lifetime"])
            fresh == /\ how["login-after-lifetime"] # "silent"
                     /\ Opens(again, <<"A", "after-lifetime">>,
                              how["timeout-fresh-after-lifetime"])
        IN  IF ~begun
            THEN /\ Goto(at)
                 /\ alive' = both
                 /\ Note(how, TimeoutStart)
                 /\ UNCHANGED outcome
            ELSE /\ at' = Waited
                 /\ alive' = again
                 /\ Note(how, TimeoutStart \union TimeoutWaits)
                 /\ Finds(When(leftOpen, Says("NO_IDLE_TIMEOUT", "keepsIdle"))
                          \union When(oldOpen, Says("NO_SESSION_LIFETIME", "keepsOld")))
                 /\ Credits(When(~leftOpen /\ busyOpen, Says("NO_IDLE_TIMEOUT", "keepsIdle"))
                            \union When(~oldOpen /\ fresh,
                                        Says("NO_SESSION_LIFETIME", "keepsOld")))
    BY <1>2 DEF SessionTimeoutChecks
  <2> DEFINE first == SignIn(alive, Left, how["login-idle"])
             both  == SignIn(first, Busy, how["login-busy"])
             begun == /\ how["login-idle"] # "silent" /\ how["login-busy"] # "silent"
                      /\ Opens(both, Left, how["timeout-idle-start"])
                      /\ Opens(both, Busy, how["timeout-busy-start"])
             idled == IF "keepsIdle" \in app THEN both ELSE both \intersect {Busy}
             leftOpen == Opens(idled, Left, how["timeout-idle-after"])
             busyOpen == Opens(idled, Busy, how["timeout-busy-after-idle"])
             aged  == IF "keepsOld" \in app THEN idled ELSE {}
             oldOpen == Opens(aged, Busy, how["timeout-busy-after-lifetime"])
             again == SignIn(aged, <<"A", "after-lifetime">>, how["login-after-lifetime"])
             fresh == /\ how["login-after-lifetime"] # "silent"
                      /\ Opens(again, <<"A", "after-lifetime">>,
                               how["timeout-fresh-after-lifetime"])
             sent == IF begun THEN TimeoutStart \union TimeoutWaits ELSE TimeoutStart
  <2>2. how \in [TimeoutStart \union TimeoutWaits -> Kind]
    BY AnswersAre
  <2>3. UNCHANGED <<works, main, readBack, valid>> /\ at = "session_timeout_checks"
    BY <1>2 DEF SessionTimeoutChecks
  <2>4. /\ Grows /\ Adds(TimeoutStart \union TimeoutWaits)
        /\ \A q \in sent : how[q] = "app" \/ q \in crashed' \/ limited' # {}
    <3>1. sent \in SUBSET (TimeoutStart \union TimeoutWaits) /\ Note(how, sent)
      BY <2>1
    <3> HIDE DEF sent
    <3> QED
      BY <2>2, <3>1, NoteMeets
  <2>5. /\ ~begun => at' = "owned_checks" /\ alive' = both /\ UNCHANGED outcome
        /\ begun => /\ at' = "sign_in_again" /\ alive' = again
                    /\ findings' = findings
                          \union When(leftOpen, Says("NO_IDLE_TIMEOUT", "keepsIdle"))
                          \union When(oldOpen, Says("NO_SESSION_LIFETIME", "keepsOld"))
                    /\ credits' = credits \union
                            When(~leftOpen /\ busyOpen, Says("NO_IDLE_TIMEOUT", "keepsIdle"))
                            \union When(~oldOpen /\ fresh,
                                        Says("NO_SESSION_LIFETIME", "keepsOld"))
    BY <2>1, <2>3 DEF Goto, Order, Waited, Finds, Credits
  <2>6. Public => limited' # {} \/ PublicTakenForPrivate'
    BY <1>2, <2>4 DEF PrivateInv, Confirm, SeemsPrivate, PublicTakenForPrivate, Grows, Public
  <2>7. Left # Busy
    BY DEF Left, Busy
  <2>8. (leftOpen => "keepsIdle" \in app \/ Public)
        /\ (oldOpen => "keepsOld" \in app \/ Public)
    BY <2>7 DEF Opens
  <2>9. begun /\ ~leftOpen /\ "keepsIdle" \in app => how["timeout-idle-after"] # "app"
    BY DEF Opens
  <2>10. begun /\ ~oldOpen /\ "keepsOld" \in app => how["timeout-busy-after-lifetime"] # "app"
    BY DEF Opens
  <2>11. FoundTruly
    <3>1. CASE ~begun
      BY <2>5, <3>1 DEF FoundTruly, outcome
    <3>2. CASE begun
      <4> HIDE DEF leftOpen, oldOpen, begun
      <4> QED
        BY <2>5, <2>6, <2>8, <3>2 DEF FoundTruly, When, Says, Has, Excused, FoundByMistake
    <3> QED
      BY <3>1, <3>2
  <2>12. PassedTruly
    <3>1. CASE ~begun
      BY <2>5, <3>1 DEF PassedTruly, outcome
    <3>2. CASE begun
      <4>1. /\ ~leftOpen /\ "keepsIdle" \in app
                => "timeout-idle-after" \in crashed' \/ limited' # {}
            /\ ~oldOpen /\ "keepsOld" \in app
                => "timeout-busy-after-lifetime" \in crashed' \/ limited' # {}
        BY <2>4, <2>9, <2>10, <3>2 DEF TimeoutWaits
      <4> HIDE DEF leftOpen, oldOpen, begun, busyOpen, fresh
      <4> QED
        BY <2>5, <3>2, <4>1 DEF PassedTruly, When, Says, Has, Withheld, RestsOnARefusal
    <3> QED
      BY <3>1, <3>2
  <2>13. at' # "sign_in_again" /\ "single" \notin app => alive \subseteq alive'
    BY <2>5, SignInKnows
  <2>14. ASSUME Correct'
         PROVE  /\ at' = "sign_in_again"
                /\ credits' = credits \union Says("NO_IDLE_TIMEOUT", "keepsIdle")
                                      \union Says("NO_SESSION_LIFETIME", "keepsOld")
    <3>1. /\ app \intersect {"single", "keepsIdle", "keepsOld", "noA"} = {} /\ ~Public
          /\ crashed' = {} /\ limited' = {}
      BY <2>14 DEF Correct, Public
    <3>2. \A q \in sent : how[q] = "app"
      BY <2>4, <3>1
    <3>3. "stated" \in valid["A"]
      BY <2>3, <3>1 DEF PrivateInv, PasswordsInv, Made, NeverMade, User, Changing, LastOfAll,
         Settled, Suites
    <3>4. Left[1] = "A" /\ Busy[1] = "A" /\ <<"A", "after-lifetime">>[1] = "A"
      BY DEF Left, Busy
    <3>5. how["login-idle"] = "app" /\ how["login-busy"] = "app"
          /\ how["timeout-idle-start"] = "app" /\ how["timeout-busy-start"] = "app"
      BY <3>2 DEF TimeoutStart
    <3>6. Left \in both /\ Busy \in both
      <4>1. Left \in first
        BY <3>3, <3>4, <3>5, SignInKnows DEF Done
      <4> HIDE DEF first
      <4> QED
        BY <3>1, <3>3, <3>4, <3>5, <4>1, SignInKnows DEF Done
    <3>7. begun
      BY <3>5, <3>6 DEF Opens
    <3>8. /\ how["timeout-busy-after-idle"] = "app" /\ how["login-after-lifetime"] = "app"
          /\ how["timeout-fresh-after-lifetime"] = "app"
      BY <3>2, <3>7 DEF TimeoutWaits
    <3>9. ~leftOpen /\ busyOpen /\ ~oldOpen
      BY <2>8, <3>1, <3>6, <3>8 DEF Opens
    <3>10. fresh
      BY <3>3, <3>4, <3>8, SignInKnows DEF Opens, Done
    <3> HIDE DEF leftOpen, oldOpen, begun, busyOpen, fresh
    <3> QED
      BY <2>5, <3>7, <3>9, <3>10 DEF When
  <2>15. Sound
    <3>1. {Left, Busy, <<"A", "after-lifetime">>} \subseteq Session
      BY DEF Left, Busy, Session, User
    <3>2. both \subseteq alive \union Session
      <4>1. first \subseteq alive \union Session
        BY <3>1, SignInKnows
      <4> HIDE DEF first
      <4> QED
        BY <3>1, <4>1, SignInKnows
    <3>3. again \subseteq alive \union Session
      <4>1. aged \subseteq alive \union Session
        BY <3>2
      <4> HIDE DEF aged
      <4> QED
        BY <3>1, <4>1, SignInKnows
    <3> HIDE DEF begun, both, again, leftOpen, busyOpen, oldOpen, fresh
    <3> QED
      BY <2>5, <3>2, <3>3 DEF Sound, When, Says, Worded, Rule, Traits, outcome
  <2> QED
    BY <1>2, <2>3, <2>4, <2>11, <2>12, <2>13, <2>14, <2>15 DEF Confirm
<1> QED
  BY <1>1, <1>2

LEMMA AgainSteps ==
    ASSUME Step(SignInAgain)
    PROVE  /\ Grows /\ Adds({"login-a-after-wait", "private-a-after-wait"})
           /\ UNCHANGED <<findings, credits, works, readBack>>
           /\ main' = <<"A", "a-after-wait">> /\ Sound
           /\ at' = "owned_checks" =>
                /\ main' \in alive' \/ Public
                /\ \/ main' \in alive' \/ "noA" \in app \/ limited' # {}
                   \/ PublicTakenForPrivate' /\ "login-a-after-wait" \in crashed'
           /\ Correct' => at' = "owned_checks" /\ main' \in alive'
<1> USE DEF Step, world, outcome
<1>1. PICK how \in Answers({"login-a-after-wait", "private-a-after-wait"}) :
        LET session == <<"A", "a-after-wait">>
            known == SignIn(alive, session, how["login-a-after-wait"])
            shown == /\ how["login-a-after-wait"] # "silent"
                     /\ Opens(known, session, how["private-a-after-wait"])
        IN  /\ alive' = known
            /\ main' = session
            /\ IF shown THEN Goto(at) ELSE at' = "settle"
            /\ Note(how, {"login-a-after-wait", "private-a-after-wait"})
  BY DEF SignInAgain
<1>2. at = "sign_in_again" /\ UNCHANGED <<valid, works, readBack, findings, credits>>
  BY DEF SignInAgain
<1>3. how \in [{"login-a-after-wait", "private-a-after-wait"} -> Kind]
  BY AnswersAre
<1>4. /\ Grows /\ Adds({"login-a-after-wait", "private-a-after-wait"})
      /\ \A q \in {"login-a-after-wait", "private-a-after-wait"} :
            how[q] = "app" \/ q \in crashed' \/ limited' # {}
  BY <1>1, <1>3, NoteMeets
<1>5. "noA" \notin app => "stated" \in valid["A"]
  BY <1>2 DEF PrivateInv, PasswordsInv, Made, NeverMade, User, Changing, LastOfAll, Settled, Suites
<1>6. main' = <<"A", "a-after-wait">> /\ main'[1] = "A"
  BY <1>1
<1>7. how["login-a-after-wait"] = "app" /\ "noA" \notin app => main' \in alive'
  BY <1>1, <1>5, <1>6, SignInKnows DEF Done
<1>8. at' = "owned_checks" => main' \in alive' \/ Public
  BY <1>1 DEF Opens
<1>9. at' = "owned_checks" =>
        \/ main' \in alive' \/ "noA" \in app \/ limited' # {}
        \/ PublicTakenForPrivate' /\ "login-a-after-wait" \in crashed'
  <2>1. Public => limited' # {} \/ PublicTakenForPrivate'
    BY <1>2, <1>4 DEF PrivateInv, SeemsPrivate, PublicTakenForPrivate, Grows, Public
  <2> QED
    BY <1>4, <1>7, <1>8, <2>1
<1>10. ASSUME Correct' PROVE at' = "owned_checks" /\ main' \in alive'
  <2>1. "noA" \notin app /\ crashed' = {} /\ limited' = {}
    BY <1>10 DEF Correct
  <2>2. how["login-a-after-wait"] = "app" /\ how["private-a-after-wait"] = "app"
    BY <1>4, <2>1
  <2>3. main' \in alive'
    BY <1>7, <2>1, <2>2
  <2> QED
    BY <1>1, <1>2, <2>2, <2>3 DEF Opens, Goto, Order
<1>11. Sound
  <2>1. <<"A", "a-after-wait">> \in Session
    BY DEF Session, User
  <2> QED
    BY <1>1, <1>2, <2>1, SignInKnows DEF Sound
<1> QED
  BY <1>2, <1>4, <1>6, <1>8, <1>9, <1>10, <1>11

LEMMA OwnedSteps ==
    ASSUME Step(OwnedChecks)
    PROVE  /\ Grows /\ Adds({"owned-create", "owned-a", "login-b", "owned-b"})
           /\ UNCHANGED <<works, main>>
           /\ FoundTruly /\ Sound
           /\ PassedTruly
           /\ main \in alive => main \in alive'
           /\ readBack' => readBack \/ main \in alive
           /\ Correct' /\ main \in alive =>
                credits' = credits \union When("owned" \in plan, Says("OTHER_USERS_DATA", "shared"))
<1> USE DEF Step, world, outcome
<1>1. CASE "owned" \notin plan
  BY <1>1 DEF OwnedChecks, NotAsked, Grows, Adds, FoundTruly, PassedTruly, When, Sound
<1>2. CASE "owned" \in plan
  <2> DEFINE R == {"owned-create", "owned-a", "login-b", "owned-b"}
             session == <<"B", "b">>
  <2>1. PICK how \in Answers(R) :
        LET read == main \in alive /\ how["owned-create"] = "app" /\ how["owned-a"] = "app"
            known == IF read THEN SignIn(alive, session, how["login-b"]) ELSE alive
            leaked == /\ how["login-b"] # "silent"
                      /\ session \in known /\ "shared" \in app /\ how["owned-b"] = "app"
        IN  /\ alive' = known
            /\ readBack' = read
            /\ Note(how, {"owned-create", "owned-a"}
                         \union When(read, {"login-b"})
                         \union When(read /\ how["login-b"] # "silent", {"owned-b"}))
            /\ Finds(When(read /\ leaked, Says("OTHER_USERS_DATA", "shared")))
            /\ Credits(When(read /\ ~leaked /\ how["login-b"] # "silent",
                            Says("OTHER_USERS_DATA", "shared")))
    BY <1>2 DEF OwnedChecks
  <2>2. at = "owned_checks" /\ UNCHANGED <<works, main, valid>>
    BY <1>2 DEF OwnedChecks
  <2> DEFINE read == main \in alive /\ how["owned-create"] = "app" /\ how["owned-a"] = "app"
             known == IF read THEN SignIn(alive, session, how["login-b"]) ELSE alive
             leaked == /\ how["login-b"] # "silent"
                       /\ session \in known /\ "shared" \in app /\ how["owned-b"] = "app"
             sent == {"owned-create", "owned-a"}
                         \union When(read, {"login-b"})
                         \union When(read /\ how["login-b"] # "silent", {"owned-b"})
  <2>3. how \in [R -> Kind]
    BY AnswersAre
  <2>4. /\ Grows /\ Adds(R)
        /\ \A q \in sent : how[q] = "app" \/ q \in crashed' \/ limited' # {}
    <3>1. sent \in SUBSET R /\ Note(how, sent)
      BY <2>1 DEF When
    <3> HIDE DEF sent
    <3> QED
      BY <2>3, <3>1, NoteMeets
  <2>5. "noB" \notin app => "stated" \in valid["B"]
    BY <2>2
       DEF PrivateInv, PasswordsInv, Made, NeverMade, User, Changing, LastOfAll, Settled, Suites
  <2>6. main[1] # session[1]
    BY DEF PrivateInv
  <2>7. main \in alive => main \in alive'
    BY <2>1, <2>6, SignInKnows
  <2>8. FoundTruly
    BY <2>1 DEF FoundTruly, Finds, When, Says, Has
  <2>9. \A c \in credits' : c \in credits \/ (c = [rule |-> "OTHER_USERS_DATA", fault |-> "shared"]
                            /\ read /\ ~leaked /\ how["login-b"] # "silent")
    BY <2>1 DEF Credits, When, Says
  <2>10. ASSUME read, ~leaked, how["login-b"] # "silent", "noB" \notin app, "shared" \in app
         PROVE  crashed' \intersect {"login-b", "owned-b"} # {} \/ limited' # {}
    <3>1. {"login-b", "owned-b"} \subseteq sent
      BY <2>10 DEF When
    <3>2. how["login-b"] # "app" \/ how["owned-b"] # "app"
      BY <2>5, <2>10, SignInKnows DEF Done
    <3> QED
      BY <2>4, <3>1, <3>2
  <2>11. PassedTruly
    <3> HIDE DEF read, leaked
    <3> QED
      BY <2>9, <2>10 DEF PassedTruly, Has, Withheld, RestsOnARefusal, PassedByMistake
  <2>12. ASSUME Correct', main \in alive
         PROVE  credits' = credits \union Says("OTHER_USERS_DATA", "shared")
    <3>1. "shared" \notin app /\ crashed' = {} /\ limited' = {}
      BY <2>12 DEF Correct
    <3>2. how["owned-create"] = "app" /\ how["owned-a"] = "app"
      BY <2>4, <3>1
    <3>3. read
      BY <2>12, <3>2
    <3>4. "login-b" \in sent
      BY <3>3 DEF When
    <3>5. how["login-b"] # "silent"
      BY <2>4, <3>1, <3>4
    <3> HIDE DEF read, sent
    <3> QED
      BY <2>1, <3>1, <3>3, <3>5 DEF Credits, When, read
  <2>13. Sound
    <3>1. known \subseteq alive \union Session
      BY SignInKnows DEF Session, User
    <3> HIDE DEF known
    <3> QED
      BY <2>1, <3>1 DEF Sound, Finds, Credits, When, Says, Worded, Rule, Traits, known
  <2> QED
    BY <1>2, <2>1, <2>2, <2>4, <2>7, <2>8, <2>11, <2>12, <2>13 DEF When
<1> QED
  BY <1>1, <1>2

LEMMA AdminSteps ==
    ASSUME Step(AdminChecks)
    PROVE  /\ Grows /\ Adds({"login-admin", "admin-a", "admin-admin"})
           /\ UNCHANGED <<works, main, alive, readBack>>
           /\ FoundTruly /\ Sound
           /\ main \in alive \/ MainLost => PassedTruly
           /\ Correct' =>
                credits' = credits \union When("admin" \in plan, Says("ADMIN_PAGE", "adminOpen"))
<1> USE DEF Step, world, outcome
<1>1. CASE "admin" \notin plan
  BY <1>1 DEF AdminChecks, NotAsked, Grows, Adds, FoundTruly, PassedTruly, When, Sound
<1>2. CASE "admin" \in plan
  <2> DEFINE R == {"login-admin", "admin-a", "admin-admin"}
  <2>1. PICK how \in Answers(R) :
        LET ordinary == main \in alive /\ "adminOpen" \in app /\ how["admin-a"] = "app"
            admin == how["login-admin"] = "app" /\ how["admin-admin"] = "app"
        IN  /\ Note(how, {"login-admin", "admin-a"}
                         \union When(how["login-admin"] # "silent", {"admin-admin"}))
            /\ Finds(When(ordinary, Says("ADMIN_PAGE", "adminOpen")))
            /\ Credits(When(~ordinary /\ admin, Says("ADMIN_PAGE", "adminOpen")))
            /\ Unmoved
    BY <1>2 DEF AdminChecks
  <2> DEFINE sent == {"login-admin", "admin-a"}
                         \union When(how["login-admin"] # "silent", {"admin-admin"})
  <2>2. how \in [R -> Kind]
    BY AnswersAre
  <2>3. /\ Grows /\ Adds(R)
        /\ \A q \in sent : how[q] = "app" \/ q \in crashed' \/ limited' # {}
    <3>1. sent \in SUBSET R /\ Note(how, sent)
      BY <2>1 DEF When
    <3> HIDE DEF sent
    <3> QED
      BY <2>2, <3>1, NoteMeets
  <2>4. how["admin-a"] = "app" \/ "admin-a" \in crashed' \/ limited' # {}
    BY <2>3
  <2>5. FoundTruly
    BY <2>1 DEF FoundTruly, Finds, When, Says, Has
  <2>6. ASSUME main \in alive \/ MainLost
        PROVE  PassedTruly
    <3>1. \A c \in credits' :
            \/ c \in credits
            \/ /\ c = [rule |-> "ADMIN_PAGE", fault |-> "adminOpen"]
               /\ "adminOpen" \notin app \/ main \notin alive \/ how["admin-a"] # "app"
      BY <2>1 DEF Credits, When, Says
    <3>2. MainLost' \/ main \in alive
      BY <2>3, <2>6 DEF MainLost, Grows, EndedByWaiting, PublicTakenForPrivate, Public
    <3>3. \A c \in credits' :
            \/ c \in credits
            \/ /\ c = [rule |-> "ADMIN_PAGE", fault |-> "adminOpen"]
               /\ \/ "adminOpen" \notin app
                  \/ MainLost' \/ "admin-a" \in crashed' \/ limited' # {}
      BY <2>4, <3>1, <3>2
    <3>4. ASSUME NEW c, c = [rule |-> "ADMIN_PAGE", fault |-> "adminOpen"],
                 MainLost' \/ "admin-a" \in crashed' \/ limited' # {}
          PROVE  Withheld(c)' \/ PassedByMistake(c)'
      BY <3>4 DEF MainLost, EndedByWaiting, Withheld, RestsOnARefusal, PassedByMistake
    <3> QED
      BY <3>3, <3>4 DEF PassedTruly, Has
  <2>7. ASSUME Correct' PROVE credits' = credits \union Says("ADMIN_PAGE", "adminOpen")
    <3>1. "adminOpen" \notin app /\ crashed' = {} /\ limited' = {}
      BY <2>7 DEF Correct
    <3>2. how["login-admin"] = "app"
      BY <2>3, <3>1
    <3>3. how["admin-admin"] = "app"
      BY <2>3, <3>1, <3>2 DEF When
    <3> QED
      BY <2>1, <3>1, <3>2, <3>3 DEF Credits, When
  <2>8. Sound
    BY <2>1 DEF Sound, Unmoved, Finds, Credits, When, Says, Worded, Rule, Traits
  <2> QED
    BY <1>2, <2>1, <2>3, <2>5, <2>6, <2>7, <2>8 DEF When, Unmoved
<1> QED
  BY <1>1, <1>2

LEMMA InventedSteps ==
    ASSUME Step(InventedSessionCheck)
    PROVE  /\ Grows /\ Adds({"session-without-sign-in-cookies", "invented-session-control",
                              "invented-session"})
           /\ UNCHANGED <<works, main, alive, readBack>>
           /\ FoundTruly /\ PassedTruly /\ Sound
           /\ Correct' /\ works /\ main \in alive =>
                credits' = credits \union Says("SESSION_TOKEN_UNVERIFIED", "anySession")
<1> USE DEF Step, world, outcome
<1>1. CASE ~Confirm
  BY <1>1 DEF InventedSessionCheck, NotAsked, Grows, Adds, FoundTruly, PassedTruly, Confirm,
     Sound
<1>2. CASE Confirm
  <2> DEFINE R == {"session-without-sign-in-cookies", "invented-session-control",
                   "invented-session"}
  <2>1. PICK how \in Answers(R) :
        LET carried == how["session-without-sign-in-cookies"] = "app" /\ ~Public
            control == Opens(alive, main, how["invented-session-control"])
            opened == /\ how["invented-session"] = "app"
                      /\ Public \/ "anySession" \in app
        IN  /\ Note(how, {"session-without-sign-in-cookies", "invented-session-control"}
                         \union When(control, {"invented-session"}))
            /\ Finds(When(control /\ opened /\ carried,
                          Says("SESSION_TOKEN_UNVERIFIED", "anySession")))
            /\ Credits(When(control /\ ~opened, Says("SESSION_TOKEN_UNVERIFIED", "anySession")))
            /\ Unmoved
    BY <1>2 DEF InventedSessionCheck
  <2> DEFINE control == Opens(alive, main, how["invented-session-control"])
             sent == {"session-without-sign-in-cookies", "invented-session-control"}
                        \union When(control, {"invented-session"})
  <2>2. how \in [R -> Kind]
    BY AnswersAre
  <2>3. /\ Grows /\ Adds(R)
        /\ \A q \in sent : how[q] = "app" \/ q \in crashed' \/ limited' # {}
    <3>1. sent \in SUBSET R /\ Note(how, sent)
      BY <2>1 DEF When
    <3> HIDE DEF sent
    <3> QED
      BY <2>2, <3>1, NoteMeets
  <2>4. control => how["invented-session"] = "app" \/ "invented-session" \in crashed'
                    \/ limited' # {}
    BY <2>3 DEF When
  <2>5. FoundTruly
    BY <2>1 DEF FoundTruly, Finds, When, Says, Has
  <2>6. PassedTruly
    BY <2>1, <2>4 DEF PassedTruly, Credits, When, Says, Has, Withheld, RestsOnARefusal
  <2>7. ASSUME Correct', main \in alive
        PROVE  credits' = credits \union Says("SESSION_TOKEN_UNVERIFIED", "anySession")
    <3>1. "anySession" \notin app /\ ~Public /\ crashed' = {} /\ limited' = {}
      BY <2>7 DEF Correct, Public
    <3>2. control
      BY <2>3, <2>7, <3>1 DEF Opens
    <3> QED
      BY <2>1, <3>1, <3>2 DEF Credits, When
  <2>8. Sound
    BY <2>1 DEF Sound, Unmoved, Finds, Credits, When, Says, Worded, Rule, Traits
  <2> QED
    BY <2>1, <2>3, <2>5, <2>6, <2>7, <2>8 DEF Unmoved
<1> QED
  BY <1>1, <1>2

\* Every request that a flow may be tried by.
AllTries == {"login-flow-b0", "login-flow-b1", "login-flow-b2", "login-flow-b3",
             "flow-flow-b0", "flow-flow-b1", "flow-flow-b2", "flow-flow-b3"}

LEMMA TriesAre ==
    /\ \A i \in Tries : /\ i \in 1..4
                        /\ TryLogin[i] \in FlowTries /\ TryFlow[i] \in FlowTries
                        /\ <<"B", TryLogin[i]>> \in Session
    /\ 1 \in Tries /\ ("middle" \in plan => 4 \in Tries)
    /\ FlowTries \subseteq AllTries
<1>1. Tries \subseteq 1..4 /\ 1 \in Tries /\ ("middle" \in plan => 4 \in Tries)
  BY DEF Tries
<1>2. \A i \in 1..4 : i = 1 \/ i = 2 \/ i = 3 \/ i = 4
  OBVIOUS
<1>3. /\ TryLogin[1] = "login-flow-b0" /\ TryLogin[2] = "login-flow-b1"
      /\ TryLogin[3] = "login-flow-b2" /\ TryLogin[4] = "login-flow-b3"
      /\ TryFlow[1] = "flow-flow-b0" /\ TryFlow[2] = "flow-flow-b1"
      /\ TryFlow[3] = "flow-flow-b2" /\ TryFlow[4] = "flow-flow-b3"
  BY DEF TryLogin, TryFlow
<1>4. \A i \in Tries : /\ TryLogin[i] \in AllTries /\ TryFlow[i] \in AllTries
                       /\ <<"B", TryLogin[i]>> \in Session
  BY <1>1, <1>2, <1>3 DEF AllTries, Session, User
<1>5. \A i \in Tries : TryLogin[i] \in FlowTries /\ TryFlow[i] \in FlowTries
  BY DEF FlowTries
<1> QED
  BY <1>1, <1>4, <1>5 DEF FlowTries

LEMMA FlowSteps ==
    ASSUME Step(FlowChecks)
    PROVE  /\ Grows /\ Adds({"flow-a"} \union AllTries)
           /\ UNCHANGED <<works, main, readBack>>
           /\ FoundTruly /\ PassedTruly /\ Sound
           /\ main \in alive => main \in alive'
           /\ Correct' /\ main \in alive =>
                credits' = credits \union When("flow" \in plan, Says("STEP_SKIPPED", "skips"))
<1> USE DEF Step, world, outcome
<1>1. CASE "flow" \notin plan
  BY <1>1 DEF FlowChecks, NotAsked, Grows, Adds, FoundTruly, PassedTruly, When, Sound
<1>2. CASE "flow" \in plan
  <2> DEFINE R == {"flow-a"} \union FlowTries
  <2>1. PICK how \in Answers(R) :
        LET finished == main \in alive /\ how["flow-a"] = "app"
            tried == \A i \in Tries : how[TryLogin[i]] # "silent"
            reached == {i \in Tries : \A j \in Tries : j < i => how[TryLogin[j]] # "silent"}
            signed == {i \in reached : Done(how[TryLogin[i]]) /\ "stated" \in valid["B"]}
            ended == {i \in signed : "single" \in app /\ \E j \in signed : i < j}
            skipped == \E i \in signed :
                            /\ how[TryFlow[i]] = "app"
                            /\ "skipsAll" \in app \/ ("skipsOne" \in app /\ i = 4)
        IN  /\ alive' = IF finished
                        THEN {s \in alive : ~("single" \in app /\ s[1] = "B" /\ signed # {})}
                             \union {<<"B", TryLogin[i]>> : i \in signed \ ended}
                        ELSE alive
            /\ Note(how, {"flow-a"} \union When(finished, FlowTries))
            /\ Finds(When(finished /\ tried /\ skipped, Says("STEP_SKIPPED", "skips")))
            /\ Credits(When(finished /\ tried /\ ~skipped, Says("STEP_SKIPPED", "skips")))
    BY <1>2 DEF FlowChecks
  <2>2. at = "flow_checks" /\ UNCHANGED <<works, main, readBack, valid>>
    BY <1>2 DEF FlowChecks
  <2> DEFINE finished == main \in alive /\ how["flow-a"] = "app"
             tried == \A i \in Tries : how[TryLogin[i]] # "silent"
             reached == {i \in Tries : \A j \in Tries : j < i => how[TryLogin[j]] # "silent"}
             signed == {i \in reached : Done(how[TryLogin[i]]) /\ "stated" \in valid["B"]}
             ended == {i \in signed : "single" \in app /\ \E j \in signed : i < j}
             skipped == \E i \in signed :
                            /\ how[TryFlow[i]] = "app"
                            /\ "skipsAll" \in app \/ ("skipsOne" \in app /\ i = 4)
             sent == {"flow-a"} \union When(finished, FlowTries)
  <2>3. how \in [R -> Kind]
    BY AnswersAre
  <2>4. /\ Grows /\ Adds(R)
        /\ \A q \in sent : how[q] = "app" \/ q \in crashed' \/ limited' # {}
    <3>1. sent \in SUBSET R /\ Note(how, sent)
      BY <2>1 DEF When
    <3> HIDE DEF sent, R
    <3> QED
      BY <2>3, <3>1, NoteMeets
  <2>5. Adds({"flow-a"} \union AllTries)
    BY <2>4, TriesAre DEF Adds
  <2>6. "noB" \notin app => "stated" \in valid["B"]
    BY <2>2
       DEF PrivateInv, PasswordsInv, Made, NeverMade, User, Changing, LastOfAll, Settled, Suites
  <2>7. main \in alive => main \in alive'
    <3>1. main[1] = "A"
      BY DEF PrivateInv
    <3> HIDE DEF signed, ended, finished
    <3> QED
      BY <2>1, <3>1
  <2>8. FoundTruly
    <3>1. skipped => Has("skips")
      <4>1. ASSUME NEW i \in signed, i = 4 PROVE "middle" \in plan
        BY <4>1 DEF Tries
      <4> HIDE DEF signed
      <4> QED
        BY <4>1 DEF Has
    <3>2. \A f \in findings' : f \in findings \/ (f.fault = "skips" /\ skipped)
      <4> HIDE DEF skipped, finished, tried
      <4> QED
        BY <2>1 DEF Finds, When, Says, finished, tried, skipped
    <3> HIDE DEF skipped
    <3> QED
      BY <3>1, <3>2 DEF FoundTruly
  \* A try that is answered, by B signed in, shows the skip.
  <2>9. ASSUME NEW i \in Tries, "skipsAll" \in app \/ ("skipsOne" \in app /\ i = 4),
               "noB" \notin app, tried, ~skipped
        PROVE  how[TryLogin[i]] # "app" \/ how[TryFlow[i]] # "app"
    <3>1. i \in reached
      BY <2>9
    <3> HIDE DEF reached
    <3> QED
      BY <2>6, <2>9, <3>1 DEF Done
  <2>10. ASSUME finished, tried, ~skipped, Has("skips"), "noB" \notin app
         PROVE  FlowTries \intersect crashed' # {} \/ limited' # {}
    <3>1. PICK i \in Tries : "skipsAll" \in app \/ ("skipsOne" \in app /\ i = 4)
      BY <2>10, TriesAre DEF Has
    <3>2. how[TryLogin[i]] # "app" \/ how[TryFlow[i]] # "app"
      BY <2>9, <2>10, <3>1
    <3>3. TryLogin[i] \in FlowTries /\ TryFlow[i] \in FlowTries
      BY TriesAre
    <3>4. FlowTries \subseteq sent
      BY <2>10 DEF When
    <3> HIDE DEF sent, finished, tried, skipped
    <3> QED
      BY <2>4, <3>2, <3>3, <3>4
  <2>11. PassedTruly
    <3> HIDE DEF skipped, finished, tried
    <3>1. \A c \in credits' :
            c \in credits \/ (/\ c = [rule |-> "STEP_SKIPPED", fault |-> "skips"]
                              /\ finished /\ tried /\ ~skipped)
      BY <2>1 DEF Credits, When, Says, finished, tried, skipped
    <3>2. FlowTries' = FlowTries
      BY DEF FlowTries, Tries
    <3> QED
      BY <2>10, <3>1, <3>2 DEF PassedTruly, Withheld, PassedByMistake
  <2>12. ASSUME Correct', main \in alive
         PROVE  credits' = credits \union Says("STEP_SKIPPED", "skips")
    <3>1. app \intersect {"skipsAll", "skipsOne"} = {} /\ crashed' = {} /\ limited' = {}
      BY <2>12 DEF Correct
    <3>2. how["flow-a"] = "app"
      BY <2>4, <3>1
    <3>3. finished
      BY <2>12, <3>2
    <3>4. \A q \in FlowTries : how[q] = "app"
      BY <2>4, <3>1, <3>3 DEF When
    <3>5. tried /\ ~skipped
      BY <3>1, <3>4, TriesAre
    <3> HIDE DEF finished, tried, skipped
    <3> QED
      BY <2>1, <3>3, <3>5 DEF Credits, When, finished, tried, skipped
  <2>13. Sound
    <3>1. \A i \in signed \ ended : <<"B", TryLogin[i]>> \in Session
      BY TriesAre
    <3> HIDE DEF signed, ended, finished, tried, skipped
    <3>2. alive' \subseteq alive \union Session
      BY <2>1, <3>1 DEF signed, ended, finished
    <3>3. (\A c \in credits' : c \in credits \/ Worded(c))
          /\ (\A f \in findings' : f \in findings \/ Worded(f))
      BY <2>1 DEF Finds, Credits, When, Says, Worded, Rule, finished, tried, skipped
    <3> QED
      BY <3>2, <3>3 DEF Sound
  <2> QED
    BY <1>2, <2>2, <2>4, <2>5, <2>7, <2>8, <2>11, <2>12, <2>13 DEF When
<1> QED
  BY <1>1, <1>2

LEMMA LogoutSteps ==
    ASSUME Step(LogoutCheck)
    PROVE  /\ Grows /\ Adds({"logout", "after-logout"})
           /\ UNCHANGED <<works, main, readBack>>
           /\ FoundTruly /\ Sound
           /\ (works => main \in alive \/ Public \/ EndedByWaiting)
                  /\ (readBack => main \in alive)
                => PassedTruly
           /\ Correct' /\ works =>
                credits' = credits \union When("logout" \in plan, Says("LOGOUT", "keepsLogout"))
<1> USE DEF Step, world, outcome
<1>1. CASE ~("logout" \in plan /\ (Confirm \/ readBack))
  BY <1>1 DEF LogoutCheck, NotAsked, Grows, Adds, FoundTruly, PassedTruly, When, Confirm, Sound
<1>2. CASE "logout" \in plan /\ (Confirm \/ readBack)
  <2> DEFINE R == {"logout", "after-logout"}
  <2>1. PICK how \in Answers(R) :
        LET known == IF Done(how["logout"]) /\ "keepsLogout" \notin app
                     THEN alive \ {main} ELSE alive
            accepted == how["logout"] = "app"
            replayed == \/ Confirm /\ Opens(known, main, how["after-logout"])
                        \/ main \in known /\ how["after-logout"] = "app"
        IN  /\ alive' = known
            /\ Note(how, {"logout"} \union When(accepted, {"after-logout"}))
            /\ Finds(When(accepted /\ replayed, Says("LOGOUT", "keepsLogout")))
            /\ Credits(When(accepted /\ ~replayed, Says("LOGOUT", "keepsLogout")))
            /\ UNCHANGED <<works, main, readBack>>
    BY <1>2 DEF LogoutCheck
  <2> DEFINE sent == {"logout"} \union When(how["logout"] = "app", {"after-logout"})
  <2>2. how \in [R -> Kind]
    BY AnswersAre
  <2>3. /\ Grows /\ Adds(R)
        /\ \A q \in sent : how[q] = "app" \/ q \in crashed' \/ limited' # {}
    <3>1. sent \in SUBSET R /\ Note(how, sent)
      BY <2>1 DEF When
    <3> HIDE DEF sent
    <3> QED
      BY <2>2, <3>1, NoteMeets
  <2>4. how["logout"] = "app" => how["after-logout"] = "app" \/ "after-logout" \in crashed'
                                    \/ limited' # {}
    BY <2>3 DEF When
  <2> DEFINE known == IF Done(how["logout"]) /\ "keepsLogout" \notin app
                      THEN alive \ {main} ELSE alive
             accepted == how["logout"] = "app"
             replayed == \/ Confirm /\ Opens(known, main, how["after-logout"])
                         \/ main \in known /\ how["after-logout"] = "app"
  <2>5. FoundTruly
    <3>1. accepted /\ replayed => "keepsLogout" \in app \/ (works /\ Public)
      BY DEF Done, Confirm, Opens
    <3>2. works /\ Public => limited' # {} \/ PublicTakenForPrivate'
      BY <2>3 DEF PrivateInv, SeemsPrivate, PublicTakenForPrivate, Grows, Public
    <3> HIDE DEF accepted, replayed
    <3> QED
      BY <2>1, <3>1, <3>2
         DEF FoundTruly, Finds, When, Says, Has, Excused, FoundByMistake, accepted, replayed
  <2>6. ASSUME works => main \in alive \/ Public \/ EndedByWaiting, readBack => main \in alive
        PROVE  PassedTruly
    <3>1. accepted /\ ~replayed /\ "keepsLogout" \in app
            => EndedByWaiting \/ "after-logout" \in crashed' \/ limited' # {}
      BY <1>2, <2>4, <2>6 DEF Confirm, Opens
    <3>2. \A c \in credits' : c \in credits \/ (/\ c = [rule |-> "LOGOUT", fault |-> "keepsLogout"]
                                                /\ accepted /\ ~replayed)
      <4> HIDE DEF accepted, replayed
      <4> QED
        BY <2>1 DEF Credits, When, Says, accepted, replayed
    <3> HIDE DEF accepted, replayed
    <3>3. ASSUME NEW c, c = [rule |-> "LOGOUT", fault |-> "keepsLogout"],
                 EndedByWaiting \/ "after-logout" \in crashed' \/ limited' # {}
          PROVE  Withheld(c)' \/ PassedByMistake(c)'
      BY <3>3 DEF EndedByWaiting, Withheld, RestsOnARefusal, PassedByMistake
    <3> QED
      BY <3>1, <3>2, <3>3 DEF PassedTruly, Has
  <2>7. ASSUME Correct' PROVE credits' = credits \union Says("LOGOUT", "keepsLogout")
    <3>1. "keepsLogout" \notin app /\ ~Public /\ crashed' = {} /\ limited' = {}
      BY <2>7 DEF Correct, Public
    <3>2. how["logout"] = "app"
      BY <2>3, <3>1
    <3> QED
      BY <2>1, <3>1, <3>2 DEF Credits, When, Done, Opens
  <2>8. Sound
    BY <2>1 DEF Sound, Finds, Credits, When, Says, Worded, Rule, Traits
  <2> QED
    BY <1>2, <2>1, <2>3, <2>5, <2>6, <2>7, <2>8 DEF Confirm, When
<1> QED
  BY <1>1, <1>2

LEMMA GetSteps ==
    ASSUME Step(SignOutOnGetCheck)
    PROVE  /\ Grows
           /\ Adds({"login-get-logout", "private-before-get-logout", "logout-by-get",
                    "private-after-get-logout"})
           /\ UNCHANGED <<works, main, readBack, credits>>
           /\ FoundTruly /\ Sound
<1> USE DEF Step, world, outcome
<1>1. CASE ~("logout" \in plan /\ Confirm)
  BY <1>1 DEF SignOutOnGetCheck, NotAsked, Grows, Adds, FoundTruly, Sound
<1>2. CASE "logout" \in plan /\ Confirm
  <2> DEFINE R == {"login-get-logout", "private-before-get-logout", "logout-by-get",
                   "private-after-get-logout"}
             session == <<"A", "get-logout">>
  <2>1. PICK how \in Answers(R) :
        LET known == SignIn(alive, session, how["login-get-logout"])
            begun == /\ how["login-get-logout"] # "silent"
                     /\ Opens(known, session, how["private-before-get-logout"])
            left  == IF begun /\ Done(how["logout-by-get"]) /\ "getLogout" \in app
                     THEN known \ {session} ELSE known
            ended == ~Opens(left, session, how["private-after-get-logout"])
        IN  /\ alive' = left
            /\ Note(how, {"login-get-logout"}
                    \union When(how["login-get-logout"] # "silent", {"private-before-get-logout"})
                    \union When(begun, {"logout-by-get", "private-after-get-logout"}))
            /\ Finds(When(begun /\ ended, Says("SIGN_OUT_ON_GET", "getLogout")))
            /\ UNCHANGED <<works, main, readBack, credits>>
    BY <1>2 DEF SignOutOnGetCheck
  <2> DEFINE known == SignIn(alive, session, how["login-get-logout"])
             begun == /\ how["login-get-logout"] # "silent"
                      /\ Opens(known, session, how["private-before-get-logout"])
             left  == IF begun /\ Done(how["logout-by-get"]) /\ "getLogout" \in app
                      THEN known \ {session} ELSE known
             ended == ~Opens(left, session, how["private-after-get-logout"])
             sent == {"login-get-logout"}
                    \union When(how["login-get-logout"] # "silent", {"private-before-get-logout"})
                    \union When(begun, {"logout-by-get", "private-after-get-logout"})
  <2>2. how \in [R -> Kind]
    BY AnswersAre
  <2>3. /\ Grows /\ Adds(R)
        /\ \A q \in sent : how[q] = "app" \/ q \in crashed' \/ limited' # {}
    <3>1. sent \in SUBSET R /\ Note(how, sent)
      BY <2>1 DEF When
    <3> HIDE DEF sent
    <3> QED
      BY <2>2, <3>1, NoteMeets
  <2>4. begun => how["private-after-get-logout"] = "app" \/ limited' # {}
                    \/ "private-after-get-logout" \in crashed'
    BY <2>3 DEF When
  <2>5. begun /\ ended /\ how["private-after-get-logout"] = "app" => "getLogout" \in app
    BY DEF Opens
  <2>6. FoundTruly
    <3>1. findings' = findings \union When(begun /\ ended, Says("SIGN_OUT_ON_GET", "getLogout"))
      BY <2>1 DEF Finds
    <3> HIDE DEF begun, ended
    <3> QED
      BY <2>4, <2>5, <3>1 DEF FoundTruly, When, Says, Has, Excused, RaisedOnARefusal
  <2>7. Sound
    <3>1. known \subseteq alive \union Session
      BY SignInKnows DEF Session, User
    <3>2. alive' \subseteq alive \union Session
      BY <2>1, <3>1
    <3> QED
      BY <2>1, <3>2 DEF Sound, Finds, When, Says, Worded, Rule, Traits
  <2> QED
    BY <2>1, <2>3, <2>6, <2>7
<1> QED
  BY <1>1, <1>2

LEMMA ChangeSteps ==
    ASSUME Step(ChangePasswordChecks)
    PROVE  /\ Grows
           /\ Adds(ChangeFirst \union ChangeWrong \union ChangeRight \union ChangeOld)
           /\ FoundTruly /\ PassedTruly /\ Sound
           /\ Correct' /\ works =>
                credits' = credits \union When("change" \in plan,
                                               Says("CHANGE_WITHOUT_CURRENT", "noCurrent")
                                               \union Says("CHANGE_PASSWORD", "keepsChanged")
                                               \union Says("CHANGE_ENDS_SESSIONS", "keepsOthers"))
<1> USE DEF Step, world, outcome
<1>1. CASE ~("change" \in plan /\ Confirm)
  BY <1>1 DEF ChangePasswordChecks, NotAsked, Grows, Adds, FoundTruly, PassedTruly, Confirm,
     When, Sound
<1>2. CASE "change" \in plan /\ Confirm
  <2> DEFINE R == ChangeFirst \union ChangeWrong \union ChangeRight \union ChangeOld
             before == PasswordsOf("A")
  <2>1. PICK how \in Answers(R) :
        LET begun == AccountWorks(before, "stated", how["login-change"], how["private-change"])
            slipped == /\ "noCurrent" \in app /\ "noChange" \notin app
                       /\ how["login-wrong-current"] = "app" /\ "stated" \in before
                       /\ Done(how["change-password-wrong-current"])
            between == IF slipped THEN Set(before, "first", "keepsChanged") ELSE before
            seen == AccountWorks(between, "first", how["login-changed"], how["private-changed"])
            signed == how["login-right-current"] = "app" /\ "stated" \in between
            beside == /\ how["login-bystander"] = "app" /\ "stated" \in between
                      /\ ~("single" \in app /\ signed)
            openBefore == /\ "silent" \notin {how["login-bystander"], how["login-right-current"]}
                          /\ how["bystander-before"] = "app"
                          /\ Public \/ beside
            took == /\ signed /\ "noChange" \notin app
                    /\ Done(how["change-password-right-current"])
            after == IF took THEN Set(between, "second", "keepsChanged") ELSE between
            openAfter == /\ how["bystander-after"] = "app"
                         /\ Public \/ (beside /\ (took => "keepsOthers" \in app))
            anew == AccountWorks(after, "second", how["login-changed-2"],
                                 how["private-changed-2"])
            old == AccountWorks(after, "stated", how["login-old"], how["private-old"])
        IN  /\ Note(how, ChangeFirst \union When(begun, ChangeWrong)
                         \union When(begun /\ ~seen, ChangeRight)
                         \union When(begun /\ ~seen /\ anew, ChangeOld))
            /\ Finds(When(begun /\ seen, Says("CHANGE_WITHOUT_CURRENT", "noCurrent"))
                     \union When(begun /\ ~seen /\ anew /\ old,
                                 Says("CHANGE_PASSWORD", "keepsChanged")))
            /\ Credits(When(begun /\ seen, Says("CHANGE_PASSWORD", "noChange"))
                       \union When(begun /\ ~seen /\ anew,
                                   Says("CHANGE_WITHOUT_CURRENT", "noCurrent"))
                       \union When(begun /\ ~seen /\ anew /\ ~old,
                                   Says("CHANGE_PASSWORD", "keepsChanged"))
                       \union When(begun /\ ~seen /\ anew /\ openBefore /\ ~openAfter,
                                   Says("CHANGE_ENDS_SESSIONS", "keepsOthers")))
    BY <1>2 DEF ChangePasswordChecks
  <2>2. at = "change_password_checks"
    BY <1>2 DEF ChangePasswordChecks
  <2> DEFINE begun == AccountWorks(before, "stated", how["login-change"], how["private-change"])
             slipped == /\ "noCurrent" \in app /\ "noChange" \notin app
                        /\ how["login-wrong-current"] = "app" /\ "stated" \in before
                        /\ Done(how["change-password-wrong-current"])
             between == IF slipped THEN Set(before, "first", "keepsChanged") ELSE before
             seen == AccountWorks(between, "first", how["login-changed"], how["private-changed"])
             signed == how["login-right-current"] = "app" /\ "stated" \in between
             beside == /\ how["login-bystander"] = "app" /\ "stated" \in between
                       /\ ~("single" \in app /\ signed)
             openBefore == /\ "silent" \notin {how["login-bystander"], how["login-right-current"]}
                           /\ how["bystander-before"] = "app"
                           /\ Public \/ beside
             took == /\ signed /\ "noChange" \notin app
                     /\ Done(how["change-password-right-current"])
             after == IF took THEN Set(between, "second", "keepsChanged") ELSE between
             openAfter == /\ how["bystander-after"] = "app"
                          /\ Public \/ (beside /\ (took => "keepsOthers" \in app))
             anew == AccountWorks(after, "second", how["login-changed-2"],
                                  how["private-changed-2"])
             old == AccountWorks(after, "stated", how["login-old"], how["private-old"])
             sent == ChangeFirst \union When(begun, ChangeWrong)
                         \union When(begun /\ ~seen, ChangeRight)
                         \union When(begun /\ ~seen /\ anew, ChangeOld)
  <2>3. how \in [R -> Kind]
    BY AnswersAre
  <2>4. /\ Grows /\ Adds(R)
        /\ \A q \in sent : how[q] = "app" \/ q \in crashed' \/ limited' # {}
    <3>1. sent \in SUBSET R /\ Note(how, sent)
      BY <2>1 DEF When
    <3> HIDE DEF sent, R
    <3> QED
      BY <2>3, <3>1, NoteMeets
  <2>5. before \subseteq {"stated"} /\ (begun => Public \/ before = {"stated"})
        /\ ("noA" \notin app => before = {"stated"})
    BY <2>2 DEF PrivateInv, PasswordsInv, Made, NeverMade, User, Changing, LastOfAll, Settled,
       Suites, PasswordsOf, AccountWorks
  <2>6. /\ findings' = findings
                     \union When(begun /\ seen, Says("CHANGE_WITHOUT_CURRENT", "noCurrent"))
                     \union When(begun /\ ~seen /\ anew /\ old,
                                 Says("CHANGE_PASSWORD", "keepsChanged"))
        /\ credits' = credits \union When(begun /\ seen, Says("CHANGE_PASSWORD", "noChange"))
                       \union When(begun /\ ~seen /\ anew,
                                   Says("CHANGE_WITHOUT_CURRENT", "noCurrent"))
                       \union When(begun /\ ~seen /\ anew /\ ~old,
                                   Says("CHANGE_PASSWORD", "keepsChanged"))
                       \union When(begun /\ ~seen /\ anew /\ openBefore /\ ~openAfter,
                                   Says("CHANGE_ENDS_SESSIONS", "keepsOthers"))
    BY <2>1 DEF Finds, Credits
  \* A password that was not set is not taken, and only a public page opens for it.
  <2>7. /\ seen => Public \/ slipped
        /\ anew => Public \/ took
        /\ took => "stated" \in between /\ after = Set(between, "second", "keepsChanged")
        /\ slipped /\ took => "keepsChanged" \in app
    BY <2>5 DEF AccountWorks, Set
  <2>8. begun /\ ~seen /\ anew /\ old => Public \/ "keepsChanged" \in app
    BY <2>5, <2>7 DEF AccountWorks, Set
  <2>9. Public => limited' # {} \/ PublicTakenForPrivate'
    BY <1>2, <2>4 DEF PrivateInv, Confirm, SeemsPrivate, PublicTakenForPrivate, Grows, Public
  <2>10. FoundTruly
    <3>1. seen => Public \/ "noCurrent" \in app
      BY <2>7
    <3> HIDE DEF begun, seen, anew, old
    <3> QED
      BY <2>6, <2>8, <2>9, <3>1 DEF FoundTruly, When, Says, Has, Excused, FoundByMistake
  <2>11. begun /\ ~seen /\ anew /\ "noCurrent" \in app
            => ChangeWrong \intersect crashed' # {} \/ limited' # {}
    <3>1. ASSUME begun, ~seen, anew, "noCurrent" \in app
          PROVE  \E q \in ChangeWrong : how[q] # "app"
      <4>1. CASE Public
        BY <3>1, <4>1 DEF AccountWorks, ChangeWrong
      <4>2. CASE slipped
        <5>1. "first" \in between
          BY <4>2 DEF Set
        <5> QED
          BY <3>1, <5>1 DEF AccountWorks, ChangeWrong
      <4>3. CASE ~Public /\ ~slipped
        <5>1. "noChange" \notin app /\ "stated" \in before
          BY <2>5, <2>7, <3>1, <4>3
        <5> QED
          BY <3>1, <4>3, <5>1 DEF Done, ChangeWrong
      <4> QED
        BY <4>1, <4>2, <4>3
    <3>2. begun => ChangeWrong \subseteq sent
      BY DEF When
    <3> HIDE DEF begun, seen, anew, sent
    <3> QED
      BY <2>4, <3>1, <3>2
  <2>12. begun /\ ~seen /\ anew /\ ~old /\ "keepsChanged" \in app
            => ChangeOld \intersect crashed' # {} \/ limited' # {}
    <3>1. anew /\ ~Public /\ "keepsChanged" \in app => "stated" \in after
      BY <2>7 DEF Set
    <3>2. anew /\ ~old /\ "keepsChanged" \in app => \E q \in ChangeOld : how[q] # "app"
      BY <3>1 DEF AccountWorks, ChangeOld
    <3>3. begun /\ ~seen /\ anew => ChangeOld \subseteq sent
      BY DEF When
    <3> HIDE DEF begun, seen, anew, old, sent
    <3> QED
      BY <2>4, <3>2, <3>3
  <2>13. begun /\ ~seen /\ openBefore /\ ~openAfter /\ "keepsOthers" \in app
            => "bystander-after" \in crashed' \/ limited' # {}
    <3>1. begun /\ ~seen => "bystander-after" \in sent
      BY DEF When, ChangeRight
    <3>2. openBefore /\ ~openAfter /\ "keepsOthers" \in app => how["bystander-after"] # "app"
      BY DEF AccountWorks
    <3> HIDE DEF begun, seen, openBefore, openAfter, sent
    <3> QED
      BY <2>4, <3>1, <3>2
  <2>14. PassedTruly
    <3>1. seen => "noChange" \notin app \/ limited' # {} \/ PublicTakenForPrivate'
      BY <2>7, <2>9
    <3> HIDE DEF begun, seen, anew, old, openBefore, openAfter
    <3>2. \A c \in credits' :
            \/ c \in credits
            \/ c = [rule |-> "CHANGE_PASSWORD", fault |-> "noChange"] /\ seen
            \/ c = [rule |-> "CHANGE_WITHOUT_CURRENT", fault |-> "noCurrent"]
                /\ begun /\ ~seen /\ anew
            \/ c = [rule |-> "CHANGE_PASSWORD", fault |-> "keepsChanged"]
                /\ begun /\ ~seen /\ anew /\ ~old
            \/ c = [rule |-> "CHANGE_ENDS_SESSIONS", fault |-> "keepsOthers"]
                /\ begun /\ ~seen /\ openBefore /\ ~openAfter
      BY <2>6 DEF When, Says
    <3>3. ASSUME NEW c, c = [rule |-> "CHANGE_PASSWORD", fault |-> "noChange"],
                 limited' # {} \/ PublicTakenForPrivate'
          PROVE  Withheld(c)' \/ PassedByMistake(c)'
      BY <3>3 DEF Withheld, PassedByMistake
    <3> QED
      BY <2>11, <2>12, <2>13, <3>1, <3>2, <3>3 DEF PassedTruly, Has, Withheld, RestsOnARefusal
  <2>15. ASSUME Correct'
         PROVE  credits' = credits \union Says("CHANGE_WITHOUT_CURRENT", "noCurrent")
                                   \union Says("CHANGE_PASSWORD", "keepsChanged")
                                   \union Says("CHANGE_ENDS_SESSIONS", "keepsOthers")
    <3>1. /\ app \intersect {"noA", "noCurrent", "noChange", "keepsChanged", "keepsOthers",
                             "single"} = {}
          /\ ~Public /\ crashed' = {} /\ limited' = {}
      BY <2>15 DEF Correct, Public
    <3>2. before = {"stated"} /\ between = before
      BY <2>5, <3>1
    <3>3. begun
      <4>1. \A q \in ChangeFirst : how[q] = "app"
        BY <2>4, <3>1
      <4> QED
        BY <3>2, <4>1 DEF AccountWorks, ChangeFirst
    <3>4. ~seen
      BY <2>7, <3>1
    <3>5. \A q \in ChangeRight : how[q] = "app"
      <4>1. ChangeRight \subseteq sent
        BY <3>3, <3>4 DEF When
      <4> HIDE DEF sent
      <4> QED
        BY <2>4, <3>1, <4>1
    <3>6. took /\ after = {"second"}
      BY <3>1, <3>2, <3>5 DEF ChangeRight, Done, Set
    <3>7. anew /\ ~old
      BY <3>1, <3>5, <3>6 DEF AccountWorks, ChangeRight
    <3>8. openBefore /\ ~openAfter
      BY <3>1, <3>2, <3>5, <3>6 DEF ChangeRight
    <3> HIDE DEF begun, seen, anew, old, openBefore, openAfter
    <3> QED
      BY <2>6, <3>3, <3>4, <3>7, <3>8 DEF When
  <2>16. Sound
    <3>1. UNCHANGED alive
      BY <1>2 DEF ChangePasswordChecks
    <3> HIDE DEF begun, seen, anew, old, openBefore, openAfter
    <3> QED
      BY <2>6, <3>1 DEF Sound, When, Says, Worded, Rule, Traits
  <2> QED
    BY <1>2, <2>4, <2>10, <2>14, <2>15, <2>16 DEF When
<1> QED
  BY <1>1, <1>2

LEMMA ResetSteps ==
    ASSUME Step(ResetChecks)
    PROVE  /\ Grows /\ Adds(ResetFirst \union ResetUsed \union ResetOld)
           /\ FoundTruly /\ Sound /\ UNCHANGED credits
<1> USE DEF Step, world, outcome
<1>1. CASE ~("reset" \in plan /\ Confirm)
  BY <1>1 DEF ResetChecks, NotAsked, Grows, Adds, FoundTruly, Sound
<1>2. CASE "reset" \in plan /\ Confirm
  <2> DEFINE R == ResetFirst \union ResetUsed \union ResetOld
             before == PasswordsOf("B")
  <2>1. PICK how \in Answers(R) :
        LET begun == AccountWorks(before, "stated", how["login-reset"], how["private-reset"])
            mailed == begun /\ before # {}
            took == mailed /\ Done(how["reset-use-1"]) /\ "noReset" \notin app
            after == IF took THEN Set(before, "first", "keepsReset") ELSE before
            anew == mailed /\ AccountWorks(after, "first", how["login-reset-new"],
                                           how["private-reset-new"])
            old == AccountWorks(after, "stated", how["login-reset-old"], how["private-reset-old"])
        IN  /\ Note(how, ResetFirst \union When(mailed, ResetUsed) \union When(anew, ResetOld))
            /\ Finds(When(anew /\ old, Says("RESET_KEEPS_OLD", "keepsReset")))
            /\ UNCHANGED <<alive, credits>>
    BY <1>2 DEF ResetChecks
  <2> DEFINE begun == AccountWorks(before, "stated", how["login-reset"], how["private-reset"])
             mailed == begun /\ before # {}
             took == mailed /\ Done(how["reset-use-1"]) /\ "noReset" \notin app
             after == IF took THEN Set(before, "first", "keepsReset") ELSE before
             anew == mailed /\ AccountWorks(after, "first", how["login-reset-new"],
                                            how["private-reset-new"])
             old == AccountWorks(after, "stated", how["login-reset-old"], how["private-reset-old"])
  <2>2. at = "reset_checks"
    BY <1>2 DEF ResetChecks
  <2>3. "first" \notin before
    BY <2>2 DEF PrivateInv, PasswordsInv, Made, PasswordsOf, User
  <2>4. how \in [R -> Kind]
    BY AnswersAre
  <2>5. Grows /\ Adds(R)
    <3>1. \E sent \in SUBSET R : Note(how, sent)
      BY <2>1 DEF When
    <3> HIDE DEF R
    <3> QED
      BY <2>4, <3>1, NoteMeets
  <2>6. FoundTruly
    <3>1. anew /\ old => Public \/ "keepsReset" \in app
      BY <2>3 DEF AccountWorks, Set
    <3>2. Public => limited' # {} \/ PublicTakenForPrivate'
      BY <1>2, <2>5 DEF PrivateInv, Confirm, SeemsPrivate, PublicTakenForPrivate, Grows, Public
    <3> HIDE DEF anew, old
    <3> QED
      BY <2>1, <3>1, <3>2
         DEF FoundTruly, Finds, When, Says, Has, Excused, FoundByMistake, anew, old
  <2>7. Sound
    BY <2>1 DEF Sound, Finds, When, Says, Worded, Rule, Traits
  <2> QED
    BY <2>1, <2>5, <2>6, <2>7
<1> QED
  BY <1>1, <1>2

LEMMA SettleSteps ==
    ASSUME Step(Settle)
    PROVE  /\ Grows /\ UNCHANGED <<works, main, readBack, limited, crashed>>
           /\ credits' = IF limited # {} THEN {} ELSE {c \in credits : ~Withheld(c)}
           /\ findings' = {f \in findings : RaisedOnARefusal(f.rule) \intersect crashed = {}}
           /\ limited # {} => doubted' = findings'
BY DEF Step, Settle, Withhold, Withheld, Grows

\* The places where a check only signs in, or guesses.
Quiet == OwnSessions \union LastOfAll \union Suites \union {"brute_force_check"}

(* Which check a step is of, and that it is one of those above.            *)
LEMMA NextSteps ==
    ASSUME Next, PrivateInv
    PROVE  \/ at = "private_anonymous" /\ Step(PrivateAnonymous)
           \/ at = "sign_in" /\ Step(SignInA)
           \/ at = "session_timeout_checks" /\ Step(SessionTimeoutChecks)
           \/ at = "sign_in_again" /\ Step(SignInAgain)
           \/ at = "owned_checks" /\ Step(OwnedChecks)
           \/ at = "admin_checks" /\ Step(AdminChecks)
           \/ at = "invented_session_check" /\ Step(InventedSessionCheck)
           \/ at = "flow_checks" /\ Step(FlowChecks)
           \/ at = "logout_check" /\ Step(LogoutCheck)
           \/ at = "sign_out_on_get_check" /\ Step(SignOutOnGetCheck)
           \/ at = "change_password_checks" /\ Step(ChangePasswordChecks)
           \/ at = "reset_checks" /\ Step(ResetChecks)
           \/ at = "settle" /\ Step(Settle)
           \/ at \in Quiet
<1>1. UNCHANGED world
  BY NextLeaves
<1>2. PrivateAnonymous => at = "private_anonymous"
  BY DEF PrivateAnonymous
<1>3. SignInA => at = "sign_in"
  BY DEF SignInA
<1>4. SessionTimeoutChecks => at = "session_timeout_checks"
  BY DEF SessionTimeoutChecks
<1>5. SignInAgain => at = "sign_in_again"
  BY DEF SignInAgain
<1>6. OwnedChecks => at = "owned_checks"
  BY DEF OwnedChecks
<1>7. AdminChecks => at = "admin_checks"
  BY DEF AdminChecks
<1>8. InventedSessionCheck => at = "invented_session_check"
  BY DEF InventedSessionCheck
<1>9. FlowChecks => at = "flow_checks"
  BY DEF FlowChecks
<1>10. LogoutCheck => at = "logout_check"
  BY DEF LogoutCheck
<1>11. SignOutOnGetCheck => at = "sign_out_on_get_check"
  BY DEF SignOutOnGetCheck
<1>12. ChangePasswordChecks => at = "change_password_checks"
  BY DEF ChangePasswordChecks
<1>13. ResetChecks => at = "reset_checks"
  BY DEF ResetChecks
<1>14. Settle => at = "settle"
  BY DEF Settle
<1>15. SignsInAfresh \/ BruteForceCheck => at \in Quiet
  BY DEF SignsInAfresh, BruteForceCheck, Quiet
<1> QED
  BY <1>1, <1>2, <1>3, <1>4, <1>5, <1>6, <1>7, <1>8, <1>9, <1>10, <1>11, <1>12, <1>13, <1>14, <1>15
     DEF Next, Step

LEMMA NextIsOfCheck == ASSUME Next, PrivateInv PROVE at \in Checks \ {"done"}
<1>1. at # "done"
  BY NextSteps DEF Quiet, OwnSessions, LastOfAll, Suites
<1> QED
  BY <1>1 DEF PrivateInv, PasswordsInv

LEMMA NextFinds ==
    ASSUME Next, PrivateInv
    PROVE  Grows /\ (at # "settle" => FoundTruly)
<1>1. CASE at \in Quiet
  BY <1>1, NextLeaves DEF Quiet, Grows, FoundTruly, outcome
<1> QED
  BY <1>1, NextSteps, PrivateSteps, FirstSteps, TimeoutSteps, AgainSteps, OwnedSteps, AdminSteps,
     InventedSteps, FlowSteps, LogoutSteps, GetSteps, ChangeSteps, ResetSteps, SettleSteps
     DEF FoundTruly

LEMMA InitPrivate == Init => PrivateInv
BY InitPasswords DEF Init, PrivateInv, ServedAnonymously

LEMMA NextPrivate == PrivateInv /\ [Next]_vars => PrivateInv'
<1> SUFFICES ASSUME PrivateInv, [Next]_vars PROVE PrivateInv'
  OBVIOUS
<1>1. PasswordsInv'
  BY NextPasswords DEF PrivateInv
<1>2. CASE UNCHANGED vars
  BY <1>1, <1>2
     DEF vars, script, outcome, world, PrivateInv, ServedAnonymously, SeemsPrivate, Public
<1>3. CASE Next
  <2>1. Grows /\ UNCHANGED world
    BY <1>3, NextFinds, NextLeaves
  <2>2. at' # "private_anonymous" /\ (at' = "sign_in" => at = "private_anonymous")
        /\ (at' = "sign_in_again" => at = "session_timeout_checks")
    BY <1>3, NextGoes DEF Order
  <2>3. at = "private_anonymous" => Step(PrivateAnonymous)
    BY <1>3, NextSteps DEF Quiet, OwnSessions, LastOfAll, Suites
  <2>4. at = "sign_in" => Step(SignInA)
    BY <1>3, NextSteps DEF Quiet, OwnSessions, LastOfAll, Suites
  <2>5. at = "session_timeout_checks" => Step(SessionTimeoutChecks)
    BY <1>3, NextSteps DEF Quiet, OwnSessions, LastOfAll, Suites
  <2>6. at = "sign_in_again" => Step(SignInAgain)
    BY <1>3, NextSteps DEF Quiet, OwnSessions, LastOfAll, Suites
  <2>7. /\ at' = "sign_in" => main' = <<"A", "a">>
        /\ at' = "sign_in" =>
            /\ ServedAnonymously' => Public'
            /\ judged' => ServedAnonymously' \/ SeemsPrivate'
            /\ "private" \in plan' /\ ~Public' => judged'
    BY <2>1, <2>2, <2>3, PrivateSteps DEF PrivateInv, world, Public
  <2>8. works' => SeemsPrivate'
    <3>1. CASE at = "sign_in"
      BY <2>1, <2>4, <3>1, FirstSteps DEF world
    <3>2. CASE at # "sign_in"
      BY <1>3, <2>1, <3>2, NextLeaves DEF world, Public, SeemsPrivate, Grows, PrivateInv
    <3> QED
      BY <3>1, <3>2
  <2>9. at' = "sign_in_again" => works'
    BY <2>2, <2>5, TimeoutSteps
  <2>10. main'[1] = "A"
    <3>1. CASE at = "sign_in_again"
      BY <2>6, <3>1, AgainSteps
    <3>2. CASE at # "sign_in_again"
      BY <1>3, <3>2, NextLeaves DEF PrivateInv
    <3> QED
      BY <3>1, <3>2
  <2> QED
    BY <1>1, <2>2, <2>7, <2>8, <2>9, <2>10 DEF PrivateInv
<1> QED
  BY <1>2, <1>3

-----------------------------------------------------------------------------
(* Findings are true.                                                      *)

LEMMA InitFindings == Init => FindingsInv
BY DEF Init, FindingsInv, Settled, Suites

(* What is known to be said by mistake stays so.                           *)
LEMMA MistakesStay ==
    ASSUME Grows, UNCHANGED world, NEW s
    PROVE  /\ FoundByMistake(s) => FoundByMistake(s)'
           /\ PassedByMistake(s) => PassedByMistake(s)'
BY DEF Grows, world, FoundByMistake, PassedByMistake, PublicTakenForPrivate, ShellTakenForPage,
       Public, FlowTries, Tries

LEMMA NextFindings == PrivateInv /\ FindingsInv /\ [Next]_vars => FindingsInv'
<1> SUFFICES ASSUME PrivateInv, FindingsInv, [Next]_vars PROVE FindingsInv'
  OBVIOUS
<1>1. CASE UNCHANGED vars
  BY <1>1, MistakesStay DEF vars, script, outcome, world, FindingsInv, Excused, Grows, Has
<1>2. CASE Next
  <2>1. Grows /\ UNCHANGED world
    BY <1>2, NextFinds, NextLeaves
  <2>2. \A f \in findings : Has(f.fault)' \/ Excused(f)'
    BY <2>1, MistakesStay DEF FindingsInv, Excused, Has, Grows, world
  <2>3. CASE at = "settle"
    <3>1. Step(Settle)
      BY <1>2, <2>3, NextSteps DEF Quiet, OwnSessions, LastOfAll, Suites
    <3> QED
      BY <2>2, <3>1, SettleSteps DEF FindingsInv
  <2>4. CASE at # "settle"
    <3>1. \A f \in findings' : Has(f.fault)' \/ Excused(f)'
      <4>1. FoundTruly
        BY <1>2, <2>4, NextFinds
      <4> QED
        BY <2>1, <2>2, <4>1 DEF FoundTruly, Has, world
    <3>2. at' \in Settled => at \in Suites
      BY <1>2, <2>4, NextGoes, NextIsOfCheck DEF Settled, Suites, Order, Checks, OwnSessions,
         LastOfAll
    <3>3. at \in Suites => UNCHANGED <<findings, doubted, crashed, limited>>
      BY <1>2, NextLeaves DEF outcome
    <3> QED
      BY <3>1, <3>2, <3>3 DEF FindingsInv, Settled
  <2> QED
    BY <2>3, <2>4
<1> QED
  BY <1>1, <1>2

(* Whatever crashes, falls silent or stays limited, and whatever the app:  *)
(* a finding left after the settling is true of the app or named in the    *)
(* limiter's note, but for the known mistakes: those told by a public page *)
(* or a page shell whose first requests crashed (run_checks,               *)
(* RAISED_ON_A_REFUSAL, settle_limited).                                   *)
THEOREM FindingsHold == Spec => []FindingsAreTrue
<1>1. FindingsInv => FindingsAreTrue
  BY DEF FindingsInv, FindingsAreTrue, Excused
<1> QED
  BY <1>1, InitPrivate, NextPrivate, InitFindings, NextFindings, PTL DEF Spec

-----------------------------------------------------------------------------
(* Passes are earned.                                                      *)

LEMMA InitPasses == Init => PassesInv
BY DEF Init, PassesInv, SessionInv, Settled, Suites

(* The session that a refusal is credited by lives, or it is known why not. *)
LEMMA NextSession ==
    ASSUME PrivateInv, PassesInv, Next
    PROVE  SessionInv'
<1> DEFINE ToAdmin == {"session_timeout_checks", "owned_checks", "admin_checks"}
           ToLogout == {"session_timeout_checks", "owned_checks", "admin_checks",
                        "invented_session_check", "flow_checks", "logout_check"}
           FromAdmin == {"admin_checks", "invented_session_check", "flow_checks", "logout_check"}
           ToOwned == {"private_anonymous", "sign_in", "session_timeout_checks", "sign_in_again",
                       "owned_checks"}
<1>1. Grows /\ UNCHANGED world
  BY NextFinds, NextLeaves
<1>2. SessionInv
  BY DEF PassesInv
<1>3. at \in Checks
  BY DEF PrivateInv, PasswordsInv
<1>4. (Public' <=> Public) /\ (EndedByWaiting' <=> EndedByWaiting) /\ (MainLost => MainLost')
  BY <1>1 DEF world, Grows, Public, EndedByWaiting, MainLost, PublicTakenForPrivate
<1>5. CASE at = "private_anonymous"
  <2>1. at' = "sign_in" /\ UNCHANGED readBack
    BY <1>5, NextSteps, NextGoes, PrivateSteps DEF Order, Quiet, OwnSessions, LastOfAll, Suites
  <2> QED
    BY <1>2, <1>5, <2>1 DEF SessionInv
<1>6. CASE at = "sign_in"
  <2>1. Step(SignInA)
    BY <1>6, NextSteps DEF Quiet, OwnSessions, LastOfAll, Suites
  <2>2. at' \in {"session_timeout_checks", "settle"}
    BY <1>6, NextGoes DEF Order
  <2>3. at' # "settle" => main' \in alive' \/ MainLost'
    BY <1>1, <2>1, FirstSteps DEF MainLost, world
  <2>4. works' => main' \in alive' \/ Public'
    BY <1>4, <2>1, FirstSteps
  <2>5. ~readBack'
    BY <1>2, <1>6, <2>1, FirstSteps DEF SessionInv
  <2> QED
    BY <2>2, <2>3, <2>4, <2>5 DEF SessionInv
<1>7. CASE at = "session_timeout_checks"
  <2>1. Step(SessionTimeoutChecks)
    BY <1>7, NextSteps DEF Quiet, OwnSessions, LastOfAll, Suites
  <2>2. at' \in {"owned_checks", "sign_in_again"}
    BY <1>7, NextGoes DEF Order
  <2>3. at' = "owned_checks" => alive \subseteq alive' \/ EndedByWaiting
    BY <2>1, TimeoutSteps DEF EndedByWaiting
  <2>4. UNCHANGED <<works, main, readBack>>
    BY <2>1, TimeoutSteps
  <2>5. /\ main \in alive \/ MainLost
        /\ works => main \in alive \/ Public \/ EndedByWaiting
        /\ ~readBack
    BY <1>2, <1>7 DEF SessionInv
  <2>6. EndedByWaiting => MainLost
    BY DEF MainLost
  <2> HIDE DEF EndedByWaiting, MainLost
  <2> QED
    BY <1>4, <2>2, <2>3, <2>4, <2>5, <2>6 DEF SessionInv
<1>8. CASE at = "sign_in_again"
  <2>1. Step(SignInAgain)
    BY <1>8, NextSteps DEF Quiet, OwnSessions, LastOfAll, Suites
  <2>2. at' \in {"owned_checks", "settle"}
    BY <1>8, NextGoes DEF Order
  <2>3. at' = "owned_checks" => (main' \in alive' \/ Public') /\ (main' \in alive' \/ MainLost')
    BY <1>1, <1>4, <2>1, AgainSteps DEF MainLost, world
  <2>4. ~readBack'
    BY <1>2, <1>8, <2>1, AgainSteps DEF SessionInv
  <2> QED
    BY <2>2, <2>3, <2>4 DEF SessionInv
<1>9. CASE at = "owned_checks"
  <2>1. Step(OwnedChecks)
    BY <1>9, NextSteps DEF Quiet, OwnSessions, LastOfAll, Suites
  <2>2. at' = "admin_checks"
    BY <1>9, NextGoes DEF Order
  <2>3. /\ main \in alive \/ MainLost
        /\ works => main \in alive \/ Public \/ EndedByWaiting
        /\ ~readBack
    BY <1>2, <1>9 DEF SessionInv
  <2>4. /\ UNCHANGED <<works, main>> /\ (main \in alive => main \in alive')
        /\ readBack' => main \in alive
    BY <2>1, <2>3, OwnedSteps
  <2> QED
    BY <1>4, <2>2, <2>3, <2>4 DEF SessionInv
<1>10. CASE at \in {"admin_checks", "invented_session_check"}
  <2>1. UNCHANGED <<works, main, alive, readBack>>
    BY <1>10, NextSteps, AdminSteps, InventedSteps DEF Quiet, OwnSessions, LastOfAll, Suites
  <2>2. at' \in {"invented_session_check", "flow_checks"}
    BY <1>10, NextGoes DEF Order
  <2> QED
    BY <1>2, <1>4, <1>10, <2>1, <2>2 DEF SessionInv
<1>11. CASE at = "flow_checks"
  <2>1. Step(FlowChecks)
    BY <1>11, NextSteps DEF Quiet, OwnSessions, LastOfAll, Suites
  <2>2. at' = "logout_check"
    BY <1>11, NextGoes DEF Order
  <2> QED
    BY <1>2, <1>4, <1>11, <2>1, <2>2, FlowSteps DEF SessionInv
<1>12. CASE at \notin ToLogout \union ToOwned
  <2>1. at' \notin ToLogout \union ToOwned
    BY <1>3, <1>12, NextGoes DEF Order, Checks, OwnSessions, LastOfAll, Settled, Suites
  <2> QED
    BY <2>1 DEF SessionInv
<1>13. CASE at = "logout_check"
  <2>1. at' = "session_id_check"
    BY <1>13, NextGoes DEF Order
  <2> QED
    BY <2>1 DEF SessionInv
<1> QED
  BY <1>5, <1>6, <1>7, <1>8, <1>9, <1>10, <1>11, <1>12, <1>13

(* Each check credits only what the app has not, what will be withheld, or *)
(* what is known to be credited by mistake.                                *)
LEMMA NextPassed ==
    ASSUME PrivateInv, PassesInv, Next, at # "settle"
    PROVE  PassedTruly
<1>1. SessionInv
  BY DEF PassesInv
<1>2. CASE at = "admin_checks"
  BY <1>1, <1>2, NextSteps, AdminSteps DEF Quiet, OwnSessions, LastOfAll, Suites, SessionInv
<1>3. CASE at = "logout_check"
  BY <1>1, <1>3, NextSteps, LogoutSteps DEF Quiet, OwnSessions, LastOfAll, Suites, SessionInv
<1>4. CASE at \in Quiet \union {"private_anonymous", "sign_in_again", "sign_out_on_get_check",
                                 "reset_checks"}
  <2>1. UNCHANGED credits
    BY <1>4, NextSteps, NextLeaves, PrivateSteps, AgainSteps, GetSteps, ResetSteps
       DEF Quiet, OwnSessions, LastOfAll, Suites, outcome
  <2> QED
    BY <2>1 DEF PassedTruly
<1>5. CASE at \in {"sign_in", "session_timeout_checks", "owned_checks", "invented_session_check",
                   "flow_checks", "change_password_checks"}
  BY <1>5, NextSteps, FirstSteps, TimeoutSteps, OwnedSteps, InventedSteps, FlowSteps, ChangeSteps
     DEF Quiet, OwnSessions, LastOfAll, Suites
<1> QED
  BY <1>2, <1>3, <1>4, <1>5, NextSteps

LEMMA NextPasses == PrivateInv /\ PassesInv /\ [Next]_vars => PassesInv'
<1> SUFFICES ASSUME PrivateInv, PassesInv, [Next]_vars PROVE PassesInv'
  OBVIOUS
<1>1. CASE UNCHANGED vars
  <2>1. UNCHANGED <<at, app, plan, alive, main, works, readBack, credits, crashed, limited>>
    BY <1>1 DEF vars, script, outcome, world
  <2>2. SessionInv'
    BY <2>1 DEF PassesInv, SessionInv, MainLost, EndedByWaiting, PublicTakenForPrivate, Public
  <2>3. \A c : PassedByMistake(c) => PassedByMistake(c)'
    BY <2>1, MistakesStay DEF Grows, world
  <2> QED
    BY <2>1, <2>2, <2>3 DEF PassesInv, Withheld, Has
<1>2. CASE Next
  <2>1. Grows /\ UNCHANGED world
    BY <1>2, NextFinds, NextLeaves
  <2>2. \A fault : Has(fault)' = Has(fault)
    BY <2>1 DEF Has, world
  <2>3. \A c : PassedByMistake(c) => PassedByMistake(c)'
    BY <2>1, MistakesStay
  <2>4. \A c \in credits : Has(c.fault) => Withheld(c)' \/ PassedByMistake(c)'
    BY <2>1, <2>3 DEF PassesInv, Withheld, Grows
  <2>5. SessionInv'
    BY <1>2, NextSession
  <2>6. CASE at = "settle"
    <3>1. Step(Settle)
      BY <1>2, <2>6, NextSteps DEF Quiet, OwnSessions, LastOfAll, Suites
    <3>2. credits' \subseteq {c \in credits : ~Withheld(c)}
      BY <3>1, SettleSteps
    <3>3. \A c \in credits' : Has(c.fault) => PassedByMistake(c)'
      BY <2>3, <3>2 DEF PassesInv
    <3> QED
      BY <2>2, <2>5, <3>3 DEF PassesInv
  <2>7. CASE at # "settle"
    <3>1. PassedTruly
      BY <1>2, <2>7, NextPassed
    <3>2. \A c \in credits' : Has(c.fault) => Withheld(c)' \/ PassedByMistake(c)'
      BY <2>4, <3>1 DEF PassedTruly
    <3>3. at' \in Settled => at \in Suites
      BY <1>2, <2>7, NextGoes, NextIsOfCheck DEF Settled, Suites, Order, Checks, OwnSessions,
         LastOfAll
    <3>4. at \in Suites => UNCHANGED credits
      BY <1>2, NextLeaves DEF outcome
    <3>5. at' \in Settled => \A c \in credits' : Has(c.fault) => PassedByMistake(c)'
      BY <2>3, <3>3, <3>4 DEF PassesInv, Settled
    <3> QED
      BY <2>2, <2>5, <3>2, <3>5 DEF PassesInv
  <2> QED
    BY <2>6, <2>7
<1> QED
  BY <1>1, <1>2

(* Whatever the app and what is declared of it, and whatever requests      *)
(* crash, fall silent or stay limited: a pass that is left after the       *)
(* settling says what is so of the app, but for the known mistakes         *)
(* (run_checks, withhold_what_rests_on_a_crash, settle_limited).           *)
THEOREM PassesEarned == Spec => []PassesAreEarned
<1>1. PassesInv => PassesAreEarned
  BY DEF PassesInv, PassesAreEarned
<1> QED
  BY <1>1, InitPrivate, NextPrivate, InitPasses, NextPasses, PTL DEF Spec

-----------------------------------------------------------------------------
(* A correct app is given its passes.                                      *)

LEMMA InitCorrect == Init => CorrectInv
<1> SUFFICES ASSUME Init PROVE CorrectInv
  OBVIOUS
<1>1. Granted = {}
  BY DEF Init, Granted, When, First, UpTo, BeforeFlows
<1> QED
  BY <1>1 DEF Init, CorrectInv, First, UpTo, BeforeFlows

(* The check at which the run is grants what a correct app is due by it.   *)
LEMMA NextCorrect == PrivateInv /\ CorrectInv /\ [Next]_vars => CorrectInv'
<1> SUFFICES ASSUME PrivateInv, CorrectInv, [Next]_vars PROVE CorrectInv'
  OBVIOUS
<1>1. CASE UNCHANGED vars
  <2>1. UNCHANGED <<at, app, plan, alive, main, works, credits, crashed, limited>>
    BY <1>1 DEF vars, script, outcome, world
  <2>2. Granted' = Granted
    BY <2>1 DEF Granted
  <2> QED
    BY <2>1, <2>2 DEF CorrectInv, Correct
<1>2. CASE Next
  <2> SUFFICES ASSUME Correct'
               PROVE  /\ at' \notin First => works'
                      /\ at' \in UpTo("logout") \ (First \union {"sign_in_again"})
                            => main' \in alive'
                      /\ credits' = Granted'
    BY DEF CorrectInv
  <2>1. Grows /\ UNCHANGED world
    BY <1>2, NextFinds, NextLeaves
  <2>2. Correct /\ crashed = {} /\ limited = {}
    BY <2>1 DEF Correct, Grows, world
  <2>3. /\ at \notin First => works
        /\ at \in UpTo("logout") \ (First \union {"sign_in_again"}) => main \in alive
        /\ credits = Granted
    BY <2>2 DEF CorrectInv
  <2>4. plan' = plan
    BY <2>1 DEF world
  <2> USE DEF First, UpTo, BeforeFlows
  <2>5. CASE at = "private_anonymous"
    <3>1. at' = "sign_in" /\ UNCHANGED credits
      BY <1>2, <2>5, NextSteps, NextGoes, PrivateSteps DEF Order, Quiet, OwnSessions, LastOfAll,
         Suites
    <3> QED
      BY <2>3, <2>4, <2>5, <3>1 DEF Granted, When
  <2>6. CASE at = "sign_in"
    <3>1. /\ works' /\ at' = "session_timeout_checks" /\ main' \in alive'
          /\ credits' = credits \union Says("PRIVATE_PAGE", "open")
      BY <1>2, <2>6, NextSteps, FirstSteps DEF Quiet, OwnSessions, LastOfAll, Suites
    <3> QED
      BY <2>3, <2>4, <2>6, <3>1 DEF Granted, When
  <2>7. CASE at = "session_timeout_checks"
    <3>1. Step(SessionTimeoutChecks) /\ works
      BY <1>2, <2>3, <2>7, NextSteps DEF Quiet, OwnSessions, LastOfAll, Suites
    <3>2. CASE "slow" \notin plan
      <4>1. at' = "owned_checks" /\ UNCHANGED <<works, main, alive, credits>>
        BY <3>1, <3>2, TimeoutSteps
      <4> QED
        BY <2>3, <2>4, <2>7, <3>2, <4>1 DEF Granted, When
    <3>3. CASE "slow" \in plan
      <4>1. /\ at' = "sign_in_again" /\ UNCHANGED works
            /\ credits' = credits \union Says("NO_IDLE_TIMEOUT", "keepsIdle")
                                  \union Says("NO_SESSION_LIFETIME", "keepsOld")
        BY <3>1, <3>3, TimeoutSteps
      <4> QED
        BY <2>3, <2>4, <2>7, <3>3, <4>1 DEF Granted, When
    <3> QED
      BY <3>2, <3>3
  <2>8. CASE at = "sign_in_again"
    <3>1. at' = "owned_checks" /\ main' \in alive' /\ UNCHANGED <<works, credits>>
      BY <1>2, <2>8, NextSteps, AgainSteps DEF Quiet, OwnSessions, LastOfAll, Suites
    <3> QED
      BY <2>3, <2>4, <2>8, <3>1 DEF Granted, When
  <2>9. CASE at = "owned_checks"
    <3>1. at' = "admin_checks" /\ main' \in alive' /\ UNCHANGED works
          /\ credits' = credits \union When("owned" \in plan, Says("OTHER_USERS_DATA", "shared"))
      BY <1>2, <2>3, <2>9, NextSteps, NextGoes, OwnedSteps DEF Order, Quiet, OwnSessions,
         LastOfAll, Suites
    <3> QED
      BY <2>3, <2>4, <2>9, <3>1 DEF Granted, When
  <2>10. CASE at = "admin_checks"
    <3>1. at' = "invented_session_check" /\ main' \in alive' /\ UNCHANGED works
          /\ credits' = credits \union When("admin" \in plan, Says("ADMIN_PAGE", "adminOpen"))
      BY <1>2, <2>3, <2>10, NextSteps, NextGoes, AdminSteps DEF Order, Quiet, OwnSessions,
         LastOfAll, Suites
    <3> QED
      BY <2>3, <2>4, <2>10, <3>1 DEF Granted, When
  <2>11. CASE at = "invented_session_check"
    <3>1. at' = "flow_checks" /\ main' \in alive' /\ UNCHANGED works
          /\ credits' = credits \union Says("SESSION_TOKEN_UNVERIFIED", "anySession")
      BY <1>2, <2>3, <2>11, NextSteps, NextGoes, InventedSteps DEF Order, Quiet, OwnSessions,
         LastOfAll, Suites
    <3> QED
      BY <2>3, <2>4, <2>11, <3>1 DEF Granted, When
  <2>12. CASE at = "flow_checks"
    <3>1. at' = "logout_check" /\ main' \in alive' /\ UNCHANGED works
          /\ credits' = credits \union When("flow" \in plan, Says("STEP_SKIPPED", "skips"))
      BY <1>2, <2>3, <2>12, NextSteps, NextGoes, FlowSteps DEF Order, Quiet, OwnSessions,
         LastOfAll, Suites
    <3> QED
      BY <2>3, <2>4, <2>12, <3>1 DEF Granted, When
  <2>13. CASE at = "logout_check"
    <3>1. at' = "session_id_check" /\ UNCHANGED works
          /\ credits' = credits \union When("logout" \in plan, Says("LOGOUT", "keepsLogout"))
      BY <1>2, <2>3, <2>13, NextSteps, NextGoes, LogoutSteps DEF Order, Quiet, OwnSessions,
         LastOfAll, Suites
    <3> QED
      BY <2>3, <2>4, <2>13, <3>1 DEF Granted, When, OwnSessions
  <2>14. CASE at = "change_password_checks"
    <3>1. at' = "reset_checks" /\ UNCHANGED works
          /\ credits' = credits \union When("change" \in plan,
                                            Says("CHANGE_WITHOUT_CURRENT", "noCurrent")
                                            \union Says("CHANGE_PASSWORD", "keepsChanged")
                                            \union Says("CHANGE_ENDS_SESSIONS", "keepsOthers"))
      BY <1>2, <2>3, <2>14, NextSteps, NextGoes, NextLeaves, ChangeSteps DEF Order, Quiet,
         OwnSessions, LastOfAll, Suites
    <3> QED
      BY <2>3, <2>4, <2>14, <3>1 DEF Granted, When, OwnSessions
  \* The checks between the logout and the change of a password.
  <2>15. CASE at \in OwnSessions \union {"sign_out_on_get_check"}
    <3>1. at' \in OwnSessions \union {"sign_out_on_get_check", "change_password_checks"}
      BY <1>2, <2>15, NextGoes DEF Order, OwnSessions
    <3>2. UNCHANGED <<works, credits>>
      BY <1>2, <2>15, NextSteps, NextLeaves, GetSteps DEF Quiet, OwnSessions, LastOfAll, Suites,
         outcome
    <3> QED
      BY <2>3, <2>4, <2>15, <3>1, <3>2 DEF Granted, When, OwnSessions
  \* What comes after it: nothing is credited, and nothing is taken away.
  <2> DEFINE After == {"reset_checks", "brute_force_check", "settle"} \union LastOfAll
                        \union Suites
  <2>16. CASE at \in After
    <3>1. at' \in After \union {"done"}
      BY <1>2, <2>16, NextGoes DEF Order, LastOfAll, Suites
    <3>2. UNCHANGED <<works, credits>>
      <4>1. at # "settle" => UNCHANGED <<works, credits>>
        BY <1>2, <2>16, NextSteps, NextLeaves, ResetSteps DEF Quiet, OwnSessions, LastOfAll,
           Suites, outcome
      <4>2. at = "settle" => Step(Settle)
        BY <1>2, NextSteps DEF Quiet, OwnSessions, LastOfAll, Suites
      <4>3. at = "settle" => UNCHANGED <<works, credits>>
        BY <2>2, <4>2, SettleSteps DEF Withheld
      <4> QED
        BY <4>1, <4>3
    <3> QED
      BY <2>3, <2>4, <2>16, <3>1, <3>2 DEF Granted, When, OwnSessions, LastOfAll, Suites
  <2> QED
    BY <1>2, <2>5, <2>6, <2>7, <2>8, <2>9, <2>10, <2>11, <2>12, <2>13, <2>14, <2>15, <2>16,
       NextIsOfCheck DEF Checks, Settled
<1> QED
  BY <1>1, <1>2

(* A correct app that answers everything is given every pass its           *)
(* stackvet.toml allows, whichever sections that states: no check takes a  *)
(* session or a password that a later one needs (the order of run_checks). *)
THEOREM CorrectCredited == Spec => []CorrectIsCredited
<1>1. CorrectInv => CorrectIsCredited
  <2> SUFFICES ASSUME CorrectInv, at \in Settled, Correct
               PROVE  credits = {[rule |-> s.rule, fault |-> s.fault] : s \in Deserved}
    BY DEF CorrectIsCredited, Correct
  <2>1. credits = Granted
    BY DEF CorrectInv
  <2>2. "private" \in plan
    BY DEF Correct
  <2> DEFINE Due(rule, fault, needs) == [rule |-> rule, fault |-> fault, needs |-> needs]
             Pass(rule, fault) == [rule |-> rule, fault |-> fault]
  <2>3. \A s : s \in Deserved <=>
            \/ s = Due("PRIVATE_PAGE", "open", "private") /\ "private" \in plan
            \/ s = Due("NO_IDLE_TIMEOUT", "keepsIdle", "slow") /\ "slow" \in plan
            \/ s = Due("NO_SESSION_LIFETIME", "keepsOld", "slow") /\ "slow" \in plan
            \/ s = Due("OTHER_USERS_DATA", "shared", "owned") /\ "owned" \in plan
            \/ s = Due("ADMIN_PAGE", "adminOpen", "admin") /\ "admin" \in plan
            \/ s = Due("SESSION_TOKEN_UNVERIFIED", "anySession", "private") /\ "private" \in plan
            \/ s = Due("STEP_SKIPPED", "skips", "flow") /\ "flow" \in plan
            \/ s = Due("LOGOUT", "keepsLogout", "logout") /\ "logout" \in plan
            \/ s = Due("CHANGE_WITHOUT_CURRENT", "noCurrent", "change") /\ "change" \in plan
            \/ s = Due("CHANGE_PASSWORD", "keepsChanged", "change") /\ "change" \in plan
            \/ s = Due("CHANGE_ENDS_SESSIONS", "keepsOthers", "change") /\ "change" \in plan
    BY DEF Deserved
  <2>4. \A c : c \in Granted <=>
            \/ c = Pass("PRIVATE_PAGE", "open") /\ "private" \in plan
            \/ c = Pass("NO_IDLE_TIMEOUT", "keepsIdle") /\ "slow" \in plan
            \/ c = Pass("NO_SESSION_LIFETIME", "keepsOld") /\ "slow" \in plan
            \/ c = Pass("OTHER_USERS_DATA", "shared") /\ "owned" \in plan
            \/ c = Pass("ADMIN_PAGE", "adminOpen") /\ "admin" \in plan
            \/ c = Pass("SESSION_TOKEN_UNVERIFIED", "anySession") /\ "private" \in plan
            \/ c = Pass("STEP_SKIPPED", "skips") /\ "flow" \in plan
            \/ c = Pass("LOGOUT", "keepsLogout") /\ "logout" \in plan
            \/ c = Pass("CHANGE_WITHOUT_CURRENT", "noCurrent") /\ "change" \in plan
            \/ c = Pass("CHANGE_PASSWORD", "keepsChanged") /\ "change" \in plan
            \/ c = Pass("CHANGE_ENDS_SESSIONS", "keepsOthers") /\ "change" \in plan
    BY <2>2 DEF Granted, When, Says, First, UpTo, BeforeFlows, OwnSessions, Settled, Suites
  <2>5. ASSUME NEW c \in Granted
        PROVE  \E s \in Deserved : c = Pass(s.rule, s.fault)
    <3> DEFINE Earns(s) == s \in Deserved /\ c = Pass(s.rule, s.fault)
    <3>1. \A rule, fault, needs :
            Due(rule, fault, needs) \in Deserved /\ c = Pass(rule, fault)
                => Earns(Due(rule, fault, needs))
      OBVIOUS
    <3>2. \E rule, fault, needs : Due(rule, fault, needs) \in Deserved /\ c = Pass(rule, fault)
      <4> HIDE DEF Due, Pass, Earns
      <4> QED
        BY <2>3, <2>4, <2>5
    <3>3. \E s : Earns(s)
      <4> HIDE DEF Due, Earns
      <4> QED
        BY <3>1, <3>2
    <3> QED
      BY <3>3
  <2>6. ASSUME NEW s \in Deserved PROVE Pass(s.rule, s.fault) \in Granted
    BY <2>3, <2>4, <2>6
  <2> QED
    BY <2>1, <2>5, <2>6
<1> QED
  BY <1>1, InitPrivate, NextPrivate, InitCorrect, NextCorrect, PTL DEF Spec

-----------------------------------------------------------------------------
(* The state is well formed.                                               *)

\* The place in the order of each check that asks, and of the check each request is of.
Rank(c) ==
    CASE c = "private_anonymous" -> 0
      [] c = "sign_in" -> 1
      [] c = "session_timeout_checks" -> 2
      [] c = "sign_in_again" -> 3
      [] c = "owned_checks" -> 4
      [] c = "admin_checks" -> 5
      [] c = "invented_session_check" -> 6
      [] c = "flow_checks" -> 7
      [] c = "logout_check" -> 8
      [] c = "session_id_check" -> 9
      [] c = "sign_out_on_get_check" -> 10
      [] c \in OwnSessions \ {"session_id_check"} -> 11
      [] c = "change_password_checks" -> 12
      [] c = "reset_checks" -> 13
      [] OTHER -> 14

Turn(q) ==
    CASE q \in {"front-anonymous", "private-anonymous"} -> 0
      [] q \in {"login-a", "private-a"} -> 1
      [] q \in TimeoutStart \union TimeoutWaits -> 2
      [] q \in {"login-a-after-wait", "private-a-after-wait"} -> 3
      [] q \in {"owned-create", "owned-a", "login-b", "owned-b"} -> 4
      [] q \in {"login-admin", "admin-a", "admin-admin"} -> 5
      [] q \in {"session-without-sign-in-cookies", "invented-session-control",
                "invented-session"} -> 6
      [] q \in {"flow-a"} \union AllTries -> 7
      [] q \in {"logout", "after-logout"} -> 8
      [] q \in {"login-get-logout", "private-before-get-logout", "logout-by-get",
                "private-after-get-logout"} -> 10
      [] q \in ChangeFirst \union ChangeWrong \union ChangeRight \union ChangeOld -> 12
      [] OTHER -> 13

\* What was written down is of the checks before, so no request is written down twice.
TypeInv ==
    /\ PrivateInv /\ TypeOK
    /\ \A q \in crashed \union limited : Turn(q) < Rank(at)
    /\ at \notin Settled => doubted = {}

LEMMA RankTyped == \A c : Rank(c) \in 0..14
BY DEF Rank

(* Every check that asks comes once, and after all those before it.        *)
LEMMA RankGrows ==
    ASSUME Next, at \in Checks \ {"done"}
    PROVE  /\ Rank(at) <= Rank(at')
           /\ at \notin Quiet \union {"settle"} => Rank(at) < Rank(at')
<1> USE DEF Quiet, OwnSessions, LastOfAll, Suites
<1>1. CASE at \in Quiet \union {"settle"}
  BY <1>1, NextGoes DEF Order, Rank
<1>2. CASE at \in Checks \ (Quiet \union {"settle", "done"})
  BY <1>2, NextGoes DEF Order, Rank, Checks, Settled
<1> QED
  BY <1>1, <1>2

(* A check's own requests are written down once each.                      *)
LEMMA NewTrouble ==
    ASSUME TypeInv, Next, NEW requests, Adds(requests),
           \A q \in requests : Turn(q) = Rank(at),
           at \notin Quiet \union {"settle"}
    PROVE  /\ \A q \in crashed' \union limited' : Turn(q) < Rank(at')
           /\ crashed' \intersect limited' = {}
<1>1. Rank(at) < Rank(at')
  BY RankGrows, NextIsOfCheck DEF TypeInv
<1>2. \A q \in crashed \union limited : Turn(q) < Rank(at)
  BY DEF TypeInv
<1>3. crashed \intersect limited = {}
  BY DEF TypeInv, TypeOK
<1>4. \A q \in crashed' \union limited' : q \in crashed \union limited \/ q \in requests
  BY DEF Adds
<1>5. \A q \in crashed' \union limited' : q \in requests => q \notin crashed \union limited
  BY <1>2, RankTyped
<1>6. crashed' \intersect limited' = {}
  BY <1>3, <1>4, <1>5 DEF Adds
<1>7. ASSUME NEW q \in crashed' \union limited' PROVE Turn(q) < Rank(at')
  <2>1. CASE q \in requests
    BY <1>1, <2>1
  <2>2. CASE q \in crashed \union limited /\ q \notin requests
    <3>1. Turn(q) < Rank(at) /\ Turn(q) \in 0..14
      BY <1>2, <2>2 DEF Turn
    <3> QED
      BY <1>1, <3>1, RankTyped
  <2> QED
    BY <1>4, <2>1, <2>2
<1> QED
  BY <1>6, <1>7

(* What a check of those that ask adds, and writes down.                   *)
LEMMA NextTrouble ==
    ASSUME TypeInv, Next, at \notin Quiet \union {"settle"}
    PROVE  \E requests : Adds(requests) /\ \A q \in requests : Turn(q) = Rank(at)
<1> USE DEF Turn, Rank, TypeInv, TimeoutStart, TimeoutWaits, AllTries, ChangeFirst, ChangeWrong,
        ChangeRight, ChangeOld, ResetFirst, ResetUsed, ResetOld, OwnSessions
<1>1. CASE at \in {"private_anonymous", "sign_in", "session_timeout_checks", "sign_in_again"}
  BY <1>1, NextSteps, PrivateSteps, FirstSteps, TimeoutSteps, AgainSteps
<1>2. CASE at \in {"owned_checks", "admin_checks", "invented_session_check"}
  BY <1>2, NextSteps, OwnedSteps, AdminSteps, InventedSteps
<1>3. CASE at \in {"flow_checks", "logout_check", "sign_out_on_get_check"}
  BY <1>3, NextSteps, FlowSteps, LogoutSteps, GetSteps
<1>4. CASE at = "change_password_checks"
  BY <1>4, NextSteps, ChangeSteps
<1>5. CASE at = "reset_checks"
  BY <1>5, NextSteps, ResetSteps
<1> QED
  BY <1>1, <1>2, <1>3, <1>4, <1>5, NextSteps

LEMMA NextSound ==
    ASSUME TypeInv, Next, at \notin Quiet \union {"settle"}
    PROVE  Sound
BY NextSteps, PrivateSteps, FirstSteps, TimeoutSteps, AgainSteps, OwnedSteps, AdminSteps,
   InventedSteps, FlowSteps, LogoutSteps, GetSteps, ChangeSteps, ResetSteps DEF TypeInv

LEMMA InitTyped == Init => TypeInv
<1> SUFFICES ASSUME Init PROVE TypeInv
  OBVIOUS
<1>1. PrivateInv
  BY InitPrivate
<1>2. app \subseteq Traits /\ plan \subseteq Sections
  BY WorldsAssumption DEF Init
<1>3. valid \in [User -> SUBSET Password] /\ at \in Checks
  BY <1>1 DEF PrivateInv, PasswordsInv
<1>4. main \in Session
  BY DEF Init, Session, User
<1>5. judged \in BOOLEAN
  BY DEF Init
<1> QED
  BY <1>1, <1>2, <1>3, <1>4, <1>5 DEF Init, TypeInv, TypeOK

LEMMA NextTyped == TypeInv /\ [Next]_vars => TypeInv'
<1> SUFFICES ASSUME TypeInv, [Next]_vars PROVE TypeInv'
  OBVIOUS
<1>1. PrivateInv'
  BY NextPrivate DEF TypeInv
<1>2. CASE UNCHANGED vars
  BY <1>1, <1>2 DEF vars, script, outcome, world, TypeInv, TypeOK
<1>3. CASE Next
  <2>1. UNCHANGED world /\ at \in Checks \ {"done"}
    BY <1>3, NextLeaves, NextIsOfCheck DEF TypeInv
  <2>2. valid' \in [User -> SUBSET Password] /\ at' \in Checks
    BY <1>1 DEF PrivateInv, PasswordsInv
  <2>3. judged' \in BOOLEAN
    <3>1. CASE PrivateAnonymous
      BY <3>1 DEF PrivateAnonymous
    <3>2. CASE ~PrivateAnonymous
      <4>1. at # "private_anonymous"
        BY <1>3, <3>2, NextSteps DEF TypeInv, Step, Quiet, OwnSessions, LastOfAll, Suites
      <4> QED
        BY <1>3, <4>1, NextLeaves DEF TypeInv, TypeOK
    <3> QED
      BY <3>1, <3>2
  <2>4. works' \in BOOLEAN
    <3>1. CASE SignInA
      BY <3>1 DEF SignInA
    <3>2. CASE ~SignInA
      <4>1. at # "sign_in"
        BY <1>3, <3>2, NextSteps DEF TypeInv, Step, Quiet, OwnSessions, LastOfAll, Suites
      <4> QED
        BY <1>3, <4>1, NextLeaves DEF TypeInv, TypeOK
    <3> QED
      BY <3>1, <3>2
  <2>5. readBack' \in BOOLEAN
    <3>1. CASE OwnedChecks
      BY <3>1 DEF OwnedChecks, NotAsked, TypeInv, TypeOK
    <3>2. CASE ~OwnedChecks
      <4>1. at # "owned_checks"
        BY <1>3, <3>2, NextSteps DEF TypeInv, Step, Quiet, OwnSessions, LastOfAll, Suites
      <4> QED
        BY <1>3, <4>1, NextLeaves DEF TypeInv, TypeOK
    <3> QED
      BY <3>1, <3>2
  <2>6. refusing' \in BOOLEAN
    <3>1. CASE BruteForceCheck
      BY <3>1 DEF BruteForceCheck
    <3>2. CASE ~BruteForceCheck
      <4>1. UNCHANGED refusing
        BY <1>3, <3>2 DEF Next, PrivateAnonymous, SignInA, SessionTimeoutChecks, SignInAgain,
           OwnedChecks, AdminChecks, InventedSessionCheck, FlowChecks, LogoutCheck, SignsInAfresh,
           SignOutOnGetCheck, ChangePasswordChecks, ResetChecks, Settle, NotAsked, Unmoved
      <4> QED
        BY <4>1 DEF TypeInv, TypeOK
    <3> QED
      BY <3>1, <3>2
  <2>7. main' \in Session
    <3>1. CASE at = "sign_in_again"
      <4>1. main' = <<"A", "a-after-wait">>
        BY <1>3, <3>1, NextSteps, AgainSteps
           DEF TypeInv, Step, Quiet, OwnSessions, LastOfAll, Suites
      <4> QED
        BY <4>1 DEF Session, User
    <3>2. CASE at # "sign_in_again"
      BY <1>3, <3>2, NextLeaves DEF TypeInv, TypeOK
    <3> QED
      BY <3>1, <3>2
  <2>8. CASE at \in Quiet
    <3>1. UNCHANGED <<credits, findings, crashed, limited>>
      BY <1>3, <2>8, NextLeaves DEF outcome, Quiet
    <3>2. UNCHANGED doubted
      BY <1>3, <2>8, NextLeaves DEF Quiet, OwnSessions, LastOfAll, Suites
    <3>3. alive' \subseteq alive \union (User \X {at})
      <4>1. Fresh(at) \subseteq User
        BY DEF Fresh, User
      <4>2. CASE SignsInAfresh
        BY <4>1, <4>2 DEF SignsInAfresh
      <4>3. CASE BruteForceCheck
        BY <4>3 DEF BruteForceCheck
      <4> QED
        BY <1>3, <2>8, <4>2, <4>3 DEF Next, Quiet, OwnSessions, LastOfAll, Suites,
           PrivateAnonymous, SignInA, SessionTimeoutChecks, SignInAgain, OwnedChecks, AdminChecks,
           InventedSessionCheck, FlowChecks, LogoutCheck, SignOutOnGetCheck,
           ChangePasswordChecks, ResetChecks, Settle
    <3>4. alive' \subseteq Session
      BY <2>1, <3>3 DEF Session, TypeInv, TypeOK
    <3>5. Rank(at) <= Rank(at')
      BY <1>3, <2>1, RankGrows
    <3>6. \A q \in crashed' \union limited' : Turn(q) < Rank(at')
      <4>1. \A q : Turn(q) \in 0..14
        BY DEF Turn
      <4>2. \A q \in crashed' \union limited' : Turn(q) < Rank(at)
        BY <3>1 DEF TypeInv
      <4> QED
        BY <3>5, <4>1, <4>2, RankTyped
    <3>7. at' \notin Settled => at \notin Settled
      BY <1>3, <2>8, NextGoes DEF Quiet, Order, OwnSessions, LastOfAll, Settled, Suites
    <3> QED
      BY <1>1, <2>1, <2>2, <2>3, <2>4, <2>5, <2>6, <2>7, <3>1, <3>2, <3>4, <3>6, <3>7
         DEF TypeInv, TypeOK, world
  <2>9. CASE at = "settle"
    <3>1. Settle
      BY <1>3, <2>9, NextSteps DEF TypeInv, Step, Quiet, OwnSessions, LastOfAll, Suites
    <3>2. /\ UNCHANGED <<alive, crashed, limited>>
          /\ credits' \subseteq credits /\ findings' \subseteq findings
          /\ doubted' \subseteq findings' /\ at' = "oidc"
      BY <2>9, <3>1 DEF Settle, Withhold, Goto, Order
    <3>3. \A q \in crashed' \union limited' : Turn(q) < Rank(at')
      BY <2>9, <3>2 DEF TypeInv, Rank, OwnSessions
    <3> QED
      BY <1>1, <2>1, <2>2, <2>3, <2>4, <2>5, <2>6, <2>7, <3>2, <3>3
         DEF TypeInv, TypeOK, world, Settled, Suites
  <2>10. CASE at \notin Quiet \union {"settle"}
    <3>1. Sound
      BY <1>3, <2>10, NextSound
    <3>2. /\ \A q \in crashed' \union limited' : Turn(q) < Rank(at')
          /\ crashed' \intersect limited' = {}
      BY <1>3, <2>10, NextTrouble, NewTrouble
    <3>3. UNCHANGED doubted
      BY <1>3, <2>10, NextLeaves
    <3>4. at \notin Settled
      BY <2>1, <2>10 DEF Settled, Quiet
    <3>5. doubted' = {}
      BY <3>3, <3>4 DEF TypeInv
    <3>6. \A s \in credits' \union findings' :
              s.rule \in Rule /\ s.fault \in Traits \union {"skips"}
      BY <3>1 DEF Sound, Worded, TypeInv, TypeOK
    <3>7. alive' \subseteq Session
      BY <3>1 DEF Sound, TypeInv, TypeOK
    <3> QED
      BY <1>1, <2>1, <2>2, <2>3, <2>4, <2>5, <2>6, <2>7, <3>2, <3>5, <3>6, <3>7
         DEF TypeInv, TypeOK, world
  <2> QED
    BY <2>8, <2>9, <2>10
<1> QED
  BY <1>2, <1>3

(* The state of the checks is well formed: no request is written down both *)
(* as crashed and as limited (Patient keeps one answer for each), sessions *)
(* are the two test users', and nothing is in doubt that was not found.    *)
THEOREM SignedTyped == Spec => []TypeOK
<1>1. TypeInv => TypeOK
  BY DEF TypeInv
<1> QED
  BY <1>1, InitTyped, NextTyped, PTL DEF Spec
=============================================================================
