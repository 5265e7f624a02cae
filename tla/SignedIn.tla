------------------------------ MODULE SignedIn ------------------------------
(***************************************************************************)
(* The signed-in checks of a run (run_checks of signed_in/mod.rs): one     *)
(* after another, through one way to the app, sharing two test users whose *)
(* sessions and passwords each check uses up, changes or ends; then what   *)
(* the rate limiter and the crashes left is settled (Patient::settle), and *)
(* the suites after it ask as the same users (script.rs).                  *)
(*                                                                         *)
(* A check is one action: nothing else runs while it asks.  The app under  *)
(* test is the environment: the set of its traits is fixed at the start,   *)
(* and any request may meet a crash, silence or the limiter.  Modelled are *)
(* the checks that credit or find by what a session or a password of A or  *)
(* B is refused, each with the one page, record or flow it asks by; the    *)
(* others appear by the sign-ins they make.                                *)
(***************************************************************************)
EXTENDS Naturals, FiniteSets, FiniteSetsExt

CONSTANTS
    Worlds,      \* the apps tried, each with what its stackvet.toml declares
    MaxTroubled  \* bound: requests of one run that crash, fall silent or stay limited

(* What an app does otherwise than a correct one: faults, and three habits *)
(* that are none ("shell": the private page is served to anybody, with the *)
(* front page's body; "single": one session per user; "byAddress": its     *)
(* limit on wrong passwords then refuses everybody).  "noA" and "noB": the *)
(* test user's stated password never worked (neither seed nor sign-up made *)
(* it).  "skipsAll" ends the flow at the last step whatever was done       *)
(* before it; "skipsOne" leaves out the middle, and sees a wrong order.    *)
Traits == {"open", "shell", "single", "byAddress", "noA", "noB", "keepsIdle", "keepsOld",
           "shared", "adminOpen", "anySession", "skipsAll", "skipsOne", "keepsLogout",
           "getLogout", "noCurrent", "noChange", "keepsChanged", "keepsOthers",
           "noReset", "keepsReset"}

\* "slow" stands for --slow with both of the owner's timeouts stated, "middle" for a flow of
\* more than two steps.
Sections == {"private", "signup", "slow", "owned", "admin", "flow", "middle", "logout", "change",
             "reset", "guesses", "fetch", "ai"}

ASSUME WorldsAssumption == Worlds \subseteq [app : SUBSET Traits, plan : SUBSET Sections]
ASSUME TroubledAssumption == MaxTroubled \in Nat

VARIABLES
    at,        \* the check to run next
    app,       \* the traits of the app under test
    plan,      \* the sections of its stackvet.toml, and --slow
    alive,     \* the sessions the app knows, as <<user, sign-in>>
    valid,     \* the passwords the app takes for each test user
    main,      \* the session of A's that the checks share (run_checks' `a`)
    judged,    \* a private page is stated, and was not set aside (run_checks' `judged`)
    works,     \* signed_in_works: that session opened the private page
    readBack,  \* owned_read: A read back a record of A's
    crashed,   \* Patient's crashed: requests answered 5xx or not at all
    limited,   \* Patient's still_limited
    credits,   \* out.verified: each rule with the fault it says the app has not
    findings,  \* out.findings: each rule with the fault it says the app has
    doubted,   \* findings named in settle_limited's note
    refusing   \* the app's limit on wrong passwords refuses everybody

script == <<at, alive, valid, main, judged, works, readBack>>
outcome == <<credits, findings, doubted>>
world == <<app, plan>>
vars == <<script, outcome, world, crashed, limited, refusing>>

User == {"A", "B"}
NeverMade(user) == IF user = "A" THEN "noA" ELSE "noB"
Password == {"stated", "first", "second"}
Kind == {"app", "crash", "silent", "limited"}

-----------------------------------------------------------------------------
(* The order of the checks, and of the suites after them. *)

\* The check after c.
Order(c) ==
    CASE c = "private_anonymous" -> "sign_in"
      [] c = "sign_in" -> "session_timeout_checks"
      [] c = "session_timeout_checks" -> "owned_checks"
      [] c = "sign_in_again" -> "owned_checks"
      [] c = "owned_checks" -> "admin_checks"
      [] c = "admin_checks" -> "invented_session_check"
      [] c = "invented_session_check" -> "flow_checks"
      [] c = "flow_checks" -> "logout_check"
      [] c = "logout_check" -> "session_id_check"
      [] c = "session_id_check" -> "sign_out_on_get_check"
      [] c = "sign_out_on_get_check" -> "websocket_session_checks"
      [] c = "websocket_session_checks" -> "admin_action_checks"
      [] c = "admin_action_checks" -> "once_check"
      [] c = "once_check" -> "burst_check"
      [] c = "burst_check" -> "archive_checks"
      [] c = "archive_checks" -> "change_password_checks"
      [] c = "change_password_checks" -> "reset_checks"
      [] c = "reset_checks" -> "brute_force_check"
      [] c = "brute_force_check" -> "email_code_guessing"
      [] c = "email_code_guessing" -> "signin_reveals_account_check"
      [] c = "signin_reveals_account_check" -> "settle"
      [] c = "settle" -> "oidc"
      [] c = "oidc" -> "mcp_server"
      [] c = "mcp_server" -> "fetch"
      [] c = "fetch" -> "ai"
      [] OTHER -> "done"

\* Checks that sign A or B in afresh, with the stated password, and ask with that session.
Fresh(c) ==
    CASE c \in {"session_id_check", "websocket_session_checks", "admin_action_checks",
                "archive_checks"} -> {"A"}
      [] c = "once_check" -> {"A", "B"}
      [] c = "burst_check" -> {"B"}
      [] c = "fetch" /\ "fetch" \in plan -> {"B"}
      [] c = "ai" /\ "ai" \in plan -> {"A", "B"}
      [] OTHER -> {}

OwnSessions == {"session_id_check", "websocket_session_checks", "admin_action_checks",
                "once_check", "burst_check", "archive_checks"}
LastOfAll == {"email_code_guessing", "signin_reveals_account_check"}
Suites == {"oidc", "mcp_server", "fetch", "ai"}
Settled == Suites \union {"done"}
Checks == {"private_anonymous", "sign_in", "session_timeout_checks", "sign_in_again",
           "owned_checks", "admin_checks", "invented_session_check", "flow_checks",
           "logout_check", "sign_out_on_get_check", "change_password_checks", "reset_checks",
           "brute_force_check", "settle"} \union OwnSessions \union LastOfAll \union Settled

\* Mutant: the guesses run before the checks that change passwords.
GuessesEarly(c) ==
    at' = CASE c = "archive_checks" -> "brute_force_check"
            [] c = "brute_force_check" -> "change_password_checks"
            [] c = "reset_checks" -> "email_code_guessing"
            [] OTHER -> Order(c)

\* Mutant: the checks that change passwords run before those that sign A and B in afresh.
PasswordsEarly(c) ==
    at' = CASE c = "logout_check" -> "change_password_checks"
            [] c = "reset_checks" -> "session_id_check"
            [] c = "archive_checks" -> "brute_force_check"
            [] OTHER -> Order(c)

Goto(c) == at' = Order(c)

-----------------------------------------------------------------------------
(* Asking.  Each request of a check is given how it is answered: by the    *)
(* app; by a crash, nothing done; by silence, the thing done; or by the    *)
(* rate limiter, still, after the wait.  A check may note a request that a *)
(* refused step before it left unsent: that withholds more, never less.    *)

Answers(requests) ==
    LET left == MaxTroubled - Cardinality(crashed \union limited)
    IN  {[q \in requests |-> IF q \in DOMAIN t THEN t[q] ELSE "app"] :
            t \in UNION {[T -> Kind \ {"app"}] :
                            T \in UNION {kSubset(k, requests) : k \in 0..left}}}

\* Mutant: silence is not written down as a crash.
NoteCrashesOnly(how, sent) ==
    /\ crashed' = crashed \union {q \in sent : how[q] = "crash"}
    /\ limited' = limited \union {q \in sent : how[q] = "limited"}

\* Patient writes down what the requests sent met.
Note(how, sent) ==
    /\ crashed' = crashed \union {q \in sent : how[q] \in {"crash", "silent"}}
    /\ limited' = limited \union {q \in sent : how[q] = "limited"}

\* The request reached the app and was acted on.
Done(kind) == kind \in {"app", "silent"}

\* The sessions the app knows after `session` was asked for with the stated password.
SignIn(known, session, kind) ==
    IF Done(kind) /\ "stated" \in valid[session[1]]
    THEN {s \in known : ~("single" \in app /\ s[1] = session[1])} \union {session}
    ELSE known

\* The private page is served to anybody.
Public == app \intersect {"open", "shell"} # {}

\* Whether `session` is shown the private page.
Opens(known, session, kind) == kind = "app" /\ (session \in known \/ Public)

\* confirm: the private page, once it is known to open for a signed-in user alone.
Confirm == works

Says(rule, fault) == {[rule |-> rule, fault |-> fault]}
Credits(new) == credits' = credits \union new
Finds(new) == findings' = findings \union new
\* `new` when the condition holds, and nothing otherwise.
When(condition, new) == IF condition THEN new ELSE {}

Init ==
    /\ \E w \in Worlds : app = w.app /\ plan = w.plan
    /\ at = "private_anonymous"
    /\ alive = {}
    /\ valid = [u \in User |-> IF NeverMade(u) \in app THEN {} ELSE {"stated"}]
    /\ main = <<"A", "a">>
    /\ judged = ("private" \in plan)
    /\ works = FALSE
    /\ readBack = FALSE
    /\ crashed = {}
    /\ limited = {}
    /\ credits = {}
    /\ findings = {}
    /\ doubted = {}
    /\ refusing = FALSE

\* What a check that only reads leaves alone.
Unmoved == UNCHANGED <<world, alive, valid, main, judged, works, readBack, doubted, refusing>>

\* A check that says the thing is not assessed, and asks nothing.
NotAsked ==
    UNCHANGED <<world, outcome, alive, valid, main, judged, works, readBack, crashed, limited,
                refusing>>

-----------------------------------------------------------------------------
(* The checks, in the order of run_checks. *)

\* A private page served to a stranger, and not as the app's page shell.
ServedAnonymously == [rule |-> "PRIVATE_PAGE", fault |-> "open"] \in findings

\* The page shell is known by two answers: the page, and the front page with the same body.
PrivateAnonymous ==
    /\ at = "private_anonymous"
    /\ Goto(at)
    /\ LET asked == {"front-anonymous"} \union When("private" \in plan, {"private-anonymous"})
       IN  \E how \in Answers(asked) :
            LET served == "private" \in plan /\ Public /\ how["private-anonymous"] = "app"
                shell == served /\ "shell" \in app /\ how["front-anonymous"] = "app"
            IN  /\ Note(how, asked)
                /\ judged' = (judged /\ ~shell)
                /\ Finds(When(served /\ ~shell, Says("PRIVATE_PAGE", "open")))
    /\ UNCHANGED <<world, credits, alive, valid, main, works, readBack, doubted, refusing>>

\* The first sign-in may be built on: it is shown to work, or there was nothing to show it by.
MayGoOn == works' \/ ~judged \/ ServedAnonymously

SignInA ==
    /\ at = "sign_in"
    /\ \E how \in Answers({"login-a", "private-a"}) :
        LET known == SignIn(alive, main, how["login-a"])
        IN  /\ alive' = known
            /\ works' = (/\ how["login-a"] # "silent"
                         /\ judged
                         /\ Opens(known, main, how["private-a"])
                         /\ ~ServedAnonymously)
            /\ Note(how, IF how["login-a"] # "silent" /\ judged THEN {"login-a", "private-a"}
                         ELSE {"login-a"})
            /\ IF how["login-a"] # "silent" /\ MayGoOn THEN Goto(at) ELSE at' = "settle"
            /\ Credits(When(works', Says("PRIVATE_PAGE", "open")))
    /\ UNCHANGED <<world, valid, main, judged, readBack, findings, doubted, refusing>>

\* The two sessions of its own that session_timeout_checks opens, and its requests.
Left == <<"A", "idle">>
Busy == <<"A", "busy">>
TimeoutStart == {"login-idle", "login-busy", "timeout-idle-start", "timeout-busy-start"}
TimeoutWaits == {"timeout-idle-after", "timeout-busy-after-idle", "timeout-busy-after-lifetime",
                 "login-after-lifetime", "timeout-fresh-after-lifetime"}

\* Mutant: the run goes on with the session that sat unused through the wait.
AfterTheWait == "owned_checks"

\* Where a caller that waited goes: A signs in again first.
Waited == "sign_in_again"

SessionTimeoutChecks ==
    /\ at = "session_timeout_checks"
    /\ IF ~("slow" \in plan /\ Confirm)
       THEN Goto(at) /\ NotAsked
       ELSE \E how \in Answers(TimeoutStart \union TimeoutWaits) :
        LET first == SignIn(alive, Left, how["login-idle"])
            both  == SignIn(first, Busy, how["login-busy"])
            begun == /\ how["login-idle"] # "silent" /\ how["login-busy"] # "silent"
                     /\ Opens(both, Left, how["timeout-idle-start"])
                     /\ Opens(both, Busy, how["timeout-busy-start"])
            idled == IF "keepsIdle" \in app THEN both ELSE both \intersect {Busy}
            leftOpen == Opens(idled, Left, how["timeout-idle-after"])
            busyOpen == Opens(idled, Busy, how["timeout-busy-after-idle"])
            aged  == IF "keepsOld" \in app THEN idled ELSE {}
            oldOpen == Opens(aged, Busy, how["timeout-busy-after-lifetime"])
            again == SignIn(aged, <<"A", "after-lifetime">>, how["login-after-lifetime"])
            fresh == /\ how["login-after-lifetime"] # "silent"
                     /\ Opens(again, <<"A", "after-lifetime">>,
                              how["timeout-fresh-after-lifetime"])
        IN  IF ~begun
            THEN /\ Goto(at)
                 /\ alive' = both
                 /\ Note(how, TimeoutStart)
                 /\ UNCHANGED outcome
                 /\ UNCHANGED <<world, valid, main, judged, works, readBack, refusing>>
            ELSE /\ at' = Waited
                 /\ alive' = again
                 /\ Note(how, TimeoutStart \union TimeoutWaits)
                 /\ Finds(When(leftOpen, Says("NO_IDLE_TIMEOUT", "keepsIdle"))
                          \union When(oldOpen, Says("NO_SESSION_LIFETIME", "keepsOld")))
                 /\ Credits(When(~leftOpen /\ busyOpen, Says("NO_IDLE_TIMEOUT", "keepsIdle"))
                            \union When(~oldOpen /\ fresh,
                                        Says("NO_SESSION_LIFETIME", "keepsOld")))
                 /\ UNCHANGED <<world, valid, main, judged, works, readBack, doubted, refusing>>

SignInAgain ==
    /\ at = "sign_in_again"
    /\ \E how \in Answers({"login-a-after-wait", "private-a-after-wait"}) :
        LET session == <<"A", "a-after-wait">>
            known == SignIn(alive, session, how["login-a-after-wait"])
            shown == /\ how["login-a-after-wait"] # "silent"
                     /\ Opens(known, session, how["private-a-after-wait"])
        IN  /\ alive' = known
            /\ main' = session
            /\ IF shown THEN Goto(at) ELSE at' = "settle"
            /\ Note(how, {"login-a-after-wait", "private-a-after-wait"})
    /\ UNCHANGED <<world, outcome, valid, judged, works, readBack, refusing>>

\* The record A makes, read as B.  Left out are the rest of what is asked of it: as nobody
\* (owned-anonymous), in the lists B opens (owned-b-list), and changed or deleted by B.
OwnedChecks ==
    /\ at = "owned_checks"
    /\ Goto(at)
    /\ IF "owned" \notin plan
       THEN NotAsked
       ELSE \E how \in Answers({"owned-create", "owned-a", "login-b", "owned-b"}) :
        LET session == <<"B", "b">>
            read == main \in alive /\ how["owned-create"] = "app" /\ how["owned-a"] = "app"
            known == IF read THEN SignIn(alive, session, how["login-b"]) ELSE alive
            leaked == /\ how["login-b"] # "silent"
                      /\ session \in known /\ "shared" \in app /\ how["owned-b"] = "app"
        IN  /\ alive' = known
            /\ readBack' = read
            /\ Note(how, {"owned-create", "owned-a"}
                         \union When(read, {"login-b"})
                         \union When(read /\ how["login-b"] # "silent", {"owned-b"}))
            /\ Finds(When(read /\ leaked, Says("OTHER_USERS_DATA", "shared")))
            /\ Credits(When(read /\ ~leaked /\ how["login-b"] # "silent",
                            Says("OTHER_USERS_DATA", "shared")))
            /\ UNCHANGED <<world, valid, main, judged, works, doubted, refusing>>

AdminChecks ==
    /\ at = "admin_checks"
    /\ Goto(at)
    /\ IF "admin" \notin plan
       THEN NotAsked
       ELSE \E how \in Answers({"login-admin", "admin-a", "admin-admin"}) :
        LET ordinary == main \in alive /\ "adminOpen" \in app /\ how["admin-a"] = "app"
            admin == how["login-admin"] = "app" /\ how["admin-admin"] = "app"
        IN  /\ Note(how, {"login-admin", "admin-a"}
                         \union When(how["login-admin"] # "silent", {"admin-admin"}))
            /\ Finds(When(ordinary, Says("ADMIN_PAGE", "adminOpen")))
            /\ Credits(When(~ordinary /\ admin, Says("ADMIN_PAGE", "adminOpen")))
            /\ Unmoved

\* Whether the cookies set at sign-in carry the session (`carried`) was asked after the record
\* was read: nothing between touches A's session, so it is asked here.  The session is taken to
\* be a cookie, with no token beside it.
InventedSessionCheck ==
    /\ at = "invented_session_check"
    /\ Goto(at)
    /\ IF ~Confirm
       THEN NotAsked
       ELSE \E how \in Answers({"session-without-sign-in-cookies", "invented-session-control",
                                "invented-session"}) :
        LET carried == how["session-without-sign-in-cookies"] = "app" /\ ~Public
            control == Opens(alive, main, how["invented-session-control"])
            opened == /\ how["invented-session"] = "app"
                      /\ Public \/ "anySession" \in app
        IN  /\ Note(how, {"session-without-sign-in-cookies", "invented-session-control"}
                         \union When(control, {"invented-session"}))
            /\ Finds(When(control /\ opened /\ carried,
                          Says("SESSION_TOKEN_UNVERIFIED", "anySession")))
            /\ Credits(When(control /\ ~opened, Says("SESSION_TOKEN_UNVERIFIED", "anySession")))
            /\ Unmoved

(* The flow gone through by A, then out of order by B, signed in afresh    *)
(* for each try: straight to the last step; and, in a flow with a middle,  *)
(* the middle first, the first step over and over, and the first step and  *)
(* then the last.  The steps of a try are one request.                     *)
Tries == IF "middle" \in plan THEN 1..4 ELSE {1}
TryLogin == <<"login-flow-b0", "login-flow-b1", "login-flow-b2", "login-flow-b3">>
TryFlow == <<"flow-flow-b0", "flow-flow-b1", "flow-flow-b2", "flow-flow-b3">>
FlowTries == {TryLogin[i] : i \in Tries} \union {TryFlow[i] : i \in Tries}

FlowChecks ==
    /\ at = "flow_checks"
    /\ Goto(at)
    /\ IF "flow" \notin plan
       THEN NotAsked
       ELSE \E how \in Answers({"flow-a"} \union FlowTries) :
        LET finished == main \in alive /\ how["flow-a"] = "app"
            \* The check ends at a sign-in that gets no answer.
            tried == \A i \in Tries : how[TryLogin[i]] # "silent"
            reached == {i \in Tries : \A j \in Tries : j < i => how[TryLogin[j]] # "silent"}
            signed == {i \in reached : Done(how[TryLogin[i]]) /\ "stated" \in valid["B"]}
            ended == {i \in signed : "single" \in app /\ \E j \in signed : i < j}
            skipped == \E i \in signed :
                            /\ how[TryFlow[i]] = "app"
                            /\ "skipsAll" \in app \/ ("skipsOne" \in app /\ i = 4)
        IN  /\ alive' = IF finished
                        THEN {s \in alive : ~("single" \in app /\ s[1] = "B" /\ signed # {})}
                             \union {<<"B", TryLogin[i]>> : i \in signed \ ended}
                        ELSE alive
            /\ Note(how, {"flow-a"} \union When(finished, FlowTries))
            /\ Finds(When(finished /\ tried /\ skipped, Says("STEP_SKIPPED", "skips")))
            /\ Credits(When(finished /\ tried /\ ~skipped, Says("STEP_SKIPPED", "skips")))
            /\ UNCHANGED <<world, valid, main, judged, works, readBack, doubted, refusing>>

LogoutCheck ==
    /\ at = "logout_check"
    /\ Goto(at)
    /\ IF ~("logout" \in plan /\ (Confirm \/ readBack))
       THEN NotAsked
       ELSE \E how \in Answers({"logout", "after-logout"}) :
        LET known == IF Done(how["logout"]) /\ "keepsLogout" \notin app
                     THEN alive \ {main} ELSE alive
            accepted == how["logout"] = "app"
            \* The session from before, at the private page, or else at the record.
            replayed == \/ Confirm /\ Opens(known, main, how["after-logout"])
                        \/ main \in known /\ how["after-logout"] = "app"
        IN  /\ alive' = known
            /\ Note(how, {"logout"} \union When(accepted, {"after-logout"}))
            /\ Finds(When(accepted /\ replayed, Says("LOGOUT", "keepsLogout")))
            /\ Credits(When(accepted /\ ~replayed, Says("LOGOUT", "keepsLogout")))
            /\ UNCHANGED <<world, valid, main, judged, works, readBack, doubted, refusing>>

\* A check or suite modelled by its sign-ins alone.
SignsInAfresh ==
    /\ at \in OwnSessions \union LastOfAll \union Suites
    /\ Goto(at)
    /\ alive' = {s \in alive : ~("single" \in app /\ s[1] \in Fresh(at))}
                \union {<<u, at>> : u \in {v \in Fresh(at) : "stated" \in valid[v]}}
    /\ UNCHANGED <<world, outcome, valid, main, judged, works, readBack, crashed, limited,
                   refusing>>

SignOutOnGetCheck ==
    /\ at = "sign_out_on_get_check"
    /\ Goto(at)
    /\ IF ~("logout" \in plan /\ Confirm)
       THEN NotAsked
       ELSE \E how \in Answers({"login-get-logout", "private-before-get-logout",
                                "logout-by-get", "private-after-get-logout"}) :
        LET session == <<"A", "get-logout">>
            known == SignIn(alive, session, how["login-get-logout"])
            begun == /\ how["login-get-logout"] # "silent"
                     /\ Opens(known, session, how["private-before-get-logout"])
            left  == IF begun /\ Done(how["logout-by-get"]) /\ "getLogout" \in app
                     THEN known \ {session} ELSE known
            ended == ~Opens(left, session, how["private-after-get-logout"])
        IN  /\ alive' = left
            /\ Note(how, {"login-get-logout"}
                    \union When(how["login-get-logout"] # "silent", {"private-before-get-logout"})
                    \union When(begun, {"logout-by-get", "private-after-get-logout"}))
            /\ Finds(When(begun /\ ended, Says("SIGN_OUT_ON_GET", "getLogout")))
            /\ UNCHANGED <<world, credits, valid, main, judged, works, readBack, doubted, refusing>>

-----------------------------------------------------------------------------
(* The checks that change a password: an account made for it when the app  *)
(* has a sign-up, a test user's own when it has none.                      *)

\* The passwords the app takes for the account a check is given, and after it.
PasswordsOf(user) == IF "signup" \in plan THEN {"stated"} ELSE valid[user]
Leaves(user, taken) ==
    valid' = IF "signup" \in plan THEN valid ELSE [valid EXCEPT ![user] = taken]

\* account_works: a sign-in with this password was answered, and the private page then opens, for
\* the account, or for anybody.
AccountWorks(taken, password, login, private) ==
    /\ login # "silent"
    /\ private = "app"
    /\ Public \/ (login = "app" /\ password \in taken)

\* What the account takes once `new` was set: alone, or beside what it took.
Set(taken, new, keeps) == IF keeps \in app THEN taken \union {new} ELSE {new}

ChangeFirst == {"login-change", "private-change"}
ChangeWrong == {"login-wrong-current", "change-password-wrong-current", "login-changed",
                "private-changed"}
ChangeRight == {"login-bystander", "login-right-current", "bystander-before",
                "change-password-right-current", "bystander-after", "login-changed-2",
                "private-changed-2"}
ChangeOld == {"login-old", "private-old"}

ChangePasswordChecks ==
    /\ at = "change_password_checks"
    /\ Goto(at)
    /\ IF ~("change" \in plan /\ Confirm)
       THEN NotAsked
       ELSE \E how \in Answers(ChangeFirst \union ChangeWrong \union ChangeRight \union ChangeOld) :
        LET before == PasswordsOf("A")
            begun == AccountWorks(before, "stated", how["login-change"], how["private-change"])
            \* A change giving a wrong current password.
            slipped == /\ "noCurrent" \in app /\ "noChange" \notin app
                       /\ how["login-wrong-current"] = "app" /\ "stated" \in before
                       /\ Done(how["change-password-wrong-current"])
            between == IF slipped THEN Set(before, "first", "keepsChanged") ELSE before
            seen == AccountWorks(between, "first", how["login-changed"], how["private-changed"])
            \* The change that should take, with a second session open beside it.
            signed == how["login-right-current"] = "app" /\ "stated" \in between
            beside == /\ how["login-bystander"] = "app" /\ "stated" \in between
                      /\ ~("single" \in app /\ signed)
            openBefore == /\ "silent" \notin {how["login-bystander"], how["login-right-current"]}
                          /\ how["bystander-before"] = "app"
                          /\ Public \/ beside
            took == /\ signed /\ "noChange" \notin app
                    /\ Done(how["change-password-right-current"])
            after == IF took THEN Set(between, "second", "keepsChanged") ELSE between
            openAfter == /\ how["bystander-after"] = "app"
                         /\ Public \/ (beside /\ (took => "keepsOthers" \in app))
            anew == AccountWorks(after, "second", how["login-changed-2"],
                                 how["private-changed-2"])
            old == AccountWorks(after, "stated", how["login-old"], how["private-old"])
        IN  /\ Leaves("A", IF ~begun THEN before ELSE IF seen THEN between ELSE after)
            /\ Note(how, ChangeFirst \union When(begun, ChangeWrong)
                         \union When(begun /\ ~seen, ChangeRight)
                         \union When(begun /\ ~seen /\ anew, ChangeOld))
            /\ Finds(When(begun /\ seen, Says("CHANGE_WITHOUT_CURRENT", "noCurrent"))
                     \union When(begun /\ ~seen /\ anew /\ old,
                                 Says("CHANGE_PASSWORD", "keepsChanged")))
            /\ Credits(When(begun /\ seen, Says("CHANGE_PASSWORD", "noChange"))
                       \union When(begun /\ ~seen /\ anew,
                                   Says("CHANGE_WITHOUT_CURRENT", "noCurrent"))
                       \union When(begun /\ ~seen /\ anew /\ ~old,
                                   Says("CHANGE_PASSWORD", "keepsChanged"))
                       \union When(begun /\ ~seen /\ anew /\ openBefore /\ ~openAfter,
                                   Says("CHANGE_ENDS_SESSIONS", "keepsOthers")))
            /\ UNCHANGED <<world, alive, main, judged, works, readBack, doubted, refusing>>

ResetFirst == {"login-reset", "private-reset"}
ResetUsed == {"reset-use-1", "login-reset-new", "private-reset-new"}
ResetOld == {"login-reset-old", "private-reset-old"}

ResetChecks ==
    /\ at = "reset_checks"
    /\ Goto(at)
    /\ IF ~("reset" \in plan /\ Confirm)
       THEN NotAsked
       ELSE \E how \in Answers(ResetFirst \union ResetUsed \union ResetOld) :
        LET before == PasswordsOf("B")
            begun == AccountWorks(before, "stated", how["login-reset"], how["private-reset"])
            \* The email of the code reaches an account there is.
            mailed == begun /\ before # {}
            took == mailed /\ Done(how["reset-use-1"]) /\ "noReset" \notin app
            after == IF took THEN Set(before, "first", "keepsReset") ELSE before
            anew == mailed /\ AccountWorks(after, "first", how["login-reset-new"],
                                           how["private-reset-new"])
            old == AccountWorks(after, "stated", how["login-reset-old"], how["private-reset-old"])
        IN  /\ Leaves("B", after)
            /\ Note(how, ResetFirst \union When(mailed, ResetUsed) \union When(anew, ResetOld))
            /\ Finds(When(anew /\ old, Says("RESET_KEEPS_OLD", "keepsReset")))
            /\ UNCHANGED <<world, credits, alive, main, judged, works, readBack, doubted, refusing>>

\* The guesses, for an account of their own or for nobody: only a limit that counts by address
\* refuses anybody else afterwards.
BruteForceCheck ==
    /\ at = "brute_force_check"
    /\ Goto(at)
    /\ refusing' = ("guesses" \in plan /\ "byAddress" \in app)
    /\ UNCHANGED <<world, outcome, alive, valid, main, judged, works, readBack, crashed, limited>>

-----------------------------------------------------------------------------
(* Settling: what rests on a crash is withheld, then what the limiter puts *)
(* in doubt.                                                               *)

\* The requests whose crash withholds a credit.  The entry for STEP_SKIPPED is an id no request
\* has: a skip's own id goes on with the try's number.
RestsOnARefusal(rule) ==
    CASE rule = "PRIVATE_PAGE" -> {"private-anonymous"}
      [] rule = "ADMIN_PAGE" -> {"login-a", "admin-a"}
      [] rule = "OTHER_USERS_DATA" -> {"login-b", "owned-b"}
      [] rule = "STEP_SKIPPED" -> {"flow-flow-b"}
      [] rule = "CHANGE_PASSWORD" -> ChangeOld
      [] rule = "CHANGE_WITHOUT_CURRENT" -> ChangeWrong
      [] rule = "CHANGE_ENDS_SESSIONS" -> {"bystander-after"}
      [] rule = "NO_IDLE_TIMEOUT" -> {"timeout-idle-after"}
      [] rule = "NO_SESSION_LIFETIME" -> {"timeout-busy-after-lifetime"}
      [] rule = "SESSION_TOKEN_UNVERIFIED" -> {"invented-session"}
      [] rule = "LOGOUT" -> {"after-logout"}
      [] OTHER -> {}

\* The requests whose crash withholds a finding.
RaisedOnARefusal(rule) ==
    IF rule = "SIGN_OUT_ON_GET" THEN {"private-after-get-logout"} ELSE {}

\* Mutant: findings raised from a crash are kept.
WithheldCredits ==
    /\ credits' = IF limited # {} THEN {}
                  ELSE {c \in credits : RestsOnARefusal(c.rule) \intersect crashed = {}}
    /\ findings' = findings
    /\ doubted' = IF limited # {} THEN findings' ELSE {}

\* withhold_what_rests_on_a_crash, then settle_limited.
Withhold ==
    /\ credits' = IF limited # {} THEN {}
                  ELSE {c \in credits : RestsOnARefusal(c.rule) \intersect crashed = {}}
    /\ findings' = {f \in findings : RaisedOnARefusal(f.rule) \intersect crashed = {}}
    /\ doubted' = IF limited # {} THEN findings' ELSE {}

Settle ==
    /\ at = "settle"
    /\ Goto(at)
    /\ Withhold
    /\ UNCHANGED <<world, alive, valid, main, judged, works, readBack, crashed, limited, refusing>>

Next ==
    \/ PrivateAnonymous \/ SignInA \/ SessionTimeoutChecks \/ SignInAgain \/ OwnedChecks
    \/ AdminChecks \/ InventedSessionCheck \/ FlowChecks \/ LogoutCheck \/ SignsInAfresh
    \/ SignOutOnGetCheck \/ ChangePasswordChecks \/ ResetChecks \/ BruteForceCheck \/ Settle

Spec == Init /\ [][Next]_vars

-----------------------------------------------------------------------------
(* Properties. *)

Rule == {"PRIVATE_PAGE", "NO_IDLE_TIMEOUT", "NO_SESSION_LIFETIME", "OTHER_USERS_DATA", "ADMIN_PAGE",
         "SESSION_TOKEN_UNVERIFIED", "STEP_SKIPPED", "LOGOUT", "SIGN_OUT_ON_GET", "CHANGE_PASSWORD",
         "CHANGE_WITHOUT_CURRENT", "CHANGE_ENDS_SESSIONS", "RESET_KEEPS_OLD"}
Session == User \X ({"a", "idle", "busy", "after-lifetime", "a-after-wait", "b", "get-logout",
                     "login-flow-b0", "login-flow-b1", "login-flow-b2", "login-flow-b3"}
                    \union Checks)
\* The state is well formed: one check is next, the sessions are test users', and what is in
\* doubt was found.
TypeOK ==
    /\ at \in Checks
    /\ app \subseteq Traits /\ plan \subseteq Sections
    /\ alive \subseteq Session /\ main \in Session
    /\ valid \in [User -> SUBSET Password]
    /\ judged \in BOOLEAN /\ works \in BOOLEAN /\ readBack \in BOOLEAN /\ refusing \in BOOLEAN
    /\ crashed \intersect limited = {}
    /\ \A s \in credits \union findings : s.rule \in Rule /\ s.fault \in Traits \union {"skips"}
    /\ doubted \subseteq findings

\* What a credit or a finding says of the app is so.
Has(fault) ==
    IF fault = "skips" THEN "skipsAll" \in app \/ ("skipsOne" \in app /\ "middle" \in plan)
    ELSE fault \in app

\* A public page that crashed when a stranger asked for it is taken for a private one, and every
\* session then seems to open it; a page shell whose front page crashed is taken for a page.
PublicTakenForPrivate == Public /\ "private-anonymous" \in crashed
ShellTakenForPage == "shell" \in app /\ "front-anonymous" \in crashed

\* The passes the code is known to give by mistake: a change of password told by a public page; a
\* refusal of A's shared session where that had ended, or never begun; B refused who was never
\* signed in; and a try at the flow that crashed.
PassedByMistake(c) ==
    \/ c.fault = "noChange" /\ PublicTakenForPrivate
    \/ c.rule \in {"ADMIN_PAGE", "LOGOUT"} /\ "single" \in app /\ "slow" \in plan
    \/ /\ c.rule = "ADMIN_PAGE"
       /\ "noA" \in app \/ (PublicTakenForPrivate /\ "login-a-after-wait" \in crashed)
    \/ c.rule \in {"OTHER_USERS_DATA", "STEP_SKIPPED"} /\ "noB" \in app
    \/ c.rule = "STEP_SKIPPED" /\ FlowTries \intersect crashed # {}

\* Once settled, and but for those, no pass is given to an app that has the fault: not for a
\* session that was dead when it was refused, a sign-in that never happened, a request that
\* crashed or one the limiter ate (run_checks, withhold_what_rests_on_a_crash, settle_limited).
PassesAreEarned == at \in Settled => \A c \in credits : Has(c.fault) => PassedByMistake(c)

\* The findings the code is known to raise by mistake: those told by a public page taken for a
\* private one, which opens for whoever asks; and a page shell said to open without signing in.
FoundByMistake(f) ==
    \/ /\ f.rule \in {"NO_IDLE_TIMEOUT", "NO_SESSION_LIFETIME", "LOGOUT", "CHANGE_PASSWORD",
                      "CHANGE_WITHOUT_CURRENT", "RESET_KEEPS_OLD"}
       /\ PublicTakenForPrivate
    \/ f.rule = "PRIVATE_PAGE" /\ ShellTakenForPage

\* Once settled, and but for those, every finding is true of the app, or named in the limiter's
\* note: none is raised from a request that crashed (RAISED_ON_A_REFUSAL) or from a session
\* another check ended.
FindingsAreTrue ==
    at \in Settled => \A f \in findings \ doubted : Has(f.fault) \/ FoundByMistake(f)

\* A correct app that answers everything is given every pass its stackvet.toml allows: no check
\* takes a session or a password a later one needs.
Deserved ==
    {s \in {[rule |-> "PRIVATE_PAGE", fault |-> "open", needs |-> "private"],
            [rule |-> "NO_IDLE_TIMEOUT", fault |-> "keepsIdle", needs |-> "slow"],
            [rule |-> "NO_SESSION_LIFETIME", fault |-> "keepsOld", needs |-> "slow"],
            [rule |-> "OTHER_USERS_DATA", fault |-> "shared", needs |-> "owned"],
            [rule |-> "ADMIN_PAGE", fault |-> "adminOpen", needs |-> "admin"],
            [rule |-> "SESSION_TOKEN_UNVERIFIED", fault |-> "anySession", needs |-> "private"],
            [rule |-> "STEP_SKIPPED", fault |-> "skips", needs |-> "flow"],
            [rule |-> "LOGOUT", fault |-> "keepsLogout", needs |-> "logout"],
            [rule |-> "CHANGE_WITHOUT_CURRENT", fault |-> "noCurrent", needs |-> "change"],
            [rule |-> "CHANGE_PASSWORD", fault |-> "keepsChanged", needs |-> "change"],
            [rule |-> "CHANGE_ENDS_SESSIONS", fault |-> "keepsOthers", needs |-> "change"]} :
        s.needs \in plan}

CorrectIsCredited ==
    (/\ at \in Settled
     /\ app \subseteq {"byAddress"} /\ crashed \union limited = {} /\ "private" \in plan)
        => credits = {[rule |-> s.rule, fault |-> s.fault] : s \in Deserved}

\* Where a check is about to sign a test user in with the stated password, the app still takes
\* it, or never did: the checks that change passwords come after all of them (comments of step
\* 10 of run_checks, and reset_flow's "nothing after this signs B in").
NeedsPassword(c) ==
    Fresh(c) \union
    CASE c \in {"sign_in", "session_timeout_checks", "sign_in_again",
                "sign_out_on_get_check", "change_password_checks"} -> {"A"}
      [] c \in {"owned_checks", "flow_checks", "reset_checks"} -> {"B"}
      [] OTHER -> {}

PasswordsHold == \A u \in NeedsPassword(at) : valid[u] # {} => "stated" \in valid[u]

SuitePasswordsHold == at \notin Suites => PasswordsHold

\* Wrong passwords are guessed once nothing else of the signed-in checks is left to ask: an app
\* that then refuses everybody costs the run the guessing checks alone.
GuessesCostThemselves == refusing => at \in LastOfAll \union {"settle"} \union Settled
=============================================================================
