# A TLA+ model of StackVet (`sv`)

`sv` reads an app's source, starts the app behind a fence when it is asked to,
and writes a report of what it found against a list of requirements. It is
mostly sequential, and mostly about data: patterns over source text, HTTP
probes, rendering. Its difficult parts are what happens around that, and what
the pieces come to together: several `sv` processes share a report folder, a
key and a Docker daemon, and each may fail, be stopped or be killed at any point; a
server answers an AI coding tool while checks it has given up on go on
running; checks of a running app use up the sessions and passwords that later
checks need; and many small answers, findings and entries decide together
whether a requirement is in the report and how the run ends. This directory
models those parts.

Paths are below `crates/` unless they say otherwise.

## The system

| Crate | What it does |
|---|---|
| `sv-cli` | the commands, the report folder and its lock, the MCP server, the record of the build loop, reviews and decisions, exit statuses |
| `sv-check` | static rules, adapters to other tools, live checks of a running app, decisions, reviews, notes, the keys reports are sealed with |
| `sv-run` | runs commands with time limits, installs tools, starts the app behind a Docker fence and takes it down again |
| `sv-scan` | walks the app's files, lists packages, says which folders are `sv`'s own output |
| `sv-manifest` | reads and checks `stackvet.toml` |
| `sv-frameworks` | the requirements, and which of them apply to an app |
| `sv-report` | verdicts, counts and the report in its formats |

### Components, their state, their operations

**Report folder lock** (`sv-cli/src/report_lock.rs`). State: the lock file (a
name that can be removed and made again, and the files behind it that processes
still have open), the operating system's lock on such a file, the holder file,
and in the process a list of what it holds (`LIVE`). Operations: `take` (open,
`try_lock`, compare the file locked with the file under the name, go round
again up to eight times, write two records), `remove_mine`, `Held`'s drop,
`let_go_of_all` when the process is about to exit. Hard: every call to the file
system is a point where another run may act; the name and the lock are
different things; a kill leaves files behind and lets go of the lock; a disk
may not lock at all. Right when: one run has a folder at a time; both records
name it; a lock left by a dead run does not block; a run is told that an
earlier one stopped only if it did.

**Report folder** (`sv-cli/src/lib.rs` from `claim_report_folder` to
`refuse_someone_elses_folder`, `report_folder.rs`, `report_files.rs`). State:
the folder, the marker that says it is `sv`'s, the report files, part-written
files, and what a run has registered to undo. Operations: claim, build, refuse
an older report, write the marker and each file by rename, seal, let go, undo.
Calls the lock; is read by the reader with no lock. Hard: six files and a
marker are replaced one by one; a check made before minutes of building is
relied on after it; the undo runs after the lock is gone; Ctrl-C leaves by
`exit`. Right when: a seal never stands beside files of two runs; a newer
report is kept; a run that writes nothing leaves the folder as it found it;
every run ends.

**Seals and the reader** (`report_seal.rs`, `mcp/resources.rs`). State: the
marker's seal, a keyed hash over each file. `read_resource` lists, checks the
seal, looks at a file and opens it, in steps. Right when: nothing but a file of
a finished report is handed over.

**MCP server** (`mcp/mod.rs`, `mcp/tools.rs`). State: `last_check` (the thread
of the last check, which may outlive the call that started it), `last_counts`
and `last_outcome`, `handed` per app, `noted_off`. Operations: one request at a
time - a prompt or a resource handed over, a report read, a tool called, a check
called - and, when a call has been answered, writing it down. Hard: a check that
ran out of time is still there when the next is asked for; its late answer must
not be taken for another call's; what a call leaves in the server's fields is
used by whichever call is written down next. Right when: one check at a time,
a line says what its own call came to, what was handed over is written once,
every call is answered.

**Record of the build loop** (`build_loop.rs`, `docs/adr/ADR-084.md`). State:
the record's lines, the count of calls that could not be written, whether the
manifest turns it off. Operations: `off`, `record`, `append` (which stops at a
limit), reading back and `settle`. Right when: a gap while it was off can be
seen, and is seen as one.

**Docker fence and runner** (`sv-run/src/docker.rs`, `cleanup.rs`,
`install.rs`). State: containers and networks with this run's label, a volume
with the app's packages that later runs use again, a flag that Ctrl-C was
pressed. Operations: clear what dead runs left, fill the volume, make a network
and see that it is fenced, start helpers, app and sidecar, ask, tear down. Calls the
command runner for each `docker` call. Hard: another run starts while leftovers
are cleared; a `docker run` is stopped and the daemon goes on; the daemon
refuses any call, the removals too. Right when: the app runs only behind a
fence that was seen; a run never removes what a living run made; what stays is
named; an app never runs on half of its packages.

**Command runner** (`sv-run/src/lib.rs`, `run_bounded_with_input`). State: a
child process and its group, three pipes, a thread for each, the time limit,
the Ctrl-C flag. Operations: start, poll, stop, join. Hard: pipes fill while
each side waits for the other; what the child started holds the output open
after it; output goes past the limit. Right when: what is handed on as whole is
whole; what was stopped leaves nothing; the call comes back.

**Report key** (`sv-check/src/seal.rs`, `load_or_make_named`). State: one file
per computer, made by whichever run is first. Hard: several are first; a kill or
a full disk midway. Right when: whoever has a key has the same one, whole.

**Reviews and decisions** (`sv-check/src/review.rs`, `decisions.rs`,
`notes.rs`, `sv-cli/src/review.rs`). State: `stackvet.toml` and
`security-notes.md`, with a seal on each entry that a person has agreed to.
Operations: list, sign again, ask, save, read back, put back; and, in a check,
apply the entries to the findings. Hard: the person answers what they were shown
while the AI coding tool changes the files; two entries that contradict each other. Right when:
nothing counts as the person's word but what they said yes to; an entry sets
aside one finding, the one it means.

**Live checks of a running app** (`sv-check/src/signed_in/`). State: two test
users, their sessions and passwords inside the app under test, the shared
session of the first, which requests crashed or met a limiter, what has been
credited and found so far. Operations: some twenty checks in one fixed order,
then settling what crashes and limiters left, then the suites that ask as the
same users. Hard: each check changes what the next relies on; a crash, silence or a
limiter looks like a refusal. Right when: nothing is credited that the app has
not earned; a correct app is credited; guessing costs the guessing only.

**Applicability, verdicts, exit statuses** (`sv-manifest`, `sv-frameworks`,
`sv-report`, `sv-cli/src/lib.rs`, `exit.rs`, `baseline.rs`). Functions from
answers, findings, entries, credits and gaps to a place and a status for each
requirement and to an exit status, in steps whose order matters. Right when:
a requirement is missing only for a cause somebody gave; every finding is seen
or was set aside by a person; exit 0 means what it says.

**Left out for good**: parsing of manifests, lock files and bills of materials;
the scan; source rules; the content of HTTP probes; rendering; argument
handling; the one-shot readers of finished reports (history, comparison,
bundle, dashboard). They keep no state between steps, and their correctness is
about text.

## The modules

    OneRunAtATime      what the lock promises                  (abstract)
    ReportLock         take, hold, let go, be killed           implements OneRunAtATime
    ReportStore        what a report folder promises           (abstract)
    ReportFolder       claim, build, write, seal, undo         EXTENDS ReportLock; implements ReportStore
    FolderAsFound      the same, with the folder as first found remembered
    ReportReader       a reader without a lock beside it       EXTENDS ReportFolder
    McpServer          requests, the check thread, the record
    DockerRun          leftovers, packages, fence, app, teardown of several runs beside a daemon
    CommandRunner      one command, its threads and its pipes
    KeyOnce            what a computer's key promises          (abstract)
    ReportKey          several first runs make the key         implements KeyOnce
    Review             a person answers while a tool edits
    SignedIn           the signed-in checks in their order, over apps with faults
    Applicability      from answers to where a requirement lands (operators)
    Verdict            from findings to statuses and exit      EXTENDS Applicability
    MC*                the modules TLC is given: values of constants, symmetry
    ReportFolderProofs theorems and proofs of the lock, the folder and the reader;
                       EXTENDS ReportReader and FolderAsFound
    *Proofs            theorems and proofs of McpServer, DockerRun, CommandRunner,
                       ReportKey, Review, SignedIn and Verdict

Some operators near an action bear a comment beginning "Mutant" or "Until ...":
they are how the code must not be, or once was, and no specification uses them.

### ReportLock

Every file ever made under the lock's name has a number, its place in
`lockText`; `lockFile` is the number the name stands for now, 0 for none.
`opened[r]` is the file run `r` has open and `locked[r]` whether it has the
operating system's lock on it. `lk[r]` is the place in `take` or in letting go;
a step is one call to the file system:

| Code | Actions |
|---|---|
| `open` (new, else the one there, else an error) | `OpenNew`, `NameExists`, `OpenExisting`, `NameVanished`, `OpenFails` |
| `try_lock` and its three results | `TryLock`, `Refuse`, `NoLocks` |
| `same_file`, else `continue` | `SameFile`, `OtherFile` |
| the two `put`s | `EmptyLock`, `PutLock`, `EmptyHolder`, `PutHolder`, `PutFails` |
| `remove_mine`, then the file closed | `LetGo`, `RemoveHolder`, `RemoveLock`, `Unlock` |
| a kill | `Die`: the lock goes, the files stay |

A record is the run it names; its wording, time and process number are left
out. Each `put` empties its file in one step and writes it in the next, so a
kill, an error or a reader may come in between and find no record.
A number stands for one file for ever: an inode may be used again, but not while
a process has it open, which is when the code compares.

### ReportFolder

`at[r]` is the place in `write_report_folder`. A report file is the run that
wrote it, the marker is absent, plain or sealed by a run, and `staging` holds the
runs with a part-written file. Opening a part-written file and renaming it are
two steps (`Stage`, then `Mark`, `Remark`, `WriteFile` or `Seal`), so that
another run, a kill or a disk error may come between them. `others` says whether
the folder holds files that are not `sv`'s, and `Accepted` is
`refuse_someone_elses_folder`. A run's start is a number; `clock` may stand still
between two starts. `Undo::apply` is `UndoMarker` and `UndoFolder`, after the
lock's steps, as `Held::drop` has it; an interrupted run (`how = "stopped"`)
keeps the operating system's lock until the process is gone. `Init` is any
folder an earlier run can have left, finished or killed, or no folder.

The build is one step, which may fail; a folder's links, the marker's old name
(ADR-062) and names differing in capitals are left out, and so is the app's own
`.stackvet` record when `remove_dir` asks whether the folder is empty.

### ReportReader

The six steps of `proven` and `read_resource`, with writers moving in between:
list the folder, read the seal, compare each file's digest, look at the file,
open it and compare again what was opened with what was looked at. A keyed hash
matches only the bytes it was made from.

### McpServer

`serving` is what the server is doing, `request` the call it is answering.
`lastCheck` is the call whose thread the server kept, or 0; `thread[c]` is the
state of call `c`'s check. A check started by a call runs to an end, panics, or
never comes back, all beside the server. `CheckTimesOut` leaves the thread where
it is, which is what `LastCheckGoing` finds on the next call. `handed` is what
waits to be written, `line` the line being made, `record[a]` the lines of app
`a`'s record, `unwritten[a]` the file's count of calls not written, `off` which
manifests turn the record off. `off` can change between the moment it is asked
(`NoLineWritten`, `NoteOff`, `MakeLine`) and the moment the line is appended
(`Record`), which reads it again. `Restart` forgets everything in the process and
keeps what is on the disk. `kept` is a history variable: how often a thing was
handed over while the server could still write it down.

An app stands for one whose manifest was found; `NoApp` for a request that names
none. A malformed request, a ping and a listing change nothing and are
stuttering steps. The client's name, the version and the argument names that a
line also carries are left out.

### DockerRun

`at[r]` is the call to `docker` that run `r` makes next; `there` is what the
daemon has, `pending` what it may still make for a client that was stopped
(`MakeFails`, `CarryOn`). A container or network is `<<run, kind>>`: the label that
says whose it is. `Alive` is `kill(pid, 0)`, `IsLeftover` is
`cleanup::is_leftover`. `remove_leftovers` is `ListLeft` and `ClearLeft` for the
containers and then the networks; `DockerBackend::install` is `Look`, `Empty`,
`Create`, `Install`, `InstallEnds`, `Unfill` beside the container's own `Copy`;
`run_after_cleanup` is `MakeNetwork` in its three ways, `VerifyFenced`,
`VerifyGatewayClosed`, `StartHelper`, `StartApp`, `StartSidecar`,
`WaitUntilReady`, `Script`, `RemoveHelper`, `Tests`; `Teardown::remove` is
`ListOwn`, `ClearOwn`, `Return`. Every call may be refused by the daemon or, after Ctrl-C,
by the command runner; those of the teardown are made after Ctrl-C as well.
`fence[r]` is what the network turned out to be, which the run sees only by the two
checks. `began`, `failed`, `late`, `mixed` and `appSaw` are history variables that
only the properties read; `spent` bounds the daemon's failures.

One helper stands for the mail server, the provider, the model and the browser,
which are started, gone without and removed in the same way. The second copy of the
app for the kill switch, the containers that single requests are sent from when
there is no sidecar, and labels of the old name (ADR-062) are left out.

### CommandRunner

`main` is where `run_bounded_with_input` is, `child` and `helper` the command
and one process it started, which it waits for, leaves in its group, or leaves
in a group of its own. `pipe`, `kept`, `thrown` and `written` count output in
units, per stream; `unsent` and `stdin` count input. `SeeExit`, `SeeRunning`,
`StopForTime`, `StopForCtrlC`, `Sleep` are the polling loop, `Join` the joins and
`finished`; `Read`, `EndOfOutput` are `read_capped`; `WriteInput` the writing
thread. The limit's passing is one fact (`late`) that may come true at any moment.
Windows' jobs, a `try_wait` that fails and the second Ctrl-C are left out.

### ReportKey

`name` is what the key's name holds, `draft[r]` what run `r`'s own file holds.
`LookNone` and `Load` are `load_named`; `MakeDraft`, `WriteDraft`, `Link`,
`LinkTaken`, `RemoveDraft` the rest of `load_or_make_named`. A key is the run
that drew it. `KeyOnce` is the promise: settled once, and had by all.

### Review

`file` is what both files hold, entry by entry: a text, and a seal known by the text it
was made over. `doc` is the text that the review will write back and `shown` the
entries it read: the code reads `stackvet.toml` once for each. `Sort` lists what
waits; `YesOrNo`, `SignNotes` and `SignManifest` are `sign_again`; `Show`, `Agree`,
`Decline` the questions; `Keep`, `WriteBack`, `Check`, `PutBack` are `save_text`
and the reading back. `ToolEdits` changes an entry or takes its seal at any
step. `agreed` and `edited` are history: what the person said yes to, and what was
changed since it was read. Questions asked again, the passphrase and the parsing
of the notes are left out.

### SignedIn

One action is one check of `run_checks`, in the code's order (`Order`): nothing
else runs while a check asks. The environment is the app under test, a set of
traits: faults it may have, and habits that are none but get in a checker's way. `alive` and
`valid` are the sessions it knows and the passwords it takes, `main` the
session of A's that the checks share, `judged`, `works` and `readBack` what later
checks go by. As in the code, nothing tells the checks what the app is like: that
a private page is public, or the page shell, is known only by what the page and the
front page answered a stranger, and `AccountWorks` believes whatever page opens. Each request of a check is answered by the app, by a crash, by silence or by a
limiter; `crashed` and `limited` are what `Patient` writes down, by the request's
name. `credits` and `findings` name a rule and the fault it says the app has or has
not, so that the properties can hold them against the app. `Settle` is
`withhold_what_rests_on_a_crash`, the findings dropped with it, and
`settle_limited`. Four suites that ask as the same users after that are there
by their sign-ins. Checks whose outcome depends on no session or password of
A's or B's appear by the sign-ins they make. The flow is tried once, or four times when
it has a middle, each try one request. Of what is asked of a record, B reading it
is modelled; asking as nobody, in B's lists, and B's changing or deleting it are left out,
and so are a token beside the session's cookie, the wording of a sign-in's refusal,
and how long `Patient` waits for a limiter.

### Applicability and Verdict

`Applicability` has the operators: `Target`, `Claim`, `Effective` (the owner's
answer and the scan's), `RulesFor` (the narrowest scope that has a rule; an
overlay replaces), `Place` (`bucket`). `Verdict` runs the steps after the
checks are done: `PlaceAll`, `HoldDecision` (`not_held_to`), one `ApplyEntry` for each
entry of the reviews (`review::apply`), `SetAside`, `Fold` (`one_per_line`), `Build`
(`mark_outranked`, `status_of`, what is out of scope, Appendix C), `Exit`
(`Gaps::status_of`, `worse`), and `Again`, the next run with this report as its
baseline. A finding is a number, its place in the list; what it is about, how
severe it is, its line and its fingerprints of either form are constants. Two tools' reports of
one weakness, which are merged first (`merge_same_place`), how sure a rule is,
counterparts, questions and threats, `no-auth`, `level-2`, and the reasons why
an entry does not hold are left out.

## What is checked

| Run | Instance | Shows |
|---|---|---|
| `Lock` | 4 runs, one of which gets no locks, 2 turns of `take`, kills, disk errors, with fairness | `NoteIsTrue`, `TurnsAreOthers`, `DeadRunNeverBlocks`, `ImplementsTurns`, `TakeAnswers` |
| `Folder` | 2 runs, 3 files, every fault | `SealedIsWhole`, `UnmarkedOnlyByUndo`, `NewerKept`, `ImplementsStore`, `ImplementsLock` |
| `FolderEnds` | 2 runs, 2 files, failed builds, Ctrl-C, kills, with fairness | `FailedRunLeavesFolder`, `EveryRunEnds` |
| `Reader` | 2 runs on a disk that locks nothing, 2 files, and a reader | `OnlyFinishedGiven` |
| `Docker` | a run that was killed, one that installs and meets every fault, one beside it with a helper; 1 failed call | `WhatIsLeftIsSaid`, `LeftoversCleared`, `AppIsFenced`, `PackagesAreWhole`, `LivingLeftAlone` |
| `SignedIn` | apps with up to two of 21 traits, all combinations, 4 plans, one request that crashes, falls silent or stays limited | `PassesAreEarned`, `FindingsAreTrue`, `CorrectIsCredited`, `SuitePasswordsHold`, `GuessesCostThemselves` |
| `Command` | 3 units of output a stream, pipes of 1, a limit of 1, 2 units of input, three kinds of helper, with fairness | `WholeIsWhole`, `StoppedLeavesNothing`, `Returns`, `NeverLeftWaiting` |
| `Key` | 3 runs: one may be killed, one's disk may refuse, one meets neither; with fairness | `NameIsWhole`, `ImplementsKeyOnce`, `EveryRunHasAKey` |
| `Review` | an answer, a confirmation and a note, 2 texts, 2 changes by the tool | `AgreedUnlessReread`, `RecordedStays` |
| `Mcp` | 3 calls, 2 apps, 1 thing to hand over, a record of 3 lines, every fault, with fairness | `OneCheckAtATime`, `LineIsOfItsCall`, `HandedOnce`, `GapIsSeen`, `EveryCallAnswered` |
| `Verdict` | 7 findings about 6 requirements, lists of up to 3 entries, 4 sets of credits, all combinations of answers | `NothingLeftOut`, `EveryFindingCounts`, `CleanMeansClean` |
| `VerdictHeld` | the same; a counterexample is expected | `HeldNeverFails` |

The type invariants, and `OneHolder`, `HolderIsNamed`, `OneAtWork`, `AgreedKey`, `MadeByOne`,
`FailsForCause` and `NoDraftLeft`, are proved for all values of the constants
and not run again. Every other safety property of the runs is proved as well, under
the hypotheses named under "What is proved".

### Bounds

- *Runs on a folder.* Two runs that want it, after any earlier one (`Past`), show
  every pair of steps interleaved. The lock has three that lock, so that a run may
  lose its turn to one that lets go and then to another that takes the name anew; with two
  turns (`MaxTries = 2` for the code's 8) the third run also uses both up and is
  turned away. A fourth (`Lockless`) reaches the folder by a mount that locks
  nothing: it makes the lock file if there is none, and leaves it. Where `MaxTries` is 8 two runs cannot use the turns up.
- *Report files.* Two, or three with the record in the middle, for the code's
  six: a write then has a first, a last and, in `Folder`, one on either side of
  the record.
- *Starts.* 0 for a run's own, and the earlier report's at 0, at the allowed skew, or
  beyond it. A run's step of the clock is 0 or 1.
- *Calls.* With three, a check can time out under the first, go on during the
  second and end before or during the third. A record of three lines can hold one
  for each, so a record that ends in another line than the note is not full, and
  `GapIsSeen` has to hold by its other parts; that a record at its limit takes no more
  lines is in the model and met by `GapsAreSeen`, which is proved for every limit.
- *Docker.* Two runs and what a third left: each pair of a clearing, an install, a
  start and a teardown meets. One failed call: any of them, also a removal in the
  teardown, beside Ctrl-C at any step and a kill at any step. That more runs and
  more failures add nothing is what the proofs say of all five properties. (A
  second failure did add something, of which the notes on Docker below speak.)
- *Commands.* A stream that prints three units into a pipe of one, kept to a limit
  of one, is past the limit, at it and below it, with its writer waiting in
  between. One helper of each kind, at any time.
- *Keys.* Three: a run may lose to one that is killed right after.
- *Reviews.* One entry of each kind the code treats differently, all of which may have
  an older seal; two changes, so that a text may go and come back.
- *Apps.* Two traits show how one fault hides another; all 232 such apps are tried with
  each plan, none left out. One troubled request: each pass rests on one refusal, or on
  one for each user. Two of the mistakes named under "Signed-in checks" below take two
  troubled requests and do not come up in the run; the theorems speak of any number.
- *Verdicts.* Two findings of different rules on one line, of which the tool's is
  worse or not after the reviews, two whose earlier fingerprints are equal, one of
  the running app, the decision's own, and one that leaves credit alone. Three
  entries, so that a voided entry can be met again.
- Deadlock is not checked: all runs ended, all calls answered or the report made is a place to
  stop.

### Fairness

`LockFairness` and `Fairness` of `ReportFolder` say that a process which can take
its next step by itself takes one: the operating system schedules it, and
everything a run waits for while it builds has a time limit (`sv-run`'s). Being
killed, interrupted or started is never fair. In `McpServer` the server is fair, and a
check's thread only once it has its report sent (`Ends`): a check need
never finish, and `EveryCallAnswered` holds all the same, by the time limit of
the call (`CheckTimesOut`). In `CommandRunner` the call and its threads are fair; the command,
what it starts, and the clock may stand still for ever: `Returns` speaks of what
follows once the limit has passed. In `ReportKey` each run's own steps are fair, being
killed is not. The others state no liveness: their runs wait for nothing but the
command runner, whose return is `Returns`.

### Where the code and its documents part

`VerdictHeld` expects TLC to find a counterexample to "With `--fail-on attention`, a
finding the older report already held does not set exit 1" (`sv-cli/src/baseline.rs:4-5`) and to
"Every fingerprint the older report's findings carried, earlier forms included"
(`baseline.rs:19`). `Baseline::load` reads the fingerprints of the entries of
`report.json`'s list and not of the findings under `also_on_this_line`. When
the worse of two findings on a line is fixed or set aside, the other takes its
place, is not held, and sets exit 1.

The rest were met while modelling and are no runs; where a module is named, its
definitions say what the code does, and a sentence written as an invariant of
it does not hold.

*The folder, the lock and the server.*

| Sentence | What happens |
|---|---|
| "The marker is written once the folder is held, so the run's own reading of the app leaves the folder out" (`sv-cli/src/lib.rs:1691`) | `Held::drop` (`report_lock.rs:248`) unlocks and then undoes. Run A's build fails; A removes its lock; run B takes the folder, finds A's marker and writes none; A's undo removes the marker; B builds in an unmarked folder. Nothing B writes is lost: its own `write_report` writes the marker again (`UnmarkedOnlyByUndo`, `SealedIsWhole`, `ImplementsStore`). |
| "a run does not replace a report from a run that started after it" (`report_lock.rs:334`) | Said of a disk that locks nothing. Between `refuse_older` and the writes the newer run can write its report, which the older one then replaces. |
| "A step that fails leaves the folder as the claim found it" (`report_folder.rs:41`) | The marker is replaced first, without a seal (`lib.rs:1783`). A disk that then refuses a file leaves the earlier report without its seal, which beside files of the owner's makes every later run refuse the folder. On a disk that locks nothing the lock file stays as well: `take` has made it by then and keeps no record of it. |
| "naming the run that holds the folder" (`report_lock.rs:11`) | Until the new holder has written its record, a refused run is told the name of the killed run before. |
| "kept until the next line written for an app carries it" (`mcp/mod.rs:288`) | `handed` is emptied into a line that then cannot be written. |
| "once until a call is written down again, so a gap is seen as one" (`docs/adr/ADR-084.md:65`) | `noted_off` is in the process; a server started again while the record stays off notes it again. |

*Docker and commands.* "A volume counts as filled only when the install that filled it
finished" (`docker.rs:1549-1550`). When the daemon refuses the look at a filled volume,
the run fills it again: it removes the volume first, and goes on when that is refused
too (`docker.rs:1570`), copying and installing over what was there, with the
older mark in place. If it is killed midway, the next run takes the volume for filled.
This takes two installing runs and two failing calls, and came out of the proof of
`PackagesWhole`; `PackagesAreWhole` leaves such an install out (`mixed`). After Ctrl-C the list of what the teardown could not
remove is dropped and the person is told that everything was removed
(`sv-cli/src/lib.rs:170-173`). Two runs with the same packages share a volume without
a lock: one may empty it while the other goes on from its answer that the
volume was filled, which is why `PackagesAreWhole` leaves out runs at one time as
well (`docker.rs:1545`, `:1570`). The time limit does not bound the wait for output that a process
left behind holds open (`sv-run/src/lib.rs:1022`), which is the
`HeldOpen` of `Returns`.

*Reviews.* `sign_again` reads an entry of the notes once more after the yes and
signs what is there (`review.rs:743`), while its comment says that it is signed over what
its seal holds for (`:639-641`): a change in between becomes the person's word.
`OnlyAgreedCounts` therefore fails where `AgreedUnlessReread`, which leaves such
entries out, holds. The whole of `stackvet.toml` is written back as read at the start
(`review.rs:288`), so a tool's change in between is lost.

*Signed-in checks.*

`PassedByMistake` and `FoundByMistake` name the passes and the findings that the code
gives wrongly, each under the traits and the crash it takes; `PassesAreEarned` and
`FindingsAreTrue` say that there are no others. Without any one of these clauses the
property fails.

- With an app that keeps one session per user, `--slow` ends the shared session
  by signing in more, and an open admin page or a logout that ends nothing
  passes (`sessions.rs:117-131`).
- The second user's refusals count although that user was never signed in
  (`admin.rs:712`, `flows.rs:157`); `once.rs:50` asks first.
- A step of a flow that crashed is not matched: the credit names `flow-flow-b0` and the
  request is `flow-flow-b0-0` (`mod.rs:1131`, `flows.rs:27-32`). An app whose middle may
  be left out is credited when that try crashes, and so is one with two steps
  whose first may be.
- A public page whose request crashed for the stranger (`private-anonymous`) passes for a
  private one that everybody's session opens. Idle and aged sessions then seem to live on, a
  logout to end nothing, and every password to work, so `NO_IDLE_TIMEOUT`,
  `NO_SESSION_LIFETIME`, `LOGOUT`, `CHANGE_WITHOUT_CURRENT` and `RESET_KEEPS_OLD` are
  found of apps without the fault, and so is `CHANGE_PASSWORD`, when the page crashed
  once more, after the change that gave a wrong current password. A change of password that changes nothing
  seems to have taken and is credited `CHANGE_PASSWORD` (`passwords.rs:828-853`); no crash
  withholds that, because none is behind it. The page of a single-page app is
  such a page, as its front page has the same body only where both were answered
  (`mod.rs:514-523`).
- When the front page crashed for the stranger (`front-anonymous`), the page shell is no
  shell to the check, and is found to open without signing in.
- Where the first user was never made and the run goes on for want of a private page, or
  because the page opens for anybody, it goes on with a dead session, and an open
  admin page passes. The same happens where `private-anonymous` crashed on a public page
  and the sign-in after the wait crashed as well.
- The guesses are said to cost at worst themselves (`mod.rs:2287-2289`); the suites after
  them sign in too. `reset.rs:159-160` says that nothing after it signs B
  in; the suites of `script.rs` do. `SuitePasswordsHold` speaks of the checks
  before the suites for that reason.

*Verdicts.* A new finding on a line whose listed finding is in the baseline
and no less severe does not set exit 1; `CleanMeansClean` says "but for the
baseline's". A false alarm entered against a tool's finding that the running check had
outranked still turns `checked` into `not verified` (`sv-report/src/lib.rs:2308-2316`).
A probe that verified a requirement in part outranks a tool's finding
wholly. `ai = no` that the code contradicts leaves the conditions under AI a
definite no. "One with any finding or evidence stays where it is" (`lib.rs:2621-2622`) is said of
Appendix C, whose lines leave the list also with supporting evidence.

## What is proved

TLAPS proves these for any number of runs, files, apps, calls, entries,
requirements and findings, and for pipes, limits and rules of any size.

| Module | Theorem | States |
|---|---|---|
| `ReportFolderProofs` | `LockTyped`, `LockExcludes`, `HolderNamed`, `NotesTrue`, `TurnsAreLettings` | `LockSpec => []` each of `LockTypeOK`, `OneHolder`, `HolderIsNamed`, `NoteIsTrue`, `TurnsAreOthers` |
| | `DeadNeverBlock` | `LockSpec => DeadRunNeverBlocks`, of every step |
| | `LockImplementsTurns` | `LockSpec => ImplementsTurns` |
| | `FolderImplementsLock` | `Spec => ImplementsLock`, by which the lock's theorems hold of the folder |
| | `FolderTyped`, `UndoAloneUnmarks` | on any disk: `TypeOK`, `UnmarkedOnlyByUndo` |
| | `FinishedIsGiven` | on any disk, of a reader beside the runs: `ReadingSpec => []OnlyFinishedGiven` |
| | `OneRunWorks`, `SealsWhole`, `NewerIsKept`, `FolderImplementsStore` | on a disk that locks (`Lockable`, no run is `Lockless`): `OneAtWork`, `SealedIsWhole`, `NewerKept`, `ImplementsStore` |
| | `FailureLeavesFolder` | on a disk that locks and refuses nothing: `FoundSpec => []FailedRunLeavesFolder` |
| `McpServerProofs` | `ServerTyped`, `ChecksOneByOne`, `LinesAreTheirCalls`, `GapsAreSeen`, `HandedNoOftener` | `Spec => []` each of `TypeOK`, `OneCheckAtATime`, `LineIsOfItsCall`, `GapIsSeen`, `HandedOnce` |
| `DockerRunProofs` | `DockerTyped`, `AppsAreFenced`, `LeftIsSaid`, `LivingAreSpared`, `LeftoversGo` | `TypeOK`, `AppIsFenced`, `WhatIsLeftIsSaid`, `LivingLeftAlone` of every step, and `LeftoversCleared` |
| | `PackagesWhole` | where all runs are of one machine and have process numbers of their own (`OneMachineOwnNumbers`): `PackagesAreWhole` |
| `CommandRunnerProofs` | `CommandTyped`, `WholeOutput`, `StopLeavesNothing` | `TypeOK`, `WholeIsWhole`, `StoppedLeavesNothing` |
| `ReportKeyProofs` | `KeyTyped`, `NameHoldsWhole`, `RunsAgree`, `OneMadeIt`, `FailureHasCause`, `DraftsGone` | `TypeOK`, `NameIsWhole`, `AgreedKey`, `MadeByOne`, `FailsForCause`, `NoDraftLeft` |
| | `KeyImplementsOnce` | `Spec => ImplementsKeyOnce` |
| `ReviewProofs` | `ReviewTyped`, `AgreedAlone`, `RecordedHold` | `TypeOK`, `AgreedUnlessReread`, `RecordedStays` |
| `SignedInProofs` | `SignedTyped`, `GuessesLast`, `PasswordsLast`, `FindingsHold`, `PassesEarned`, `CorrectCredited` | `TypeOK`, `GuessesCostThemselves`, `SuitePasswordsHold`, `FindingsAreTrue`, `PassesAreEarned`, `CorrectIsCredited`, for any apps and plans and any number of troubled requests |
| `VerdictProofs` | `YesOnlyAdds` | a further yes, of the owner's or of the scan's, never takes away a requirement that applies |
| | `VerdictTyped`, `LeftOutForCause`, `FindingsCount`, `ZeroIsClean` | `TypeOK`, `NothingLeftOut`, `EveryFindingCounts`, `CleanMeansClean` |

Assumptions are those of the constants (`RunsAreDistinct`, `TriesArePositive`,
`FilesAssumption`, `SkewAssumption` and their likes), stated in the modules. Three
hypotheses are the theorems' own, each because the code promises no more:

- `Lockable`: the lock is what keeps two writers apart, and of a disk without
  locks the code says that it does not.
- No disk fault, in `FailureLeavesFolder`: marker and files are replaced one by one, and
  when a disk refuses the third the first two are gone.
- `OneMachineOwnNumbers`, in `PackagesWhole`: a run tells a leftover by machine and
  process number. An install left by another machine's killed run, or by one whose number
  a later run has, is nobody's to clear, and its copying goes on beside the next run's.

**The lock.** `OneHolder` is not inductive: a run might own the folder through
a lock on a file whose name is gone. The invariant says besides that two runs
never hold the operating system's lock on one file, that an owner holds it on
the file under the name, and that the records carry the owner's name from the
step that wrote them. A second run can become owner only by `SameFile`, which
says it locked that same file; so there is no second. `LetGo` keeps the name
while it is owner, and after `RemoveLock` it owns nothing, so a name made anew is
another's. `DeadRunNeverBlocks` follows: a refusal is of a file that another run has
locked, and only a run that is going has one locked. `TurnsAreOthers` counts. Files are
numbered as they are made, so that the names removed so far are as many as there
are files but for the one in place (`Removed`); each was removed by a run that has let
go since (`RemovalsAreRuns`); and a run's turns stay below the number of the file it
has open (`TurnsAreRemovals`), so that one turn more costs one removal more.

**The folder.** `FolderImplementsLock` comes from looking at each action once.
From the lock's theorem a run in a place where it writes is an owner, so no
other is. `SealedIsWhole` then needs only what the one writer does: it replaces the seal
before a file and writes the seal after the last, so while it is in between the
marker is plain; `files` up to `next` are its own. `NewerKept` needs
that what it saw in `refuse_older` is still there when it writes: nobody else
could write. The refinement to `ReportStore` takes the run in these places as the store's
owner and the seal that holds as the report on offer.

`UnmarkedOnlyByUndo` needs no lock. A run that builds found a marker or wrote one, so
where there is none it has been taken away since, and only an undo takes one away: of a
run that found none when it came and did not finish (`UndoneBy`). Nor does
`OnlyFinishedGiven`: a seal is put in place when all files are, and a run
that got there has finished (`SealersFinish`); what the reader found sealed stays
that run's, because it compares bytes and not names (`ReadsFinished`).
`FailedRunLeavesFolder` compares with the folder as found for as long as one run alone
has begun (`AsFound`): at each place, what the run has registered to undo is exactly what
differs. A second run ends the comparison, as it does in the property.

**The server.** What `lastCheck` names is the only thread that can be running;
the outcome and counts left in the server's fields are those of the call being
answered, and are emptied by every way of ending a call, also by the ones that
write no line; a `notedOff` app has its last line off until a line is
written there. `HandedOnce` is by `HandedInv`: a thing handed over waits, or is in the line
being made, or in lines of the record, so that the lines that carry it and the one that
may yet are no more than the times it was kept.

**Docker.** Five invariants. `FenceInv`: before its app's start a run has no app
there or pending; past the two checks, and where an app is there or pending, the network is
closed, as they saw it, unless the network is one that the daemon made for a client
that was gone. `RemovalInv`: what a run's clearing still has to go through
was made by runs that have ended, and an ended run does not come back; what its
teardown has to go through is its own. `SaidInv`: in the teardown what is there of
the run's own, and was not made late by the daemon, is still to go through or
is named. `LeftInv`, for the clearing: what was there of ended runs when this one
began, and was neither refused nor made late, is still to go through; once the
containers have been gone through only networks are left of it, and once the networks have,
only those that a container which stayed keeps in use. `PackagesInv`, for the volume: a mark
means that all packages are there; while an install's container is there the volume stays, and
is unmarked until the copying has ended; and a run at the volume has cleared what the killed runs
before it left, which is where `OneMachineOwnNumbers` is used.

**The command.** `CommandInv` counts: what was written to a stream is in its
pipe, kept or thrown away, and a reader that came to the end saw nobody with the
output open and the pipe empty. A call that joins has seen the child gone; a whole result
had nothing thrown away. A stopped child took its group with it, and nothing starts
a helper afterwards.

**The key.** `KeyInv`: a draft that is about to be linked is whole and its run's own;
the name never changes once it is there; a run that was given a key was given the
name's. The refinement is step by step: `Link` is `Settle`, `Load` and the removal after
a link are `Have`, the rest stutters.

**Reviews.** `ReviewInv`: every seal in `file`, `doc`, `shown` and `before`, of an
entry that is not one of the notes' older ones, is over words that were agreed
to (`SealsAgreed`). A tool can take a seal away or move an entry from under it, and
can make none. `RecordInv`, for `RecordedStays`: an entry is asked about once, and
from then on its seal holds in the file and in every text that the review may still write
over it - `doc`, and `before`, which is put back when the file does not read back as
written - for as long as the tool leaves that entry alone.

**Signed-in checks.** One lemma for each check says what it adds and what it
leaves alive, whatever its requests meet; the invariants are put together from
them. `PasswordsInv`: up to the checks that change passwords the app takes those it took at the
start. `PrivateInv`: the first sign-in is shown to work only by a page that seems private
(`SeemsPrivate`): one that is, or one that is public and whose `private-anonymous` crashed.
`FindingsInv`: a finding is true of the app, or a crash or the limiter that will take it
away or cast doubt on it is written down, or it is one of `FoundByMistake`. `PassesInv`: a
credit is earned, or will be withheld, or is one of `PassedByMistake`. A credit for a
refusal rests on the session being alive; where it is not, `SessionInv` says that the
reason is known (`MainLost`): the sign-in crashed or met the limiter, the user was never
made, the waiting ended it (`EndedByWaiting`), or it was taken for working by a public page. The
known mistakes speak of the app, which does not change, and of what has crashed, which
only grows, so a finding or a credit that is one of them stays one (`MistakesStay`).
`CorrectInv`: of a correct app that answers everything, the credits at each place are those of the checks that are over (`Granted`), none more and none fewer.
`TypeInv`: requests are written down in the order of the checks, so that none is written
down twice.

**Verdicts.** `EntriesInv` says of each finding that is taken that the entry holds
and means it, that no two findings have one entry, and that an opposite entry
met later has voided both; `ReportInv` ties the list's leaders and the
statuses to the findings. `LeaderLeads`: every nonempty set of findings has one
that is ahead of all (the order is total), so that each line is led by one at least as severe as the rest.
`StatusEarned`: the status chosen is one whose credit is there, and
`needs attention` wherever a finding that withholds names the requirement. `NoIsDenied`:
an effective no is one that somebody gave.

**Only model-checked.** Liveness (`TakeAnswers`, `EveryRunEnds`,
`EveryCallAnswered`, `Returns`, `NeverLeftWaiting`, `EveryRunHasAKey`) is outside the
prover's reach: it rests on fairness and on what is enabled. Everything else that a
passing run checks is proved.

## Not modelled

The map covers a small part of the repository's lines, for a reason that more modules
would not change: most of the code is rules over source text, parsers, HTTP
requests with what is looked for in their answers, prompts, and rendering. Their
data are strings, their control is one pass, and a model of them would repeat them.
What the modules leave out of the files they do model is said under each.

- *Scanner, static checks, adapters to other tools*: patterns over text. Findings
  enter `Verdict` as given.
- *The other live suites* (headers, injection, uploads, requests of the browser and
  of AI endpoints): each asks and judges by itself, keeping nothing between requests
  but what `Patient` notes, which `SignedIn` has.
- *Rendering, counts, questions, threats*: functions of the finished report.
- *History, comparison, bundle, dashboard*: read finished reports once, or write one file.
- *Command line, manifest and catalog parsing*: text.
- *`build_loop`'s reading back, `summarize` and `settle`*: counts over the record's lines.
- *`decisions.toml` and notes written by the tool*: read once; what a person records in them
  is `Review`'s.

What a next step would take up: `merge_same_place` and the confidence of a rule
in `Verdict`, the kill switch's second copy of the app in `DockerRun`,
`settle_limited`'s wording by suite in `SignedIn`, and the reading back and the
counts of the build loop's record.
