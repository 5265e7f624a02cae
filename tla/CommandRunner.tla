--------------------------- MODULE CommandRunner ---------------------------
(***************************************************************************)
(* One command run for at most a limit (run_bounded_with_input of          *)
(* sv-run/src/lib.rs): the call that waits for it, the thread that writes  *)
(* its input, the two threads that read what it prints, the command        *)
(* itself and what it starts, and the pipes between them.                  *)
(*                                                                         *)
(* Output and input are counted in units.  The clock is one fact, that the *)
(* limit has passed; Ctrl-C is another.  Unix only: Windows' jobs are left *)
(* out, and so is try_wait failing.                                        *)
(***************************************************************************)
EXTENDS Naturals

CONSTANTS
    Room,       \* the units a pipe holds before its writer has to wait
    Limit,      \* OUTPUT_LIMIT
    MaxOutput,  \* bound: the units one stream is given in all
    Input,      \* the units the command is sent
    Helpers     \* the kinds of process the command may start

ASSUME RoomAssumption == Room \in Nat \ {0}
ASSUME LimitAssumption == Limit \in Nat
ASSUME OutputAssumption == MaxOutput \in Nat
ASSUME InputAssumption == Input \in Nat

\* A process that the command waits for; one of its group that it leaves behind; one that it leaves
\* in a group of its own.
HelperKinds == {"waited for", "left", "away"}
ASSUME HelpersAssumption == Helpers \subseteq HelperKinds

VARIABLES
    main,         \* where the call is
    result,       \* what it gives back
    cleanup,      \* the call runs even after Ctrl-C
    late,         \* `started.elapsed() >= limit`
    interrupted,  \* INTERRUPTED
    child,        \* the command; "exited" until the call has seen it
    helper,       \* what the command started: its kind while it runs
    unsent,       \* input the writing thread still has
    stdin,        \* input in the pipe
    pipe,         \* output in each pipe
    written,      \* output each pipe was ever given
    kept,         \* what each reading thread has kept
    thrown,       \* what it has read and thrown away
    reader        \* whether each reading thread reads, or has come to the end

call == <<main, result, cleanup>>
world == <<late, interrupted>>
processes == <<child, helper>>
sending == <<unsent, stdin>>
output == <<pipe, written, kept, thrown, reader>>
vars == <<call, world, processes, sending, output>>

Stream == {"out", "err"}

\* Some process has the output open.
Open == child = "running" \/ helper \in HelperKinds

Init ==
    /\ main = "begin"
    /\ result = "none"
    /\ cleanup \in BOOLEAN
    /\ late = FALSE
    /\ interrupted \in BOOLEAN
    /\ child = "none"
    /\ helper = "none"
    /\ unsent = Input
    /\ stdin = 0
    /\ pipe = [s \in Stream |-> 0]
    /\ written = [s \in Stream |-> 0]
    /\ kept = [s \in Stream |-> 0]
    /\ thrown = [s \in Stream |-> 0]
    /\ reader = [s \in Stream |-> "none"]

-----------------------------------------------------------------------------
(* The call. *)

Return(what) == main' = "returned" /\ result' = what

\* Refused after Ctrl-C, or the command could not be started.
DoNotStart ==
    /\ main = "begin"
    /\ Return(IF ~cleanup /\ interrupted THEN "not started" ELSE "failed")
    /\ UNCHANGED <<cleanup, world, processes, sending, output>>

Spawn ==
    /\ main = "begin"
    /\ cleanup \/ ~interrupted
    /\ main' = "polling"
    /\ child' = "running"
    /\ reader' = [s \in Stream |-> "reading"]
    /\ UNCHANGED <<result, cleanup, world, helper, sending, pipe, written, kept, thrown>>

SeeExit ==
    /\ main = "polling"
    /\ child = "exited"
    /\ main' = "joining"
    /\ child' = "reaped"
    /\ UNCHANGED <<result, cleanup, world, helper, sending, output>>

SeeRunning ==
    /\ main = "polling"
    /\ child = "running"
    /\ main' = "still running"
    /\ UNCHANGED <<result, cleanup, world, processes, sending, output>>

\* Mutant: the command alone is stopped, not its group.
StopChild ==
    /\ child' = "reaped"
    /\ UNCHANGED helper

\* stop: the command and everything in its process group.
Stop ==
    /\ child' = "reaped"
    /\ helper' = IF helper \in {"waited for", "left"} THEN "ended" ELSE helper

\* Mutant: the loop does not look whether Ctrl-C was pressed.
InterruptedNever == FALSE

\* Ctrl-C was pressed, and this is not cleanup.
Interrupted == ~cleanup /\ interrupted

StopForTime ==
    /\ main = "still running"
    /\ late
    /\ Stop
    /\ main' = "joining"
    /\ result' = "stopped"
    /\ UNCHANGED <<cleanup, world, sending, output>>

\* The reading threads are left to themselves.
StopForCtrlC ==
    /\ main = "still running"
    /\ ~late /\ Interrupted
    /\ Stop
    /\ Return("ctrl-c")
    /\ UNCHANGED <<cleanup, world, sending, output>>

Sleep ==
    /\ main = "still running"
    /\ ~late /\ ~Interrupted
    /\ main' = "polling"
    /\ UNCHANGED <<result, cleanup, world, processes, sending, output>>

Cut == \E s \in Stream : thrown[s] > 0

\* Mutant: output is taken as it is once the command has been seen to exit.
JoinNot ==
    /\ main = "joining"
    /\ Return(IF result = "stopped" THEN "stopped" ELSE IF Cut THEN "cut" ELSE "whole")
    /\ UNCHANGED <<cleanup, world, processes, sending, output>>

\* Both reading threads joined; then `finished`.
Join ==
    /\ main = "joining"
    /\ \A s \in Stream : reader[s] = "done"
    /\ Return(IF result = "stopped" THEN "stopped" ELSE IF Cut THEN "cut" ELSE "whole")
    /\ UNCHANGED <<cleanup, world, processes, sending, output>>

Call == DoNotStart \/ Spawn \/ SeeExit \/ SeeRunning \/ StopForTime \/ StopForCtrlC \/ Sleep \/ Join

-----------------------------------------------------------------------------
(* The threads. *)

\* The thread that writes, which nobody waits for; a pipe nobody reads ends it.
WriteInput ==
    /\ child # "none"
    /\ unsent > 0
    /\ IF Open
       THEN /\ stdin < Room
            /\ stdin' = stdin + 1
            /\ unsent' = unsent - 1
       ELSE /\ unsent' = 0
            /\ UNCHANGED stdin
    /\ UNCHANGED <<call, world, processes, output>>

\* Mutant: reading ends at the limit, and the pipe is left to fill.
ReadToLimit(s) ==
    /\ reader[s] = "reading"
    /\ pipe[s] > 0
    /\ kept[s] < Limit
    /\ pipe' = [pipe EXCEPT ![s] = @ - 1]
    /\ kept' = [kept EXCEPT ![s] = @ + 1]
    /\ UNCHANGED <<call, world, processes, sending, written, thrown, reader>>

\* read_capped: a unit is kept below the limit and thrown away past it.
Read(s) ==
    /\ reader[s] = "reading"
    /\ pipe[s] > 0
    /\ pipe' = [pipe EXCEPT ![s] = @ - 1]
    /\ IF kept[s] < Limit
       THEN kept' = [kept EXCEPT ![s] = @ + 1] /\ UNCHANGED thrown
       ELSE thrown' = [thrown EXCEPT ![s] = @ + 1] /\ UNCHANGED kept
    /\ UNCHANGED <<call, world, processes, sending, written, reader>>

EndOfOutput(s) ==
    /\ reader[s] = "reading"
    /\ pipe[s] = 0
    /\ ~Open
    /\ reader' = [reader EXCEPT ![s] = "done"]
    /\ UNCHANGED <<call, world, processes, sending, pipe, written, kept, thrown>>

-----------------------------------------------------------------------------
(* The command, the clock and Ctrl-C. *)

Emit(s) ==
    /\ Open
    /\ pipe[s] < Room
    /\ written[s] < MaxOutput
    /\ pipe' = [pipe EXCEPT ![s] = @ + 1]
    /\ written' = [written EXCEPT ![s] = @ + 1]
    /\ UNCHANGED <<call, world, processes, sending, kept, thrown, reader>>

TakeInput ==
    /\ Open
    /\ stdin > 0
    /\ stdin' = stdin - 1
    /\ UNCHANGED <<call, world, processes, unsent, output>>

StartHelper ==
    /\ child = "running"
    /\ helper = "none"
    /\ helper' \in Helpers
    /\ UNCHANGED <<call, world, child, sending, output>>

HelperEnds ==
    /\ helper \in HelperKinds
    /\ helper' = "ended"
    /\ UNCHANGED <<call, world, child, sending, output>>

Exit ==
    /\ child = "running"
    /\ helper # "waited for"
    /\ child' = "exited"
    /\ UNCHANGED <<call, world, helper, sending, output>>

TimePasses ==
    /\ child # "none"
    /\ late' = TRUE
    /\ UNCHANGED <<call, interrupted, processes, sending, output>>

CtrlC ==
    /\ interrupted' = TRUE
    /\ UNCHANGED <<call, late, processes, sending, output>>

Next ==
    \/ Call
    \/ WriteInput
    \/ \E s \in Stream : Read(s) \/ EndOfOutput(s) \/ Emit(s)
    \/ TakeInput \/ StartHelper \/ HelperEnds \/ Exit
    \/ TimePasses \/ CtrlC

Spec == Init /\ [][Next]_vars

\* The call and its threads go on; the command, what it starts and the clock may stand still.
Fairness ==
    /\ WF_vars(Call)
    /\ WF_vars(WriteInput)
    /\ \A s \in Stream : WF_vars(Read(s)) /\ WF_vars(EndOfOutput(s))

FairSpec == Spec /\ Fairness

-----------------------------------------------------------------------------
(* Properties. *)

Results == {"none", "not started", "failed", "stopped", "ctrl-c", "cut", "whole"}

\* The state is well formed, and no more is kept of a stream than OUTPUT_LIMIT.
TypeOK ==
    /\ main \in {"begin", "polling", "still running", "joining", "returned"}
    /\ result \in Results
    /\ cleanup \in BOOLEAN /\ late \in BOOLEAN /\ interrupted \in BOOLEAN
    /\ child \in {"none", "running", "exited", "reaped"}
    /\ helper \in {"none", "ended"} \union HelperKinds
    /\ unsent \in 0..Input /\ stdin \in 0..Room
    /\ pipe \in [Stream -> 0..Room]
    /\ written \in [Stream -> 0..MaxOutput]
    /\ kept \in [Stream -> 0..Limit]
    /\ thrown \in [Stream -> 0..MaxOutput]
    /\ reader \in [Stream -> {"none", "reading", "done"}]

\* Output handed on as a command's whole output is all that the command, and everything it
\* started, ever printed: nothing is in a pipe, and nobody can print more ("cut output is never
\* handed on", finished).
WholeIsWhole ==
    result = "whole" => ~Open /\ \A s \in Stream : kept[s] = written[s]

\* A command stopped for time or with Ctrl-C leaves nothing running of its process group
\* ("stopping it stops what it started too", run_bounded_with_input).
StoppedLeavesNothing ==
    result \in {"stopped", "ctrl-c"} => child = "reaped" /\ helper \in {"none", "ended", "away"}

\* What the command left behind when it ended still has its output open.
HeldOpen == child = "reaped" /\ helper \in {"left", "away"}

\* Once the limit has passed, and once Ctrl-C was pressed and this is not cleanup, the call returns,
\* whether the command ever exits or not and whatever it has printed, unless something that the
\* command left behind holds its output ("for at most `limit`", run_bounded_with_input).
Returns == (late \/ (interrupted /\ ~cleanup)) ~> (main = "returned" \/ HeldOpen)

\* A command is never left waiting on a full pipe, however much it prints and however little of its
\* input it reads ("read and thrown away, so the command is never left waiting on a full pipe",
\* OUTPUT_LIMIT).
NeverLeftWaiting == \A s \in Stream : pipe[s] = Room ~> pipe[s] < Room
=============================================================================
