----------------------------- MODULE McpServer ------------------------------
(***************************************************************************)
(* One `sv mcp` process, and the record of the build loop it keeps         *)
(* (mcp/mod.rs, mcp/tools.rs and build_loop.rs in crates/sv-cli/src).      *)
(*                                                                         *)
(* Requests are answered one at a time.  A tool that checks the app does   *)
(* so on a thread of its own, which nothing can stop: when the time runs   *)
(* out the call is answered and the thread goes on.  What a check came to  *)
(* is left in the server's fields for the one place that writes a call     *)
(* down, `write_line`, and so is what was handed over without naming an    *)
(* app.  Whoever edits stackvet.toml turns the record off and on at any    *)
(* moment.                                                                 *)
(*                                                                         *)
(* Calls are numbered; a check is known by the call that started it, and a *)
(* check's counts and fingerprints, kept and taken together, by its check. *)
(* A request that changes no field (a list, a ping, malformed arguments)   *)
(* is a stuttering step.                                                   *)
(***************************************************************************)
EXTENDS Integers, Sequences, FiniteSets

CONSTANTS
    App,       \* the apps under the server's root that have a stackvet.toml
    NoApp,     \* a folder without one, or none that can be resolved
    Thing,     \* what may be handed over: instructions, prompts, report files
    MaxNames,  \* how many of them the server keeps for the next line
    Capacity,  \* how many lines a record takes before it is full
    MaxCalls,  \* bound: how many requests are made
    Faults     \* which misfortunes may happen

ASSUME AppsAssumption == NoApp \notin App
ASSUME BoundsAssumption == MaxNames \in Nat /\ Capacity \in Nat /\ MaxCalls \in Nat
ASSUME FaultsAssumption ==
    Faults \subseteq {"spawn", "panic", "write", "off", "restart"}

VARIABLES
    serving,      \* where the server is in answering a request
    request,      \* the call it is answering
    calls,        \* how many there have been
    thread,       \* the check each call started
    lastCheck,    \* the call whose check the server still has the handle of
    lastCounts,   \* the call whose check's counts wait to be written down
    lastOutcome,  \* how a check that gave no answer ended
    handed,       \* what waits for the next line
    notedOff,     \* the apps whose record is known to be off
    line,         \* the line about to be written
    record,       \* each app's record, on the disk
    unwritten,    \* how many lines this process could not write there
    off,          \* whether stackvet.toml turns the record off
    kept          \* history: how often each thing was put into `handed`

checkVars == <<thread, lastCheck, lastCounts, lastOutcome>>
noteVars == <<handed, notedOff, kept>>
diskVars == <<line, record, unwritten>>
vars == <<serving, request, calls, checkVars, noteVars, diskVars, off>>

Call == 1..MaxCalls

NoLine == [call |-> 0, app |-> NoApp, counts |-> 0, outcome |-> "none",
           handed |-> {}, off |-> FALSE]

Asked(c, a, o) == [call |-> c, app |-> a, outcome |-> o]

NoRequest == Asked(0, NoApp, "none")

Init ==
    /\ serving = "idle"
    /\ request = NoRequest
    /\ calls = 0
    /\ thread = [c \in Call |-> "none"]
    /\ lastCheck = 0
    /\ lastCounts = 0
    /\ lastOutcome = "none"
    /\ handed = {}
    /\ notedOff = {}
    /\ line = NoLine
    /\ record = [a \in App |-> <<>>]
    /\ unwritten = [a \in App |-> 0]
    /\ off \in [App -> BOOLEAN]
    /\ kept = [t \in Thing |-> 0]

-----------------------------------------------------------------------------
(* Receiving a request                                                     *)

Receive(a, o, phase) ==
    /\ serving = "idle"
    /\ calls < MaxCalls
    /\ calls' = calls + 1
    /\ request' = IF phase = "idle" THEN NoRequest ELSE Asked(calls', a, o)
    /\ serving' = phase
    /\ UNCHANGED <<checkVars, diskVars, off>>

(* hand_over: each thing once, and no more than MaxNames of them.          *)
HandOver(t) ==
    LET new == t \notin handed /\ Cardinality(handed) < MaxNames
    IN  /\ handed' = IF new THEN handed \cup {t} ELSE handed
        /\ kept' = IF new THEN [kept EXCEPT ![t] = @ + 1] ELSE kept
        /\ UNCHANGED notedOff

(* initialize and prompts/get name no app, so no line is written.          *)
Hand == \E t \in Thing : HandOver(t) /\ Receive(NoApp, "none", "idle")

(* resources/read: a line of its own when the report is in an app's folder. *)
ReadReport ==
    \E t \in Thing, a \in App \cup {NoApp} :
        /\ HandOver(t)
        /\ Receive(a, "ok", IF a = NoApp THEN "idle" ELSE "answer")

(* A tool that checks nothing, or a tool `sv` does not have.               *)
CallTool ==
    \E a \in App \cup {NoApp}, o \in {"ok", "failed", "refused"} :
        Receive(a, o, "answer") /\ UNCHANGED noteVars

(* A tool that checks the app.                                             *)
CallCheck ==
    \E a \in App \cup {NoApp} : Receive(a, "failed", "check") /\ UNCHANGED noteVars

-----------------------------------------------------------------------------
(* report_for                                                              *)

Answer(o) ==
    /\ serving' = "answer"
    /\ request' = [request EXCEPT !.outcome = o]

Busy(c) == thread[c] \in {"running", "sent", "sent badly"}

LastCheckGoing == lastCheck \in {c \in Call : Busy(c)}

(* No manifest, the last check still at it, or no thread to be had.        *)
NoCheckStarted ==
    /\ serving = "check"
    /\ \/ request.app = NoApp
       \/ LastCheckGoing
       \/ "spawn" \in Faults
    /\ Answer("failed")
    /\ UNCHANGED <<calls, checkVars, noteVars, diskVars, off>>

StartCheck ==
    /\ serving = "check"
    /\ request.app # NoApp
    /\ ~LastCheckGoing
    /\ thread' = [thread EXCEPT ![request.call] = "running"]
    /\ lastCheck' = request.call
    /\ serving' = "waiting"
    /\ UNCHANGED <<request, calls, lastCounts, lastOutcome, noteVars, diskVars, off>>

(* Its report came, and the thread is waited for.  The tool may still fail *)
(* on what it does with a report that is there.                            *)
CheckDone ==
    /\ serving = "waiting"
    /\ \/ /\ thread[request.call] = "ended"
          /\ lastCounts' = request.call
          /\ \E o \in {"ok", "failed"} : Answer(o)
       \/ /\ thread[request.call] = "ended badly"
          /\ Answer("failed")
          /\ UNCHANGED lastCounts
    /\ lastCheck' = 0
    /\ UNCHANGED <<calls, thread, lastOutcome, noteVars, diskVars, off>>

(* Mutants: the time limit is not kept; the handle is let go of with it.   *)
CheckTimesOutNever == FALSE /\ UNCHANGED vars

CheckTimesOutForgotten ==
    /\ serving = "waiting"
    /\ thread[request.call] = "running"
    /\ lastOutcome' = "timed-out"
    /\ lastCheck' = 0
    /\ Answer("failed")
    /\ UNCHANGED <<calls, thread, lastCounts, noteVars, diskVars, off>>

(* The time ran out with no report sent: the thread's handle is kept.      *)
CheckTimesOut ==
    /\ serving = "waiting"
    /\ thread[request.call] = "running"
    /\ lastOutcome' = "timed-out"
    /\ Answer("failed")
    /\ UNCHANGED <<calls, thread, lastCheck, lastCounts, noteVars, diskVars, off>>

CheckCrashed ==
    /\ serving = "waiting"
    /\ thread[request.call] = "crashed"
    /\ lastOutcome' = "crashed"
    /\ lastCheck' = 0
    /\ Answer("failed")
    /\ UNCHANGED <<calls, thread, lastCounts, noteVars, diskVars, off>>

-----------------------------------------------------------------------------
(* write_line, and `record` in build_loop.rs                               *)

(* What the last check left is taken, whether or not a line comes of it.   *)
TakeLast == lastCounts' = 0 /\ lastOutcome' = "none"

ThisLine ==
    [call |-> request.call,
     app |-> request.app,
     counts |-> lastCounts,
     outcome |-> IF lastOutcome # "none" THEN lastOutcome ELSE request.outcome,
     handed |-> handed,
     off |-> FALSE]

NotedLine == [NoLine EXCEPT !.call = request.call, !.app = request.app, !.off = TRUE]

Unwriteable == {NoApp} \cup {a \in notedOff : off[a]}

Answered == serving' = "idle" /\ request' = NoRequest

(* Mutant: the server returns before it takes what a check left.           *)
NoLineLeavesLast ==
    /\ serving = "answer"
    /\ request.app \in Unwriteable
    /\ Answered
    /\ UNCHANGED <<calls, checkVars, noteVars, diskVars, off>>

(* No app to write for, or its record is off and that has been noted.      *)
NoLineWritten ==
    /\ serving = "answer"
    /\ request.app \in Unwriteable
    /\ TakeLast
    /\ Answered
    /\ UNCHANGED <<calls, thread, lastCheck, noteVars, diskVars, off>>

NoteOff ==
    /\ serving = "answer"
    /\ request.app # NoApp
    /\ off[request.app]
    /\ request.app \notin notedOff
    /\ TakeLast
    /\ notedOff' = notedOff \cup {request.app}
    /\ line' = NotedLine
    /\ serving' = "recording"
    /\ UNCHANGED <<request, calls, thread, lastCheck, handed, kept, record, unwritten, off>>

(* Mutant: what was handed over stays where it was.                        *)
MakeLineKeepsHanded ==
    /\ serving = "answer"
    /\ request.app # NoApp
    /\ ~off[request.app]
    /\ TakeLast
    /\ notedOff' = notedOff \ {request.app}
    /\ line' = ThisLine
    /\ serving' = "recording"
    /\ UNCHANGED <<request, calls, thread, lastCheck, handed, kept, record, unwritten, off>>

(* Mutant: that the record was off stays noted when it is written again.   *)
MakeLineStaysNoted ==
    /\ serving = "answer"
    /\ request.app # NoApp
    /\ ~off[request.app]
    /\ TakeLast
    /\ line' = ThisLine
    /\ handed' = {}
    /\ serving' = "recording"
    /\ UNCHANGED <<request, calls, thread, lastCheck, notedOff, kept, record, unwritten, off>>

MakeLine ==
    /\ serving = "answer"
    /\ request.app # NoApp
    /\ ~off[request.app]
    /\ TakeLast
    /\ notedOff' = notedOff \ {request.app}
    /\ line' = ThisLine
    /\ handed' = {}
    /\ serving' = "recording"
    /\ UNCHANGED <<request, calls, thread, lastCheck, kept, record, unwritten, off>>

(* stackvet.toml is read again before the line is appended; a full record  *)
(* takes no more, without a word.                                          *)
LeftOut == (off[line.app] /\ ~line.off) \/ Len(record[line.app]) >= Capacity

Append1(a, l) == record' = [record EXCEPT ![a] = Append(@, l)]

Record ==
    /\ serving = "recording"
    /\ IF LeftOut THEN UNCHANGED record ELSE Append1(line.app, line)
    /\ line' = NoLine
    /\ Answered
    /\ UNCHANGED <<calls, checkVars, noteVars, unwritten, off>>

(* The folder, or the record in it, could not be written.                  *)
RecordFails ==
    /\ "write" \in Faults
    /\ serving = "recording"
    /\ ~(off[line.app] /\ ~line.off)
    /\ unwritten' = [unwritten EXCEPT ![line.app] = @ + 1]
    /\ line' = NoLine
    /\ Answered
    /\ UNCHANGED <<calls, checkVars, noteVars, record, off>>

-----------------------------------------------------------------------------
(* The check's thread, and what happens around the server.                 *)

Thread(c, from, to) ==
    /\ thread[c] = from
    /\ thread' = [thread EXCEPT ![c] = to]
    /\ UNCHANGED <<serving, request, calls, lastCheck, lastCounts, lastOutcome,
                   noteVars, diskVars, off>>

Sends(c) == Thread(c, "running", "sent") \/ Thread(c, "running", "sent badly")

Ends(c) == Thread(c, "sent", "ended") \/ Thread(c, "sent badly", "ended badly")

Panics(c) == "panic" \in Faults /\ Thread(c, "running", "crashed")

TurnOffOrOn ==
    /\ "off" \in Faults
    /\ \E a \in App : off' = [off EXCEPT ![a] = ~@]
    /\ UNCHANGED <<serving, request, calls, checkVars, noteVars, diskVars>>

(* The AI coding tool starts another server: what this one had is lost.    *)
Restart ==
    /\ "restart" \in Faults
    /\ serving' = "idle"
    /\ request' = NoRequest
    /\ thread' = [c \in Call |-> IF thread[c] = "none" THEN "none" ELSE "ended"]
    /\ lastCheck' = 0
    /\ lastCounts' = 0
    /\ lastOutcome' = "none"
    /\ handed' = {}
    /\ notedOff' = {}
    /\ line' = NoLine
    /\ unwritten' = [a \in App |-> 0]
    /\ UNCHANGED <<calls, record, off, kept>>

Serve ==
    \/ NoCheckStarted \/ StartCheck \/ CheckDone \/ CheckTimesOut \/ CheckCrashed
    \/ NoLineWritten \/ NoteOff \/ MakeLine \/ Record \/ RecordFails

Next ==
    \/ Hand \/ ReadReport \/ CallTool \/ CallCheck
    \/ Serve
    \/ \E c \in Call : Sends(c) \/ Ends(c) \/ Panics(c)
    \/ TurnOffOrOn \/ Restart

Spec == Init /\ [][Next]_vars

(* The server and the end of a thread that has sent its report are run; a  *)
(* check need never finish.                                                *)
Fairness == WF_vars(Serve) /\ \A c \in Call : WF_vars(Ends(c))

FairSpec == Spec /\ Fairness

-----------------------------------------------------------------------------
Outcome == {"none", "ok", "failed", "refused", "timed-out", "crashed"}

State == {"none", "running", "sent", "sent badly", "ended", "ended badly", "crashed"}

Line == [call : 0..MaxCalls, app : App \cup {NoApp}, counts : 0..MaxCalls,
         outcome : Outcome, handed : SUBSET Thing, off : BOOLEAN]

(* What each variable may hold; a line waits exactly while it is written.  *)
TypeOK ==
    /\ serving \in {"idle", "check", "waiting", "answer", "recording"}
    /\ request \in [call : 0..MaxCalls, app : App \cup {NoApp}, outcome : Outcome]
    /\ calls \in 0..MaxCalls
    /\ thread \in [Call -> State]
    /\ lastCheck \in 0..MaxCalls
    /\ lastCounts \in 0..MaxCalls
    /\ lastOutcome \in {"none", "timed-out", "crashed"}
    /\ handed \in SUBSET Thing
    /\ Cardinality(handed) <= MaxNames
    /\ notedOff \in SUBSET App
    /\ line \in Line
    /\ record \in [App -> Seq(Line)]
    /\ unwritten \in [App -> Nat]
    /\ off \in [App -> BOOLEAN]
    /\ kept \in [Thing -> Nat]
    /\ serving = "recording" <=> line # NoLine

(* "Until it ends, another check is refused rather than started beside it" *)
(* (tools.rs:31): no two checks run at once, also when calls have run out  *)
(* of time and their checks go on.                                         *)
OneCheckAtATime == \A c, d \in Call : Busy(c) /\ Busy(d) => c = d

TrueLine(l) ==
    /\ l.counts \in {0, l.call}
    /\ l.outcome \in {"timed-out", "crashed"} =>
           l.counts = 0 /\ l.call \in Call /\ thread[l.call] # "none"

(* A line says of a call what that call's own check came to, and that it   *)
(* timed out or crashed only when it did: nothing an earlier call left     *)
(* behind is written down for a later one, or for another app.             *)
LineIsOfItsCall ==
    \A a \in App : \A i \in DOMAIN record[a] : TrueLine(record[a][i])

Carrying(t) ==
    Cardinality({c \in Call : \E a \in App : \E i \in DOMAIN record[a] :
                     record[a][i].call = c /\ t \in record[a][i].handed})

(* What was handed over is written down no more often than it was.         *)
HandedOnce == \A t \in Thing : Carrying(t) <= kept[t]

(* "Noted once, so the gap is seen as one": while calls go unwritten       *)
(* because a record is off, the last line there says so, unless it could   *)
(* not be written, which is counted, or the record is full.                *)
GapIsSeen ==
    \A a \in notedOff :
        \/ line.app = a
        \/ record[a] # <<>> /\ record[a][Len(record[a])].off
        \/ unwritten[a] > 0
        \/ Len(record[a]) >= Capacity

(* Every request is answered, however long its check takes: the server     *)
(* comes back to where it can be asked again.                              *)
EveryCallAnswered == []<>(serving = "idle")
=============================================================================
