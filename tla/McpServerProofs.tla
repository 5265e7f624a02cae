-------------------------- MODULE McpServerProofs ---------------------------
(***************************************************************************)
(* Proofs about the MCP server, for any number of apps, calls and things   *)
(* handed over.                                                            *)
(***************************************************************************)
EXTENDS McpServer, FiniteSetTheorems, TLAPS

(* What a check left is there only until the call that ran it is answered. *)
LastIsOfThisCall ==
    /\ serving # "answer" => lastCounts = 0 /\ lastOutcome = "none"
    /\ lastCounts \in {0, request.call}
    /\ lastOutcome # "none" => lastCounts = 0 /\ thread[request.call] # "none"

(* The only check that may be going is the one whose handle is kept.       *)
HandleKept ==
    /\ \A c \in Call : Busy(c) => c = lastCheck
    /\ serving = "waiting" => lastCheck = request.call

RequestOK ==
    /\ serving # "idle" => request.call \in Call
    /\ request.outcome \notin {"timed-out", "crashed"}

LineOK ==
    /\ serving # "recording" => line = NoLine
    /\ serving = "recording" => line.call \in Call /\ line.app \in App
    /\ ~line.off => line.app \notin notedOff
    /\ TrueLine(line)

Inv ==
    /\ TypeOK
    /\ IsFiniteSet(handed)
    /\ RequestOK
    /\ HandleKept
    /\ LastIsOfThisCall
    /\ LineOK
    /\ LineIsOfItsCall
    /\ GapIsSeen

LEMMA InitInv == Init => Inv
<1> SUFFICES ASSUME Init PROVE Inv
  OBVIOUS
<1> USE AppsAssumption, BoundsAssumption DEF Init, Call, NoLine, NoRequest, Asked
<1>1. IsFiniteSet(handed) /\ Cardinality(handed) = 0
  BY FS_EmptySet
<1>2. TypeOK
  BY <1>1 DEF TypeOK, Line, Outcome, State
<1>3. RequestOK /\ HandleKept /\ LastIsOfThisCall /\ LineOK /\ LineIsOfItsCall /\ GapIsSeen
  BY DEF RequestOK, HandleKept, Busy, LastIsOfThisCall, LineOK, TrueLine,
         LineIsOfItsCall, GapIsSeen
<1> QED BY <1>1, <1>2, <1>3 DEF Inv

LEMMA HandedStaysFew ==
    ASSUME NEW t \in Thing, Inv, HandOver(t)
    PROVE  /\ handed' \in SUBSET Thing
           /\ kept' \in [Thing -> Nat]
           /\ IsFiniteSet(handed')
           /\ Cardinality(handed') <= MaxNames
           /\ notedOff' = notedOff
<1>1. /\ IsFiniteSet(handed) /\ Cardinality(handed) \in Nat
      /\ handed \in SUBSET Thing /\ Cardinality(handed) <= MaxNames
      /\ kept \in [Thing -> Nat]
  BY FS_CardinalityType DEF Inv, TypeOK
<1>2. IsFiniteSet(handed \cup {t})
  BY <1>1, FS_AddElement
<1>3. t \notin handed => Cardinality(handed \cup {t}) = Cardinality(handed) + 1
  BY <1>1, FS_AddElement
<1> QED BY <1>1, <1>2, <1>3, BoundsAssumption DEF HandOver

(* What a step changes, by the part of the server it is in.                *)
Receiving == Hand \/ ReadReport \/ CallTool \/ CallCheck
Checking == NoCheckStarted \/ StartCheck \/ CheckDone \/ CheckTimesOut \/ CheckCrashed
Writing == NoLineWritten \/ NoteOff \/ MakeLine \/ Record \/ RecordFails
Around == (\E c \in Call : Sends(c) \/ Ends(c) \/ Panics(c)) \/ TurnOffOrOn \/ Restart

LEMMA NextParts ==
    [Next]_vars => Receiving \/ Checking \/ Writing \/ Around \/ UNCHANGED vars
BY DEF Next, Serve, Receiving, Checking, Writing, Around

(* A request is taken in, or kept, or answered.                            *)
LEMMA ReceivingStep ==
    ASSUME Inv, Receiving
    PROVE  /\ serving = "idle" /\ serving' \in {"idle", "answer", "check"}
           /\ calls' \in 0..MaxCalls
           /\ request' \in [call : 0..MaxCalls, app : App \cup {NoApp}, outcome : Outcome]
           /\ request'.outcome \in {"none", "ok", "failed", "refused"}
           /\ serving' # "idle" => request'.call \in Call
           /\ handed' \in SUBSET Thing /\ kept' \in [Thing -> Nat]
           /\ IsFiniteSet(handed') /\ Cardinality(handed') <= MaxNames
           /\ UNCHANGED <<checkVars, diskVars, notedOff, off>>
<1>1. /\ calls \in 0..MaxCalls /\ handed \in SUBSET Thing /\ kept \in [Thing -> Nat]
      /\ IsFiniteSet(handed) /\ Cardinality(handed) <= MaxNames
  BY DEF Inv, TypeOK
<1>2. ASSUME NEW a \in App \cup {NoApp}, NEW o \in {"none", "ok", "failed", "refused"},
             NEW phase \in {"idle", "answer", "check"}, Receive(a, o, phase)
      PROVE  /\ serving = "idle" /\ serving' \in {"idle", "answer", "check"}
             /\ calls' \in 0..MaxCalls
             /\ request' \in [call : 0..MaxCalls, app : App \cup {NoApp}, outcome : Outcome]
             /\ request'.outcome \in {"none", "ok", "failed", "refused"}
             /\ serving' # "idle" => request'.call \in Call
             /\ UNCHANGED <<checkVars, diskVars, off>>
  BY <1>1, <1>2, BoundsAssumption DEF Receive, NoRequest, Asked, Call, Outcome
<1>3. CASE Hand
  BY <1>2, <1>3, HandedStaysFew DEF Hand
<1>4. CASE ReadReport
  BY <1>2, <1>4, HandedStaysFew DEF ReadReport
<1>5. CASE CallTool
  BY <1>1, <1>2, <1>5 DEF CallTool, noteVars
<1>6. CASE CallCheck
  BY <1>1, <1>2, <1>6 DEF CallCheck, noteVars
<1> QED BY <1>3, <1>4, <1>5, <1>6 DEF Receiving

LEMMA LinesTyped ==
    ASSUME Inv, serving = "answer", request.app # NoApp
    PROVE  /\ NoLine \in Line /\ NotedLine \in Line /\ ThisLine \in Line
           /\ NotedLine # NoLine /\ ThisLine # NoLine
BY BoundsAssumption
DEF Inv, TypeOK, RequestOK, Line, NoLine, NotedLine, ThisLine, Call, Outcome

LEMMA TypedStep ==
    ASSUME Inv, [Next]_vars
    PROVE  TypeOK' /\ IsFiniteSet(handed)' /\ RequestOK'
<1> USE AppsAssumption, BoundsAssumption
<1>n. NoLine \in Line
  BY DEF NoLine, Line, Outcome
<1>e. IsFiniteSet({}) /\ Cardinality({}) = 0
  BY FS_EmptySet
<1>q. /\ NoRequest \in [call : 0..MaxCalls, app : App \cup {NoApp}, outcome : Outcome]
      /\ NoRequest.outcome = "none"
  BY DEF NoRequest, Asked, Outcome
<1>1. CASE Receiving
  BY <1>1, ReceivingStep DEF Inv, TypeOK, RequestOK, checkVars, diskVars
<1>2. CASE Checking
  <2> USE DEF Inv, TypeOK, RequestOK, checkVars, noteVars, diskVars
  <2>0. ASSUME NEW o \in {"ok", "failed"}, Answer(o), serving # "idle", serving # "recording"
        PROVE  /\ request' \in [call : 0..MaxCalls, app : App \cup {NoApp}, outcome : Outcome]
               /\ serving' = "answer" /\ RequestOK'
    BY <2>0 DEF Answer, Outcome
  <2>1. CASE NoCheckStarted
    BY <2>0, <2>1 DEF NoCheckStarted
  <2>2. CASE StartCheck
    BY <2>2 DEF StartCheck, State, Call
  <2>3. CASE CheckDone
    <3>1. lastCounts' \in 0..MaxCalls /\ lastCheck' \in 0..MaxCalls
      <4>1. request.call \in 0..MaxCalls /\ lastCounts \in 0..MaxCalls /\ 0 \in 0..MaxCalls
        OBVIOUS
      <4>2. lastCounts' \in {request.call, lastCounts} /\ lastCheck' = 0
        BY <2>3 DEF CheckDone
      <4> QED BY <4>1, <4>2
    <3>2. PICK o \in {"ok", "failed"} : Answer(o)
      BY <2>3 DEF CheckDone
    <3> QED BY <2>0, <2>3, <3>1, <3>2 DEF CheckDone
  <2>4. CASE CheckTimesOut
    BY <2>0, <2>4 DEF CheckTimesOut
  <2>5. CASE CheckCrashed
    BY <2>0, <2>5 DEF CheckCrashed
  <2> QED BY <1>2, <2>1, <2>2, <2>3, <2>4, <2>5 DEF Checking
<1>3. CASE Writing
  <2>1. CASE NoLineWritten
    BY <2>1 DEF NoLineWritten, Answered, TakeLast, NoRequest, Asked, Inv, TypeOK, RequestOK,
                Outcome, noteVars, diskVars
  <2>2. CASE NoteOff
    BY <2>2, LinesTyped DEF NoteOff, TakeLast, Inv, TypeOK, RequestOK
  <2>3. CASE MakeLine
    BY <2>3, <1>e, LinesTyped DEF MakeLine, TakeLast, Inv, TypeOK, RequestOK
  <2>4. CASE Record
    <3>1. line \in Line /\ line.app \in App /\ record \in [App -> Seq(Line)]
      BY <2>4 DEF Record, Inv, TypeOK, LineOK
    <3>2. Append(record[line.app], line) \in Seq(Line)
      BY <3>1
    <3>3. record' \in [App -> Seq(Line)]
      BY <2>4, <3>1, <3>2 DEF Record, Append1
    <3> QED
      BY <2>4, <3>3, <1>n, <1>q DEF Record, Answered, Inv, TypeOK, RequestOK, checkVars, noteVars
  <2>5. CASE RecordFails
    <3>1. unwritten' \in [App -> Nat]
      BY <2>5 DEF RecordFails, Inv, TypeOK, LineOK
    <3> QED
      BY <2>5, <3>1, <1>n, <1>q DEF RecordFails, Answered, Inv, TypeOK, RequestOK, checkVars, noteVars
  <2> QED BY <1>3, <2>1, <2>2, <2>3, <2>4, <2>5 DEF Writing
<1>4. CASE Around
  <2>1. ASSUME NEW c \in Call, Sends(c) \/ Ends(c) \/ Panics(c)
        PROVE  TypeOK' /\ IsFiniteSet(handed)' /\ RequestOK'
    BY <2>1 DEF Sends, Ends, Panics, Thread, Inv, TypeOK, RequestOK, State, noteVars, diskVars
  <2>2. CASE TurnOffOrOn
    BY <2>2 DEF TurnOffOrOn, Inv, TypeOK, RequestOK, checkVars, noteVars, diskVars
  <2>3. CASE Restart
    <3>1. thread' \in [Call -> State]
      BY <2>3 DEF Restart, State
    <3>2. unwritten' \in [App -> Nat]
      BY <2>3 DEF Restart
    <3> QED BY <2>3, <3>1, <3>2, <1>n, <1>e, <1>q DEF Restart, Inv, TypeOK, RequestOK
  <2> QED BY <1>4, <2>1, <2>2, <2>3 DEF Around
<1>5. CASE UNCHANGED vars
  BY <1>5 DEF vars, Inv, TypeOK, RequestOK, checkVars, noteVars, diskVars
<1> QED BY <1>1, <1>2, <1>3, <1>4, <1>5, NextParts

(* A check never goes back to not having been started.                     *)
LEMMA StartedStays ==
    ASSUME Inv, [Next]_vars, NEW c \in Call, thread[c] # "none"
    PROVE  thread'[c] # "none"
<1>1. CASE Receiving
  BY <1>1, ReceivingStep DEF checkVars
<1>2. CASE Checking
  BY <1>2 DEF Checking, NoCheckStarted, StartCheck, CheckDone, CheckTimesOut, CheckCrashed,
              Inv, TypeOK, checkVars
<1>3. CASE Writing
  BY <1>3 DEF Writing, NoLineWritten, NoteOff, MakeLine, Record, RecordFails, checkVars
<1>4. CASE Around
  BY <1>4 DEF Around, Sends, Ends, Panics, Thread, TurnOffOrOn, Restart, Inv, TypeOK, checkVars
<1>5. CASE UNCHANGED vars
  BY <1>5 DEF vars, checkVars
<1> QED BY <1>1, <1>2, <1>3, <1>4, <1>5, NextParts

LEMMA HandleStep ==
    ASSUME Inv, [Next]_vars
    PROVE  HandleKept'
<1> USE DEF Inv, HandleKept, Busy
<1>1. CASE Receiving
  BY <1>1, ReceivingStep DEF checkVars
<1>2. CASE Checking
  BY <1>2 DEF Checking, NoCheckStarted, StartCheck, LastCheckGoing, CheckDone, CheckTimesOut,
              CheckCrashed, Answer, TypeOK, RequestOK, checkVars
<1>3. CASE Writing
  BY <1>3 DEF Writing, NoLineWritten, NoteOff, MakeLine, Record, RecordFails, Answered, checkVars
<1>4. CASE Around
  BY <1>4 DEF Around, Sends, Ends, Panics, Thread, TurnOffOrOn, Restart, TypeOK, checkVars
<1>5. CASE UNCHANGED vars
  BY <1>5 DEF vars, checkVars
<1> QED BY <1>1, <1>2, <1>3, <1>4, <1>5, NextParts

LEMMA LastStep ==
    ASSUME Inv, [Next]_vars
    PROVE  LastIsOfThisCall'
<1> USE DEF Inv, LastIsOfThisCall
<1>1. CASE Receiving
  BY <1>1, ReceivingStep DEF checkVars
<1>2. CASE Checking
  BY <1>2 DEF Checking, NoCheckStarted, StartCheck, CheckDone, CheckTimesOut, CheckCrashed,
              Answer, TypeOK, RequestOK, checkVars
<1>3. CASE Writing
  BY <1>3 DEF Writing, NoLineWritten, NoteOff, MakeLine, Record, RecordFails, Answered, TakeLast,
              NoRequest, Asked, checkVars
<1>4. CASE Around
  BY <1>4, StartedStays DEF Around, Sends, Ends, Panics, Thread, TurnOffOrOn, Restart, NoRequest,
              Asked, RequestOK, TypeOK, checkVars
<1>5. CASE UNCHANGED vars
  BY <1>5 DEF vars, checkVars
<1> QED BY <1>1, <1>2, <1>3, <1>4, <1>5, NextParts

(* The line being written, and every line there is, tells the truth.       *)
LEMMA LineStep ==
    ASSUME Inv, [Next]_vars
    PROVE  LineOK' /\ LineIsOfItsCall'
<1>c. \A c \in Call : thread[c] # "none" => thread'[c] # "none"
  BY StartedStays
<1>r. ASSUME UNCHANGED record PROVE LineIsOfItsCall'
  BY <1>r, <1>c DEF Inv, LineIsOfItsCall, TrueLine
<1>l. ASSUME UNCHANGED line PROVE TrueLine(line)'
  BY <1>l, <1>c DEF Inv, LineOK, TrueLine
<1>n. ASSUME line' = NoLine, serving' # "recording" PROVE LineOK'
  <2>1. notedOff' \in SUBSET App
    BY TypedStep DEF TypeOK
  <2> QED BY <1>n, <2>1, AppsAssumption DEF LineOK, TrueLine, NoLine
<1>s. ASSUME UNCHANGED <<line, notedOff, record>>, serving # "recording", serving' # "recording"
      PROVE  LineOK' /\ LineIsOfItsCall'
  BY <1>s, <1>r, <1>n DEF Inv, LineOK
<1>1. CASE Receiving
  BY <1>1, <1>s, ReceivingStep DEF diskVars
<1>2. CASE Checking
  BY <1>2, <1>s DEF Checking, NoCheckStarted, StartCheck, CheckDone, CheckTimesOut, CheckCrashed,
              Answer, noteVars, diskVars
<1>3. CASE Writing
  <2>1. CASE NoLineWritten
    BY <2>1, <1>s DEF NoLineWritten, Answered, noteVars, diskVars
  <2>2. CASE NoteOff
    <3>1. TrueLine(line)' /\ line'.off /\ line'.call \in Call /\ line'.app \in App
      BY <2>2 DEF NoteOff, NotedLine, NoLine, TrueLine, Inv, TypeOK, RequestOK
    <3> QED BY <2>2, <3>1, <1>r DEF NoteOff, LineOK
  <2>3. CASE MakeLine
    <3>1. line'.call = request.call /\ line'.app = request.app /\ line'.counts = lastCounts
      BY <2>3 DEF MakeLine, ThisLine
    <3>2. line'.outcome = IF lastOutcome # "none" THEN lastOutcome ELSE request.outcome
      BY <2>3 DEF MakeLine, ThisLine
    <3>3. request.call \in Call /\ request.app \in App
      BY <2>3 DEF MakeLine, Inv, RequestOK, TypeOK
    <3>4. TrueLine(line)'
      BY <2>3, <3>1, <3>2, <3>3
      DEF MakeLine, TrueLine, Inv, RequestOK, LastIsOfThisCall, TypeOK
    <3> QED BY <2>3, <3>1, <3>3, <3>4, <1>r DEF MakeLine, LineOK
  <2>4. CASE Record
    <3>1. LineOK'
      BY <2>4, <1>n DEF Record, Answered
    <3>2. ASSUME NEW a \in App, NEW i \in DOMAIN record'[a]
          PROVE  \/ i \in DOMAIN record[a] /\ record'[a][i] = record[a][i]
                 \/ record'[a][i] = line
      <4>1. line \in Line /\ record \in [App -> Seq(Line)] /\ record[a] \in Seq(Line)
        BY DEF Inv, TypeOK
      <4>2. record'[a] \in {record[a], Append(record[a], line)}
        BY <2>4, <4>1 DEF Record, Append1
      <4> QED BY <3>2, <4>1, <4>2
    <3>3. TrueLine(line) /\ LineIsOfItsCall
      BY DEF Inv, LineOK
    <3>4. LineIsOfItsCall'
      BY <3>2, <3>3, <1>c DEF LineIsOfItsCall, TrueLine
    <3> QED BY <3>1, <3>4
  <2>5. CASE RecordFails
    BY <2>5, <1>n, <1>r DEF RecordFails, Answered
  <2> QED BY <1>3, <2>1, <2>2, <2>3, <2>4, <2>5 DEF Writing
<1>4. CASE Around
  <2>1. CASE Restart
    BY <2>1, <1>n, <1>r DEF Restart
  <2>2. CASE ~Restart
    <3>1. UNCHANGED <<serving, line, notedOff, record>>
      BY <1>4, <2>2 DEF Around, Sends, Ends, Panics, Thread, TurnOffOrOn, noteVars, diskVars
    <3> QED BY <3>1, <1>r, <1>l DEF Inv, LineOK
  <2> QED BY <2>1, <2>2
<1>5. CASE UNCHANGED vars
  BY <1>5, <1>r, <1>l DEF vars, Inv, LineOK, noteVars, diskVars
<1> QED BY <1>1, <1>2, <1>3, <1>4, <1>5, NextParts

LEMMA GapStep ==
    ASSUME Inv, [Next]_vars
    PROVE  GapIsSeen'
<1> USE AppsAssumption DEF Inv, GapIsSeen
<1>1. CASE Receiving
  BY <1>1, ReceivingStep DEF diskVars
<1>2. CASE Checking
  BY <1>2 DEF Checking, NoCheckStarted, StartCheck, CheckDone, CheckTimesOut, CheckCrashed,
              noteVars, diskVars
<1>3. CASE Writing
  <2>1. CASE NoLineWritten
    BY <2>1 DEF NoLineWritten, noteVars, diskVars
  <2>2. CASE NoteOff
    BY <2>2 DEF NoteOff, NotedLine, NoLine, TypeOK, LineOK
  <2>3. CASE MakeLine
    BY <2>3 DEF MakeLine, ThisLine, NoLine, TypeOK, LineOK
  <2>4. CASE Record
    BY <2>4 DEF Record, LeftOut, Append1, TypeOK, LineOK, noteVars
  <2>5. CASE RecordFails
    BY <2>5 DEF RecordFails, TypeOK, LineOK, noteVars
  <2> QED BY <1>3, <2>1, <2>2, <2>3, <2>4, <2>5 DEF Writing
<1>4. CASE Around
  BY <1>4 DEF Around, Sends, Ends, Panics, Thread, TurnOffOrOn, Restart, noteVars, diskVars
<1>5. CASE UNCHANGED vars
  BY <1>5 DEF vars, noteVars, diskVars
<1> QED BY <1>1, <1>2, <1>3, <1>4, <1>5, NextParts

LEMMA NextInv == Inv /\ [Next]_vars => Inv'
BY TypedStep, HandleStep, LastStep, LineStep, GapStep DEF Inv

THEOREM Invariant == Spec => []Inv
BY InitInv, NextInv, PTL DEF Spec

(* Each of the server's fields, and each line of a record, holds a value   *)
(* of its type, and no more than MaxNames things wait to be written down.  *)
THEOREM ServerTyped == Spec => []TypeOK
<1>1. Inv => TypeOK
  BY DEF Inv
<1> QED BY <1>1, Invariant, PTL

(* No two checks of a server ever run at once (report_for, tools.rs).      *)
THEOREM ChecksOneByOne == Spec => []OneCheckAtATime
<1>1. Inv => OneCheckAtATime
  BY DEF Inv, HandleKept, OneCheckAtATime
<1> QED BY <1>1, Invariant, PTL

(* No call's line carries what another call's check came to (write_line).  *)
THEOREM LinesAreTheirCalls == Spec => []LineIsOfItsCall
<1>1. Inv => LineIsOfItsCall
  BY DEF Inv
<1> QED BY <1>1, Invariant, PTL

(* A record that is off says so in its last line, or the failure to write  *)
(* that is counted, or the record is full (write_line, record).            *)
THEOREM GapsAreSeen == Spec => []GapIsSeen
<1>1. Inv => GapIsSeen
  BY DEF Inv
<1> QED BY <1>1, Invariant, PTL

-----------------------------------------------------------------------------
(* What was handed over is in one place at a time: waiting, in the line     *)
(* about to be written, or in a line that was.  Each time it is kept, at    *)
(* most one call can carry it.                                              *)
Carriers(t) ==
    {c \in Call : \E a \in App : \E i \in DOMAIN record[a] :
        record[a][i].call = c /\ t \in record[a][i].handed}

Waits(t) == IF t \in handed \cup line.handed THEN 1 ELSE 0

InOnePlace == line.handed # {} => handed = {}

HandedInv ==
    /\ InOnePlace
    /\ \A t \in Thing : Carrying(t) + Waits(t) <= kept[t]

(* However few or many calls carry a thing, they can be counted.           *)
LEMMA CarriersCount ==
    ASSUME NEW S \in SUBSET Call
    PROVE  IsFiniteSet(S) /\ Cardinality(S) \in Nat
<1>1. IsFiniteSet(Call)
  BY FS_Interval, BoundsAssumption DEF Call
<1> QED BY <1>1, FS_Subset, FS_CardinalityType

LEMMA CarryingIs ==
    /\ \A t : Carrying(t) = Cardinality(Carriers(t)) /\ Carrying(t) \in Nat
    /\ (\A t : Carrying(t) = Cardinality(Carriers(t)) /\ Carrying(t) \in Nat)'
<1>1. ASSUME NEW t PROVE Carrying(t) = Cardinality(Carriers(t)) /\ Carrying(t) \in Nat
  <2>1. Carriers(t) \in SUBSET Call
    BY DEF Carriers
  <2> QED BY <2>1, CarriersCount DEF Carrying, Carriers
<1>2. \A t : Carrying(t) = Cardinality(Carriers(t)) /\ Carrying(t) \in Nat
  BY <1>1
<1> QED BY <1>2, PTL

LEMMA HandedInit == Init => HandedInv
<1> SUFFICES ASSUME Init PROVE HandedInv
  OBVIOUS
<1>1. line.handed = {} /\ handed = {}
  BY DEF Init, NoLine
<1>2. ASSUME NEW t \in Thing PROVE Carrying(t) + Waits(t) <= kept[t]
  <2>1. Carriers(t) = {}
    BY DEF Init, Carriers
  <2>2. Carrying(t) = 0
    BY <2>1, CarryingIs, FS_EmptySet
  <2> QED BY <1>1, <2>2 DEF Init, Waits
<1> QED BY <1>1, <1>2 DEF HandedInv, InOnePlace

(* A step that leaves the records alone, and puts nothing into another      *)
(* place that was not waiting already or is kept once more now.             *)
LEMMA HandedMoves ==
    ASSUME Inv, HandedInv, record' = record, InOnePlace', kept' \in [Thing -> Nat],
           \A t \in Thing : \/ Waits(t)' <= Waits(t) /\ kept'[t] = kept[t]
                            \/ kept'[t] = kept[t] + 1 /\ Waits(t) = 0
    PROVE  HandedInv'
<1> SUFFICES ASSUME NEW t \in Thing PROVE Carrying(t)' + Waits(t)' <= kept'[t]
  BY DEF HandedInv
<1>1. Carrying(t)' = Carrying(t) /\ Carrying(t) \in Nat
  BY CarryingIs DEF Carriers
<1>2. Carrying(t) + Waits(t) <= kept[t] /\ kept[t] \in Nat
  BY DEF HandedInv, Inv, TypeOK
<1>3. Waits(t) \in {0, 1} /\ Waits(t)' \in {0, 1}
  BY DEF Waits
<1> QED BY <1>1, <1>2, <1>3

(* A line that is appended is carried by one call, and waits no more.      *)
LEMMA HandedRecord ==
    ASSUME Inv, HandedInv, Record
    PROVE  HandedInv'
<1>1. /\ line' = NoLine /\ handed' = handed /\ kept' = kept
      /\ line.app \in App /\ line \in Line /\ record \in [App -> Seq(Line)]
      /\ kept \in [Thing -> Nat]
  BY DEF Record, noteVars, Inv, TypeOK, LineOK
<1>2. line'.handed = {}
  BY <1>1 DEF NoLine
<1>3. ASSUME NEW t \in Thing PROVE Carrying(t)' + Waits(t)' <= kept'[t]
  <2>1. ASSUME NEW a \in App, NEW i \in DOMAIN record'[a]
        PROVE  \/ i \in DOMAIN record[a] /\ record'[a][i] = record[a][i]
               \/ record'[a][i] = line
    <3>1. record[a] \in Seq(Line) /\ line \in Line
      BY <1>1
    <3>2. record'[a] \in {record[a], Append(record[a], line)}
      BY <1>1, <3>1 DEF Record, Append1
    <3> QED BY <2>1, <3>1, <3>2
  <2>2. Carriers(t) \in SUBSET Call /\ Carriers(t)' \in SUBSET Call
    BY DEF Carriers
  <2>3. IsFiniteSet(Carriers(t)) /\ IsFiniteSet(Carriers(t)')
    BY <2>2, CarriersCount
  <2>4. /\ Carrying(t) = Cardinality(Carriers(t)) /\ Carrying(t) \in Nat
        /\ Carrying(t)' = Cardinality(Carriers(t)') /\ Carrying(t)' \in Nat
    BY CarryingIs
  <2>5. Carrying(t) + Waits(t) <= kept[t]
    BY DEF HandedInv
  <2>6. CASE t \in line.handed
    <3>1. Waits(t) = 1 /\ Waits(t)' = 0
      BY <1>1, <1>2, <2>6 DEF Waits, HandedInv, InOnePlace
    <3>2. Carriers(t)' \subseteq Carriers(t) \cup {line.call}
      BY <2>1 DEF Carriers
    <3>3. /\ IsFiniteSet(Carriers(t) \cup {line.call})
          /\ Cardinality(Carriers(t) \cup {line.call}) \in {Carrying(t), Carrying(t) + 1}
      BY <2>3, <2>4, FS_AddElement
    <3>4. Carrying(t)' <= Cardinality(Carriers(t) \cup {line.call})
      BY <2>4, <3>2, <3>3, FS_Subset
    <3> QED BY <1>1, <2>4, <2>5, <3>1, <3>3, <3>4
  <2>7. CASE t \notin line.handed
    <3>1. Carriers(t)' \subseteq Carriers(t)
      BY <2>1, <2>7 DEF Carriers
    <3>2. Carrying(t)' <= Carrying(t)
      BY <2>3, <2>4, <3>1, FS_Subset
    <3>3. Waits(t)' = Waits(t) /\ Waits(t) \in {0, 1}
      BY <1>1, <1>2, <2>7 DEF Waits
    <3> QED BY <1>1, <2>4, <2>5, <3>2, <3>3
  <2> QED BY <2>6, <2>7
<1> QED BY <1>2, <1>3 DEF HandedInv, InOnePlace

LEMMA HandedStep ==
    ASSUME Inv, HandedInv, [Next]_vars
    PROVE  HandedInv'
<1>k. kept' \in [Thing -> Nat] /\ kept \in [Thing -> Nat]
  BY TypedStep DEF Inv, TypeOK
<1>0. ASSUME UNCHANGED <<line, record, handed, kept>> PROVE HandedInv'
  <2>1. \A t \in Thing : Waits(t)' = Waits(t) /\ Waits(t) \in {0, 1}
    BY <1>0 DEF Waits
  <2> QED BY <1>0, <1>k, <2>1, HandedMoves DEF HandedInv, InOnePlace
<1>1. CASE Receiving
  <2>1. serving = "idle" /\ UNCHANGED <<line, record>>
    BY <1>1, ReceivingStep DEF diskVars
  <2>2. line.handed = {}
    BY <2>1 DEF Inv, LineOK, NoLine
  <2>3. ASSUME NEW s \in Thing, HandOver(s) PROVE HandedInv'
    <3>1. CASE s \notin handed /\ Cardinality(handed) < MaxNames
      <4>1. handed' = handed \cup {s} /\ kept' = [kept EXCEPT ![s] = @ + 1]
        BY <2>3, <3>1 DEF HandOver
      <4>2. ASSUME NEW t \in Thing
            PROVE  \/ Waits(t)' <= Waits(t) /\ kept'[t] = kept[t]
                   \/ kept'[t] = kept[t] + 1 /\ Waits(t) = 0
        BY <1>k, <2>1, <2>2, <3>1, <4>1 DEF Waits
      <4> QED BY <1>k, <2>1, <2>2, <4>2, HandedMoves DEF InOnePlace
    <3>2. CASE ~(s \notin handed /\ Cardinality(handed) < MaxNames)
      BY <1>0, <2>1, <2>3, <3>2 DEF HandOver
    <3> QED BY <3>1, <3>2
  <2> QED BY <1>1, <1>0, <2>1, <2>3 DEF Receiving, Hand, ReadReport, CallTool, CallCheck, noteVars
<1>2. CASE Checking
  BY <1>0, <1>2 DEF Checking, NoCheckStarted, StartCheck, CheckDone, CheckTimesOut, CheckCrashed,
                    noteVars, diskVars
<1>3. CASE Writing
  <2>1. CASE NoLineWritten
    BY <1>0, <2>1 DEF NoLineWritten, noteVars, diskVars
  <2>2. CASE NoteOff
    <3>1. /\ line.handed = {} /\ line'.handed = {} /\ handed' = handed /\ kept' = kept
          /\ record' = record
      BY <2>2 DEF NoteOff, NotedLine, NoLine, Inv, LineOK
    <3>2. \A t \in Thing : Waits(t)' = Waits(t) /\ Waits(t) \in {0, 1}
      BY <3>1 DEF Waits
    <3> QED BY <1>k, <3>1, <3>2, HandedMoves DEF InOnePlace
  <2>3. CASE MakeLine
    <3>1. /\ line.handed = {} /\ line'.handed = handed /\ handed' = {} /\ kept' = kept
          /\ record' = record
      BY <2>3 DEF MakeLine, ThisLine, NoLine, Inv, LineOK
    <3>2. \A t \in Thing : Waits(t)' = Waits(t) /\ Waits(t) \in {0, 1}
      BY <3>1 DEF Waits
    <3> QED BY <1>k, <3>1, <3>2, HandedMoves DEF InOnePlace
  <2>4. CASE Record
    BY <2>4, HandedRecord
  <2>5. CASE RecordFails
    <3>1. line'.handed = {} /\ handed' = handed /\ kept' = kept /\ record' = record
      BY <2>5 DEF RecordFails, NoLine, noteVars
    <3>2. \A t \in Thing : Waits(t)' <= Waits(t)
      BY <3>1 DEF Waits
    <3> QED BY <1>k, <3>1, <3>2, HandedMoves DEF InOnePlace
  <2> QED BY <1>3, <2>1, <2>2, <2>3, <2>4, <2>5 DEF Writing
<1>4. CASE Around
  <2>1. CASE Restart
    <3>1. line'.handed = {} /\ handed' = {} /\ kept' = kept /\ record' = record
      BY <2>1 DEF Restart, NoLine
    <3>2. \A t \in Thing : Waits(t)' <= Waits(t)
      BY <3>1 DEF Waits
    <3> QED BY <1>k, <3>1, <3>2, HandedMoves DEF InOnePlace
  <2>2. CASE ~Restart
    BY <1>0, <1>4, <2>2 DEF Around, Sends, Ends, Panics, Thread, TurnOffOrOn, noteVars, diskVars
  <2> QED BY <2>1, <2>2
<1>5. CASE UNCHANGED vars
  BY <1>0, <1>5 DEF vars, noteVars, diskVars
<1> QED BY <1>1, <1>2, <1>3, <1>4, <1>5, NextParts

(* What was handed over is written down no more often than it was handed,   *)
(* however calls fail, records fill up and servers restart.                 *)
THEOREM HandedNoOftener == Spec => []HandedOnce
<1>1. HandedInv /\ TypeOK => HandedOnce
  <2> SUFFICES ASSUME HandedInv, TypeOK, NEW t \in Thing PROVE Carrying(t) <= kept[t]
    BY DEF HandedOnce
  <2>1. Carrying(t) + Waits(t) <= kept[t] /\ Waits(t) \in {0, 1} /\ kept[t] \in Nat
    BY DEF HandedInv, Waits, TypeOK
  <2>2. Carrying(t) \in Nat
    BY CarryingIs
  <2> QED BY <2>1, <2>2
<1>2. Inv => TypeOK
  BY DEF Inv
<1>3. Inv /\ HandedInv /\ [Next]_vars => HandedInv'
  BY HandedStep
<1> QED BY <1>1, <1>2, <1>3, HandedInit, Invariant, PTL DEF Spec
=============================================================================
