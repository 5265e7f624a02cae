------------------------ MODULE CommandRunnerProofs -------------------------
(***************************************************************************)
(* What is proved of one bounded command, for pipes of any size, any limit *)
(* on what is kept and any processes the command may start.                *)
(***************************************************************************)
EXTENDS CommandRunner, TLAPS

USE RoomAssumption, LimitAssumption, OutputAssumption, InputAssumption, HelpersAssumption

(* The counts and the rest of the type invariant, which the provers take    *)
(* apart.                                                                   *)
Counts ==
    /\ unsent \in 0..Input /\ stdin \in 0..Room
    /\ pipe \in [Stream -> 0..Room]
    /\ written \in [Stream -> 0..MaxOutput]
    /\ kept \in [Stream -> 0..Limit]
    /\ thrown \in [Stream -> 0..MaxOutput]

States ==
    /\ main \in {"begin", "polling", "still running", "joining", "returned"}
    /\ result \in Results
    /\ cleanup \in BOOLEAN /\ late \in BOOLEAN /\ interrupted \in BOOLEAN
    /\ child \in {"none", "running", "exited", "reaped"}
    /\ helper \in {"none", "ended"} \union HelperKinds
    /\ reader \in [Stream -> {"none", "reading", "done"}]

LEMMA TypeOKParts == TypeOK <=> Counts /\ States
  <1> HIDE RoomAssumption, LimitAssumption, OutputAssumption, InputAssumption, HelpersAssumption
  <1> QED BY Zenon DEF TypeOK, Counts, States

(* Nothing that was printed goes missing on its way to a reading thread:    *)
(* it is in the pipe, kept or thrown away.                                  *)
Accounted == \A s \in Stream : written[s] = pipe[s] + kept[s] + thrown[s]

(* A thread has come to the end only of a pipe that is empty and that       *)
(* nobody will open again.                                                  *)
EndIsEnd == \A s \in Stream : reader[s] = "done" => pipe[s] = 0 /\ ~Open /\ child # "none"

(* What each result rests on when it is given.                              *)
ResultRests ==
    /\ result = "whole" => \A s \in Stream : reader[s] = "done" /\ thrown[s] = 0
    /\ result \in {"stopped", "ctrl-c"} => child = "reaped" /\ helper \in {"none", "ended", "away"}

(* Before the command was started there is nothing of it; once the call has *)
(* seen its end, the call only waits for the threads.                       *)
Order ==
    /\ main = "begin" => child = "none" /\ result = "none"
    /\ main \in {"polling", "still running"} => child # "none" /\ result = "none"
    /\ main = "joining" => child = "reaped" /\ result \in {"none", "stopped"}
    /\ child = "none" => helper = "none"
    /\ child = "none" => \A s \in Stream : reader[s] = "none"

CommandInv == Counts /\ States /\ Accounted /\ EndIsEnd /\ ResultRests /\ Order

LEMMA CommandInit == Init => CommandInv
  <1> SUFFICES ASSUME Init PROVE CommandInv
    OBVIOUS
  <1>1. Counts
    BY DEF Init, Counts
  <1>2. States
    BY DEF Init, States, Results
  <1>3. Accounted
    BY DEF Init, Accounted
  <1>4. EndIsEnd /\ ResultRests /\ Order
    BY DEF Init, EndIsEnd, ResultRests, Order
  <1> QED BY <1>1, <1>2, <1>3, <1>4 DEF CommandInv

(* What is known of one stream's units.                                     *)
LEMMA CountsOf ==
    ASSUME Counts, Accounted, NEW s \in Stream
    PROVE  /\ pipe[s] \in 0..Room /\ written[s] \in 0..MaxOutput
           /\ kept[s] \in 0..Limit /\ thrown[s] \in 0..MaxOutput
           /\ written[s] = pipe[s] + kept[s] + thrown[s]
  BY DEF Counts, Accounted

(* The steps of the call move no output.                                    *)
LEMMA CallKeeps ==
    ASSUME CommandInv, Call
    PROVE  CommandInv'
  <1>0. ASSUME Join, result' = "whole", NEW s \in Stream
        PROVE  thrown[s] = 0
    <2>1. ~(thrown[s] > 0)
      BY <1>0 DEF Join, Return, Cut
    <2> QED BY <2>1, CountsOf DEF CommandInv
  <1>1. UNCHANGED <<sending, pipe, written, kept, thrown>>
    BY DEF Call, DoNotStart, Spawn, SeeExit, SeeRunning, StopForTime, StopForCtrlC, Sleep, Join, output
  <1>2. Counts' /\ Accounted'
    BY <1>1 DEF CommandInv, Counts, Accounted, sending
  <1>3. States' /\ EndIsEnd' /\ ResultRests' /\ Order'
    <2> USE DEF CommandInv, States, Results, EndIsEnd, ResultRests, Order, Open, HelperKinds,
                world, processes, output
    <2>1. CASE DoNotStart
      BY <2>1 DEF DoNotStart, Return
    <2>2. CASE Spawn
      BY <2>2 DEF Spawn
    <2>3. CASE SeeExit
      BY <2>3 DEF SeeExit
    <2>4. CASE SeeRunning
      BY <2>4 DEF SeeRunning
    <2>5. CASE StopForTime
      BY <2>5 DEF StopForTime, Stop
    <2>6. CASE StopForCtrlC
      BY <2>6 DEF StopForCtrlC, Stop, Return
    <2>7. CASE Sleep
      BY <2>7 DEF Sleep
    <2>8. CASE Join
      <3>2. UNCHANGED <<cleanup, late, interrupted, child, helper, pipe, thrown, reader>>
        BY <2>8 DEF Join
      <3>3. /\ main = "joining" /\ main' = "returned" /\ \A s \in Stream : reader[s] = "done"
            /\ result' \in {"stopped", "cut", "whole"}
            /\ result' = "stopped" => result = "stopped"
        BY <2>8 DEF Join, Return
      <3>4. States' /\ EndIsEnd' /\ Order'
        BY <3>2, <3>3
      <3> QED BY <1>0, <2>8, <3>2, <3>3, <3>4
    <2> QED BY <2>1, <2>2, <2>3, <2>4, <2>5, <2>6, <2>7, <2>8 DEF Call
  <1> QED BY <1>2, <1>3 DEF CommandInv

LEMMA ReadKeeps ==
    ASSUME CommandInv, NEW s \in Stream, Read(s)
    PROVE  CommandInv'
  <1>1. /\ pipe' = [pipe EXCEPT ![s] = pipe[s] - 1]
        /\ \/ kept[s] < Limit /\ kept' = [kept EXCEPT ![s] = kept[s] + 1] /\ thrown' = thrown
           \/ thrown' = [thrown EXCEPT ![s] = thrown[s] + 1] /\ kept' = kept
    BY DEF Read
  <1>2. UNCHANGED <<main, result, cleanup, late, interrupted, child, helper, unsent, stdin, written, reader>>
    BY DEF Read, call, world, processes, sending
  <1>3. pipe[s] > 0 /\ reader[s] = "reading"
    BY DEF Read
  <1>4. Counts'
    <2>1. pipe[s] - 1 \in 0..Room
      BY <1>3, CountsOf DEF CommandInv
    <2>2. kept[s] < Limit => kept[s] + 1 \in 0..Limit
      BY CountsOf DEF CommandInv
    <2>3. thrown[s] + 1 \in 0..MaxOutput
      BY <1>3, CountsOf DEF CommandInv
    <2> QED BY <1>1, <1>2, <2>1, <2>2, <2>3 DEF CommandInv, Counts
  <1>5. Accounted'
    <2>1. ASSUME NEW t \in Stream PROVE written'[t] = pipe'[t] + kept'[t] + thrown'[t]
      BY <1>1, <1>2, CountsOf DEF CommandInv, Counts
    <2> QED BY <2>1 DEF Accounted
  <1>6. States' /\ EndIsEnd' /\ Order'
    BY <1>1, <1>2, <1>3 DEF CommandInv, Counts, States, EndIsEnd, Order, Open
  <1>7. ResultRests'
    BY <1>1, <1>2, <1>3 DEF CommandInv, ResultRests
  <1> QED BY <1>4, <1>5, <1>6, <1>7 DEF CommandInv

LEMMA EmitKeeps ==
    ASSUME CommandInv, NEW s \in Stream, Emit(s)
    PROVE  CommandInv'
  <1>1. /\ Open /\ pipe[s] < Room /\ written[s] < MaxOutput
        /\ pipe' = [pipe EXCEPT ![s] = pipe[s] + 1]
        /\ written' = [written EXCEPT ![s] = written[s] + 1]
    BY DEF Emit
  <1>2. UNCHANGED <<main, result, cleanup, late, interrupted, child, helper, unsent, stdin, kept, thrown, reader>>
    BY DEF Emit, call, world, processes, sending
  <1>3. Counts'
    <2>1. pipe[s] + 1 \in 0..Room /\ written[s] + 1 \in 0..MaxOutput
      BY <1>1, CountsOf DEF CommandInv
    <2> QED BY <1>1, <1>2, <2>1 DEF CommandInv, Counts
  <1>4. Accounted'
    <2>1. ASSUME NEW t \in Stream PROVE written'[t] = pipe'[t] + kept'[t] + thrown'[t]
      BY <1>1, <1>2, CountsOf DEF CommandInv, Counts
    <2> QED BY <2>1 DEF Accounted
  <1>5. \A t \in Stream : reader[t] # "done"
    BY <1>1 DEF CommandInv, EndIsEnd
  <1>6. States' /\ EndIsEnd' /\ Order' /\ ResultRests'
    BY <1>2, <1>5 DEF CommandInv, States, EndIsEnd, Order, ResultRests
  <1> QED BY <1>3, <1>4, <1>6 DEF CommandInv

LEMMA InputKeeps ==
    ASSUME CommandInv, WriteInput \/ TakeInput
    PROVE  CommandInv'
  <1>1. unsent' \in 0..Input /\ stdin' \in 0..Room
    BY DEF WriteInput, TakeInput, CommandInv, Counts
  <1>2. UNCHANGED <<main, result, cleanup, late, interrupted, child, helper, pipe, written, kept, thrown, reader>>
    BY DEF WriteInput, TakeInput, call, world, processes, output
  <1>3. Counts' /\ Accounted'
    BY <1>1, <1>2 DEF CommandInv, Counts, Accounted
  <1>4. States' /\ EndIsEnd' /\ ResultRests' /\ Order'
    BY <1>2 DEF CommandInv, States, EndIsEnd, ResultRests, Order, Open
  <1> QED BY <1>3, <1>4 DEF CommandInv

(* What moves no output: a thread that comes to the end, the processes, the *)
(* clock and Ctrl-C.                                                        *)
LEMMA RestKeeps ==
    ASSUME CommandInv,
           \/ StartHelper \/ HelperEnds \/ Exit \/ TimePasses \/ CtrlC
           \/ \E s \in Stream : EndOfOutput(s)
    PROVE  CommandInv'
  <1>1. UNCHANGED <<sending, pipe, written, kept, thrown>>
    BY DEF StartHelper, HelperEnds, Exit, TimePasses, CtrlC, EndOfOutput, output
  <1>2. Counts' /\ Accounted'
    BY <1>1 DEF CommandInv, Counts, Accounted, sending
  <1>3. States' /\ EndIsEnd' /\ ResultRests' /\ Order'
    <2> USE DEF CommandInv, States, EndIsEnd, ResultRests, Order, Open, HelperKinds,
                call, world, processes, output
    <2>1. CASE StartHelper
      BY <2>1 DEF StartHelper
    <2>2. CASE HelperEnds
      BY <2>2 DEF HelperEnds
    <2>3. CASE Exit
      BY <2>3 DEF Exit
    <2>4. CASE TimePasses
      BY <2>4 DEF TimePasses
    <2>5. CASE CtrlC
      BY <2>5 DEF CtrlC
    <2>6. ASSUME NEW s \in Stream, EndOfOutput(s)
          PROVE  States' /\ EndIsEnd' /\ ResultRests' /\ Order'
      BY <2>6 DEF EndOfOutput
    <2> QED BY <2>1, <2>2, <2>3, <2>4, <2>5, <2>6
  <1> QED BY <1>2, <1>3 DEF CommandInv

LEMMA CommandInvariant == Spec => []CommandInv
  <1>1. CommandInv /\ UNCHANGED vars => CommandInv'
    BY DEF CommandInv, Counts, States, Accounted, EndIsEnd, ResultRests, Order, Open,
           vars, call, world, processes, sending, output
  <1>2. CommandInv /\ [Next]_vars => CommandInv'
    BY <1>1, CallKeeps, ReadKeeps, EmitKeeps, InputKeeps, RestKeeps DEF Next
  <1> QED BY CommandInit, <1>2, PTL DEF Spec

(* What each part of a command may be, and that no more is kept of a stream *)
(* than OUTPUT_LIMIT, whatever the sizes are.                               *)
THEOREM CommandTyped == Spec => []TypeOK
  <1>1. CommandInv => TypeOK
    BY TypeOKParts DEF CommandInv
  <1> QED BY <1>1, CommandInvariant, PTL

(* Cut output is never handed on as whole, and nobody is left who could     *)
(* print more.                                                              *)
THEOREM WholeOutput == Spec => []WholeIsWhole
  <1>1. CommandInv => WholeIsWhole
    <2> SUFFICES ASSUME CommandInv, result = "whole"
                 PROVE  ~Open /\ \A s \in Stream : kept[s] = written[s]
      BY DEF WholeIsWhole
    <2>1. \A s \in Stream : reader[s] = "done" /\ thrown[s] = 0
      BY DEF CommandInv, ResultRests
    <2>2. \A s \in Stream : pipe[s] = 0 /\ ~Open
      BY <2>1 DEF CommandInv, EndIsEnd
    <2>3. \A s \in Stream : kept[s] = written[s]
      BY <2>1, <2>2, CountsOf DEF CommandInv
    <2>4. "out" \in Stream
      BY DEF Stream
    <2> QED BY <2>2, <2>3, <2>4
  <1> QED BY <1>1, CommandInvariant, PTL

(* A command stopped for time or with Ctrl-C leaves nothing of its group.   *)
THEOREM StopLeavesNothing == Spec => []StoppedLeavesNothing
  <1>1. CommandInv => StoppedLeavesNothing
    BY DEF CommandInv, ResultRests, StoppedLeavesNothing
  <1> QED BY <1>1, CommandInvariant, PTL
=============================================================================
