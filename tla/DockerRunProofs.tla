--------------------------- MODULE DockerRunProofs ---------------------------
(***************************************************************************)
(* Proofs about runs beside a Docker daemon, for any number of runs,       *)
(* machines and process numbers, whatever calls fail; what an app's volume *)
(* holds, for any runs of one machine with process numbers of their own.   *)
(***************************************************************************)
EXTENDS DockerRun, TLAPS

Volumes == [there : BOOLEAN, holds : {"nothing", "part", "whole"}, mark : BOOLEAN]
Fillings == {"none", "started", "copying", "copied", "done", "failed"}
Seen == {"none", "nothing", "part", "whole"}
Places == {"off", "done", "dead"} \cup Clearing \cup AtVolume \cup Starting \cup Asking \cup Ending

(* What the daemon keeps has its type. *)
DaemonOK ==
    /\ there \subseteq Thing /\ pending \subseteq Thing /\ late \subseteq Thing
    /\ fence \in [Everyone -> Kinds \cup {"none"}]
    /\ volume \in Volumes
    /\ filled \in [Run -> Fillings]
    /\ appSaw \in [Run -> Seen]

(* What the processes keep has its type. *)
ProcessOK ==
    /\ at \in [Run -> Places]
    /\ interrupted \in [Run -> BOOLEAN]
    /\ todo \in [Run -> SUBSET Thing]
    /\ notRemoved \in [Run -> SUBSET Thing]
    /\ helped \in [Run -> BOOLEAN]
    /\ told \in [Run -> {"nothing", "all removed", "what was not"}]
    /\ began \in [Run -> SUBSET Thing] /\ failed \in [Run -> SUBSET Thing]
    /\ mixed \in BOOLEAN /\ spent \in 0..MaxFailed

Typed == DaemonOK /\ ProcessOK

LEMMA TypedIsTypeOK == Typed => TypeOK
BY DEF TypeOK, Typed, DaemonOK, ProcessOK, Places, Volumes, Fillings, Seen

LEMMA OwnThings ==
    ASSUME NEW r \in Run
    PROVE  \A k \in Containers \cup {"net"} : <<r, k>> \in Thing /\ <<r, k>>[1] = r /\ <<r, k>>[2] = k
BY DEF Thing, Everyone

LEMMA MadeTyped ==
    ASSUME DaemonOK, NEW t \in Thing, Made(t)
    PROVE  /\ there' \subseteq Thing
           /\ fence' \in [Everyone -> Kinds \cup {"none"}]
           /\ volume' \in Volumes
           /\ filled' \in [Run -> Fillings]
           /\ appSaw' \in [Run -> Seen]
<1>1. t[1] \in Everyone
  BY DEF Thing
<1>2. there' \subseteq Thing /\ fence' \in [Everyone -> Kinds \cup {"none"}]
  BY <1>1 DEF Made, DaemonOK
<1>3. volume' \in Volumes
  <2>1. [there |-> TRUE, holds |-> "nothing", mark |-> FALSE] \in Volumes
    BY DEF Volumes
  <2>2. \/ volume' = volume
        \/ volume' = [there |-> TRUE, holds |-> "nothing", mark |-> FALSE]
    BY DEF Made
  <2> QED BY <2>1, <2>2 DEF DaemonOK
<1>4. volume'.holds \in Seen
  BY <1>3 DEF Volumes, Seen
<1>5. CASE t[1] \in Installs /\ t[2] \in {"install", "app"}
  <2>1. t[1] \in Run
    BY <1>5, RunsAssumption
  <2>2. CASE t[2] = "install"
    BY <1>3, <1>2, <1>5, <2>1, <2>2 DEF Made, DaemonOK, Fillings
  <2>3. CASE t[2] # "install"
    <3>1. appSaw' = [appSaw EXCEPT ![t[1]] = volume'.holds] /\ filled' = filled
      BY <1>5, <2>3 DEF Made
    <3>2. appSaw \in [Run -> Seen] /\ filled \in [Run -> Fillings]
      BY DEF DaemonOK
    <3>3. appSaw' \in [Run -> Seen]
      BY <1>4, <2>1, <3>1, <3>2
    <3> QED BY <1>2, <1>3, <3>1, <3>2, <3>3
  <2> QED BY <2>2, <2>3
<1>6. CASE ~(t[1] \in Installs /\ t[2] \in {"install", "app"})
  BY <1>2, <1>3, <1>6 DEF Made, DaemonOK
<1> QED BY <1>5, <1>6

(* A call that is counted as failed stays within the bound. *)
LEMMA SpentTyped ==
    ASSUME spent \in 0..MaxFailed, NEW r, Fine \/ Refused(r) \/ Fails(r, "rm")
    PROVE  spent' \in 0..MaxFailed
BY RunsAssumption DEF Fine, Refused, Fails

(* What a call that makes t changes, whether it goes well or not. *)
Makes(r, t) == MakeDone(r, t) \/ MakeFails(r, t)

LEMMA MakesTyped ==
    ASSUME Typed, NEW r \in Run, NEW t \in Thing, Makes(r, t)
    PROVE  /\ DaemonOK'
           /\ interrupted' \in [Run -> BOOLEAN]
           /\ spent' \in 0..MaxFailed
<1>1. DaemonOK /\ ProcessOK
  BY DEF Typed
<1>2. Fine \/ Refused(r)
  BY DEF Makes, MakeDone, MakeFails, Refused
<1>3. spent' \in 0..MaxFailed
  BY <1>1, <1>2, SpentTyped DEF ProcessOK
<1>4. interrupted' \in [Run -> BOOLEAN]
  BY <1>1 DEF Makes, MakeDone, MakeFails, ProcessOK
<1>5. /\ Made(t) \/ NothingMade
      /\ pending' \subseteq pending \cup {t} /\ late' \subseteq late \cup {t}
  BY DEF Makes, MakeDone, MakeFails
<1>6. pending' \subseteq Thing /\ late' \subseteq Thing
  BY <1>1, <1>5 DEF DaemonOK
<1>7. CASE Made(t)
  BY <1>1, <1>3, <1>4, <1>6, <1>7, MadeTyped DEF DaemonOK
<1>8. CASE NothingMade
  BY <1>1, <1>3, <1>4, <1>6, <1>8 DEF DaemonOK, NothingMade
<1> QED BY <1>5, <1>7, <1>8

(* A run's set of things stays one when a part of Thing takes its place. *)
LEMMA SetOfThings ==
    ASSUME NEW f \in [Run -> SUBSET Thing], NEW r \in Run, NEW t \in Thing
    PROVE  /\ \A s \in SUBSET Thing : [f EXCEPT ![r] = s] \in [Run -> SUBSET Thing]
           /\ [f EXCEPT ![r] = @ \cup {t}] \in [Run -> SUBSET Thing]
           /\ [f EXCEPT ![r] = @ \ {t}] \in [Run -> SUBSET Thing]
<1>1. f[r] \cup {t} \in SUBSET Thing /\ f[r] \ {t} \in SUBSET Thing
  OBVIOUS
<1> QED BY <1>1

(* The steps of a run, by what they do. *)
Clears(r) == (\E nets \in BOOLEAN : ListLeft(r, nets) \/ ClearLeft(r, nets)) \/ LeftCleared(r)
Fills(r) == Look(r) \/ Empty(r) \/ Create(r) \/ Install(r) \/ InstallEnds(r) \/ Unfill(r)
Starts(r) ==
    \/ MakeNetwork(r) \/ VerifyFenced(r) \/ VerifyGatewayClosed(r)
    \/ StartHelper(r) \/ StartApp(r) \/ StartSidecar(r)
Asks(r) == WaitUntilReady(r) \/ Script(r) \/ RemoveHelper(r) \/ HelpersGone(r) \/ Tests(r)
TakesDown(r) ==
    (\E nets \in BOOLEAN : ListOwn(r, nets) \/ ClearOwn(r, nets)) \/ OwnCleared(r) \/ Return(r)
Daemon == (\E q \in Run : Copy(q)) \/ \E t \in Thing : CarryOn(t) \/ Expire(t)

LEMMA NextParts ==
    ASSUME [Next]_vars
    PROVE  \/ \E r \in Run : \/ Begin(r) \/ Clears(r) \/ Fills(r) \/ Starts(r)
                             \/ Asks(r) \/ TakesDown(r) \/ CtrlC(r) \/ Die(r)
           \/ Daemon
           \/ UNCHANGED vars
BY DEF Next, Step, Clears, Fills, Starts, Asks, TakesDown, Daemon

LEMMA InitTyped == Init => Typed
<1> SUFFICES ASSUME Init PROVE Typed
  OBVIOUS
<1>1. {<<Past, "net">>, <<Past, "app">>} \subseteq Thing
  BY DEF Thing, Everyone, Containers
<1>2. there \subseteq Thing /\ pending \subseteq Thing /\ late \subseteq Thing
  BY <1>1 DEF Init
<1>3. volume \in Volumes
  <2>1. \A h \in {"nothing", "part", "whole"}, b, c \in BOOLEAN :
           [there |-> b, holds |-> h, mark |-> c] \in Volumes
    BY DEF Volumes
  <2> QED BY <2>1 DEF Init, NoVolume
<1>4. DaemonOK
  BY <1>2, <1>3 DEF Init, DaemonOK, Fillings, Seen
<1>5. ProcessOK
  <2>1. spent \in 0..MaxFailed
    BY RunsAssumption DEF Init
  <2>3. mixed \in BOOLEAN
    BY DEF Init
  <2>2. at \in [Run -> Places] /\ interrupted \in [Run -> BOOLEAN] /\ helped \in [Run -> BOOLEAN]
    BY DEF Init, Places
  <2> QED BY <2>1, <2>2, <2>3 DEF Init, ProcessOK
<1> QED BY <1>4, <1>5 DEF Typed

(* Listing what killed runs left, and going through it. *)
LEMMA ClearsTyped ==
    ASSUME Typed, NEW r \in Run, Clears(r)
    PROVE  Typed'
<1> USE DEF Goto, dockerVars, volumeVars, removalVars, endVars, historyVars
<1>0. DaemonOK /\ ProcessOK /\ at \in [Run -> Places]
  BY DEF Typed, ProcessOK
<1>1. ASSUME NEW nets \in BOOLEAN, ListLeft(r, nets) PROVE Typed'
  <2>1. at' \in [Run -> Places]
    BY <1>0, <1>1 DEF ListLeft, Places, Clearing
  <2>2. todo' \in [Run -> SUBSET Thing] /\ failed' \in [Run -> SUBSET Thing]
    <3>1. PICK found \in SUBSET Thing :
             /\ todo' = [todo EXCEPT ![r] = found] \/ todo' = [todo EXCEPT ![r] = {}]
             /\ failed' = failed \/ failed' = [failed EXCEPT ![r] = @ \cup found]
      <4>1. {t \in Listed(nets) : IsLeftover(r, t[1])} \in SUBSET Thing
        BY <1>0 DEF Listed, DaemonOK
      <4> QED BY <1>1, <4>1 DEF ListLeft
    <3>2. todo \in [Run -> SUBSET Thing] /\ failed \in [Run -> SUBSET Thing]
      BY <1>0 DEF ProcessOK
    <3> QED BY <3>1, <3>2
  <2>3. began' \in [Run -> SUBSET Thing]
    BY <1>0, <1>1 DEF ListLeft, ProcessOK, DaemonOK
  <2>4. spent' \in 0..MaxFailed
    BY <1>0, <1>1, SpentTyped DEF ListLeft, ProcessOK
  <2> QED BY <1>0, <1>1, <2>1, <2>2, <2>3, <2>4 DEF ListLeft, Typed, ProcessOK, DaemonOK
<1>2. ASSUME NEW nets \in BOOLEAN, ClearLeft(r, nets) PROVE Typed'
  <2>0. PICK t \in todo[r], gone \in BOOLEAN :
           Removal(r, t, gone) /\ todo' = [todo EXCEPT ![r] = @ \ {t}]
    BY <1>2 DEF ClearLeft
  <2>1. todo' \in [Run -> SUBSET Thing] /\ t \in Thing
    BY <1>0, <2>0 DEF ProcessOK
  <2>3. /\ there' \subseteq there
        /\ failed' = failed \/ failed' = [failed EXCEPT ![r] = @ \cup {t}]
    BY <2>0 DEF Removal
  <2>4. failed' \in [Run -> SUBSET Thing]
    <3>1. failed \in [Run -> SUBSET Thing]
      BY <1>0 DEF ProcessOK
    <3>2. [failed EXCEPT ![r] = @ \cup {t}] \in [Run -> SUBSET Thing]
      BY <2>1, <3>1, SetOfThings
    <3> QED BY <2>3, <3>1, <3>2
  <2>5. there' \subseteq Thing
    BY <1>0, <2>3 DEF DaemonOK
  <2>2. spent' \in 0..MaxFailed
    BY <1>0, <1>2, SpentTyped DEF ClearLeft, Removal, ProcessOK
  <2> QED BY <1>0, <1>2, <2>1, <2>2, <2>4, <2>5 DEF ClearLeft, Typed, ProcessOK, DaemonOK
<1>3. CASE LeftCleared(r)
  <2>1. at' \in [Run -> Places]
    BY <1>0, <1>3 DEF LeftCleared, Places, Clearing, AtVolume, Starting
  <2> QED BY <1>0, <1>3, <2>1 DEF LeftCleared, Typed, ProcessOK, DaemonOK
<1> QED BY <1>1, <1>2, <1>3 DEF Clears

LEMMA VolumesAre ==
    ASSUME Typed
    PROVE  /\ volume \in Volumes /\ NoVolume \in Volumes
           /\ [volume EXCEPT !.there = TRUE] \in Volumes
           /\ [volume EXCEPT !.holds = "part"] \in Volumes
           /\ [volume EXCEPT !.holds = "whole", !.mark = TRUE] \in Volumes
BY DEF Typed, DaemonOK, Volumes, NoVolume

(* Filling the packages' volume. *)
LEMMA FillsTyped ==
    ASSUME Typed, NEW r \in Run, Fills(r)
    PROVE  Typed'
<1> USE DEF Goto, EndRun, dockerVars, volumeVars, removalVars, endVars, historyVars
<1>0. DaemonOK /\ ProcessOK /\ at \in [Run -> Places] /\ spent \in 0..MaxFailed
  BY DEF Typed, ProcessOK
<1>1. at' \in [Run -> Places]
  <2>1. \A place \in Places : [at EXCEPT ![r] = place] \in [Run -> Places]
    BY <1>0
  <2> QED BY <2>1 DEF Fills, Look, Empty, Create, Install, InstallEnds, Unfill,
                     Places, AtVolume, Starting, Ending
<1>2. CASE Look(r)
  <2>1. spent' \in 0..MaxFailed
    BY <1>0, <1>2, SpentTyped DEF Look
  <2> QED BY <1>0, <1>1, <1>2, <2>1 DEF Look, Typed, ProcessOK, DaemonOK
<1>3. CASE Empty(r)
  <2>1. spent' \in 0..MaxFailed
    BY <1>0, <1>3, SpentTyped DEF Empty, RemoveVolume
  <2>2. volume' \in Volumes
    BY <1>3, VolumesAre DEF Empty, RemoveVolume
  <2> QED BY <1>0, <1>1, <1>3, <2>1, <2>2 DEF Empty, Typed, ProcessOK, DaemonOK
<1>4. CASE Create(r)
  <2>1. spent' \in 0..MaxFailed
    BY <1>0, <1>4, SpentTyped DEF Create
  <2>2. volume' \in Volumes
    BY <1>4, VolumesAre DEF Create
  <2> QED BY <1>0, <1>1, <1>4, <2>1, <2>2 DEF Create, Typed, ProcessOK, DaemonOK
<1>5. CASE Install(r)
  <2>1. Makes(r, <<r, "install">>) /\ <<r, "install">> \in Thing
    BY <1>5, OwnThings DEF Install, Makes, Containers
  <2>2. DaemonOK' /\ interrupted' \in [Run -> BOOLEAN] /\ spent' \in 0..MaxFailed
    BY <2>1, MakesTyped
  <2> QED BY <1>0, <1>1, <1>5, <2>2 DEF Install, Typed, ProcessOK
<1>6. CASE InstallEnds(r)
  <2>1. spent' \in 0..MaxFailed
    BY <1>0, <1>6, SpentTyped DEF InstallEnds
  <2> QED BY <1>0, <1>1, <1>6, <2>1 DEF InstallEnds, Typed, ProcessOK, DaemonOK
<1>7. CASE Unfill(r)
  <2>1. spent' \in 0..MaxFailed
    BY <1>0, <1>7, SpentTyped DEF Unfill, RemoveVolume
  <2>2. volume' \in Volumes
    BY <1>7, VolumesAre DEF Unfill, RemoveVolume
  <2> QED BY <1>0, <1>1, <1>7, <2>1, <2>2 DEF Unfill, Typed, ProcessOK, DaemonOK
<1> QED BY <1>2, <1>3, <1>4, <1>5, <1>6, <1>7 DEF Fills

(* Making the fence, looking at it, and starting what stands behind it. *)
LEMMA StartsTyped ==
    ASSUME Typed, NEW r \in Run, Starts(r)
    PROVE  Typed'
<1> USE DEF Goto, EndRun, dockerVars, volumeVars, removalVars, endVars, historyVars
<1>0. DaemonOK /\ ProcessOK /\ at \in [Run -> Places] /\ spent \in 0..MaxFailed
  BY DEF Typed, ProcessOK
<1>1. at' \in [Run -> Places]
  <2>1. \A place \in Places : [at EXCEPT ![r] = place] \in [Run -> Places]
    BY <1>0
  <2>2. CASE MakeNetwork(r)
    BY <2>1, <2>2 DEF MakeNetwork, CreateNetwork, Places, Starting, Ending
  <2>3. CASE ~MakeNetwork(r)
    BY <2>1, <2>3 DEF Starts, VerifyFenced, VerifyGatewayClosed, StartHelper, StartApp,
                     StartSidecar, Places, Starting, Asking, Ending
  <2> QED BY <2>2, <2>3
<1>2. CASE MakeNetwork(r)
  <2>1. PICK otherwise : CreateNetwork(r, otherwise)
    BY <1>2 DEF MakeNetwork
  <2>2. <<r, "net">> \in Thing
    BY OwnThings
  <2>3. CASE Makes(r, <<r, "net">>)
    <3>1. DaemonOK' /\ interrupted' \in [Run -> BOOLEAN] /\ spent' \in 0..MaxFailed
      BY <2>2, <2>3, MakesTyped
    <3> QED BY <1>0, <1>1, <2>1, <3>1 DEF CreateNetwork, Typed, ProcessOK
  <2>4. CASE ~Makes(r, <<r, "net">>)
    BY <1>0, <1>1, <2>1, <2>4 DEF CreateNetwork, Makes, Fine, NothingMade, Typed, ProcessOK, DaemonOK
  <2> QED BY <2>3, <2>4
<1>3. CASE VerifyFenced(r)
  <2>1. spent' \in 0..MaxFailed
    BY <1>0, <1>3, SpentTyped DEF VerifyFenced
  <2> QED BY <1>0, <1>1, <1>3, <2>1 DEF VerifyFenced, Typed, ProcessOK, DaemonOK
<1>4. CASE VerifyGatewayClosed(r)
  <2>1. spent' \in 0..MaxFailed
    BY <1>0, <1>4, SpentTyped DEF VerifyGatewayClosed
  <2> QED BY <1>0, <1>1, <1>4, <2>1 DEF VerifyGatewayClosed, Typed, ProcessOK, DaemonOK
<1>5. CASE StartHelper(r)
  <2>1. helped' \in [Run -> BOOLEAN]
    BY <1>0, <1>5 DEF StartHelper, ProcessOK
  <2>2. <<r, "helper">> \in Thing
    BY OwnThings DEF Containers
  <2>3. CASE Makes(r, <<r, "helper">>)
    <3>1. DaemonOK' /\ interrupted' \in [Run -> BOOLEAN] /\ spent' \in 0..MaxFailed
      BY <2>2, <2>3, MakesTyped
    <3> QED BY <1>0, <1>1, <1>5, <2>1, <3>1 DEF StartHelper, Typed, ProcessOK
  <2>4. CASE ~Makes(r, <<r, "helper">>)
    BY <1>0, <1>1, <1>5, <2>4 DEF StartHelper, Makes, Fine, NothingMade, Typed, ProcessOK, DaemonOK
  <2> QED BY <2>3, <2>4
<1>6. CASE StartApp(r)
  <2>1. Makes(r, <<r, "app">>) /\ <<r, "app">> \in Thing
    BY <1>6, OwnThings DEF StartApp, Makes, Containers
  <2>2. DaemonOK' /\ interrupted' \in [Run -> BOOLEAN] /\ spent' \in 0..MaxFailed
    BY <2>1, MakesTyped
  <2> QED BY <1>0, <1>1, <1>6, <2>2 DEF StartApp, Typed, ProcessOK
<1>7. CASE StartSidecar(r)
  <2>1. Makes(r, <<r, "probe">>) /\ <<r, "probe">> \in Thing
    BY <1>7, OwnThings DEF StartSidecar, Makes, Containers
  <2>2. DaemonOK' /\ interrupted' \in [Run -> BOOLEAN] /\ spent' \in 0..MaxFailed
    BY <2>1, MakesTyped
  <2> QED BY <1>0, <1>1, <1>7, <2>2 DEF StartSidecar, Typed, ProcessOK
<1> QED BY <1>2, <1>3, <1>4, <1>5, <1>6, <1>7 DEF Starts

(* Being ready, the script, the helpers' end, and the tests. *)
LEMMA AsksTyped ==
    ASSUME Typed, NEW r \in Run, Asks(r)
    PROVE  Typed'
<1> USE DEF Goto, EndRun, dockerVars, volumeVars, removalVars, endVars, historyVars
<1>0. /\ DaemonOK /\ ProcessOK /\ at \in [Run -> Places] /\ spent \in 0..MaxFailed
      /\ todo \in [Run -> SUBSET Thing] /\ notRemoved \in [Run -> SUBSET Thing]
      /\ failed \in [Run -> SUBSET Thing]
  BY DEF Typed, ProcessOK
<1>1. \A place \in Places : [at EXCEPT ![r] = place] \in [Run -> Places]
  BY <1>0
<1>2. CASE WaitUntilReady(r)
  BY <1>0, <1>1, <1>2 DEF WaitUntilReady, Typed, ProcessOK, DaemonOK, Places, Asking, Ending
<1>3. CASE Script(r)
  <2>1. {<<r, "probe">>} \cup (IF helped[r] THEN {<<r, "helper">>} ELSE {}) \in SUBSET Thing
    <3>1. <<r, "probe">> \in Thing /\ <<r, "helper">> \in Thing
      BY OwnThings DEF Containers
    <3> QED BY <3>1
  <2>2. todo' \in [Run -> SUBSET Thing]
    BY <1>0, <1>3, <2>1 DEF Script
  <2> QED BY <1>0, <1>1, <1>3, <2>2 DEF Script, Typed, ProcessOK, DaemonOK, Places, Asking
<1>4. CASE RemoveHelper(r)
  <2>1. PICK t \in todo[r], gone \in BOOLEAN :
           /\ there' \subseteq there
           /\ failed' = failed \/ failed' = [failed EXCEPT ![r] = @ \cup {t}]
           /\ Fine \/ Fails(r, "rm")
           /\ todo' = [todo EXCEPT ![r] = @ \ {t}]
           /\ notRemoved' = [notRemoved EXCEPT ![r] = IF gone THEN @ ELSE @ \cup {t}]
    BY <1>4 DEF RemoveHelper, Removal
  <2>2. t \in Thing
    BY <1>0
  <2>3. todo' \in [Run -> SUBSET Thing]
    BY <1>0, <2>1, <2>2, SetOfThings
  <2>4. notRemoved' \in [Run -> SUBSET Thing]
    <3>1. [notRemoved EXCEPT ![r] = @ \cup {t}] \in [Run -> SUBSET Thing]
      BY <1>0, <2>2, SetOfThings
    <3> QED BY <1>0, <2>1, <3>1
  <2>5. failed' \in [Run -> SUBSET Thing]
    <3>1. [failed EXCEPT ![r] = @ \cup {t}] \in [Run -> SUBSET Thing]
      BY <1>0, <2>2, SetOfThings
    <3> QED BY <1>0, <2>1, <3>1
  <2>6. there' \subseteq Thing
    BY <1>0, <2>1 DEF DaemonOK
  <2>7. spent' \in 0..MaxFailed
    BY <1>0, <2>1, SpentTyped
  <2> QED BY <1>0, <1>4, <2>3, <2>4, <2>5, <2>6, <2>7 DEF RemoveHelper, Typed, ProcessOK, DaemonOK
<1>5. CASE HelpersGone(r)
  BY <1>0, <1>1, <1>5 DEF HelpersGone, Typed, ProcessOK, DaemonOK, Places, Asking
<1>6. CASE Tests(r)
  BY <1>0, <1>1, <1>6 DEF Tests, Typed, ProcessOK, DaemonOK, Places, Ending
<1> QED BY <1>2, <1>3, <1>4, <1>5, <1>6 DEF Asks

(* The teardown, and what the person is told. *)
LEMMA TakesDownTyped ==
    ASSUME Typed, NEW r \in Run, TakesDown(r)
    PROVE  Typed'
<1> USE DEF Goto, dockerVars, volumeVars, removalVars, endVars, historyVars
<1>0. /\ DaemonOK /\ ProcessOK /\ at \in [Run -> Places] /\ spent \in 0..MaxFailed
      /\ todo \in [Run -> SUBSET Thing] /\ notRemoved \in [Run -> SUBSET Thing]
      /\ failed \in [Run -> SUBSET Thing]
  BY DEF Typed, ProcessOK
<1>1. \A place \in Places : [at EXCEPT ![r] = place] \in [Run -> Places]
  BY <1>0
<1>2. ASSUME NEW nets \in BOOLEAN, ListOwn(r, nets) PROVE Typed'
  <2>1. {r} \X {"net"} \subseteq Thing /\ {r} \X Containers \subseteq Thing
    BY DEF Thing, Everyone
  <2>2. {t \in Listed(nets) : t[1] = r} \subseteq Thing
    BY <1>0 DEF Listed, DaemonOK
  <2>3. todo' \in [Run -> SUBSET Thing]
    BY <1>0, <1>2, <2>1, <2>2 DEF ListOwn, ListOwnOr
  <2>4. spent' \in 0..MaxFailed
    BY <1>0, <1>2, SpentTyped DEF ListOwn, ListOwnOr
  <2>5. at' \in [Run -> Places]
    BY <1>1, <1>2 DEF ListOwn, ListOwnOr, Places, Ending
  <2> QED BY <1>0, <1>2, <2>3, <2>4, <2>5 DEF ListOwn, ListOwnOr, Typed, ProcessOK, DaemonOK
<1>3. ASSUME NEW nets \in BOOLEAN, ClearOwn(r, nets) PROVE Typed'
  <2>1. PICK t \in todo[r], gone \in BOOLEAN :
           /\ there' \subseteq there
           /\ failed' = failed \/ failed' = [failed EXCEPT ![r] = @ \cup {t}]
           /\ Fine \/ Fails(r, "rm")
           /\ todo' = [todo EXCEPT ![r] = @ \ {t}]
           /\ notRemoved' = [notRemoved EXCEPT ![r] = IF gone THEN @ ELSE @ \cup {t}]
    BY <1>3 DEF ClearOwn, Removal
  <2>2. t \in Thing
    BY <1>0
  <2>3. todo' \in [Run -> SUBSET Thing]
    BY <1>0, <2>1, <2>2, SetOfThings
  <2>4. notRemoved' \in [Run -> SUBSET Thing]
    <3>1. [notRemoved EXCEPT ![r] = @ \cup {t}] \in [Run -> SUBSET Thing]
      BY <1>0, <2>2, SetOfThings
    <3> QED BY <1>0, <2>1, <3>1
  <2>5. failed' \in [Run -> SUBSET Thing]
    <3>1. [failed EXCEPT ![r] = @ \cup {t}] \in [Run -> SUBSET Thing]
      BY <1>0, <2>2, SetOfThings
    <3> QED BY <1>0, <2>1, <3>1
  <2>6. there' \subseteq Thing
    BY <1>0, <2>1 DEF DaemonOK
  <2>7. spent' \in 0..MaxFailed
    BY <1>0, <2>1, SpentTyped
  <2> QED BY <1>0, <1>3, <2>3, <2>4, <2>5, <2>6, <2>7 DEF ClearOwn, Typed, ProcessOK, DaemonOK
<1>4. CASE OwnCleared(r)
  BY <1>0, <1>1, <1>4 DEF OwnCleared, Typed, ProcessOK, DaemonOK, Places, Ending
<1>5. CASE Return(r)
  <2>1. told' \in [Run -> {"nothing", "all removed", "what was not"}]
    BY <1>0, <1>5 DEF Return, ProcessOK
  <2> QED BY <1>0, <1>1, <1>5, <2>1 DEF Return, Typed, ProcessOK, DaemonOK, Places
<1> QED BY <1>2, <1>3, <1>4, <1>5 DEF TakesDown

(* A run that begins, is stopped, or is killed. *)
LEMMA BeginsOrStopsTyped ==
    ASSUME Typed, NEW r \in Run, Begin(r) \/ CtrlC(r) \/ Die(r)
    PROVE  Typed'
<1> USE DEF Goto, dockerVars, volumeVars, removalVars, endVars, historyVars
<1>0. DaemonOK /\ ProcessOK /\ at \in [Run -> Places] /\ mixed \in BOOLEAN
  BY DEF Typed, ProcessOK
<1>1. \A place \in Places : [at EXCEPT ![r] = place] \in [Run -> Places]
  BY <1>0
<1>2. CASE Begin(r)
  <2>1. began' \in [Run -> SUBSET Thing]
    BY <1>0, <1>2 DEF Begin, ProcessOK, DaemonOK
  <2>2. mixed' \in BOOLEAN
    BY <1>0, <1>2 DEF Begin
  <2>3. at' \in [Run -> Places]
    BY <1>1, <1>2 DEF Begin, Places, Clearing
  <2> QED BY <1>0, <1>2, <2>1, <2>2, <2>3 DEF Begin, Typed, ProcessOK, DaemonOK
<1>3. CASE CtrlC(r)
  BY <1>0, <1>3 DEF CtrlC, Typed, ProcessOK, DaemonOK
<1>4. CASE Die(r)
  <2>1. Making(r) \subseteq Thing
    <3>1. \A k \in {"install", "net", "helper", "app", "probe"} : <<r, k>> \in Thing
      BY OwnThings DEF Containers
    <3> QED BY <3>1 DEF Making
  <2>2. pending' \subseteq Thing /\ late' \subseteq Thing
    BY <1>0, <1>4, <2>1 DEF Die, DaemonOK
  <2>3. at' \in [Run -> Places]
    BY <1>1, <1>4 DEF Die, Places
  <2> QED BY <1>0, <1>4, <2>2, <2>3 DEF Die, Typed, ProcessOK, DaemonOK
<1> QED BY <1>2, <1>3, <1>4

(* What the daemon does by itself. *)
LEMMA DaemonTyped ==
    ASSUME Typed, Daemon
    PROVE  Typed'
<1> USE DEF dockerVars, volumeVars, removalVars, endVars, historyVars
<1>0. DaemonOK /\ ProcessOK /\ filled \in [Run -> Fillings] /\ spent \in 0..MaxFailed
  BY DEF Typed, DaemonOK, ProcessOK
<1>1. ASSUME NEW q \in Run, Copy(q) PROVE Typed'
  <2>1. there' \subseteq Thing
    BY <1>0, <1>1 DEF Copy, DaemonOK
  <2>2. filled' \in [Run -> Fillings]
    BY <1>0, <1>1 DEF Copy, Fillings
  <2>3. volume' \in Volumes
    BY <1>1, VolumesAre DEF Copy
  <2>4. spent' \in 0..MaxFailed
    BY <1>0, <1>1, RunsAssumption DEF Copy, Fine, Fails
  <2> QED BY <1>0, <1>1, <2>1, <2>2, <2>3, <2>4 DEF Copy, Typed, ProcessOK, DaemonOK
<1>2. ASSUME NEW t \in Thing, CarryOn(t) PROVE Typed'
  <2>1. pending' \subseteq Thing
    BY <1>0, <1>2 DEF CarryOn, DaemonOK
  <2>2. CASE Made(t)
    BY <1>0, <1>2, <2>1, <2>2, MadeTyped DEF CarryOn, Typed, ProcessOK, DaemonOK
  <2>3. CASE NothingMade
    BY <1>0, <1>2, <2>1, <2>3 DEF NothingMade, CarryOn, Typed, ProcessOK, DaemonOK
  <2> QED BY <1>2, <2>2, <2>3 DEF CarryOn
<1>3. ASSUME NEW t \in Thing, Expire(t) PROVE Typed'
  <2>1. there' \subseteq Thing
    BY <1>0, <1>3 DEF Expire, DaemonOK
  <2>2. filled' \in [Run -> Fillings] /\ volume' = volume
    BY <1>0, <1>3 DEF Expire, Fillings
  <2> QED BY <1>0, <1>3, <2>1, <2>2 DEF Expire, Typed, ProcessOK, DaemonOK
<1> QED BY <1>1, <1>2, <1>3 DEF Daemon

LEMMA NextTyped == Typed /\ [Next]_vars => Typed'
<1> SUFFICES ASSUME Typed, [Next]_vars PROVE Typed'
  OBVIOUS
<1>1. CASE UNCHANGED vars
  BY <1>1 DEF vars, dockerVars, volumeVars, removalVars, endVars, historyVars,
              Typed, ProcessOK, DaemonOK
<1> QED BY <1>1, NextParts, ClearsTyped, FillsTyped, StartsTyped, AsksTyped, TakesDownTyped,
           BeginsOrStopsTyped, DaemonTyped

(* Every variable keeps its type. *)
THEOREM DockerTyped == Spec => []TypeOK
BY InitTyped, NextTyped, TypedIsTypeOK, PTL DEF Spec

----------------------------------------------------------------------------
(* The fence.  Until its app is started, nothing of a run's app is there or *)
(* may yet be made; from the gateway's check on, its network is closed.     *)

Before == {"off"} \cup Clearing \cup AtVolume \cup (Starting \ {"probe"})
Behind == {"helper", "app", "probe"} \cup Asking

FenceInv ==
    /\ pending \subseteq late
    /\ \A r \in Run : at[r] \in Before => <<r, "app">> \notin there \cup pending
    /\ \A r \in Run : <<r, "net">> \notin late =>
         ((at[r] \in Behind \/ <<r, "app">> \in there \cup pending) => fence[r] = "closed")

(* What a call that makes t leaves of what the fence is about.              *)
LEMMA MakesEffect ==
    ASSUME Typed, NEW r \in Run, NEW t \in Thing, Makes(r, t)
    PROVE  /\ there' = there \/ there' = there \cup {t}
           /\ pending' = pending \/ (pending' = pending \cup {t} /\ t \in late')
           /\ late \subseteq late'
           /\ \A q \in Run : q # t[1] \/ t[2] # "net" => fence'[q] = fence[q]
<1>1. Made(t) \/ NothingMade
  BY DEF Makes, MakeDone, MakeFails
<1>2. fence \in [Everyone -> Kinds \cup {"none"}] /\ Run \subseteq Everyone
  BY DEF Typed, DaemonOK, Everyone
<1>3. \A q \in Run : q # t[1] \/ t[2] # "net" => fence'[q] = fence[q]
  BY <1>1, <1>2 DEF Made, NothingMade
<1>4. there' = there \/ there' = there \cup {t}
  BY <1>1 DEF Made, NothingMade
<1> QED BY <1>3, <1>4 DEF Makes, MakeDone, MakeFails

(* A step that makes nothing, and takes no run to before its app or to      *)
(* behind its fence.                                                        *)
Quiet ==
    /\ there' \subseteq there /\ pending' = pending /\ late' = late /\ fence' = fence
    /\ \A q \in Run : /\ at'[q] \in Before => at[q] \in Before
                      /\ at'[q] \in Behind => at[q] \in Behind

LEMMA QuietKeepsFence == FenceInv /\ Quiet => FenceInv'
<1> SUFFICES ASSUME FenceInv, Quiet PROVE FenceInv'
  OBVIOUS
<1>1. pending' \subseteq late' /\ there' \cup pending' \subseteq there \cup pending
  BY DEF FenceInv, Quiet
<1>2. ASSUME NEW r \in Run, at'[r] \in Before PROVE <<r, "app">> \notin there' \cup pending'
  <2>1. at[r] \in Before
    BY <1>2 DEF Quiet
  <2>2. <<r, "app">> \notin there \cup pending
    BY <2>1 DEF FenceInv
  <2> QED BY <1>1, <2>2
<1>3. ASSUME NEW r \in Run, <<r, "net">> \notin late',
             at'[r] \in Behind \/ <<r, "app">> \in there' \cup pending'
      PROVE  fence'[r] = "closed"
  <2>1. <<r, "net">> \notin late /\ fence' = fence
    BY <1>3 DEF Quiet
  <2>2. at[r] \in Behind \/ <<r, "app">> \in there \cup pending
    BY <1>1, <1>3 DEF Quiet
  <2> QED BY <2>1, <2>2 DEF FenceInv
<1> QED BY <1>1, <1>2, <1>3 DEF FenceInv

(* A run's own place is the only one it changes.                            *)
LEMMA GotoElsewhere ==
    ASSUME Typed, NEW r \in Run, NEW place, Goto(r, place)
    PROVE  at'[r] = place /\ \A q \in Run : q # r => at'[q] = at[q]
BY DEF Typed, ProcessOK, Goto

LEMMA QuietMove ==
    ASSUME Typed, NEW r \in Run, NEW place, Goto(r, place),
           there' \subseteq there, UNCHANGED <<pending, late, fence>>,
           place \in Before => at[r] \in Before,
           place \in Behind => at[r] \in Behind
    PROVE  Quiet
BY GotoElsewhere DEF Quiet

LEMMA ClearsQuiet == ASSUME Typed, NEW r \in Run, Clears(r) PROVE Quiet
<1> USE DEF dockerVars, volumeVars, removalVars, endVars, historyVars
<1>1. ASSUME NEW nets \in BOOLEAN, ListLeft(r, nets) PROVE Quiet
  BY <1>1, GotoElsewhere DEF ListLeft, Quiet, Before, Behind, Clearing, Asking
<1>2. ASSUME NEW nets \in BOOLEAN, ClearLeft(r, nets) PROVE Quiet
  BY <1>2 DEF ClearLeft, Removal, Quiet
<1>3. CASE LeftCleared(r)
  <2>1. PICK place \in {"list left nets", "look", "network"} : Goto(r, place)
    BY <1>3 DEF LeftCleared, EndRun
  <2>2. /\ there' = there /\ UNCHANGED <<pending, late, fence>>
        /\ place \in Before => at[r] \in Before
        /\ place \in Behind => at[r] \in Behind
    BY <1>3, <2>1 DEF LeftCleared, Before, Behind, Clearing, AtVolume, Starting, Asking
  <2> QED BY <2>1, <2>2, QuietMove
<1> QED BY <1>1, <1>2, <1>3 DEF Clears

LEMMA AsksQuiet == ASSUME Typed, NEW r \in Run, Asks(r) PROVE Quiet
<1> USE DEF dockerVars, volumeVars, removalVars, endVars, historyVars
<1>1. CASE RemoveHelper(r)
  BY <1>1 DEF RemoveHelper, Removal, Quiet
<1>2. CASE WaitUntilReady(r)
  <2>1. PICK place \in {"script", "list own"} : Goto(r, place)
    BY <1>2 DEF WaitUntilReady, EndRun
  <2>2. /\ there' = there /\ UNCHANGED <<pending, late, fence>>
        /\ place \in Before => at[r] \in Before
        /\ place \in Behind => at[r] \in Behind
    BY <1>2, <2>1 DEF WaitUntilReady, Before, Behind, Clearing, AtVolume, Starting, Asking
  <2> QED BY <2>1, <2>2, QuietMove
<1>3. CASE Script(r) \/ HelpersGone(r) \/ Tests(r)
  <2>1. PICK place \in {"helpers go", "tests", "list own"} : Goto(r, place)
    BY <1>3 DEF Script, HelpersGone, Tests, EndRun
  <2>2. /\ there' = there /\ UNCHANGED <<pending, late, fence>>
        /\ place \in Before => at[r] \in Before
        /\ place \in Behind => at[r] \in Behind
    BY <1>3, <2>1 DEF Script, HelpersGone, Tests, Before, Behind, Clearing, AtVolume, Starting, Asking
  <2> QED BY <2>1, <2>2, QuietMove
<1> QED BY <1>1, <1>2, <1>3 DEF Asks

LEMMA TakesDownQuiet == ASSUME Typed, NEW r \in Run, TakesDown(r) PROVE Quiet
<1> USE DEF dockerVars, volumeVars, removalVars, endVars, historyVars
<1>1. ASSUME NEW nets \in BOOLEAN, ListOwn(r, nets) PROVE Quiet
  <2>1. PICK place \in {"clear own nets", "clear own"} : Goto(r, place)
    BY <1>1 DEF ListOwn, ListOwnOr
  <2>2. /\ there' = there /\ UNCHANGED <<pending, late, fence>>
        /\ place \notin Before \cup Behind
    BY <1>1, <2>1 DEF ListOwn, ListOwnOr, Before, Behind, Clearing, AtVolume, Starting, Asking
  <2> QED BY <2>1, <2>2, QuietMove
<1>2. ASSUME NEW nets \in BOOLEAN, ClearOwn(r, nets) PROVE Quiet
  BY <1>2 DEF ClearOwn, Removal, Quiet
<1>3. CASE OwnCleared(r) \/ Return(r)
  <2>1. PICK place \in {"list own nets", "return", "done"} : Goto(r, place)
    BY <1>3 DEF OwnCleared, Return, EndRun
  <2>2. /\ there' = there /\ UNCHANGED <<pending, late, fence>>
        /\ place \in Before => at[r] \in Before
        /\ place \in Behind => at[r] \in Behind
    BY <1>3, <2>1 DEF OwnCleared, Return, Before, Behind, Clearing, AtVolume, Starting, Asking
  <2> QED BY <2>1, <2>2, QuietMove
<1> QED BY <1>1, <1>2, <1>3 DEF TakesDown

LEMMA FillsKeepFence ==
    ASSUME Typed, FenceInv, NEW r \in Run, Fills(r)
    PROVE  FenceInv'
<1> USE DEF dockerVars, volumeVars, removalVars, endVars, historyVars
<1>1. CASE Install(r)
  <2>1. Makes(r, <<r, "install">>) /\ <<r, "install">> \in Thing
    BY <1>1, OwnThings DEF Install, Makes, Containers
  <2>2. /\ there' = there \/ there' = there \cup {<<r, "install">>}
        /\ pending' = pending \/ (pending' = pending \cup {<<r, "install">>} /\ <<r, "install">> \in late')
        /\ late \subseteq late'
        /\ \A q \in Run : fence'[q] = fence[q]
    BY <2>1, MakesEffect
  <2>3. \A q \in Run : /\ at'[q] \in Before => at[q] \in Before
                       /\ at'[q] \in Behind => at[q] \in Behind
    <3>1. PICK place \in {"installing", "list own", "unfill"} : Goto(r, place)
      BY <1>1 DEF Install, EndRun
    <3>2. at[r] \in Before /\ place \notin Behind
      BY <1>1, <3>1 DEF Install, Before, Behind, AtVolume, Starting, Asking
    <3> QED BY <3>1, <3>2, GotoElsewhere
  <2>4. \A q \in Run : <<q, "app">> # <<r, "install">>
    OBVIOUS
  <2>5. pending' \subseteq late'
    BY <2>2 DEF FenceInv
  <2> QED BY <2>2, <2>3, <2>4, <2>5 DEF FenceInv
<1>2. CASE Look(r) \/ InstallEnds(r)
  <2>1. Quiet
    <3>1. PICK place \in {"network", "empty", "unfill", "list own"} : Goto(r, place)
      BY <1>2 DEF Look, InstallEnds, EndRun
    <3>2. /\ there' = there /\ UNCHANGED <<pending, late, fence>>
          /\ place \in Before => at[r] \in Before
          /\ place \in Behind => at[r] \in Behind
      BY <1>2, <3>1 DEF Look, InstallEnds, Before, Behind, Clearing, AtVolume, Starting, Asking
    <3> QED BY <3>1, <3>2, QuietMove
  <2> QED BY <2>1, QuietKeepsFence
<1>3. CASE Empty(r) \/ Create(r) \/ Unfill(r)
  <2>1. Quiet
    <3>1. PICK place \in {"create", "install", "list own"} : Goto(r, place)
      BY <1>3 DEF Empty, Create, Unfill, EndRun
    <3>2. /\ there' = there /\ UNCHANGED <<pending, late, fence>>
          /\ place \in Before => at[r] \in Before
          /\ place \in Behind => at[r] \in Behind
      BY <1>3, <3>1 DEF Empty, Create, Unfill, Before, Behind, Clearing, AtVolume, Starting, Asking
    <3> QED BY <3>1, <3>2, QuietMove
  <2> QED BY <2>1, QuietKeepsFence
<1> QED BY <1>1, <1>2, <1>3 DEF Fills

LEMMA StartsKeepFence ==
    ASSUME Typed, FenceInv, NEW r \in Run, Starts(r)
    PROVE  FenceInv'
<1> USE DEF dockerVars, volumeVars, removalVars, endVars, historyVars
<1> DEFINE Own(k) == <<r, k>>
<1>1. CASE MakeNetwork(r)
  <2>1. PICK otherwise \in {"network again", "plain network", "list own"} :
           CreateNetwork(r, otherwise)
    BY <1>1 DEF MakeNetwork
  <2>2. at[r] \in Before /\ at'[r] \in {"fence", "network again", "plain network", "list own"}
    BY <1>1, <2>1, GotoElsewhere DEF MakeNetwork, CreateNetwork, Before, Starting
  <2>3. \A q \in Run : q # r => at'[q] = at[q]
    BY <2>1, GotoElsewhere DEF CreateNetwork
  <2>4. at'[r] \notin Behind
    BY <2>2 DEF Behind, Asking
  <2>5. /\ there' = there \/ there' = there \cup {<<r, "net">>}
        /\ pending' = pending \/ (pending' = pending \cup {<<r, "net">>} /\ <<r, "net">> \in late')
        /\ late \subseteq late'
        /\ \A q \in Run : q # r => fence'[q] = fence[q]
    <3>1. CASE Makes(r, <<r, "net">>)
      <4>1. <<r, "net">> \in Thing
        BY OwnThings
      <4> QED BY <3>1, <4>1, MakesEffect
    <3>2. CASE ~Makes(r, <<r, "net">>)
      BY <2>1, <3>2 DEF CreateNetwork, Makes, NothingMade
    <3> QED BY <3>1, <3>2
  <2> QED BY <2>2, <2>3, <2>4, <2>5 DEF FenceInv
<1>2. CASE VerifyFenced(r)
  <2>1. Quiet
    <3>1. PICK place \in {"gateway", "list own"} : Goto(r, place)
      BY <1>2 DEF VerifyFenced, EndRun
    <3>2. /\ there' = there /\ UNCHANGED <<pending, late, fence>>
          /\ place \in Before => at[r] \in Before
          /\ place \in Behind => at[r] \in Behind
      BY <1>2, <3>1 DEF VerifyFenced, Before, Behind, Clearing, AtVolume, Starting, Asking
    <3> QED BY <3>1, <3>2, QuietMove
  <2> QED BY <2>1, QuietKeepsFence
<1>3. CASE VerifyGatewayClosed(r)
  <2>1. /\ there' = there /\ pending' = pending /\ late' = late /\ fence' = fence
        /\ at[r] \in Before
        /\ \A q \in Run : q # r => at'[q] = at[q]
    BY <1>3, GotoElsewhere DEF VerifyGatewayClosed, EndRun, Before, Starting
  <2>2. at'[r] \in Behind => fence[r] = "closed"
    <3>1. \/ fence[r] = "closed"
          \/ Goto(r, "list own")
      BY <1>3 DEF VerifyGatewayClosed, EndRun
    <3>2. "list own" \notin Behind
      BY DEF Behind, Asking
    <3> QED BY <3>1, <3>2, GotoElsewhere
  <2> QED BY <2>1, <2>2 DEF FenceInv
<1>4. CASE StartHelper(r)
  <2>1. /\ at[r] \in Before /\ at[r] \in Behind
        /\ \A q \in Run : q # r => at'[q] = at[q]
    BY <1>4, GotoElsewhere DEF StartHelper, Before, Behind, Starting
  <2>2. /\ there' = there \/ there' = there \cup {<<r, "helper">>}
        /\ pending' = pending \/ (pending' = pending \cup {<<r, "helper">>} /\ <<r, "helper">> \in late')
        /\ late \subseteq late'
        /\ \A q \in Run : fence'[q] = fence[q]
    <3>1. CASE Makes(r, <<r, "helper">>)
      <4>1. <<r, "helper">> \in Thing
        BY OwnThings DEF Containers
      <4> QED BY <3>1, <4>1, MakesEffect
    <3>2. CASE ~Makes(r, <<r, "helper">>)
      BY <1>4, <3>2 DEF StartHelper, Makes, NothingMade
    <3> QED BY <3>1, <3>2
  <2> QED BY <2>1, <2>2 DEF FenceInv
<1>5. CASE StartApp(r)
  <2>1. /\ at[r] \in Behind /\ at'[r] \notin Before
        /\ \A q \in Run : q # r => at'[q] = at[q]
    <3>1. PICK place \in {"probe", "list own"} : Goto(r, place)
      BY <1>5 DEF StartApp, EndRun
    <3>2. at[r] \in Behind /\ place \notin Before
      BY <1>5, <3>1 DEF StartApp, Before, Behind, Starting, Clearing, AtVolume
    <3> QED BY <3>1, <3>2, GotoElsewhere
  <2>2. /\ there' = there \/ there' = there \cup {<<r, "app">>}
        /\ pending' = pending \/ (pending' = pending \cup {<<r, "app">>} /\ <<r, "app">> \in late')
        /\ late \subseteq late'
        /\ \A q \in Run : fence'[q] = fence[q]
    <3>1. Makes(r, <<r, "app">>) /\ <<r, "app">> \in Thing
      BY <1>5, OwnThings DEF StartApp, Makes, Containers
    <3> QED BY <3>1, MakesEffect
  <2> QED BY <2>1, <2>2 DEF FenceInv
<1>6. CASE StartSidecar(r)
  <2>1. /\ at[r] \in Behind /\ at'[r] \notin Before
        /\ \A q \in Run : q # r => at'[q] = at[q]
    <3>1. PICK place \in {"ready"} : Goto(r, place)
      BY <1>6 DEF StartSidecar, EndRun
    <3>2. at[r] \in Behind /\ place \notin Before
      BY <1>6, <3>1 DEF StartSidecar, Before, Behind, Starting, Clearing, AtVolume
    <3> QED BY <3>1, <3>2, GotoElsewhere
  <2>2. /\ there' = there \/ there' = there \cup {<<r, "probe">>}
        /\ pending' = pending \/ (pending' = pending \cup {<<r, "probe">>} /\ <<r, "probe">> \in late')
        /\ late \subseteq late'
        /\ \A q \in Run : fence'[q] = fence[q]
    <3>1. Makes(r, <<r, "probe">>) /\ <<r, "probe">> \in Thing
      BY <1>6, OwnThings DEF StartSidecar, Makes, Containers
    <3> QED BY <3>1, MakesEffect
  <2> QED BY <2>1, <2>2 DEF FenceInv
<1> QED BY <1>1, <1>2, <1>3, <1>4, <1>5, <1>6 DEF Starts

LEMMA OthersKeepFence ==
    ASSUME Typed, FenceInv, NEW r \in Run, Begin(r) \/ CtrlC(r) \/ Die(r)
    PROVE  FenceInv'
<1> USE DEF dockerVars, volumeVars, removalVars, endVars, historyVars
<1>1. CASE Begin(r) \/ CtrlC(r)
  <2>1. Quiet
    BY <1>1, GotoElsewhere DEF Begin, CtrlC, Quiet, Before, Behind, Clearing, Asking
  <2> QED BY <2>1, QuietKeepsFence
<1>2. CASE Die(r)
  <2>1. /\ there' = there /\ fence' = fence
        /\ late \subseteq late' /\ pending' \subseteq late' \cup pending
        /\ pending \subseteq pending' /\ pending' \subseteq pending \cup Making(r)
        /\ at'[r] = "dead" /\ \A q \in Run : q # r => at'[q] = at[q]
    BY <1>2, GotoElsewhere DEF Die
  <2>2. \A q \in Run : <<q, "app">> \in Making(r) => q = r /\ at[r] \in Behind
    BY DEF Making, Behind
  <2>3. at'[r] \notin Before /\ at'[r] \notin Behind
    BY <2>1 DEF Before, Behind, Clearing, AtVolume, Starting, Asking
  <2> QED BY <2>1, <2>2, <2>3 DEF FenceInv
<1> QED BY <1>1, <1>2

LEMMA DaemonKeepsFence ==
    ASSUME Typed, FenceInv, Daemon
    PROVE  FenceInv'
<1> USE DEF dockerVars, volumeVars, removalVars, endVars, historyVars
<1>1. ASSUME NEW q \in Run, Copy(q) PROVE FenceInv'
  <2>1. Quiet
    BY <1>1 DEF Copy, Quiet
  <2> QED BY <2>1, QuietKeepsFence
<1>2. ASSUME NEW t \in Thing, Expire(t) PROVE FenceInv'
  <2>1. Quiet
    BY <1>2 DEF Expire, Quiet
  <2> QED BY <2>1, QuietKeepsFence
<1>3. ASSUME NEW t \in Thing, CarryOn(t) PROVE FenceInv'
  <2>1. /\ t \in pending /\ pending' = pending \ {t} /\ at' = at /\ late' = late
        /\ there' = there \/ there' = there \cup {t}
        /\ Made(t) \/ fence' = fence
    BY <1>3 DEF CarryOn, Made, NothingMade
  <2>2. fence \in [Everyone -> Kinds \cup {"none"}] /\ Run \subseteq Everyone
    BY DEF Typed, DaemonOK, Everyone
  <2>3. t = <<t[1], t[2]>>
    BY DEF Thing
  <2>4. \A q \in Run : <<q, "net">> \notin late => fence'[q] = fence[q]
    BY <2>1, <2>2, <2>3 DEF Made, FenceInv
  <2> QED BY <2>1, <2>4 DEF FenceInv
<1> QED BY <1>1, <1>2, <1>3 DEF Daemon

LEMMA InitFence == Init => FenceInv
<1> SUFFICES ASSUME Init PROVE FenceInv
  OBVIOUS
<1>1. \A r \in Run : at[r] = "off" /\ <<r, "app">> \notin there \cup pending
  BY RunsAssumption DEF Init
<1>2. \A r \in Run : at[r] \notin Behind
  BY <1>1 DEF Behind, Asking
<1> QED BY <1>1, <1>2 DEF Init, FenceInv

LEMMA NextFence == Typed /\ FenceInv /\ [Next]_vars => FenceInv'
<1> SUFFICES ASSUME Typed, FenceInv, [Next]_vars PROVE FenceInv'
  OBVIOUS
<1>1. CASE UNCHANGED vars
  <2>1. Quiet
    BY <1>1 DEF vars, dockerVars, historyVars, Quiet
  <2> QED BY <2>1, QuietKeepsFence
<1> QED BY <1>1, NextParts, QuietKeepsFence, ClearsQuiet, AsksQuiet, TakesDownQuiet,
           FillsKeepFence, StartsKeepFence, OthersKeepFence, DaemonKeepsFence

(* The app is only behind a closed fence.                                   *)
THEOREM AppsAreFenced == Spec => []AppIsFenced
<1>1. FenceInv => AppIsFenced
  BY DEF FenceInv, AppIsFenced
<1> QED BY <1>1, InitTyped, NextTyped, InitFence, NextFence, PTL DEF Spec

----------------------------------------------------------------------------
(* Removals.  A step of a run's changes what other runs keep in no way, and *)
(* adds to what is there only things of its own.                            *)

Shape(r) ==
    /\ \A q \in Run \ {r} : /\ at'[q] = at[q] /\ todo'[q] = todo[q]
                            /\ notRemoved'[q] = notRemoved[q] /\ told'[q] = told[q]
    /\ \A t \in there' \cup pending' : t \in there \cup pending \/ t[1] = r
    /\ \A t \in there' : t \in there \/ t[1] = r
    /\ late \subseteq late'

Middle == AtVolume \cup Starting \cup Asking \cup {"list own"}

(* While the run fills its volume and starts its containers it removes      *)
(* nothing, and its lists stay as they are.                                 *)
Building(r) ==
    /\ Shape(r) /\ there \subseteq there'
    /\ UNCHANGED <<todo, notRemoved, told>>
    /\ at[r] \in Middle /\ at'[r] \in Middle

LEMMA MakesShape ==
    ASSUME Typed, NEW r \in Run, NEW k \in Containers \cup {"net"}, Makes(r, <<r, k>>)
    PROVE  /\ there \subseteq there' /\ late \subseteq late'
           /\ \A t \in there' \cup pending' : t \in there \cup pending \/ t[1] = r
           /\ \A t \in there' : t \in there \/ t[1] = r
<1>1. <<r, k>> \in Thing /\ <<r, k>>[1] = r
  BY OwnThings
<1>2. /\ there' = there \/ there' = there \cup {<<r, k>>}
      /\ pending' = pending \/ pending' = pending \cup {<<r, k>>}
      /\ late \subseteq late'
  BY <1>1, MakesEffect
<1> QED BY <1>1, <1>2

LEMMA FillsBuild == ASSUME Typed, NEW r \in Run, Fills(r) PROVE Building(r)
<1> USE DEF dockerVars, volumeVars, removalVars, endVars, historyVars
<1>1. PICK place \in {"network", "empty", "create", "install", "installing", "unfill", "list own"} :
         Goto(r, place)
  BY DEF Fills, Look, Empty, Create, Install, InstallEnds, Unfill, EndRun
<1>2. at[r] \in Middle /\ place \in Middle
  BY <1>1 DEF Fills, Look, Empty, Create, Install, InstallEnds, Unfill, Middle, AtVolume, Starting
<1>3. at'[r] = place /\ \A q \in Run \ {r} : at'[q] = at[q]
  BY <1>1, GotoElsewhere
<1>4. CASE Install(r)
  <2>1. Makes(r, <<r, "install">>) /\ "install" \in Containers
    BY <1>4 DEF Install, Makes, Containers
  <2>2. UNCHANGED <<todo, notRemoved, told>>
    BY <1>4 DEF Install
  <2> QED BY <1>2, <1>3, <2>1, <2>2, MakesShape DEF Building, Shape
<1>5. CASE ~Install(r)
  BY <1>2, <1>3, <1>5 DEF Fills, Look, Empty, Create, InstallEnds, Unfill, Building, Shape
<1> QED BY <1>4, <1>5

LEMMA StartsBuild == ASSUME Typed, NEW r \in Run, Starts(r) PROVE Building(r)
<1> USE DEF dockerVars, volumeVars, removalVars, endVars, historyVars
<1>1. PICK place \in {"network again", "plain network", "fence", "gateway", "helper", "app",
                      "probe", "ready", "list own"} : Goto(r, place)
  <2>1. CASE MakeNetwork(r)
    BY <2>1 DEF MakeNetwork, CreateNetwork
  <2>2. CASE ~MakeNetwork(r)
    BY <2>2 DEF Starts, VerifyFenced, VerifyGatewayClosed, StartHelper, StartApp, StartSidecar, EndRun
  <2> QED BY <2>1, <2>2
<1>2. at[r] \in Middle /\ place \in Middle
  BY <1>1 DEF Starts, MakeNetwork, VerifyFenced, VerifyGatewayClosed, StartHelper, StartApp,
              StartSidecar, Middle, Starting, Asking
<1>3. at'[r] = place /\ \A q \in Run \ {r} : at'[q] = at[q]
  BY <1>1, GotoElsewhere
<1>4. UNCHANGED <<todo, notRemoved, told>>
  BY DEF Starts, MakeNetwork, CreateNetwork, VerifyFenced, VerifyGatewayClosed, StartHelper,
         StartApp, StartSidecar
<1>5. \/ \E k \in {"net", "helper", "app", "probe"} : Makes(r, <<r, k>>)
      \/ there' = there /\ pending' = pending /\ late' = late
  <2>1. CASE MakeNetwork(r)
    BY <2>1 DEF MakeNetwork, CreateNetwork, Makes, NothingMade
  <2>2. CASE StartHelper(r)
    BY <2>2 DEF StartHelper, Makes, NothingMade
  <2>3. CASE StartApp(r) \/ StartSidecar(r)
    BY <2>3 DEF StartApp, StartSidecar, Makes
  <2>4. CASE VerifyFenced(r) \/ VerifyGatewayClosed(r)
    BY <2>4 DEF VerifyFenced, VerifyGatewayClosed
  <2> QED BY <2>1, <2>2, <2>3, <2>4 DEF Starts
<1>6. /\ there \subseteq there' /\ late \subseteq late'
      /\ \A t \in there' \cup pending' : t \in there \cup pending \/ t[1] = r
      /\ \A t \in there' : t \in there \/ t[1] = r
  BY <1>5, MakesShape DEF Containers
<1> QED BY <1>2, <1>3, <1>4, <1>6 DEF Building, Shape

(* A removal takes from the daemon at most the thing it is for.             *)
LEMMA RemovalEffect ==
    ASSUME NEW r, NEW t, NEW gone \in BOOLEAN, Removal(r, t, gone)
    PROVE  there' = there \/ (there' = there \ {t} /\ gone)
BY DEF Removal

(* Going through what is to be removed, one by one.                         *)
Removing(r) ==
    \E t \in todo[r], gone \in BOOLEAN :
        /\ there' = there \/ there' = there \ {t}
        /\ gone => t \notin there'
        /\ todo' = [todo EXCEPT ![r] = @ \ {t}]
        /\ notRemoved' = [notRemoved EXCEPT ![r] = IF gone THEN @ ELSE @ \cup {t}]

LEMMA ClearsShape ==
    ASSUME Typed, NEW r \in Run, Clears(r)
    PROVE  /\ Shape(r) /\ UNCHANGED <<notRemoved, told, pending, late>>
           /\ at[r] \in Clearing
           /\ \/ /\ there' = there /\ at'[r] \in Clearing
                 /\ \A t \in todo'[r] : t \in there /\ IsLeftover(r, t[1])
              \/ /\ at' = at
                 /\ \E t \in todo[r] : there' \in {there, there \ {t}} /\ todo'[r] \subseteq todo[r]
              \/ /\ there' = there /\ todo[r] = {} /\ todo' = todo
                 /\ at'[r] \in Clearing \cup {"look", "network"}
<1> USE DEF dockerVars, volumeVars, removalVars, endVars, historyVars
<1>0. todo \in [Run -> SUBSET Thing]
  BY DEF Typed, ProcessOK
<1>1. ASSUME NEW nets \in BOOLEAN, ListLeft(r, nets)
      PROVE  /\ Shape(r) /\ UNCHANGED <<notRemoved, told, pending, late>>
             /\ at[r] \in Clearing /\ there' = there /\ at'[r] \in Clearing
             /\ \A t \in todo'[r] : t \in there /\ IsLeftover(r, t[1])
  <2>1. PICK place \in {"clear left", "clear left nets"} : Goto(r, place)
    BY <1>1 DEF ListLeft
  <2>2. at'[r] = place /\ \A q \in Run \ {r} : at'[q] = at[q]
    BY <2>1, GotoElsewhere
  <2>3. \E s \in SUBSET {t \in there : IsLeftover(r, t[1])} : todo' = [todo EXCEPT ![r] = s]
    <3>1. {t \in Listed(nets) : IsLeftover(r, t[1])} \in SUBSET {t \in there : IsLeftover(r, t[1])}
      BY DEF Listed
    <3>2. {} \in SUBSET {t \in there : IsLeftover(r, t[1])}
      OBVIOUS
    <3> QED BY <1>1, <3>1, <3>2 DEF ListLeft
  <2>4. at[r] \in Clearing
    BY <1>1 DEF ListLeft, Clearing
  <2> QED BY <1>0, <1>1, <2>2, <2>3, <2>4 DEF ListLeft, Shape, Clearing
<1>2. ASSUME NEW nets \in BOOLEAN, ClearLeft(r, nets)
      PROVE  /\ Shape(r) /\ UNCHANGED <<notRemoved, told, pending, late>>
             /\ at[r] \in Clearing /\ at' = at
             /\ \E t \in todo[r] : there' \in {there, there \ {t}} /\ todo'[r] \subseteq todo[r]
  <2>1. PICK t \in todo[r], gone \in BOOLEAN :
           Removal(r, t, gone) /\ todo' = [todo EXCEPT ![r] = @ \ {t}]
    BY <1>2 DEF ClearLeft
  <2>2. there' = there \/ there' = there \ {t}
    BY <2>1, RemovalEffect
  <2>3. at[r] \in Clearing
    BY <1>2 DEF ClearLeft, Clearing
  <2>4. todo'[r] \subseteq todo[r] /\ \A q \in Run \ {r} : todo'[q] = todo[q]
    BY <1>0, <2>1
  <2> QED BY <1>2, <2>2, <2>3, <2>4 DEF ClearLeft, Shape
<1>3. ASSUME LeftCleared(r)
      PROVE  /\ Shape(r) /\ UNCHANGED <<notRemoved, told, pending, late>>
             /\ at[r] \in Clearing /\ there' = there /\ todo[r] = {} /\ todo' = todo
             /\ at'[r] \in Clearing \cup {"look", "network"}
  <2>1. PICK place \in {"list left nets", "look", "network"} : Goto(r, place)
    BY <1>3 DEF LeftCleared
  <2>2. at'[r] = place /\ \A q \in Run \ {r} : at'[q] = at[q]
    BY <2>1, GotoElsewhere
  <2>3. at[r] \in Clearing
    BY <1>3 DEF LeftCleared, Clearing
  <2> QED BY <1>3, <2>2, <2>3 DEF LeftCleared, Shape, Clearing
<1> QED BY <1>1, <1>2, <1>3 DEF Clears

LEMMA AsksShape ==
    ASSUME Typed, NEW r \in Run, Asks(r)
    PROVE  /\ Shape(r) /\ UNCHANGED <<told, pending, late>>
           /\ at[r] \in Asking /\ at'[r] \in Middle
           /\ \/ /\ there' = there /\ notRemoved' = notRemoved
                 /\ \A t \in todo'[r] : t \in todo[r] \/ t[1] = r
              \/ Removing(r)
<1> USE DEF dockerVars, volumeVars, removalVars, endVars, historyVars
<1>0. todo \in [Run -> SUBSET Thing] /\ notRemoved \in [Run -> SUBSET Thing]
  BY DEF Typed, ProcessOK
<1>1. CASE RemoveHelper(r)
  <2>1. PICK t \in todo[r], gone \in BOOLEAN :
           /\ \/ Removal(r, t, gone)
              \/ ~gone /\ there' \in {there, there \ {t}}
           /\ todo' = [todo EXCEPT ![r] = @ \ {t}]
           /\ notRemoved' = [notRemoved EXCEPT ![r] = IF gone THEN @ ELSE @ \cup {t}]
    BY <1>1 DEF RemoveHelper
  <2>2. (there' = there \/ there' = there \ {t}) /\ (gone => t \notin there')
    BY <2>1 DEF Removal
  <2>3. Removing(r)
    BY <2>1, <2>2 DEF Removing
  <2>4. \A q \in Run \ {r} : todo'[q] = todo[q] /\ notRemoved'[q] = notRemoved[q]
    BY <1>0, <2>1
  <2>5. at[r] = "helpers go" /\ at' = at /\ UNCHANGED <<told, pending, late>>
    BY <1>1 DEF RemoveHelper
  <2> QED BY <2>2, <2>3, <2>4, <2>5 DEF Shape, Asking, Middle
<1>2. CASE ~RemoveHelper(r)
  <2>1. PICK place \in {"script", "helpers go", "tests", "list own"} : Goto(r, place)
    BY <1>2 DEF Asks, WaitUntilReady, Script, HelpersGone, Tests, EndRun
  <2>2. at'[r] = place /\ \A q \in Run \ {r} : at'[q] = at[q]
    BY <2>1, GotoElsewhere
  <2>3. at[r] \in Asking /\ place \in Middle
    BY <1>2, <2>1 DEF Asks, WaitUntilReady, Script, HelpersGone, Tests, Middle, Asking
  <2>4. /\ \A q \in Run \ {r} : todo'[q] = todo[q]
        /\ \A t \in todo'[r] : t \in todo[r] \/ t[1] = r
    <3>1. CASE Script(r)
      <4>1. todo' = [todo EXCEPT ![r] = {<<r, "probe">>} \cup
                                         IF helped[r] THEN {<<r, "helper">>} ELSE {}]
        BY <3>1 DEF Script
      <4>2. \A t \in {<<r, "probe">>} \cup (IF helped[r] THEN {<<r, "helper">>} ELSE {}) : t[1] = r
        <5>1. \A k : <<r, k>>[1] = r
          OBVIOUS
        <5> QED BY <5>1
      <4> QED BY <1>0, <4>1, <4>2
    <3>2. CASE ~Script(r)
      BY <1>2, <3>2 DEF Asks, WaitUntilReady, HelpersGone, Tests
    <3> QED BY <3>1, <3>2
  <2>5. there' = there /\ notRemoved' = notRemoved /\ UNCHANGED <<told, pending, late>>
    BY <1>2 DEF Asks, WaitUntilReady, Script, HelpersGone, Tests
  <2> QED BY <2>2, <2>3, <2>4, <2>5 DEF Shape
<1> QED BY <1>1, <1>2

LEMMA OthersShape ==
    ASSUME Typed, NEW r \in Run, Begin(r) \/ CtrlC(r) \/ Die(r)
    PROVE  /\ Shape(r) /\ UNCHANGED <<there, todo, notRemoved, told>>
           /\ \/ at[r] = "off" /\ at'[r] = "list left"
              \/ at' = at
              \/ Running(r) /\ at'[r] = "dead"
<1> USE DEF dockerVars, volumeVars, removalVars, endVars, historyVars
<1>1. CASE Begin(r)
  BY <1>1, GotoElsewhere DEF Begin, Shape
<1>2. CASE CtrlC(r)
  BY <1>2 DEF CtrlC, Shape
<1>3. CASE Die(r)
  <2>1. \A t \in Making(r) : t[1] = r
    <3>1. Making(r) \subseteq {<<r, "install">>, <<r, "net">>, <<r, "helper">>, <<r, "app">>, <<r, "probe">>}
      BY DEF Making
    <3> QED BY <3>1
  <2>2. pending' \subseteq pending \cup Making(r) /\ late \subseteq late' /\ there' = there
    BY <1>3 DEF Die
  <2>3. at'[r] = "dead" /\ \A q \in Run \ {r} : at'[q] = at[q]
    BY <1>3, GotoElsewhere DEF Die
  <2> QED BY <1>3, <2>1, <2>2, <2>3 DEF Die, Shape
<1> QED BY <1>1, <1>2, <1>3

LEMMA DaemonShape ==
    ASSUME Typed, Daemon
    PROVE  /\ UNCHANGED <<at, todo, notRemoved, told, late>>
           /\ there' \cup pending' \subseteq there \cup pending
           /\ there' \subseteq there \cup pending
           /\ \A t \in there \ there' : t[2] \in {"probe", "install"}
<1> USE DEF dockerVars, volumeVars, removalVars, endVars, historyVars
<1>1. ASSUME NEW q \in Run, Copy(q)
      PROVE  /\ UNCHANGED <<at, todo, notRemoved, told, late, pending>>
             /\ there' = there \/ there' = there \ {<<q, "install">>}
  BY <1>1 DEF Copy
<1>2. ASSUME NEW t \in Thing, CarryOn(t)
      PROVE  /\ UNCHANGED <<at, todo, notRemoved, told, late>>
             /\ t \in pending /\ pending' = pending \ {t}
             /\ there' = there \/ there' = there \cup {t}
  BY <1>2 DEF CarryOn, Made, NothingMade
<1>3. ASSUME NEW t \in Thing, Expire(t)
      PROVE  /\ UNCHANGED <<at, todo, notRemoved, told, late, pending>>
             /\ there' = there \ {t} /\ t[2] \in {"probe", "install"}
  BY <1>3 DEF Expire
<1> QED BY <1>1, <1>2, <1>3 DEF Daemon

----------------------------------------------------------------------------
(* A run goes only through things of its own, or of runs that ended.        *)

Ended == {"done", "dead"}

RemovalInv ==
    /\ \A r \in Run : at[r] = "off" => todo[r] = {}
    /\ \A r \in Run : at[r] \in Clearing =>
         \A t \in todo[r] : t[1] \in Run => at[t[1]] \in Ended
    /\ \A r \in Run : at[r] \notin Clearing \cup {"dead"} => \A t \in todo[r] : t[1] = r
    /\ \A t \in there \cup pending : t[1] \in Run => at[t[1]] # "off"

(* What the steps after the clearing keep of it.                            *)
LEMMA LaterKeeps ==
    ASSUME Typed, RemovalInv, NEW r \in Run, Shape(r),
           at[r] \in Middle \cup Ending, at'[r] \in Middle \cup Ending \cup {"done"},
           \A t \in todo'[r] : t \in todo[r] \/ t[1] = r
    PROVE  RemovalInv'
<1>1. /\ at[r] \notin Clearing \cup Ended \cup {"off"}
      /\ at'[r] \notin Clearing \cup {"dead", "off"}
  BY DEF Middle, Ending, Clearing, Ended, AtVolume, Starting, Asking
<1>2. \A q \in Run \ {r} : at'[q] = at[q] /\ todo'[q] = todo[q]
  BY DEF Shape
<1>3. \A q \in Run : at'[q] = "off" => todo'[q] = {}
  BY <1>1, <1>2 DEF RemovalInv
<1>4. \A q \in Run : at'[q] \in Clearing => \A t \in todo'[q] : t[1] \in Run => at'[t[1]] \in Ended
  BY <1>1, <1>2 DEF RemovalInv
<1>5. \A q \in Run : at'[q] \notin Clearing \cup {"dead"} => \A t \in todo'[q] : t[1] = q
  <2>1. \A t \in todo[r] : t[1] = r
    BY <1>1 DEF RemovalInv, Ended
  <2> QED BY <1>1, <1>2, <2>1 DEF RemovalInv
<1>6. \A t \in there' \cup pending' : t[1] \in Run => at'[t[1]] # "off"
  BY <1>1, <1>2 DEF RemovalInv, Shape
<1> QED BY <1>3, <1>4, <1>5, <1>6 DEF RemovalInv

LEMMA TakesDownShape ==
    ASSUME Typed, NEW r \in Run, TakesDown(r)
    PROVE  /\ Shape(r) /\ UNCHANGED <<pending, late>>
           /\ at[r] \in Ending
           /\ \/ /\ there' = there /\ notRemoved' = notRemoved /\ told' = told
                 /\ \E nets \in BOOLEAN :
                      /\ at[r] = IF nets THEN "list own nets" ELSE "list own"
                      /\ at'[r] = IF nets THEN "clear own nets" ELSE "clear own"
                      /\ todo'[r] \in {{t \in Listed(nets) : t[1] = r},
                                      {r} \X (IF nets THEN {"net"} ELSE Containers)}
              \/ Removing(r) /\ at' = at /\ told' = told /\ at[r] \in {"clear own", "clear own nets"}
              \/ /\ UNCHANGED <<there, notRemoved, told, todo>> /\ todo[r] = {}
                 /\ \/ at[r] = "clear own" /\ at'[r] = "list own nets"
                    \/ at[r] = "clear own nets" /\ at'[r] = "return"
              \/ /\ UNCHANGED <<there, notRemoved, todo>>
                 /\ at[r] = "return" /\ at'[r] = "done"
<1> USE DEF dockerVars, volumeVars, removalVars, endVars, historyVars
<1>0. todo \in [Run -> SUBSET Thing] /\ notRemoved \in [Run -> SUBSET Thing]
  BY DEF Typed, ProcessOK
<1>1. ASSUME NEW nets \in BOOLEAN, ListOwn(r, nets)
      PROVE  /\ Shape(r) /\ UNCHANGED <<pending, late, there, notRemoved, told>>
             /\ at[r] = IF nets THEN "list own nets" ELSE "list own"
             /\ at'[r] = IF nets THEN "clear own nets" ELSE "clear own"
             /\ todo'[r] \in {{t \in Listed(nets) : t[1] = r},
                             {r} \X (IF nets THEN {"net"} ELSE Containers)}
  <2>1. /\ at[r] = IF nets THEN "list own nets" ELSE "list own"
        /\ UNCHANGED <<pending, late, there, notRemoved, told>>
    BY <1>1 DEF ListOwn, ListOwnOr
  <2>2. \E s \in {{t \in Listed(nets) : t[1] = r}, {r} \X (IF nets THEN {"net"} ELSE Containers)} :
           todo' = [todo EXCEPT ![r] = s]
    BY <1>1 DEF ListOwn, ListOwnOr
  <2>3. /\ at'[r] = IF nets THEN "clear own nets" ELSE "clear own"
        /\ \A q \in Run \ {r} : at'[q] = at[q]
    BY <1>1, GotoElsewhere DEF ListOwn, ListOwnOr
  <2> QED BY <1>0, <2>1, <2>2, <2>3 DEF Shape
<1>2. ASSUME NEW nets \in BOOLEAN, ClearOwn(r, nets)
      PROVE  /\ Shape(r) /\ UNCHANGED <<pending, late, told, at>> /\ Removing(r)
             /\ at[r] \in {"clear own", "clear own nets"}
  <2>1. PICK t \in todo[r], gone \in BOOLEAN :
           /\ Removal(r, t, gone)
           /\ todo' = [todo EXCEPT ![r] = @ \ {t}]
           /\ notRemoved' = [notRemoved EXCEPT ![r] = IF gone THEN @ ELSE @ \cup {t}]
    BY <1>2 DEF ClearOwn
  <2>2. (there' = there \/ there' = there \ {t}) /\ (gone => t \notin there')
    BY <2>1 DEF Removal
  <2>3. Removing(r)
    BY <2>1, <2>2 DEF Removing
  <2>4. \A q \in Run \ {r} : todo'[q] = todo[q] /\ notRemoved'[q] = notRemoved[q]
    BY <1>0, <2>1
  <2>5. at[r] \in {"clear own", "clear own nets"} /\ UNCHANGED <<pending, late, told, at>>
    BY <1>2 DEF ClearOwn
  <2> QED BY <2>2, <2>3, <2>4, <2>5 DEF Shape
<1>3. CASE OwnCleared(r)
  BY <1>3, GotoElsewhere DEF OwnCleared, Shape, Ending
<1>4. CASE Return(r)
  <2>1. \A q \in Run \ {r} : told'[q] = told[q]
    BY <1>4 DEF Return, Typed, ProcessOK
  <2> QED BY <1>4, <2>1, GotoElsewhere DEF Return, Shape, Ending
<1>5. \A nets \in BOOLEAN : (IF nets THEN "list own nets" ELSE "list own") \in Ending
  BY DEF Ending
<1>6. {"clear own", "clear own nets"} \subseteq Ending
  BY DEF Ending
<1> QED BY <1>1, <1>2, <1>3, <1>4, <1>5, <1>6 DEF TakesDown

LEMMA InitRemoval == Init => RemovalInv
BY RunsAssumption DEF Init, RemovalInv, Clearing

LEMMA NextRemoval == Typed /\ RemovalInv /\ [Next]_vars => RemovalInv'
<1> SUFFICES ASSUME Typed, RemovalInv, [Next]_vars PROVE RemovalInv'
  OBVIOUS
<1>1. ASSUME NEW r \in Run, Fills(r) \/ Starts(r) PROVE RemovalInv'
  <2>1. Building(r)
    BY <1>1, FillsBuild, StartsBuild
  <2> QED BY <2>1, LaterKeeps DEF Building
<1>2. ASSUME NEW r \in Run, Asks(r) PROVE RemovalInv'
  <2>1. /\ Shape(r) /\ at[r] \in Asking /\ at'[r] \in Middle
        /\ \/ \A t \in todo'[r] : t \in todo[r] \/ t[1] = r
           \/ Removing(r)
    BY <1>2, AsksShape
  <2>2. Removing(r) => todo'[r] \subseteq todo[r]
    BY DEF Removing, Typed, ProcessOK
  <2>3. \A t \in todo'[r] : t \in todo[r] \/ t[1] = r
    BY <2>1, <2>2
  <2> QED BY <2>1, <2>3, LaterKeeps DEF Middle
<1>3. ASSUME NEW r \in Run, TakesDown(r) PROVE RemovalInv'
  <2>1. Removing(r) => todo'[r] \subseteq todo[r]
    BY DEF Removing, Typed, ProcessOK
  <2>2. \A t \in todo'[r] : t \in todo[r] \/ t[1] = r
    <3>1. ASSUME NEW nets \in BOOLEAN,
                 todo'[r] \in {{t \in Listed(nets) : t[1] = r},
                             {r} \X (IF nets THEN {"net"} ELSE Containers)}
          PROVE  \A t \in todo'[r] : t[1] = r
      BY <3>1
    <3> QED BY <1>3, <2>1, <3>1, TakesDownShape
  <2>3. at'[r] \in Ending \cup {"done"}
    BY <1>3, TakesDownShape DEF Ending
  <2> QED BY <1>3, <2>2, <2>3, TakesDownShape, LaterKeeps
<1>4. ASSUME NEW r \in Run, Begin(r) \/ CtrlC(r) \/ Die(r) PROVE RemovalInv'
  <2>1. /\ Shape(r) /\ UNCHANGED <<there, todo>>
        /\ \/ at[r] = "off" /\ at'[r] = "list left"
           \/ at' = at
           \/ Running(r) /\ at'[r] = "dead"
    BY <1>4, OthersShape
  <2>2. /\ at[r] \in Ended => at'[r] = at[r]
        /\ at'[r] = "off" => at[r] = "off"
        /\ at'[r] \in Clearing => at[r] \in Clearing \cup {"off"}
        /\ at'[r] \notin Clearing \cup {"dead"} => at[r] \notin Clearing \cup {"dead"}
    BY <2>1 DEF Running, Ended, Clearing, AtVolume, Starting, Asking, Ending
  <2>3. \A q \in Run : q # r => at'[q] = at[q]
    BY <2>1 DEF Shape
  <2>4. \A q \in Run : at'[q] = "off" => todo'[q] = {}
    BY <2>1, <2>2, <2>3 DEF RemovalInv
  <2>5. \A q \in Run : at'[q] \in Clearing => \A t \in todo'[q] : t[1] \in Run => at'[t[1]] \in Ended
    BY <2>1, <2>2, <2>3 DEF RemovalInv
  <2>6. \A q \in Run : at'[q] \notin Clearing \cup {"dead"} => \A t \in todo'[q] : t[1] = q
    BY <2>1, <2>2, <2>3 DEF RemovalInv
  <2>7. \A t \in there' \cup pending' : t[1] \in Run => at'[t[1]] # "off"
    <3>1. ASSUME NEW t \in there' \cup pending', t[1] \in Run, at'[t[1]] = "off" PROVE FALSE
      <4>1. at[t[1]] = "off"
        BY <2>2, <2>3, <3>1
      <4>2. t \notin there \cup pending
        BY <4>1, <3>1 DEF RemovalInv
      <4>3. t[1] = r
        BY <2>1, <4>2 DEF Shape
      <4>4. CASE Begin(r)
        BY <4>4, <4>2 DEF Begin, dockerVars
      <4>5. CASE CtrlC(r)
        BY <4>5, <4>2 DEF CtrlC, dockerVars
      <4>6. CASE Die(r)
        BY <4>6, <4>3, <3>1, GotoElsewhere DEF Die
      <4> QED BY <1>4, <4>4, <4>5, <4>6
    <3> QED BY <3>1
  <2> QED BY <2>4, <2>5, <2>6, <2>7 DEF RemovalInv
<1>5. CASE Daemon
  BY <1>5, DaemonShape DEF RemovalInv
<1>6. ASSUME NEW r \in Run, Clears(r) PROVE RemovalInv'
  <2>1. /\ Shape(r) /\ pending' = pending /\ there' \subseteq there /\ at[r] \in Clearing
        /\ at'[r] \in Clearing \cup {"look", "network"}
    BY <1>6, ClearsShape DEF Shape
  <2>2. \A q \in Run : q # r => at'[q] = at[q] /\ todo'[q] = todo[q]
    BY <2>1 DEF Shape
  <2>3. at[r] \notin Ended \cup {"off"} /\ at'[r] \notin Ended \cup {"off"}
    BY <2>1 DEF Clearing, Ended
  <2>4. \A q \in Run : at'[q] = "off" => todo'[q] = {}
    BY <2>2, <2>3 DEF RemovalInv
  <2>5. \A t \in todo'[r] : t[1] \in Run => at[t[1]] \in Ended
    <3>1. ASSUME NEW t \in there, IsLeftover(r, t[1]), t[1] \in Run PROVE at[t[1]] \in Ended
      <4>1. ~Running(t[1])
        BY <3>1 DEF IsLeftover, Alive
      <4>2. at[t[1]] # "off" /\ at[t[1]] \in Places
        BY <3>1 DEF RemovalInv, Typed, ProcessOK
      <4> QED BY <4>1, <4>2 DEF Running, Places, Ended
    <3> QED BY <1>6, <2>1, <3>1, ClearsShape DEF RemovalInv
  <2>6. \A q \in Run : at'[q] \in Clearing => \A t \in todo'[q] : t[1] \in Run => at'[t[1]] \in Ended
    BY <2>2, <2>3, <2>5, <2>1 DEF RemovalInv
  <2>7. at'[r] \notin Clearing => todo'[r] = {}
    BY <1>6, ClearsShape
  <2>8. \A q \in Run : at'[q] \notin Clearing \cup {"dead"} => \A t \in todo'[q] : t[1] = q
    BY <2>2, <2>7 DEF RemovalInv
  <2>9. \A t \in there' \cup pending' : t[1] \in Run => at'[t[1]] # "off"
    BY <2>1, <2>2, <2>3 DEF RemovalInv
  <2> QED BY <2>4, <2>6, <2>8, <2>9 DEF RemovalInv
<1>7. CASE UNCHANGED vars
  BY <1>7 DEF vars, dockerVars, removalVars, RemovalInv
<1> QED BY <1>1, <1>2, <1>3, <1>4, <1>5, <1>6, <1>7, NextParts

LEMMA RemovingIsOwn ==
    ASSUME Typed, RemovalInv, NEW r \in Run, Removing(r), at[r] \notin Clearing \cup {"dead"}
    PROVE  \A t \in there \ there' : t[1] = r /\ todo'[r] # todo[r]
<1>1. PICK t \in todo[r] : there' \in {there, there \ {t}} /\ todo' = [todo EXCEPT ![r] = @ \ {t}]
  BY DEF Removing
<1>2. t[1] = r
  BY DEF RemovalInv
<1>3. todo'[r] = todo[r] \ {t}
  BY <1>1 DEF Typed, ProcessOK
<1> QED BY <1>1, <1>2, <1>3

LEMMA NextSpares == Typed /\ RemovalInv /\ [Next]_vars => [SparesLiving]_vars
<1> SUFFICES ASSUME Typed, RemovalInv, [Next]_vars, ~UNCHANGED vars PROVE SparesLiving
  OBVIOUS
<1>1. ASSUME NEW r \in Run, Clears(r) PROVE SparesLiving
  <2>1. \A t \in there \ there' : t \in todo[r] /\ at[r] \in Clearing
    BY <1>1, ClearsShape
  <2>2. \A t \in there \ there' : t[1] \in Run => at[t[1]] \in Ended
    BY <2>1 DEF RemovalInv
  <2>3. \A q \in Run : at[q] \in Ended => ~Running(q)
    BY DEF Ended, Running, Clearing, AtVolume, Starting, Asking, Ending
  <2> QED BY <2>2, <2>3 DEF SparesLiving
<1>2. ASSUME NEW r \in Run, Fills(r) \/ Starts(r) PROVE SparesLiving
  BY <1>2, FillsBuild, StartsBuild DEF Building, SparesLiving
<1>3. ASSUME NEW r \in Run, Asks(r) PROVE SparesLiving
  <2>1. at[r] \in Asking /\ (there' = there \/ Removing(r))
    BY <1>3, AsksShape
  <2>2. at[r] \notin Clearing \cup {"dead"}
    BY <2>1 DEF Asking, Clearing
  <2> QED BY <2>1, <2>2, RemovingIsOwn DEF SparesLiving
<1>4. ASSUME NEW r \in Run, TakesDown(r) PROVE SparesLiving
  <2>1. at[r] \in Ending /\ (there' = there \/ Removing(r))
    BY <1>4, TakesDownShape
  <2>2. at[r] \notin Clearing \cup {"dead"}
    BY <2>1 DEF Ending, Clearing
  <2> QED BY <2>1, <2>2, RemovingIsOwn DEF SparesLiving
<1>5. ASSUME NEW r \in Run, Begin(r) \/ CtrlC(r) \/ Die(r) PROVE SparesLiving
  BY <1>5, OthersShape DEF SparesLiving
<1>6. CASE Daemon
  BY <1>6, DaemonShape DEF SparesLiving
<1> QED BY <1>1, <1>2, <1>3, <1>4, <1>5, <1>6, NextParts

(* No run's removals take what a going run has made.                        *)
THEOREM LivingAreSpared == Spec => LivingLeftAlone
BY InitTyped, NextTyped, InitRemoval, NextRemoval, NextSpares, PTL DEF Spec, LivingLeftAlone

----------------------------------------------------------------------------
(* What is left is named.                                                   *)

Saying == {"clear own", "list own nets", "clear own nets", "return", "done"}

(* While a run takes down: what is there of its own is still to be gone     *)
(* through, or named.                                                       *)
SaidOf(r) ==
    /\ at[r] = "clear own" =>
         \A t \in there \ late : t[1] = r /\ ~IsNet(t) => t \in todo[r] \cup notRemoved[r]
    /\ at[r] \in Saying \ {"clear own"} =>
         \A t \in there \ late : t[1] = r /\ ~IsNet(t) => t \in notRemoved[r]
    /\ at[r] = "clear own nets" =>
         \A t \in there \ late : t[1] = r /\ IsNet(t) => t \in todo[r] \cup notRemoved[r]
    /\ at[r] \in {"return", "done"} =>
         \A t \in there \ late : t[1] = r /\ IsNet(t) => t \in notRemoved[r]
    /\ told[r] # "nothing" => at[r] = "done"

SaidInv == \A r \in Run : SaidOf(r)

LEMMA OthersSaid ==
    ASSUME SaidInv, NEW r \in Run, Shape(r)
    PROVE  \A q \in Run \ {r} : SaidOf(q)'
<1> SUFFICES ASSUME NEW q \in Run \ {r} PROVE SaidOf(q)'
  OBVIOUS
<1>1. /\ at'[q] = at[q] /\ todo'[q] = todo[q] /\ notRemoved'[q] = notRemoved[q] /\ told'[q] = told[q]
      /\ \A t \in there' \ late' : t[1] = q => t \in there \ late
  BY DEF Shape
<1>2. SaidOf(q)
  BY DEF SaidInv
<1> QED BY <1>1, <1>2 DEF SaidOf

(* A run that is not taking down has said nothing yet. *)
LEMMA NotYetSaid ==
    ASSUME SaidInv, NEW r \in Run, at[r] # "done", told'[r] = told[r], at'[r] \notin Saying
    PROVE  SaidOf(r)'
<1>1. told[r] = "nothing"
  BY DEF SaidInv, SaidOf
<1> QED BY <1>1 DEF SaidOf, Saying

LEMMA TakesDownSaid ==
    ASSUME Typed, RemovalInv, SaidInv, NEW r \in Run, TakesDown(r)
    PROVE  SaidOf(r)'
<1>0. SaidOf(r) /\ at[r] # "done" /\ late' = late
  BY TakesDownShape DEF SaidInv, Ending
<1>1. told[r] = "nothing"
  BY <1>0 DEF SaidOf
<1>2. ASSUME there' = there, notRemoved' = notRemoved, told' = told, NEW nets \in BOOLEAN,
             at[r] = IF nets THEN "list own nets" ELSE "list own",
             at'[r] = IF nets THEN "clear own nets" ELSE "clear own",
             todo'[r] \in {{t \in Listed(nets) : t[1] = r},
                         {r} \X (IF nets THEN {"net"} ELSE Containers)}
      PROVE  SaidOf(r)'
  <2>1. \A t \in there : t[1] = r /\ (IsNet(t) <=> nets) => t \in todo'[r]
    <3>1. ASSUME NEW t \in there, t[1] = r, IsNet(t) <=> nets PROVE t \in todo'[r]
      <4>1. t \in Everyone \X (Containers \cup {"net"})
        BY DEF Typed, DaemonOK, Thing
      <4>2. t = <<r, t[2]>> /\ t[2] \in Containers \cup {"net"} /\ "net" \notin Containers
        BY <3>1, <4>1 DEF Containers
      <4>3. t \in {r} \X (IF nets THEN {"net"} ELSE Containers)
        BY <3>1, <4>2 DEF IsNet
      <4>4. t \in {u \in Listed(nets) : u[1] = r}
        BY <3>1 DEF Listed
      <4> QED BY <1>2, <4>3, <4>4
    <3> QED BY <3>1
  <2>2. CASE nets
    <3>1. at[r] = "list own nets" /\ at'[r] = "clear own nets"
      BY <1>2, <2>2
    <3>2. \A t \in there \ late : t[1] = r /\ ~IsNet(t) => t \in notRemoved[r]
      BY <1>0, <3>1 DEF SaidOf, Saying
    <3> QED BY <1>0, <1>1, <1>2, <2>1, <2>2, <3>1, <3>2 DEF SaidOf, Saying
  <2>3. CASE ~nets
    <3>1. at'[r] = "clear own"
      BY <1>2, <2>3
    <3> QED BY <1>0, <1>1, <1>2, <2>1, <2>3, <3>1 DEF SaidOf, Saying
  <2> QED BY <2>2, <2>3
<1>3. ASSUME Removing(r), at' = at, told' = told, at[r] \in {"clear own", "clear own nets"}
      PROVE  SaidOf(r)'
  <2>1. PICK t \in todo[r], gone \in BOOLEAN :
           /\ there' \subseteq there /\ (gone => t \notin there')
           /\ todo'[r] = todo[r] \ {t}
           /\ notRemoved'[r] = IF gone THEN notRemoved[r] ELSE notRemoved[r] \cup {t}
    BY <1>3 DEF Removing, Typed, ProcessOK
  <2>2. \A u \in there' : u \in todo[r] \cup notRemoved[r] => u \in todo'[r] \cup notRemoved'[r]
    BY <2>1
  <2>3. notRemoved[r] \subseteq notRemoved'[r]
    BY <2>1
  <2>4. \A u \in there' \ late' : u \in there \ late
    BY <1>0, <2>1
  <2>5. CASE at[r] = "clear own"
    <3>1. \A u \in there' \ late' : u[1] = r /\ ~IsNet(u) => u \in todo'[r] \cup notRemoved'[r]
      BY <1>0, <2>2, <2>4, <2>5 DEF SaidOf
    <3> QED BY <1>1, <1>3, <2>5, <3>1 DEF SaidOf, Saying, IsNet
  <2>6. CASE at[r] = "clear own nets"
    <3>1. \A u \in there' \ late' : u[1] = r /\ ~IsNet(u) => u \in notRemoved'[r]
      BY <1>0, <2>3, <2>4, <2>6 DEF SaidOf, Saying
    <3>2. \A u \in there' \ late' : u[1] = r /\ IsNet(u) => u \in todo'[r] \cup notRemoved'[r]
      BY <1>0, <2>2, <2>4, <2>6 DEF SaidOf
    <3> QED BY <1>1, <1>3, <2>6, <3>1, <3>2 DEF SaidOf, Saying, IsNet
  <2> QED BY <1>3, <2>5, <2>6
<1>4. ASSUME UNCHANGED <<there, notRemoved, told, todo>>, todo[r] = {},
             \/ at[r] = "clear own" /\ at'[r] = "list own nets"
             \/ at[r] = "clear own nets" /\ at'[r] = "return"
      PROVE  SaidOf(r)'
  BY <1>0, <1>1, <1>4 DEF SaidOf, Saying
<1>5. ASSUME UNCHANGED <<there, notRemoved, todo>>, at[r] = "return", at'[r] = "done"
      PROVE  SaidOf(r)'
  BY <1>0, <1>5 DEF SaidOf, Saying
<1> QED BY <1>2, <1>3, <1>4, <1>5, TakesDownShape

LEMMA InitSaid == Init => SaidInv
BY DEF Init, SaidInv, SaidOf, Saying

LEMMA NextSaid == Typed /\ FenceInv /\ RemovalInv /\ SaidInv /\ [Next]_vars => SaidInv'
<1> SUFFICES ASSUME Typed, FenceInv, RemovalInv, SaidInv, [Next]_vars PROVE SaidInv'
  OBVIOUS
<1>1. ASSUME NEW r \in Run, Shape(r), SaidOf(r)' PROVE SaidInv'
  BY <1>1, OthersSaid DEF SaidInv
<1>2. ASSUME NEW r \in Run, Clears(r) PROVE SaidInv'
  <2>1. at[r] \in Clearing /\ told' = told /\ Shape(r)
    BY <1>2, ClearsShape
  <2>2. at'[r] \in Clearing \cup {"look", "network"}
    BY <1>2, ClearsShape
  <2>3. at[r] # "done" /\ at'[r] \notin Saying
    BY <2>1, <2>2 DEF Clearing, Saying
  <2> QED BY <1>1, <2>1, <2>3, NotYetSaid
<1>3. ASSUME NEW r \in Run, Fills(r) \/ Starts(r) PROVE SaidInv'
  <2>1. Building(r)
    BY <1>3, FillsBuild, StartsBuild
  <2>2. at[r] # "done" /\ at'[r] \notin Saying
    BY <2>1 DEF Building, Middle, Saying, AtVolume, Starting, Asking
  <2> QED BY <1>1, <2>1, <2>2, NotYetSaid DEF Building
<1>4. ASSUME NEW r \in Run, Asks(r) PROVE SaidInv'
  <2>1. at[r] \in Asking /\ at'[r] \in Middle /\ told' = told /\ Shape(r)
    BY <1>4, AsksShape
  <2>2. at[r] # "done" /\ at'[r] \notin Saying
    BY <2>1 DEF Middle, Saying, AtVolume, Starting, Asking
  <2> QED BY <1>1, <2>1, <2>2, NotYetSaid
<1>5. ASSUME NEW r \in Run, TakesDown(r) PROVE SaidInv'
  BY <1>1, <1>5, TakesDownSaid, TakesDownShape
<1>6. ASSUME NEW r \in Run, Begin(r) \/ CtrlC(r) \/ Die(r) PROVE SaidInv'
  <2>1. /\ Shape(r) /\ UNCHANGED <<there, todo, notRemoved, told>> /\ late \subseteq late'
        /\ \/ at[r] = "off" /\ at'[r] = "list left"
           \/ at' = at
           \/ Running(r) /\ at'[r] = "dead"
    BY <1>6, OthersShape DEF Shape
  <2>2. CASE at' = at
    <3>1. SaidOf(r)
      BY DEF SaidInv
    <3>2. SaidOf(r)'
      BY <2>1, <2>2, <3>1 DEF SaidOf
    <3> QED BY <1>1, <2>1, <3>2
  <2>3. CASE at[r] = "off" /\ at'[r] = "list left"
    BY <1>1, <2>1, <2>3, NotYetSaid DEF Saying
  <2>4. CASE Running(r) /\ at'[r] = "dead"
    <3>1. at[r] # "done"
      BY <2>4 DEF Running, Clearing, AtVolume, Starting, Asking, Ending
    <3> QED BY <1>1, <2>1, <2>4, <3>1, NotYetSaid DEF Saying
  <2> QED BY <2>1, <2>2, <2>3, <2>4
<1>7. CASE Daemon
  <2>1. there' \ late' \subseteq there \ late /\ UNCHANGED <<at, todo, notRemoved, told>>
    BY <1>7, DaemonShape DEF FenceInv
  <2> QED BY <2>1 DEF SaidInv, SaidOf
<1>8. CASE UNCHANGED vars
  BY <1>8 DEF vars, dockerVars, removalVars, endVars, historyVars, SaidInv, SaidOf
<1> QED BY <1>2, <1>3, <1>4, <1>5, <1>6, <1>7, <1>8, NextParts

(* What a run that was not stopped leaves is named in what it says.         *)
THEOREM LeftIsSaid == Spec => []WhatIsLeftIsSaid
<1>1. SaidInv => WhatIsLeftIsSaid
  BY DEF SaidInv, SaidOf, Saying, WhatIsLeftIsSaid
<1> QED BY <1>1, InitTyped, NextTyped, InitFence, NextFence, InitRemoval, NextRemoval,
           InitSaid, NextSaid, PTL DEF Spec

----------------------------------------------------------------------------
(* What killed runs left.  The runs r counts leftovers of have ended, so    *)
(* that nothing more is made for them but what the daemon makes late; what  *)
(* r was refused, or what came late, is all that can stay, and its networks.*)

Excused(r) == failed[r] \cup late
Staying(r) == (began[r] \cap there) \ Excused(r)

NetsIn == {"list left nets", "clear left nets"}
PastClearing(r) == Running(r) /\ at[r] \notin Clearing

(* Everything there of an ended run that r found at its start, r found.     *)
LeftoversOfEnded ==
    \A r \in Run : \A t \in began[r] :
        /\ t[1] \in Run => at[t[1]] \in {"done", "dead"}
        /\ \A k \in Containers : <<t[1], k>> \in there => <<t[1], k>> \in began[r] \cup late

HeldBy(t, r) == \E k \in Fenced : <<t[1], k>> \in Excused(r)

ClearedSoFar ==
    \A r \in Run : \A t \in Staying(r) :
        /\ at[r] = "clear left" => IsNet(t) \/ t \in todo[r]
        /\ at[r] \in NetsIn \/ PastClearing(r) => IsNet(t)
        /\ at[r] = "clear left nets" => t \in todo[r] \/ HeldBy(t, r)
        /\ PastClearing(r) => HeldBy(t, r)

LeftInv == LeftoversOfEnded /\ ClearedSoFar

(* A run that ended makes no step, and nothing is made for it but late.     *)
LEMMA EndedStays ==
    ASSUME Typed, RemovalInv, FenceInv, [Next]_vars, NEW t,
           t[1] \in Run => at[t[1]] \in Ended
    PROVE  /\ t[1] \in Run => at'[t[1]] \in Ended
           /\ t \in there' => t \in there \cup late'
           /\ late \subseteq late'
<1>1. ASSUME NEW r \in Run, Shape(r), at[r] \notin Ended
      PROVE  /\ t[1] \in Run => at'[t[1]] \in Ended
             /\ t \in there' => t \in there
             /\ late \subseteq late'
  BY <1>1 DEF Shape
<1>2. ASSUME NEW r \in Run,
             \/ Begin(r) \/ Clears(r) \/ Fills(r) \/ Starts(r)
             \/ Asks(r) \/ TakesDown(r) \/ CtrlC(r) \/ Die(r)
      PROVE  Shape(r) /\ at[r] \notin Ended
  <2>1. CASE Begin(r) \/ CtrlC(r) \/ Die(r)
    <3>1. at[r] = "off" \/ Running(r)
      BY <2>1 DEF Begin, CtrlC, Die
    <3>2. at[r] \notin Ended
      BY <3>1 DEF Running, Ended, Clearing, AtVolume, Starting, Asking, Ending
    <3> QED BY <2>1, <3>2, OthersShape
  <2>2. CASE Clears(r)
    BY <2>2, ClearsShape DEF Clearing, Ended
  <2>3. CASE Fills(r) \/ Starts(r)
    <3>1. Building(r)
      BY <2>3, FillsBuild, StartsBuild
    <3> QED BY <3>1 DEF Building, Middle, AtVolume, Starting, Asking, Ended
  <2>4. CASE Asks(r)
    BY <2>4, AsksShape DEF Asking, Ended
  <2>5. CASE TakesDown(r)
    BY <2>5, TakesDownShape DEF Ending, Ended
  <2> QED BY <1>2, <2>1, <2>2, <2>3, <2>4, <2>5
<1>3. CASE Daemon
  BY <1>3, DaemonShape DEF FenceInv
<1>4. CASE UNCHANGED vars
  BY <1>4 DEF vars, dockerVars, historyVars
<1> QED BY <1>1, <1>2, <1>3, <1>4, NextParts

(* Past its clearing a run goes on past it, or ends; what it found stays as *)
(* it is, and what was refused stays refused.                               *)
LEMMA LaterFound ==
    ASSUME Typed, NEW r \in Run,
           Fills(r) \/ Starts(r) \/ Asks(r) \/ TakesDown(r) \/ CtrlC(r) \/ Die(r)
    PROVE  /\ Shape(r) /\ began' = began
           /\ \A q \in Run : failed[q] \subseteq failed'[q]
           /\ \/ at' = at /\ todo' = todo
              \/ at'[r] \in Ended
              \/ PastClearing(r) /\ at'[r] \notin Clearing
<1> USE DEF dockerVars, volumeVars, removalVars, endVars, historyVars
<1>0. failed \in [Run -> SUBSET Thing]
  BY DEF Typed, ProcessOK
<1>1. ASSUME NEW t, NEW gone \in BOOLEAN, Removal(r, t, gone)
      PROVE  \A q \in Run : failed[q] \subseteq failed'[q]
  BY <1>0, <1>1 DEF Removal
<1>2. CASE Fills(r)
  <2>1. began' = began /\ failed' = failed
    BY <1>2 DEF Fills, Look, Empty, Create, Install, InstallEnds, Unfill
  <2>2. Building(r)
    BY <1>2, FillsBuild
  <2>3. PastClearing(r) /\ at'[r] \notin Clearing
    BY <2>2 DEF Building, Middle, PastClearing, Running, AtVolume, Starting, Asking, Clearing, Ending
  <2> QED BY <2>1, <2>2, <2>3 DEF Building
<1>3. CASE Starts(r)
  <2>1. began' = began /\ failed' = failed
    BY <1>3 DEF Starts, MakeNetwork, CreateNetwork, VerifyFenced, VerifyGatewayClosed,
                StartHelper, StartApp, StartSidecar
  <2>2. Building(r)
    BY <1>3, StartsBuild
  <2>3. PastClearing(r) /\ at'[r] \notin Clearing
    BY <2>2 DEF Building, Middle, PastClearing, Running, AtVolume, Starting, Asking, Clearing, Ending
  <2> QED BY <2>1, <2>2, <2>3 DEF Building
<1>4. CASE Asks(r)
  <2>1. began' = began /\ \A q \in Run : failed[q] \subseteq failed'[q]
    <3>1. CASE RemoveHelper(r)
      BY <3>1, <1>1 DEF RemoveHelper
    <3>2. CASE ~RemoveHelper(r)
      BY <1>4, <3>2 DEF Asks, WaitUntilReady, Script, HelpersGone, Tests
    <3> QED BY <3>1, <3>2
  <2>2. Shape(r) /\ at[r] \in Asking /\ at'[r] \in Middle
    BY <1>4, AsksShape
  <2>3. PastClearing(r) /\ at'[r] \notin Clearing
    BY <2>2 DEF Middle, PastClearing, Running, AtVolume, Starting, Asking, Clearing, Ending
  <2> QED BY <2>1, <2>2, <2>3
<1>5. CASE TakesDown(r)
  <2>1. began' = began /\ \A q \in Run : failed[q] \subseteq failed'[q]
    <3>1. ASSUME NEW nets \in BOOLEAN, ListOwn(r, nets) PROVE began' = began /\ failed' = failed
      BY <3>1 DEF ListOwn, ListOwnOr
    <3>2. ASSUME NEW nets \in BOOLEAN, ClearOwn(r, nets)
          PROVE  began' = began /\ \A q \in Run : failed[q] \subseteq failed'[q]
      BY <3>2, <1>1 DEF ClearOwn
    <3>3. CASE OwnCleared(r) \/ Return(r)
      BY <3>3 DEF OwnCleared, Return
    <3> QED BY <1>5, <3>1, <3>2, <3>3 DEF TakesDown
  <2>2. Shape(r) /\ at[r] \in Ending /\ at'[r] \in Ending \cup {"done"}
    BY <1>5, TakesDownShape DEF Ending
  <2>3. PastClearing(r) /\ at'[r] \notin Clearing
    BY <2>2 DEF PastClearing, Running, Clearing, Ending
  <2> QED BY <2>1, <2>2, <2>3
<1>6. CASE CtrlC(r)
  BY <1>6, OthersShape DEF CtrlC
<1>7. CASE Die(r)
  <2>1. at'[r] \in Ended
    BY <1>7, GotoElsewhere DEF Die, Ended
  <2> QED BY <1>7, <2>1, OthersShape DEF Die
<1> QED BY <1>2, <1>3, <1>4, <1>5, <1>6, <1>7

(* Of what r found, only what was there stays, unless it came late.         *)
LEMMA StayingShrinks ==
    ASSUME Typed, RemovalInv, FenceInv, LeftoversOfEnded, [Next]_vars, NEW r \in Run,
           began'[r] \subseteq began[r], failed[r] \subseteq failed'[r]
    PROVE  /\ Staying(r)' \subseteq Staying(r)
           /\ \A t : HeldBy(t, r) => HeldBy(t, r)'
<1>1. ASSUME NEW t \in Staying(r)' PROVE t \in Staying(r)
  <2>1. t \in began[r] /\ t \in there' /\ t \notin failed[r] /\ t \notin late'
    BY <1>1 DEF Staying, Excused
  <2>2. t[1] \in Run => at[t[1]] \in Ended
    BY <2>1 DEF LeftoversOfEnded, Ended
  <2>3. t \in there /\ late \subseteq late'
    BY <2>1, <2>2, EndedStays
  <2> QED BY <2>1, <2>3 DEF Staying, Excused
<1>2. late \subseteq late'
  <2>1. <<Past, "net">>[1] \notin Run
    BY RunsAssumption
  <2> QED BY <2>1, EndedStays
<1> QED BY <1>1, <1>2 DEF HeldBy, Excused

LEMMA ClearsFound ==
    ASSUME Typed, NEW r \in Run, Clears(r)
    PROVE  /\ \A q \in Run \ {r} : began'[q] = began[q] /\ failed'[q] = failed[q]
           /\ failed[r] \subseteq failed'[r]
           /\ began'[r] \in {began[r], {t \in began[r] : IsLeftover(r, t[1])}}
<1> USE DEF volumeVars, removalVars, endVars, historyVars
<1>0. began \in [Run -> SUBSET Thing] /\ failed \in [Run -> SUBSET Thing]
  BY DEF Typed, ProcessOK
<1>1. ASSUME NEW nets \in BOOLEAN, ListLeft(r, nets)
      PROVE  /\ \A q \in Run \ {r} : began'[q] = began[q] /\ failed'[q] = failed[q]
             /\ failed[r] \subseteq failed'[r]
             /\ began'[r] = {t \in began[r] : IsLeftover(r, t[1])}
  <2>1. began' = [began EXCEPT ![r] = {t \in @ : IsLeftover(r, t[1])}]
    BY <1>1 DEF ListLeft
  <2>2. \E s : failed' = failed \/ failed' = [failed EXCEPT ![r] = @ \cup s]
    BY <1>1 DEF ListLeft
  <2> QED BY <1>0, <2>1, <2>2
<1>2. ASSUME NEW nets \in BOOLEAN, ClearLeft(r, nets)
      PROVE  /\ \A q \in Run \ {r} : began'[q] = began[q] /\ failed'[q] = failed[q]
             /\ failed[r] \subseteq failed'[r] /\ began'[r] = began[r]
  BY <1>0, <1>2 DEF ClearLeft, Removal
<1>3. CASE LeftCleared(r)
  BY <1>3 DEF LeftCleared
<1> QED BY <1>1, <1>2, <1>3 DEF Clears

LEMMA NextLeftovers ==
    Typed /\ RemovalInv /\ FenceInv /\ LeftoversOfEnded /\ [Next]_vars => LeftoversOfEnded'
<1>a. "app" \in Containers
  BY DEF Containers
<1> SUFFICES ASSUME Typed, RemovalInv, FenceInv, LeftoversOfEnded, [Next]_vars,
                    NEW q \in Run, NEW t \in began'[q], NEW k \in Containers
             PROVE  /\ t[1] \in Run => at'[t[1]] \in {"done", "dead"}
                    /\ <<t[1], k>> \in there' => <<t[1], k>> \in began'[q] \cup late'
  BY <1>a DEF LeftoversOfEnded
<1>0. <<t[1], k>>[1] = t[1]
  OBVIOUS
(* What was found before, when all of its owner's was kept. *)
<1>1. ASSUME t \in began[q],
             <<t[1], k>> \in began[q] => <<t[1], k>> \in began'[q]
      PROVE  /\ t[1] \in Run => at'[t[1]] \in {"done", "dead"}
             /\ <<t[1], k>> \in there' => <<t[1], k>> \in began'[q] \cup late'
  <2>1. t[1] \in Run => at[t[1]] \in Ended
    BY <1>1 DEF LeftoversOfEnded, Ended
  <2>2. /\ t[1] \in Run => at'[t[1]] \in Ended
        /\ <<t[1], k>> \in there' => <<t[1], k>> \in there \cup late'
        /\ late \subseteq late'
    BY <1>0, <2>1, EndedStays
  <2>3. <<t[1], k>> \in there => <<t[1], k>> \in began[q] \cup late
    BY <1>1 DEF LeftoversOfEnded
  <2> QED BY <1>1, <2>2, <2>3 DEF Ended
<1>2. CASE began'[q] = began[q]
  BY <1>1, <1>2
<1>3. ASSUME NEW r \in Run, Clears(r)
      PROVE  /\ t[1] \in Run => at'[t[1]] \in {"done", "dead"}
             /\ <<t[1], k>> \in there' => <<t[1], k>> \in began'[q] \cup late'
  <2>1. CASE q = r
    <3>1. CASE began'[r] = {u \in began[r] : IsLeftover(r, u[1])}
      BY <1>0, <1>1, <2>1, <3>1
    <3> QED BY <1>2, <1>3, <2>1, <3>1, ClearsFound
  <2>2. CASE q # r
    BY <1>2, <1>3, <2>2, ClearsFound
  <2> QED BY <2>1, <2>2
<1>4. ASSUME NEW r \in Run, Begin(r)
      PROVE  /\ t[1] \in Run => at'[t[1]] \in {"done", "dead"}
             /\ <<t[1], k>> \in there' => <<t[1], k>> \in began'[q] \cup late'
  <2>1. /\ began' = [began EXCEPT ![r] = {u \in there : IsLeftover(r, u[1])}]
        /\ there' = there
    BY <1>4 DEF Begin, dockerVars
  <2>2. CASE q # r
    BY <1>2, <2>1, <2>2 DEF Typed, ProcessOK
  <2>3. CASE q = r
    <3>1. began'[q] = {u \in there : IsLeftover(r, u[1])}
      BY <2>1, <2>3 DEF Typed, ProcessOK
    <3>2. ASSUME t[1] \in Run PROVE at[t[1]] \in Ended
      <4>1. ~Running(t[1])
        BY <3>1, <3>2 DEF IsLeftover, Alive
      <4>2. at[t[1]] # "off" /\ at[t[1]] \in Places
        BY <3>1, <3>2 DEF RemovalInv, Typed, ProcessOK
      <4> QED BY <4>1, <4>2 DEF Running, Places, Ended
    <3>3. t[1] \in Run => at'[t[1]] \in Ended
      BY <3>2, EndedStays
    <3>4. <<t[1], k>> \in there' => <<t[1], k>> \in began'[q]
      BY <1>0, <2>1, <3>1
    <3> QED BY <3>3, <3>4 DEF Ended
  <2> QED BY <2>2, <2>3
<1>5. ASSUME NEW r \in Run,
             Fills(r) \/ Starts(r) \/ Asks(r) \/ TakesDown(r) \/ CtrlC(r) \/ Die(r)
      PROVE  began'[q] = began[q]
  BY <1>5, LaterFound
<1>6. CASE Daemon
  BY <1>2, <1>6 DEF Daemon, Copy, CarryOn, Expire, historyVars
<1>7. CASE UNCHANGED vars
  BY <1>2, <1>7 DEF vars, historyVars
<1> QED BY <1>2, <1>3, <1>4, <1>5, <1>6, <1>7, NextParts

(* What a run's clearing has come to, and what of it another's step keeps.  *)
Cleared(r) ==
    \A t \in Staying(r) :
        /\ at[r] = "clear left" => IsNet(t) \/ t \in todo[r]
        /\ at[r] \in NetsIn \/ PastClearing(r) => IsNet(t)
        /\ at[r] = "clear left nets" => t \in todo[r] \/ HeldBy(t, r)
        /\ PastClearing(r) => HeldBy(t, r)

LEMMA ClearedKept ==
    ASSUME NEW r \in Run, Cleared(r),
           Staying(r)' \subseteq Staying(r), \A t : HeldBy(t, r) => HeldBy(t, r)',
           at'[r] = at[r], todo'[r] = todo[r]
    PROVE  Cleared(r)'
BY DEF Cleared, PastClearing, Running

LEMMA ClearsCleared ==
    ASSUME Typed, RemovalInv, FenceInv, LeftoversOfEnded, [Next]_vars,
           NEW r \in Run, Cleared(r), Clears(r)
    PROVE  Cleared(r)'
<1> USE DEF dockerVars, volumeVars, removalVars, endVars, historyVars
<1>0. /\ todo \in [Run -> SUBSET Thing] /\ failed \in [Run -> SUBSET Thing]
      /\ began \in [Run -> SUBSET Thing]
  BY DEF Typed, ProcessOK
<1>1. Staying(r)' \subseteq Staying(r) /\ \A t : HeldBy(t, r) => HeldBy(t, r)'
  BY ClearsFound, StayingShrinks
<1>2. ASSUME NEW nets \in BOOLEAN, ListLeft(r, nets) PROVE Cleared(r)'
  <2>1. at'[r] = IF nets THEN "clear left nets" ELSE "clear left"
    BY <1>2, GotoElsewhere DEF ListLeft
  <2>2. at[r] = IF nets THEN "list left nets" ELSE "list left"
    BY <1>2 DEF ListLeft
  <2>3. ~PastClearing(r)'
    BY <2>1 DEF PastClearing, Clearing
  <2>4. ASSUME NEW t \in Staying(r)', IsNet(t) <=> nets PROVE t \in todo'[r]
    <3>1. t \in began'[r] /\ t \in there' /\ t \notin failed'[r]
      BY <2>4 DEF Staying, Excused
    <3>2. t \in {u \in Listed(nets) : IsLeftover(r, u[1])}
      BY <1>0, <1>2, <2>4, <3>1 DEF ListLeft, Listed
    <3>3. \/ todo' = [todo EXCEPT ![r] = {u \in Listed(nets) : IsLeftover(r, u[1])}]
          \/ failed' = [failed EXCEPT ![r] = @ \cup {u \in Listed(nets) : IsLeftover(r, u[1])}]
      BY <1>2 DEF ListLeft
    <3> QED BY <1>0, <3>1, <3>2, <3>3
  <2>5. CASE nets
    BY <1>1, <2>1, <2>2, <2>3, <2>4, <2>5 DEF Cleared, NetsIn, IsNet
  <2>6. CASE ~nets
    BY <2>1, <2>3, <2>4, <2>6 DEF Cleared, NetsIn
  <2> QED BY <2>5, <2>6
<1>3. ASSUME NEW nets \in BOOLEAN, ClearLeft(r, nets) PROVE Cleared(r)'
  <2>1. PICK t \in todo[r], gone \in BOOLEAN :
           Removal(r, t, gone) /\ todo' = [todo EXCEPT ![r] = @ \ {t}]
    BY <1>3 DEF ClearLeft
  <2>2. at' = at /\ at[r] = IF nets THEN "clear left nets" ELSE "clear left"
    BY <1>3 DEF ClearLeft
  <2>3. todo'[r] = todo[r] \ {t}
    BY <1>0, <2>1
  <2>4. ~PastClearing(r)'
    BY <2>2 DEF PastClearing, Clearing
  <2>5. ASSUME t \in Staying(r)' PROVE IsNet(t) /\ (nets => HeldBy(t, r)')
    <3>1. t \in Staying(r) /\ t \in there' /\ t \notin failed'[r] /\ t \in began[r]
      BY <1>1, <2>5 DEF Staying, Excused
    <3>2. InUse(t)
      BY <1>0, <2>1, <3>1 DEF Removal
    <3>3. ASSUME nets PROVE HeldBy(t, r)
      <4>1. PICK k \in Fenced : <<t[1], k>> \in there
        BY <3>2 DEF InUse
      <4>2. <<t[1], k>> \in began[r] \cup late
        BY <3>1, <4>1 DEF LeftoversOfEnded, Fenced
      <4>3. ~IsNet(<<t[1], k>>)
        BY DEF IsNet, Fenced, Containers
      <4>4. <<t[1], k>> \notin Staying(r)
        BY <2>2, <3>3, <4>3 DEF Cleared, NetsIn
      <4> QED BY <4>1, <4>2, <4>4 DEF HeldBy, Staying, Excused
    <3> QED BY <1>1, <3>2, <3>3 DEF InUse, IsNet
  <2> QED BY <1>1, <2>2, <2>3, <2>4, <2>5 DEF Cleared, NetsIn
<1>4. CASE LeftCleared(r)
  <2>1. todo[r] = {} /\ todo' = todo
    BY <1>4 DEF LeftCleared
  <2>2. CASE at[r] = "clear left"
    <3>1. at'[r] = "list left nets"
      BY <1>4, <2>2, GotoElsewhere DEF LeftCleared
    <3> QED BY <1>1, <2>1, <2>2, <3>1 DEF Cleared, NetsIn, PastClearing, Clearing
  <2>3. CASE at[r] = "clear left nets"
    <3>1. at'[r] \in {"look", "network"}
      BY <1>4, <2>3, GotoElsewhere DEF LeftCleared
    <3> QED BY <1>1, <2>1, <2>3, <3>1 DEF Cleared, NetsIn
  <2> QED BY <1>4, <2>2, <2>3 DEF LeftCleared
<1> QED BY <1>2, <1>3, <1>4 DEF Clears

LEMMA InitLeft == Init => LeftInv
BY DEF Init, LeftInv, LeftoversOfEnded, ClearedSoFar, Staying

LEMMA NextCleared ==
    Typed /\ RemovalInv /\ FenceInv /\ LeftInv /\ [Next]_vars => ClearedSoFar'
<1> SUFFICES ASSUME Typed, RemovalInv, FenceInv, LeftInv, [Next]_vars, NEW q \in Run
             PROVE  Cleared(q)'
  BY DEF ClearedSoFar, Cleared
<1>0. LeftoversOfEnded /\ Cleared(q)
  BY DEF LeftInv, ClearedSoFar, Cleared
(* Another's step, or the daemon's. *)
<1>1. ASSUME at'[q] = at[q], todo'[q] = todo[q], began'[q] = began[q], failed[q] \subseteq failed'[q]
      PROVE  Cleared(q)'
  BY <1>0, <1>1, StayingShrinks, ClearedKept
<1>2. ASSUME NEW r \in Run, Clears(r) PROVE Cleared(q)'
  <2>1. CASE q = r
    BY <1>0, <1>2, <2>1, ClearsCleared
  <2>2. CASE q # r
    BY <1>1, <1>2, <2>2, ClearsFound, ClearsShape DEF Shape
  <2> QED BY <2>1, <2>2
<1>3. ASSUME NEW r \in Run, Begin(r) PROVE Cleared(q)'
  <2>1. CASE q = r
    <3>1. at'[q] = "list left"
      BY <1>3, <2>1, GotoElsewhere DEF Begin
    <3> QED BY <3>1 DEF Cleared, NetsIn, PastClearing, Clearing
  <2>2. CASE q # r
    <3>1. began'[q] = began[q] /\ failed' = failed /\ todo' = todo
      BY <1>3, <2>2 DEF Begin, removalVars, Typed, ProcessOK
    <3> QED BY <1>1, <1>3, <2>2, <3>1, GotoElsewhere DEF Begin
  <2> QED BY <2>1, <2>2
<1>4. ASSUME NEW r \in Run,
             Fills(r) \/ Starts(r) \/ Asks(r) \/ TakesDown(r) \/ CtrlC(r) \/ Die(r)
      PROVE  Cleared(q)'
  <2>1. /\ Shape(r) /\ began' = began
        /\ failed[q] \subseteq failed'[q]
        /\ \/ at' = at /\ todo' = todo
           \/ at'[r] \in Ended
           \/ PastClearing(r) /\ at'[r] \notin Clearing
    BY <1>4, LaterFound
  <2>2. CASE q # r \/ (at' = at /\ todo' = todo)
    BY <1>1, <2>1, <2>2 DEF Shape
  <2>3. CASE q = r /\ at'[r] \in Ended
    BY <2>3 DEF Cleared, NetsIn, PastClearing, Running, Ended, Clearing, AtVolume, Starting, Asking, Ending
  <2>4. CASE q = r /\ PastClearing(r) /\ at'[r] \notin Clearing
    <3>1. Staying(q)' \subseteq Staying(q) /\ \A t : HeldBy(t, q) => HeldBy(t, q)'
      BY <1>0, <2>1, StayingShrinks
    <3>2. \A t \in Staying(q) : IsNet(t) /\ HeldBy(t, q)
      BY <1>0, <2>4 DEF Cleared
    <3> QED BY <2>4, <3>1, <3>2 DEF Cleared, IsNet, Clearing
  <2> QED BY <2>1, <2>2, <2>3, <2>4
<1>5. CASE Daemon
  <2>1. began' = began /\ failed' = failed /\ at' = at /\ todo' = todo
    BY <1>5 DEF Daemon, Copy, CarryOn, Expire, historyVars, removalVars
  <2> QED BY <1>1, <2>1
<1>6. CASE UNCHANGED vars
  BY <1>1, <1>6 DEF vars, historyVars, removalVars
<1> QED BY <1>2, <1>3, <1>4, <1>5, <1>6, NextParts

(* Past its clearing a run has removed all that killed runs had left when   *)
(* it began (cleanup::remove_leftovers), but for what the daemon refused to *)
(* list or remove or made late, and the networks such a container keeps.    *)
THEOREM LeftoversGo == Spec => []LeftoversCleared
<1>1. LeftInv => LeftoversCleared
  BY DEF LeftInv, ClearedSoFar, LeftoversCleared, Staying, Excused, HeldBy, PastClearing
<1>2. Typed /\ RemovalInv /\ FenceInv /\ LeftInv /\ [Next]_vars => LeftInv'
  BY NextLeftovers, NextCleared DEF LeftInv
<1> QED BY <1>1, <1>2, InitTyped, NextTyped, InitRemoval, NextRemoval, InitFence, NextFence,
           InitLeft, PTL DEF Spec

----------------------------------------------------------------------------
(* The packages.  On one machine, whose runs all have numbers of their own, *)
(* a run sees every container of an ended run as a leftover.                *)

OneMachineOwnNumbers ==
    \A q, r \in Run : Machine[q] = Machine[r] /\ (q # r => Pid[q] # Pid[r])

(* What PackagesAreWhole asks: one run at a time fills or uses the volume,  *)
(* and no install is one that nobody waits for.                             *)
Undisturbed ==
    ~mixed /\ \A q \in Run : <<q, "install">> \notin late \cup UNION {failed[p] : p \in Run}

ToInstall == {"off"} \cup Clearing \cup {"look", "empty", "create", "install"}
Installed == Starting \cup Asking

(* Whose installs there are, and how far they can be.                       *)
InstallsInv ==
    /\ \A r \in Run : at[r] \in AtVolume => r \in Installs
    /\ \A t \in there \cup pending : t[2] = "install" => t[1] \in Installs
    /\ \A r \in Run : at[r] \in ToInstall =>
         filled[r] = "none" /\ <<r, "install">> \notin there \cup pending

(* The one run at the volume, and the installs it has left behind it.       *)
AloneInv ==
    /\ \A q, r \in Installs : Running(q) /\ Running(r) => q = r
    /\ \A r \in Installs : Running(r) => \A q \in Run \ {r} :
         <<q, "install">> \in there => at[r] \in Clearing /\ <<q, "install">> \in began[r]
    /\ \A q, r \in Run : <<q, "install">> \in there /\ <<r, "install">> \in there => q = r

(* What a run counts on: no mark when it begins to fill the volume; all of  *)
(* the packages when its install has ended, and when it goes on with them.  *)
Relies(r) ==
    /\ at[r] \in {"create", "install"} => ~volume.mark
    /\ at[r] = "installing" =>
         /\ filled[r] # "none" /\ volume.there
         /\ filled[r] \in {"copied", "done"} => volume.holds = "whole"
    /\ at[r] \in Installed =>
         filled[r] \in {"none", "done"} /\ volume.there /\ volume.holds = "whole"
    /\ at[r] \in {"probe"} \cup Asking => appSaw[r] = "whole"

(* All of them are there under the mark, and while one fills the volume it  *)
(* cannot go and has no mark.                                               *)
VolumeInv ==
    /\ volume.mark => volume.there /\ volume.holds = "whole"
    /\ \A q \in Run : <<q, "install">> \in there =>
         volume.there /\ (filled[q] \in {"started", "copying"} => ~volume.mark)
    /\ \A r \in Installs : Relies(r)

PackagesInv == InstallsInv /\ (Undisturbed => AloneInv /\ VolumeInv)

(* Where a step takes a run.                                                *)
Served == {"probe"} \cup Asking
Afterwards == Ending \cup Ended

MovesOn(r) ==
    \/ at'[r] = at[r] \/ at'[r] \in Afterwards
    \/ Begin(r) \/ Clears(r) \/ Fills(r)
    \/ at[r] \in Installed /\ at'[r] \in Installed /\ (at'[r] \in Served => at[r] \in Served \/ StartApp(r))

LEMMA Moves ==
    ASSUME Typed, [Next]_vars, NEW q \in Run
    PROVE  MovesOn(q)
<1>1. ASSUME NEW r \in Run, r # q, Shape(r) PROVE at'[q] = at[q]
  BY <1>1 DEF Shape
<1>2. ASSUME NEW r \in Run, Clears(r) \/ Begin(r) \/ Fills(r) PROVE MovesOn(q)
  <2>1. Shape(r)
    BY <1>2, ClearsShape, OthersShape, FillsBuild DEF Building
  <2> QED BY <1>1, <1>2, <2>1 DEF MovesOn
<1>3. ASSUME NEW r \in Run, CtrlC(r) \/ Die(r) PROVE MovesOn(q)
  <2>1. Shape(r) /\ (at' = at \/ at'[r] = "dead")
    BY <1>3, OthersShape, GotoElsewhere DEF Die, CtrlC
  <2> QED BY <1>1, <2>1 DEF MovesOn, Afterwards, Ended
<1>4. ASSUME NEW r \in Run, TakesDown(r) PROVE MovesOn(q)
  <2>1. Shape(r) /\ at'[r] \in Afterwards
    BY <1>4, TakesDownShape DEF Afterwards, Ended, Ending
  <2> QED BY <1>1, <2>1 DEF MovesOn
<1>5. ASSUME NEW r \in Run, Asks(r) PROVE MovesOn(q)
  <2>1. Shape(r) /\ at[r] \in Asking
    BY <1>5, AsksShape
  <2>2. at'[r] \in Asking \cup Afterwards
    <3>1. CASE RemoveHelper(r)
      BY <2>1, <3>1 DEF RemoveHelper
    <3>2. CASE ~RemoveHelper(r)
      BY <1>5, <3>2, GotoElsewhere
         DEF Asks, WaitUntilReady, Script, HelpersGone, Tests, EndRun, Asking, Afterwards, Ending
    <3> QED BY <3>1, <3>2
  <2> QED BY <1>1, <2>1, <2>2 DEF MovesOn, Installed, Served
<1>6. ASSUME NEW r \in Run, Starts(r) PROVE MovesOn(q)
  <2>1. Shape(r)
    BY <1>6, StartsBuild DEF Building
  <2>2. CASE MakeNetwork(r)
    <3>1. PICK place \in {"network again", "plain network", "fence", "list own"} : Goto(r, place)
      BY <2>2 DEF MakeNetwork, CreateNetwork
    <3>2. at'[r] = place
      BY <3>1, GotoElsewhere
    <3>3. at[r] \in Installed
      BY <2>2 DEF MakeNetwork, Installed, Starting
    <3> QED BY <1>1, <2>1, <3>2, <3>3 DEF MovesOn, Installed, Starting, Served, Asking, Afterwards, Ending
  <2>3. CASE VerifyFenced(r) \/ VerifyGatewayClosed(r) \/ StartHelper(r)
    <3>1. PICK place \in {"gateway", "helper", "app", "list own"} : Goto(r, place)
      BY <2>3 DEF VerifyFenced, VerifyGatewayClosed, StartHelper, EndRun
    <3>2. at'[r] = place
      BY <3>1, GotoElsewhere
    <3>3. at[r] \in Installed
      BY <2>3 DEF VerifyFenced, VerifyGatewayClosed, StartHelper, Installed, Starting
    <3> QED BY <1>1, <2>1, <3>2, <3>3 DEF MovesOn, Installed, Starting, Served, Asking, Afterwards, Ending
  <2>4. CASE StartApp(r)
    <3>1. PICK place \in {"probe", "list own"} : Goto(r, place)
      BY <2>4 DEF StartApp, EndRun
    <3>2. at'[r] = place /\ at[r] = "app"
      BY <2>4, <3>1, GotoElsewhere DEF StartApp
    <3> QED BY <1>1, <2>1, <2>4, <3>2 DEF MovesOn, Installed, Starting, Afterwards, Ending
  <2>5. CASE StartSidecar(r)
    <3>1. at'[r] = "ready" /\ at[r] = "probe"
      BY <2>5, GotoElsewhere DEF StartSidecar
    <3> QED BY <1>1, <2>1, <3>1 DEF MovesOn, Installed, Starting, Asking, Served
  <2> QED BY <1>6, <2>2, <2>3, <2>4, <2>5 DEF Starts
<1>7. CASE Daemon
  BY <1>7, DaemonShape DEF MovesOn
<1>8. CASE UNCHANGED vars
  BY <1>8 DEF vars, MovesOn
<1> QED BY <1>2, <1>3, <1>4, <1>5, <1>6, <1>7, <1>8, NextParts

(* A call that makes something else makes no install, and leaves the volume *)
(* alone when it does not make the app.                                     *)
LEMMA MakesOther ==
    ASSUME Typed, NEW r \in Run, NEW k \in {"net", "helper", "app", "probe"}, Makes(r, <<r, k>>)
    PROVE  /\ \A t \in there' : t[2] = "install" => t \in there
           /\ \A t \in pending' : t[2] = "install" => t \in pending
           /\ filled' = filled
           /\ k # "app" => UNCHANGED <<volume, appSaw>>
<1>1. <<r, k>> \in Thing /\ <<r, k>>[1] = r /\ <<r, k>>[2] = k
  BY OwnThings DEF Containers
<1>2. there' \subseteq there \cup {<<r, k>>} /\ pending' \subseteq pending \cup {<<r, k>>}
  BY <1>1, MakesEffect
<1>3. Made(<<r, k>>) \/ NothingMade
  BY DEF Makes, MakeDone, MakeFails
<1>4. filled' = filled /\ (k # "app" => UNCHANGED <<volume, appSaw>>)
  BY <1>1, <1>3 DEF Made, NothingMade
<1> QED BY <1>1, <1>2, <1>4

(* What a step of r's that is not about its volume leaves of the installs.  *)
Undisturbing ==
    /\ \A t \in there' : t[2] = "install" => t \in there
    /\ \A t \in pending' : t[2] = "install" => t \in pending
    /\ UNCHANGED filled

LEMMA StartsUndisturbing ==
    ASSUME Typed, NEW r \in Run, Starts(r)
    PROVE  Undisturbing /\ (~StartApp(r) => UNCHANGED <<volume, appSaw>>)
<1> USE DEF dockerVars, volumeVars
<1>1. CASE VerifyFenced(r) \/ VerifyGatewayClosed(r)
  BY <1>1 DEF VerifyFenced, VerifyGatewayClosed, Undisturbing
<1>2. CASE StartApp(r)
  <2>1. Makes(r, <<r, "app">>)
    BY <1>2 DEF StartApp, Makes
  <2> QED BY <1>2, <2>1, MakesOther DEF Undisturbing
<1>3. CASE MakeNetwork(r) \/ StartHelper(r) \/ StartSidecar(r)
  <2>1. \/ \E k \in {"net", "helper", "probe"} : Makes(r, <<r, k>>)
        \/ NothingMade /\ UNCHANGED pending
    <3>1. CASE MakeNetwork(r)
      BY <3>1 DEF MakeNetwork, CreateNetwork, Makes
    <3>2. CASE StartHelper(r) \/ StartSidecar(r)
      BY <3>2 DEF StartHelper, StartSidecar, Makes
    <3> QED BY <1>3, <3>1, <3>2
  <2>2. CASE NothingMade /\ UNCHANGED pending
    BY <2>2 DEF NothingMade, Undisturbing
  <2>3. CASE \E k \in {"net", "helper", "probe"} : Makes(r, <<r, k>>)
    BY <2>3, MakesOther DEF Undisturbing
  <2> QED BY <2>1, <2>2, <2>3
<1> QED BY <1>1, <1>2, <1>3 DEF Starts

LEMMA RestUndisturbing ==
    ASSUME Typed, NEW r \in Run, Begin(r) \/ Clears(r) \/ Asks(r) \/ TakesDown(r) \/ CtrlC(r)
    PROVE  Undisturbing /\ UNCHANGED <<volume, appSaw>>
<1> USE DEF dockerVars, volumeVars, Undisturbing
<1>1. CASE Begin(r) \/ CtrlC(r)
  BY <1>1 DEF Begin, CtrlC
<1>2. CASE Clears(r)
  <2>1. there' \subseteq there /\ pending' = pending
    BY <1>2, ClearsQuiet DEF Quiet
  <2>2. UNCHANGED volumeVars
    BY <1>2 DEF Clears, ListLeft, ClearLeft, LeftCleared
  <2> QED BY <2>1, <2>2
<1>3. CASE Asks(r)
  <2>1. there' \subseteq there /\ pending' = pending
    BY <1>3, AsksQuiet DEF Quiet
  <2>2. UNCHANGED volumeVars
    BY <1>3 DEF Asks, WaitUntilReady, Script, RemoveHelper, HelpersGone, Tests
  <2> QED BY <2>1, <2>2
<1>4. CASE TakesDown(r)
  <2>1. there' \subseteq there /\ pending' = pending
    BY <1>4, TakesDownQuiet DEF Quiet
  <2>2. UNCHANGED volumeVars
    BY <1>4 DEF TakesDown, ListOwn, ListOwnOr, ClearOwn, OwnCleared, Return
  <2> QED BY <2>1, <2>2
<1> QED BY <1>1, <1>2, <1>3, <1>4

LEMMA FillsUndisturbing ==
    ASSUME Typed, NEW r \in Run, Fills(r), ~Install(r)
    PROVE  Undisturbing /\ there' = there /\ appSaw' = appSaw
BY DEF Fills, Look, Empty, Create, InstallEnds, Unfill, dockerVars, volumeVars, Undisturbing

LEMMA ThingParts ==
    ASSUME NEW t \in Thing
    PROVE  t = <<t[1], t[2]>>
BY DEF Thing

(* A run's install comes from its own call, as its process goes on or dies. *)
LEMMA Untouched ==
    ASSUME Typed, [Next]_vars, NEW q \in Run, ~Install(q), ~Die(q),
           <<q, "install">> \notin there \cup pending
    PROVE  <<q, "install">> \notin there' \cup pending' /\ filled'[q] = filled[q]
<1> DEFINE mine == <<q, "install">>
<1>0. /\ there \subseteq Thing /\ pending \subseteq Thing /\ filled \in [Run -> Fillings]
      /\ mine[1] = q /\ mine[2] = "install"
  BY DEF Typed, DaemonOK
<1>1. CASE Undisturbing
  BY <1>0, <1>1 DEF Undisturbing
<1>2. ASSUME NEW r \in Run, Install(r)
      PROVE  mine \notin there' \cup pending' /\ filled'[q] = filled[q]
  <2>1. Makes(r, <<r, "install">>) /\ r # q
    BY <1>2 DEF Install, Makes
  <2>2. <<r, "install">> \in Thing /\ <<r, "install">>[1] = r /\ <<r, "install">>[2] = "install"
    BY OwnThings DEF Containers
  <2>3. there' \subseteq there \cup {<<r, "install">>} /\ pending' \subseteq pending \cup {<<r, "install">>}
    BY <2>1, <2>2, MakesEffect
  <2>4. filled'[q] = filled[q]
    BY <1>0, <2>1, <2>2 DEF Makes, MakeDone, MakeFails, Made, NothingMade
  <2> QED BY <2>1, <2>3, <2>4
<1>3. ASSUME NEW r \in Run, Die(r)
      PROVE  mine \notin there' \cup pending' /\ filled'[q] = filled[q]
  <2>1. r # q
    BY <1>3
  <2>2. mine \notin Making(r)
    BY <2>1 DEF Making
  <2> QED BY <1>3, <2>2 DEF Die, volumeVars
<1>4. CASE Daemon
  <2>1. ASSUME NEW p \in Run, Copy(p) PROVE mine \notin there' \cup pending' /\ filled'[q] = filled[q]
    <3>1. p # q
      BY <2>1 DEF Copy
    <3> QED BY <1>0, <2>1, <3>1 DEF Copy
  <2>2. ASSUME NEW t \in Thing, CarryOn(t)
        PROVE  mine \notin there' \cup pending' /\ filled'[q] = filled[q]
    <3>1. t # mine /\ ~(t[1] = q /\ t[2] = "install")
      BY <2>2, ThingParts DEF CarryOn
    <3>2. there' \subseteq there \cup {t} /\ pending' \subseteq pending
      BY <2>2 DEF CarryOn, Made, NothingMade
    <3>3. filled'[q] = filled[q]
      BY <1>0, <2>2, <3>1 DEF CarryOn, Made, NothingMade
    <3> QED BY <3>1, <3>2, <3>3
  <2>3. ASSUME NEW t \in Thing, Expire(t)
        PROVE  mine \notin there' \cup pending' /\ filled'[q] = filled[q]
    <3>1. ~(t[1] = q /\ t[2] = "install")
      BY <2>3, ThingParts DEF Expire
    <3>2. filled'[q] = filled[q]
      BY <1>0, <2>3, <3>1 DEF Expire
    <3> QED BY <2>3, <3>2 DEF Expire
  <2> QED BY <1>4, <2>1, <2>2, <2>3 DEF Daemon
<1>5. CASE UNCHANGED vars
  BY <1>5 DEF vars, dockerVars, volumeVars
<1> QED BY <1>1, <1>2, <1>3, <1>4, <1>5, StartsUndisturbing, RestUndisturbing, FillsUndisturbing, NextParts

(* Where a step is that adds an install to what is there, or may yet be.    *)
LEMMA InstallsCome ==
    ASSUME Typed, [Next]_vars, NEW t \in there' \cup pending', t[2] = "install", t \notin there \cup pending
    PROVE  t[1] \in Run /\ at[t[1]] = "install" /\ (Install(t[1]) \/ Die(t[1]))
<1>1. t \in Thing
  BY NextTyped DEF Typed, DaemonOK
<1>2. CASE t[1] \in Run
  <2>1. Install(t[1]) \/ Die(t[1])
    BY <1>1, <1>2, Untouched, ThingParts
  <2>2. ASSUME Die(t[1]) PROVE at[t[1]] = "install"
    <3>1. t \in Making(t[1])
      BY <2>2 DEF Die
    <3>2. ASSUME at[t[1]] # "install"
          PROVE  Making(t[1]) \subseteq {<<t[1], "net">>, <<t[1], "helper">>, <<t[1], "app">>, <<t[1], "probe">>}
      BY <3>2 DEF Making
    <3> QED BY <3>1, <3>2
  <2> QED BY <1>2, <2>1, <2>2 DEF Install
<1>3. CASE t[1] \notin Run
  <2>1. ASSUME NEW r \in Run, Shape(r) PROVE FALSE
    BY <1>3, <2>1 DEF Shape
  <2>2. \A r \in Run : Fills(r) \/ Starts(r) => Shape(r)
    BY FillsBuild, StartsBuild DEF Building
  <2> QED BY <2>1, <2>2, ClearsShape, AsksShape, TakesDownShape, OthersShape, DaemonShape, NextParts
          DEF vars, dockerVars
<1> QED BY <1>2, <1>3

LEMMA NextInstalls == Typed /\ InstallsInv /\ [Next]_vars => InstallsInv'
<1> SUFFICES ASSUME Typed, InstallsInv, [Next]_vars PROVE InstallsInv'
  OBVIOUS
<1>1. ASSUME NEW r \in Run, at'[r] \in AtVolume PROVE r \in Installs
  <2>1. CASE Clears(r)
    <3>1. at'[r] \notin Clearing
      BY <1>1 DEF AtVolume, Clearing
    <3>2. CASE \E nets \in BOOLEAN : ListLeft(r, nets)
      BY <3>1, <3>2, GotoElsewhere DEF ListLeft, Clearing
    <3>3. CASE \E nets \in BOOLEAN : ClearLeft(r, nets)
      BY <3>1, <3>3 DEF ClearLeft, Clearing
    <3>4. CASE LeftCleared(r)
      <4>1. PICK place \in {"list left nets", IF r \in Installs THEN "look" ELSE "network"} : Goto(r, place)
        BY <3>4 DEF LeftCleared
      <4>2. at'[r] = place
        BY <4>1, GotoElsewhere
      <4> QED BY <1>1, <4>2 DEF AtVolume
    <3> QED BY <2>1, <3>2, <3>3, <3>4 DEF Clears
  <2>2. CASE Fills(r)
    <3>1. at[r] \in AtVolume
      BY <2>2 DEF Fills, Look, Empty, Create, Install, InstallEnds, Unfill, AtVolume
    <3> QED BY <3>1 DEF InstallsInv
  <2>3. CASE Begin(r)
    <3>1. at'[r] = "list left"
      BY <2>3, GotoElsewhere DEF Begin
    <3> QED BY <1>1, <3>1 DEF AtVolume
  <2>4. at'[r] \notin Afterwards \cup Installed
    BY <1>1 DEF AtVolume, Afterwards, Installed, Starting, Asking, Ending, Ended
  <2>5. CASE at'[r] = at[r]
    BY <1>1, <2>5 DEF InstallsInv
  <2> QED BY <2>1, <2>2, <2>3, <2>4, <2>5, Moves DEF MovesOn
<1>2. ASSUME NEW t \in there' \cup pending', t[2] = "install" PROVE t[1] \in Installs
  BY <1>2, InstallsCome DEF InstallsInv, AtVolume
<1>3. ASSUME NEW r \in Run, at'[r] \in ToInstall
      PROVE  filled'[r] = "none" /\ <<r, "install">> \notin there' \cup pending'
  <2>1. at[r] \in ToInstall /\ ~Install(r) /\ ~Die(r)
    <3>1. at'[r] \notin Afterwards \cup Installed
      BY <1>3 DEF ToInstall, Clearing, Afterwards, Installed, Starting, Asking, Ending, Ended
    <3>2. ASSUME Clears(r) PROVE at[r] \in ToInstall
      BY <3>2, ClearsShape DEF ToInstall
    <3>3. ASSUME Begin(r) PROVE at[r] \in ToInstall
      BY <3>3 DEF Begin, ToInstall
    <3>4. ASSUME Fills(r) PROVE at[r] \in ToInstall
      <4>1. at'[r] \in {"network", "unfill"} \/ at'[r] \in Afterwards \/ at[r] \in ToInstall
        BY <3>4, GotoElsewhere
           DEF Fills, Look, Empty, Create, Install, InstallEnds, Unfill, EndRun, Afterwards, Ending, ToInstall
      <4> QED BY <1>3, <3>1, <4>1 DEF ToInstall, Installed, Starting, Clearing
    <3>5. ~Install(r)
      <4>1. ASSUME Install(r) PROVE at'[r] \in {"installing", "unfill", "list own"}
        BY <4>1, GotoElsewhere DEF Install, EndRun
      <4> QED BY <1>3, <4>1 DEF ToInstall, Clearing
    <3>6. ~Die(r)
      BY <1>3, GotoElsewhere DEF Die, ToInstall, Clearing
    <3> QED BY <1>3, <3>1, <3>2, <3>3, <3>4, <3>5, <3>6, Moves DEF MovesOn
  <2>2. filled[r] = "none" /\ <<r, "install">> \notin there \cup pending
    BY <2>1 DEF InstallsInv
  <2> QED BY <2>1, <2>2, Untouched
<1> QED BY <1>1, <1>2, <1>3 DEF InstallsInv

(* What disturbs the packages is not forgotten.                             *)
LEMMA DisturbedStays == Typed /\ [Next]_vars /\ Undisturbed' => Undisturbed
<1> SUFFICES ASSUME Typed, [Next]_vars
             PROVE  /\ mixed => mixed'
                    /\ late \subseteq late'
                    /\ \A q \in Run : failed[q] \subseteq failed'[q]
  BY DEF Undisturbed
<1> USE DEF removalVars, historyVars
<1>1. ASSUME NEW r \in Run, Clears(r)
      PROVE  (mixed => mixed') /\ late \subseteq late' /\ \A q \in Run : failed[q] \subseteq failed'[q]
  <2>1. mixed' = mixed
    BY <1>1 DEF Clears, ListLeft, ClearLeft, LeftCleared
  <2> QED BY <1>1, <2>1, ClearsFound, ClearsShape
<1>2. ASSUME NEW r \in Run, Begin(r)
      PROVE  (mixed => mixed') /\ late \subseteq late' /\ \A q \in Run : failed[q] \subseteq failed'[q]
  BY <1>2 DEF Begin
<1>3. ASSUME NEW r \in Run,
             Fills(r) \/ Starts(r) \/ Asks(r) \/ TakesDown(r) \/ CtrlC(r) \/ Die(r)
      PROVE  (mixed => mixed') /\ late \subseteq late' /\ \A q \in Run : failed[q] \subseteq failed'[q]
  <2>1. CASE Fills(r)
    <3>1. CASE Empty(r)
      BY <1>3, <3>1, LaterFound, Zenon DEF Shape, Empty
    <3>2. CASE ~Empty(r)
      <4>1. mixed' = mixed
        BY <2>1, <3>2 DEF Fills, Look, Create, Install, InstallEnds, Unfill
      <4> QED BY <1>3, <4>1, LaterFound DEF Shape
    <3> QED BY <3>1, <3>2
  <2>2. CASE Starts(r)
    <3>1. mixed' = mixed
      BY <2>2 DEF Starts, MakeNetwork, CreateNetwork, VerifyFenced, VerifyGatewayClosed,
                  StartHelper, StartApp, StartSidecar
    <3> QED BY <1>3, <3>1, LaterFound DEF Shape
  <2>3. CASE Asks(r)
    <3>1. mixed' = mixed
      BY <2>3 DEF Asks, WaitUntilReady, Script, RemoveHelper, HelpersGone, Tests
    <3> QED BY <1>3, <3>1, LaterFound DEF Shape
  <2>4. CASE TakesDown(r)
    <3>1. mixed' = mixed
      BY <2>4 DEF TakesDown, ListOwn, ListOwnOr, ClearOwn, OwnCleared, Return
    <3> QED BY <1>3, <3>1, LaterFound DEF Shape
  <2>5. CASE CtrlC(r) \/ Die(r)
    <3>1. mixed' = mixed
      BY <2>5 DEF CtrlC, Die
    <3> QED BY <1>3, <3>1, LaterFound DEF Shape
  <2> QED BY <1>3, <2>1, <2>2, <2>3, <2>4, <2>5
<1>4. CASE Daemon
  <2>1. UNCHANGED <<mixed, failed>> /\ late' = late
    BY <1>4 DEF Daemon, Copy, CarryOn, Expire
  <2> QED BY <2>1
<1>5. CASE UNCHANGED vars
  BY <1>5 DEF vars
<1> QED BY <1>1, <1>2, <1>3, <1>4, <1>5, NextParts

(* A run that is going was going, past its clearing or at the same place,   *)
(* or it begins or clears.                                                  *)
LEMMA GoesOn ==
    ASSUME Typed, [Next]_vars, NEW r \in Run, Running(r)'
    PROVE  \/ Begin(r) \/ Clears(r) \/ PastClearing(r)
           \/ Running(r) /\ at'[r] = at[r] /\ began'[r] = began[r]
<1>1. ASSUME at'[r] = at[r] PROVE Running(r)
  BY <1>1 DEF Running
<1>2. ASSUME NEW q \in Run,
             Fills(q) \/ Starts(q) \/ Asks(q) \/ TakesDown(q) \/ CtrlC(q) \/ Die(q)
      PROVE  PastClearing(r) \/ (at'[r] = at[r] /\ began'[r] = began[r])
  <2>1. at'[r] \notin Ended
    BY DEF Running, Ended, Clearing, AtVolume, Starting, Asking, Ending
  <2> QED BY <1>2, <2>1, LaterFound DEF Shape
<1>3. ASSUME NEW q \in Run, q # r, Clears(q) PROVE at'[r] = at[r] /\ began'[r] = began[r]
  BY <1>3, ClearsFound, ClearsShape DEF Shape
<1>4. ASSUME NEW q \in Run, q # r, Begin(q) PROVE at'[r] = at[r] /\ began'[r] = began[r]
  BY <1>4, GotoElsewhere DEF Begin, Typed, ProcessOK
<1>5. CASE Daemon
  BY <1>1, <1>5 DEF Daemon, Copy, CarryOn, Expire, historyVars
<1>6. CASE UNCHANGED vars
  BY <1>1, <1>6 DEF vars, historyVars
<1> QED BY <1>1, <1>2, <1>3, <1>4, <1>5, <1>6, NextParts

LEMMA EndedIsLeftover ==
    ASSUME OneMachineOwnNumbers, NEW q \in Run, NEW r \in Run, q # r, at[q] \in Ended
    PROVE  IsLeftover(r, q)
<1>1. ~Running(q)
  BY DEF Running, Ended, Clearing, AtVolume, Starting, Asking, Ending
<1> QED BY <1>1 DEF OneMachineOwnNumbers, IsLeftover, Alive

LEMMA NextAlone ==
    ASSUME OneMachineOwnNumbers, Typed, RemovalInv, FenceInv, LeftInv, InstallsInv,
           [Next]_vars, Undisturbed', Undisturbed => AloneInv
    PROVE  AloneInv'
<1>0. AloneInv /\ Undisturbed
  BY DisturbedStays
<1>a. \A q \in Run : <<q, "install">>[1] = q /\ <<q, "install">>[2] = "install"
  OBVIOUS
<1>b. Installs \subseteq Run
  BY RunsAssumption
<1>1. ASSUME NEW q \in Installs, NEW r \in Installs, Running(q)', Running(r)' PROVE q = r
  <2>1. ASSUME NEW p \in Installs, Begin(p), NEW s \in Installs, Running(s) PROVE FALSE
    BY <2>1 DEF Begin, Undisturbed
  <2>2. \A p \in Installs : Running(p)' => Begin(p) \/ Running(p)
    BY <1>b, GoesOn, ClearsShape DEF PastClearing, Running
  <2>3. \A p \in Run : Begin(p) => \A s \in Run \ {p} : at'[s] = at[s] /\ at[p] = "off"
    BY GotoElsewhere DEF Begin
  <2>4. ASSUME NEW p \in Installs, NEW s \in Installs, p # s, Begin(p), Running(s)' PROVE FALSE
    <3>1. Running(s)
      BY <1>b, <2>3, <2>4 DEF Running
    <3> QED BY <2>1, <2>4, <3>1
  <2> QED BY <1>0, <1>1, <2>2, <2>4 DEF AloneInv
(* An install that comes is that of the one run at the volume. *)
<1>2. ASSUME NEW q \in Run, <<q, "install">> \in there', <<q, "install">> \notin there
      PROVE  Install(q) /\ q \in Installs /\ Running(q) /\ at[q] = "install"
  <2>1. <<q, "install">> \notin pending
    <3>1. <<q, "install">> \notin late
      BY <1>0 DEF Undisturbed
    <3> QED BY <3>1 DEF FenceInv
  <2>2. at[q] = "install" /\ (Install(q) \/ Die(q))
    BY <1>2, <1>a, <2>1, InstallsCome
  <2>3. ~Die(q)
    BY <1>2 DEF Die
  <2> QED BY <2>2, <2>3 DEF InstallsInv, AtVolume, Running
<1>3. ASSUME NEW r \in Installs, Running(r)', NEW q \in Run \ {r}, <<q, "install">> \in there'
      PROVE  at'[r] \in Clearing /\ <<q, "install">> \in began'[r]
  <2> DEFINE t == <<q, "install">>
  <2>1. CASE t \notin there
    <3>1. Install(q) /\ q \in Installs /\ Running(q) /\ at[q] = "install"
      BY <1>2, <1>3, <2>1
    <3>2. Running(q)'
      <4>1. PICK place \in {"installing", "unfill", "list own"} : Goto(q, place)
        BY <3>1 DEF Install, EndRun
      <4>2. at'[q] = place
        BY <4>1, GotoElsewhere
      <4> QED BY <4>2 DEF Running, AtVolume, Ending
    <3> QED BY <1>1, <1>3, <3>1, <3>2
  <2>2. CASE t \in there /\ Begin(r)
    <3>1. at[q] \in Ended
      <4>1. at[q] # "off" /\ at[q] \in Places
        BY <1>a, <2>2 DEF RemovalInv, Typed, ProcessOK
      <4>2. q \in Installs
        BY <1>a, <2>2 DEF InstallsInv
      <4>3. ~Running(q)
        BY <2>2, <4>2 DEF Begin, Undisturbed
      <4> QED BY <4>1, <4>3 DEF Running, Places, Ended
    <3>2. IsLeftover(r, t[1])
      BY <1>3, <1>a, <1>b, <3>1, EndedIsLeftover
    <3>3. t \in began'[r]
      BY <1>b, <2>2, <3>2 DEF Begin, Typed, ProcessOK
    <3>4. at'[r] \in Clearing
      BY <1>b, <2>2, GotoElsewhere DEF Begin, Clearing
    <3> QED BY <3>3, <3>4
  <2>3. CASE t \in there /\ Running(r)
    <3>1. at[r] \in Clearing /\ t \in began[r]
      BY <1>0, <1>3, <2>3 DEF AloneInv
    <3>2. CASE Clears(r)
      <4>1. IsLeftover(r, t[1])
        <5>1. at[q] \in Ended
          BY <1>a, <1>b, <3>1 DEF LeftInv, LeftoversOfEnded, Ended
        <5> QED BY <1>3, <1>a, <1>b, <5>1, EndedIsLeftover
      <4>2. t \in began'[r]
        BY <1>b, <3>1, <3>2, <4>1, ClearsFound
      <4>3. at'[r] \in Clearing
        <5>1. CASE \E nets \in BOOLEAN : ListLeft(r, nets)
          BY <1>b, <5>1, GotoElsewhere DEF ListLeft, Clearing
        <5>2. CASE \E nets \in BOOLEAN : ClearLeft(r, nets)
          BY <3>1, <5>2 DEF ClearLeft
        <5>3. CASE LeftCleared(r) /\ at[r] = "clear left"
          BY <1>b, <5>3, GotoElsewhere DEF LeftCleared, Clearing
        <5>4. CASE LeftCleared(r) /\ at[r] = "clear left nets"
          <6>1. ~IsNet(t)
            BY DEF IsNet
          <6>2. t \notin Staying(r)
            BY <1>b, <5>4, <6>1 DEF LeftInv, ClearedSoFar, NetsIn
          <6>3. t \in failed[r] \cup late
            BY <2>3, <3>1, <6>2 DEF Staying, Excused
          <6> QED BY <1>0, <1>b, <6>3 DEF Undisturbed
        <5> QED BY <3>2, <5>1, <5>2, <5>3, <5>4 DEF Clears, LeftCleared
      <4> QED BY <4>2, <4>3
    <3>3. CASE ~Clears(r)
      <4>1. ~PastClearing(r) /\ ~Begin(r)
        BY <3>1 DEF PastClearing, Begin, Clearing
      <4> QED BY <1>3, <1>b, <3>1, <3>3, <4>1, GoesOn
    <3> QED BY <3>2, <3>3
  <2>4. Begin(r) \/ Running(r)
    BY <1>3, <1>b, GoesOn, ClearsShape DEF PastClearing, Running
  <2> QED BY <2>1, <2>2, <2>3, <2>4
<1>4. ASSUME NEW q \in Run, NEW r \in Run, <<q, "install">> \in there', <<r, "install">> \in there', q # r
      PROVE  FALSE
  <2>1. ASSUME NEW p \in Run, NEW s \in Run, p # s, <<p, "install">> \in there', <<p, "install">> \notin there,
               <<s, "install">> \in there'
        PROVE  FALSE
    <3>1. p \in Installs /\ Running(p) /\ at[p] = "install"
      BY <1>2, <2>1
    <3>2. CASE <<s, "install">> \in there
      BY <1>0, <2>1, <3>1, <3>2 DEF AloneInv, Clearing
    <3>3. CASE <<s, "install">> \notin there
      <4>1. s \in Installs /\ Running(s)
        BY <1>2, <2>1, <3>3
      <4> QED BY <1>0, <2>1, <3>1, <4>1 DEF AloneInv
    <3> QED BY <3>2, <3>3
  <2> QED BY <1>0, <1>4, <2>1 DEF AloneInv
<1> QED BY <1>1, <1>3, <1>4 DEF AloneInv

(* A step that leaves the volume as it is, starts no install, and takes no  *)
(* run to where it counts on more.                                          *)
Elsewhere == Afterwards \cup Clearing \cup {"off", "look", "empty", "unfill"}

CountsOnNoMore(r) ==
    \/ at'[r] = at[r] /\ (at[r] \in Served => appSaw'[r] \in {appSaw[r], "whole"})
    \/ at'[r] \in Elsewhere
    \/ at[r] \in Installed /\ at'[r] \in Installed
       /\ (at'[r] \in Served => appSaw'[r] = "whole" \/ (at[r] \in Served /\ appSaw'[r] = appSaw[r]))

LEMMA ElsewhereRelies ==
    ASSUME NEW r, at'[r] \in Elsewhere
    PROVE  Relies(r)'
BY DEF Elsewhere, Relies, Afterwards, Ending, Ended, Clearing, Installed, Starting, Asking

LEMMA VolumeKept ==
    ASSUME VolumeInv, volume' = volume,
           \A q \in Run : <<q, "install">> \in there' => <<q, "install">> \in there,
           \A q \in Run : filled'[q] = filled[q] \/ (filled[q] = "copied" /\ filled'[q] = "done"),
           \A r \in Installs : CountsOnNoMore(r) \/ Relies(r)'
    PROVE  VolumeInv'
<1>1. ASSUME NEW r \in Installs PROVE Relies(r)'
  <2>0. Relies(r) /\ r \in Run
    BY RunsAssumption DEF VolumeInv
  <2>1. CASE at'[r] \in Elsewhere
    BY <2>1, ElsewhereRelies
  <2>2. CASE at'[r] = at[r] /\ (at[r] \in Served => appSaw'[r] \in {appSaw[r], "whole"})
    BY <2>0, <2>2 DEF Relies, Served
  <2>3. CASE at[r] \in Installed /\ at'[r] \in Installed
             /\ (at'[r] \in Served => appSaw'[r] = "whole" \/ (at[r] \in Served /\ appSaw'[r] = appSaw[r]))
    <3>1. filled'[r] \in {"none", "done"} /\ volume'.there /\ volume'.holds = "whole"
      BY <2>0, <2>3 DEF Relies
    <3>2. at'[r] \in Served => appSaw'[r] = "whole"
      BY <2>0, <2>3 DEF Relies, Served
    <3>3. at'[r] \notin {"create", "install", "installing"}
      BY <2>3 DEF Installed, Starting, Asking
    <3> QED BY <3>1, <3>2, <3>3 DEF Relies, Served
  <2> QED BY <2>1, <2>2, <2>3 DEF CountsOnNoMore
<1>2. \A q \in Run : <<q, "install">> \in there' =>
         volume'.there /\ (filled'[q] \in {"started", "copying"} => ~volume'.mark)
  BY DEF VolumeInv
<1> QED BY <1>1, <1>2 DEF VolumeInv

(* A volume without a mark, which nobody fills or uses.                     *)
LEMMA VolumeUnused ==
    ASSUME ~volume'.mark, \A q \in Run : <<q, "install">> \notin there',
           \A r \in Installs : at'[r] \notin {"installing"} \cup Installed
    PROVE  VolumeInv'
<1>1. ASSUME NEW r \in Installs PROVE Relies(r)'
  BY DEF Relies, Installed, Starting
<1> QED BY <1>1 DEF VolumeInv

(* While a run is at the volume, no other is, nor is another's install.     *)
LEMMA AtVolumeAlone ==
    ASSUME AloneInv, NEW r \in Installs, Running(r), at[r] \notin Clearing
    PROVE  /\ \A q \in Installs \ {r} : ~Running(q)
           /\ \A q \in Run \ {r} : <<q, "install">> \notin there
BY DEF AloneInv

LEMMA NotRunning ==
    ASSUME NEW r, ~Running(r)
    PROVE  at[r] \notin {"create", "install", "installing"} \cup Installed
BY DEF Running, AtVolume, Installed

LEMMA ClearsTo ==
    ASSUME Typed, NEW r \in Installs, Clears(r)
    PROVE  at'[r] \in Clearing \cup {"look"}
<1>0. r \in Run
  BY RunsAssumption
<1>1. CASE \E nets \in BOOLEAN : ListLeft(r, nets)
  BY <1>0, <1>1, GotoElsewhere DEF ListLeft, Clearing
<1>2. CASE \E nets \in BOOLEAN : ClearLeft(r, nets)
  BY <1>2 DEF ClearLeft, Clearing
<1>3. CASE LeftCleared(r)
  <2>1. PICK place \in {"list left nets", "look"} : Goto(r, place)
    BY <1>3 DEF LeftCleared
  <2> QED BY <1>0, <2>1, GotoElsewhere DEF Clearing
<1> QED BY <1>1, <1>2, <1>3 DEF Clears

LEMMA FillsVolume ==
    ASSUME Typed, InstallsInv, AloneInv, VolumeInv, Undisturbed', [Next]_vars, NEW r \in Run, Fills(r)
    PROVE  VolumeInv'
<1> USE DEF dockerVars, volumeVars
<1>0. Installs \subseteq Run /\ filled \in [Run -> Fillings]
  BY RunsAssumption DEF Typed, DaemonOK
<1>1. at[r] \in AtVolume /\ Running(r) /\ at[r] \notin Clearing /\ r \in Installs
  <2>1. at[r] \in AtVolume
    BY DEF Fills, Look, Empty, Create, Install, InstallEnds, Unfill, AtVolume
  <2> QED BY <2>1 DEF Running, AtVolume, Clearing, InstallsInv
<1>2. /\ \A q \in Installs \ {r} : ~Running(q) /\ at'[q] = at[q]
      /\ \A q \in Run \ {r} : <<q, "install">> \notin there
  BY <1>0, <1>1, AtVolumeAlone, FillsBuild DEF Building, Shape
<1>3. \A q \in Installs \ {r} : CountsOnNoMore(q) \/ Relies(q)'
  BY <1>2, NotRunning DEF CountsOnNoMore, Installed, Served, Starting
(* The volume as it was. *)
<1>4. ASSUME volume' = volume, there' = there, filled' = filled, CountsOnNoMore(r) \/ Relies(r)'
      PROVE  VolumeInv'
  BY <1>3, <1>4, VolumeKept
<1>5. CASE Look(r)
  <2>1. volume' = volume /\ there' = there /\ filled' = filled
    BY <1>5 DEF Look
  <2>2. CASE at'[r] = "empty"
    BY <1>4, <2>1, <2>2 DEF CountsOnNoMore, Elsewhere
  <2>3. CASE volume.there /\ volume.mark /\ at'[r] = "network"
    <3>1. filled[r] = "none" /\ volume.holds = "whole"
      BY <1>5, <2>3 DEF Look, InstallsInv, ToInstall, VolumeInv
    <3>2. Relies(r)'
      BY <2>1, <2>3, <3>1 DEF Relies, Asking
    <3> QED BY <1>4, <2>1, <3>2
  <2>4. \/ volume.there /\ volume.mark /\ Goto(r, "network")
        \/ Goto(r, "empty")
    BY <1>5 DEF Look
  <2> QED BY <2>2, <2>3, <2>4, GotoElsewhere
<1>6. CASE InstallEnds(r)
  <2>1. volume' = volume /\ there' = there /\ filled' = filled /\ at[r] = "installing"
    BY <1>6 DEF InstallEnds
  <2>2. CASE at'[r] \in {"unfill", "list own"}
    BY <1>4, <2>1, <2>2 DEF CountsOnNoMore, Elsewhere, Afterwards, Ending
  <2>3. CASE filled[r] = "done" /\ at'[r] = "network"
    <3>1. Relies(r)
      BY <1>1 DEF VolumeInv
    <3>2. Relies(r)'
      BY <2>1, <2>3, <3>1 DEF Relies, Asking
    <3> QED BY <1>4, <2>1, <3>2
  <2>4. \/ filled[r] = "done" /\ Goto(r, "network")
        \/ \E place \in {"unfill", "list own"} : Goto(r, place)
    BY <1>6 DEF InstallEnds, EndRun
  <2> QED BY <2>2, <2>3, <2>4, GotoElsewhere
(* The volume is emptied, or stays; then the run goes on to make it. *)
<1>7. CASE Empty(r) \/ Unfill(r)
  <2>1. there' = there /\ filled' = filled /\ RemoveVolume(r)
    BY <1>7 DEF Empty, Unfill
  <2>2. at'[r] \in {"create", "list own"} /\ (Empty(r) => at'[r] = "create" /\ ~volume'.mark)
    <3>1. CASE Empty(r)
      BY <3>1, GotoElsewhere DEF Empty, Undisturbed
    <3>2. CASE Unfill(r)
      <4>1. at'[r] = "list own"
        BY <3>2, GotoElsewhere DEF Unfill, EndRun
      <4> QED BY <3>2, <4>1 DEF Unfill, Empty
    <3> QED BY <1>7, <3>1, <3>2
  <2>3. CASE volume' = volume
    <3>1. CASE Empty(r)
      <4>1. Relies(r)'
        BY <2>2, <3>1 DEF Relies, Installed, Starting, Asking
      <4> QED BY <1>4, <2>1, <2>3, <4>1
    <3>2. CASE Unfill(r)
      <4>1. at'[r] = "list own"
        BY <3>2, GotoElsewhere DEF Unfill, EndRun
      <4> QED BY <1>4, <2>1, <2>3, <4>1 DEF CountsOnNoMore, Elsewhere, Afterwards, Ending
    <3> QED BY <1>7, <3>1, <3>2
  <2>4. CASE volume' = NoVolume /\ ~VolumeInUse
    <3>1. \A q \in Run : <<q, "install">> \notin there'
      <4>1. ASSUME NEW q \in Run, <<q, "install">> \in there PROVE FALSE
        <5>1. q \in Installs
          <6>1. <<q, "install">>[1] = q /\ <<q, "install">>[2] = "install"
            OBVIOUS
          <6> QED BY <4>1, <6>1 DEF InstallsInv
        <5> QED BY <2>4, <4>1, <5>1 DEF VolumeInUse
      <4> QED BY <2>1, <4>1
    <3>2. \A q \in Installs : at'[q] \notin {"installing"} \cup Installed
      BY <1>2, <2>2, NotRunning DEF Installed, Starting, Asking
    <3> QED BY <2>4, <3>1, <3>2, VolumeUnused DEF NoVolume
  <2> QED BY <2>1, <2>3, <2>4 DEF RemoveVolume
<1>8. CASE Create(r)
  <2>1. there' = there /\ at[r] = "create"
    BY <1>8 DEF Create
  <2>2. ~volume.mark
    BY <1>1, <2>1 DEF VolumeInv, Relies
  <2>3. volume'.mark = volume.mark
    BY <1>8 DEF Create, Typed, DaemonOK, Volumes
  <2>4. \A q \in Run : <<q, "install">> \notin there'
    BY <1>2, <2>1 DEF InstallsInv, ToInstall
  <2>5. at'[r] \in {"install", "list own"}
    BY <1>8, GotoElsewhere DEF Create, EndRun
  <2>6. \A q \in Installs : at'[q] \notin {"installing"} \cup Installed
    BY <1>2, <2>5, NotRunning DEF Installed, Starting, Asking
  <2> QED BY <2>2, <2>3, <2>4, <2>6, VolumeUnused
<1>9. CASE Install(r)
  <2> DEFINE mine == <<r, "install">>
  <2>0. mine[1] = r /\ mine[2] = "install"
    OBVIOUS
  <2>1. at[r] = "install" /\ (Made(mine) \/ NothingMade)
    BY <1>9 DEF Install, MakeDone, MakeFails
  <2>2. ~volume.mark /\ \A q \in Run : <<q, "install">> \notin there
    BY <1>1, <1>2, <2>1 DEF VolumeInv, Relies, InstallsInv, ToInstall
  <2>3. at'[r] \in {"unfill", "list own"} \/ (at'[r] = "installing" /\ Made(mine))
    <3>1. \/ \E place \in {"unfill", "list own"} : Goto(r, place)
          \/ Goto(r, "installing") /\ Made(mine)
      BY <1>9 DEF Install, MakeDone, EndRun
    <3> QED BY <3>1, GotoElsewhere
  <2>4. CASE NothingMade /\ ~Made(mine)
    <3>1. volume' = volume /\ there' = there /\ filled' = filled
      BY <2>4 DEF NothingMade
    <3>2. CountsOnNoMore(r)
      BY <2>3, <2>4 DEF CountsOnNoMore, Elsewhere, Afterwards, Ending
    <3> QED BY <1>4, <3>1, <3>2
  <2>5. CASE Made(mine)
    <3>1. /\ there' = there \cup {mine}
          /\ volume' = IF volume.there THEN volume
                                       ELSE [there |-> TRUE, holds |-> "nothing", mark |-> FALSE]
          /\ filled' = [filled EXCEPT ![r] = "started"]
      BY <1>1, <2>0, <2>5 DEF Made
    <3>2. volume'.there /\ ~volume'.mark
      BY <2>2, <3>1
    <3>3. filled'[r] = "started"
      BY <1>0, <3>1
    <3>4. ASSUME NEW q \in Installs PROVE Relies(q)'
      <4>1. CASE q = r /\ at'[r] \in {"unfill", "list own"}
        BY <4>1, ElsewhereRelies DEF Elsewhere, Afterwards, Ending
      <4>2. CASE q = r /\ at'[r] = "installing"
        BY <3>2, <3>3, <4>2 DEF Relies, Installed, Starting, Asking
      <4>3. CASE q # r
        BY <1>2, <4>3, NotRunning DEF Relies, Installed, Starting
      <4> QED BY <2>3, <4>1, <4>2, <4>3
    <3> QED BY <3>2, <3>4 DEF VolumeInv
  <2> QED BY <2>1, <2>4, <2>5
<1> QED BY <1>5, <1>6, <1>7, <1>8, <1>9 DEF Fills

LEMMA StartAppVolume ==
    ASSUME Typed, VolumeInv, NEW r \in Run, StartApp(r)
    PROVE  VolumeInv'
<1> DEFINE mine == <<r, "app">>
<1>0. Installs \subseteq Run /\ appSaw \in [Run -> Seen] /\ mine[1] = r /\ mine[2] = "app"
  BY RunsAssumption DEF Typed, DaemonOK
<1>1. at[r] = "app" /\ (Made(mine) \/ NothingMade)
  BY DEF StartApp, MakeDone, MakeFails
<1>2. /\ \A q \in Run : <<q, "install">> \in there' => <<q, "install">> \in there
      /\ filled' = filled
  <2>1. Undisturbing
    BY StartsUndisturbing DEF Starts
  <2> QED BY <2>1 DEF Undisturbing
<1>3. \A q \in Run \ {r} : at'[q] = at[q]
  BY StartsBuild DEF Starts, Building, Shape
<1>4. volume' = volume /\ \A q \in Run \ {r} : appSaw'[q] = appSaw[q]
  <2>1. r \in Installs => volume.there
    BY <1>1 DEF VolumeInv, Relies, Installed, Starting
  <2> QED BY <1>0, <1>1, <2>1 DEF Made, NothingMade
<1>5. ASSUME r \in Installs PROVE CountsOnNoMore(r)
  <2>1. CASE Goto(r, "probe") /\ Made(mine)
    <3>1. volume.holds = "whole"
      BY <1>1, <1>5 DEF VolumeInv, Relies, Installed, Starting
    <3>2. appSaw'[r] = "whole"
      BY <1>0, <1>4, <1>5, <2>1, <3>1 DEF Made
    <3>3. at'[r] = "probe"
      BY <2>1, GotoElsewhere
    <3> QED BY <1>1, <3>2, <3>3 DEF CountsOnNoMore, Installed, Starting
  <2>2. CASE Goto(r, "list own")
    <3>1. at'[r] = "list own"
      BY <2>2, GotoElsewhere
    <3> QED BY <3>1 DEF CountsOnNoMore, Elsewhere, Afterwards, Ending
  <2> QED BY <2>1, <2>2 DEF StartApp, MakeDone, EndRun
<1>6. \A q \in Installs \ {r} : CountsOnNoMore(q)
  BY <1>0, <1>3, <1>4 DEF CountsOnNoMore
<1> QED BY <1>2, <1>4, <1>5, <1>6, VolumeKept

LEMMA DaemonVolume ==
    ASSUME Typed, FenceInv, InstallsInv, AloneInv, VolumeInv, Undisturbed, Daemon
    PROVE  VolumeInv'
<1> USE DEF removalVars, endVars, historyVars
<1>0. /\ Installs \subseteq Run /\ filled \in [Run -> Fillings] /\ appSaw \in [Run -> Seen]
      /\ volume \in Volumes
  BY RunsAssumption DEF Typed, DaemonOK
<1>1. \A q \in Run : <<q, "install">>[1] = q /\ <<q, "install">>[2] = "install"
  OBVIOUS
<1>2. ASSUME NEW q \in Run, Copy(q) PROVE VolumeInv'
  <2>1. <<q, "install">> \in there /\ at' = at /\ appSaw' = appSaw
    BY <1>2 DEF Copy
  <2>2. volume.there /\ (filled[q] \in {"started", "copying"} => ~volume.mark)
    BY <2>1 DEF VolumeInv
  <2>3. \A p \in Run \ {q} : <<p, "install">> \notin there' /\ filled'[p] = filled[p]
    BY <1>0, <1>2, <2>1 DEF Copy, AloneInv
  (* Runs other than q count on nothing, and q only while it installs. *)
  <2>4. ASSUME NEW r \in Installs, at[r] \in {"create", "install", "installing"} \cup Installed
        PROVE  r = q
    <3>1. Running(r) /\ at[r] \notin Clearing
      BY <2>4 DEF Running, AtVolume, Installed, Starting, Asking, Clearing
    <3> QED BY <1>0, <2>1, <3>1, AtVolumeAlone
  <2>5. at[q] \notin {"create", "install"}
    BY <2>1 DEF InstallsInv, ToInstall
  <2>6. filled[q] \in {"started", "copying"} => (q \in Installs => at[q] \notin Installed)
    BY DEF VolumeInv, Relies
  <2>7. ASSUME filled[q] \in {"started", "copying"}, filled'[q] # "none", volume'.there,
               filled'[q] \in {"copied", "done"} => volume'.holds = "whole",
               NEW r \in Installs
        PROVE  Relies(r)'
    <3>1. at'[r] \notin {"create", "install"} \cup Installed
      BY <2>1, <2>4, <2>5, <2>6, <2>7
    <3>2. at'[r] = "installing" => r = q
      BY <2>1, <2>4
    <3> QED BY <2>7, <3>1, <3>2 DEF Relies, Installed, Starting
  <2>8. CASE filled[q] = "started" /\ filled' = [filled EXCEPT ![q] = "copying"]
             /\ volume' = [volume EXCEPT !.holds = "part"]
    <3>1. filled'[q] = "copying" /\ volume'.there /\ ~volume'.mark
      BY <1>0, <2>2, <2>8 DEF Volumes
    <3>2. \A r \in Installs : Relies(r)'
      BY <2>7, <2>8, <3>1
    <3> QED BY <2>3, <3>1, <3>2 DEF VolumeInv
  <2>9. CASE filled[q] = "copying" /\ filled' = [filled EXCEPT ![q] = "copied"]
             /\ volume' = [volume EXCEPT !.holds = "whole", !.mark = TRUE]
    <3>1. filled'[q] = "copied" /\ volume'.there /\ volume'.holds = "whole"
      BY <1>0, <2>2, <2>9 DEF Volumes
    <3>2. \A r \in Installs : Relies(r)'
      BY <2>7, <2>9, <3>1
    <3> QED BY <2>3, <3>1, <3>2 DEF VolumeInv
  <2>10. CASE filled[q] \in {"started", "copying"} /\ filled' = [filled EXCEPT ![q] = "failed"]
             /\ there' = there \ {<<q, "install">>} /\ volume' = volume
    <3>1. filled'[q] = "failed" /\ <<q, "install">> \notin there'
      BY <1>0, <2>10
    <3>2. \A r \in Installs : Relies(r)'
      BY <2>2, <2>7, <2>10, <3>1
    <3> QED BY <2>3, <2>10, <3>1, <3>2 DEF VolumeInv
  <2> QED BY <1>2, <2>8, <2>9, <2>10 DEF Copy
<1>3. ASSUME NEW t \in Thing, CarryOn(t) PROVE VolumeInv'
  <2>1. t \in pending /\ at' = at /\ (Made(t) \/ NothingMade)
    BY <1>3 DEF CarryOn
  <2>2. t[2] # "install"
    <3>1. ASSUME t[2] = "install" PROVE FALSE
      <4>1. t[1] \in Run /\ t = <<t[1], "install">>
        BY <1>0, <2>1, <3>1, ThingParts DEF InstallsInv
      <4>2. t \in late
        BY <2>1 DEF FenceInv
      <4> QED BY <4>1, <4>2 DEF Undisturbed
    <3> QED BY <3>1
  <2>3. there' \subseteq there \cup {t} /\ filled' = filled
    BY <2>1, <2>2 DEF Made, NothingMade
  <2>4. \A q \in Run : <<q, "install">> \in there' => <<q, "install">> \in there
    BY <1>1, <2>2, <2>3
  <2>5. CASE volume' = volume /\ appSaw' = appSaw
    BY <2>1, <2>3, <2>4, <2>5, VolumeKept DEF CountsOnNoMore
  <2>6. CASE Made(t) /\ t[1] \in Installs /\ t[2] = "app"
    <3>1. /\ volume' = IF volume.there THEN volume
                                       ELSE [there |-> TRUE, holds |-> "nothing", mark |-> FALSE]
          /\ appSaw' = [appSaw EXCEPT ![t[1]] = volume'.holds]
      BY <2>6 DEF Made
    <3>2. CASE volume.there
      <4>1. ASSUME NEW r \in Installs PROVE CountsOnNoMore(r)
        <5>1. at[r] \in Served => volume.holds = "whole"
          BY DEF VolumeInv, Relies, Served, Installed, Starting
        <5>2. appSaw'[r] \in {appSaw[r], volume.holds}
          BY <1>0, <3>1, <3>2
        <5> QED BY <2>1, <5>1, <5>2 DEF CountsOnNoMore
      <4> QED BY <2>3, <2>4, <3>1, <3>2, <4>1, VolumeKept
    <3>3. CASE ~volume.there
      <4>1. \A q \in Run : <<q, "install">> \notin there'
        BY <2>4, <3>3 DEF VolumeInv
      <4>2. \A r \in Installs : at'[r] \notin {"installing"} \cup Installed
        BY <2>1, <3>3 DEF VolumeInv, Relies
      <4>3. ~volume'.mark
        BY <3>1, <3>3
      <4> QED BY <4>1, <4>2, <4>3, VolumeUnused
    <3> QED BY <3>2, <3>3
  <2> QED BY <2>1, <2>2, <2>5, <2>6 DEF Made, NothingMade
<1>4. ASSUME NEW t \in Thing, Expire(t) PROVE VolumeInv'
  <2>1. there' \subseteq there /\ at' = at /\ appSaw' = appSaw /\ volume' = volume
    BY <1>4 DEF Expire
  <2>2. \A q \in Run : filled'[q] = filled[q] \/ (filled[q] = "copied" /\ filled'[q] = "done")
    BY <1>0, <1>4 DEF Expire
  <2> QED BY <2>1, <2>2, VolumeKept DEF CountsOnNoMore
<1> QED BY <1>2, <1>3, <1>4 DEF Daemon

LEMMA NextVolume ==
    ASSUME Typed, FenceInv, InstallsInv, [Next]_vars, Undisturbed',
           Undisturbed => AloneInv /\ VolumeInv
    PROVE  VolumeInv'
<1>1. Undisturbed /\ AloneInv /\ VolumeInv
  BY DisturbedStays
<1>2. ASSUME NEW r \in Run, Fills(r) PROVE VolumeInv'
  BY <1>1, <1>2, FillsVolume
<1>3. ASSUME NEW r \in Run, StartApp(r) PROVE VolumeInv'
  BY <1>1, <1>3, StartAppVolume
<1>4. CASE Daemon
  BY <1>1, <1>4, DaemonVolume
<1>5. ASSUME \A r \in Run : ~Fills(r) /\ ~StartApp(r),
             UNCHANGED <<volume, filled, appSaw>>, there' \subseteq there
             \/ (\A t \in there' : t[2] = "install" => t \in there)
      PROVE  VolumeInv'
  <2>1. \A q \in Run : <<q, "install">> \in there' => <<q, "install">> \in there
    BY <1>5
  <2>2. ASSUME NEW r \in Installs PROVE CountsOnNoMore(r)
    <3>0. r \in Run
      BY RunsAssumption
    <3>1. CASE Begin(r)
      <4>1. at'[r] \in Clearing
        BY <3>0, <3>1, GotoElsewhere DEF Begin, Clearing
      <4> QED BY <4>1 DEF CountsOnNoMore, Elsewhere
    <3>2. CASE Clears(r)
      BY <3>2, ClearsTo DEF CountsOnNoMore, Elsewhere
    <3> QED BY <1>5, <3>0, <3>1, <3>2, Moves DEF MovesOn, CountsOnNoMore, Elsewhere
  <2> QED BY <1>1, <1>5, <2>1, <2>2, VolumeKept
<1>6. CASE \A r \in Run : ~Fills(r) /\ ~StartApp(r)
  <2>1. ASSUME NEW r \in Run, Starts(r) PROVE VolumeInv'
    BY <1>5, <1>6, <2>1, StartsUndisturbing DEF Undisturbing
  <2>2. ASSUME NEW r \in Run, Begin(r) \/ Clears(r) \/ Asks(r) \/ TakesDown(r) \/ CtrlC(r) PROVE VolumeInv'
    BY <1>5, <1>6, <2>2, RestUndisturbing DEF Undisturbing
  <2>3. ASSUME NEW r \in Run, Die(r) PROVE VolumeInv'
    BY <1>5, <1>6, <2>3 DEF Die, volumeVars
  <2>4. CASE UNCHANGED vars
    BY <1>5, <1>6, <2>4 DEF vars, volumeVars, dockerVars
  <2> QED BY <1>4, <1>6, <2>1, <2>2, <2>3, <2>4, NextParts
<1> QED BY <1>2, <1>3, <1>6

LEMMA InitPackages == Init => PackagesInv
<1> SUFFICES ASSUME Init PROVE PackagesInv
  OBVIOUS
<1>0. Installs \subseteq Run
  BY RunsAssumption
<1>1. \A t \in there \cup pending : t[2] # "install"
  BY DEF Init
<1>2. \A q \in Run : <<q, "install">> \notin there \cup pending
  <2>1. \A q \in Run : <<q, "install">>[2] = "install"
    OBVIOUS
  <2> QED BY <1>1, <2>1
<1>3. \A r \in Run : at[r] = "off" /\ filled[r] = "none"
  BY DEF Init
<1>4. InstallsInv
  BY <1>1, <1>2, <1>3 DEF InstallsInv, AtVolume
<1>5. \A r \in Run : ~Running(r)
  BY <1>3 DEF Running, Clearing, AtVolume, Starting, Asking, Ending
<1>6. AloneInv
  BY <1>0, <1>2, <1>5 DEF AloneInv
<1>7. VolumeInv
  <2>1. volume.mark => volume.there /\ volume.holds = "whole"
    BY DEF Init, NoVolume
  <2>2. \A r \in Installs : Relies(r)
    BY <1>0, <1>3 DEF Relies, Installed, Starting, Asking
  <2> QED BY <1>2, <2>1, <2>2 DEF VolumeInv
<1> QED BY <1>4, <1>6, <1>7 DEF PackagesInv

(* The app runs with all of its packages (DockerBackend::install), for any  *)
(* runs of one machine with numbers of their own: that is when a run takes  *)
(* what every killed run left for a leftover, its install included.         *)
THEOREM PackagesWhole ==
    ASSUME OneMachineOwnNumbers
    PROVE  Spec => []PackagesAreWhole
<1>1. PackagesInv => PackagesAreWhole
  <2>1. ASSUME PackagesInv, Undisturbed, NEW r \in Installs, at[r] \in Asking PROVE appSaw[r] = "whole"
    BY <2>1 DEF PackagesInv, VolumeInv, Relies
  <2> QED BY <2>1 DEF PackagesAreWhole, Undisturbed
<1>2. Typed /\ RemovalInv /\ FenceInv /\ LeftInv /\ PackagesInv /\ [Next]_vars => PackagesInv'
  BY NextInstalls, NextAlone, NextVolume DEF PackagesInv
<1>3. Typed /\ RemovalInv /\ FenceInv /\ LeftInv /\ [Next]_vars => LeftInv'
  BY NextLeftovers, NextCleared DEF LeftInv
<1> QED BY <1>1, <1>2, <1>3, InitTyped, NextTyped, InitRemoval, NextRemoval, InitFence, NextFence,
           InitLeft, InitPackages, PTL DEF Spec
=============================================================================
