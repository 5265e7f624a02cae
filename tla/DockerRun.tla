------------------------------ MODULE DockerRun ------------------------------
(***************************************************************************)
(* Runs of `sv` that start an app behind a fence, beside a Docker daemon    *)
(* they share (sv-run/src/docker.rs, cleanup.rs, install.rs).               *)
(*                                                                         *)
(* Each element of Run is one process with one run: it removes what killed  *)
(* runs left, fills a volume with the app's packages, makes a network,      *)
(* starts containers on it, asks its questions, and removes what it made.   *)
(* A call to `docker` is one step.  The daemon may go on with a call whose  *)
(* client was stopped or outlived its process: what such a call makes is in *)
(* `pending' until the daemon makes it or gives it up.                      *)
(***************************************************************************)
EXTENDS Naturals, FiniteSets

CONSTANTS
    Run,            \* the runs, each a process of its own
    Past,           \* a run that was killed before any of these began
    Machine,        \* Machine[r]: the machine's name in r's labels
    Pid,            \* Pid[r]: r's process number
    Installs,       \* the runs whose manifest says install = true
    Helped,         \* the runs whose manifest asks for a helper
    Faults,         \* Faults[r]: subset of {"docker", "rm", "ctrl-c", "kill"}
    MaxFailed       \* how many calls the daemon fails at most

Everyone == Run \cup {Past}

ASSUME RunsAssumption ==
    /\ Past \notin Run
    /\ Machine \in [Everyone -> STRING] /\ Pid \in [Everyone -> Nat]
    /\ Installs \subseteq Run /\ Helped \subseteq Run
    /\ Faults \in [Run -> SUBSET {"docker", "rm", "ctrl-c", "kill"}]
    /\ MaxFailed \in Nat

(* What a run makes.  "helper" stands for the mail server, the provider, the *)
(* model and the browser, which are started, gone without and removed alike. *)
Containers == {"install", "helper", "app", "probe"}
Fenced == Containers \ {"install"}
Thing == Everyone \X (Containers \cup {"net"})

VARIABLES
    at,             \* at[r]: the call r makes next
    interrupted,    \* interrupted[r]: INTERRUPTED, set by Ctrl-C
    there,          \* the containers and networks the daemon has
    pending,        \* what the daemon may still make for a client it lost
    fence,          \* fence[r]: what r's network turned out to be
    todo,           \* todo[r]: what r's removal has still to go through
    notRemoved,     \* notRemoved[r]: what r names as not removed
    helped,         \* helped[r]: r's helper was started
    told,           \* told[r]: what r's process told the person about the removal
    volume,         \* the packages' volume, shared by runs with the same files
    filled,         \* filled[r]: how far r's install container is
    began,          \* (history) the leftovers there when r began
    failed,         \* (history) removals by r that the daemon did not do
    late,           \* (history) what was made for a client that was gone
    spent,          \* (bound) how many calls the daemon has failed
    mixed,          \* (history) the volume had two runs at once, or was filled unemptied
    appSaw          \* (history) appSaw[r]: what the volume held when r's app started

dockerVars == <<there, pending, fence>>
volumeVars == <<volume, filled, appSaw>>
historyVars == <<began, late, mixed, spent>>
removalVars == <<todo, notRemoved, failed>>
endVars == <<helped, told>>
vars == <<at, interrupted, dockerVars, volumeVars, removalVars, endVars, historyVars>>

----------------------------------------------------------------------------
(* Places *)

Clearing == {"list left", "clear left", "list left nets", "clear left nets"}
AtVolume == {"look", "empty", "create", "install", "installing", "unfill"}
Starting == {"network", "network again", "plain network", "fence", "gateway", "helper", "app", "probe"}
Asking == {"ready", "script", "helpers go", "tests"}
Ending == {"list own", "clear own", "list own nets", "clear own nets", "return"}
Running(r) == at[r] \in Clearing \cup AtVolume \cup Starting \cup Asking \cup Ending

(* `kill(pid, 0)': whether a process with this number runs on r's machine.   *)
Alive(r, pid) == \E q \in Run : Machine[q] = Machine[r] /\ Pid[q] = pid /\ Running(q)

(* Mutant: every other process's thing is a leftover. *)
IsAnothers(r, q) == Machine[q] = Machine[r] /\ Pid[q] # Pid[r]

(* cleanup::is_leftover, of a thing of q's, seen by r. *)
IsLeftover(r, q) ==
    /\ Machine[q] = Machine[r]
    /\ Pid[q] # Pid[r]
    /\ ~Alive(r, Pid[q])

Goto(r, place) == at' = [at EXCEPT ![r] = place]

(* A call of r's that the daemon fails, one that Ctrl-C or the daemon does    *)
(* not let through, and one that goes well.                                  *)
Fails(r, f) == f \in Faults[r] /\ spent < MaxFailed /\ spent' = spent + 1
Fine == spent' = spent
Refused(r) == (interrupted[r] /\ Fine) \/ Fails(r, "docker")

----------------------------------------------------------------------------
(* The daemon *)

(* A container is attached to its run's network, which cannot be removed     *)
(* before it.                                                                *)
InUse(t) == t[2] = "net" /\ \E k \in Fenced : <<t[1], k>> \in there

(* The containers that have the volume mounted. *)
VolumeInUse == \E q \in Installs, k \in {"install", "app"} : <<q, k>> \in there

(* What a network may turn out to be: closed, with a gateway that answers,   *)
(* or not internal at all.                                                   *)
Kinds == {"closed", "gateway", "open"}

(* What is made for run r: its fence, when it is the network; its mount of    *)
(* the volume, which Docker makes empty when it is not there.                *)
Made(t) ==
    /\ there' = there \cup {t}
    /\ IF t[2] = "net" THEN \E k \in Kinds : fence' = [fence EXCEPT ![t[1]] = k]
                       ELSE UNCHANGED fence
    /\ IF t[1] \in Installs /\ t[2] \in {"install", "app"}
         THEN /\ volume' = IF volume.there THEN volume
                                           ELSE [there |-> TRUE, holds |-> "nothing", mark |-> FALSE]
              /\ IF t[2] = "install"
                   THEN filled' = [filled EXCEPT ![t[1]] = "started"] /\ UNCHANGED appSaw
                   ELSE appSaw' = [appSaw EXCEPT ![t[1]] = volume'.holds] /\ UNCHANGED filled
         ELSE UNCHANGED <<volume, filled, appSaw>>

NothingMade == UNCHANGED <<there, fence, volume, filled, appSaw>>

(* A call that did not do what it was asked.  After Ctrl-C it is not made at  *)
(* all.  One that is stopped, for time or with Ctrl-C, or answered with an   *)
(* error may have made the thing, or the daemon may make it yet.             *)
MakeFails(r, t) ==
    \/ interrupted[r] /\ Fine /\ NothingMade /\ UNCHANGED <<interrupted, pending, late>>
    \/ /\ ~interrupted[r]
       /\ \/ Fails(r, "docker") /\ UNCHANGED interrupted
          \/ "ctrl-c" \in Faults[r] /\ Fine /\ interrupted' = [interrupted EXCEPT ![r] = TRUE]
       /\ \/ NothingMade /\ UNCHANGED <<pending, late>>
          \/ Made(t) /\ UNCHANGED <<pending, late>>
          \/ NothingMade /\ pending' = pending \cup {t} /\ late' = late \cup {t}

MakeDone(r, t) ==
    ~interrupted[r] /\ Fine /\ Made(t) /\ UNCHANGED <<interrupted, pending, late>>

(* The daemon goes on with a call whose client is gone, or does not. *)
CarryOn(t) ==
    /\ t \in pending
    /\ pending' = pending \ {t}
    /\ (t \notin there /\ Made(t)) \/ NothingMade
    /\ UNCHANGED <<at, interrupted, removalVars, endVars, historyVars>>

(* A container started with --rm goes when its command ends. *)
Expire(t) ==
    /\ t \in there
    /\ \/ t[2] = "probe" /\ UNCHANGED <<volume, filled>>
       \/ /\ t[2] = "install" /\ filled[t[1]] = "copied"
          /\ filled' = [filled EXCEPT ![t[1]] = "done"] /\ UNCHANGED volume
    /\ there' = there \ {t}
    /\ UNCHANGED <<at, interrupted, pending, fence, appSaw, removalVars, endVars, historyVars>>

(* The install's own command: it copies the packages, and then its mark. *)
Copy(q) ==
    /\ <<q, "install">> \in there
    /\ \/ /\ filled[q] = "started"
          /\ filled' = [filled EXCEPT ![q] = "copying"]
          /\ volume' = [volume EXCEPT !.holds = "part"]
          /\ UNCHANGED there /\ Fine
       \/ /\ filled[q] = "copying"
          /\ filled' = [filled EXCEPT ![q] = "copied"]
          /\ volume' = [volume EXCEPT !.holds = "whole", !.mark = TRUE]
          /\ UNCHANGED there /\ Fine
       \/ /\ filled[q] \in {"started", "copying"} /\ Fails(q, "docker")
          /\ filled' = [filled EXCEPT ![q] = "failed"]
          /\ there' = there \ {<<q, "install">>}
          /\ UNCHANGED volume
    /\ UNCHANGED <<at, interrupted, pending, fence, appSaw, removalVars, endVars, began, late, mixed>>

----------------------------------------------------------------------------
(* Runs *)

NoVolume == [there |-> FALSE, holds |-> "nothing", mark |-> FALSE]

(* What killed runs can have left: a container with its network, or nothing; *)
(* and a volume that is filled, partly filled, or not there.                *)
Init ==
    /\ at = [r \in Run |-> "off"]
    /\ interrupted = [r \in Run |-> FALSE]
    /\ there \in {{}, {<<Past, "net">>, <<Past, "app">>}}
    /\ pending = {}
    /\ fence = [r \in Everyone |-> "none"]
    /\ todo = [r \in Run |-> {}]
    /\ notRemoved = [r \in Run |-> {}]
    /\ told = [r \in Run |-> "nothing"]
    /\ volume \in {NoVolume,
                   [there |-> TRUE, holds |-> "part", mark |-> FALSE],
                   [there |-> TRUE, holds |-> "whole", mark |-> TRUE]}
    /\ filled = [r \in Run |-> "none"]
    /\ began = [r \in Run |-> {}]
    /\ failed = [r \in Run |-> {}]
    /\ late = {}
    /\ mixed = FALSE /\ spent = 0
    /\ helped = [r \in Run |-> FALSE]
    /\ appSaw = [r \in Run |-> "none"]

(* The run begins, and from here on Ctrl-C is caught. *)
Begin(r) ==
    /\ at[r] = "off"
    /\ ~Alive(r, Pid[r])
    /\ began' = [began EXCEPT ![r] = {t \in there : IsLeftover(r, t[1])}]
    /\ mixed' = (mixed \/ (r \in Installs /\ \E q \in Installs : Running(q)))
    /\ Goto(r, "list left")
    /\ UNCHANGED <<interrupted, dockerVars, volumeVars, removalVars, endVars, late, spent>>

IsNet(t) == t[2] = "net"

(* What a listing of the networks, or of the containers, can show. *)
Listed(nets) == {t \in there : IsNet(t) <=> nets}

(* remove_leftovers: `docker ps' (or `network ls') under the owner label,    *)
(* and what it lists of ended runs.  An answer that is not given lists none. *)
ListLeft(r, nets) ==
    /\ at[r] = IF nets THEN "list left nets" ELSE "list left"
    /\ LET found == {t \in Listed(nets) : IsLeftover(r, t[1])} IN
         \/ ~interrupted[r] /\ Fine /\ todo' = [todo EXCEPT ![r] = found] /\ UNCHANGED failed
         \/ /\ Refused(r)
            /\ todo' = [todo EXCEPT ![r] = {}]
            /\ failed' = [failed EXCEPT ![r] = @ \cup found]
    /\ began' = [began EXCEPT ![r] = {t \in @ : IsLeftover(r, t[1])}]
    /\ Goto(r, IF nets THEN "clear left nets" ELSE "clear left")
    /\ UNCHANGED <<interrupted, dockerVars, volumeVars, notRemoved, endVars, late, mixed>>

(* One `rm': done, or not done though the daemon could, or not possible.     *)
(* What it takes from the daemon, and whether the caller is told it went.    *)
Removal(r, t, gone) ==
    \/ gone /\ Fine /\ ~InUse(t) /\ there' = there \ {t} /\ UNCHANGED failed
    \/ ~gone /\ Fine /\ InUse(t) /\ UNCHANGED <<there, failed>>
    \/ /\ ~gone /\ Fails(r, "rm")
       /\ UNCHANGED there
       /\ failed' = [failed EXCEPT ![r] = @ \cup {t}]

ClearLeft(r, nets) ==
    /\ at[r] = IF nets THEN "clear left nets" ELSE "clear left"
    /\ \E t \in todo[r], gone \in BOOLEAN :
         /\ Removal(r, t, gone)
         /\ todo' = [todo EXCEPT ![r] = @ \ {t}]
    /\ UNCHANGED <<at, interrupted, pending, fence, volumeVars, notRemoved, endVars, began, late, mixed>>

(* Mutant: the networks are not gone through. *)
ContainersCleared(r) ==
    /\ todo[r] = {} /\ at[r] = "clear left"
    /\ Goto(r, IF r \in Installs THEN "look" ELSE "network")
    /\ UNCHANGED <<interrupted, dockerVars, volumeVars, removalVars, endVars, historyVars>>

(* Once the containers are gone through come the networks, and then the run. *)
LeftCleared(r) ==
    /\ todo[r] = {}
    /\ \/ at[r] = "clear left" /\ Goto(r, "list left nets")
       \/ at[r] = "clear left nets" /\ Goto(r, IF r \in Installs THEN "look" ELSE "network")
    /\ UNCHANGED <<interrupted, dockerVars, volumeVars, removalVars, endVars, historyVars>>

----------------------------------------------------------------------------
(* The packages (DockerBackend::install) *)

EndRun(r) == Goto(r, "list own")

(* Mutant: a volume that is there counts as filled. *)
LookForVolume(r) ==
    /\ at[r] = "look"
    /\ \/ ~interrupted[r] /\ Fine /\ volume.there /\ Goto(r, "network")
       \/ Fine /\ ~volume.there /\ Goto(r, "empty")
       \/ Refused(r) /\ Goto(r, "empty")
    /\ UNCHANGED <<interrupted, dockerVars, volumeVars, removalVars, endVars, began, late, mixed>>

(* `volume inspect' and a look for the mark in it. *)
Look(r) ==
    /\ at[r] = "look"
    /\ \/ ~interrupted[r] /\ Fine /\ volume.there /\ volume.mark /\ Goto(r, "network")
       \/ Fine /\ ~(volume.there /\ volume.mark) /\ Goto(r, "empty")
       \/ Refused(r) /\ Goto(r, "empty")
    /\ UNCHANGED <<interrupted, dockerVars, volumeVars, removalVars, endVars, began, late, mixed>>

(* `volume rm -f', whose answer is not looked at; Docker refuses it while a  *)
(* container has the volume.                                                 *)
RemoveVolume(r) ==
    \/ ~VolumeInUse /\ Fine /\ volume' = NoVolume
    \/ ((VolumeInUse /\ Fine) \/ Refused(r)) /\ UNCHANGED volume

Empty(r) ==
    /\ at[r] = "empty" /\ RemoveVolume(r) /\ Goto(r, "create")
    /\ mixed' = (mixed \/ volume'.mark)
    /\ UNCHANGED <<interrupted, dockerVars, filled, appSaw, removalVars, endVars, began, late>>

(* `volume create', which is content with one that is there. *)
Create(r) ==
    /\ at[r] = "create"
    /\ \/ /\ ~interrupted[r] /\ Fine /\ Goto(r, "install")
          /\ volume' = [volume EXCEPT !.there = TRUE]
       \/ /\ Refused(r) /\ EndRun(r)
          /\ volume' \in {volume, [volume EXCEPT !.there = TRUE]}
    /\ UNCHANGED <<interrupted, dockerVars, filled, appSaw, removalVars, endVars, began, late, mixed>>

(* The `docker run' that fills the volume: it is waited for until the        *)
(* container ends, is refused, or answers with an error.                     *)
Install(r) ==
    /\ at[r] = "install"
    /\ \/ MakeDone(r, <<r, "install">>) /\ Goto(r, "installing")
       \/ MakeFails(r, <<r, "install">>) /\ EndRun(r)
       \/ MakeFails(r, <<r, "install">>) /\ ~interrupted'[r] /\ Goto(r, "unfill")
    /\ UNCHANGED <<removalVars, endVars, began, mixed>>

InstallEnds(r) ==
    /\ at[r] = "installing"
    /\ \/ Fine /\ filled[r] = "done" /\ Goto(r, "network")
       \/ Fine /\ filled[r] = "failed" /\ Goto(r, "unfill")
       \/ Refused(r) /\ EndRun(r)
    /\ UNCHANGED <<interrupted, dockerVars, volumeVars, removalVars, endVars, began, late, mixed>>

(* An install that failed takes its volume with it. *)
Unfill(r) ==
    /\ at[r] = "unfill" /\ RemoveVolume(r) /\ EndRun(r)
    /\ UNCHANGED <<interrupted, dockerVars, filled, appSaw, removalVars, endVars, began, late, mixed>>

----------------------------------------------------------------------------
(* The fence and the containers behind it (run_after_cleanup) *)

(* One `network create'.  A name that is taken is refused. *)
CreateNetwork(r, otherwise) ==
    LET net == <<r, "net">> IN
    /\ \/ net \notin there /\ MakeDone(r, net) /\ Goto(r, "fence")
       \/ net \notin there /\ MakeFails(r, net) /\ Goto(r, otherwise)
       \/ /\ net \in there /\ Fine /\ NothingMade /\ Goto(r, otherwise)
          /\ UNCHANGED <<interrupted, pending, late>>
    /\ UNCHANGED <<removalVars, endVars, began, mixed>>

(* Two ways without a gateway, then the plain internal network. *)
MakeNetwork(r) ==
    \/ at[r] = "network" /\ CreateNetwork(r, "network again")
    \/ at[r] = "network again" /\ CreateNetwork(r, "plain network")
    \/ at[r] = "plain network" /\ CreateNetwork(r, "list own")

(* verify_fenced: anything but a clear answer ends the run. *)
VerifyFenced(r) ==
    /\ at[r] = "fence"
    /\ \/ ~interrupted[r] /\ Fine /\ fence[r] # "open" /\ Goto(r, "gateway")
       \/ ((fence[r] = "open" /\ Fine) \/ Refused(r)) /\ EndRun(r)
    /\ UNCHANGED <<interrupted, dockerVars, volumeVars, removalVars, endVars, began, late, mixed>>

(* Mutant: only a network that is not internal ends the run. *)
GatewayNotAsked(r) ==
    /\ at[r] = "gateway" /\ ~interrupted[r] /\ Fine /\ Goto(r, "helper")
    /\ UNCHANGED <<interrupted, dockerVars, volumeVars, removalVars, endVars, began, late, mixed>>

(* verify_gateway_closed, likewise. *)
VerifyGatewayClosed(r) ==
    /\ at[r] = "gateway"
    /\ \/ ~interrupted[r] /\ Fine /\ fence[r] = "closed" /\ Goto(r, "helper")
       \/ ((fence[r] # "closed" /\ Fine) \/ Refused(r)) /\ EndRun(r)
    /\ UNCHANGED <<interrupted, dockerVars, volumeVars, removalVars, endVars, began, late, mixed>>

(* A helper that does not start is gone without. *)
StartHelper(r) ==
    /\ at[r] = "helper" /\ Goto(r, "app")
    /\ \/ r \in Helped /\ MakeDone(r, <<r, "helper">>) /\ helped' = [helped EXCEPT ![r] = TRUE]
       \/ r \in Helped /\ MakeFails(r, <<r, "helper">>) /\ UNCHANGED helped
       \/ r \notin Helped /\ Fine /\ NothingMade
          /\ UNCHANGED <<interrupted, pending, late, helped>>
    /\ UNCHANGED <<removalVars, told, began, mixed>>

StartApp(r) ==
    /\ at[r] = "app"
    /\ \/ MakeDone(r, <<r, "app">>) /\ Goto(r, "probe")
       \/ MakeFails(r, <<r, "app">>) /\ EndRun(r)
    /\ UNCHANGED <<removalVars, endVars, began, mixed>>

(* Without its sidecar the run sends each request from a container of its own. *)
StartSidecar(r) ==
    /\ at[r] = "probe" /\ Goto(r, "ready")
    /\ MakeDone(r, <<r, "probe">>) \/ MakeFails(r, <<r, "probe">>)
    /\ UNCHANGED <<removalVars, endVars, began, mixed>>

(* wait_until_ready: the app answers, or ends, or never does. *)
WaitUntilReady(r) ==
    /\ at[r] = "ready"
    /\ (~interrupted[r] /\ Goto(r, "script")) \/ EndRun(r)
    /\ UNCHANGED <<interrupted, dockerVars, volumeVars, removalVars, endVars, historyVars>>

(* The script runs to its end whatever its questions come to; the helpers go next. *)
Script(r) ==
    /\ at[r] = "script" /\ Goto(r, "helpers go")
    /\ todo' = [todo EXCEPT ![r] = {<<r, "probe">>} \cup
                                   IF helped[r] THEN {<<r, "helper">>} ELSE {}]
    /\ UNCHANGED <<interrupted, dockerVars, volumeVars, notRemoved, failed, endVars, historyVars>>

Tests(r) ==
    /\ at[r] = "tests" /\ EndRun(r)
    /\ UNCHANGED <<interrupted, dockerVars, volumeVars, removalVars, endVars, historyVars>>

----------------------------------------------------------------------------
(* Taking down *)

(* The helpers go before the tests, by a call that Ctrl-C refuses. *)
RemoveHelper(r) ==
    /\ at[r] = "helpers go"
    /\ \E t \in todo[r], gone \in BOOLEAN :
         /\ \/ ~interrupted[r] /\ Removal(r, t, gone)
            \/ /\ interrupted[r] /\ ~gone /\ Fine
               /\ there' \in {there, there \ {t}} /\ UNCHANGED failed
         /\ todo' = [todo EXCEPT ![r] = @ \ {t}]
         /\ notRemoved' = [notRemoved EXCEPT ![r] = IF gone THEN @ ELSE @ \cup {t}]
    /\ UNCHANGED <<at, interrupted, pending, fence, volumeVars, endVars, began, late, mixed>>

HelpersGone(r) ==
    /\ at[r] = "helpers go" /\ todo[r] = {} /\ Goto(r, "tests")
    /\ UNCHANGED <<interrupted, dockerVars, volumeVars, removalVars, endVars, historyVars>>

(* Teardown::remove: what carries the run's label.  These calls are made     *)
(* also after Ctrl-C.                                                        *)
ListOwnOr(r, nets, fallback) ==
    /\ at[r] = IF nets THEN "list own nets" ELSE "list own"
    /\ \/ Fine /\ todo' = [todo EXCEPT ![r] = {t \in Listed(nets) : t[1] = r}]
       \/ Fails(r, "rm") /\ todo' = [todo EXCEPT ![r] = fallback]
    /\ Goto(r, IF nets THEN "clear own nets" ELSE "clear own")
    /\ UNCHANGED <<interrupted, dockerVars, volumeVars, notRemoved, failed, endVars, began, late, mixed>>

(* Mutant: a listing that fails lists nothing. *)
ListOwnOrNothing(r, nets) == ListOwnOr(r, nets, {})

(* When the daemon lists nothing, the run's own names (to_remove). *)
ListOwn(r, nets) ==
    ListOwnOr(r, nets, {r} \X (IF nets THEN {"net"} ELSE Containers))

ClearOwn(r, nets) ==
    /\ at[r] = IF nets THEN "clear own nets" ELSE "clear own"
    /\ \E t \in todo[r], gone \in BOOLEAN :
         /\ Removal(r, t, gone)
         /\ todo' = [todo EXCEPT ![r] = @ \ {t}]
         /\ notRemoved' = [notRemoved EXCEPT ![r] = IF gone THEN @ ELSE @ \cup {t}]
    /\ UNCHANGED <<at, interrupted, pending, fence, volumeVars, endVars, began, late, mixed>>

OwnCleared(r) ==
    /\ todo[r] = {}
    /\ \/ at[r] = "clear own" /\ Goto(r, "list own nets")
       \/ at[r] = "clear own nets" /\ Goto(r, "return")
    /\ UNCHANGED <<interrupted, dockerVars, volumeVars, removalVars, endVars, historyVars>>

(* start_app: after Ctrl-C the person is told that everything was removed;   *)
(* otherwise the report, or the reason for its lack, names what was not.     *)
Return(r) ==
    /\ at[r] = "return" /\ Goto(r, "done")
    /\ told' = [told EXCEPT ![r] = IF interrupted[r] THEN "all removed" ELSE "what was not"]
    /\ UNCHANGED <<interrupted, dockerVars, volumeVars, removalVars, helped, historyVars>>

----------------------------------------------------------------------------
(* Ctrl-C and kills *)

CtrlC(r) ==
    /\ "ctrl-c" \in Faults[r] /\ Running(r) /\ ~interrupted[r]
    /\ interrupted' = [interrupted EXCEPT ![r] = TRUE]
    /\ UNCHANGED <<at, dockerVars, volumeVars, removalVars, endVars, historyVars>>

(* What the call in progress makes.  Its client is in a process group of its *)
(* own, and goes on without the process that started it.                     *)
Making(r) ==
    CASE at[r] = "install" -> {<<r, "install">>}
      [] at[r] \in {"network", "network again", "plain network"} -> {<<r, "net">>}
      [] at[r] \in {"helper", "app", "probe"} -> {<<r, at[r]>>}
      [] OTHER -> {}

(* The process is killed, or Ctrl-C is pressed a second time: nothing of its *)
(* is removed.                                                               *)
Die(r) ==
    /\ Running(r)
    /\ "kill" \in Faults[r] \/ ("ctrl-c" \in Faults[r] /\ interrupted[r])
    /\ Goto(r, "dead")
    /\ \E made \in {{}, Making(r)} :
         pending' = pending \cup made /\ late' = late \cup made
    /\ UNCHANGED <<interrupted, there, fence, volumeVars, removalVars, endVars, began, mixed, spent>>

----------------------------------------------------------------------------
Step(r) ==
    \/ \E nets \in BOOLEAN : ListLeft(r, nets) \/ ClearLeft(r, nets)
    \/ LeftCleared(r)
    \/ Look(r) \/ Empty(r) \/ Create(r) \/ Install(r) \/ InstallEnds(r) \/ Unfill(r)
    \/ MakeNetwork(r) \/ VerifyFenced(r) \/ VerifyGatewayClosed(r)
    \/ StartHelper(r) \/ StartApp(r) \/ StartSidecar(r)
    \/ WaitUntilReady(r) \/ Script(r) \/ RemoveHelper(r) \/ HelpersGone(r) \/ Tests(r)
    \/ \E nets \in BOOLEAN : ListOwn(r, nets) \/ ClearOwn(r, nets)
    \/ OwnCleared(r) \/ Return(r)

Next ==
    \/ \E r \in Run : Begin(r) \/ Step(r) \/ CtrlC(r) \/ Die(r)
    \/ \E q \in Run : Copy(q)
    \/ \E t \in Thing : CarryOn(t) \/ Expire(t)

Spec == Init /\ [][Next]_vars

----------------------------------------------------------------------------
(* Properties *)

TypeOK ==
    /\ at \in [Run -> {"off", "done", "dead"} \cup Clearing \cup AtVolume
                        \cup Starting \cup Asking \cup Ending]
    /\ interrupted \in [Run -> BOOLEAN]
    /\ there \subseteq Thing /\ pending \subseteq Thing /\ late \subseteq Thing
    /\ fence \in [Everyone -> Kinds \cup {"none"}]
    /\ todo \in [Run -> SUBSET Thing]
    /\ notRemoved \in [Run -> SUBSET Thing]
    /\ helped \in [Run -> BOOLEAN]
    /\ told \in [Run -> {"nothing", "all removed", "what was not"}]
    /\ volume \in [there : BOOLEAN, holds : {"nothing", "part", "whole"}, mark : BOOLEAN]
    /\ filled \in [Run -> {"none", "started", "copying", "copied", "done", "failed"}]
    /\ began \in [Run -> SUBSET Thing] /\ failed \in [Run -> SUBSET Thing]
    /\ mixed \in BOOLEAN /\ spent \in 0..MaxFailed
    /\ appSaw \in [Run -> {"none", "nothing", "part", "whole"}]

(* No run removes a container or a network of a run that is still going, on  *)
(* this machine or another: what a going run made goes by its own removal,   *)
(* or by its own end.                                                        *)
SparesLiving ==
    \A t \in there \ there' :
        t[1] \in Run /\ Running(t[1]) =>
            \/ at[t[1]] \in Asking \cup Ending /\ todo'[t[1]] # todo[t[1]]
            \/ t[2] \in {"probe", "install"} /\ todo' = todo

LivingLeftAlone == [][SparesLiving]_vars

(* What a run that was not stopped with Ctrl-C leaves is named in what it    *)
(* says, but for what the daemon made for a call whose client was gone.      *)
WhatIsLeftIsSaid ==
    \A r \in Run : told[r] = "what was not" =>
        \A t \in there \ late : t[1] = r => t \in notRemoved[r]

(* Past the clearing, nothing is there that killed runs had left when the    *)
(* run began, but for what the daemon would not list or remove, and a        *)
(* network that such a container keeps in use.                               *)
LeftoversCleared ==
    \A r \in Run : Running(r) /\ at[r] \notin Clearing =>
        \A t \in (began[r] \cap there) \ (failed[r] \cup late) :
            IsNet(t) /\ \E k \in Fenced : <<t[1], k>> \in failed[r] \cup late

(* The app runs only on a network that was seen to be internal and to have   *)
(* no gateway that answers, also when the daemon starts it late; but for a   *)
(* network of the same name that it makes late itself.                       *)
AppIsFenced ==
    \A r \in Run : <<r, "app">> \in there /\ <<r, "net">> \notin late => fence[r] = "closed"

(* An app with packages runs with all of them, unless two runs were at the   *)
(* volume at once, an install went on that nobody waits for, or one filled   *)
(* the volume over an earlier install's mark, which the daemon had not let   *)
(* go: such an install that stops half way still counts as finished.         *)
PackagesAreWhole ==
    (~mixed /\ \A q \in Run : <<q, "install">> \notin late \cup UNION {failed[p] : p \in Run})
        => \A r \in Installs : at[r] \in Asking => appSaw[r] = "whole"
=============================================================================
