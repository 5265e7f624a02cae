---------------------------- MODULE ReportReader ----------------------------
(***************************************************************************)
(* The MCP server hands a report file to an AI coding tool (`proven` and   *)
(* `sealed_here` in report_seal.rs, `read_resource` in mcp/resources.rs)   *)
(* while runs write the same folder.  The reader takes no lock: what it    *)
(* looks at may change between any two of its steps.                       *)
(***************************************************************************)
EXTENDS ReportFolder

VARIABLES
    reading,   \* where the reader is
    want,      \* the file it was asked for
    sealOf,    \* whose seal it read in the marker
    compared,  \* how many files it has found to be that run's
    looked,    \* the file it looked at before opening it
    given      \* what it handed over

readerVars == <<reading, want, sealOf, compared, looked, given>>

allVars == <<vars, readerVars>>

ReaderInit ==
    /\ reading = "idle"
    /\ want \in File
    /\ sealOf = NoRun
    /\ compared = 0
    /\ looked = NoRun
    /\ given = NoRun

(* proven: a marker, and nothing in the folder that `sv` does not write;   *)
(* a file part-written at this moment is such a thing too.                 *)
ListFolder ==
    /\ reading = "idle"
    /\ reading' = IF marker # NoMarker /\ ~others /\ staging = {}
                  THEN "listed" ELSE "refused"
    /\ UNCHANGED <<want, sealOf, compared, looked, given>>

(* sealed_here: the marker is read, and carries a seal ...                 *)
ReadSeal ==
    /\ reading = "listed"
    /\ sealOf' = marker.by
    /\ reading' = IF marker.kind = "sealed" THEN "digests" ELSE "refused"
    /\ UNCHANGED <<want, compared, looked, given>>

(* ... then each file in turn; the seal holds when every one is of the run *)
(* it is of.                                                               *)
Digest ==
    /\ reading = "digests"
    /\ compared' = compared + 1
    /\ reading' = IF files[compared'] # sealOf THEN "refused"
                  ELSE IF compared' = NumFiles THEN "proven"
                  ELSE "digests"
    /\ UNCHANGED <<want, sealOf, looked, given>>

(* read_resource: the file is looked at,                                   *)
Look ==
    /\ reading = "proven"
    /\ looked' = files[want]
    /\ reading' = IF looked' = NoRun THEN "refused" ELSE "looked"
    /\ UNCHANGED <<want, sealOf, compared, given>>

(* Mutant: the bytes read are not compared with the digest sealed.         *)
HandOverUncompared ==
    /\ reading = "looked"
    /\ IF files[want] = looked
       THEN given' = looked /\ reading' = "given"
       ELSE reading' = "refused" /\ UNCHANGED given
    /\ UNCHANGED <<want, sealOf, compared, looked>>

(* opened, which finds the same file or is refused, and read, and its      *)
(* digest is compared with the one the seal was checked over.              *)
HandOver ==
    /\ reading = "looked"
    /\ IF files[want] = looked /\ looked = sealOf
       THEN given' = looked /\ reading' = "given"
       ELSE reading' = "refused" /\ UNCHANGED given
    /\ UNCHANGED <<want, sealOf, compared, looked>>

Reader == ListFolder \/ ReadSeal \/ Digest \/ Look \/ HandOver

ReadingInit == Init /\ ReaderInit

ReadingNext ==
    \/ Next /\ UNCHANGED readerVars
    \/ Reader /\ UNCHANGED vars

ReadingSpec == ReadingInit /\ [][ReadingNext]_allVars

-----------------------------------------------------------------------------
(* What each variable may hold.                                            *)
ReaderTypeOK ==
    /\ reading \in {"idle", "listed", "digests", "proven", "looked", "given", "refused"}
    /\ want \in File
    /\ {sealOf, looked, given} \subseteq Writer \cup {NoRun}
    /\ compared \in 0..NumFiles
    /\ reading \in {"digests", "proven", "looked", "given"} => sealOf \in Writer

(* Nothing is handed over as a report sv wrote but a file of a run that    *)
(* got to its seal: not of one still writing, nor of one that failed or    *)
(* was stopped, although the reader takes no lock and the folder is        *)
(* rewritten around it, also where the disk locks nothing.                 *)
Finished(w) ==
    \/ w = Past
    \/ at[w] \in {"wrote", "letgo", "undomark", "undofolder", "ended", "dead"}
       /\ how[w] \notin {"failed", "stopped", "refused"}
       /\ next[w] = NumFiles

OnlyFinishedGiven == given # NoRun => Finished(given)
=============================================================================
