-------------------------- MODULE ReportKeyProofs ---------------------------
(***************************************************************************)
(* What is proved of making a computer's key, for any number of runs and   *)
(* whatever each of them meets.                                            *)
(***************************************************************************)
EXTENDS ReportKey, TLAPS

(* Where a run is tells what its own file, the key's name and its disk are  *)
(* known to be: a run that lost, lost to a key that is there.               *)
KeyInv ==
    /\ TypeOK
    /\ NameIsWhole
    /\ AgreedKey
    /\ \A r \in Run :
        /\ made[r] \/ pc[r] = "remove, made" => name = r
        /\ pc[r] \in {"remove, lost", "lost"} => name # NoKey
        /\ pc[r] \in {"remove, failed", "failed"} => "disk" \in Faults[r]
        /\ pc[r] \in {"look", "make"} => draft[r] = NoKey
        /\ pc[r] \in {"lost", "done", "failed"} => draft[r] = NoKey \/ "disk" \in Faults[r]

USE KeyAssumption, FaultsAssumption DEF Key

(* What a step of one run may do to the key's name: settle it with the key  *)
(* the run drew.                                                            *)
LEMMA NameSettles ==
    ASSUME TypeOK, NEW r \in Run, Step(r) \/ Kill(r)
    PROVE  name' = name \/ (name = NoKey /\ name' = r)
  <1>1. CASE Link(r)
    BY <1>1 DEF Link, TypeOK
  <1>2. CASE ~Link(r)
    BY <1>2 DEF Step, Kill, LookNone, Load, MakeDraft, WriteDraft, DiskFails, LinkTaken, RemoveDraft
  <1> QED BY <1>1, <1>2

LEMMA KeyInit == Init => KeyInv
  BY DEF Init, KeyInv, TypeOK, NameIsWhole, AgreedKey

LEMMA KeyStep ==
    ASSUME KeyInv, NEW r \in Run, Step(r) \/ Kill(r)
    PROVE  KeyInv'
  <1> USE DEF KeyInv, TypeOK, NameIsWhole, AgreedKey, Goto, Removing
  <1>1. CASE LookNone(r)
    BY <1>1 DEF LookNone
  <1>2. CASE Load(r)
    <2>1. name \in Key /\ name # NoKey
      BY <1>2 DEF Load
    <2>2. /\ has' = [has EXCEPT ![r] = name]
          /\ pc' = [pc EXCEPT ![r] = "done"]
          /\ UNCHANGED <<name, draft, made>>
      BY <1>2, <2>1 DEF Load
    <2>3. TypeOK'
      BY <2>1, <2>2
    <2>4. AgreedKey' /\ NameIsWhole'
      BY <2>1, <2>2
    <2>5. ASSUME NEW q \in Run
          PROVE  /\ made'[q] \/ pc'[q] = "remove, made" => name' = q
                 /\ pc'[q] \in {"remove, lost", "lost"} => name' # NoKey
                 /\ pc'[q] \in {"remove, failed", "failed"} => "disk" \in Faults[q]
                 /\ pc'[q] \in {"look", "make"} => draft'[q] = NoKey
                 /\ pc'[q] \in {"lost", "done", "failed"} =>
                        draft'[q] = NoKey \/ "disk" \in Faults[q]
      BY <1>2, <2>2 DEF Load
    <2> QED BY <2>3, <2>4, <2>5
  <1>3. CASE MakeDraft(r)
    BY <1>3 DEF MakeDraft
  <1>4. CASE WriteDraft(r)
    BY <1>4 DEF WriteDraft
  <1>5. CASE DiskFails(r)
    BY <1>5 DEF DiskFails
  <1>6. CASE Link(r)
    BY <1>6 DEF Link
  <1>7. CASE LinkTaken(r)
    BY <1>7 DEF LinkTaken
  <1>8. CASE RemoveDraft(r)
    <2>1. /\ name' = name
          /\ \/ draft' = [draft EXCEPT ![r] = NoKey]
             \/ "disk" \in Faults[r] /\ draft' = draft
      BY <1>8 DEF RemoveDraft
    <2>2. CASE pc[r] = "remove, made"
      <3>1. /\ pc' = [pc EXCEPT ![r] = "done"]
            /\ has' = [has EXCEPT ![r] = r]
            /\ made' = [made EXCEPT ![r] = TRUE]
        BY <1>8, <2>2 DEF RemoveDraft
      <3> QED BY <2>1, <2>2, <3>1
    <2>3. CASE pc[r] = "remove, lost"
      <3>1. pc' = [pc EXCEPT ![r] = "lost"] /\ UNCHANGED <<has, made>>
        BY <1>8, <2>3 DEF RemoveDraft
      <3> QED BY <2>1, <2>3, <3>1
    <2>4. CASE pc[r] = "remove, failed"
      <3>1. pc' = [pc EXCEPT ![r] = "failed"] /\ UNCHANGED <<has, made>>
        BY <1>8, <2>4 DEF RemoveDraft
      <3> QED BY <2>1, <2>4, <3>1
    <2> QED BY <1>8, <2>2, <2>3, <2>4 DEF RemoveDraft
  <1>9. CASE Kill(r)
    BY <1>9 DEF Kill, Going
  <1> QED BY <1>1, <1>2, <1>3, <1>4, <1>5, <1>6, <1>7, <1>8, <1>9 DEF Step

LEMMA KeyInvariant == Spec => []KeyInv
  <1>1. KeyInv /\ UNCHANGED vars => KeyInv'
    BY DEF KeyInv, TypeOK, NameIsWhole, AgreedKey, vars, Removing
  <1>2. KeyInv /\ [Next]_vars => KeyInv'
    BY <1>1, KeyStep DEF Next
  <1> QED BY KeyInit, <1>2, PTL DEF Spec

(* What each run and each file may hold.                                    *)
THEOREM KeyTyped == Spec => []TypeOK
  <1>1. KeyInv => TypeOK
    BY DEF KeyInv
  <1> QED BY <1>1, KeyInvariant, PTL

(* Whoever reads the name, and whenever, finds a whole key or none.         *)
THEOREM NameHoldsWhole == Spec => []NameIsWhole
  <1>1. KeyInv => NameIsWhole
    BY DEF KeyInv
  <1> QED BY <1>1, KeyInvariant, PTL

(* All runs of a computer are given one and the same key.                   *)
THEOREM RunsAgree == Spec => []AgreedKey
  <1>1. KeyInv => AgreedKey
    BY DEF KeyInv
  <1> QED BY <1>1, KeyInvariant, PTL

(* No two runs are told that they made it.                                  *)
THEOREM OneMadeIt == Spec => []MadeByOne
  <1>1. KeyInv => MadeByOne
    BY DEF KeyInv, MadeByOne
  <1> QED BY <1>1, KeyInvariant, PTL

(* A run fails for its own disk only.                                       *)
THEOREM FailureHasCause == Spec => []FailsForCause
  <1>1. KeyInv => FailsForCause
    BY DEF KeyInv, FailsForCause
  <1> QED BY <1>1, KeyInvariant, PTL

(* What a run drew and did not use is not left lying about.                 *)
THEOREM DraftsGone == Spec => []NoDraftLeft
  <1>1. KeyInv => NoDraftLeft
    BY DEF KeyInv, NoDraftLeft
  <1> QED BY <1>1, KeyInvariant, PTL

(* Making the key implements KeyOnce: it is settled once, for good, and     *)
(* whoever has a key has that one.                                          *)
THEOREM KeyImplementsOnce == Spec => ImplementsKeyOnce
  <1>1. Init => Abstract!Init
    BY DEF Init, Abstract!Init
  <1>2. ASSUME KeyInv, NEW r \in Run, Step(r) \/ Kill(r)
        PROVE  [Abstract!Next]_<<name, has>>
    <2> USE DEF KeyInv, TypeOK, NameIsWhole
    <2>1. CASE Link(r)
      <3>1. name = NoKey /\ name' = r /\ has' = has
        BY <1>2, <2>1 DEF Link
      <3> QED BY <3>1 DEF Abstract!Next, Abstract!Settle
    <2>2. CASE Load(r)
      <3>1. name \in Key /\ name # NoKey
        BY <1>2, <2>2 DEF Load
      <3>2. has' = [has EXCEPT ![r] = name] /\ name' = name
        BY <2>2, <3>1 DEF Load
      <3> QED BY <3>1, <3>2 DEF Abstract!Next, Abstract!Have
    <2>3. CASE RemoveDraft(r)
      <3>1. CASE pc[r] = "remove, made"
        <4>1. name = r /\ name # NoKey
          BY <1>2, <3>1
        <4>2. has' = [has EXCEPT ![r] = name] /\ name' = name
          BY <2>3, <3>1, <4>1 DEF RemoveDraft
        <4> QED BY <4>1, <4>2 DEF Abstract!Next, Abstract!Have
      <3>2. CASE pc[r] # "remove, made"
        BY <2>3, <3>2 DEF RemoveDraft
      <3> QED BY <3>1, <3>2
    <2>4. CASE ~(Link(r) \/ Load(r) \/ RemoveDraft(r))
      BY <1>2, <2>4 DEF Step, Kill, LookNone, MakeDraft, WriteDraft, DiskFails, LinkTaken
    <2> QED BY <2>1, <2>2, <2>3, <2>4
  <1>3. KeyInv /\ [Next]_vars => [Abstract!Next]_<<name, has>>
    BY <1>2 DEF Next, vars
  <1> QED BY <1>1, <1>3, KeyInvariant, PTL DEF Spec, ImplementsKeyOnce, Abstract!Spec
=============================================================================
