------------------------------ MODULE KeyOnce ------------------------------
(* What a computer's key promises: the first run that needs one settles it  *)
(* for good, and whoever has a key has that one.                            *)
CONSTANTS Run, Key, NoKey

VARIABLES
    key,  \* the computer's key
    has   \* the key each run has

Init == key \in Key \union {NoKey} /\ has = [r \in Run |-> NoKey]

Settle == key = NoKey /\ key' \in Key /\ UNCHANGED has
Have(r) == key # NoKey /\ has' = [has EXCEPT ![r] = key] /\ UNCHANGED key

Next == Settle \/ \E r \in Run : Have(r)

Spec == Init /\ [][Next]_<<key, has>>
=============================================================================
