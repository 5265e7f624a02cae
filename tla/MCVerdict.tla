------------------------------ MODULE MCVerdict ------------------------------
(* Seven findings about six requirements: a tool's and sv's own on one line,*)
(* two on lines that read the same, one of the running app, the decision's  *)
(* and one that leaves credit alone.  The runs vary either the answers, or  *)
(* what was found, reviewed and credited.                                   *)
EXTENDS Verdict, TLC

CONSTANTS always, never, ai, rag, oauth, server, mail, xml, v1, v2, v3, v4, v5, c1, ch, sec

MCLevel == (v1 :> 1) @@ (v2 :> 1) @@ (v3 :> 1) @@ (v4 :> 2) @@ (v5 :> 1) @@ (c1 :> 1)
MCScopesOf == [r \in Requirement |->
    IF r \in {v1, v2, v4} THEN <<r, sec, ch>> ELSE <<r, ch>>]
MCBase == [s \in Scope |->
    CASE s = ch -> {never} [] s = sec -> {mail} [] s = v1 -> {} [] s = v2 -> {rag, mail}
      [] s = v3 -> {ai} [] s = v4 -> {xml} [] s = v5 -> {server} [] OTHER -> {}]
MCOverlay == [s \in Scope |-> CASE s = v3 -> {always} [] s = c1 -> {ai} [] OTHER -> {}]

MCNames == <<{v1, v3}, {v2}, {v1}, {v1, v4}, {v2, v3}, {c1}, {v2, v3}>>
MCSeverity == <<2, 1, 2, 3, 2, 3, 3>>
MCLine == <<10, 10, 20, 30, 0, 0, 0>>
MCNow == <<"1", "2", "3", "4", "5", "6", "7">>
MCBefore == <<"1e", "2e", "34e", "34e", "5", "6", "7">>

Silent == [c \in Condition |-> "unknown"]
Said == [stated |-> [Silent EXCEPT ![mail] = "yes", ![ai] = "yes", ![rag] = "no"],
         found |-> [Silent EXCEPT ![xml] = "yes"], data |-> "sensitive", exposed |-> FALSE]

AllSaid == {[stated |-> [Silent EXCEPT ![ai] = a, ![rag] = g, ![oauth] = o, ![server] = s, ![mail] = m],
             found |-> [Silent EXCEPT ![mail] = fm, ![rag] = fg, ![xml] = x],
             data |-> d, exposed |-> e] :
    a \in Answer, g \in Answer, o \in Answer, s \in Answer, m \in Answer,
    fm \in {"unknown", "no", "yes"}, fg \in {"unknown", "yes"}, x \in Answer,
    d \in {"unsaid", "plain"}, e \in BOOLEAN}

NoCredit == [r \in Requirement |-> {}]
Scoping == [answers |-> AllSaid, seen |-> {{1, 2}}, decided |-> {FALSE}, credit |-> {NoCredit},
            entries |-> {<<>>}, gaps |-> {{}}, bar |-> {1}, strict |-> {FALSE}]

E(print, earlier, verdict, holds) ==
    [print |-> print, earlier |-> earlier, verdict |-> verdict, holds |-> holds]
Kinds == {E("1", FALSE, "false alarm", TRUE), E("1", FALSE, "accepted", TRUE),
          E("2", FALSE, "false alarm", TRUE), E("34e", TRUE, "false alarm", TRUE),
          E("34e", TRUE, "accepted", TRUE), E("5", FALSE, "false alarm", TRUE),
          E("5", FALSE, "accepted", FALSE), E("7", FALSE, "accepted", TRUE)}
Few == {E("1", FALSE, "false alarm", TRUE), E("1", FALSE, "accepted", TRUE),
        E("34e", TRUE, "false alarm", TRUE), E("5", FALSE, "false alarm", TRUE)}
EntryLists == {<<>>} \union {<<a>> : a \in Kinds} \union {<<a, b>> : a \in Kinds, b \in Kinds}
    \union {<<a, b, c>> : a \in Few, b \in Few, c \in Few}

Credits == {NoCredit,
            [NoCredit EXCEPT ![v1] = {"probe"}, ![v3] = {"probe in part", "stated"}],
            [NoCredit EXCEPT ![v2] = {"check", "tests"}, ![c1] = {"tests"}, ![v1] = {"attested"}],
            [NoCredit EXCEPT ![v1] = {"tests"}, ![v3] = {"documented"}, ![v4] = {"probe", "by hand"},
                             ![v2] = {"check in part"}]}

Judging == [answers |-> {Said}, seen |-> SUBSET {1, 2, 3, 4, 5}, decided |-> {TRUE},
             credit |-> Credits, entries |-> EntryLists, gaps |-> {{}}, bar |-> {0, 2},
             strict |-> {FALSE}]

Laters == [answers |-> {Said}, seen |-> SUBSET {1, 2, 4, 6}, decided |-> {FALSE},
           credit |-> {NoCredit}, entries |-> {<<>>, <<E("2", FALSE, "false alarm", TRUE)>>},
           gaps |-> {{}, {"partly"}, {"could not run"}}, bar |-> {0, 3}, strict |-> BOOLEAN]

MCProfiles == {Scoping, Judging, Laters}
=============================================================================
