----------------------------- MODULE MCSignedIn -----------------------------
(* Apps for the signed-in checks: a correct one, and each with one or two   *)
(* faults or habits.                                                        *)
EXTENDS SignedIn

Whole == Sections
NoSignUp == Sections \ {"signup", "middle", "fetch", "ai"}
Plans == {Whole, NoSignUp, NoSignUp \ {"slow", "change"}, {"admin", "owned"}}

UpToTwo == {{s, t} : s, t \in Traits} \union {{}}

MCWorlds == [app : UpToTwo, plan : Plans]
=============================================================================
