--------------------------------- MODULE MCBot ---------------------------------
(***************************************************************************)
(* Bot on small instances: one chat, and two accounts that may link it.    *)
(***************************************************************************)
EXTENDS Bot, TLC

CONSTANTS anna, boris, s1, s2, s3

MCOwner == s1 :> anna @@ s2 :> anna @@ s3 :> boris

Dialogue(ids) == {Say(s) : s \in ids} \cup {Say("field"), Say("op"), Say("channels"),
                  Say("yes"), Say("system"), Command("createrule")}

\* A dialogue with interruptions; deletions and toggles; a chat that changes hands.
MCScenarios ==
    {[says |-> Dialogue({s1, s3}) \cup {Say("docker"), Say("no"), Command("cancel"),
                                           Command("query")},
      links |-> 0],
     [says |-> {About(c, s) : c \in {"delete", "confirm"}, s \in {s1, s2}}
               \cup {Command("toggle")}, links |-> 1],
     [says |-> Dialogue({s1}) \cup {About("start", boris)}, links |-> 2]}
=============================================================================
