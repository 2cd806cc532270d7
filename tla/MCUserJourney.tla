---------------------------- MODULE MCUserJourney ----------------------------
(***************************************************************************)
(* An instance of UserJourney for TLC: two paths with personas, one of     *)
(* them with two, and one without.                                         *)
(***************************************************************************)
EXTENDS UserJourney

CONSTANTS users, contributors, browse, dev, operator, coder,
          foundational, advanced

MCPersonasOf ==
    [j \in {users, contributors} |->
        IF j = users THEN {dev, operator} ELSE {coder}]

\* No query, a whole choice and a half-made one.
MCQueries ==
    {NoParams,
     [path |-> users, persona |-> dev, level |-> advanced],
     [path |-> contributors, persona |-> dev, level |-> NoValue]}

MCNoQuery == {NoParams}
=============================================================================
