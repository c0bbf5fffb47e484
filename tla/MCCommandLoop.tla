---------------------------- MODULE MCCommandLoop ----------------------------
(***************************************************************************)
(* Instances of CommandLoop for TLC.                                       *)
(***************************************************************************)
EXTENDS CommandLoop

\* 48 characters fit into an array of 50 with their newline, 49 do not.
Fits48 == "xxxxxxxxxxxxxxxxxxxxxxxxxxxxxxxxxxxxxxxxxxxxxxxx"
Cut49 == Fits48 \o "x"

\* An answer the 49 first characters of which fill an array of 50.
Overlong == Cut49 \o "exit"

\* These have the guard and the prompts of "get_movies" or of "get_movie".
Alike == {"get_collections", "delete_movie", "get_collection", "delete_collection"}

\* The other commands, and an empty line.
MostWords == (Handlers \ Alike) \cup {"exit", ""}

\* What the library's atoi makes of these texts and of what is left of them.
AtoiOf(text) ==
    IF text \in {"2", " 2", "2x"} THEN 2 ELSE 0

SomeAnswers == {"", " 2", Fits48, Cut49, Overlong}

SessionWords ==
    {"login_admin", "login", "get_access", "get_movies", "add_collection", "exit"}

FewAnswers == {"", "2"}
=============================================================================
