------------------------------- MODULE JsonMap -------------------------------
(***************************************************************************)
(* What a JSON object promises its user: a map from names to values.       *)
(* "set" replaces, "add" refuses a name that is there, "remove" refuses    *)
(* one that is not; an operation that needs memory may fail, and then the  *)
(* map is as it was.                                                       *)
(***************************************************************************)
CONSTANTS Names, Values, NULL

VARIABLES
    content,   \* the value of each name, NULL if it has none
    answer     \* the last operation, and whether it succeeded

vars == <<content, answer>>

Answer(op, name, ok) == [op |-> op, name |-> name, ok |-> ok]

Init ==
    /\ content = [name \in Names |-> NULL]
    /\ answer = Answer("clear", NULL, TRUE)

Put(op, name, value) ==
    /\ content' = [content EXCEPT ![name] = value]
    /\ answer' = Answer(op, name, TRUE)

Refuse(op, name) ==
    /\ answer' = Answer(op, name, FALSE)
    /\ UNCHANGED content

Set(name, value) == Put("set", name, value)

Add(name, value) == content[name] = NULL /\ Put("add", name, value)

Remove(name) == content[name] # NULL /\ Put("remove", name, NULL)

Refused(name) ==
    \/ Refuse("add", name)
    \/ content[name] = NULL /\ (Refuse("set", name) \/ Refuse("remove", name))

Clear ==
    /\ content' = [name \in Names |-> NULL]
    /\ answer' = Answer("clear", NULL, TRUE)

Next ==
    \/ \E name \in Names, value \in Values : Set(name, value) \/ Add(name, value)
    \/ \E name \in Names : Remove(name) \/ Refused(name)
    \/ Clear

Spec == Init /\ [][Next]_vars
=============================================================================
