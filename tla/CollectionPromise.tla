-------------------------- MODULE CollectionPromise --------------------------
(***************************************************************************)
(* What one run of add_collection promises: the movies of the list go into *)
(* the collection made for it, one after the other, in the order of the    *)
(* list; the user is told of success only when all of them are in, and     *)
(* nothing goes in once the user has been told.  The one exception is the  *)
(* code's own: if the collection is never made, success may be told too.   *)
(***************************************************************************)
EXTENDS Naturals, Sequences

CONSTANTS Attempts, Lists, NULL

VARIABLES
    lists,   \* what each run was asked to add, NULL before
    made,    \* whether its collection exists
    added,   \* what has gone into it
    told     \* "SUCCESS", "ERROR", or NULL

vars == <<lists, made, added, told>>

Init ==
    /\ lists = [a \in Attempts |-> NULL]
    /\ made = [a \in Attempts |-> FALSE]
    /\ added = [a \in Attempts |-> <<>>]
    /\ told = [a \in Attempts |-> NULL]

Running(a) == lists[a] # NULL /\ told[a] = NULL

Ask(a) ==
    /\ lists[a] = NULL
    /\ \E list \in Lists : lists' = [lists EXCEPT ![a] = list]
    /\ UNCHANGED <<made, added, told>>

Make(a) ==
    /\ Running(a)
    /\ made' = [made EXCEPT ![a] = TRUE]
    /\ UNCHANGED <<lists, added, told>>

AddNext(a) ==
    /\ Running(a) /\ made[a]
    /\ Len(added[a]) < Len(lists[a])
    /\ added' = [added EXCEPT ![a] = Append(@, lists[a][Len(@) + 1])]
    /\ UNCHANGED <<lists, made, told>>

Tell(a) ==
    /\ Running(a)
    /\ \E verdict \in {"SUCCESS", "ERROR"} :
          /\ verdict = "SUCCESS" /\ made[a] => added[a] = lists[a]
          /\ told' = [told EXCEPT ![a] = verdict]
    /\ UNCHANGED <<lists, made, added>>

Next == \E a \in Attempts : Ask(a) \/ Make(a) \/ AddNext(a) \/ Tell(a)

Spec == Init /\ [][Next]_vars
=============================================================================
