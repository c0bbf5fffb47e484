---------------------------- MODULE AddCollection ----------------------------
(***************************************************************************)
(* add_collection's requests and the server's collections.  One request    *)
(* makes the collection, one more per movie fills it, and between any two  *)
(* of them other clients of the same user make and delete collections and  *)
(* movies, the server refuses, or the process is killed and started anew,  *)
(* with its last request still under way.                                  *)
(***************************************************************************)
EXTENDS Integers, Sequences, SequencesExt

CONSTANTS
    Movies,
    MaxMovies,      \* bounds num_movies
    MaxAttempts,    \* bounds the runs of add_collection
    MaxCollections, \* bounds what the server makes
    NULL

ASSUME BoundsAssumption == {MaxMovies, MaxAttempts, MaxCollections} \subseteq Nat

\* NULL is none of the values it stands beside: no number, list or line that is
\* printed, no request and no reply.
ASSUME NullAssumption ==
    /\ NULL \notin Nat
    /\ NULL \notin BoundedSeq(Movies, MaxMovies)
    /\ NULL \notin {"SUCCESS", "ERROR"}
    /\ NULL \notin [granted : BOOLEAN, id : (1..MaxCollections) \cup {NULL}]

VARIABLES
    attempt,       \* the number of the current run
    lists,         \* the movie_ids of each run, NULL before
    pc,            \* "idle", "creating", "adding" or "posting"
    i,             \* movies added so far in this run
    collection_id,
    operations_successful,
    told,          \* the last line each run prints, NULL before
    requests,      \* requests the server has not handled yet
    reply,         \* the reply to the current run, NULL if there is none
    library,       \* the movies the server has
    collections    \* all it ever made: who made it, what went in, is it there

client == <<attempt, lists, pc, i, collection_id, operations_successful, told>>
server == <<library, collections>>
vars == <<client, requests, reply, server>>

-----------------------------------------------------------------------------

Attempts == 1..MaxAttempts
Lists == BoundedSeq(Movies, MaxMovies)
list == lists[attempt]

Init ==
    /\ attempt = 0
    /\ lists = [a \in Attempts |-> NULL]
    /\ pc = "idle"
    /\ i = 0
    /\ collection_id = -1
    /\ operations_successful = TRUE
    /\ told = [a \in Attempts |-> NULL]
    /\ requests = {}
    /\ reply = NULL
    /\ library = Movies
    /\ collections = <<>>

\* The user has given title and movies; the creation is requested.
Begin ==
    /\ pc = "idle"
    /\ attempt < MaxAttempts
    /\ attempt' = attempt + 1
    /\ \E l \in Lists : lists' = [lists EXCEPT ![attempt + 1] = l]
    /\ requests' = requests \cup {[by |-> attempt + 1, kind |-> "create"]}
    /\ reply' = NULL
    /\ i' = 0
    /\ collection_id' = -1
    /\ operations_successful' = TRUE
    /\ pc' = "creating"
    /\ UNCHANGED <<told, server>>

\* A slip: the number of the reply is not read.
IdIn_Unread(r) == 1

\* json_object_get_number: 0 if the body has no id.
IdIn(r) == IF r.id = NULL THEN 0 ELSE r.id

\* A refusal is printed, and no more: the run goes on.
TakeCreation ==
    /\ pc = "creating" /\ reply # NULL
    /\ collection_id' = IF reply.granted THEN IdIn(reply) ELSE collection_id
    /\ pc' = "adding"
    /\ reply' = NULL
    /\ UNCHANGED <<attempt, lists, i, operations_successful, told, requests, server>>

\* A slip: the loop goes on behind a refused movie.
MoviesLeft_GoOn == collection_id >= 0 /\ i < Len(list)

MoviesLeft == operations_successful /\ collection_id >= 0 /\ i < Len(list)

Post ==
    /\ pc = "adding" /\ MoviesLeft
    /\ requests' = requests \cup
          {[by |-> attempt, kind |-> "add", to |-> collection_id, movie |-> list[i + 1]]}
    /\ pc' = "posting"
    /\ UNCHANGED <<attempt, lists, i, collection_id, operations_successful, told,
                   reply, server>>

\* A slip: any reply will do.
TakePosted_Any ==
    /\ pc = "posting" /\ reply # NULL
    /\ i' = i + 1
    /\ pc' = "adding"
    /\ reply' = NULL
    /\ UNCHANGED <<attempt, lists, collection_id, operations_successful, told,
                   requests, server>>

TakePosted ==
    /\ pc = "posting" /\ reply # NULL
    /\ IF reply.granted
       THEN i' = i + 1 /\ UNCHANGED operations_successful
       ELSE operations_successful' = FALSE /\ UNCHANGED i
    /\ pc' = "adding"
    /\ reply' = NULL
    /\ UNCHANGED <<attempt, lists, collection_id, told, requests, server>>

Finish ==
    /\ pc = "adding" /\ ~MoviesLeft
    /\ told' = [told EXCEPT ![attempt] =
                   IF operations_successful THEN "SUCCESS" ELSE "ERROR"]
    /\ pc' = "idle"
    /\ UNCHANGED <<attempt, lists, i, collection_id, operations_successful,
                   requests, reply, server>>

\* The process is killed, and the client started again; a request it has sent
\* may still be handled.
Killed ==
    /\ pc # "idle"
    /\ pc' = "idle"
    /\ UNCHANGED <<attempt, lists, i, collection_id, operations_successful, told,
                   requests, reply, server>>

-----------------------------------------------------------------------------
(* The server and its other clients (external).  Collections are numbered  *)
(* from 1, and no number is given twice.                                   *)

There(id) == id \in DOMAIN collections /\ collections[id].there

Made(maker) ==
    collections' = Append(collections, [maker |-> maker, added |-> <<>>, there |-> TRUE])

\* The reply reaches the run that asked, if it is still waiting.
Answer(request, granted, id) ==
    /\ requests' = requests \ {request}
    /\ reply' = IF request.by = attempt /\ pc \in {"creating", "posting"}
                THEN [granted |-> granted, id |-> id] ELSE reply
    /\ UNCHANGED <<client, library>>

GrantCreation(request) ==
    /\ request.kind = "create"
    /\ Len(collections) < MaxCollections
    /\ Made(request.by)
    /\ \E id \in {Len(collections) + 1, NULL} : Answer(request, TRUE, id)

GrantMovie(request) ==
    /\ request.kind = "add"
    /\ There(request.to) /\ request.movie \in library
    /\ collections' = [collections EXCEPT
                          ![request.to].added = Append(@, request.movie)]
    /\ Answer(request, TRUE, NULL)

Refuse(request) == Answer(request, FALSE, NULL) /\ UNCHANGED collections

Serve == \E request \in requests :
            GrantCreation(request) \/ GrantMovie(request) \/ Refuse(request)

OthersDelete ==
    /\ \/ \E movie \in library : library' = library \ {movie} /\ UNCHANGED collections
       \/ \E id \in DOMAIN collections :
             /\ There(id)
             /\ collections' = [collections EXCEPT ![id].there = FALSE]
             /\ UNCHANGED library
    /\ UNCHANGED <<client, requests, reply>>

OthersCreate ==
    /\ Len(collections) < MaxCollections
    /\ Made(NULL)
    /\ UNCHANGED <<client, requests, reply, library>>

Step == TakeCreation \/ Post \/ TakePosted \/ Finish

Next == Begin \/ Step \/ Killed \/ Serve \/ OthersDelete \/ OthersCreate

\* The client goes on, and the server handles every request sooner or later.
Fairness == WF_vars(Step) /\ WF_vars(Serve)

Spec == Init /\ [][Next]_vars
FairSpec == Spec /\ Fairness

-----------------------------------------------------------------------------

\* What is in a collection is a beginning of the list of the run that made it,
\* whatever others delete meanwhile and wherever that run was killed; nothing
\* goes into the collections of others, not even when the reply names no id.
OnlyItsOwn ==
    \A id \in DOMAIN collections :
        LET c == collections[id] IN
        IF c.maker = NULL THEN c.added = <<>>
        ELSE IsPrefix(c.added, lists[c.maker])

MadeBy(a) == {id \in DOMAIN collections : collections[id].maker = a}

\* "SUCCESS" is printed for a collection that was made only when every movie of
\* the list was accepted for it.
SuccessMeansAll ==
    \A a \in Attempts : told[a] = "SUCCESS" =>
        \A id \in MadeBy(a) : collections[id].added = lists[a]

\* Every run of add_collection ends, if the server answers.
RunEnds == pc # "idle" ~> pc = "idle"

Promise == INSTANCE CollectionPromise WITH
    made <- [a \in Attempts |-> MadeBy(a) # {}],
    added <- [a \in Attempts |->
                 IF MadeBy(a) = {} THEN <<>>
                 ELSE collections[CHOOSE id \in MadeBy(a) : TRUE].added]

\* add_collection keeps what CollectionPromise says of it.
PromiseSpec == Promise!Spec
=============================================================================
