-------------------------- MODULE AddCollectionProofs --------------------------
(***************************************************************************)
(* Proofs about AddCollection, for every set of movies and every number of *)
(* movies, runs and collections.                                           *)
(*                                                                         *)
(* What is in a collection depends on a request that may reach the server  *)
(* long after the run that sent it was killed.  IInv therefore says of     *)
(* every request still under way what it may do, and of the run in         *)
(* progress how far its collection has come.                               *)
(***************************************************************************)
EXTENDS AddCollection, SequenceTheorems, TLAPS

Creation == [by : Attempts, kind : {"create"}]

Addition == [by : Attempts, kind : {"add"}, to : Nat, movie : Movies]

Reply == [granted : BOOLEAN, id : (1..MaxCollections) \cup {NULL}]

Collection == [maker : Attempts \cup {NULL}, added : Seq(Movies), there : BOOLEAN]

TypeOK ==
    /\ attempt \in 0..MaxAttempts
    /\ lists \in [Attempts -> Lists \cup {NULL}]
    /\ pc \in {"idle", "creating", "adding", "posting"}
    /\ i \in Nat
    /\ collection_id \in {-1} \cup Nat
    /\ operations_successful \in BOOLEAN
    /\ told \in [Attempts -> {"SUCCESS", "ERROR", NULL}]
    /\ requests \subseteq Creation \cup Addition
    /\ reply \in Reply \cup {NULL}
    /\ library \subseteq Movies
    /\ collections \in Seq(Collection)

\* The runs so far are those that have a list; the client is idle before the
\* first, and once it has told the outcome of the last.
Begun ==
    /\ \A a \in Attempts : lists[a] # NULL <=> a <= attempt
    /\ pc # "idle" => attempt > 0 /\ told[attempt] = NULL
    /\ \A a \in Attempts : told[a] # NULL => a <= attempt

\* A request, like a collection, is that of a run; a run has at most one request
\* under way, and at most one collection.
OfARun ==
    /\ \A r \in requests : lists[r.by] # NULL /\ told[r.by] = NULL
    /\ \A id \in DOMAIN collections :
         collections[id].maker # NULL => lists[collections[id].maker] # NULL
    /\ \A r, q \in requests : r.by = q.by => r = q
    /\ \A id, jd \in DOMAIN collections :
         /\ collections[id].maker = collections[jd].maker
         /\ collections[id].maker # NULL
         => id = jd

\* A creation under way has made nothing yet.
NotYetMade ==
    \A r \in requests : r \in Creation =>
        \A id \in DOMAIN collections : collections[id].maker # r.by

\* A movie under way is the next of its list, and goes to the collection of its
\* own run, or to number 0, which no collection has.
NextOfList ==
    \A r \in requests : r \in Addition /\ r.to # 0 =>
        /\ r.to \in DOMAIN collections
        /\ collections[r.to].maker = r.by
        /\ Len(collections[r.to].added) < Len(lists[r.by])
        /\ r.movie = lists[r.by][Len(collections[r.to].added) + 1]

\* What the run in progress has under way.
UnderWay ==
    /\ \A r \in requests : r.by = attempt /\ pc = "creating" => r \in Creation
    /\ \A r \in requests : r.by = attempt /\ pc = "posting" =>
         r \in Addition /\ r.to = collection_id
    /\ pc # "idle" /\ (pc = "adding" \/ reply # NULL) =>
         \A r \in requests : r.by # attempt
    /\ pc = "adding" => reply = NULL

\* The run in progress knows its collection, unless the reply named none.
KnownId ==
    /\ pc = "creating" /\ reply # NULL =>
         IF reply.granted
         THEN reply.id # NULL => /\ reply.id \in DOMAIN collections
                                 /\ collections[reply.id].maker = attempt
         ELSE \A id \in DOMAIN collections : collections[id].maker # attempt
    /\ pc \in {"adding", "posting"} =>
         /\ collection_id = -1 =>
              \A id \in DOMAIN collections : collections[id].maker # attempt
         /\ collection_id > 0 =>
              /\ collection_id \in DOMAIN collections
              /\ collections[collection_id].maker = attempt
    /\ pc = "creating" => collection_id = -1

\* The collection of the run in progress holds as many movies as the run counts,
\* one more when the reply that says so has not been read.
Counted ==
    /\ \A id \in DOMAIN collections :
         pc # "idle" /\ collections[id].maker = attempt =>
            Len(collections[id].added) =
                IF pc = "posting" /\ reply # NULL /\ reply.granted THEN i + 1 ELSE i
    /\ pc = "creating" => i = 0
    /\ pc = "posting" =>
         i < Len(list) /\ collection_id # -1

IInv ==
    /\ TypeOK
    /\ Begun
    /\ OfARun
    /\ NotYetMade
    /\ NextOfList
    /\ UnderWay
    /\ KnownId
    /\ Counted
    /\ OnlyItsOwn
    /\ SuccessMeansAll

-----------------------------------------------------------------------------
(* Lists and their beginnings.                                             *)

\* A list of movie ids is a sequence of movies, and not NULL.
LEMMA ListIsSeq ==
    ASSUME NEW l \in Lists
    PROVE  l \in Seq(Movies) /\ l # NULL
<1>1. l \in Seq(Movies)
  <2>1. PICK m \in 0..MaxMovies : l \in [1..m -> Movies]
    BY DEF Lists, BoundedSeq, SeqOf
  <2> QED
    BY <2>1, BoundsAssumption
<1> QED
  BY <1>1, NullAssumption DEF Lists

\* A beginning of a sequence agrees with it as far as it goes.
LEMMA PrefixIs ==
    ASSUME NEW S, NEW s \in Seq(S), NEW t \in Seq(S)
    PROVE  IsPrefix(s, t) <=> /\ Len(s) <= Len(t)
                              /\ \A k \in 1..Len(s) : s[k] = t[k]
<1>1. SubSeq(s, 1, Len(s)) = s
  BY SubSeqFull
<1>2. ASSUME Len(s) <= Len(t)
      PROVE  SubSeq(t, 1, Len(s)) = s <=> \A k \in 1..Len(s) : s[k] = t[k]
  BY <1>2
<1> QED
  BY <1>1, <1>2 DEF IsPrefix

\* The next element of the whole makes a longer beginning of it.
LEMMA PrefixGrows ==
    ASSUME NEW S, NEW s \in Seq(S), NEW t \in Seq(S),
           IsPrefix(s, t), Len(s) < Len(t)
    PROVE  IsPrefix(Append(s, t[Len(s) + 1]), t)
<1> DEFINE longer == Append(s, t[Len(s) + 1])
<1>1. t[Len(s) + 1] \in S
  BY ElementOfSeq
<1>2. longer \in Seq(S) /\ Len(longer) = Len(s) + 1
  BY <1>1
<1>3. \A k \in 1..Len(longer) : longer[k] = t[k]
  BY <1>1, <1>2, PrefixIs
<1>4. Len(longer) <= Len(t)
  BY <1>2
<1> QED
  BY <1>2, <1>3, <1>4, PrefixIs, Zenon

\* A beginning as long as the whole is the whole.
LEMMA PrefixWhole ==
    ASSUME NEW S, NEW s \in Seq(S), NEW t \in Seq(S),
           IsPrefix(s, t), Len(s) >= Len(t)
    PROVE  s = t
<1>1. Len(s) = Len(t) /\ \A k \in 1..Len(s) : s[k] = t[k]
  BY PrefixIs
<1> QED
  BY <1>1, SeqEqual

\* The empty sequence is a beginning of every other.
LEMMA PrefixEmpty ==
    ASSUME NEW S, NEW t \in Seq(S)
    PROVE  IsPrefix(<<>>, t)
<1>1. SubSeq(<<>>, 1, 0) = <<>> /\ SubSeq(t, 1, 0) = <<>>
  BY SubSeqEmpty
<1> QED
  BY <1>1 DEF IsPrefix

-----------------------------------------------------------------------------
(* The client's steps.                                                     *)

LEMMA InitIInv == Init => IInv
<1> SUFFICES ASSUME Init PROVE IInv
  OBVIOUS
<1>1. TypeOK
  BY BoundsAssumption DEF Init, TypeOK
<1>2. Begun
  BY NullAssumption, BoundsAssumption DEF Init, Begun, Attempts
<1>3. OfARun /\ NotYetMade /\ NextOfList
  BY DEF Init, OfARun, NotYetMade, NextOfList
<1>4. UnderWay /\ KnownId /\ Counted
  BY DEF Init, UnderWay, KnownId, Counted
<1>5. OnlyItsOwn /\ SuccessMeansAll
  BY NullAssumption DEF Init, OnlyItsOwn, SuccessMeansAll, MadeBy
<1> QED
  BY <1>1, <1>2, <1>3, <1>4, <1>5 DEF IInv

\* A new run: nothing under way or made is its own.
LEMMA BeginIInv == ASSUME IInv, Begin PROVE IInv'
<1> USE DEF Begin, server
<1>1. PICK l \in Lists : lists' = [lists EXCEPT ![attempt + 1] = l]
  OBVIOUS
<1>2. /\ attempt + 1 \in Attempts /\ lists[attempt + 1] = NULL /\ l # NULL
      /\ \A a \in Attempts : lists[a] # NULL => lists'[a] = lists[a]
      /\ lists'[attempt + 1] = l
  BY <1>1, ListIsSeq, BoundsAssumption DEF IInv, TypeOK, Begun, Attempts
<1> DEFINE new == [by |-> attempt + 1, kind |-> "create"]
<1>3. /\ new \in Creation /\ new \notin Addition
      /\ \A r \in requests : r.by # new.by
      /\ \A id \in DOMAIN collections : collections[id].maker # new.by
  BY <1>2, NullAssumption DEF IInv, OfARun, Creation, Addition, Attempts
<1>4. TypeOK'
  BY <1>1, <1>3, BoundsAssumption DEF IInv, TypeOK, Attempts
<1>5. Begun'
  <2>1. told'[attempt'] = NULL
    BY <1>2 DEF IInv, Begun, TypeOK, Attempts
  <2> QED
    BY <1>1, <1>2, <2>1 DEF IInv, Begun, TypeOK, Attempts
<1>6. OfARun'
  <2>1. \A r \in requests' : lists'[r.by] # NULL /\ told'[r.by] = NULL
    BY <1>2, <1>3, <1>5 DEF IInv, OfARun, TypeOK, Creation, Addition, Begun
  <2>2. \A r, q \in requests' : r.by = q.by => r = q
    BY <1>3 DEF IInv, OfARun
  <2>3. \A id \in DOMAIN collections :
          collections[id].maker # NULL => lists'[collections[id].maker] # NULL
    BY <1>2 DEF IInv, OfARun, TypeOK, Collection
  <2> QED
    BY <2>1, <2>2, <2>3 DEF IInv, OfARun
<1>7. NotYetMade'
  BY <1>3 DEF IInv, NotYetMade
<1>8. NextOfList'
  <2> SUFFICES ASSUME NEW r \in requests, r \in Addition, r.to # 0
               PROVE  lists'[r.by] = lists[r.by]
    BY <1>3 DEF IInv, NextOfList
  <2> QED
    BY <1>2 DEF IInv, OfARun, Addition
<1>9. (UnderWay /\ KnownId)'
  BY <1>3 DEF IInv, UnderWay, KnownId, TypeOK, Creation, Addition
<1>10. Counted'
  BY <1>3 DEF IInv, Counted
<1>11. OnlyItsOwn'
  BY <1>2 DEF IInv, OnlyItsOwn, OfARun, TypeOK, Collection
<1>12. SuccessMeansAll'
  <2> SUFFICES ASSUME NEW a \in Attempts, told[a] = "SUCCESS"
               PROVE  lists'[a] = lists[a]
    BY DEF IInv, SuccessMeansAll, MadeBy
  <2> QED
    BY <1>2, NullAssumption DEF IInv, Begun
<1> QED
  BY <1>4, <1>5, <1>6, <1>7, <1>8, <1>9, <1>10, <1>11, <1>12 DEF IInv

\* The reply to the creation names the collection, or none.
LEMMA TakeCreationIInv == ASSUME IInv, TakeCreation PROVE IInv'
<1> USE DEF TakeCreation, server
<1>1. /\ reply \in Reply
      /\ collection_id' = IF reply.granted THEN IdIn(reply) ELSE -1
  BY DEF IInv, TypeOK, KnownId
<1>2. /\ collection_id' \in {-1} \cup Nat
      /\ collection_id' = -1 <=> ~reply.granted
      /\ collection_id' > 0 => reply.granted /\ reply.id # NULL /\ collection_id' = reply.id
  BY <1>1, NullAssumption, BoundsAssumption DEF IdIn, Reply
<1>3. TypeOK'
  BY <1>2 DEF IInv, TypeOK
<1>4. (Begun /\ OfARun /\ NotYetMade /\ NextOfList)'
  BY DEF IInv, Begun, OfARun, NotYetMade, NextOfList
<1>5. UnderWay'
  BY DEF IInv, UnderWay
<1>6. KnownId'
  BY <1>1, <1>2 DEF IInv, KnownId
<1>7. Counted'
  BY DEF IInv, Counted
<1>8. (OnlyItsOwn /\ SuccessMeansAll)'
  BY DEF IInv, OnlyItsOwn, SuccessMeansAll, MadeBy
<1> QED
  BY <1>3, <1>4, <1>5, <1>6, <1>7, <1>8 DEF IInv

\* The next movie is sent to the collection of the run, which holds just those
\* before it.
LEMMA PostIInv == ASSUME IInv, Post PROVE IInv'
<1> USE DEF Post, server
<1> DEFINE new == [by |-> attempt, kind |-> "add", to |-> collection_id,
                   movie |-> list[i + 1]]
<1>1. /\ attempt \in Attempts /\ list \in Lists
      /\ list \in Seq(Movies) /\ i < Len(list) /\ i \in Nat
  <2>1. attempt \in Attempts /\ list \in Lists
    BY DEF IInv, TypeOK, Begun, Attempts, list
  <2> QED
    BY <2>1, ListIsSeq DEF MoviesLeft, IInv, TypeOK
<1>2. new \in Addition /\ new \notin Creation /\ collection_id \in Nat
  <2>1. list[i + 1] \in Movies
    BY <1>1, ElementOfSeq
  <2> QED
    BY <1>1, <2>1 DEF IInv, TypeOK, MoviesLeft, Addition, Creation
<1>3. \A r \in requests : r.by # attempt
  BY DEF IInv, UnderWay
<1>4. TypeOK'
  BY <1>2 DEF IInv, TypeOK
<1>5. Begun'
  BY DEF IInv, Begun
<1>6. OfARun'
  <2>1. lists[attempt] # NULL /\ told[attempt] = NULL
    BY <1>1, ListIsSeq DEF IInv, Begun, list
  <2> QED
    BY <1>3, <2>1 DEF IInv, OfARun
<1>7. NotYetMade'
  BY <1>2 DEF IInv, NotYetMade
<1>8. NextOfList'
  <2>1. ASSUME collection_id # 0
        PROVE  /\ collection_id \in DOMAIN collections
               /\ collections[collection_id].maker = attempt
    BY <1>2, <2>1 DEF IInv, KnownId
  <2>2. collection_id # 0 => Len(collections[collection_id].added) = i
    BY <2>1 DEF IInv, Counted
  <2>3. ASSUME NEW r \in requests', r \in Addition, r.to # 0
        PROVE  /\ r.to \in DOMAIN collections
               /\ collections[r.to].maker = r.by
               /\ Len(collections[r.to].added) < Len(lists[r.by])
               /\ r.movie = lists[r.by][Len(collections[r.to].added) + 1]
    <3>1. CASE r \in requests
      BY <2>3, <3>1 DEF IInv, NextOfList
    <3>2. CASE r = new
      BY <1>1, <2>1, <2>2, <2>3, <3>2 DEF list
    <3> QED
      BY <3>1, <3>2
  <2> QED
    BY <2>3 DEF NextOfList
<1>9. UnderWay'
  BY <1>2, <1>3 DEF IInv, UnderWay
<1>10. KnownId'
  BY DEF IInv, KnownId
<1>11. Counted'
  BY <1>1, <1>2 DEF IInv, Counted, UnderWay, list, TypeOK
<1>12. (OnlyItsOwn /\ SuccessMeansAll)'
  BY DEF IInv, OnlyItsOwn, SuccessMeansAll, MadeBy
<1> QED
  BY <1>4, <1>5, <1>6, <1>7, <1>8, <1>9, <1>10, <1>11, <1>12 DEF IInv

\* A refusal ends the run's requests; a grant is counted.
LEMMA TakePostedIInv == ASSUME IInv, TakePosted PROVE IInv'
<1> USE DEF TakePosted, server
<1>1. /\ i' \in Nat
      /\ operations_successful' \in BOOLEAN
      /\ i' = IF reply.granted THEN i + 1 ELSE i
  <2>1. CASE reply.granted
    BY <2>1 DEF IInv, TypeOK
  <2>2. CASE ~reply.granted
    BY <2>2 DEF IInv, TypeOK
  <2> QED
    BY <2>1, <2>2
<1>2. TypeOK'
  BY <1>1 DEF IInv, TypeOK
<1>3. (Begun /\ OfARun /\ NotYetMade /\ NextOfList)'
  BY DEF IInv, Begun, OfARun, NotYetMade, NextOfList
<1>4. (UnderWay /\ KnownId)'
  BY DEF IInv, UnderWay, KnownId
<1>5. Counted'
  BY <1>1 DEF IInv, Counted
<1>6. (OnlyItsOwn /\ SuccessMeansAll)'
  BY DEF IInv, OnlyItsOwn, SuccessMeansAll, MadeBy
<1> QED
  BY <1>2, <1>3, <1>4, <1>5, <1>6 DEF IInv

\* What the run in progress made holds a beginning of its list.
LEMMA OwnPrefix ==
    ASSUME IInv, NEW id \in DOMAIN collections, collections[id].maker # NULL
    PROVE  /\ collections[id].maker \in Attempts
           /\ collections[id].added \in Seq(Movies)
           /\ lists[collections[id].maker] \in Seq(Movies)
           /\ IsPrefix(collections[id].added, lists[collections[id].maker])
<1>1. collections[id] \in Collection
  BY ElementOfSeq DEF IInv, TypeOK
<1>2. collections[id].maker \in Attempts /\ collections[id].added \in Seq(Movies)
  BY <1>1 DEF Collection
<1>3. lists[collections[id].maker] \in Lists
  BY <1>2 DEF IInv, TypeOK, OfARun
<1> QED
  BY <1>2, <1>3, ListIsSeq DEF IInv, OnlyItsOwn

\* When success is told of a collection that was made, every movie is in it, and
\* no request is left to change it.
LEMMA FinishIInv == ASSUME IInv, Finish PROVE IInv'
<1> USE DEF Finish, server
<1>1. /\ attempt \in Attempts /\ told[attempt] = NULL
      /\ \A r \in requests : r.by # attempt
  BY DEF IInv, Begun, UnderWay, TypeOK, Attempts
<1>2. TypeOK'
  BY <1>1 DEF IInv, TypeOK
<1>3. Begun'
  BY <1>1, NullAssumption DEF IInv, Begun, TypeOK, Attempts
<1>4. OfARun'
  <2>1. \A r \in requests : told'[r.by] = told[r.by]
    BY <1>1 DEF IInv, TypeOK, Creation, Addition
  <2> QED
    BY <2>1 DEF IInv, OfARun
<1>5. (NotYetMade /\ NextOfList /\ UnderWay /\ KnownId /\ Counted /\ OnlyItsOwn)'
  BY DEF IInv, NotYetMade, NextOfList, UnderWay, KnownId, Counted, OnlyItsOwn, TypeOK
<1>6. ASSUME operations_successful,
             NEW id \in DOMAIN collections, collections[id].maker = attempt
      PROVE  collections[id].added = lists[attempt]
  <2>1. /\ collections[id].added \in Seq(Movies)
        /\ lists[attempt] \in Seq(Movies)
        /\ IsPrefix(collections[id].added, lists[attempt])
    BY <1>1, <1>6, NullAssumption, OwnPrefix DEF Attempts
  <2>2. collection_id # -1 /\ Len(collections[id].added) = i
    BY <1>6 DEF IInv, KnownId, Counted
  <2>3. i >= Len(lists[attempt])
    BY <1>6, <2>1, <2>2 DEF MoviesLeft, list, IInv, TypeOK
  <2> QED
    BY <2>1, <2>2, <2>3, PrefixWhole
<1>7. SuccessMeansAll'
  BY <1>1, <1>6, NullAssumption DEF IInv, SuccessMeansAll, MadeBy, TypeOK
<1> QED
  BY <1>2, <1>3, <1>4, <1>5, <1>7 DEF IInv

\* A run that is killed leaves everything as it is, its request under way too.
LEMMA KilledIInv == ASSUME IInv, Killed PROVE IInv'
<1> USE DEF Killed, server
<1>1. TypeOK'
  BY DEF IInv, TypeOK
<1>2. (Begun /\ OfARun /\ NotYetMade /\ NextOfList)'
  BY DEF IInv, Begun, OfARun, NotYetMade, NextOfList
<1>3. (UnderWay /\ KnownId /\ Counted)'
  BY DEF IInv, UnderWay, KnownId, Counted
<1>4. (OnlyItsOwn /\ SuccessMeansAll)'
  BY DEF IInv, OnlyItsOwn, SuccessMeansAll, MadeBy
<1> QED
  BY <1>1, <1>2, <1>3, <1>4 DEF IInv

-----------------------------------------------------------------------------
(* The server's steps.                                                     *)

\* The request a run waits for.
Awaited(r) == r.by = attempt /\ pc \in {"creating", "posting"}

\* An answer takes the request away; the run that waits for it has no other.
LEMMA AnswerEffect ==
    ASSUME IInv, NEW r \in requests, NEW granted \in BOOLEAN,
           NEW id \in (1..MaxCollections) \cup {NULL},
           Answer(r, granted, id)
    PROVE  /\ requests' = requests \ {r}
           /\ reply' \in Reply \cup {NULL}
           /\ Awaited(r) =>
                /\ reply' = [granted |-> granted, id |-> id]
                /\ reply' # NULL
                /\ \A q \in requests' : q.by # attempt
           /\ ~Awaited(r) => reply' = reply
           /\ UNCHANGED <<client, library>>
<1> DEFINE answered == [granted |-> granted, id |-> id]
<1>1. answered \in Reply
  BY DEF Reply
<1>2. answered # NULL
  BY <1>1, NullAssumption DEF Reply
<1>3. Awaited(r) => \A q \in requests \ {r} : q.by # attempt
  BY DEF Awaited, IInv, OfARun
<1> QED
  BY <1>1, <1>2, <1>3 DEF Answer, Awaited, IInv, TypeOK

\* What an answer leaves true whatever the server did.
LEMMA AnswerKeeps ==
    ASSUME IInv, NEW r \in requests, NEW granted \in BOOLEAN,
           NEW id \in (1..MaxCollections) \cup {NULL},
           Answer(r, granted, id)
    PROVE  /\ Begun'
           /\ UnderWay'
           /\ collections' \in Seq(Collection) => TypeOK'
<1> USE DEF client
<1>1. /\ requests' = requests \ {r}
      /\ Awaited(r) => \A q \in requests' : q.by # attempt
      /\ ~Awaited(r) => reply' = reply
      /\ reply' \in Reply \cup {NULL}
      /\ UNCHANGED <<client, library>>
  BY AnswerEffect
<1>2. Begun'
  BY <1>1 DEF IInv, Begun
<1>3. UnderWay'
  BY <1>1 DEF IInv, UnderWay, Awaited
<1>4. collections' \in Seq(Collection) => TypeOK'
  BY <1>1 DEF IInv, TypeOK
<1> QED
  BY <1>2, <1>3, <1>4

\* A refused request leaves the collections alone and is told to the run that waits
\* for it.
LEMMA RefuseIInv ==
    ASSUME IInv, NEW r \in requests, Refuse(r)
    PROVE  IInv'
<1> USE DEF client, Refuse
<1>1. /\ requests' = requests \ {r}
      /\ Awaited(r) => reply' = [granted |-> FALSE, id |-> NULL]
      /\ ~Awaited(r) => reply' = reply
      /\ UNCHANGED <<client, library, collections>>
  BY AnswerEffect
<1>2. (Begun /\ UnderWay /\ TypeOK)'
  BY <1>1, AnswerKeeps DEF IInv, TypeOK
<1>3. (OfARun /\ NotYetMade /\ NextOfList)'
  BY <1>1 DEF IInv, OfARun, NotYetMade, NextOfList
<1>4. KnownId'
  <2>1. CASE Awaited(r) /\ pc = "creating"
    <3>1. \A id \in DOMAIN collections : collections[id].maker # attempt
      BY <2>1 DEF Awaited, IInv, UnderWay, NotYetMade
    <3> QED
      BY <1>1, <2>1, <3>1 DEF IInv, KnownId
  <2>2. CASE ~(Awaited(r) /\ pc = "creating")
    BY <1>1, <2>2 DEF IInv, KnownId, Awaited
  <2> QED
    BY <2>1, <2>2
<1>5. Counted'
  <2>1. CASE Awaited(r) /\ pc = "posting"
    <3>1. ~reply'.granted /\ reply = NULL
      BY <1>1, <2>1 DEF Awaited, IInv, UnderWay
    <3> QED
      BY <1>1, <3>1 DEF IInv, Counted, list
  <2>2. CASE ~(Awaited(r) /\ pc = "posting")
    BY <1>1, <2>2 DEF IInv, Counted, Awaited, list
  <2> QED
    BY <2>1, <2>2
<1>6. (OnlyItsOwn /\ SuccessMeansAll)'
  BY <1>1 DEF IInv, OnlyItsOwn, SuccessMeansAll, MadeBy
<1> QED
  BY <1>2, <1>3, <1>4, <1>5, <1>6 DEF IInv

\* A new collection is empty, and the others stay as they are.
LEMMA MadeEffect ==
    ASSUME IInv, NEW maker \in Attempts \cup {NULL}, Made(maker)
    PROVE  LET new == Len(collections) + 1 IN
           /\ collections' \in Seq(Collection)
           /\ new \in Nat \ {0}
           /\ new \notin DOMAIN collections
           /\ DOMAIN collections' = DOMAIN collections \cup {new}
           /\ \A id \in DOMAIN collections : collections'[id] = collections[id]
           /\ collections'[new] = [maker |-> maker, added |-> <<>>, there |-> TRUE]
<1> DEFINE fresh == [maker |-> maker, added |-> <<>>, there |-> TRUE]
<1>1. collections \in Seq(Collection) /\ fresh \in Collection
  BY DEF IInv, TypeOK, Collection
<1>2. collections' = Append(collections, fresh)
  BY DEF Made
<1> HIDE DEF fresh
<1>3. /\ collections' \in Seq(Collection)
      /\ Len(collections') = Len(collections) + 1
      /\ \A id \in 1..Len(collections) : collections'[id] = collections[id]
      /\ collections'[Len(collections) + 1] = fresh
  BY <1>1, <1>2, AppendProperties
<1>4. Len(collections) \in Nat /\ DOMAIN collections = 1..Len(collections)
      /\ DOMAIN collections' = 1..Len(collections')
  BY <1>1, <1>3, LenProperties
<1> QED
  BY <1>3, <1>4 DEF fresh

\* The collection made is the run's first.  Nobody adds to it yet, and the run
\* that waits for it has added nothing.
LEMMA GrantCreationIInv ==
    ASSUME IInv, NEW r \in requests, GrantCreation(r)
    PROVE  IInv'
<1> USE DEF client
<1> DEFINE new == Len(collections) + 1
<1>1. r \in Creation /\ r \notin Addition /\ r.by \in Attempts /\ r.by # NULL
  BY NullAssumption DEF GrantCreation, IInv, TypeOK, Creation, Addition, Attempts
<1>2. /\ collections' \in Seq(Collection)
      /\ new \in Nat \ {0}
      /\ new \notin DOMAIN collections
      /\ DOMAIN collections' = DOMAIN collections \cup {new}
      /\ \A id \in DOMAIN collections : collections'[id] = collections[id]
      /\ collections'[new] = [maker |-> r.by, added |-> <<>>, there |-> TRUE]
  BY <1>1, MadeEffect DEF GrantCreation
<1> HIDE DEF new
<1>3. PICK id \in {new, NULL} : Answer(r, TRUE, id)
  BY DEF GrantCreation, new
<1>4. id \in (1..MaxCollections) \cup {NULL}
  BY <1>2, <1>3, BoundsAssumption DEF GrantCreation, IInv, TypeOK, new
<1>5. /\ requests' = requests \ {r}
      /\ Awaited(r) => reply' = [granted |-> TRUE, id |-> id]
      /\ ~Awaited(r) => reply' = reply
      /\ UNCHANGED <<client, library>>
  BY <1>3, <1>4, AnswerEffect
<1>6. (Begun /\ UnderWay /\ TypeOK)'
  BY <1>2, <1>3, <1>4, AnswerKeeps
<1>7. /\ \A jd \in DOMAIN collections : collections[jd].maker # r.by
      /\ lists[r.by] # NULL /\ told[r.by] = NULL
      /\ \A q \in requests' : q.by # r.by
  BY <1>1, <1>5 DEF IInv, NotYetMade, OfARun
<1>8. OfARun'
  BY <1>2, <1>5, <1>7 DEF IInv, OfARun
<1>9. (NotYetMade /\ NextOfList)'
  BY <1>2, <1>5, <1>7 DEF IInv, NotYetMade, NextOfList
<1>10. ASSUME r.by = attempt, pc # "idle"
       PROVE  Awaited(r) /\ pc = "creating" /\ i = 0
  BY <1>1, <1>10 DEF Awaited, IInv, UnderWay, TypeOK, Counted
<1>11. KnownId'
  <2>1. CASE r.by = attempt /\ pc # "idle"
    BY <1>2, <1>3, <1>5, <1>10, <2>1 DEF IInv, KnownId
  <2>2. CASE ~(r.by = attempt /\ pc # "idle")
    BY <1>2, <1>5, <2>2 DEF IInv, KnownId, Awaited
  <2> QED
    BY <2>1, <2>2
<1>12. Counted'
  <2>1. CASE r.by = attempt /\ pc # "idle"
    BY <1>2, <1>5, <1>7, <1>10, <2>1 DEF IInv, Counted, list
  <2>2. CASE ~(r.by = attempt /\ pc # "idle")
    BY <1>2, <1>5, <2>2 DEF IInv, Counted, Awaited, list
  <2> QED
    BY <2>1, <2>2
<1>13. OnlyItsOwn'
  <2>1. lists[r.by] \in Seq(Movies)
    BY <1>1, <1>7, ListIsSeq DEF IInv, TypeOK
  <2>2. IsPrefix(<<>>, lists[r.by])
    BY <2>1, PrefixEmpty
  <2> QED
    BY <1>1, <1>2, <1>5, <2>2 DEF IInv, OnlyItsOwn
<1>14. SuccessMeansAll'
  BY <1>1, <1>2, <1>5, <1>7, NullAssumption DEF IInv, SuccessMeansAll, MadeBy
<1> QED
  BY <1>6, <1>8, <1>9, <1>11, <1>12, <1>13, <1>14 DEF IInv

\* A movie that is accepted is the next of the list of the run that sent it.
LEMMA GrantMovieEffect ==
    ASSUME IInv, NEW r \in requests, GrantMovie(r)
    PROVE  LET held == collections[r.to].added IN
           /\ r \in Addition /\ r.to \in DOMAIN collections /\ r.to # 0
           /\ held \in Seq(Movies) /\ lists[r.by] \in Seq(Movies)
           /\ collections[r.to].maker = r.by /\ r.by # NULL
           /\ Len(held) < Len(lists[r.by])
           /\ r.movie = lists[r.by][Len(held) + 1]
           /\ IsPrefix(held, lists[r.by])
           /\ collections' \in Seq(Collection)
           /\ DOMAIN collections' = DOMAIN collections
           /\ \A id \in DOMAIN collections :
                /\ collections'[id].maker = collections[id].maker
                /\ collections'[id].added =
                       IF id = r.to THEN Append(held, r.movie) ELSE collections[id].added
<1>1. /\ r \in Addition /\ r.by \in Attempts /\ r.movie \in Movies /\ r.by # NULL
      /\ r.to \in DOMAIN collections
  BY NullAssumption
     DEF GrantMovie, There, IInv, TypeOK, Creation, Addition, Attempts
<1>2. collections \in Seq(Collection) /\ DOMAIN collections = 1..Len(collections)
      /\ Len(collections) \in Nat
  BY DEF IInv, TypeOK
<1>3. /\ r.to # 0 /\ collections[r.to].maker = r.by
      /\ Len(collections[r.to].added) < Len(lists[r.by])
      /\ r.movie = lists[r.by][Len(collections[r.to].added) + 1]
  BY <1>1, <1>2 DEF IInv, NextOfList
<1>4. /\ collections[r.to].added \in Seq(Movies)
      /\ lists[r.by] \in Seq(Movies)
      /\ IsPrefix(collections[r.to].added, lists[r.by])
  BY <1>1, <1>3, OwnPrefix
<1> DEFINE held == collections[r.to].added
           fuller == [collections[r.to] EXCEPT !.added = Append(held, r.movie)]
<1>5. collections[r.to] \in Collection
  BY <1>1, <1>2
<1>6. /\ fuller \in Collection
      /\ fuller.maker = collections[r.to].maker /\ fuller.added = Append(held, r.movie)
  <2>1. Append(held, r.movie) \in Seq(Movies)
    BY <1>1, <1>4, AppendProperties
  <2> HIDE DEF held
  <2> QED
    BY <1>5, <2>1 DEF Collection
<1>7. collections' = [collections EXCEPT ![r.to] = fuller]
  BY DEF GrantMovie
<1> HIDE DEF fuller
<1>8. /\ collections' \in Seq(Collection)
      /\ DOMAIN collections' = DOMAIN collections
      /\ \A id \in DOMAIN collections :
           collections'[id] = IF id = r.to THEN fuller ELSE collections[id]
  BY <1>1, <1>2, <1>6, <1>7, ExceptSeq
<1> QED
  BY <1>1, <1>3, <1>4, <1>6, <1>8

\* It is the only collection of its run, which has been told nothing yet.
LEMMA GrantMovieIInv ==
    ASSUME IInv, NEW r \in requests, GrantMovie(r)
    PROVE  IInv'
<1> USE DEF client
<1> DEFINE held == collections[r.to].added
<1>1. /\ r \in Addition /\ r.to \in DOMAIN collections /\ r.to # 0
      /\ held \in Seq(Movies) /\ lists[r.by] \in Seq(Movies)
      /\ collections[r.to].maker = r.by /\ r.by # NULL
      /\ Len(held) < Len(lists[r.by])
      /\ r.movie = lists[r.by][Len(held) + 1]
      /\ IsPrefix(held, lists[r.by])
  BY GrantMovieEffect
<1>2. /\ collections' \in Seq(Collection)
      /\ DOMAIN collections' = DOMAIN collections
      /\ \A id \in DOMAIN collections :
           /\ collections'[id].maker = collections[id].maker
           /\ collections'[id].added =
                  IF id = r.to THEN Append(held, r.movie) ELSE collections[id].added
  BY GrantMovieEffect
<1>3. Answer(r, TRUE, NULL)
  BY DEF GrantMovie
<1>4. /\ requests' = requests \ {r}
      /\ Awaited(r) => reply' = [granted |-> TRUE, id |-> NULL] /\ reply' # NULL
      /\ ~Awaited(r) => reply' = reply
      /\ UNCHANGED <<client, library>>
  BY <1>3, AnswerEffect
<1>5. (Begun /\ UnderWay /\ TypeOK)'
  BY <1>2, <1>3, AnswerKeeps
<1>6. /\ lists[r.by] # NULL /\ told[r.by] = NULL
      /\ \A q \in requests' : q.by # r.by
      /\ \A id \in DOMAIN collections : collections[id].maker = r.by => id = r.to
  BY <1>1, <1>4 DEF IInv, OfARun
<1>7. /\ r.movie \in Movies
      /\ Append(held, r.movie) \in Seq(Movies)
      /\ Len(Append(held, r.movie)) = Len(held) + 1
  BY <1>1, AppendProperties DEF Addition
<1> HIDE DEF held
<1>8. OfARun'
  BY <1>2, <1>4 DEF IInv, OfARun
<1>9. (NotYetMade /\ NextOfList)'
  <2>1. NotYetMade'
    BY <1>2, <1>4 DEF IInv, NotYetMade
  <2>2. ASSUME NEW q \in requests', q \in Addition, q.to # 0
        PROVE  q.to \in DOMAIN collections /\ q.to # r.to
    BY <1>1, <1>4, <1>6, <2>2 DEF IInv, NextOfList
  <2>3. NextOfList'
    BY <1>2, <1>4, <2>2 DEF IInv, NextOfList
  <2> QED
    BY <2>1, <2>3
<1>10. KnownId'
  <2>1. Awaited(r) => pc = "posting"
    BY <1>1 DEF Awaited, IInv, UnderWay, Creation, Addition
  <2> QED
    BY <1>2, <1>4, <2>1 DEF IInv, KnownId
<1>11. Counted'
  <2>1. CASE r.by = attempt /\ pc # "idle"
    <3>1. pc = "posting" /\ reply = NULL /\ Awaited(r)
      BY <1>1, <2>1 DEF Awaited, IInv, UnderWay, TypeOK, Creation, Addition
    <3>2. Len(held) = i
      BY <1>1, <2>1, <3>1 DEF IInv, Counted, held
    <3>3. reply' # NULL /\ reply'.granted /\ pc' = "posting" /\ attempt' = attempt
          /\ i' = i /\ collection_id' = collection_id /\ list' = list
      BY <1>4, <3>1 DEF list
    <3>4. ASSUME NEW id \in DOMAIN collections', collections'[id].maker = attempt
          PROVE  Len(collections'[id].added) = i + 1
      BY <1>2, <1>6, <1>7, <2>1, <3>2, <3>4
    <3> QED
      BY <3>1, <3>3, <3>4 DEF IInv, Counted
  <2>2. CASE ~(r.by = attempt /\ pc # "idle")
    BY <1>1, <1>2, <1>4, <2>2 DEF IInv, Counted, Awaited, list
  <2> QED
    BY <2>1, <2>2
<1>12. OnlyItsOwn'
  <2>1. IsPrefix(Append(held, r.movie), lists[r.by])
    BY <1>1, PrefixGrows DEF held
  <2> QED
    BY <1>1, <1>2, <1>4, <2>1 DEF IInv, OnlyItsOwn
<1>13. SuccessMeansAll'
  BY <1>1, <1>2, <1>4, <1>6, NullAssumption DEF IInv, SuccessMeansAll, MadeBy
<1> QED
  BY <1>5, <1>8, <1>9, <1>10, <1>11, <1>12, <1>13 DEF IInv

\* What others delete changes no maker and takes nothing out of what went in.
LEMMA OthersDeleteEffect ==
    ASSUME IInv, OthersDelete
    PROVE  /\ library' \subseteq Movies
           /\ collections' \in Seq(Collection)
           /\ DOMAIN collections' = DOMAIN collections
           /\ \A id \in DOMAIN collections :
                /\ collections'[id].maker = collections[id].maker
                /\ collections'[id].added = collections[id].added
<1>1. collections \in Seq(Collection) /\ library \subseteq Movies
  BY DEF IInv, TypeOK
<1>2. CASE UNCHANGED collections
  BY <1>1, <1>2 DEF OthersDelete
<1>3. CASE UNCHANGED library /\ ~UNCHANGED collections
  <2>1. PICK id \in DOMAIN collections :
            collections' = [collections EXCEPT ![id].there = FALSE]
    BY <1>3 DEF OthersDelete
  <2> DEFINE gone == [collections[id] EXCEPT !.there = FALSE]
  <2>2. collections[id] \in Collection
    BY <1>1
  <2>3. gone \in Collection /\ gone.maker = collections[id].maker
        /\ gone.added = collections[id].added
    BY <2>2 DEF Collection
  <2>4. collections' = [collections EXCEPT ![id] = gone]
    BY <2>1
  <2> HIDE DEF gone
  <2>5. /\ collections' \in Seq(Collection)
        /\ DOMAIN collections' = DOMAIN collections
        /\ \A jd \in DOMAIN collections :
             collections'[jd] = IF jd = id THEN gone ELSE collections[jd]
    BY <1>1, <2>3, <2>4, ExceptSeq
  <2> QED
    BY <1>1, <1>3, <2>3, <2>5
<1> QED
  BY <1>2, <1>3 DEF OthersDelete

\* What other clients delete leaves of each collection a part of it.
LEMMA OthersDeleteIInv == ASSUME IInv, OthersDelete PROVE IInv'
<1> USE DEF client
<1>1. /\ library' \subseteq Movies
      /\ collections' \in Seq(Collection)
      /\ DOMAIN collections' = DOMAIN collections
      /\ \A id \in DOMAIN collections :
           /\ collections'[id].maker = collections[id].maker
           /\ collections'[id].added = collections[id].added
  BY OthersDeleteEffect
<1>2. UNCHANGED <<client, requests, reply>>
  BY DEF OthersDelete
<1>3. (TypeOK /\ Begun /\ UnderWay)'
  BY <1>1, <1>2 DEF IInv, TypeOK, Begun, UnderWay
<1>4. (OfARun /\ NotYetMade /\ NextOfList)'
  <2>1. OfARun'
    BY <1>1, <1>2 DEF IInv, OfARun
  <2>2. NotYetMade'
    BY <1>1, <1>2 DEF IInv, NotYetMade
  <2>3. NextOfList'
    BY <1>1, <1>2 DEF IInv, NextOfList
  <2> QED
    BY <2>1, <2>2, <2>3
<1>5. (KnownId /\ Counted)'
  BY <1>1, <1>2 DEF IInv, KnownId, Counted, list
<1>6. (OnlyItsOwn /\ SuccessMeansAll)'
  BY <1>1, <1>2 DEF IInv, OnlyItsOwn, SuccessMeansAll, MadeBy
<1> QED
  BY <1>3, <1>4, <1>5, <1>6 DEF IInv

\* A collection of others is of no run.
LEMMA OthersCreateIInv == ASSUME IInv, OthersCreate PROVE IInv'
<1> USE DEF client
<1> DEFINE new == Len(collections) + 1
<1>1. /\ collections' \in Seq(Collection)
      /\ new \notin DOMAIN collections
      /\ DOMAIN collections' = DOMAIN collections \cup {new}
      /\ \A id \in DOMAIN collections : collections'[id] = collections[id]
      /\ collections'[new] = [maker |-> NULL, added |-> <<>>, there |-> TRUE]
      /\ UNCHANGED <<client, requests, reply, library>>
  BY MadeEffect DEF OthersCreate
<1> HIDE DEF new
<1>2. (TypeOK /\ Begun /\ OfARun /\ UnderWay)'
  BY <1>1 DEF IInv, TypeOK, Begun, OfARun, UnderWay
<1>3. (NotYetMade /\ NextOfList)'
  BY <1>1, NullAssumption
     DEF IInv, NotYetMade, NextOfList, Creation, Addition, Attempts
<1>4. attempt # NULL
  BY NullAssumption DEF IInv, TypeOK
<1>5. (KnownId /\ Counted)'
  BY <1>1, <1>4 DEF IInv, KnownId, Counted, list
<1>6. (OnlyItsOwn /\ SuccessMeansAll)'
  BY <1>1, NullAssumption DEF IInv, OnlyItsOwn, SuccessMeansAll, MadeBy, Attempts
<1> QED
  BY <1>2, <1>3, <1>5, <1>6 DEF IInv

-----------------------------------------------------------------------------

\* Every step of runs, server and other clients keeps the inductive invariant.
LEMMA NextIInv == IInv /\ [Next]_vars => IInv'
<1> SUFFICES ASSUME IInv, [Next]_vars PROVE IInv'
  OBVIOUS
<1>1. CASE Begin
  BY <1>1, BeginIInv
<1>2. CASE Step
  BY <1>2, TakeCreationIInv, PostIInv, TakePostedIInv, FinishIInv DEF Step
<1>3. CASE Killed
  BY <1>3, KilledIInv
<1>4. CASE Serve
  BY <1>4, GrantCreationIInv, GrantMovieIInv, RefuseIInv DEF Serve
<1>5. CASE OthersDelete \/ OthersCreate
  BY <1>5, OthersDeleteIInv, OthersCreateIInv
<1>6. CASE UNCHANGED vars
  <2> USE <1>6 DEF vars, client, server
  <2>1. (TypeOK /\ Begun /\ OfARun /\ NotYetMade /\ NextOfList)'
    BY DEF IInv, TypeOK, Begun, OfARun, NotYetMade, NextOfList
  <2>2. (UnderWay /\ KnownId /\ Counted)'
    BY DEF IInv, UnderWay, KnownId, Counted, list
  <2>3. (OnlyItsOwn /\ SuccessMeansAll)'
    BY DEF IInv, OnlyItsOwn, SuccessMeansAll, MadeBy
  <2> QED
    BY <2>1, <2>2, <2>3 DEF IInv
<1> QED
  BY <1>1, <1>2, <1>3, <1>4, <1>5, <1>6 DEF Next

\* The inductive invariant holds in every run of every number of lists, movies
\* and collections.
THEOREM Invariance == Spec => []IInv
<1>1. Init => IInv
  BY InitIInv
<1>2. IInv /\ [Next]_vars => IInv'
  BY NextIInv
<1> QED
  BY <1>1, <1>2, PTL DEF Spec

\* Whatever others delete and wherever a run is killed, a collection holds a
\* beginning of the list of the run that made it, and those of others nothing.
THEOREM OwnMoviesOnly == Spec => []OnlyItsOwn
<1>1. IInv => OnlyItsOwn
  BY DEF IInv
<1> QED
  BY <1>1, Invariance, PTL

\* "SUCCESS" of a collection that was made means every movie of the list, for
\* good: no late request changes it.
THEOREM SuccessIsComplete == Spec => []SuccessMeansAll
<1>1. IInv => SuccessMeansAll
  BY DEF IInv
<1> QED
  BY <1>1, Invariance, PTL

-----------------------------------------------------------------------------
(* The steps of add_collection are steps of its promise.                   *)

\* What the promise sees of the collections.
PromisedMade == [a \in Attempts |-> MadeBy(a) # {}]

PromisedAdded == [a \in Attempts |->
    IF MadeBy(a) = {} THEN <<>>
    ELSE collections[CHOOSE id \in MadeBy(a) : TRUE].added]

\* A run that has a collection has added what is in it.
LEMMA TheOneMade ==
    ASSUME IInv, NEW a \in Attempts, NEW id \in DOMAIN collections,
           collections[id].maker = a
    PROVE  PromisedMade[a] /\ PromisedAdded[a] = collections[id].added
<1>1. MadeBy(a) = {id}
  BY NullAssumption DEF MadeBy, IInv, OfARun, Attempts
<1> QED
  BY <1>1 DEF PromisedMade, PromisedAdded

\* A run that has none has added nothing.
LEMMA NoneMade ==
    ASSUME NEW a \in Attempts,
           \A id \in DOMAIN collections : collections[id].maker # a
    PROVE  ~PromisedMade[a] /\ PromisedAdded[a] = <<>>
<1>1. MadeBy(a) = {}
  BY DEF MadeBy
<1> QED
  BY <1>1 DEF PromisedMade, PromisedAdded

\* The promise sees nothing of a step that makes no collection of a run's own
\* and adds nothing to one.
LEMMA RunsUntouched ==
    ASSUME IInv, IInv', NEW a \in Attempts,
           \A id \in DOMAIN collections : collections[id].maker = a =>
               /\ id \in DOMAIN collections'
               /\ collections'[id].maker = a
               /\ collections'[id].added = collections[id].added,
           \A id \in DOMAIN collections' \ DOMAIN collections :
               collections'[id].maker # a,
           \A id \in DOMAIN collections \cap DOMAIN collections' :
               collections'[id].maker = collections[id].maker
    PROVE  PromisedMade'[a] = PromisedMade[a] /\ PromisedAdded'[a] = PromisedAdded[a]
<1>1. MadeBy(a)' = MadeBy(a)
  BY DEF MadeBy
<1>2. CASE MadeBy(a) = {}
  BY <1>1, <1>2 DEF PromisedMade, PromisedAdded
<1>3. ASSUME NEW id \in MadeBy(a)
      PROVE  PromisedAdded'[a] = PromisedAdded[a]
  <2>1. id \in DOMAIN collections /\ collections[id].maker = a
    BY DEF MadeBy
  <2>2. MadeBy(a) = {id}
    BY <2>1, NullAssumption DEF MadeBy, IInv, OfARun, Attempts
  <2> QED
    BY <1>1, <2>1, <2>2 DEF PromisedAdded
<1> QED
  BY <1>1, <1>2, <1>3 DEF PromisedMade

\* At the start no run has promised anything.
LEMMA InitPromise == Init => Promise!Init
<1> SUFFICES ASSUME Init PROVE Promise!Init
  OBVIOUS
<1>1. \A a \in Attempts : MadeBy(a) = {}
  BY DEF Init, MadeBy
<1> QED
  BY <1>1 DEF Promise!Init, Init

\* A run that begins has been asked.
LEMMA BeginAsks == ASSUME IInv, Begin PROVE Promise!Next
<1>1. attempt + 1 \in Attempts /\ lists[attempt + 1] = NULL
  BY BoundsAssumption DEF Begin, IInv, TypeOK, Begun, Attempts
<1>2. UNCHANGED <<PromisedMade, PromisedAdded, told>>
  BY DEF Begin, server, PromisedMade, PromisedAdded, MadeBy
<1>3. \E l \in Lists : lists' = [lists EXCEPT ![attempt + 1] = l]
  BY DEF Begin
<1>4. Promise!Ask(attempt + 1)
  BY <1>1, <1>2, <1>3 DEF Promise!Ask, PromisedMade, PromisedAdded
<1> QED
  BY <1>1, <1>4 DEF Promise!Next

\* A run that finishes tells, and tells of success only what OwnPrefix and
\* SuccessMeansAll allow.
LEMMA FinishTells == ASSUME IInv, Finish PROVE Promise!Next
<1> DEFINE verdict == IF operations_successful THEN "SUCCESS" ELSE "ERROR"
<1>1. /\ attempt \in Attempts
      /\ lists[attempt] # NULL /\ told[attempt] = NULL
      /\ told' = [told EXCEPT ![attempt] = verdict]
      /\ UNCHANGED <<lists, collections>>
      /\ told \in [Attempts -> {"SUCCESS", "ERROR", NULL}]
  BY DEF Finish, server, IInv, Begun, TypeOK, Attempts
<1>2. IInv'
  BY FinishIInv
<1>3. ASSUME verdict = "SUCCESS", PromisedMade[attempt]
      PROVE  PromisedAdded[attempt] = lists[attempt]
  <2>1. PICK id \in DOMAIN collections : collections[id].maker = attempt
    BY <1>1, <1>3, NoneMade
  <2>2. told'[attempt] = "SUCCESS"
    BY <1>1, <1>3
  <2>3. collections[id].added = lists[attempt]
    BY <1>1, <1>2, <2>1, <2>2 DEF IInv, SuccessMeansAll, MadeBy
  <2> QED
    BY <1>1, <2>1, <2>3, TheOneMade
<1>4. UNCHANGED <<PromisedMade, PromisedAdded>>
  BY <1>1 DEF PromisedMade, PromisedAdded, MadeBy
<1>5. Promise!Tell(attempt)
  BY <1>1, <1>3, <1>4 DEF Promise!Tell, Promise!Running, PromisedMade, PromisedAdded
<1> QED
  BY <1>1, <1>5 DEF Promise!Next

\* The server's grant of a creation makes the collection of the run that asked.
LEMMA GrantCreationMakes ==
    ASSUME IInv, NEW r \in requests, GrantCreation(r)
    PROVE  Promise!Next
<1>1. IInv'
  BY GrantCreationIInv
<1>2. r \in Creation /\ r.by \in Attempts
  BY DEF GrantCreation, IInv, TypeOK, Creation, Addition
<1>3. /\ lists[r.by] # NULL /\ told[r.by] = NULL
      /\ \A id \in DOMAIN collections : collections[id].maker # r.by
  BY <1>2 DEF IInv, OfARun, NotYetMade
<1>4. UNCHANGED <<lists, told>>
  BY DEF GrantCreation, Answer, client
<1> DEFINE new == Len(collections) + 1
<1>5. /\ new \notin DOMAIN collections
      /\ DOMAIN collections' = DOMAIN collections \cup {new}
      /\ \A id \in DOMAIN collections : collections'[id] = collections[id]
      /\ collections'[new] = [maker |-> r.by, added |-> <<>>, there |-> TRUE]
  BY <1>2, MadeEffect DEF GrantCreation
<1> HIDE DEF new
<1>6. ASSUME NEW a \in Attempts, a # r.by
      PROVE  PromisedMade'[a] = PromisedMade[a] /\ PromisedAdded'[a] = PromisedAdded[a]
  BY <1>1, <1>5, <1>6, RunsUntouched
<1>7. ~PromisedMade[r.by] /\ PromisedAdded[r.by] = <<>>
  BY <1>2, <1>3, NoneMade
<1>8. PromisedMade'[r.by] /\ PromisedAdded'[r.by] = <<>>
  <2>1. MadeBy(r.by)' = {new}
    BY <1>3, <1>5 DEF MadeBy
  <2>2. collections'[CHOOSE id \in MadeBy(r.by)' : TRUE].added = <<>>
    BY <1>5, <2>1
  <2> QED
    BY <1>2, <2>1, <2>2 DEF PromisedMade, PromisedAdded
<1>9. PromisedMade' = [PromisedMade EXCEPT ![r.by] = TRUE]
  BY <1>2, <1>6, <1>8 DEF PromisedMade
<1>10. UNCHANGED PromisedAdded
  BY <1>2, <1>6, <1>7, <1>8 DEF PromisedAdded
<1>11. Promise!Make(r.by)
  BY <1>3, <1>4, <1>9, <1>10
     DEF Promise!Make, Promise!Running, PromisedMade, PromisedAdded
<1> QED
  BY <1>2, <1>11 DEF Promise!Next

\* The server's grant of a movie adds the next one of the list.
LEMMA GrantMovieAdds ==
    ASSUME IInv, NEW r \in requests, GrantMovie(r)
    PROVE  Promise!Next
<1>1. IInv'
  BY GrantMovieIInv
<1> DEFINE held == collections[r.to].added
<1>2. /\ r \in Addition /\ r.by \in Attempts /\ r.to \in DOMAIN collections
      /\ collections[r.to].maker = r.by
      /\ Len(held) < Len(lists[r.by])
      /\ r.movie = lists[r.by][Len(held) + 1]
  BY GrantMovieEffect DEF Addition
<1>3. /\ DOMAIN collections' = DOMAIN collections
      /\ \A id \in DOMAIN collections :
           /\ collections'[id].maker = collections[id].maker
           /\ collections'[id].added =
                  IF id = r.to THEN Append(held, r.movie) ELSE collections[id].added
  BY GrantMovieEffect
<1>4. /\ lists[r.by] # NULL /\ told[r.by] = NULL
      /\ UNCHANGED <<lists, told>>
  BY DEF IInv, OfARun, GrantMovie, Answer, client
<1>5. ASSUME NEW a \in Attempts, a # r.by
      PROVE  PromisedMade'[a] = PromisedMade[a] /\ PromisedAdded'[a] = PromisedAdded[a]
  BY <1>1, <1>2, <1>3, <1>5, RunsUntouched
<1>6. PromisedMade[r.by] /\ PromisedAdded[r.by] = held
  BY <1>2, TheOneMade
<1>7. MadeBy(r.by)' = {r.to}
  BY <1>1, <1>2, <1>3, NullAssumption DEF IInv, OfARun, MadeBy, Attempts
<1>8. PromisedMade'[r.by] /\ PromisedAdded'[r.by] = Append(held, r.movie)
  BY <1>2, <1>3, <1>7 DEF PromisedMade, PromisedAdded
<1>9. UNCHANGED PromisedMade
  BY <1>2, <1>5, <1>6, <1>8 DEF PromisedMade
<1>10. PromisedAdded' = [PromisedAdded EXCEPT ![r.by] =
                             Append(@, lists[r.by][Len(@) + 1])]
  <2>1. /\ PromisedAdded' = [a \in Attempts |-> PromisedAdded'[a]]
        /\ PromisedAdded = [a \in Attempts |-> PromisedAdded[a]]
    BY DEF PromisedAdded
  <2>2. PromisedAdded'[r.by] =
            Append(PromisedAdded[r.by], lists[r.by][Len(PromisedAdded[r.by]) + 1])
    BY <1>2, <1>6, <1>8
  <2> HIDE DEF held
  <2> QED
    BY <1>2, <1>5, <2>1, <2>2
<1>11. Promise!AddNext(r.by)
  BY <1>2, <1>4, <1>6, <1>9, <1>10
     DEF Promise!AddNext, Promise!Running, PromisedMade, PromisedAdded
<1> QED
  BY <1>2, <1>11 DEF Promise!Next

\* Every other step changes nothing the promise speaks of.
LEMMA OtherStepsStutter ==
    ASSUME IInv, IInv', UNCHANGED <<lists, told>>,
           \A a \in Attempts : /\ PromisedMade'[a] = PromisedMade[a]
                               /\ PromisedAdded'[a] = PromisedAdded[a]
    PROVE  UNCHANGED Promise!vars
<1>1. UNCHANGED <<PromisedMade, PromisedAdded>>
  BY DEF PromisedMade, PromisedAdded
<1> QED
  BY <1>1 DEF Promise!vars, PromisedMade, PromisedAdded

\* Every step is a step of CollectionPromise or leaves what it speaks of alone.
LEMMA NextPromise == IInv /\ [Next]_vars => [Promise!Next]_Promise!vars
<1> SUFFICES ASSUME IInv, [Next]_vars PROVE [Promise!Next]_Promise!vars
  OBVIOUS
<1>1. IInv'
  BY NextIInv
<1>2. CASE Begin
  BY <1>2, BeginAsks
<1>3. CASE Finish
  BY <1>3, FinishTells
<1>4. ASSUME NEW r \in requests, GrantCreation(r) \/ GrantMovie(r)
      PROVE  Promise!Next
  BY <1>4, GrantCreationMakes, GrantMovieAdds
<1>5. ASSUME UNCHANGED <<lists, told, collections>>
      PROVE  UNCHANGED Promise!vars
  <2>1. UNCHANGED <<PromisedMade, PromisedAdded>>
    BY <1>5 DEF PromisedMade, PromisedAdded, MadeBy
  <2> QED
    BY <1>5, <2>1 DEF Promise!vars, PromisedMade, PromisedAdded
<1>6. CASE TakeCreation \/ Post \/ TakePosted \/ Killed \/ UNCHANGED vars
  BY <1>5, <1>6 DEF TakeCreation, Post, TakePosted, Killed, vars, client, server
<1>7. ASSUME NEW r \in requests, Refuse(r)
      PROVE  UNCHANGED Promise!vars
  BY <1>5, <1>7 DEF Refuse, Answer, client
<1>8. CASE OthersDelete
  <2>1. /\ UNCHANGED <<lists, told>>
        /\ DOMAIN collections' = DOMAIN collections
        /\ \A id \in DOMAIN collections :
             /\ collections'[id].maker = collections[id].maker
             /\ collections'[id].added = collections[id].added
    BY <1>8, OthersDeleteEffect DEF OthersDelete, client
  <2> QED
    BY <1>1, <2>1, RunsUntouched, OtherStepsStutter
<1>9. CASE OthersCreate
  <2> DEFINE new == Len(collections) + 1
  <2>1. /\ UNCHANGED <<lists, told>>
        /\ new \notin DOMAIN collections
        /\ DOMAIN collections' = DOMAIN collections \cup {new}
        /\ \A id \in DOMAIN collections : collections'[id] = collections[id]
        /\ collections'[new] = [maker |-> NULL, added |-> <<>>, there |-> TRUE]
    BY <1>9, MadeEffect DEF OthersCreate, client
  <2> HIDE DEF new
  <2>2. NULL \notin Attempts
    BY NullAssumption DEF Attempts
  <2> QED
    BY <1>1, <2>1, <2>2, RunsUntouched, OtherStepsStutter
<1> QED
  BY <1>2, <1>3, <1>4, <1>6, <1>7, <1>8, <1>9 DEF Next, Step, Serve

\* add_collection keeps its promise in every run, whatever the server refuses,
\* whatever others delete, and wherever it is killed.
THEOREM KeepsPromise == Spec => PromiseSpec
<1>1. Init => Promise!Init
  BY InitPromise
<1>2. IInv /\ [Next]_vars => [Promise!Next]_Promise!vars
  BY NextPromise
<1> QED
  BY <1>1, <1>2, Invariance, PTL DEF Spec, PromiseSpec, Promise!Spec
=============================================================================
