-------------------------- MODULE CommandLoopProofs --------------------------
(***************************************************************************)
(* Proofs about CommandLoop, for every set of words and answers, whatever  *)
(* the arrays hold and however far the user types ahead.                   *)
(***************************************************************************)
EXTENDS CommandLoop, SequenceTheorems, TLAPS

\* The kinds of prompts.
Kinds == {"one", "num_movies"}

Line == [text : Texts \ {Empty}, for : Dues]

Sizes == {10, 50, 100, 1000}

\* Lines, arrays and prompts are what they are declared to be; only
\* add_collection has a prompt for a number of movies, and asks it last.
Typed ==
    /\ input \in Seq(Line) /\ Len(input) <= MaxAhead
    /\ closed \in BOOLEAN
    /\ due \in Dues
    /\ pc \in {"fetch", "dispatch", "prompting", "waiting", "ended"}
    /\ command \in Texts
    /\ prompts \in Seq(Sizes)
    /\ untitled \in BOOLEAN
    /\ admin_cookie \in BOOLEAN /\ user_cookie \in BOOLEAN /\ jwt_token \in BOOLEAN
    /\ line \in [text : Texts, for : Dues]
    /\ answered \in BOOLEAN
    /\ astray \in BOOLEAN
    /\ underflow \in BOOLEAN
    /\ prompts # <<>> => pc = "prompting"
    /\ pc \in {"fetch", "dispatch"} => answered
    /\ \A i \in 1..Len(prompts) :
         prompts[i] = 10 => i = Len(prompts) /\ command = "add_collection"

\* What the client is still going to ask, as the user counts it.
Need == Asked(command, IF pc = "dispatch" THEN Expected(command) ELSE PromptsOf(prompts))

\* A line was typed when this was due before it, and if it is whole it is what was
\* due and leaves due what comes after it.
Answered(before, typed, after) ==
    /\ typed.for = before
    /\ SubSeq(typed.text, Len(typed.text), Len(typed.text)) = Newline =>
         IF before = Nothing
         THEN \E word \in Words :
                typed.text = word \o Newline /\ after = Asked(word, Expected(word))
         ELSE \E text \in Answers :
                /\ typed.text = text \o Newline
                /\ after = Asked(before.cmd,
                                 IF Head(before.prompts) = "num_movies"
                                 THEN [i \in 1..atoi(text) |-> "one"]
                                 ELSE Tail(before.prompts))

\* What was due before and after each line not read yet leads from what the client
\* has still to ask to what the user has still to answer.
Traces(left) ==
    /\ left \in [0..Len(input) -> Dues]
    /\ left[0] = Need
    /\ left[Len(input)] = due
    /\ \A i \in 1..Len(input) : Answered(left[i - 1], input[i], left[i])

\* While nothing has gone astray client and user agree on every line not read yet,
\* and the arrays hold what was typed for them.
Agreed ==
    ~astray => /\ \E left : Traces(left)
               /\ answered
               /\ pc = "dispatch" => line.for = Nothing

\* The inductive invariant.
IInv == Typed /\ UnderflowOnlyAtEnd /\ Agreed

-----------------------------------------------------------------------------

\* What fgets leaves in an array is a text, and not the empty one if there was a
\* line to read; the rest of that line, if any, is what is read next.
LEMMA Reading ==
    ASSUME input \in Seq(Line), NEW size \in Sizes, NEW array \in Texts
    PROVE  /\ fgets(size, array) \in Texts
           /\ input # <<>> => fgets(size, array) # Empty
           /\ Unread(size) \in Seq(Line)
           /\ Len(Unread(size)) <= Len(input)
<1>1. CASE input = <<>>
  BY <1>1 DEF fgets, Unread
<1>2. CASE input # <<>>
  <2> DEFINE text == Head(input).text
             taken == Least(size - 1, Len(text))
             rest == SubSeq(text, size, Len(text))
  <2>1. Head(input) \in Line /\ Tail(input) \in Seq(Line) /\ Len(Tail(input)) = Len(input) - 1
    BY <1>2
  <2>2. text \in Texts /\ text # Empty /\ IsText(text)
    BY <2>1, StringsAssumption DEF Line
  <2>3. taken \in 1..Len(text)
    BY <2>2 DEF Least, Sizes, IsText
  <2>4. SubSeq(text, 1, taken) \in Texts \ {Empty}
    BY <2>2, <2>3 DEF IsText
  <2>5. rest \in Texts
    BY <2>2 DEF IsText, Sizes
  <2>6. fgets(size, array) = SubSeq(text, 1, taken)
    BY <1>2 DEF fgets
  <2>7. CASE rest = Empty
    BY <1>2, <2>1, <2>4, <2>6, <2>7 DEF Unread
  <2>8. CASE rest # Empty
    <3> DEFINE next == [Head(input) EXCEPT !.text = rest]
    <3>1. next \in Line
      BY <2>1, <2>5, <2>8 DEF Line
    <3>2. Unread(size) = <<next>> \o Tail(input)
      BY <1>2, <2>8 DEF Unread
    <3> HIDE DEF next
    <3>3. <<next>> \in Seq(Line) /\ Len(<<next>>) = 1
      BY <3>1
    <3>4. Unread(size) \in Seq(Line) /\ Len(Unread(size)) = 1 + Len(Tail(input))
      BY <2>1, <3>2, <3>3
    <3> QED
      BY <2>1, <2>4, <2>6, <3>4
  <2> QED
    BY <2>7, <2>8
<1> QED
  BY <1>1, <1>2

\* A line that fits is read whole.
LEMMA ReadsWhole ==
    ASSUME input \in Seq(Line), NEW size \in Sizes, NEW array \in Texts, Fits(size)
    PROVE  fgets(size, array) = Head(input).text /\ Unread(size) = Tail(input)
<1> DEFINE text == Head(input).text
<1>1. input # <<>> /\ Len(text) < size
  BY DEF Fits
<1>2. IsText(text)
  <2>1. Head(input) \in Line
    BY <1>1
  <2> QED
    BY <2>1, StringsAssumption DEF Line
<1>3. SubSeq(text, 1, Len(text)) = text /\ SubSeq(text, size, Len(text)) = Empty
  BY <1>1, <1>2 DEF IsText, Sizes
<1>4. Least(size - 1, Len(text)) = Len(text)
  BY <1>1, <1>2 DEF Least, Sizes, IsText
<1> QED
  BY <1>1, <1>3, <1>4 DEF fgets, Unread

\* Removing its last character leaves of a text a text.
LEMMA Shortened ==
    ASSUME NEW text \in Texts
    PROVE  WithoutLast(text) \in Texts
<1>0. IsText(text)
  BY StringsAssumption
<1>1. CASE text = Empty
  BY <1>1 DEF WithoutLast
<1>2. CASE text # Empty
  <2>1. Len(text) \in 1..Len(text)
    BY <1>0, <1>2 DEF IsText
  <2> QED
    BY <1>0, <1>2, <2>1 DEF WithoutLast, IsText
<1> QED
  BY <1>1, <1>2

\* A typed line is a text that ends in a newline, and without it what was typed.
LEMMA TypedLines ==
    ASSUME NEW typed \in Words \cup Answers
    PROVE  /\ typed \o Newline \in Texts \ {Empty}
           /\ WithoutLast(typed \o Newline) = typed
           /\ LET text == typed \o Newline IN SubSeq(text, Len(text), Len(text)) = Newline
           /\ typed \in Texts
<1>1. IsLine(typed)
  BY StringsAssumption
<1>2. /\ typed \o Newline \in Texts \ {Empty}
      /\ WithoutLast(typed \o Newline) = typed
      /\ LET text == typed \o Newline IN SubSeq(text, Len(text), Len(text)) = Newline
  BY <1>1 DEF WithoutLast, IsLine
<1> QED
  BY <1>2, Shortened

\* Counting up to a number that may be negative is counting up to a natural one.
LEMMA CountUp ==
    ASSUME NEW n \in Int
    PROVE  \E m \in Nat : 1..n = 1..m /\ (n <= 0 => m = 0)
<1>1. CASE n \in Nat
  BY <1>1
<1>2. CASE n \notin Nat
  <2>1. 1..n = 1..0
    BY <1>2
  <2> QED
    BY <2>1
<1> QED
  BY <1>1, <1>2

\* A number of movies stands for so many prompts, and for none if it is not positive.
LEMMA SomeMovies ==
    ASSUME NEW n \in Int
    PROVE  /\ MovieArrays(n) \in Seq(Sizes)
           /\ \A i \in 1..Len(MovieArrays(n)) : MovieArrays(n)[i] # 10
           /\ [i \in 1..n |-> "one"] \in Seq(Kinds)
           /\ PromptsOf(MovieArrays(n)) = [i \in 1..n |-> "one"]
           /\ n <= 0 => [i \in 1..n |-> "one"] = <<>>
<1>1. PICK m \in Nat : 1..n = 1..m /\ (n <= 0 => m = 0)
  BY CountUp
<1> DEFINE sizes == [i \in 1..m |-> 50]
           kinds == [i \in 1..m |-> "one"]
<1>2. MovieArrays(n) = sizes /\ [i \in 1..n |-> "one"] = kinds
  BY <1>1, Zenon DEF MovieArrays
<1>3. sizes \in Seq(Sizes) /\ Len(sizes) = m /\ \A i \in 1..m : sizes[i] = 50
  BY DEF Sizes
<1>4. kinds \in Seq(Kinds) /\ Len(kinds) = m
  BY DEF Kinds
<1>5. PromptsOf(sizes) = kinds
  <2> HIDE DEF sizes
  <2>1. PromptsOf(sizes) = [i \in 1..m |-> IF sizes[i] = 10 THEN "num_movies" ELSE "one"]
    BY <1>3 DEF PromptsOf
  <2>2. \A i \in 1..m : (IF sizes[i] = 10 THEN "num_movies" ELSE "one") = "one"
    BY <1>3
  <2> QED
    BY <2>1, <2>2
<1>6. n <= 0 => kinds = <<>>
  BY <1>1
<1> HIDE DEF sizes, kinds
<1> QED
  BY <1>2, <1>3, <1>4, <1>5, <1>6

\* What is still to be answered is due.
LEMMA DueIsDue ==
    ASSUME NEW cmd \in STRING, NEW left \in Seq(Kinds)
    PROVE  /\ Asked(cmd, left) \in Dues
           /\ Asked(cmd, left) = Nothing <=> left = <<>>
           /\ left # <<>> => /\ Asked(cmd, left).cmd = cmd
                             /\ Asked(cmd, left).prompts = left
BY DEF Asked, Dues, Nothing, Kinds

\* After an answer to what is due, what is left is due.
LEMMA NextDue ==
    ASSUME NEW before \in Dues, before # Nothing, NEW text \in Answers
    PROVE  /\ before.cmd \in STRING /\ before.prompts \in Seq(Kinds) \ {<<>>}
           /\ Asked(before.cmd, IF Head(before.prompts) = "num_movies"
                                THEN [i \in 1..atoi(text) |-> "one"]
                                ELSE Tail(before.prompts)) \in Dues
<1>1. before.cmd \in STRING /\ before.prompts \in Seq(Kinds) \ {<<>>}
  BY DEF Dues, Kinds
<1>2. [i \in 1..atoi(text) |-> "one"] \in Seq(Kinds)
  BY TypedLines, AtoiAssumption, SomeMovies
<1>3. Tail(before.prompts) \in Seq(Kinds)
  BY <1>1
<1> QED
  BY <1>1, <1>2, <1>3, DueIsDue

\* The user is told of a number of movies only by add_collection, and its prompts
\* are the ones the client prints.
LEMMA SamePrompts ==
    ASSUME NEW cmd
    PROVE  /\ Expected(cmd) \in Seq(Kinds)
           /\ Arrays(cmd) \in Seq(Sizes)
           /\ \A i \in 1..Len(Arrays(cmd)) :
                Arrays(cmd)[i] = 10 => i = Len(Arrays(cmd)) /\ cmd = "add_collection"
           /\ Expected(cmd) = PromptsOf(Arrays(cmd))
           /\ Arrays(cmd) # <<>> => cmd \in Handlers
<1>1. CASE cmd \in {"get_movie", "delete_movie", "get_collection", "delete_collection"}
  <2>1. Expected(cmd) = <<"one">>
    BY <1>1 DEF Expected
  <2>2. Arrays(cmd) = <<50>>
    BY <1>1 DEF Arrays
  <2>3. PromptsOf(<<50>>) = <<"one">>
    BY DEF PromptsOf
  <2>4. cmd \in Handlers
    BY <1>1 DEF Handlers, AdminCommands, LibraryCommands
  <2> QED
    BY <1>1, <2>1, <2>2, <2>3, <2>4 DEF Sizes, Kinds
<1>2. CASE cmd \in {"delete_user"}
  <2>1. Expected(cmd) = <<"one">>
    BY <1>2 DEF Expected
  <2>2. Arrays(cmd) = <<100>>
    BY <1>2 DEF Arrays
  <2>3. PromptsOf(<<100>>) = <<"one">>
    BY DEF PromptsOf
  <2>4. cmd \in Handlers
    BY <1>2 DEF Handlers, AdminCommands, LibraryCommands
  <2> QED
    BY <1>2, <2>1, <2>2, <2>3, <2>4 DEF Sizes, Kinds
<1>3. CASE cmd \in {"login_admin", "add_user", "add_movie_to_collection",
                    "delete_movie_from_collection"}
  <2>1. Expected(cmd) = <<"one", "one">>
    BY <1>3 DEF Expected
  <2>2. Arrays(cmd) = <<50, 50>>
    BY <1>3 DEF Arrays
  <2>3. PromptsOf(<<50, 50>>) = <<"one", "one">>
    BY DEF PromptsOf
  <2>4. cmd \in Handlers
    BY <1>3 DEF Handlers, AdminCommands, LibraryCommands
  <2> QED
    BY <1>3, <2>1, <2>2, <2>3, <2>4 DEF Sizes, Kinds
<1>4. CASE cmd \in {"login"}
  <2>1. Expected(cmd) = <<"one", "one", "one">>
    BY <1>4 DEF Expected
  <2>2. Arrays(cmd) = <<100, 100, 100>>
    BY <1>4 DEF Arrays
  <2>3. PromptsOf(<<100, 100, 100>>) = <<"one", "one", "one">>
    BY DEF PromptsOf
  <2>4. cmd \in Handlers
    BY <1>4 DEF Handlers, AdminCommands, LibraryCommands
  <2> QED
    BY <1>4, <2>1, <2>2, <2>3, <2>4 DEF Sizes, Kinds
<1>5. CASE cmd \in {"add_movie"}
  <2>1. Expected(cmd) = <<"one", "one", "one", "one">>
    BY <1>5 DEF Expected
  <2>2. Arrays(cmd) = <<100, 100, 100, 100>>
    BY <1>5 DEF Arrays
  <2>3. PromptsOf(<<100, 100, 100, 100>>) = <<"one", "one", "one", "one">>
    BY DEF PromptsOf
  <2>4. cmd \in Handlers
    BY <1>5 DEF Handlers, AdminCommands, LibraryCommands
  <2> QED
    BY <1>5, <2>1, <2>2, <2>3, <2>4 DEF Sizes, Kinds
<1>6. CASE cmd \in {"update_movie"}
  <2>1. Expected(cmd) = <<"one", "one", "one", "one", "one">>
    BY <1>6 DEF Expected
  <2>2. Arrays(cmd) = <<100, 1000, 1000, 1000, 1000>>
    BY <1>6 DEF Arrays
  <2>3. PromptsOf(<<100, 1000, 1000, 1000, 1000>>) = <<"one", "one", "one", "one", "one">>
    BY DEF PromptsOf
  <2>4. cmd \in Handlers
    BY <1>6 DEF Handlers, AdminCommands, LibraryCommands
  <2> QED
    BY <1>6, <2>1, <2>2, <2>3, <2>4 DEF Sizes, Kinds
<1>7. CASE cmd \in {"add_collection"}
  <2>1. Expected(cmd) = <<"one", "num_movies">>
    BY <1>7 DEF Expected
  <2>2. Arrays(cmd) = <<1000, 10>>
    BY <1>7 DEF Arrays, CollectionArrays
  <2>3. PromptsOf(<<1000, 10>>) = <<"one", "num_movies">>
    BY DEF PromptsOf
  <2>4. cmd \in Handlers
    BY <1>7 DEF Handlers, AdminCommands, LibraryCommands
  <2> QED
    BY <1>7, <2>1, <2>2, <2>3, <2>4 DEF Sizes, Kinds
<1>8. CASE cmd \notin {"get_movie", "delete_movie", "get_collection", "delete_collection",
                       "delete_user", "login_admin", "add_user",
                       "add_movie_to_collection", "delete_movie_from_collection",
                       "login", "add_movie", "update_movie", "add_collection"}
  <2>1. Expected(cmd) = <<>>
    BY <1>8 DEF Expected
  <2>2. Arrays(cmd) = <<>>
    BY <1>8 DEF Arrays
  <2>3. PromptsOf(<<>>) = <<>>
    BY DEF PromptsOf
  <2> QED
    BY <2>1, <2>2, <2>3 DEF Kinds
<1> QED
  BY <1>1, <1>2, <1>3, <1>4, <1>5, <1>6, <1>7, <1>8

\* The empty string is a text, and so is whatever a line holds or an array held.
LEMMA SomeTexts == Empty \in Texts /\ Stale \subseteq Texts /\ Texts \subseteq STRING
<1>1. Empty \in Texts
  BY DEF Texts
<1>2. Stale \subseteq Texts /\ Texts \subseteq STRING
  BY StringsAssumption
<1> QED
  BY <1>1, <1>2

-----------------------------------------------------------------------------
\* Types, and the byte before the array.

\* At the start nothing is typed and the array holds what it happens to hold.
LEMMA InitTyped == Init => Typed /\ UnderflowOnlyAtEnd
<1> SUFFICES ASSUME Init PROVE Typed /\ UnderflowOnlyAtEnd
  OBVIOUS
<1>1. input = <<>> /\ due = Nothing /\ prompts = <<>> /\ pc = "fetch" /\ answered = TRUE
  BY DEF Init
<1>2. Nothing \in Dues
  BY DEF Dues
<1>3. command \in Texts /\ line \in [text : Texts, for : Dues]
  BY <1>2, SomeTexts DEF Init
<1>4. /\ input \in Seq(Line) /\ Len(input) <= MaxAhead
      /\ prompts \in Seq(Sizes) /\ Len(prompts) = 0
  BY <1>1, MaxAheadAssumption
<1>5. /\ closed \in BOOLEAN /\ untitled \in BOOLEAN
      /\ admin_cookie \in BOOLEAN /\ user_cookie \in BOOLEAN /\ jwt_token \in BOOLEAN
      /\ astray \in BOOLEAN /\ underflow \in BOOLEAN /\ (underflow => closed)
  BY DEF Init
<1> QED
  BY <1>1, <1>2, <1>3, <1>4, <1>5 DEF Typed, UnderflowOnlyAtEnd

\* main takes a line, or at the end of input what its array held before.
LEMMA FetchTyped == Typed /\ UnderflowOnlyAtEnd /\ Fetch => Typed' /\ UnderflowOnlyAtEnd'
<1> SUFFICES ASSUME Typed, UnderflowOnlyAtEnd, Fetch PROVE Typed' /\ UnderflowOnlyAtEnd'
  OBVIOUS
<1>1. 50 \in Sizes /\ input \in Seq(Line) /\ command \in Texts
  BY DEF Sizes, Typed
<1>2. /\ fgets(50, command) \in Texts
      /\ input # <<>> => fgets(50, command) # Empty
      /\ Unread(50) \in Seq(Line)
      /\ Len(Unread(50)) <= Len(input)
  BY <1>1, Reading
<1>3. command' \in Texts
  BY <1>2, Shortened DEF Fetch
<1>4. line' \in [text : Texts, for : Dues]
  <2>1. CASE input = <<>>
    BY <2>1 DEF Fetch, Typed
  <2>2. CASE input # <<>>
    <3>1. Head(input) \in Line
      BY <1>1, <2>2
    <3> QED
      BY <2>2, <3>1 DEF Fetch, Line
  <2> QED
    BY <2>1, <2>2
<1>5. underflow' \in BOOLEAN /\ astray' \in BOOLEAN
  BY DEF Fetch, Typed
<1>6. input' \in Seq(Line) /\ Len(input') <= MaxAhead
  BY <1>1, <1>2, MaxAheadAssumption DEF Fetch, Typed
<1>7. UnderflowOnlyAtEnd'
  BY <1>2 DEF Fetch, Readable, UnderflowOnlyAtEnd
<1>8. prompts = <<>> /\ answered /\ pc' = "dispatch"
  BY DEF Fetch, Typed
<1>9. UNCHANGED <<closed, due, prompts, untitled, session, answered>>
  BY DEF Fetch
<1> QED
  BY <1>3, <1>4, <1>5, <1>6, <1>7, <1>8, <1>9 DEF Typed, session

\* A number of movies is read as the last prompt, and followed by that many.
LEMMA PromptTyped == Typed /\ UnderflowOnlyAtEnd /\ read_input => Typed' /\ UnderflowOnlyAtEnd'
<1> SUFFICES ASSUME Typed, UnderflowOnlyAtEnd, read_input
             PROVE  Typed' /\ UnderflowOnlyAtEnd'
  OBVIOUS
<1>1. prompts \in Seq(Sizes) /\ prompts # <<>> /\ input \in Seq(Line) /\ pc = "prompting"
  BY DEF read_input, Typed
<1>2. Head(prompts) \in Sizes
  BY <1>1
<1>3. input' \in Seq(Line) /\ Len(input') <= MaxAhead
  <2>1. Unread(Head(prompts)) \in Seq(Line) /\ Len(Unread(Head(prompts))) <= Len(input)
    BY <1>1, <1>2, SomeTexts, Reading
  <2>2. input' = Unread(Head(prompts))
    BY DEF read_input
  <2>3. Len(input) \in Nat /\ Len(input) <= MaxAhead
    BY DEF Typed
  <2> QED
    BY <2>1, <2>2, <2>3, MaxAheadAssumption
<1>4. untitled' \in BOOLEAN /\ answered' \in BOOLEAN /\ astray' \in BOOLEAN
  <2>1. untitled' \in BOOLEAN
    BY Zenon DEF read_input, Typed
  <2>2. answered' \in BOOLEAN
    BY Zenon DEF read_input, Typed
  <2>3. astray' \in BOOLEAN
    BY Zenon DEF read_input, Typed
  <2> QED
    BY <2>1, <2>2, <2>3
<1>5. \/ prompts' = Tail(prompts)
      \/ \E n \in Int : prompts' = MovieArrays(n)
  <2>1. PICK array \in IF input = <<>> THEN Stale ELSE {Empty} :
          \/ prompts' = Tail(prompts)
          \/ prompts' = MovieArrays(atoi(WithoutLast(fgets(Head(prompts), array))))
    BY DEF read_input
  <2>2. array \in Texts
    BY SomeTexts
  <2>3. atoi(WithoutLast(fgets(Head(prompts), array))) \in Int
    BY <1>1, <1>2, <2>2, Reading, Shortened, AtoiAssumption
  <2> QED
    BY <2>1, <2>3
<1>6. /\ prompts' \in Seq(Sizes)
      /\ \A i \in 1..Len(prompts') :
           prompts'[i] = 10 => i = Len(prompts') /\ command = "add_collection"
  <2>1. CASE prompts' = Tail(prompts)
    BY <1>1, <2>1 DEF Typed
  <2>2. CASE \E n \in Int : prompts' = MovieArrays(n)
    BY <2>2, SomeMovies
  <2> QED
    BY <1>5, <2>1, <2>2
<1>7. UNCHANGED <<closed, due, pc, command, session, line, underflow>>
  BY DEF read_input
<1> QED
  BY <1>1, <1>3, <1>4, <1>6, <1>7 DEF Typed, UnderflowOnlyAtEnd, session

\* The user adds a line, or a part of one at the end, if there is room for it.
LEMMA UserTyped == Typed /\ UnderflowOnlyAtEnd /\ User => Typed' /\ UnderflowOnlyAtEnd'
<1> SUFFICES ASSUME Typed, UnderflowOnlyAtEnd, User PROVE Typed' /\ UnderflowOnlyAtEnd'
  OBVIOUS
<1> DEFINE Added == /\ Room
                    /\ UNCHANGED <<pc, command, prompts, untitled, session, line,
                                   answered, underflow>>
                    /\ \/ UNCHANGED input
                       \/ \E typed \in Line : input' = Append(input, typed)
<1>1. ASSUME NEW word \in Words, TypeCommand(word)
      PROVE  Added /\ due' \in Dues /\ astray' \in BOOLEAN /\ closed' = closed
  <2>1. word \o Newline \in Texts \ {Empty} /\ word \in STRING
    BY TypedLines, SomeTexts
  <2>2. [text |-> word \o Newline, for |-> Nothing] \in Line
    BY <2>1 DEF Line, Dues
  <2>3. due' \in Dues
    BY <1>1, <2>1, SamePrompts, DueIsDue DEF TypeCommand
  <2> QED
    BY <1>1, <2>2, <2>3 DEF TypeCommand, Typed
<1>2. ASSUME NEW text \in Answers, TypeAnswer(text)
      PROVE  Added /\ due' \in Dues /\ astray' = astray /\ closed' = closed
  <2>1. text \o Newline \in Texts \ {Empty}
    BY TypedLines
  <2>2. [text |-> text \o Newline, for |-> due] \in Line
    BY <2>1 DEF Line, Typed
  <2>3. due' \in Dues
    BY <1>2, NextDue DEF TypeAnswer, Typed
  <2> QED
    BY <1>2, <2>2, <2>3 DEF TypeAnswer, Typed
<1>3. ASSUME Close
      PROVE  Added /\ due' = due /\ astray' = astray /\ closed' = TRUE
  <2>1. \A text \in (Words \cup Answers) \ {Empty} : [text |-> text, for |-> due] \in Line
    BY TypedLines DEF Line, Typed
  <2> QED
    BY <1>3, <2>1 DEF Close
<1>4. /\ Added
      /\ due' \in Dues
      /\ astray' \in BOOLEAN
      /\ closed' \in BOOLEAN /\ (closed => closed')
  <2>1. CASE \E word \in Words : TypeCommand(word)
    BY <1>1, <2>1 DEF Typed
  <2>2. CASE \E text \in Answers : TypeAnswer(text)
    BY <1>2, <2>2 DEF Typed
  <2>3. CASE Close
    BY <1>3, <2>3 DEF Typed
  <2> QED
    BY <2>1, <2>2, <2>3 DEF User
<1>5. input' \in Seq(Line) /\ Len(input') <= MaxAhead
  <2>1. input \in Seq(Line) /\ Len(input) < MaxAhead
    BY <1>4 DEF Typed, Room
  <2>2. CASE UNCHANGED input
    BY <2>1, <2>2, MaxAheadAssumption
  <2>3. CASE \E typed \in Line : input' = Append(input, typed)
    BY <2>1, <2>3, MaxAheadAssumption
  <2> QED
    BY <1>4, <2>2, <2>3
<1> QED
  BY <1>4, <1>5 DEF Typed, UnderflowOnlyAtEnd, session

\* Every step keeps the types, and writes before the array only at the end of input.
LEMMA NextTyped ==
    Typed /\ UnderflowOnlyAtEnd /\ [Next]_vars => Typed' /\ UnderflowOnlyAtEnd'
<1> SUFFICES ASSUME Typed, UnderflowOnlyAtEnd, [Next]_vars
             PROVE  Typed' /\ UnderflowOnlyAtEnd'
  OBVIOUS
<1>1. CASE UNCHANGED vars
  BY <1>1 DEF vars, userVars, session, Typed, UnderflowOnlyAtEnd
<1>2. CASE Fetch
  BY <1>2, FetchTyped
<1>3. CASE read_input
  BY <1>3, PromptTyped
<1>4. CASE User
  BY <1>4, UserTyped
<1>5. CASE Call
  <2>1. prompts' = Arrays(command) /\ pc' = "prompting" /\ command' = command
    BY <1>5 DEF Call
  <2>2. /\ prompts' \in Seq(Sizes)
        /\ \A i \in 1..Len(prompts') :
             prompts'[i] = 10 => i = Len(prompts') /\ command' = "add_collection"
    BY <2>1, SamePrompts
  <2>3. UNCHANGED <<userVars, untitled, session, line, answered, astray, underflow>>
    BY <1>5 DEF Call
  <2> QED
    BY <2>1, <2>2, <2>3 DEF userVars, session, Typed, UnderflowOnlyAtEnd
<1>6. CASE NoSuchCommand \/ RefuseAtOnce \/ RefuseAnswers \/ Conclude
  <2>1. Return
    BY <1>6 DEF NoSuchCommand, RefuseAtOnce, RefuseAnswers, Conclude
  <2>2. astray' \in BOOLEAN
    BY <1>6 DEF NoSuchCommand, RefuseAtOnce, RefuseAnswers, Conclude, Typed
  <2>3. /\ admin_cookie' \in BOOLEAN /\ user_cookie' \in BOOLEAN
        /\ jwt_token' \in BOOLEAN
    <3>1. CASE NoSuchCommand \/ RefuseAtOnce \/ RefuseAnswers
      BY <3>1 DEF NoSuchCommand, RefuseAtOnce, RefuseAnswers, session, Typed
    <3>2. CASE Conclude
      BY <3>2 DEF Conclude, Typed
    <3> QED
      BY <1>6, <3>1, <3>2
  <2>4. prompts' = <<>> /\ untitled' \in BOOLEAN /\ answered' = TRUE /\ pc' = "fetch"
    BY <2>1 DEF Return
  <2>5. prompts' \in Seq(Sizes) /\ Len(prompts') = 0
    BY <2>4
  <2>6. UNCHANGED <<input, closed, due, command, line, underflow>>
    BY <2>1 DEF Return, userVars
  <2> QED
    BY <2>2, <2>3, <2>4, <2>5, <2>6 DEF Typed, UnderflowOnlyAtEnd
<1>7. CASE Exit \/ Submit \/ Killed
  <2>1. /\ pc' \in {"waiting", "ended"} /\ prompts = <<>>
        /\ UNCHANGED <<userVars, command, prompts, untitled, session, line, answered,
                       astray, underflow>>
    BY <1>7 DEF Exit, Submit, Killed, Typed
  <2> QED
    BY <2>1 DEF userVars, session, Typed, UnderflowOnlyAtEnd
<1> QED
  BY <1>1, <1>2, <1>3, <1>4, <1>5, <1>6, <1>7 DEF Next, Client, Done

-----------------------------------------------------------------------------
\* Client and user in step.

\* Prompts are counted alike one by one, and a list of movies to the last.
LEMMA Counting ==
    /\ PromptsOf(<<>>) = <<>>
    /\ \A sizes \in Seq(Sizes) :
         /\ PromptsOf(sizes) \in Seq(Kinds)
         /\ sizes # <<>> =>
              /\ PromptsOf(sizes) # <<>>
              /\ Head(PromptsOf(sizes)) = "num_movies" <=> Head(sizes) = 10
              /\ PromptsOf(Tail(sizes)) = Tail(PromptsOf(sizes))
<1>1. PromptsOf(<<>>) = <<>>
  BY DEF PromptsOf, Kinds
<1>2. ASSUME NEW sizes \in Seq(Sizes)
      PROVE  PromptsOf(sizes) \in Seq(Kinds)
  BY DEF PromptsOf, Kinds
<1>3. ASSUME NEW sizes \in Seq(Sizes), sizes # <<>>
      PROVE  /\ PromptsOf(sizes) # <<>>
             /\ Head(PromptsOf(sizes)) = "num_movies" <=> Head(sizes) = 10
             /\ PromptsOf(Tail(sizes)) = Tail(PromptsOf(sizes))
  <2>1. Len(sizes) \in Nat \ {0} /\ Head(sizes) = sizes[1]
    BY <1>3
  <2>2. /\ Tail(sizes) \in Seq(Sizes) /\ Len(Tail(sizes)) = Len(sizes) - 1
        /\ \A i \in 1..Len(Tail(sizes)) : Tail(sizes)[i] = sizes[i + 1]
    BY <1>3
  <2>3. /\ PromptsOf(sizes) \in Seq(Kinds)
        /\ Len(PromptsOf(sizes)) = Len(sizes)
        /\ \A i \in 1..Len(sizes) :
             PromptsOf(sizes)[i] = IF sizes[i] = 10 THEN "num_movies" ELSE "one"
    BY <2>1 DEF PromptsOf, Kinds
  <2>4. /\ Tail(PromptsOf(sizes)) \in Seq(Kinds)
        /\ Len(Tail(PromptsOf(sizes))) = Len(sizes) - 1
        /\ \A i \in 1..Len(sizes) - 1 : Tail(PromptsOf(sizes))[i] = PromptsOf(sizes)[i + 1]
    BY <2>1, <2>3
  <2>5. PromptsOf(Tail(sizes)) =
          [i \in 1..Len(sizes) - 1 |-> IF sizes[i + 1] = 10 THEN "num_movies" ELSE "one"]
    BY <2>1, <2>2 DEF PromptsOf, Kinds
  <2>6. /\ PromptsOf(Tail(sizes)) \in Seq(Kinds)
        /\ Len(PromptsOf(Tail(sizes))) = Len(sizes) - 1
        /\ \A i \in 1..Len(sizes) - 1 :
             PromptsOf(Tail(sizes))[i] = IF sizes[i + 1] = 10 THEN "num_movies" ELSE "one"
    BY <2>1, <2>5 DEF Kinds
  <2>7. \A i \in 1..Len(sizes) - 1 : PromptsOf(Tail(sizes))[i] = Tail(PromptsOf(sizes))[i]
    BY <2>1, <2>3, <2>4, <2>6
  <2>8. PromptsOf(Tail(sizes)) = Tail(PromptsOf(sizes))
    BY <2>4, <2>6, <2>7, SeqEqual
  <2> QED
    BY <2>1, <2>3, <2>8
<1> QED
  BY <1>1, <1>2, <1>3

\* What the client still has to ask is due.
LEMMA NeedIsDue == Typed => Need \in Dues
BY SamePrompts, Counting, DueIsDue, SomeTexts DEF Typed, Need

\* A step that reads and types nothing, and leaves what is to be asked, keeps the
\* agreement.
LEMMA QuietStep ==
    ASSUME Agreed, UNCHANGED <<input, due>>,
           ~astray' => /\ ~astray
                       /\ Need' = Need
                       /\ answered => answered'
                       /\ pc' = "dispatch" => line'.for = Nothing
    PROVE  Agreed'
BY DEF Agreed, Traces

\* A line that is read whole was meant for what is asked then.
LEMMA ReadStep ==
    ASSUME Typed, NEW left, Traces(left), input # <<>>,
           input' = Tail(input), UNCHANGED due, Need' = left[1]
    PROVE  (\E rest : Traces(rest))'
<1> DEFINE rest == [i \in 0..Len(input) - 1 |-> left[i + 1]]
<1>1. input \in Seq(Line) /\ Len(input) \in Nat \ {0}
  BY DEF Typed
<1>2. /\ Len(input') = Len(input) - 1
      /\ \A i \in 1..Len(input') : input'[i] = input[i + 1]
  BY <1>1
<1>3. /\ left \in [0..Len(input) -> Dues]
      /\ left[Len(input)] = due
      /\ \A i \in 1..Len(input) : Answered(left[i - 1], input[i], left[i])
  BY DEF Traces
<1>4. rest \in [0..Len(input') -> Dues]
  BY <1>1, <1>2, <1>3
<1>5. rest[0] = Need' /\ rest[Len(input')] = due'
  BY <1>1, <1>2, <1>3
<1>6. ASSUME NEW i \in 1..Len(input')
      PROVE  Answered(rest[i - 1], input'[i], rest[i])
  <2>1. i + 1 \in 1..Len(input) /\ (i + 1) - 1 = i /\ (i - 1) + 1 = i
    BY <1>1, <1>2
  <2>2. rest[i - 1] = left[i] /\ rest[i] = left[i + 1]
    BY <1>1, <1>2, <2>1
  <2>3. Answered(left[i], input[i + 1], left[i + 1])
    BY <1>3, <2>1
  <2> QED
    BY <1>2, <2>2, <2>3
<1> HIDE DEF rest
<1>7. PICK found : found = rest
  OBVIOUS
<1>8. Traces(found)'
  BY <1>4, <1>5, <1>6, <1>7 DEF Traces
<1> QED
  BY <1>8

\* A line that is typed as it should be is one the client will ask for.
LEMMA TypeStep ==
    ASSUME Typed, NEW typed \in Line, input' = Append(input, typed),
           NEW left \in [0..Len(input) -> Dues],
           left[0] = Need',
           \A i \in 1..Len(input) : Answered(left[i - 1], input[i], left[i]),
           Answered(left[Len(input)], typed, due'),
           due' \in Dues
    PROVE  (\E more : Traces(more))'
<1> DEFINE last == Len(input) + 1
           more == [i \in 0..last |-> IF i = last THEN due' ELSE left[i]]
<1>1. input \in Seq(Line) /\ Len(input) \in Nat
  BY DEF Typed
<1>2. /\ Len(input') = last
      /\ input'[last] = typed
      /\ \A i \in 1..Len(input) : input'[i] = input[i]
  BY <1>1
<1>3. more \in [0..Len(input') -> Dues]
  BY <1>1, <1>2
<1>4. more[0] = Need' /\ more[Len(input')] = due'
  BY <1>1, <1>2
<1>5. ASSUME NEW i \in 1..Len(input')
      PROVE  Answered(more[i - 1], input'[i], more[i])
  <2>1. CASE i = last
    BY <1>1, <1>2, <2>1
  <2>2. CASE i # last
    <3>1. i \in 1..Len(input) /\ more[i - 1] = left[i - 1] /\ more[i] = left[i]
      BY <1>1, <1>2, <2>2
    <3> QED
      BY <1>2, <3>1
  <2> QED
    BY <2>1, <2>2
<1> HIDE DEF more
<1>6. PICK found : found = more
  OBVIOUS
<1>7. Traces(found)'
  BY <1>3, <1>4, <1>5, <1>6 DEF Traces
<1> QED
  BY <1>7

\* main reads as a command the line that was typed as one.
LEMMA FetchAgreed == Typed /\ Agreed /\ Fetch => Agreed'
<1> SUFFICES ASSUME Typed, Agreed, Fetch, ~astray'
             PROVE  (\E left : Traces(left))' /\ answered' /\ line'.for = Nothing
  BY DEF Agreed
<1>1. /\ ~astray /\ Fits(50) /\ input # <<>>
      /\ pc = "fetch" /\ pc' = "dispatch" /\ prompts = <<>>
      /\ command' = WithoutLast(fgets(50, command))
      /\ input' = Unread(50) /\ line' = Head(input) /\ UNCHANGED <<due, answered>>
  BY DEF Fetch, Fits, Typed
<1>2. PICK left : Traces(left)
  BY <1>1 DEF Agreed
<1>3. input \in Seq(Line) /\ 50 \in Sizes /\ command \in Texts
  BY DEF Typed, Sizes
<1>4. 1 \in 1..Len(input) /\ input[1] = Head(input) /\ 1 - 1 = 0
  BY <1>1, <1>3
<1>5. left[0] = Nothing
  BY <1>1, <1>2, Counting DEF Traces, Need, Asked
<1>6. Answered(Nothing, Head(input), left[1])
  BY <1>2, <1>4, <1>5 DEF Traces
<1>7. Head(input).for = Nothing
  BY <1>6 DEF Answered
<1>8. PICK word \in Words :
        Head(input).text = word \o Newline /\ left[1] = Asked(word, Expected(word))
  BY <1>1, <1>6 DEF Answered, Fits
<1>9. fgets(50, command) = Head(input).text /\ Unread(50) = Tail(input)
  BY <1>1, <1>3, ReadsWhole
<1>10. command' = word
  BY <1>1, <1>8, <1>9, TypedLines
<1>11. Need' = left[1]
  BY <1>1, <1>8, <1>10 DEF Need
<1>12. (\E rest : Traces(rest))'
  BY <1>1, <1>2, <1>9, <1>11, ReadStep
<1>13. answered
  BY <1>1 DEF Agreed
<1> QED
  BY <1>1, <1>7, <1>12, <1>13

\* A prompt is answered by the line that was typed for it.
LEMMA PromptAgreed == Typed /\ Agreed /\ read_input => Agreed'
<1> SUFFICES ASSUME Typed, Agreed, read_input, ~astray'
             PROVE  (\E left : Traces(left))' /\ answered' /\ pc' # "dispatch"
  BY DEF Agreed
<1> DEFINE size == Head(prompts)
           number == command = "add_collection" /\ size = 10
<1>1. PICK array \in IF input = <<>> THEN Stale ELSE {Empty} :
        LET answer == WithoutLast(fgets(size, array)) IN
        /\ prompts' = IF number /\ ~untitled
                      THEN MovieArrays(atoi(answer)) ELSE Tail(prompts)
        /\ answered' = /\ answered
                       /\ input # <<>>
                       /\ Head(input).for = Asked(command, PromptsOf(prompts))
                       /\ Head(input).text = answer \o Newline
        /\ ~astray /\ Fits(size) /\ ~(number /\ untitled /\ atoi(answer) > 0)
  BY DEF read_input
<1>2. /\ pc = "prompting" /\ pc' = "prompting" /\ prompts # <<>> /\ input # <<>>
      /\ input' = Unread(size) /\ UNCHANGED <<due, command>>
  BY <1>1 DEF read_input, Fits
<1>3. input \in Seq(Line) /\ prompts \in Seq(Sizes) /\ size \in Sizes /\ array \in Texts
  BY <1>1, <1>2, SomeTexts DEF Typed
<1>4. size = 10 => Len(prompts) = 1 /\ command = "add_collection"
  <2>1. 1 \in 1..Len(prompts) /\ size = prompts[1]
    BY <1>2, <1>3
  <2>2. prompts[1] = 10 => 1 = Len(prompts) /\ command = "add_collection"
    BY <2>1 DEF Typed
  <2> QED
    BY <2>1, <2>2
<1>5. PICK left : Traces(left)
  BY <1>1 DEF Agreed
<1>6. 1 \in 1..Len(input) /\ input[1] = Head(input) /\ 1 - 1 = 0
  BY <1>2, <1>3
<1> DEFINE asked == PromptsOf(prompts)
<1>7. /\ asked \in Seq(Kinds) /\ asked # <<>>
      /\ Head(asked) = "num_movies" <=> size = 10
      /\ Tail(asked) = PromptsOf(Tail(prompts))
  BY <1>2, <1>3, Counting
<1>8. left[0] = Asked(command, asked)
  BY <1>2, <1>5 DEF Traces, Need
<1>9. command \in STRING
  BY SomeTexts DEF Typed
<1> HIDE DEF asked
<1>10. left[0] # Nothing /\ left[0].cmd = command /\ left[0].prompts = asked
  <2>1. /\ Asked(command, asked) # Nothing
        /\ Asked(command, asked).cmd = command
        /\ Asked(command, asked).prompts = asked
    BY <1>7, <1>9, DueIsDue
  <2> QED
    BY <1>8, <2>1
<1>11. Answered(left[0], Head(input), left[1])
  BY <1>5, <1>6 DEF Traces
<1>12. PICK text \in Answers :
         /\ Head(input).text = text \o Newline
         /\ left[1] = Asked(command, IF Head(asked) = "num_movies"
                                     THEN [i \in 1..atoi(text) |-> "one"] ELSE Tail(asked))
  BY <1>1, <1>10, <1>11 DEF Answered, Fits
<1>13. fgets(size, array) = Head(input).text /\ Unread(size) = Tail(input)
  BY <1>1, <1>3, ReadsWhole
<1>14. WithoutLast(fgets(size, array)) = text
  BY <1>12, <1>13, TypedLines
<1>15. atoi(text) \in Int
  BY TypedLines, AtoiAssumption
<1>16. answered'
  <2>1. answered /\ Head(input).for = left[0]
    BY <1>1, <1>11 DEF Agreed, Answered
  <2> QED
    BY <1>1, <1>2, <1>8, <1>12, <1>14, <2>1 DEF asked
<1>17. left[1] = Asked(command, PromptsOf(prompts'))
  <2>1. CASE size # 10
    BY <1>1, <1>7, <1>12, <2>1
  <2>2. CASE size = 10 /\ ~untitled
    <3>1. prompts' = MovieArrays(atoi(text))
      BY <1>1, <1>4, <1>14, <2>2
    <3>2. PromptsOf(MovieArrays(atoi(text))) = [i \in 1..atoi(text) |-> "one"]
      BY <1>15, SomeMovies
    <3> QED
      BY <1>7, <1>12, <2>2, <3>1, <3>2
  <2>3. CASE size = 10 /\ untitled
    <3>1. atoi(text) <= 0 /\ prompts' = Tail(prompts)
      BY <1>1, <1>4, <1>14, <1>15, <2>3
    <3>2. Tail(prompts) = <<>>
      <4>1. Tail(prompts) \in Seq(Sizes) /\ Len(Tail(prompts)) = 0
        BY <1>2, <1>3, <1>4, <2>3
      <4> QED
        BY <4>1, EmptySeq
    <3>3. [i \in 1..atoi(text) |-> "one"] = <<>>
      BY <1>15, <3>1, SomeMovies
    <3> QED
      BY <1>7, <1>12, <2>3, <3>1, <3>2, <3>3, Counting
  <2> QED
    BY <2>1, <2>2, <2>3
<1>18. Need' = left[1]
  BY <1>2, <1>17 DEF Need
<1>19. (\E rest : Traces(rest))'
  BY <1>2, <1>5, <1>13, <1>18, ReadStep
<1> QED
  BY <1>2, <1>16, <1>19

\* The user types what the client will ask for, or at an idle prompt begins afresh.
LEMMA UserAgreed == Typed /\ Agreed /\ User => Agreed'
<1> SUFFICES ASSUME Typed, Agreed, User, ~astray'
             PROVE  /\ (\E left : Traces(left))'
                    /\ answered'
                    /\ pc' = "dispatch" => line'.for = Nothing
  BY DEF Agreed
<1>1. /\ UNCHANGED <<pc, command, prompts, line, answered>>
      /\ Need' = Need
  BY DEF User, TypeCommand, TypeAnswer, Close, Need
<1>2. input \in Seq(Line) /\ Len(input) \in Nat
  BY DEF Typed
<1>3. CASE \E word \in Words : TypeCommand(word)
  <2>1. PICK word \in Words : TypeCommand(word)
    BY <1>3
  <2> DEFINE typed == [text |-> word \o Newline, for |-> Nothing]
  <2>2. Nothing \in Dues /\ typed \in Line
    BY TypedLines DEF Line, Dues
  <2>3. input' = Append(input, typed) /\ due' = Asked(word, Expected(word))
    BY <2>1 DEF TypeCommand
  <2>4. Answered(Nothing, typed, due')
    BY <2>3 DEF Answered
  <2>5. due' \in Dues
    BY <2>3, SamePrompts, TypedLines, SomeTexts, DueIsDue
  <2> HIDE DEF typed
  <2>6. CASE Idle
    <3>1. PICK left : left = [i \in 0..0 |-> Nothing]
      OBVIOUS
    <3>2. Len(input) = 0 /\ Need' = Nothing /\ answered
      BY <1>1, <2>6, Counting DEF Idle, Typed, Need, Asked
    <3>3. /\ left \in [0..Len(input) -> Dues]
          /\ left[0] = Need' /\ left[Len(input)] = Nothing
      BY <2>2, <3>1, <3>2
    <3>4. (\E more : Traces(more))'
      BY <2>2, <2>3, <2>4, <2>5, <3>2, <3>3, TypeStep
    <3>5. pc' # "dispatch"
      BY <1>1, <2>6 DEF Idle
    <3> QED
      BY <1>1, <3>2, <3>4, <3>5
  <2>7. CASE ~Idle
    <3>1. ~astray /\ due = Nothing
      BY <2>1, <2>7 DEF TypeCommand
    <3>2. PICK left : Traces(left)
      BY <3>1 DEF Agreed
    <3>3. /\ left \in [0..Len(input) -> Dues]
          /\ left[0] = Need' /\ left[Len(input)] = Nothing
          /\ \A i \in 1..Len(input) : Answered(left[i - 1], input[i], left[i])
      BY <1>1, <3>1, <3>2 DEF Traces
    <3>4. (\E more : Traces(more))'
      BY <2>2, <2>3, <2>4, <2>5, <3>3, TypeStep
    <3> QED
      BY <1>1, <3>1, <3>4 DEF Agreed
  <2> QED
    BY <2>6, <2>7
<1>4. CASE ~\E word \in Words : TypeCommand(word)
  <2>1. ~astray
    BY <1>4 DEF User, TypeAnswer, Close
  <2>2. PICK left : Traces(left)
    BY <2>1 DEF Agreed
  <2>3. /\ left \in [0..Len(input) -> Dues]
        /\ left[0] = Need' /\ left[Len(input)] = due
        /\ \A i \in 1..Len(input) : Answered(left[i - 1], input[i], left[i])
    BY <1>1, <2>2 DEF Traces
  <2>4. answered' /\ (pc' = "dispatch" => line'.for = Nothing)
    BY <1>1, <2>1 DEF Agreed
  <2>5. CASE \E text \in Answers : TypeAnswer(text)
    <3>1. PICK text \in Answers : TypeAnswer(text)
      BY <2>5
    <3> DEFINE typed == [text |-> text \o Newline, for |-> due]
    <3>2. typed \in Line
      BY TypedLines DEF Line, Typed
    <3>3. /\ input' = Append(input, typed) /\ due # Nothing
          /\ due' = Asked(due.cmd, IF Head(due.prompts) = "num_movies"
                                   THEN [i \in 1..atoi(text) |-> "one"]
                                   ELSE Tail(due.prompts))
      BY <3>1 DEF TypeAnswer
    <3>4. Answered(due, typed, due')
      BY <3>3 DEF Answered
    <3>5. due' \in Dues
      BY <3>3, NextDue DEF Typed
    <3> HIDE DEF typed
    <3>6. (\E more : Traces(more))'
      BY <2>3, <3>2, <3>3, <3>4, <3>5, TypeStep
    <3> QED
      BY <2>4, <3>6
  <2>6. CASE Close /\ UNCHANGED input
    <3>1. UNCHANGED due
      BY <2>6 DEF Close
    <3>2. Traces(left)'
      BY <2>2, <2>6, <1>1, <3>1 DEF Traces
    <3> QED
      BY <2>4, <3>2
  <2>7. CASE Close /\ ~UNCHANGED input
    <3>1. PICK text \in (Words \cup Answers) \ {Empty} :
            input' = Append(input, [text |-> text, for |-> due])
      BY <2>7 DEF Close
    <3> DEFINE typed == [text |-> text, for |-> due]
    <3>2. text \in Texts /\ IsText(text)
      BY <3>1, TypedLines, StringsAssumption
    <3>3. typed \in Line
      BY <3>1, <3>2 DEF Line, Typed
    <3>4. Len(text) \in 1..Len(text)
      BY <3>1, <3>2 DEF IsText
    <3>5. SubSeq(text, Len(text), Len(text)) # Newline
      BY <3>1, <3>4, WordsAssumption
    <3>6. Answered(due, typed, due')
      BY <3>5 DEF Answered
    <3>7. due' = due /\ due \in Dues
      BY <2>7 DEF Close, Typed
    <3> HIDE DEF typed
    <3>8. input' = Append(input, typed)
      BY <3>1 DEF typed
    <3>9. (\E more : Traces(more))'
      BY <2>3, <3>3, <3>6, <3>7, <3>8, TypeStep
    <3> QED
      BY <2>4, <3>9
  <2> QED
    BY <1>4, <2>5, <2>6, <2>7 DEF User
<1> QED
  BY <1>3, <1>4

\* No step makes the client and the user differ while nothing has gone astray.
LEMMA NextAgreed == Typed /\ Agreed /\ [Next]_vars => Agreed'
<1> SUFFICES ASSUME Typed, Agreed, [Next]_vars PROVE Agreed'
  OBVIOUS
<1>1. CASE UNCHANGED vars
  BY <1>1, QuietStep DEF vars, userVars, Agreed, Need
<1>2. CASE Fetch
  BY <1>2, FetchAgreed
<1>3. CASE read_input
  BY <1>3, PromptAgreed
<1>4. CASE User
  BY <1>4, UserAgreed
<1>5. CASE Call
  <2>1. pc = "dispatch" /\ pc' = "prompting" /\ prompts' = Arrays(command)
        /\ UNCHANGED <<input, due, command, answered, astray>>
    BY <1>5 DEF Call, userVars
  <2>2. Need' = Need
    BY <2>1, SamePrompts DEF Need
  <2> QED
    BY <2>1, <2>2, QuietStep
<1>6. CASE NoSuchCommand \/ RefuseAtOnce \/ Exit
  <2>1. /\ pc = "dispatch" /\ pc' # "dispatch" /\ prompts' = <<>>
        /\ UNCHANGED <<input, due, command>> /\ (answered => answered')
    BY <1>6 DEF NoSuchCommand, RefuseAtOnce, Exit, Return, userVars, Typed
  <2>2. ~astray' => ~astray /\ Arrays(command) = <<>>
    <3>1. CASE RefuseAtOnce
      BY <3>1 DEF RefuseAtOnce
    <3>2. CASE NoSuchCommand \/ Exit
      <4>1. command \notin Handlers /\ UNCHANGED astray
        BY <3>2 DEF NoSuchCommand, Exit, Handlers, AdminCommands, LibraryCommands
      <4> QED
        BY <4>1, SamePrompts
    <3> QED
      BY <1>6, <3>1, <3>2
  <2>3. ~astray' => ~astray /\ Need' = Need
    BY <2>1, <2>2, SamePrompts DEF Need
  <2> QED
    BY <2>1, <2>3, QuietStep
<1>7. CASE RefuseAnswers \/ Submit \/ Conclude \/ Killed
  <2>1. /\ pc \in {"prompting", "waiting"} /\ pc' \in {"fetch", "waiting", "ended"}
        /\ prompts = <<>> /\ prompts' = <<>> /\ (answered => answered')
        /\ UNCHANGED <<input, due, command, astray>>
    BY <1>7 DEF RefuseAnswers, Submit, Conclude, Killed, Return, userVars, Typed
  <2>2. Need' = Need
    BY <2>1 DEF Need
  <2> QED
    BY <2>1, <2>2, QuietStep
<1> QED
  BY <1>1, <1>2, <1>3, <1>4, <1>5, <1>6, <1>7 DEF Next, Client, Done

\* At the start nothing is to be asked or answered.
LEMMA InitAgreed == Init => Agreed
<1> SUFFICES ASSUME Init PROVE Agreed
  OBVIOUS
<1>1. input = <<>> /\ due = Nothing /\ prompts = <<>> /\ pc = "fetch" /\ answered
  BY DEF Init
<1>2. Len(input) = 0 /\ Need = Nothing
  BY <1>1, Counting DEF Need, Asked
<1>3. PICK left : left = [i \in 0..0 |-> Nothing]
  OBVIOUS
<1>4. /\ left \in [0..Len(input) -> Dues]
      /\ left[0] = Nothing /\ left[Len(input)] = Nothing
  BY <1>2, <1>3 DEF Dues
<1>5. Traces(left)
  BY <1>1, <1>2, <1>4 DEF Traces
<1> QED
  BY <1>1, <1>5 DEF Agreed

-----------------------------------------------------------------------------

\* What holds in every state of the loop.
THEOREM Invariance == Spec => []IInv
<1>1. Init => IInv
  BY InitTyped, InitAgreed DEF IInv
<1>2. IInv /\ [Next]_vars => IInv'
  BY NextTyped, NextAgreed DEF IInv
<1> QED
  BY <1>1, <1>2, PTL DEF Spec

\* The loop's variables hold values of their kinds, and only a handler that asks has
\* prompts left, whatever is typed and whatever number of movies is asked for.
THEOREM TypesKept == Spec => []TypeOK
<1>1. IInv => TypeOK
  <2> SUFFICES ASSUME IInv PROVE TypeOK
    OBVIOUS
  <2>1. \A i \in DOMAIN input :
          input[i].text \in STRING \ {Empty} /\ input[i].for \in Dues
    <3>1. \A i \in DOMAIN input : input[i] \in Line
      BY DEF IInv, Typed
    <3>2. \A typed \in Line : typed.text \in STRING \ {Empty} /\ typed.for \in Dues
      BY SomeTexts DEF Line
    <3> QED
      BY <3>1, <3>2
  <2>2. command \in STRING /\ line.text \in STRING /\ line.for \in Dues
    BY SomeTexts DEF IInv, Typed
  <2>3. session \in BOOLEAN \X BOOLEAN \X BOOLEAN
    BY DEF IInv, Typed, session
  <2> QED
    BY <2>1, <2>2, <2>3 DEF IInv, Typed, Sizes, TypeOK
<1> QED
  BY <1>1, Invariance, PTL

\* main removes the last character of an empty array only after the input has ended:
\* a line that is read is never empty, whatever was typed.
THEOREM NoUnderflowBefore == Spec => []UnderflowOnlyAtEnd
<1>1. IInv => UnderflowOnlyAtEnd
  BY DEF IInv
<1> QED
  BY <1>1, Invariance, PTL

\* However far the user types ahead, main takes an answer for a command only after a
\* line was cut, the input ended or a handler returned before its prompts.
THEOREM CommandsAreCommands == Spec => []InStep
<1>1. IInv => InStep
  BY DEF IInv, Agreed, InStep
<1> QED
  BY <1>1, Invariance, PTL

\* A request is made of what was typed for it: until a line was cut, the input ended
\* or answers were skipped, each array holds the answer to its own prompt, and no
\* answer is left over when the request is sent.
THEOREM AnswersKept == Spec => []AnswersAsTyped
<1>1. IInv => AnswersAsTyped
  <2> SUFFICES ASSUME IInv, pc = "waiting", ~astray
               PROVE  answered /\ (due # Nothing => \E i \in DOMAIN input : input[i].for = Nothing)
    BY DEF AnswersAsTyped
  <2>1. PICK left : Traces(left)
    BY DEF IInv, Agreed
  <2>2. left[0] = Nothing
    BY <2>1, Counting DEF IInv, Typed, Traces, Need, Asked
  <2>3. input \in Seq(Line) /\ Len(input) \in Nat /\ answered
    BY DEF IInv, Typed, Agreed
  <2>4. CASE Len(input) = 0
    BY <2>1, <2>2, <2>3, <2>4 DEF Traces
  <2>5. CASE Len(input) # 0
    <3>1. 1 \in 1..Len(input) /\ 1 - 1 = 0 /\ 1 \in DOMAIN input
      BY <2>3, <2>5
    <3>2. Answered(left[0], input[1], left[1])
      BY <2>1, <3>1 DEF Traces
    <3>3. input[1].for = Nothing
      BY <2>2, <3>2 DEF Answered
    <3> QED
      BY <2>3, <3>1, <3>3
  <2> QED
    BY <2>4, <2>5
<1> QED
  BY <1>1, Invariance, PTL
=============================================================================
