----------------------------- MODULE CommandLoop -----------------------------
(***************************************************************************)
(* The loop in main and read_input: how lines of standard input become     *)
(* calls of handlers and answers to their prompts.  fgets takes what fits  *)
(* into an array and leaves the array alone at the end of input; the last  *)
(* character of the array is removed whatever it is.                       *)
(*                                                                         *)
(* The user types ahead: a command, then the answers it will ask for,      *)
(* without looking at what is printed, except that at an idle prompt the   *)
(* next command may be begun afresh.  A handler sends what it has read, or *)
(* refuses to; the reply may set or clear what its guard looks at.         *)
(***************************************************************************)
EXTENDS Integers, Sequences, TLC

CONSTANTS
    Words,       \* what the user types as a command
    Answers,     \* what the user types as an answer to a prompt
    Stale,       \* what an array that was never written may hold
    MaxAhead,    \* bounds the lines typed and not yet read
    atoi(_)      \* the library's function: the number a text begins with, or 0

ASSUME MaxAheadAssumption == MaxAhead \in Nat \ {0}

Empty == ""
Newline == "\n"

\* What is typed is a line or a part of one.
ASSUME WordsAssumption ==
    \A typed \in Words \cup Answers :
        \A k \in 1..Len(typed) : SubSeq(typed, k, k) # Newline

\* The texts that arrays and lines may hold: the parts of what is typed or stale.
Texts ==
    {Empty} \cup UNION {{SubSeq(whole, m, n) : m, n \in 1..Len(whole)} :
                       whole \in Stale \cup {typed \o Newline : typed \in Words \cup Answers}}

ASSUME AtoiAssumption == \A text \in Texts : atoi(text) \in Int

\* A string is a sequence of characters, and its parts are strings.
IsText(s) ==
    /\ Len(s) \in Nat
    /\ s = Empty <=> Len(s) = 0
    /\ SubSeq(s, 1, Len(s)) = s
    /\ \A n \in 1..Len(s) :
         /\ SubSeq(s, 1, n - 1) \in Texts
         /\ SubSeq(s, 1, n) \in Texts \ {Empty}
    /\ \A size \in {10, 50, 100, 1000} :
         /\ SubSeq(s, size, Len(s)) \in Texts
         /\ Len(s) < size => SubSeq(s, size, Len(s)) = Empty

\* A line is what was typed and a newline.
IsLine(typed) ==
    LET text == typed \o Newline IN
    /\ text \in Texts \ {Empty}
    /\ SubSeq(text, 1, Len(text) - 1) = typed
    /\ SubSeq(text, Len(text), Len(text)) = Newline

\* (TLC knows strings so; the provers do not.)
ASSUME StringsAssumption ==
    /\ Stale \cup Words \subseteq Texts /\ Texts \subseteq STRING
    /\ \A typed \in Words \cup Answers : IsLine(typed)
    /\ \A s \in Texts : IsText(s)

VARIABLES
    \* standard input
    input,        \* the lines not read yet: [text, for], "for" what was due then
    closed,       \* nothing more will come
    due,          \* what the user has still to answer, or Nothing
    \* the process
    pc,           \* "fetch", "dispatch", "prompting", "waiting" or "ended"
    command,      \* main's array, up to its terminator
    prompts,      \* the prompts the running handler has still to print
    untitled,     \* the title add_collection has read is empty
    admin_cookie, user_cookie, jwt_token,   \* which of them are not NULL
    \* history
    line,         \* the line that main read last, as it was typed
    answered,     \* each array of the handler holds what was typed for its prompt
    astray,       \* since the last idle prompt a line was cut or its prompt skipped
    underflow     \* main has written to command[-1]

userVars == <<input, closed, due>>
session == <<admin_cookie, user_cookie, jwt_token>>
vars == <<userVars, pc, command, prompts, untitled, session, line, answered, astray,
          underflow>>

\* The prompts of a command that are still to be answered.
Nothing == [cmd |-> Empty, prompts |-> <<>>]

Asked(cmd, left) == IF left = <<>> THEN Nothing ELSE [cmd |-> cmd, prompts |-> left]

-----------------------------------------------------------------------------
\* The commands.

AdminCommands == {"add_user", "get_users", "delete_user"}

LibraryCommands ==
    {"get_movies", "add_movie", "get_movie", "update_movie", "delete_movie",
     "add_collection", "get_collections", "get_collection", "delete_collection",
     "add_movie_to_collection", "delete_movie_from_collection"}

\* The functions main can call.
Handlers ==
    {"login_admin", "login", "logout_admin", "logout", "get_access"}
        \cup AdminCommands \cup LibraryCommands

\* These read their prompts before they look at the session.
AskFirst == {"login_admin", "login"}

LoggedIn == admin_cookie \/ user_cookie

\* What the others look at before they ask for anything.
Permitted(cmd) ==
    CASE cmd \in {"logout_admin"} \cup AdminCommands -> admin_cookie
      [] cmd \in {"logout", "get_access"}           -> user_cookie
      [] cmd \in LibraryCommands                    -> jwt_token

\* These check what they read and may refuse it.
Validating ==
    {"add_user", "delete_user", "add_movie", "update_movie",
     "add_movie_to_collection"}

\* A slip: the number of movies is asked for before the title.
CollectionArrays_NumberFirst == <<10, 1000>>

CollectionArrays == <<1000, 10>>

\* The sizes of the arrays that read_input fills, in the order of the prompts.
Arrays(cmd) ==
    CASE cmd \in {"login_admin", "add_user"}  -> <<50, 50>>
      [] cmd = "login"                        -> <<100, 100, 100>>
      [] cmd = "delete_user"                  -> <<100>>
      [] cmd = "add_movie"                    -> <<100, 100, 100, 100>>
      [] cmd = "update_movie"                 -> <<100, 1000, 1000, 1000, 1000>>
      [] cmd = "add_collection"               -> CollectionArrays
      [] cmd \in {"get_movie", "delete_movie", "get_collection",
                  "delete_collection"}        -> <<50>>
      [] cmd \in {"add_movie_to_collection",
                  "delete_movie_from_collection"} -> <<50, 50>>
      [] OTHER                                -> <<>>

\* A slip: the loop over the movies runs once too often.
MovieArrays_OneMore(num_movies) == [i \in 1..(num_movies + 1) |-> 50]

\* A slip: the size given to read_input is that of the prompt's array.
MovieArrays_PromptSize(num_movies) == [i \in 1..num_movies |-> 30]

MovieArrays(num_movies) == [i \in 1..num_movies |-> 50]

\* What the prompts for arrays of these sizes ask for.
PromptsOf(sizes) ==
    [i \in 1..Len(sizes) |-> IF sizes[i] = 10 THEN "num_movies" ELSE "one"]

-----------------------------------------------------------------------------
\* Reading.

Least(m, n) == IF m < n THEN m ELSE n

Readable == input # <<>> \/ closed

\* A slip: the line is read by a function that drops its newline.
fgets_NoNewline(size, array) ==
    IF input = <<>> THEN array
    ELSE LET text == Head(input).text IN SubSeq(text, 1, Least(size - 1, Len(text) - 1))

\* What the array holds after fgets(array, size, stdin).
fgets(size, array) ==
    IF input = <<>> THEN array
    ELSE LET text == Head(input).text IN SubSeq(text, 1, Least(size - 1, Len(text)))

\* What is left to be read after it.
Unread(size) ==
    LET rest == SubSeq(Head(input).text, size, Len(Head(input).text)) IN
    IF input = <<>> THEN input
    ELSE IF rest = Empty THEN Tail(input)
    ELSE <<[Head(input) EXCEPT !.text = rest]>> \o Tail(input)

\* A slip, and a likely repair: only a newline is removed.
WithoutLast_NewlineOnly(text) ==
    IF text # Empty /\ SubSeq(text, Len(text), Len(text)) = Newline
    THEN SubSeq(text, 1, Len(text) - 1) ELSE text

\* s[strlen(s) - 1] = '\0', which for an empty s writes before the array.
WithoutLast(text) == IF text = Empty THEN Empty ELSE SubSeq(text, 1, Len(text) - 1)

\* The line that is read next fits, with its newline.
Fits(size) ==
    LET text == Head(input).text IN
    /\ input # <<>>
    /\ Len(text) < size
    /\ SubSeq(text, Len(text), Len(text)) = Newline

-----------------------------------------------------------------------------
\* The process.

\* main's fgets and the removal of the last character.
Fetch ==
    LET got == fgets(50, command) IN
    /\ pc = "fetch"
    /\ Readable
    /\ command' = WithoutLast(got)
    /\ underflow' = (underflow \/ got = Empty)
    /\ input' = Unread(50)
    /\ line' = IF input = <<>> THEN line ELSE Head(input)
    /\ astray' = (astray \/ ~Fits(50))
    /\ pc' = "dispatch"
    /\ UNCHANGED <<closed, due, prompts, untitled, session, answered>>

Return ==
    /\ pc' = "fetch"
    /\ prompts' = <<>>
    /\ untitled' = FALSE
    /\ answered' = TRUE
    /\ UNCHANGED <<userVars, command, line, underflow>>

Exit ==
    /\ pc = "dispatch"
    /\ command = "exit"
    /\ pc' = "ended"
    /\ UNCHANGED <<userVars, command, prompts, untitled, session, line, answered,
                   astray, underflow>>

NoSuchCommand ==
    /\ pc = "dispatch"
    /\ command \notin Handlers \cup {"exit"}
    /\ Return
    /\ UNCHANGED <<session, astray>>

\* The handler's guard fails before it has asked for anything: the answers the
\* user has typed for it are read as commands.
RefuseAtOnce ==
    /\ pc = "dispatch"
    /\ command \in Handlers \ AskFirst
    /\ ~Permitted(command)
    /\ Return
    /\ astray' = (astray \/ Arrays(command) # <<>>)
    /\ UNCHANGED session

Call ==
    /\ pc = "dispatch"
    /\ command \in Handlers
    /\ command \notin AskFirst => Permitted(command)
    /\ prompts' = Arrays(command)
    /\ pc' = "prompting"
    /\ UNCHANGED <<userVars, command, untitled, session, line, answered, astray,
                   underflow>>

\* read_input; at the end of input its array keeps what it happened to hold.
\* After num_movies add_collection returns if it has no title, and asks for each
\* movie if it has one.
read_input ==
    LET size == Head(prompts)
        title == command = "add_collection" /\ size = 1000
        number == command = "add_collection" /\ size = 10 IN
    /\ pc = "prompting"
    /\ prompts # <<>>
    /\ Readable
    /\ \E array \in IF input = <<>> THEN Stale ELSE {Empty} :
         LET answer == WithoutLast(fgets(size, array)) IN
         /\ untitled' = IF title THEN answer = Empty ELSE untitled
         /\ prompts' = IF number /\ ~untitled
                       THEN MovieArrays(atoi(answer)) ELSE Tail(prompts)
         /\ answered' = /\ answered
                         /\ input # <<>>
                         /\ Head(input).for = Asked(command, PromptsOf(prompts))
                         /\ Head(input).text = answer \o Newline
         /\ astray' = \/ astray
                       \/ ~Fits(size)
                       \/ (number /\ untitled /\ atoi(answer) > 0)
    /\ input' = Unread(size)
    /\ UNCHANGED <<closed, due, pc, command, session, line, underflow>>

\* All is read: a login looks at the session now, a handler that validates may
\* refuse what it has read.
RefuseAnswers ==
    /\ pc = "prompting"
    /\ prompts = <<>>
    /\ (command \in AskFirst /\ LoggedIn) \/ command \in Validating \/ untitled
    /\ Return
    /\ UNCHANGED <<session, astray>>

Submit ==
    /\ pc = "prompting"
    /\ prompts = <<>>
    /\ ~untitled
    /\ command \in AskFirst => ~LoggedIn
    /\ pc' = "waiting"
    /\ UNCHANGED <<userVars, command, prompts, untitled, session, line, answered,
                   astray, underflow>>

\* The reply, or the last reply to add_collection, is there.
Conclude ==
    /\ pc = "waiting"
    /\ admin_cookie' \in CASE command = "login_admin"  -> BOOLEAN
                            [] command = "logout_admin" -> {FALSE}
                            [] OTHER                    -> {admin_cookie}
    /\ user_cookie' \in CASE command = "login"  -> BOOLEAN
                           [] command = "logout" -> {FALSE}
                           [] OTHER              -> {user_cookie}
    /\ jwt_token' \in IF command = "get_access" THEN {jwt_token, TRUE} ELSE {jwt_token}
    /\ Return
    /\ UNCHANGED astray

\* The process dies in its handler (see Client and Connection).
Killed ==
    /\ pc = "waiting"
    /\ pc' = "ended"
    /\ UNCHANGED <<userVars, command, prompts, untitled, session, line, answered,
                   astray, underflow>>

-----------------------------------------------------------------------------
\* The user.

\* The client waits for a command and everything typed is read.
Idle == pc = "fetch" /\ input = <<>>

Room == ~closed /\ Len(input) < MaxAhead

\* How many answers a command takes, as the checker's scripts give them.
Expected(word) ==
    CASE word \in {"delete_user", "get_movie", "delete_movie", "get_collection",
                   "delete_collection"} -> <<"one">>
      [] word \in {"login_admin", "add_user", "add_movie_to_collection",
                   "delete_movie_from_collection"} -> <<"one", "one">>
      [] word = "login" -> <<"one", "one", "one">>
      [] word = "add_movie" -> <<"one", "one", "one", "one">>
      [] word = "update_movie" -> <<"one", "one", "one", "one", "one">>
      [] word = "add_collection" -> <<"one", "num_movies">>
      [] OTHER -> <<>>

TypeCommand(word) ==
    /\ Room
    /\ due = Nothing \/ Idle
    /\ input' = Append(input, [text |-> word \o Newline, for |-> Nothing])
    /\ due' = Asked(word, Expected(word))
    /\ astray' = (astray /\ ~Idle)
    /\ UNCHANGED <<closed, pc, command, prompts, untitled, session, line, answered,
                   underflow>>

TypeAnswer(text) ==
    /\ Room
    /\ due # Nothing
    /\ input' = Append(input, [text |-> text \o Newline, for |-> due])
    /\ due' = Asked(due.cmd, IF Head(due.prompts) = "num_movies"
                             THEN [i \in 1..atoi(text) |-> "one"] ELSE Tail(due.prompts))
    /\ UNCHANGED <<closed, pc, command, prompts, untitled, session, line, answered,
                   astray, underflow>>

\* The input ends, after a whole line or in the middle of one.
Close ==
    /\ Room
    /\ closed' = TRUE
    /\ \/ UNCHANGED input
       \/ \E text \in (IF due = Nothing THEN Words ELSE Answers) \ {Empty} :
            input' = Append(input, [text |-> text, for |-> due])
    /\ UNCHANGED <<due, pc, command, prompts, untitled, session, line, answered,
                   astray, underflow>>

-----------------------------------------------------------------------------

Init ==
    /\ input = <<>>
    /\ closed = FALSE
    /\ due = Nothing
    /\ pc = "fetch"
    /\ command \in Stale
    /\ prompts = <<>>
    /\ untitled = FALSE
    /\ admin_cookie = FALSE
    /\ user_cookie = FALSE
    /\ jwt_token = FALSE
    /\ line = [text |-> Empty, for |-> Nothing]
    /\ answered = TRUE
    /\ astray = FALSE
    /\ underflow = FALSE

Client ==
    \/ Fetch \/ Exit \/ NoSuchCommand \/ RefuseAtOnce \/ Call \/ read_input
    \/ RefuseAnswers \/ Submit \/ Conclude \/ Killed

User ==
    \/ \E word \in Words : TypeCommand(word)
    \/ \E text \in Answers : TypeAnswer(text)
    \/ Close

Done == pc = "ended" /\ UNCHANGED vars

Next == Client \/ User \/ Done

Spec == Init /\ [][Next]_vars

\* The process runs on, and its requests are answered in the end.  The user has
\* to do nothing.
FairSpec == Spec /\ WF_vars(Client)
-----------------------------------------------------------------------------
\* Properties.

\* What may be due.
Dues == {Nothing} \cup [cmd : STRING, prompts : Seq({"one", "num_movies"}) \ {<<>>}]

\* Every variable holds a value of its kind, and only a handler that is asking has
\* prompts left.
TypeOK ==
    /\ \A i \in DOMAIN input :
         input[i].text \in STRING \ {Empty} /\ input[i].for \in Dues
    /\ Len(input) <= MaxAhead
    /\ closed \in BOOLEAN
    /\ due \in Dues
    /\ pc \in {"fetch", "dispatch", "prompting", "waiting", "ended"}
    /\ command \in STRING
    /\ prompts \in Seq({10, 50, 100, 1000})
    /\ untitled \in BOOLEAN
    /\ session \in BOOLEAN \X BOOLEAN \X BOOLEAN
    /\ line.text \in STRING /\ line.for \in Dues
    /\ answered \in BOOLEAN
    /\ astray \in BOOLEAN
    /\ underflow \in BOOLEAN
    /\ prompts # <<>> => pc = "prompting"

\* Client and user agree on which line is a command and which an answer, however
\* far the user types ahead: main dispatches an answer only if a line did not
\* fit, the input ended, or a handler returned before its prompts, since the
\* client last was idle.
InStep == pc = "dispatch" /\ ~astray => line.for = Nothing

\* What a request is made of is what the user typed for it, whole, each answer at
\* its own prompt, and none of its answers is left to be read as a command, unless
\* since the client last was idle a line did not fit, the input ended or answers
\* were skipped: read_input leaves another call's text in an array at no other time.
AnswersAsTyped ==
    pc = "waiting" /\ ~astray =>
        /\ answered
        /\ due # Nothing => \E i \in DOMAIN input : input[i].for = Nothing

\* main's array is never empty when its last character is removed, so that
\* nothing is written before it, unless the input has ended.
UnderflowOnlyAtEnd == underflow => closed

\* client.c:889: "Check the type of command received and call the corresponding
\* function".  A function is called for the line last read, and for no other.
CalledAsTyped ==
    pc = "dispatch" /\ command \in Handlers => line.text = command \o Newline

\* An "exit" that the user typed ends the process, whatever was typed before it,
\* unless client and user get out of step.
ExitObeyed ==
    (\E i \in DOMAIN input : input[i] = [text |-> "exit\n", for |-> Nothing])
        ~> pc = "ended" \/ astray

\* Once the input has ended no request is sent for ever: the command left in the
\* array loses a character with each iteration until it names no function.
SilentAtEnd == closed ~> [](pc # "waiting")
=============================================================================
