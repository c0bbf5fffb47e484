------------------------------- MODULE Exchange -------------------------------
(***************************************************************************)
(* One command from the user's answers to what the client makes of the     *)
(* reply: the handlers of client.c with requests.c, helpers.c and parson.c *)
(* under them.  The answers are checked and made an object (Validation),   *)
(* the object a text (JsonText), the text a request (Http); the server     *)
(* reads the request and the object in it and replies; the client takes    *)
(* the cookie or the body out of the reply and parses the body.  The       *)
(* connection that carries both is Connection's.                           *)
(***************************************************************************)
EXTENDS Http, JsonText, Validation

CONSTANTS
    Texts,            \* what the user may type, by prompt
    Cookies, Tokens,  \* what the client may hold, and the server give
    Values,           \* what the server may reply to get_movies
    Styles            \* how servers write JSON: [newline, ascii]

VARIABLES
    text,             \* the body that is to be parsed
    command, typed,   \* the handler that runs, the answers to its prompts
    cookie, token,    \* what the client holds; NULL: nothing
    phase,            \* where the exchange stands
    wire,             \* the message on the connection
    seen, decoded,    \* the server: the request and the object in it
    reply,            \* the server: what it meant to reply
    result            \* the client: what json_parse_string returned

vars == <<text, command, typed, cookie, token, phase, wire, seen, decoded, reply, result>>

\* No text is NULL.
ASSUME NullAssumption == NULL \notin Text

\* A line that is typed is a text.
ASSUME TextsAssumption ==
    Texts \in [{"admin_username", "username", "password", "title", "year", "description",
               "rating", "id", "collection_id", "movie_id"} -> SUBSET Seq(Piece)]

\* The prompts of each handler, and what may be answered.
Answers ==
    LET movie == [title : Texts.title, year : Texts.year,
                  description : Texts.description, rating : Texts.rating]
        id == [id : Texts.id]
    IN  [login_user |-> [admin_username : Texts.admin_username,
                         username : Texts.username, password : Texts.password],
         add_user |-> [username : Texts.username, password : Texts.password],
         get_access |-> {NULL},
         get_movies |-> {NULL},
         get_movie |-> id,
         add_movie |-> movie,
         update_movie |-> [id : Texts.id, title : Texts.title, year : Texts.year,
                           description : Texts.description, rating : Texts.rating],
         delete_movie |-> id,
         add_collection |-> [title : Texts.title],
         add_movie_to_collection |-> [collection_id : Texts.collection_id,
                                      movie_id : Texts.movie_id]]

\* The guard at the head of each handler.
Held ==
    CASE command = "login_user" -> cookie = NULL
      [] command \in {"add_user", "get_access"} -> cookie # NULL
      [] OTHER -> token # NULL

-----------------------------------------------------------------------------
(* The client's request.                                                   *)

Method ==
    [login_user |-> "POST", add_user |-> "POST", get_access |-> "GET",
     get_movies |-> "GET", get_movie |-> "GET", add_movie |-> "POST",
     update_movie |-> "PUT", delete_movie |-> "DELETE", add_collection |-> "POST",
     add_movie_to_collection |-> "POST"]

Url(c, answers) ==
    CASE c = "login_user" -> <<"/user/login">>
      [] c = "add_user" -> <<"/admin/users">>
      [] c = "get_access" -> <<"/library/access">>
      [] c \in {"get_movies", "add_movie"} -> <<"/library/movies">>
      [] c \in {"get_movie", "update_movie", "delete_movie"} ->
            <<"/library/movies/">> \o answers.id
      [] c = "add_collection" -> <<"/library/collections">>
      [] c = "add_movie_to_collection" ->
            <<"/library/collections/">> \o answers.collection_id \o <<"/movies">>

HasBody(c) == Method[c] \in {"POST", "PUT"}

Object(c, answers) == [type |-> "object", of |-> Members(c, answers)]

\* What the handler passes to requests.c.
Meant(c, answers) ==
    [method |-> Method[c],
     url |-> Url(c, answers),
     cookie |-> IF c = "login_user" THEN NULL ELSE cookie,
     token |-> IF c \in {"login_user", "add_user", "get_access"} THEN NULL ELSE token,
     body |-> IF HasBody(c) THEN TextOf(Object(c, answers), <<>>, FALSE) ELSE NULL]

\* A path ends at " HTTP/1.1".  No handler looks for that in an id: the ids that are
\* typed are those without it.
ASSUME PathsAssumption ==
    \A c \in DOMAIN Answers : \A answers \in Answers[c] :
        Accepted(c, answers) => Url(c, answers) \in Seq(Piece \ Reserved)

\* Strings of pieces, and numbers that are written as such.
ASSUME RequestsAssumption ==
    \A c \in DOMAIN Answers : \A answers \in Answers[c] :
        Accepted(c, answers) /\ HasBody(c) => Object(c, answers) \in Value

\* One of them chooses the answers; the checks come first.
Send ==
    /\ phase = "asking"
    /\ \E answers \in Answers[command] :
          /\ Accepted(command, answers)
          /\ typed' = answers
          /\ wire' = Composed(Meant(command, answers))
    /\ phase' = "request"
    /\ UNCHANGED <<text, command, cookie, token, seen, decoded, reply, result>>

Refuse ==
    /\ phase = "asking"
    /\ \E answers \in Answers[command] :
          /\ ~Accepted(command, answers)
          /\ typed' = answers
    /\ phase' = "refused"
    /\ UNCHANGED <<text, command, cookie, token, wire, seen, decoded, reply, result>>

-----------------------------------------------------------------------------
(* The server (external).                                                  *)

Receive ==
    /\ phase = "request"
    /\ seen' = Understood(wire)
    /\ text' = IF seen'.body = NULL THEN <<>> ELSE seen'.body
    /\ phase' = "received"
    /\ UNCHANGED <<command, typed, cookie, token, wire, decoded, reply, result>>

Decode ==
    /\ phase = "received"
    /\ decoded' = IF HasBody(command) THEN json_parse_string(text) ELSE NULL
    /\ phase' = "answering"
    /\ UNCHANGED <<text, command, typed, cookie, token, wire, seen, reply, result>>

Said(name, string) ==
    [type |-> "object",
     of |-> <<[name |-> <<name>>, value |-> [type |-> "string", of |-> string]]>>]

Titled == Said("title", <<"a", Quote>>)
Numbered ==
    [type |-> "object",
     of |-> <<[name |-> <<"id">>, value |-> [type |-> "number", of |-> <<"1", "0">>]]>>]
Denied == Said("error", <<"a", NewLine, Astral>>)

\* A field ends with its line, and the cookie at the first ';'.
ASSUME CredentialsAssumption ==
    /\ Cookies \subseteq Seq(Piece \ (Reserved \cup {Semicolon}))
    /\ Tokens \subseteq Seq(Piece \ Reserved)
    /\ CookieEnds \subseteq Seq(Piece)

\* What the server says is JSON, with blanks where it likes.
ASSUME RepliesAssumption ==
    /\ {OK, CREATED, NO_CONTENT, NoContent, NotFound, "id"} \subseteq Piece
    /\ {"a", "]"} \subseteq Piece \ Figure
    /\ Styles \subseteq [newline : Seq(WhiteSpace), ascii : BOOLEAN]
    /\ Values \cup {Titled, Numbered, Denied} \cup {Said("token", given) : given \in Tokens}
          \subseteq Value

\* What may become of a body on its way: nothing, an end too early, a mark of the
\* byte order before it, pieces behind its end that no number goes on with or one
\* that some do, a piece lost.
Damaged(body) ==
    {[fault |-> "none", sent |-> body], [fault |-> "bom", sent |-> <<Bom>> \o body],
     [fault |-> "figure", sent |-> body \o <<"0">>]}
    \cup {[fault |-> "cut", sent |-> SubSeq(body, 1, n)] : n \in 0..(Len(body) - 1)}
    \cup {[fault |-> "more", sent |-> body \o <<more>>] : more \in {"a", "]"}}
    \cup {[fault |-> "lost", sent |-> RemoveAt(body, n)] : n \in DOMAIN body}

Answered(status, fields, value, body, fault, given) ==
    /\ wire' = Reply(status, fields, Len(body), body)
    /\ reply' = [status |-> status, value |-> value, body |-> body,
                 fault |-> fault, given |-> given]
    /\ phase' = "reply"
    /\ UNCHANGED <<text, command, typed, cookie, token, seen, decoded, result>>

\* The status lines that each handler takes for a positive reply.
Positive(c) ==
    CASE c = "get_movies" -> {OK}
      [] c \in {"update_movie", "delete_movie"} -> {OK, NoContent}
      [] c = "add_collection" -> {CREATED, OK}
      [] OTHER -> {OK, CREATED, NO_CONTENT}

\* These look for something in the body of a positive reply.
Reading == {"get_access", "get_movies", "get_movie", "add_collection"}

\* A login is answered with a cookie, get_access with a token, add_collection with
\* the number of the collection; no content with nothing that anybody reads.
Grant ==
    /\ phase = "answering"
    /\ command # "get_movies"
    /\ \E style \in Styles :
       \E status \in IF command \in Reading THEN Positive(command) \cap {OK, CREATED}
                     ELSE Positive(command) :
       \E given \in IF command = "login_user" THEN Cookies
                    ELSE IF command = "get_access" THEN Tokens ELSE {NULL} :
       \E fields \in IF command = "login_user" THEN FieldsWith(given)
                     ELSE TypeFields :
          LET value == IF command = "get_access" THEN Said("token", given)
                       ELSE IF command = "add_collection" THEN Numbered
                       ELSE Titled
          IN  Answered(status, fields, value,
                       TextOf(value, style.newline, style.ascii), "none", given)

GrantMovies ==
    /\ phase = "answering"
    /\ command = "get_movies"
    /\ \E value \in Values, style \in Styles :
       \E damaged \in Damaged(TextOf(value, style.newline, style.ascii)) :
          Answered(OK, TypeField(<<>>), value,
                   damaged.sent, damaged.fault, NULL)

Deny ==
    /\ phase = "answering"
    /\ \E style \in Styles, type \in TypeFields :
          Answered(NotFound, type, Denied,
                   TextOf(Denied, style.newline, style.ascii), "none", NULL)

-----------------------------------------------------------------------------
(* The client and the reply.                                               *)

\* login_user, granted.
TakeCookie ==
    /\ phase = "reply"
    /\ command = "login_user" /\ Granted(wire, Positive(command))
    /\ cookie' = extract_cookie(wire)
    /\ phase' = "done"
    /\ UNCHANGED <<text, command, typed, token, wire, seen, decoded, reply, result>>

\* The handlers that read what they asked for, and server_error.
TakeBody ==
    /\ phase = "reply"
    /\ ~Granted(wire, Positive(command)) \/ command \in Reading
    /\ text' = json_body(wire)
    /\ phase' = "parsing"
    /\ UNCHANGED <<command, typed, cookie, token, wire, seen, decoded, reply, result>>

\* The others only look at the status.
TakeNothing ==
    /\ phase = "reply"
    /\ Granted(wire, Positive(command))
    /\ command \notin Reading \cup {"login_user"}
    /\ phase' = "done"
    /\ UNCHANGED <<text, command, typed, cookie, token, wire, seen, decoded, reply, result>>

\* What the member of that name is made of.
Contents(read, name) ==
    (CHOOSE f \in ToSet(read.json.of) : f.name = <<name>>).value.of

\* get_access keeps the token it finds (and add_collection the number: see
\* AddCollection).
Parse ==
    /\ phase = "parsing"
    /\ result' = json_parse_string(text)
    /\ token' = IF command = "get_access" /\ Granted(wire, Positive(command))
                THEN Contents(result', "token") ELSE token
    /\ phase' = "done"
    /\ UNCHANGED <<text, command, typed, cookie, wire, seen, decoded, reply>>

Init ==
    /\ text = <<>>
    /\ command \in DOMAIN Answers
    /\ typed = NULL
    /\ cookie \in Cookies \cup {NULL}
    /\ token \in Tokens \cup {NULL}
    /\ Held
    /\ phase = "asking"
    /\ wire = <<>>
    /\ seen = NULL /\ decoded = NULL /\ reply = NULL /\ result = NULL

Next ==
    \/ Send \/ Refuse
    \/ Receive \/ Decode \/ Grant \/ GrantMovies \/ Deny
    \/ TakeCookie \/ TakeBody \/ TakeNothing \/ Parse

Spec == Init /\ [][Next]_vars

-----------------------------------------------------------------------------
(* The request.                                                            *)

\* The server reads out of a request the method, the path, the cookie, the token
\* and the body that the handler gave to requests.c, whatever the user typed but an
\* id with " HTTP/1.1" in it; an empty cookie or token counts as none.
ReadAsMeant ==
    phase = "received" => seen = AsGiven(Meant(command, typed))

Arrived == phase = "answering" /\ HasBody(command)

NamesIn(read) == {f.name : f \in ToSet(read.json.of)}

\* Every string that reaches the server is the one the user typed, character by
\* character, and only those that are not UTF-8 do not reach it.
StringsArrive ==
    Arrived =>
        /\ decoded.ok
        /\ \A p \in DOMAIN typed \cap {"admin_username", "username", "password",
                                       "title", "description"} :
              IF "latin1" \in ToSet(typed[p]) THEN <<p>> \notin NamesIn(decoded)
              ELSE Contents(decoded, p) = typed[p]

MovieArrived == Arrived /\ command \in {"add_movie", "update_movie"}

\* A rating that reaches the server is the number typed and lies between 0.0 and
\* 10.0; if none reaches it, the text was not a number.
RatingKept ==
    MovieArrived =>
        LET rating == NumberOf[Last(typed.rating)] IN
        \/ rating = NaN /\ <<"rating">> \notin NamesIn(decoded)
        \/ rating \in 0..100 /\ Contents(decoded, "rating") = NumberText(rating)

\* A year that fits an int reaches the server as it was typed; none typed is 0.
YearKept ==
    MovieArrived =>
        LET year == IF typed.year = <<>> THEN 0 ELSE NumberOf[Head(typed.year)]
        IN  \/ year \div 10 >= 2^(IntBits - 1)
            \/ Contents(decoded, "year") = NumberText(year)

\* No user is created under a name, or with a password, that is empty or has a
\* blank in it.
NamesSound ==
    Arrived /\ command = "add_user" =>
        \A f \in ToSet(decoded.json.of) :
            f.value.of # <<>> /\ Blank \notin ToSet(f.value.of)

\* What the handlers check is true of what the server stores, and the conversions
\* behind the checks change nothing: ratings, years and names.
InputKept == RatingKept /\ YearKept /\ NamesSound

-----------------------------------------------------------------------------
(* The reply.                                                              *)

\* After a login the client holds the cookie the server gave, without what stands
\* behind it, wherever the field stood; after get_access it holds the token.
CredentialsTaken ==
    phase = "done" /\ reply.given # NULL =>
        reply.given = IF command = "login_user" THEN cookie ELSE token

\* The body that is parsed is the one the server sent, blank lines and all.
BodyTaken == phase = "parsing" => text = reply.body

\* Whatever a server writes, in its own layout and with or without escapes, is
\* read as what it means, with a mark of the byte order before it and with anything
\* behind it that does not make another number of it, unless it is nested too
\* deeply or names a member twice.
ReplyRead ==
    phase = "done" /\ result # NULL /\ WellFormed(reply.value)
        /\ (\/ reply.fault \in {"none", "bom", "more"}
            \/ reply.fault = "figure" /\ reply.value.type # "number") =>
        result.ok /\ result.json = reply.value

\* A string, an array, an object or a literal whose end is missing is never taken
\* for a shorter one; only a number may be.
CutRefused ==
    phase = "done" /\ result # NULL /\ reply.fault = "cut"
        /\ reply.value.type # "number" =>
        ~result.ok

\* Whatever is accepted keeps to the limit on nesting and names no member twice,
\* the damaged texts included.
WithinLimits ==
    result # NULL /\ result.ok =>
        WellFormed(result.json)
=============================================================================
