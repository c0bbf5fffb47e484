-------------------------------- MODULE Client --------------------------------
(***************************************************************************)
(* client.c: the globals that hold the session, the nineteen command       *)
(* handlers and the process's end, with the REST server as an external     *)
(* peer.  A handler that talks to the server is split where it blocks in   *)
(* receive_from_server: one disjunct checks its guards and sends, the      *)
(* other handles the reply.  Between the two the server, which may also    *)
(* expire a session on its own, takes its steps.                           *)
(*                                                                         *)
(* A cookie or a token is an opaque value the server issues once.  Names   *)
(* are kept because login_user copies them; passwords, titles and other    *)
(* payloads are not.  A reply carries its status line, because each        *)
(* handler compares that line with a set of its own.  Input validation is  *)
(* a choice here between accepted and rejected input.                      *)
(***************************************************************************)
EXTENDS Naturals

CONSTANTS
    NULL,
    Cookies,      \* the cookies the server can ever issue (bounds the logins)
    Tokens,       \* the library tokens the server can ever issue
    AdminNames,
    UserNames,
    MaxMovies,    \* the largest num_movies a user gives to add_collection
    NoContent     \* how the server spells its "204" status line

ASSUME NullAssumption ==
    NULL \notin Cookies \cup Tokens \cup AdminNames \cup UserNames

ASSUME MaxMoviesAssumption == MaxMovies \in Nat

ASSUME NoContentAssumption ==
    NoContent \in {"204 NO CONTENT", "204 No Content"}

VARIABLES
    \* the process
    pc,             \* "exited", "prompt", "waiting" (in read) or "answered"
    admin_cookie, user_cookie, jwt_token,
    admin_username, user_username,
    request,        \* the request the current handler has sent
    reply,          \* the reply it has received
    todo,           \* movies add_collection has still to post
    report,         \* the verdicts the current command has printed
    \* the server
    sessions,       \* what each cookie stands for
    tokens,         \* the cookie each token was issued under
    \* history
    abandoned       \* cookies dropped with no confirmed logout

globals == <<admin_cookie, user_cookie, jwt_token, admin_username, user_username>>
serverVars == <<sessions, tokens>>
vars == <<pc, globals, request, reply, todo, report, serverVars, abandoned>>

-----------------------------------------------------------------------------

AdminCommands == {"add_user", "get_users", "delete_user"}

\* The requests that carry the library token; "post_movie" is the request that
\* add_collection repeats for each movie.
LibraryCommands ==
    {"get_movies", "add_movie", "get_movie", "update_movie", "delete_movie",
     "add_collection", "post_movie", "get_collections", "get_collection",
     "delete_collection", "add_movie_to_collection",
     "delete_movie_from_collection"}

Requests ==
    AdminCommands \cup LibraryCommands \cup
    {"login_admin", "logout_admin", "login", "logout", "get_access"}

StatusLines ==
    {"200 OK", "201 CREATED", "204 NO CONTENT", "204 No Content", "error"}

Request ==
    [cmd : Requests \cup {"none"}, cookie : Cookies \cup {NULL},
     jwt : Tokens \cup {NULL}, admin : AdminNames \cup {NULL},
     user : UserNames \cup {NULL}]

Reply ==
    [status : StatusLines, cookie : Cookies \cup {NULL},
     token : Tokens \cup {NULL}]

Session ==
    [role : {"unused", "admin", "user"}, admin : AdminNames \cup {NULL},
     user : UserNames \cup {NULL}, live : BOOLEAN]

NoRequest ==
    [cmd |-> "none", cookie |-> NULL, jwt |-> NULL, admin |-> NULL, user |-> NULL]

\* An error reply; also the value of "reply" while there is none.
Refusal == [status |-> "error", cookie |-> NULL, token |-> NULL]

Unused == [role |-> "unused", admin |-> NULL, user |-> NULL, live |-> FALSE]

-----------------------------------------------------------------------------
\* The steps the handlers are made of.

Prompt == pc = "prompt"

Answered(cmd) == pc = "answered" /\ request.cmd = cmd

\* The handler prints and returns to the main loop without a request.
Return(words) ==
    /\ report' = words
    /\ UNCHANGED <<pc, globals, request, reply, todo, serverVars, abandoned>>

\* The handler opens a connection, sends and blocks reading the reply.
Transmit(cmd, cookie, jwt, admin, user) ==
    /\ pc' = "waiting"
    /\ request' = [cmd |-> cmd, cookie |-> cookie, jwt |-> jwt,
                   admin |-> admin, user |-> user]
    /\ reply' = Refusal
    /\ report' = {}
    /\ UNCHANGED <<globals, serverVars, abandoned>>

Issue(cmd, cookie, jwt) ==
    /\ Transmit(cmd, cookie, jwt, NULL, NULL)
    /\ todo' = 0

\* The handler prints after the reply and returns to the main loop.
Finish(words) ==
    /\ pc' = "prompt"
    /\ request' = NoRequest
    /\ reply' = Refusal
    /\ todo' = 0
    /\ report' = words
    /\ UNCHANGED serverVars

\* Which status lines each handler looks for in the reply.
Positive == {"200 OK", "201 CREATED", "204 NO CONTENT"}
Listed == {"200 OK"}

\* A slip: the spelling the other handlers look for.
Removed_OtherSpelling == {"200 OK", "204 NO CONTENT"}

Removed == {"200 OK", "204 No Content"}
Stored == {"201 CREATED", "200 OK"}

Verdict(accepted) ==
    IF reply.status \in accepted THEN {"SUCCESS"} ELSE {"ERROR"}

Conclude(cmd, accepted) ==
    /\ Answered(cmd)
    /\ Finish(Verdict(accepted))
    /\ UNCHANGED <<globals, abandoned>>

NotAdmin == Prompt /\ admin_cookie = NULL /\ Return({"ERROR"})
NoAccess == Prompt /\ jwt_token = NULL /\ Return({"ERROR"})

\* A slip: the other role's cookie goes into the request.
AdminRequest_WrongCookie(cmd) ==
    Prompt /\ admin_cookie # NULL /\ Issue(cmd, user_cookie, NULL)

AdminRequest(cmd) ==
    Prompt /\ admin_cookie # NULL /\ Issue(cmd, admin_cookie, NULL)

\* A slip: being logged in is taken for having access.
LibraryRequest_NoTokenCheck(cmd) ==
    Prompt /\ user_cookie # NULL /\ Issue(cmd, user_cookie, jwt_token)

LibraryRequest(cmd) ==
    Prompt /\ jwt_token # NULL /\ Issue(cmd, user_cookie, jwt_token)

\* The cookie a logout handler forgets has ended at the server only if the
\* server said so.
Forget(cookie) ==
    abandoned' = IF reply.status \in Positive THEN abandoned
                                              ELSE abandoned \cup {cookie}

-----------------------------------------------------------------------------
\* Logging in and out.

\* A slip: only one of the two cookies is looked at.
LoggedIn_UserOnly == user_cookie # NULL

\* A slip: only the other one is.
LoggedIn_AdminOnly == admin_cookie # NULL

LoggedIn == admin_cookie # NULL \/ user_cookie # NULL

\* Both answers are read before the check; a second login is dropped silently.
login_admin ==
    \/ Prompt /\ LoggedIn /\ Return({})
    \/ /\ Prompt
       /\ ~LoggedIn
       /\ \E admin \in AdminNames : Transmit("login_admin", NULL, NULL, admin, NULL)
       /\ todo' = 0
    \/ /\ Answered("login_admin")
       /\ admin_cookie' = IF reply.status \in Positive THEN reply.cookie
                                                       ELSE admin_cookie
       /\ Finish(Verdict(Positive))
       /\ UNCHANGED <<user_cookie, jwt_token, admin_username, user_username,
                      abandoned>>

\* A slip: the two names are stored in each other's place.
AdoptUser_Swapped ==
    /\ user_cookie' = reply.cookie
    /\ admin_username' = request.user
    /\ user_username' = request.admin

\* A slip: the name of an earlier user is kept.
AdoptUser_KeepsName ==
    /\ user_cookie' = reply.cookie
    /\ admin_username' = request.admin
    /\ user_username' = IF user_username = NULL THEN request.user ELSE user_username

\* The reply's cookie and the names typed become the user's identity.
AdoptUser ==
    /\ user_cookie' = reply.cookie
    /\ admin_username' = request.admin
    /\ user_username' = request.user

login_user ==
    \/ Prompt /\ user_cookie # NULL /\ Return({})
    \/ Prompt /\ user_cookie = NULL /\ admin_cookie # NULL /\ Return({"ERROR"})
    \/ /\ Prompt
       /\ ~LoggedIn
       /\ \E admin \in AdminNames, user \in UserNames :
            Transmit("login", NULL, NULL, admin, user)
       /\ todo' = 0
    \/ /\ Answered("login")
       /\ IF reply.status \in Positive
          THEN AdoptUser
          ELSE UNCHANGED <<user_cookie, admin_username, user_username>>
       /\ Finish(Verdict(Positive))
       /\ UNCHANGED <<admin_cookie, jwt_token, abandoned>>

logout_admin ==
    \/ NotAdmin
    \/ AdminRequest("logout_admin")
    \/ /\ Answered("logout_admin")
       /\ admin_cookie' = NULL
       /\ Forget(admin_cookie)
       /\ Finish(Verdict(Positive))
       /\ UNCHANGED <<user_cookie, jwt_token, admin_username, user_username>>

NotUser == Prompt /\ user_cookie = NULL /\ Return({"ERROR"})

UserRequest(cmd) ==
    Prompt /\ user_cookie # NULL /\ Issue(cmd, user_cookie, NULL)

\* A slip: the cookie is kept when the server refuses the logout.
DropUser_IfConfirmed ==
    user_cookie' = IF reply.status \in Positive THEN NULL ELSE user_cookie

DropUser == user_cookie' = NULL

\* The cookie is forgotten whatever the reply says; the token is kept.
logout_user ==
    \/ NotUser
    \/ UserRequest("logout")
    \/ /\ Answered("logout")
       /\ DropUser
       /\ Forget(user_cookie)
       /\ Finish(Verdict(Positive))
       /\ UNCHANGED <<admin_cookie, jwt_token, admin_username, user_username>>

get_access ==
    \/ NotUser
    \/ UserRequest("get_access")
    \/ /\ Answered("get_access")
       /\ jwt_token' = IF reply.status \in Positive THEN reply.token
                                                    ELSE jwt_token
       /\ Finish(Verdict(Positive))
       /\ UNCHANGED <<admin_cookie, user_cookie, admin_username, user_username,
                      abandoned>>

-----------------------------------------------------------------------------
\* The administrator's commands.  add_user and delete_user also refuse a name
\* or a password they find malformed.

Malformed(allowed) == Prompt /\ allowed /\ Return({"ERROR"})

add_user ==
    \/ NotAdmin
    \/ Malformed(admin_cookie # NULL)
    \/ AdminRequest("add_user")
    \/ Conclude("add_user", Positive)

get_users ==
    \/ NotAdmin
    \/ AdminRequest("get_users")
    \/ Conclude("get_users", Positive)

delete_user ==
    \/ NotAdmin
    \/ Malformed(admin_cookie # NULL)
    \/ AdminRequest("delete_user")
    \/ Conclude("delete_user", Removed)

-----------------------------------------------------------------------------
\* The library commands.

get_movies ==
    \/ NoAccess
    \/ LibraryRequest("get_movies")
    \/ Conclude("get_movies", Listed)

add_movie ==
    \/ NoAccess
    \/ Malformed(jwt_token # NULL)
    \/ LibraryRequest("add_movie")
    \/ Conclude("add_movie", Positive)

get_movie ==
    \/ NoAccess
    \/ LibraryRequest("get_movie")
    \/ Conclude("get_movie", Positive)

update_movie ==
    \/ NoAccess
    \/ Malformed(jwt_token # NULL)
    \/ LibraryRequest("update_movie")
    \/ Conclude("update_movie", Removed)

delete_movie ==
    \/ NoAccess
    \/ LibraryRequest("delete_movie")
    \/ Conclude("delete_movie", Removed)

\* A slip: the index is not advanced.
PostNext_SameMovie(left) ==
    \/ /\ left > 0
       /\ Transmit("post_movie", user_cookie, jwt_token, NULL, NULL)
       /\ todo' = left
    \/ /\ left = 0
       /\ Finish({"SUCCESS"})
       /\ UNCHANGED <<globals, abandoned>>

\* One request per movie still to post, then the success message.
PostNext(left) ==
    \/ /\ left > 0
       /\ Transmit("post_movie", user_cookie, jwt_token, NULL, NULL)
       /\ todo' = left - 1
    \/ /\ left = 0
       /\ Finish({"SUCCESS"})
       /\ UNCHANGED <<globals, abandoned>>

\* Creates the collection, then posts its movies one request at a time.  A
\* refused creation prints the server's error and, as the flag that says the
\* operations succeeded was not cleared, the success message as well.
add_collection ==
    \/ NoAccess
    \/ Malformed(jwt_token # NULL)
    \/ /\ Prompt
       /\ jwt_token # NULL
       /\ Transmit("add_collection", user_cookie, jwt_token, NULL, NULL)
       /\ todo' \in 0..MaxMovies
    \/ /\ Answered("add_collection")
       /\ reply.status \in Stored
       /\ PostNext(todo)
    \/ /\ Answered("add_collection")
       /\ reply.status \notin Stored
       /\ Finish({"ERROR", "SUCCESS"})
       /\ UNCHANGED <<globals, abandoned>>
    \/ /\ Answered("post_movie")
       /\ reply.status \in Stored
       /\ PostNext(todo)
    \/ /\ Answered("post_movie")
       /\ reply.status \notin Stored
       /\ Finish({"ERROR"})
       /\ UNCHANGED <<globals, abandoned>>

get_collections ==
    \/ NoAccess
    \/ LibraryRequest("get_collections")
    \/ Conclude("get_collections", Listed)

get_collection ==
    \/ NoAccess
    \/ LibraryRequest("get_collection")
    \/ Conclude("get_collection", Listed)

delete_collection ==
    \/ NoAccess
    \/ LibraryRequest("delete_collection")
    \/ Conclude("delete_collection", Removed)

add_movie_to_collection ==
    \/ NoAccess
    \/ Malformed(jwt_token # NULL)
    \/ LibraryRequest("add_movie_to_collection")
    \/ Conclude("add_movie_to_collection", Positive)

delete_movie_from_collection ==
    \/ NoAccess
    \/ LibraryRequest("delete_movie_from_collection")
    \/ Conclude("delete_movie_from_collection", Removed)

-----------------------------------------------------------------------------
\* The process.  It keeps nothing on disk: ending it, by "exit" or by a kill at
\* any point (a failed write or read among them), forgets the session, and the
\* next launch starts from the initial globals.

Forgotten ==
    abandoned \cup ({admin_cookie, user_cookie, reply.cookie} \ {NULL})

End ==
    /\ pc' = "exited"
    /\ admin_cookie' = NULL
    /\ user_cookie' = NULL
    /\ jwt_token' = NULL
    /\ admin_username' = NULL
    /\ user_username' = NULL
    /\ request' = NoRequest
    /\ reply' = Refusal
    /\ todo' = 0
    /\ report' = {}
    /\ abandoned' = Forgotten
    /\ UNCHANGED serverVars

exit == Prompt /\ End

Killed == pc \in {"waiting", "answered"} /\ End

Launch ==
    /\ pc = "exited"
    /\ pc' = "prompt"
    /\ UNCHANGED <<globals, request, reply, todo, report, serverVars, abandoned>>

-----------------------------------------------------------------------------
\* The server, as far as the client's handlers rely on it.

Answer(status, cookie, token) ==
    /\ pc' = "answered"
    /\ reply' = [status |-> status, cookie |-> cookie, token |-> token]
    /\ UNCHANGED <<globals, request, todo, report, abandoned>>

Waiting(cmds) == pc = "waiting" /\ request.cmd \in cmds

\* The status lines of a granted request, by the method it was sent with.
Granted(cmd) ==
    CASE cmd \in {"login_admin", "login", "add_user", "add_movie",
                  "add_collection", "post_movie", "add_movie_to_collection"}
            -> {"200 OK", "201 CREATED"}
      [] cmd \in {"update_movie", "delete_movie", "delete_collection",
                  "delete_movie_from_collection", "delete_user"}
            -> {"200 OK", NoContent}
      [] OTHER
            -> {"200 OK"}

GrantLogin ==
    /\ Waiting({"login_admin", "login"})
    /\ \E cookie \in Cookies, status \in Granted(request.cmd) :
         /\ sessions[cookie].role = "unused"
         /\ sessions' = [sessions EXCEPT ![cookie] =
                [role  |-> IF request.cmd = "login" THEN "user" ELSE "admin",
                 admin |-> request.admin,
                 user  |-> request.user,
                 live  |-> TRUE]]
         /\ Answer(status, cookie, NULL)
    /\ UNCHANGED tokens

GrantLogout ==
    /\ Waiting({"logout_admin", "logout"})
    /\ sessions[request.cookie].live
    /\ sessions' = [sessions EXCEPT ![request.cookie].live = FALSE]
    /\ \E status \in Granted(request.cmd) : Answer(status, NULL, NULL)
    /\ UNCHANGED tokens

GrantAccess ==
    /\ Waiting({"get_access"})
    /\ sessions[request.cookie].live
    /\ \E token \in Tokens, status \in Granted(request.cmd) :
         /\ tokens[token] \in {NULL, request.cookie}
         /\ tokens' = [tokens EXCEPT ![token] = request.cookie]
         /\ Answer(status, NULL, token)
    /\ UNCHANGED sessions

GrantAdmin ==
    /\ Waiting(AdminCommands)
    /\ sessions[request.cookie].live
    /\ \E status \in Granted(request.cmd) : Answer(status, NULL, NULL)
    /\ UNCHANGED serverVars

GrantLibrary ==
    /\ Waiting(LibraryCommands)
    /\ tokens[request.jwt] # NULL
    /\ \E status \in Granted(request.cmd) : Answer(status, NULL, NULL)
    /\ UNCHANGED serverVars

Refuse ==
    /\ Waiting(Requests)
    /\ Answer("error", NULL, NULL)
    /\ UNCHANGED serverVars

\* A session ends at the server with no word to the client.
Expire(cookie) ==
    /\ sessions[cookie].live
    /\ sessions' = [sessions EXCEPT ![cookie].live = FALSE]
    /\ UNCHANGED <<pc, globals, request, reply, todo, report, tokens, abandoned>>

-----------------------------------------------------------------------------

Init ==
    /\ pc = "prompt"
    /\ admin_cookie = NULL
    /\ user_cookie = NULL
    /\ jwt_token = NULL
    /\ admin_username = NULL
    /\ user_username = NULL
    /\ request = NoRequest
    /\ reply = Refusal
    /\ todo = 0
    /\ report = {}
    /\ sessions = [cookie \in Cookies |-> Unused]
    /\ tokens = [token \in Tokens |-> NULL]
    /\ abandoned = {}

Session_Commands ==
    login_admin \/ login_user \/ logout_admin \/ logout_user \/ get_access

Admin_Commands == add_user \/ get_users \/ delete_user

Library_Commands ==
    \/ get_movies \/ add_movie \/ get_movie \/ update_movie \/ delete_movie
    \/ add_collection \/ get_collections \/ get_collection \/ delete_collection
    \/ add_movie_to_collection \/ delete_movie_from_collection

\* One iteration of the loop in main: the command's handler, or part of it.
Command == Session_Commands \/ Admin_Commands \/ Library_Commands

Process == exit \/ Killed \/ Launch

Serve ==
    GrantLogin \/ GrantLogout \/ GrantAccess \/ GrantAdmin \/ GrantLibrary \/ Refuse

Next == Command \/ Process \/ Serve \/ \E cookie \in Cookies : Expire(cookie)

Spec == Init /\ [][Next]_vars

\* The handler runs on once its reply is there, and the server answers every
\* request in the end.  Nobody has to type a command, to end the process or to
\* launch it again.
Fairness ==
    /\ WF_vars(pc = "answered" /\ Command)
    /\ WF_vars(Serve)

FairSpec == Spec /\ Fairness

-----------------------------------------------------------------------------
\* Properties.

\* Every variable holds a value of its kind; while the process is not running a
\* command, no request or reply is left over.
TypeOK ==
    /\ pc \in {"exited", "prompt", "waiting", "answered"}
    /\ admin_cookie \in Cookies \cup {NULL}
    /\ user_cookie \in Cookies \cup {NULL}
    /\ jwt_token \in Tokens \cup {NULL}
    /\ admin_username \in AdminNames \cup {NULL}
    /\ user_username \in UserNames \cup {NULL}
    /\ request \in Request
    /\ reply \in Reply
    /\ todo \in 0..MaxMovies
    /\ report \subseteq {"SUCCESS", "ERROR"}
    /\ sessions \in [Cookies -> Session]
    /\ tokens \in [Tokens -> Cookies \cup {NULL}]
    /\ abandoned \subseteq Cookies
    /\ pc \in {"exited", "prompt"} <=> request.cmd = "none"
    /\ pc # "answered" => reply = Refusal

\* The client is never logged in as an administrator and as a user at once: the
\* guards of the two login handlers exclude each other, although each checks
\* before it blocks for the reply and writes its cookie after.
OneRole == admin_cookie = NULL \/ user_cookie = NULL

\* The server knows the holder of the user cookie by the very names the client
\* keeps in admin_username and user_username, and holds the administrator's
\* cookie for an administrator: an action is always done under the identity the
\* client believes it has.
IdentityMatchesCookie ==
    /\ user_cookie # NULL =>
         /\ sessions[user_cookie].role = "user"
         /\ sessions[user_cookie].admin = admin_username
         /\ sessions[user_cookie].user = user_username
    /\ admin_cookie # NULL => sessions[admin_cookie].role = "admin"

\* No session is leaked while the process runs: a session live at the server is
\* one whose cookie the client holds, or is just receiving, or one it dropped
\* when the process ended or when the server refused its logout.
NoOrphanSession ==
    \A cookie \in Cookies :
        sessions[cookie].live =>
            cookie \in {admin_cookie, user_cookie, reply.cookie} \cup abandoned

\* A library token the client holds was issued under its present session or
\* under one that is over.  (It need not be the present one: logout_user keeps
\* the token.)
TokenOrigin ==
    jwt_token # NULL =>
        LET cookie == tokens[jwt_token] IN
        /\ cookie # NULL
        /\ \/ cookie = user_cookie
           \/ ~sessions[cookie].live
           \/ cookie \in abandoned

\* The credentials of a request in flight are those of the role it needs, and those
\* the client still holds when the reply comes: no handler sends the other role's
\* cookie, or changes a cookie or the token behind the back of another that waits.
RequestMatchesSession ==
    /\ request.cmd \in AdminCommands \cup {"logout_admin"} =>
         request.cookie = admin_cookie /\ admin_cookie # NULL
    /\ request.cmd \in {"logout", "get_access"} =>
         request.cookie = user_cookie /\ user_cookie # NULL
    /\ request.cmd \in LibraryCommands =>
         /\ request.cookie = user_cookie
         /\ request.jwt = jwt_token /\ jwt_token # NULL
    /\ request.cmd \in {"login_admin", "login"} =>
         request.cookie = NULL /\ request.jwt = NULL

\* A cookie the client holds is replaced by nothing but NULL, and that only by
\* the reply to a logout or by the end of the process.
CookieStep ==
    /\ admin_cookie' # admin_cookie /\ admin_cookie # NULL =>
         admin_cookie' = NULL /\ (Answered("logout_admin") \/ pc' = "exited")
    /\ user_cookie' # user_cookie /\ user_cookie # NULL =>
         user_cookie' = NULL /\ (Answered("logout") \/ pc' = "exited")

\* Every step keeps to that: no handler loses or overwrites a session's cookie.
CookieDroppedOnlyAtEnd == [][CookieStep]_vars

\* A handler that made one request ends with success if the server granted it,
\* with whichever of its status lines the server says so, and with an error if not.
VerdictStep ==
    pc = "answered" /\ pc' = "prompt"
      /\ request.cmd \notin {"add_collection", "post_movie"}
    => report' = IF reply.status = "error" THEN {"ERROR"} ELSE {"SUCCESS"}

\* Every command of one request reports what the server did.
VerdictAgrees == [][VerdictStep]_vars

\* README.md:40 of a logout: "setting the cookie/token pointers to NULL".
LogoutDropsToken ==
    [][ user_cookie # NULL /\ user_cookie' = NULL => jwt_token' = NULL ]_vars

\* client.c:595 and 602 of the reply to add_collection's first request: "If the
\* response was positive, it means the collection was created successfully",
\* "Otherwise, display the received error".  A command has one verdict.
OneVerdict == report # {"SUCCESS", "ERROR"}

\* A logout that was sent, the user's or the administrator's, ends with the client
\* logged out, whether the server grants it, refuses it or has long expired the
\* session.
LogoutReleases ==
    /\ pc = "waiting" /\ request.cmd = "logout" ~> user_cookie = NULL
    /\ pc = "waiting" /\ request.cmd = "logout_admin" ~> admin_cookie = NULL

\* A command that sent a request gets back to the prompt, however many requests
\* it makes, or the process ends.
CommandEnds == pc = "waiting" ~> pc \in {"prompt", "exited"}

-----------------------------------------------------------------------------
\* The abstract specification and the mapping that shows it implemented.

KindOf(cmd) ==
    CASE cmd \in {"login_admin", "login"}   -> cmd
      [] cmd \in {"logout_admin", "logout"} -> "logout"
      [] cmd = "get_access"                 -> "access"
      [] cmd \in AdminCommands              -> "admin"
      [] cmd \in LibraryCommands            -> "library"
      [] OTHER                              -> "none"

Role ==
    CASE admin_cookie # NULL -> "admin"
      [] user_cookie # NULL  -> "user"
      [] OTHER               -> "none"

Gate == INSTANCE Gatekeeper WITH
    role <- Role, access <- jwt_token # NULL, outstanding <- KindOf(request.cmd)

\* Whatever is typed and answered, the client sends only what its role allows,
\* one request at a time.
GateSpec == Gate!Spec

=============================================================================
