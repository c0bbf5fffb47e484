----------------------------- MODULE ClientProofs -----------------------------
(***************************************************************************)
(* Proofs about Client, for every set of cookies, tokens and names and     *)
(* every number of movies.                                                 *)
(*                                                                         *)
(* The safety properties are not inductive one by one: what a handler may  *)
(* do with a reply depends on what held when it sent the request.  IInv    *)
(* adds what is true while a request is in flight.                         *)
(***************************************************************************)
EXTENDS Client, TLAPS

Logins == {"login_admin", "login"}

Logouts == {"logout_admin", "logout"}

\* A login is in flight only while no cookie is held.
LoginAlone ==
    request.cmd \in Logins => admin_cookie = NULL /\ user_cookie = NULL

\* Each command sends the cookie of its own role, which is held meanwhile.
CookieOfRole ==
    /\ request.cmd \in {"logout", "get_access"} =>
         request.cookie = user_cookie /\ user_cookie # NULL
    /\ request.cmd \in AdminCommands \cup {"logout_admin"} =>
         request.cookie = admin_cookie /\ admin_cookie # NULL
    /\ request.cmd \in LibraryCommands =>
         /\ request.cookie = user_cookie
         /\ request.jwt = jwt_token
         /\ jwt_token # NULL
    /\ request.cmd \in Logins \cup {"none"} => request.cookie = NULL
    /\ request.cmd \notin LibraryCommands => request.jwt = NULL

\* A login's positive reply brings the cookie of the session just opened.
LoginReply ==
    /\ reply.cookie # NULL =>
         /\ request.cmd \in Logins
         /\ reply.status # "error"
         /\ sessions[reply.cookie].admin = request.admin
         /\ sessions[reply.cookie].user = request.user
         /\ sessions[reply.cookie].role =
                IF request.cmd = "login" THEN "user" ELSE "admin"
    /\ pc = "answered" /\ request.cmd \in Logins /\ reply.status # "error" =>
         reply.cookie # NULL

\* A logout's positive reply means that the session is over.
LogoutReply ==
    pc = "answered" /\ request.cmd \in Logouts /\ reply.status # "error" =>
        ~sessions[request.cookie].live

\* A positive reply to get_access brings a token of the present session.
AccessReply ==
    pc = "answered" /\ request.cmd = "get_access" /\ reply.status # "error" =>
        reply.token # NULL /\ tokens[reply.token] = user_cookie

\* The lines a session command is answered with are lines it looks for.
StatusKnown ==
    pc = "answered" /\ request.cmd \in Logins \cup Logouts \cup {"get_access"} =>
        reply.status \in Positive \cup {"error"}

\* What is live, or has a token, was opened once.
SessionsOpened ==
    /\ \A cookie \in Cookies :
         sessions[cookie].live => sessions[cookie].role # "unused"
    /\ \A token \in Tokens :
         tokens[token] # NULL => sessions[tokens[token]].role # "unused"

IInv ==
    /\ TypeOK
    /\ OneRole
    /\ IdentityMatchesCookie
    /\ NoOrphanSession
    /\ TokenOrigin
    /\ LoginAlone
    /\ CookieOfRole
    /\ LoginReply
    /\ LogoutReply
    /\ AccessReply
    /\ StatusKnown
    /\ SessionsOpened

-----------------------------------------------------------------------------

\* At the start nobody is logged in and no session is open.
LEMMA InitIInv == Init => IInv
<1> SUFFICES ASSUME Init PROVE IInv
  OBVIOUS
<1>1. TypeOK
  BY MaxMoviesAssumption
     DEF Init, TypeOK, NoRequest, Refusal, Unused, Request, Reply, Session,
         StatusLines
<1>2. OneRole /\ IdentityMatchesCookie /\ NoOrphanSession /\ TokenOrigin
  BY DEF Init, OneRole, IdentityMatchesCookie, NoOrphanSession, TokenOrigin, Unused
<1>3. LoginAlone /\ CookieOfRole
  BY DEF Init, LoginAlone, CookieOfRole, NoRequest, Logins, AdminCommands,
         LibraryCommands
<1>4. LoginReply /\ LogoutReply /\ AccessReply /\ StatusKnown
  BY DEF Init, LoginReply, LogoutReply, AccessReply, StatusKnown, Refusal
<1>5. SessionsOpened
  BY DEF Init, SessionsOpened, Unused
<1> QED
  BY <1>1, <1>2, <1>3, <1>4, <1>5 DEF IInv

-----------------------------------------------------------------------------
\* What a handler does between two waits.

\* A step that changes only what is printed keeps the invariant.
LEMMA ReturnIInv ==
    ASSUME IInv, NEW words \in SUBSET {"SUCCESS", "ERROR"}, Return(words)
    PROVE  IInv'
<1> USE DEF Return, globals, serverVars
<1>1. TypeOK'
  BY DEF IInv, TypeOK
<1>2. (OneRole /\ IdentityMatchesCookie /\ NoOrphanSession /\ TokenOrigin)'
  BY DEF IInv, OneRole, IdentityMatchesCookie, NoOrphanSession, TokenOrigin
<1>3. (LoginAlone /\ CookieOfRole)'
  BY DEF IInv, LoginAlone, CookieOfRole
<1>4. (LoginReply /\ LogoutReply /\ AccessReply /\ StatusKnown)'
  BY DEF IInv, LoginReply, LogoutReply, AccessReply, StatusKnown
<1>5. SessionsOpened'
  BY DEF IInv, SessionsOpened
<1> QED
  BY <1>1, <1>2, <1>3, <1>4, <1>5 DEF IInv

\* What CookieOfRole and LoginAlone ask of a request about to be sent.
Entitled(cmd, cookie, jwt) ==
    /\ cmd \in {"logout", "get_access"} => cookie = user_cookie /\ user_cookie # NULL
    /\ cmd \in AdminCommands \cup {"logout_admin"} =>
         cookie = admin_cookie /\ admin_cookie # NULL
    /\ cmd \in LibraryCommands =>
         cookie = user_cookie /\ jwt = jwt_token /\ jwt_token # NULL
    /\ cmd \in Logins => cookie = NULL /\ admin_cookie = NULL /\ user_cookie = NULL
    /\ cmd \notin LibraryCommands => jwt = NULL

\* Sending a request the client is entitled to keeps the invariant.
LEMMA TransmitIInv ==
    ASSUME IInv, reply.cookie = NULL,
           NEW cmd \in Requests, NEW cookie \in Cookies \cup {NULL},
           NEW jwt \in Tokens \cup {NULL}, NEW admin \in AdminNames \cup {NULL},
           NEW user \in UserNames \cup {NULL},
           Entitled(cmd, cookie, jwt),
           Transmit(cmd, cookie, jwt, admin, user), todo' \in 0..MaxMovies
    PROVE  IInv'
<1> USE DEF Transmit, globals, serverVars
<1> cmd # "none"
  BY DEF Requests, AdminCommands, LibraryCommands
<1>1. TypeOK'
  BY DEF IInv, TypeOK, Request, Reply, StatusLines, Refusal
<1>2. (OneRole /\ IdentityMatchesCookie /\ TokenOrigin)'
  BY DEF IInv, OneRole, IdentityMatchesCookie, TokenOrigin
<1>3. NoOrphanSession'
  BY DEF IInv, NoOrphanSession, Refusal
<1>4. (LoginAlone /\ CookieOfRole)'
  BY DEF Entitled, LoginAlone, CookieOfRole, Logins
<1>5. (LoginReply /\ LogoutReply /\ AccessReply /\ StatusKnown)'
  BY DEF LoginReply, LogoutReply, AccessReply, StatusKnown, Refusal
<1>6. SessionsOpened'
  BY DEF IInv, SessionsOpened
<1> QED
  BY <1>1, <1>2, <1>3, <1>4, <1>5, <1>6 DEF IInv

\* At the end of a handler no request is left over; what remains to be shown is
\* that the globals it sets keep the four properties of the session.
LEMMA FinishIInv ==
    ASSUME IInv, NEW words \in SUBSET {"SUCCESS", "ERROR"}, Finish(words),
           admin_cookie' \in Cookies \cup {NULL},
           user_cookie' \in Cookies \cup {NULL},
           jwt_token' \in Tokens \cup {NULL},
           admin_username' \in AdminNames \cup {NULL},
           user_username' \in UserNames \cup {NULL},
           abandoned' \subseteq Cookies,
           OneRole', IdentityMatchesCookie', NoOrphanSession', TokenOrigin'
    PROVE  IInv'
<1> USE DEF Finish, serverVars
<1>1. TypeOK'
  <2>1. request' \in Request /\ request'.cmd = "none"
    BY DEF Request, NoRequest
  <2>2. reply' \in Reply
    BY DEF Reply, StatusLines, Refusal
  <2>3. todo' \in 0..MaxMovies
    BY MaxMoviesAssumption
  <2> QED
    BY <2>1, <2>2, <2>3 DEF IInv, TypeOK
<1>2. (LoginAlone /\ CookieOfRole)'
  BY DEF LoginAlone, CookieOfRole, Logins, NoRequest, AdminCommands, LibraryCommands
<1>3. (LoginReply /\ LogoutReply /\ AccessReply /\ StatusKnown)'
  BY DEF LoginReply, LogoutReply, AccessReply, StatusKnown, Refusal
<1>4. SessionsOpened'
  BY DEF IInv, SessionsOpened
<1> QED
  BY <1>1, <1>2, <1>3, <1>4 DEF IInv

\* A handler that leaves the session alone.
LEMMA PlainFinishIInv ==
    ASSUME IInv, reply.cookie = NULL, NEW words \in SUBSET {"SUCCESS", "ERROR"},
           Finish(words), UNCHANGED <<globals, abandoned>>
    PROVE  IInv'
<1>1. OneRole' /\ IdentityMatchesCookie' /\ TokenOrigin'
  BY DEF IInv, OneRole, IdentityMatchesCookie, TokenOrigin, Finish, globals,
         serverVars
<1>2. NoOrphanSession'
  BY DEF IInv, NoOrphanSession, Finish, Refusal, globals, serverVars
<1>3. IInv => TypeOK
  BY DEF IInv
<1> QED
  BY <1>1, <1>2, <1>3, FinishIInv DEF TypeOK, globals

-----------------------------------------------------------------------------
\* The building blocks of the handlers.

\* A cookie can only be in a reply to a login.
LEMMA NoCookie ==
    ASSUME IInv, pc = "prompt" \/ request.cmd \notin Logins
    PROVE  reply.cookie = NULL
  BY DEF IInv, TypeOK, LoginReply, Refusal

\* A handler that refuses before it sends anything.
LEMMA RejectIInv ==
    ASSUME IInv, NotAdmin \/ NotUser \/ NoAccess \/ Return({}) \/ Return({"ERROR"})
    PROVE  IInv'
  BY ReturnIInv DEF NotAdmin, NotUser, NoAccess

\* A request as administrator carries the administrator's cookie.
LEMMA AdminRequestIInv ==
    ASSUME IInv, NEW cmd \in AdminCommands \cup {"logout_admin"}, AdminRequest(cmd)
    PROVE  IInv'
<1>1. cmd \in Requests /\ Entitled(cmd, admin_cookie, NULL)
  BY DEF Requests, Entitled, AdminCommands, LibraryCommands, Logins, AdminRequest
<1>2. reply.cookie = NULL /\ admin_cookie \in Cookies \cup {NULL}
  BY NoCookie DEF AdminRequest, Prompt, IInv, TypeOK
<1>3. Transmit(cmd, admin_cookie, NULL, NULL, NULL) /\ todo' \in 0..MaxMovies
  BY MaxMoviesAssumption DEF AdminRequest, Issue
<1> QED
  BY <1>1, <1>2, <1>3, TransmitIInv

\* A logout or a request for access carries the user's cookie.
LEMMA UserRequestIInv ==
    ASSUME IInv, NEW cmd \in {"logout", "get_access"}, UserRequest(cmd)
    PROVE  IInv'
<1>1. cmd \in Requests /\ Entitled(cmd, user_cookie, NULL)
  BY DEF Requests, Entitled, AdminCommands, LibraryCommands, Logins, UserRequest
<1>2. reply.cookie = NULL /\ user_cookie \in Cookies \cup {NULL}
  BY NoCookie DEF UserRequest, Prompt, IInv, TypeOK
<1>3. Transmit(cmd, user_cookie, NULL, NULL, NULL) /\ todo' \in 0..MaxMovies
  BY MaxMoviesAssumption DEF UserRequest, Issue
<1> QED
  BY <1>1, <1>2, <1>3, TransmitIInv

\* Every request that carries the token, the ones add_collection repeats
\* included.
LEMMA LibraryTransmitIInv ==
    ASSUME IInv, reply.cookie = NULL, jwt_token # NULL,
           NEW cmd \in LibraryCommands, todo' \in 0..MaxMovies,
           Transmit(cmd, user_cookie, jwt_token, NULL, NULL)
    PROVE  IInv'
<1>1. cmd \in Requests /\ Entitled(cmd, user_cookie, jwt_token)
  BY DEF Requests, Entitled, AdminCommands, LibraryCommands, Logins
<1>2. user_cookie \in Cookies \cup {NULL} /\ jwt_token \in Tokens \cup {NULL}
  BY DEF IInv, TypeOK
<1> QED
  BY <1>1, <1>2, TransmitIInv

\* A library request carries the token and, if any, a movie of the list.
LEMMA LibraryRequestIInv ==
    ASSUME IInv, NEW cmd \in LibraryCommands, LibraryRequest(cmd)
    PROVE  IInv'
  BY NoCookie, LibraryTransmitIInv, MaxMoviesAssumption
     DEF LibraryRequest, Prompt, Issue

\* A reply that only decides a verdict leaves the session alone.
LEMMA ConcludeIInv ==
    ASSUME IInv, NEW cmd \in AdminCommands \cup LibraryCommands,
           NEW accepted, Conclude(cmd, accepted)
    PROVE  IInv'
<1>1. request.cmd \notin Logins
  BY DEF Conclude, Answered, Logins, AdminCommands, LibraryCommands
<1>2. Verdict(accepted) \in SUBSET {"SUCCESS", "ERROR"}
  BY DEF Verdict
<1> QED
  BY <1>1, <1>2, NoCookie, PlainFinishIInv DEF Conclude

-----------------------------------------------------------------------------
\* The handlers that change the session.

LEMMA LoginAdminIInv == ASSUME IInv, login_admin PROVE IInv'
<1>1. CASE Return({})
  BY <1>1, RejectIInv
<1>2. CASE /\ Prompt
           /\ ~LoggedIn
           /\ \E admin \in AdminNames :
                Transmit("login_admin", NULL, NULL, admin, NULL)
           /\ todo' = 0
  <2>1. "login_admin" \in Requests /\ Entitled("login_admin", NULL, NULL)
    BY <1>2 DEF Requests, Entitled, AdminCommands, LibraryCommands, Logins, LoggedIn
  <2> QED
    BY <1>2, <2>1, NoCookie, TransmitIInv, MaxMoviesAssumption DEF Prompt
<1>3. CASE /\ Answered("login_admin")
           /\ admin_cookie' = IF reply.status \in Positive THEN reply.cookie
                                                           ELSE admin_cookie
           /\ Finish(Verdict(Positive))
           /\ UNCHANGED <<user_cookie, jwt_token, admin_username,
                          user_username, abandoned>>
  <2>1. Verdict(Positive) \in SUBSET {"SUCCESS", "ERROR"}
    BY DEF Verdict
  <2>2. admin_cookie = NULL /\ user_cookie = NULL
    BY <1>3 DEF Answered, IInv, LoginAlone, Logins
  <2>3. reply.status \notin Positive => reply.cookie = NULL
    BY <1>3 DEF Answered, Positive, IInv, StatusKnown, LoginReply, Logins
  <2>4. admin_cookie' = reply.cookie
    BY <1>3, <2>2, <2>3
  <2>5. /\ admin_cookie' \in Cookies \cup {NULL}
        /\ user_cookie' \in Cookies \cup {NULL}
        /\ jwt_token' \in Tokens \cup {NULL}
        /\ admin_username' \in AdminNames \cup {NULL}
        /\ user_username' \in UserNames \cup {NULL}
        /\ abandoned' \subseteq Cookies
    BY <1>3, <2>4 DEF IInv, TypeOK, Reply
  <2>6. OneRole'
    BY <1>3, <2>2 DEF OneRole
  <2>7. IdentityMatchesCookie'
    BY <1>3, <2>2, <2>4
       DEF IdentityMatchesCookie, IInv, LoginReply, Answered, Finish, serverVars
  <2>8. NoOrphanSession'
    BY <1>3, <2>2, <2>4
       DEF NoOrphanSession, IInv, Finish, Refusal, serverVars
  <2>9. TokenOrigin'
    BY <1>3, <2>2, <2>4 DEF TokenOrigin, IInv, Finish, serverVars
  <2> QED
    BY <1>3, <2>1, <2>5, <2>6, <2>7, <2>8, <2>9, FinishIInv
<1> QED
  BY <1>1, <1>2, <1>3 DEF login_admin

\* A granted login makes the fresh cookie the user's, and nobody else's.
LEMMA LoginUserIInv == ASSUME IInv, login_user PROVE IInv'
<1>1. CASE Return({}) \/ Return({"ERROR"})
  BY <1>1, RejectIInv
<1>2. CASE /\ Prompt
           /\ ~LoggedIn
           /\ \E admin \in AdminNames, user \in UserNames :
                Transmit("login", NULL, NULL, admin, user)
           /\ todo' = 0
  <2>1. "login" \in Requests /\ Entitled("login", NULL, NULL)
    BY <1>2 DEF Requests, Entitled, AdminCommands, LibraryCommands, Logins, LoggedIn
  <2> QED
    BY <1>2, <2>1, NoCookie, TransmitIInv, MaxMoviesAssumption DEF Prompt
<1>3. CASE /\ Answered("login")
           /\ IF reply.status \in Positive
              THEN AdoptUser
              ELSE UNCHANGED <<user_cookie, admin_username, user_username>>
           /\ Finish(Verdict(Positive))
           /\ UNCHANGED <<admin_cookie, jwt_token, abandoned>>
  <2>1. Verdict(Positive) \in SUBSET {"SUCCESS", "ERROR"}
    BY DEF Verdict
  <2>2. admin_cookie = NULL /\ user_cookie = NULL
    BY <1>3 DEF Answered, IInv, LoginAlone, Logins
  <2>3. reply.status \notin Positive => reply.cookie = NULL
    BY <1>3 DEF Answered, Positive, IInv, StatusKnown, LoginReply, Logins
  <2>4. user_cookie' = reply.cookie
    BY <1>3, <2>2, <2>3 DEF AdoptUser
  <2>5. /\ admin_cookie' \in Cookies \cup {NULL}
        /\ user_cookie' \in Cookies \cup {NULL}
        /\ jwt_token' \in Tokens \cup {NULL}
        /\ admin_username' \in AdminNames \cup {NULL}
        /\ user_username' \in UserNames \cup {NULL}
        /\ abandoned' \subseteq Cookies
    BY <1>3, <2>4 DEF IInv, TypeOK, Reply, Request, AdoptUser
  <2>6. OneRole'
    BY <1>3, <2>2 DEF OneRole
  <2>7. IdentityMatchesCookie'
    BY <1>3, <2>2, <2>3, <2>4
       DEF IdentityMatchesCookie, IInv, LoginReply, Answered, Finish, serverVars,
           AdoptUser
  <2>8. NoOrphanSession'
    BY <1>3, <2>2, <2>4
       DEF NoOrphanSession, IInv, Finish, Refusal, serverVars
  <2>9. TokenOrigin'
    BY <1>3, <2>2, <2>4 DEF TokenOrigin, IInv, Finish, serverVars, TypeOK
  <2> QED
    BY <1>3, <2>1, <2>5, <2>6, <2>7, <2>8, <2>9, FinishIInv
<1> QED
  BY <1>1, <1>2, <1>3 DEF login_user

\* A logout as administrator gives up the cookie of a session that is over or
\* abandoned.
LEMMA LogoutAdminIInv == ASSUME IInv, logout_admin PROVE IInv'
<1>1. CASE NotAdmin
  BY <1>1, RejectIInv
<1>2. CASE AdminRequest("logout_admin")
  BY <1>2, AdminRequestIInv
<1>3. CASE /\ Answered("logout_admin")
           /\ admin_cookie' = NULL
           /\ Forget(admin_cookie)
           /\ Finish(Verdict(Positive))
           /\ UNCHANGED <<user_cookie, jwt_token, admin_username, user_username>>
  <2>1. Verdict(Positive) \in SUBSET {"SUCCESS", "ERROR"}
    BY DEF Verdict
  <2>2. admin_cookie # NULL /\ request.cookie = admin_cookie /\ user_cookie = NULL
    BY <1>3 DEF Answered, IInv, CookieOfRole, OneRole
  <2>3. reply.cookie = NULL
    BY <1>3, NoCookie DEF Answered, Logins
  <2>4. reply.status \in Positive => ~sessions[admin_cookie].live
    BY <1>3, <2>2 DEF IInv, LogoutReply, Answered, Logouts, Positive
  <2>5. abandoned \subseteq abandoned' /\ abandoned' \subseteq Cookies
    BY <1>3, <2>2 DEF Forget, IInv, TypeOK
  <2>6. OneRole' /\ IdentityMatchesCookie'
    BY <1>3, <2>2 DEF OneRole, IdentityMatchesCookie
  <2>7. NoOrphanSession'
    BY <1>3, <2>2, <2>3, <2>4
       DEF NoOrphanSession, IInv, Finish, serverVars, Forget
  <2>8. TokenOrigin'
    BY <1>3, <2>5 DEF TokenOrigin, IInv, Finish, serverVars
  <2>9. /\ admin_cookie' \in Cookies \cup {NULL}
        /\ user_cookie' \in Cookies \cup {NULL}
        /\ jwt_token' \in Tokens \cup {NULL}
        /\ admin_username' \in AdminNames \cup {NULL}
        /\ user_username' \in UserNames \cup {NULL}
    BY <1>3 DEF IInv, TypeOK
  <2> QED
    BY <1>3, <2>1, <2>5, <2>6, <2>7, <2>8, <2>9, FinishIInv
<1> QED
  BY <1>1, <1>2, <1>3 DEF logout_admin

\* The session whose cookie a refused logout forgets is recorded as abandoned:
\* the token kept may still belong to it.
LEMMA LogoutUserIInv == ASSUME IInv, logout_user PROVE IInv'
<1>1. CASE NotUser
  BY <1>1, RejectIInv
<1>2. CASE UserRequest("logout")
  BY <1>2, UserRequestIInv
<1>3. CASE /\ Answered("logout")
           /\ DropUser
           /\ Forget(user_cookie)
           /\ Finish(Verdict(Positive))
           /\ UNCHANGED <<admin_cookie, jwt_token, admin_username, user_username>>
  <2>1. Verdict(Positive) \in SUBSET {"SUCCESS", "ERROR"}
    BY DEF Verdict
  <2>2. user_cookie # NULL /\ request.cookie = user_cookie /\ admin_cookie = NULL
    BY <1>3 DEF Answered, IInv, CookieOfRole, OneRole
  <2>3. reply.cookie = NULL /\ user_cookie' = NULL
    BY <1>3, NoCookie DEF Answered, Logins, DropUser
  <2>4. reply.status \in Positive => ~sessions[user_cookie].live
    BY <1>3, <2>2 DEF IInv, LogoutReply, Answered, Logouts, Positive
  <2>5. abandoned \subseteq abandoned' /\ abandoned' \subseteq Cookies
    BY <1>3, <2>2 DEF Forget, IInv, TypeOK
  <2>6. OneRole' /\ IdentityMatchesCookie'
    BY <1>3, <2>2, <2>3 DEF OneRole, IdentityMatchesCookie
  <2>7. NoOrphanSession'
    BY <1>3, <2>2, <2>3, <2>4
       DEF NoOrphanSession, IInv, Finish, serverVars, Forget
  <2>8. TokenOrigin'
    BY <1>3, <2>2, <2>4, <2>5
       DEF TokenOrigin, IInv, Finish, serverVars, Forget
  <2>9. /\ admin_cookie' \in Cookies \cup {NULL}
        /\ user_cookie' \in Cookies \cup {NULL}
        /\ jwt_token' \in Tokens \cup {NULL}
        /\ admin_username' \in AdminNames \cup {NULL}
        /\ user_username' \in UserNames \cup {NULL}
    BY <1>3, <2>3 DEF IInv, TypeOK
  <2> QED
    BY <1>3, <2>1, <2>5, <2>6, <2>7, <2>8, <2>9, FinishIInv
<1> QED
  BY <1>1, <1>2, <1>3 DEF logout_user

\* A granted access replaces the token by one of the present session.
LEMMA GetAccessIInv == ASSUME IInv, get_access PROVE IInv'
<1>1. CASE NotUser
  BY <1>1, RejectIInv
<1>2. CASE UserRequest("get_access")
  BY <1>2, UserRequestIInv
<1>3. CASE /\ Answered("get_access")
           /\ jwt_token' = IF reply.status \in Positive THEN reply.token
                                                        ELSE jwt_token
           /\ Finish(Verdict(Positive))
           /\ UNCHANGED <<admin_cookie, user_cookie, admin_username,
                          user_username, abandoned>>
  <2>1. Verdict(Positive) \in SUBSET {"SUCCESS", "ERROR"}
    BY DEF Verdict
  <2>2. user_cookie # NULL
    BY <1>3 DEF Answered, IInv, CookieOfRole
  <2>3. reply.cookie = NULL
    BY <1>3, NoCookie DEF Answered, Logins
  <2>4. OneRole' /\ IdentityMatchesCookie'
    BY <1>3 DEF OneRole, IdentityMatchesCookie, IInv, Finish, serverVars
  <2>5. NoOrphanSession'
    BY <1>3, <2>3 DEF NoOrphanSession, IInv, Finish, Refusal, serverVars
  <2>6. TokenOrigin'
    BY <1>3, <2>2
       DEF TokenOrigin, IInv, AccessReply, Answered, Positive, Finish, serverVars
  <2>7. /\ admin_cookie' \in Cookies \cup {NULL}
        /\ user_cookie' \in Cookies \cup {NULL}
        /\ jwt_token' \in Tokens \cup {NULL}
        /\ admin_username' \in AdminNames \cup {NULL}
        /\ user_username' \in UserNames \cup {NULL}
        /\ abandoned' \subseteq Cookies
    BY <1>3 DEF IInv, TypeOK, Reply
  <2> QED
    BY <1>3, <2>1, <2>4, <2>5, <2>6, <2>7, FinishIInv
<1> QED
  BY <1>1, <1>2, <1>3 DEF get_access

-----------------------------------------------------------------------------
\* The other commands.

LEMMA AdminIInv == ASSUME IInv, Admin_Commands PROVE IInv'
<1>1. ASSUME NEW allowed, Malformed(allowed)
      PROVE  IInv'
  BY <1>1, RejectIInv DEF Malformed
<1> QED
  BY <1>1, RejectIInv, AdminRequestIInv, ConcludeIInv
     DEF Admin_Commands, add_user, get_users, delete_user, AdminCommands

\* add_collection posts its next movie with the same token.
LEMMA PostNextIInv ==
    ASSUME IInv, NEW cmd \in {"add_collection", "post_movie"}, Answered(cmd),
           PostNext(todo)
    PROVE  IInv'
<1>1. jwt_token # NULL
  BY DEF Answered, IInv, CookieOfRole, LibraryCommands
<1>2. reply.cookie = NULL
  BY NoCookie DEF Answered, Logins
<1>3. CASE /\ todo > 0
           /\ Transmit("post_movie", user_cookie, jwt_token, NULL, NULL)
           /\ todo' = todo - 1
  <2>1. todo' \in 0..MaxMovies
    BY <1>3, MaxMoviesAssumption DEF IInv, TypeOK
  <2> QED
    BY <1>1, <1>2, <1>3, <2>1, LibraryTransmitIInv DEF LibraryCommands
<1>4. CASE Finish({"SUCCESS"}) /\ UNCHANGED <<globals, abandoned>>
  BY <1>2, <1>4, PlainFinishIInv
<1> QED
  BY <1>3, <1>4 DEF PostNext

\* add_collection goes on, or ends, without touching the session.
LEMMA AddCollectionIInv == ASSUME IInv, add_collection PROVE IInv'
<1>1. CASE NoAccess \/ Malformed(jwt_token # NULL)
  BY <1>1, RejectIInv DEF Malformed
<1>2. CASE /\ Prompt
           /\ jwt_token # NULL
           /\ Transmit("add_collection", user_cookie, jwt_token, NULL, NULL)
           /\ todo' \in 0..MaxMovies
  BY <1>2, NoCookie, LibraryTransmitIInv DEF Prompt, LibraryCommands
<1>3. CASE /\ Answered("add_collection") \/ Answered("post_movie")
           /\ PostNext(todo)
  BY <1>3, PostNextIInv
<1>4. CASE /\ Answered("add_collection") \/ Answered("post_movie")
           /\ Finish({"ERROR", "SUCCESS"}) \/ Finish({"ERROR"})
           /\ UNCHANGED <<globals, abandoned>>
  <2>1. reply.cookie = NULL
    BY <1>4, NoCookie DEF Answered, Logins
  <2> QED
    BY <1>4, <2>1, PlainFinishIInv
<1> QED
  BY <1>1, <1>2, <1>3, <1>4 DEF add_collection

\* The other library commands do not touch the session either.
LEMMA LibraryIInv == ASSUME IInv, Library_Commands PROVE IInv'
<1>1. ASSUME NEW allowed, Malformed(allowed)
      PROVE  IInv'
  BY <1>1, RejectIInv DEF Malformed
<1>2. CASE get_movies \/ add_movie \/ get_movie \/ update_movie \/ delete_movie
  BY <1>1, <1>2, RejectIInv, LibraryRequestIInv, ConcludeIInv
     DEF get_movies, add_movie, get_movie, update_movie, delete_movie,
         LibraryCommands
<1>3. CASE add_collection
  BY <1>3, AddCollectionIInv
<1>4. CASE \/ get_collections \/ get_collection \/ delete_collection
           \/ add_movie_to_collection \/ delete_movie_from_collection
  BY <1>1, <1>4, RejectIInv, LibraryRequestIInv, ConcludeIInv
     DEF get_collections, get_collection, delete_collection,
         add_movie_to_collection, delete_movie_from_collection, LibraryCommands
<1> QED
  BY <1>2, <1>3, <1>4 DEF Library_Commands

\* Every command keeps the inductive invariant.
LEMMA CommandIInv == ASSUME IInv, Command PROVE IInv'
  BY LoginAdminIInv, LoginUserIInv, LogoutAdminIInv, LogoutUserIInv,
     GetAccessIInv, AdminIInv, LibraryIInv
     DEF Command, Session_Commands

-----------------------------------------------------------------------------
\* The process.

LEMMA EndIInv == ASSUME IInv, End PROVE IInv'
<1> USE DEF End, serverVars
<1>1. TypeOK'
  <2>1. request' \in Request /\ request'.cmd = "none"
    BY DEF Request, NoRequest
  <2>2. reply' \in Reply
    BY DEF Reply, StatusLines, Refusal
  <2>3. todo' \in 0..MaxMovies
    BY MaxMoviesAssumption
  <2>4. abandoned' \subseteq Cookies
    BY DEF Forgotten, IInv, TypeOK, Reply
  <2> QED
    BY <2>1, <2>2, <2>3, <2>4 DEF IInv, TypeOK
<1>2. (OneRole /\ IdentityMatchesCookie /\ TokenOrigin)'
  BY DEF OneRole, IdentityMatchesCookie, TokenOrigin
<1>3. NoOrphanSession'
  BY NullAssumption DEF NoOrphanSession, Forgotten, IInv
<1>4. (LoginAlone /\ CookieOfRole)'
  BY DEF LoginAlone, CookieOfRole, Logins, NoRequest, AdminCommands, LibraryCommands
<1>5. (LoginReply /\ LogoutReply /\ AccessReply /\ StatusKnown)'
  BY DEF LoginReply, LogoutReply, AccessReply, StatusKnown, Refusal
<1>6. SessionsOpened'
  BY DEF IInv, SessionsOpened
<1> QED
  BY <1>1, <1>2, <1>3, <1>4, <1>5, <1>6 DEF IInv

\* A new process holds nothing.
LEMMA LaunchIInv == ASSUME IInv, Launch PROVE IInv'
<1> USE DEF Launch, globals, serverVars
<1>1. TypeOK'
  BY DEF IInv, TypeOK
<1>2. (OneRole /\ IdentityMatchesCookie /\ NoOrphanSession /\ TokenOrigin)'
  BY DEF IInv, OneRole, IdentityMatchesCookie, NoOrphanSession, TokenOrigin
<1>3. (LoginAlone /\ CookieOfRole)'
  BY DEF IInv, LoginAlone, CookieOfRole
<1>4. (LoginReply /\ LogoutReply /\ AccessReply /\ StatusKnown)'
  BY DEF IInv, TypeOK, LoginReply, LogoutReply, AccessReply, StatusKnown, Refusal
<1>5. SessionsOpened'
  BY DEF IInv, SessionsOpened
<1> QED
  BY <1>1, <1>2, <1>3, <1>4, <1>5 DEF IInv

\* The end and the start of a process keep the inductive invariant.
LEMMA ProcessIInv == ASSUME IInv, Process PROVE IInv'
  BY EndIInv, LaunchIInv DEF Process, exit, Killed

-----------------------------------------------------------------------------
\* The server.

\* An answer that opens no session and changes nothing at the server keeps all
\* but the three conjuncts about what a reply of its kind means.
LEMMA AnswerIInv ==
    ASSUME IInv, pc = "waiting", NEW status \in StatusLines,
           Answer(status, NULL, NULL), UNCHANGED serverVars,
           LoginReply', LogoutReply', AccessReply', StatusKnown'
    PROVE  IInv'
<1> USE DEF Answer, globals, serverVars
<1>1. TypeOK'
  BY DEF IInv, TypeOK, Reply
<1>2. (OneRole /\ IdentityMatchesCookie /\ NoOrphanSession /\ TokenOrigin)'
  <2>1. reply.cookie = NULL
    BY DEF IInv, TypeOK, Refusal
  <2> QED
    BY <2>1 DEF IInv, OneRole, IdentityMatchesCookie, NoOrphanSession, TokenOrigin
<1>3. (LoginAlone /\ CookieOfRole)'
  BY DEF IInv, LoginAlone, CookieOfRole
<1>4. SessionsOpened'
  BY DEF IInv, SessionsOpened
<1> QED
  BY <1>1, <1>3, <1>2, <1>4 DEF IInv

\* A granted request is answered with a status line, and no error.
LEMMA GrantedStatus ==
    ASSUME NEW cmd \in Requests, NEW status \in Granted(cmd)
    PROVE  status \in StatusLines /\ status # "error"
  BY NoContentAssumption DEF Granted, StatusLines

\* A granted request that is not about the session leaves sessions alone.
LEMMA GrantPlainIInv ==
    ASSUME IInv, GrantAdmin \/ GrantLibrary
    PROVE  IInv'
<1>1. PICK status \in Granted(request.cmd) : Answer(status, NULL, NULL)
  BY DEF GrantAdmin, GrantLibrary
<1>2. /\ pc = "waiting"
      /\ request.cmd \in AdminCommands \cup LibraryCommands
      /\ UNCHANGED serverVars
  BY DEF GrantAdmin, GrantLibrary, Waiting
<1>3. status \in StatusLines
  BY <1>2, GrantedStatus DEF Requests
<1>4. request'.cmd \notin Logins \cup Logouts \cup {"get_access"}
  BY <1>1, <1>2 DEF Answer, AdminCommands, LibraryCommands, Logins, Logouts
<1>5. reply'.cookie = NULL
  BY <1>1 DEF Answer
<1>6. LoginReply' /\ LogoutReply' /\ AccessReply' /\ StatusKnown'
  BY <1>4, <1>5 DEF LoginReply, LogoutReply, AccessReply, StatusKnown
<1> QED
  BY <1>1, <1>2, <1>3, <1>6, AnswerIInv

\* A refusal leaves the sessions alone.
LEMMA RefuseIInv == ASSUME IInv, Refuse PROVE IInv'
<1>1. reply'.status = "error" /\ reply'.cookie = NULL
  BY DEF Refuse, Answer
<1>2. LoginReply' /\ LogoutReply' /\ AccessReply' /\ StatusKnown'
  BY <1>1 DEF LoginReply, LogoutReply, AccessReply, StatusKnown
<1> QED
  BY <1>2, AnswerIInv DEF Refuse, Waiting, StatusLines

\* Ending a session, at a logout or on the server's own accord, changes nothing
\* else about it or about another.
LEMMA EndedSession ==
    ASSUME sessions \in [Cookies -> Session], NEW ended \in Cookies,
           sessions' = [sessions EXCEPT ![ended].live = FALSE]
    PROVE  /\ sessions' \in [Cookies -> Session]
           /\ ~sessions'[ended].live
           /\ \A cookie \in Cookies :
                /\ sessions'[cookie].role = sessions[cookie].role
                /\ sessions'[cookie].admin = sessions[cookie].admin
                /\ sessions'[cookie].user = sessions[cookie].user
                /\ sessions'[cookie].live => sessions[cookie].live
<1> DEFINE now == [sessions[ended] EXCEPT !.live = FALSE]
<1>1. sessions[ended] \in Session
  OBVIOUS
<1>2. /\ now \in Session
      /\ ~now.live
      /\ now.role = sessions[ended].role
      /\ now.admin = sessions[ended].admin
      /\ now.user = sessions[ended].user
  BY <1>1 DEF Session
<1>3. sessions' = [sessions EXCEPT ![ended] = now]
  OBVIOUS
<1> HIDE DEF now
<1>4. sessions' \in [Cookies -> Session] /\ sessions'[ended] = now
  BY <1>2, <1>3
<1>5. \A cookie \in Cookies \ {ended} : sessions'[cookie] = sessions[cookie]
  BY <1>3
<1> QED
  BY <1>2, <1>4, <1>5

\* A granted logout ends the session of the cookie it came with.
LEMMA GrantLogoutIInv == ASSUME IInv, GrantLogout PROVE IInv'
<1>1. PICK status \in Granted(request.cmd) : Answer(status, NULL, NULL)
  BY DEF GrantLogout
<1>2. /\ pc = "waiting"
      /\ request.cmd \in Logouts
      /\ sessions[request.cookie].live
      /\ sessions' = [sessions EXCEPT ![request.cookie].live = FALSE]
      /\ UNCHANGED tokens
  BY DEF GrantLogout, Waiting, Logouts
<1>3. status = "200 OK"
  BY <1>2 DEF Granted, Logouts
<1>4. reply.cookie = NULL /\ request.cookie \in Cookies
  BY <1>2 DEF IInv, TypeOK, Refusal, Logouts, Request, CookieOfRole
<1>5. /\ sessions' \in [Cookies -> Session]
      /\ ~sessions'[request.cookie].live
      /\ \A cookie \in Cookies :
           /\ sessions'[cookie].role = sessions[cookie].role
           /\ sessions'[cookie].admin = sessions[cookie].admin
           /\ sessions'[cookie].user = sessions[cookie].user
           /\ sessions'[cookie].live => sessions[cookie].live
  BY <1>2, <1>4, EndedSession DEF IInv, TypeOK
<1> USE <1>1 DEF Answer, globals
<1>6. TypeOK'
  BY <1>2, <1>3, <1>5 DEF IInv, TypeOK, Reply, StatusLines
<1>7. OneRole' /\ IdentityMatchesCookie'
  BY <1>5 DEF IInv, OneRole, IdentityMatchesCookie, TypeOK
<1>8. NoOrphanSession' /\ TokenOrigin'
  BY <1>2, <1>4, <1>5 DEF IInv, NoOrphanSession, TokenOrigin, TypeOK
<1>9. LoginAlone' /\ CookieOfRole'
  BY DEF IInv, LoginAlone, CookieOfRole
<1>10. LoginReply' /\ LogoutReply' /\ AccessReply' /\ StatusKnown'
  BY <1>2, <1>3, <1>5
     DEF LoginReply, LogoutReply, AccessReply, StatusKnown, Positive, Logins, Logouts
<1>11. SessionsOpened'
  BY <1>2, <1>5 DEF IInv, SessionsOpened, TypeOK
<1> QED
  BY <1>6, <1>7, <1>8, <1>9, <1>10, <1>11 DEF IInv

\* A session that ends on its own leaves what the client holds.
LEMMA ExpireIInv ==
    ASSUME IInv, NEW ended \in Cookies, Expire(ended)
    PROVE  IInv'
<1>1. /\ sessions' \in [Cookies -> Session]
      /\ \A cookie \in Cookies :
           /\ sessions'[cookie].role = sessions[cookie].role
           /\ sessions'[cookie].admin = sessions[cookie].admin
           /\ sessions'[cookie].user = sessions[cookie].user
           /\ sessions'[cookie].live => sessions[cookie].live
  BY EndedSession DEF Expire, IInv, TypeOK
<1> USE DEF Expire, globals
<1>2. TypeOK'
  BY <1>1 DEF IInv, TypeOK
<1>3. OneRole' /\ IdentityMatchesCookie'
  BY <1>1 DEF IInv, OneRole, IdentityMatchesCookie, TypeOK
<1>4. NoOrphanSession' /\ TokenOrigin'
  BY <1>1 DEF IInv, NoOrphanSession, TokenOrigin, TypeOK
<1>5. LoginAlone' /\ CookieOfRole'
  BY DEF IInv, LoginAlone, CookieOfRole
<1>6. LoginReply' /\ AccessReply' /\ StatusKnown'
  BY <1>1 DEF IInv, LoginReply, AccessReply, StatusKnown, TypeOK, Reply
<1>7. LogoutReply'
  <2> SUFFICES ASSUME pc = "answered", request.cmd \in Logouts,
                      reply.status # "error"
               PROVE  ~sessions'[request.cookie].live
    BY DEF LogoutReply
  <2>1. request.cookie \in Cookies /\ ~sessions[request.cookie].live
    BY DEF IInv, LogoutReply, CookieOfRole, Logouts, TypeOK, Request
  <2> QED
    BY <2>1, <1>1
<1>8. SessionsOpened'
  BY <1>1 DEF IInv, SessionsOpened, TypeOK
<1> QED
  BY <1>2, <1>3, <1>4, <1>5, <1>6, <1>7, <1>8 DEF IInv

\* A granted login opens a session under a cookie that was never used.
LEMMA GrantLoginIInv == ASSUME IInv, GrantLogin PROVE IInv'
<1> DEFINE Opened == [role  |-> IF request.cmd = "login" THEN "user" ELSE "admin",
                      admin |-> request.admin,
                      user  |-> request.user,
                      live  |-> TRUE]
<1>1. PICK opened \in Cookies, status \in Granted(request.cmd) :
        /\ sessions[opened].role = "unused"
        /\ sessions' = [sessions EXCEPT ![opened] = Opened]
        /\ Answer(status, opened, NULL)
  BY DEF GrantLogin
<1>2. pc = "waiting" /\ request.cmd \in Logins /\ UNCHANGED tokens
  BY DEF GrantLogin, Waiting, Logins
<1>3. status \in Positive /\ status # "error" /\ status \in StatusLines
  BY <1>2 DEF Granted, Logins, Positive, StatusLines
<1>4. admin_cookie = NULL /\ user_cookie = NULL /\ reply.cookie = NULL
  BY <1>2 DEF IInv, LoginAlone, TypeOK, Refusal
<1>5. Opened \in Session
  BY DEF IInv, TypeOK, Request, Session
<1>6. /\ Opened.role # "unused" /\ Opened.live
      /\ Opened.role = (IF request.cmd = "login" THEN "user" ELSE "admin")
      /\ Opened.admin = request.admin
      /\ Opened.user = request.user
  OBVIOUS
<1> HIDE DEF Opened
<1>7. /\ sessions' \in [Cookies -> Session]
      /\ sessions'[opened] = Opened
      /\ \A cookie \in Cookies \ {opened} : sessions'[cookie] = sessions[cookie]
  BY <1>1, <1>5 DEF IInv, TypeOK
<1>8. \A token \in Tokens : tokens[token] # opened
  BY <1>1, NullAssumption DEF IInv, SessionsOpened
<1> USE <1>1 DEF Answer, globals
<1>9. TypeOK'
  BY <1>2, <1>3, <1>7 DEF IInv, TypeOK, Reply
<1>10. OneRole' /\ IdentityMatchesCookie'
  BY <1>4 DEF OneRole, IdentityMatchesCookie
<1>11. NoOrphanSession'
  BY <1>4, <1>7 DEF IInv, NoOrphanSession
<1>12. TokenOrigin'
  BY <1>2, <1>7, <1>8 DEF IInv, TokenOrigin, TypeOK
<1>13. LoginAlone' /\ CookieOfRole'
  BY DEF IInv, LoginAlone, CookieOfRole
<1>14. LoginReply'
  BY <1>2, <1>3, <1>6, <1>7, NullAssumption DEF LoginReply
<1>15. LogoutReply' /\ AccessReply' /\ StatusKnown'
  BY <1>2, <1>3 DEF LogoutReply, AccessReply, StatusKnown, Logins, Logouts
<1>16. SessionsOpened'
  BY <1>2, <1>6, <1>7 DEF IInv, SessionsOpened, TypeOK
<1> QED
  BY <1>9, <1>10, <1>11, <1>12, <1>13, <1>14, <1>15, <1>16 DEF IInv

\* A granted access issues a token of the session that asked.
LEMMA GrantAccessIInv == ASSUME IInv, GrantAccess PROVE IInv'
<1>1. PICK granted \in Tokens, status \in Granted(request.cmd) :
        /\ tokens[granted] \in {NULL, request.cookie}
        /\ tokens' = [tokens EXCEPT ![granted] = request.cookie]
        /\ Answer(status, NULL, granted)
  BY DEF GrantAccess
<1>2. /\ pc = "waiting" /\ request.cmd = "get_access"
      /\ sessions[request.cookie].live
      /\ UNCHANGED sessions
  BY DEF GrantAccess, Waiting
<1>3. status = "200 OK"
  BY <1>2 DEF Granted
<1>4. /\ request.cookie = user_cookie /\ user_cookie \in Cookies
      /\ reply.cookie = NULL
  BY <1>2 DEF IInv, CookieOfRole, TypeOK, Refusal
<1>5. /\ tokens' \in [Tokens -> Cookies \cup {NULL}]
      /\ tokens'[granted] = user_cookie
      /\ \A token \in Tokens \ {granted} : tokens'[token] = tokens[token]
  BY <1>1, <1>4 DEF IInv, TypeOK
<1> USE <1>1 DEF Answer, globals
<1>6. TypeOK'
  BY <1>2, <1>3, <1>5 DEF IInv, TypeOK, Reply, StatusLines
<1>7. OneRole' /\ IdentityMatchesCookie' /\ NoOrphanSession'
  BY <1>2, <1>4 DEF IInv, OneRole, IdentityMatchesCookie, NoOrphanSession
<1>8. TokenOrigin'
  BY <1>2, <1>4, <1>5, NullAssumption DEF IInv, TokenOrigin, TypeOK
<1>9. LoginAlone' /\ CookieOfRole'
  BY DEF IInv, LoginAlone, CookieOfRole
<1>10. LoginReply' /\ LogoutReply' /\ StatusKnown'
  BY <1>2, <1>3 DEF LoginReply, LogoutReply, StatusKnown, Positive, Logins, Logouts
<1>11. AccessReply'
  BY <1>5, NullAssumption DEF AccessReply
<1>12. SessionsOpened'
  BY <1>2, <1>4, <1>5, NullAssumption DEF IInv, SessionsOpened, IdentityMatchesCookie, TypeOK
<1> QED
  BY <1>6, <1>7, <1>8, <1>9, <1>10, <1>11, <1>12 DEF IInv

-----------------------------------------------------------------------------
\* The invariant, and what follows from it.

LEMMA ServeIInv == ASSUME IInv, Serve PROVE IInv'
  BY GrantLoginIInv, GrantLogoutIInv, GrantAccessIInv, GrantPlainIInv, RefuseIInv
     DEF Serve

\* Every step of process and server keeps the inductive invariant.
LEMMA NextIInv == IInv /\ [Next]_vars => IInv'
<1> SUFFICES ASSUME IInv, [Next]_vars PROVE IInv'
  OBVIOUS
<1>1. CASE Next
  BY <1>1, CommandIInv, ProcessIInv, ServeIInv, ExpireIInv DEF Next
<1>2. CASE UNCHANGED vars
  \* Nothing but report changes when Return prints what was printed before.
  <2>1. Return(report)
    BY <1>2 DEF Return, vars, globals, serverVars
  <2>2. report \in SUBSET {"SUCCESS", "ERROR"}
    BY DEF IInv, TypeOK
  <2> QED
    BY <2>1, <2>2, ReturnIInv
<1> QED
  BY <1>1, <1>2

\* IInv holds in every reachable state of the client and its server.
THEOREM Invariance == Spec => []IInv
  BY InitIInv, NextIInv, PTL DEF Spec

\* Every variable keeps to its kind, and an idle process has no request or reply
\* left over.
THEOREM TypeCorrect == Spec => []TypeOK
<1>1. IInv => TypeOK
  BY DEF IInv
<1> QED
  BY <1>1, Invariance, PTL

\* The check that a login handler makes before it blocks is still good when it
\* writes its cookie: no administrator's and user's session side by side.
THEOREM RolesExclude == Spec => []OneRole
<1>1. IInv => OneRole
  BY DEF IInv
<1> QED
  BY <1>1, Invariance, PTL

\* The names and the role the client keeps are those of its session's holder.
THEOREM IdentityKept == Spec => []IdentityMatchesCookie
<1>1. IInv => IdentityMatchesCookie
  BY DEF IInv
<1> QED
  BY <1>1, Invariance, PTL

\* No handler overwrites the cookie of a session that is still live.
THEOREM SessionsAccounted == Spec => []NoOrphanSession
<1>1. IInv => NoOrphanSession
  BY DEF IInv
<1> QED
  BY <1>1, Invariance, PTL

\* The token logout_user leaves behind is never one of another session that is
\* live and still held.
THEOREM TokenAccounted == Spec => []TokenOrigin
<1>1. IInv => TokenOrigin
  BY DEF IInv
<1> QED
  BY <1>1, Invariance, PTL

\* What a handler sent is still what the client holds when the reply comes.
THEOREM CredentialsCurrent == Spec => []RequestMatchesSession
<1>1. IInv => RequestMatchesSession
  BY DEF IInv, CookieOfRole, RequestMatchesSession, Logins, LibraryCommands
<1> QED
  BY <1>1, Invariance, PTL

\* A cookie held is given up only in the reply to a logout or at the process's
\* end: the two login handlers write theirs when none is held.
THEOREM CookiesKept == Spec => CookieDroppedOnlyAtEnd
<1>1. ASSUME IInv, [Next]_vars
      PROVE  [CookieStep]_vars
  <2> SUFFICES ASSUME Next PROVE CookieStep
    BY <1>1
  <2>1. CASE UNCHANGED <<admin_cookie, user_cookie>>
    BY <2>1 DEF CookieStep
  <2>2. CASE Answered("login_admin") /\ UNCHANGED user_cookie
    BY <1>1, <2>2 DEF CookieStep, Answered, IInv, LoginAlone, Logins
  <2>3. CASE Answered("login") /\ UNCHANGED admin_cookie
    BY <1>1, <2>3 DEF CookieStep, Answered, IInv, LoginAlone, Logins
  <2>4. CASE Answered("logout_admin") /\ admin_cookie' = NULL /\ UNCHANGED user_cookie
    BY <2>4 DEF CookieStep
  <2>5. CASE Answered("logout") /\ user_cookie' = NULL /\ UNCHANGED admin_cookie
    BY <2>5 DEF CookieStep
  <2>6. CASE End
    BY <2>6 DEF CookieStep, End
  <2>7. CASE Session_Commands
    BY <2>1, <2>2, <2>3, <2>4, <2>5, <2>7
       DEF Session_Commands, login_admin, login_user, logout_admin, logout_user,
           get_access, NotAdmin, NotUser, Return, Transmit, AdminRequest,
           UserRequest, Issue, DropUser, globals
  <2>8. CASE Admin_Commands
    BY <2>1, <2>8
       DEF Admin_Commands, add_user, get_users, delete_user, NotAdmin, Malformed,
           Return, AdminRequest, Issue, Transmit, Conclude, globals
  <2>9. CASE Library_Commands
    BY <2>1, <2>9
       DEF Library_Commands, get_movies, add_movie, get_movie, update_movie,
           delete_movie, add_collection, PostNext, get_collections,
           get_collection, delete_collection, add_movie_to_collection,
           delete_movie_from_collection, NoAccess, Malformed, Return,
           LibraryRequest, Issue, Transmit, Conclude, globals
  <2>10. CASE Process
    BY <2>1, <2>6, <2>10 DEF Process, exit, Killed, Launch, globals
  <2>11. CASE Serve \/ \E cookie \in Cookies : Expire(cookie)
    BY <2>1, <2>11
       DEF Serve, GrantLogin, GrantLogout, GrantAccess, GrantAdmin, GrantLibrary,
           Refuse, Answer, Expire, globals
  <2> QED
    BY <2>7, <2>8, <2>9, <2>10, <2>11 DEF Next, Command
<1> QED
  BY <1>1, Invariance, PTL DEF Spec, CookieDroppedOnlyAtEnd

-----------------------------------------------------------------------------
\* The verdicts.  The handlers of add_collection print theirs along several
\* requests; those of all other commands compare one reply with one set of lines.

\* A reply has a line the server grants the request with, or refuses it.
ReplyFits ==
    pc = "answered" => reply.status \in Granted(request.cmd) \cup {"error"}

\* Nothing has been answered yet.
LEMMA FitsInit == Init => ReplyFits
  BY DEF Init, ReplyFits

\* Only the server's answer makes pc "answered"; nothing touches it before the
\* handler ends.
LEMMA FitsNext == ReplyFits /\ [Next]_vars => ReplyFits'
<1> SUFFICES ASSUME ReplyFits, [Next]_vars PROVE ReplyFits'
  OBVIOUS
<1>1. CASE UNCHANGED <<pc, request, reply>>
  BY <1>1 DEF ReplyFits
<1>2. CASE pc' \in {"prompt", "waiting", "exited"}
  BY <1>2 DEF ReplyFits
<1>3. ASSUME NEW status \in Granted(request.cmd) \cup {"error"},
             NEW cookie, NEW token, Answer(status, cookie, token)
      PROVE  ReplyFits'
  BY <1>3 DEF Answer, ReplyFits
<1>4. CASE Session_Commands
  BY <1>1, <1>2, <1>4
     DEF Session_Commands, login_admin, login_user, logout_admin, logout_user,
         get_access, NotAdmin, NotUser, Return, Transmit, AdminRequest,
         UserRequest, Issue, Finish
<1>5. CASE Admin_Commands
  BY <1>1, <1>2, <1>5
     DEF Admin_Commands, add_user, get_users, delete_user, NotAdmin, Malformed,
         Return, AdminRequest, Issue, Transmit, Conclude, Finish
<1>6. CASE Library_Commands
  BY <1>1, <1>2, <1>6
     DEF Library_Commands, get_movies, add_movie, get_movie, update_movie,
         delete_movie, add_collection, PostNext, get_collections,
         get_collection, delete_collection, add_movie_to_collection,
         delete_movie_from_collection, NoAccess, Malformed, Return,
         LibraryRequest, Issue, Transmit, Conclude, Finish
<1>7. CASE Process
  BY <1>2, <1>7 DEF Process, exit, Killed, Launch, End
<1>8. CASE Serve
  BY <1>3, <1>8
     DEF Serve, GrantLogin, GrantLogout, GrantAccess, GrantAdmin, GrantLibrary,
         Refuse
<1>9. CASE UNCHANGED vars \/ \E cookie \in Cookies : Expire(cookie)
  BY <1>1, <1>9 DEF Expire, vars
<1> QED
  BY <1>4, <1>5, <1>6, <1>7, <1>8, <1>9 DEF Next, Command

\* The deletions and update_movie, which the server may grant with a 204.
Removals ==
    {"update_movie", "delete_movie", "delete_collection",
     "delete_movie_from_collection", "delete_user"}

\* Lists and single collections, for which the handlers look for 200 OK alone.
Listings == {"get_movies", "get_collections", "get_collection"}

\* Each handler looks for every line its request is granted with, those of the
\* deletions if the server spells its 204 as they do.
LEMMA LinesLookedFor ==
    ASSUME NoContent = "204 No Content", NEW cmd \in Requests
    PROVE  /\ cmd \in Removals => Granted(cmd) \subseteq Removed
           /\ cmd \in Listings => Granted(cmd) \subseteq Listed
           /\ cmd \notin Removals => Granted(cmd) \subseteq Positive
  BY DEF Granted, Removals, Listings, Removed, Listed, Positive

\* The two words a command of one request may print in the end.
Agreed == IF reply.status = "error" THEN {"ERROR"} ELSE {"SUCCESS"}

\* A handler that looks for all those lines prints the server's verdict.
LEMMA VerdictOf ==
    ASSUME ReplyFits, NEW cmd, Answered(cmd), NEW accepted,
           Granted(cmd) \subseteq accepted, "error" \notin accepted
    PROVE  Verdict(accepted) = Agreed
  BY DEF ReplyFits, Answered, Verdict, Agreed

\* With that spelling, no command of one request reports an error for what was
\* granted, or success for what was refused.
THEOREM VerdictsAgree ==
    NoContent = "204 No Content" => (Spec => VerdictAgrees)
<1> SUFFICES ASSUME NoContent = "204 No Content" PROVE Spec => VerdictAgrees
  OBVIOUS
<1>1. ASSUME ReplyFits, [Next]_vars
      PROVE  [VerdictStep]_vars
  <2> SUFFICES ASSUME Next PROVE VerdictStep
    BY <1>1
  <2>1. CASE pc # "answered" \/ pc' # "prompt"
    BY <2>1 DEF VerdictStep
  <2>2. CASE request.cmd \in {"add_collection", "post_movie"}
    BY <2>2 DEF VerdictStep
  <2>3. ASSUME NEW cmd, Answered(cmd), NEW accepted, Granted(cmd) \subseteq accepted,
               "error" \notin accepted, Finish(Verdict(accepted))
        PROVE  VerdictStep
    BY <1>1, <2>3, VerdictOf DEF VerdictStep, Finish, Agreed
  <2>4. ASSUME NEW cmd \in Requests \ Removals, Answered(cmd), Finish(Verdict(Positive))
        PROVE  VerdictStep
    BY <2>3, <2>4, LinesLookedFor DEF Positive
  <2>5. ASSUME NEW cmd \in Removals, Conclude(cmd, Removed)
        PROVE  VerdictStep
    <3>1. cmd \in Requests /\ "error" \notin Removed
      BY DEF Removals, Requests, AdminCommands, LibraryCommands, Removed
    <3> QED
      BY <2>3, <2>5, <3>1, LinesLookedFor DEF Conclude
  <2>6. ASSUME NEW cmd \in Listings, Conclude(cmd, Listed)
        PROVE  VerdictStep
    <3>1. cmd \in Requests /\ "error" \notin Listed
      BY DEF Listings, Requests, LibraryCommands, Listed
    <3> QED
      BY <2>3, <2>6, <3>1, LinesLookedFor DEF Conclude
  <2>7. ASSUME NEW cmd \in Requests \ Removals, Conclude(cmd, Positive)
        PROVE  VerdictStep
    BY <2>4, <2>7 DEF Conclude
  <2>8. CASE Session_Commands
    <3>1. Logins \cup Logouts \cup {"get_access"} \subseteq Requests \ Removals
      BY DEF Logins, Logouts, Requests, Removals
    <3> QED
      BY <2>1, <2>4, <2>8, <3>1
         DEF Session_Commands, login_admin, login_user, logout_admin, logout_user,
             get_access, Logins, Logouts, NotAdmin, NotUser, AdminRequest,
             UserRequest, Prompt
  <2>9. CASE Admin_Commands
    <3>1. {"add_user", "get_users"} \subseteq Requests \ Removals
      BY DEF Requests, AdminCommands, Removals
    <3>2. "delete_user" \in Removals
      BY DEF Removals
    <3> QED
      BY <2>1, <2>5, <2>7, <2>9, <3>1, <3>2
         DEF Admin_Commands, add_user, get_users, delete_user, NotAdmin,
             Malformed, AdminRequest, Prompt
  <2>10. CASE Library_Commands
    <3>1. {"add_movie", "get_movie", "add_movie_to_collection"}
             \subseteq Requests \ Removals
      BY DEF Requests, LibraryCommands, Removals
    <3>2. {"get_movies", "get_collections", "get_collection"} \subseteq Listings
      BY DEF Listings
    <3>3. {"update_movie", "delete_movie", "delete_collection",
           "delete_movie_from_collection"} \subseteq Removals
      BY DEF Removals
    <3>4. CASE add_collection
      BY <2>1, <2>2, <3>4
         DEF add_collection, NoAccess, Malformed, Prompt, Answered
    <3>5. CASE get_movies \/ get_collections \/ get_collection
      BY <2>1, <2>6, <3>2, <3>5
         DEF get_movies, get_collections, get_collection, NoAccess,
             LibraryRequest, Prompt
    <3>6. CASE \/ update_movie \/ delete_movie \/ delete_collection
               \/ delete_movie_from_collection
      BY <2>1, <2>5, <3>3, <3>6
         DEF update_movie, delete_movie, delete_collection,
             delete_movie_from_collection, NoAccess, Malformed, LibraryRequest,
             Prompt
    <3>7. CASE add_movie \/ get_movie \/ add_movie_to_collection
      BY <2>1, <2>7, <3>1, <3>7
         DEF add_movie, get_movie, add_movie_to_collection, NoAccess, Malformed,
             LibraryRequest, Prompt
    <3> QED
      BY <2>10, <3>4, <3>5, <3>6, <3>7 DEF Library_Commands
  <2>11. CASE Process
    BY <2>1, <2>11 DEF Process, exit, Killed, Launch, End, Prompt
  <2>12. CASE Serve \/ \E cookie \in Cookies : Expire(cookie)
    BY <2>1, <2>12
       DEF Serve, GrantLogin, GrantLogout, GrantAccess, GrantAdmin, GrantLibrary,
           Refuse, Answer, Expire, Waiting
  <2> QED
    BY <2>8, <2>9, <2>10, <2>11, <2>12 DEF Next, Command
<1>2. Spec => []ReplyFits
  BY FitsInit, FitsNext, PTL DEF Spec
<1> QED
  BY <1>1, <1>2, PTL DEF Spec, VerdictAgrees

-----------------------------------------------------------------------------
\* The refinement: every step of the client is a step of Gatekeeper or leaves
\* what Gatekeeper sees unchanged.

LEMMA StutterGate ==
    ASSUME UNCHANGED <<admin_cookie, user_cookie, jwt_token>>,
           KindOf(request'.cmd) = KindOf(request.cmd)
    PROVE  UNCHANGED Gate!vars
  BY DEF Gate!vars, Role

\* What each command asks for.
LEMMA Kind ==
    ASSUME NEW cmd
    PROVE  /\ cmd \in Logins => KindOf(cmd) = cmd
           /\ cmd \in Logouts => KindOf(cmd) = "logout"
           /\ cmd = "get_access" => KindOf(cmd) = "access"
           /\ cmd \in AdminCommands => KindOf(cmd) = "admin"
           /\ cmd \in LibraryCommands => KindOf(cmd) = "library"
           /\ cmd = "none" => KindOf(cmd) = "none"
  BY DEF KindOf, Logins, Logouts, AdminCommands, LibraryCommands

\* At the prompt no request is outstanding.
LEMMA IdleGate ==
    ASSUME IInv, Prompt
    PROVE  KindOf(request.cmd) = "none"
  BY DEF IInv, TypeOK, Prompt, KindOf, AdminCommands, LibraryCommands

\* A request sent by a handler is one the role and the access allow.
LEMMA TransmitGate ==
    ASSUME IInv, Prompt, NEW cmd \in Requests, NEW cookie, NEW jwt, NEW admin, NEW user,
           Entitled(cmd, cookie, jwt), Transmit(cmd, cookie, jwt, admin, user)
    PROVE  Gate!Next
<1>1. request'.cmd = cmd /\ UNCHANGED <<admin_cookie, user_cookie, jwt_token>>
  BY DEF Transmit, globals
<1>2. KindOf(cmd) \in Gate!Kinds
  BY DEF KindOf, Requests, AdminCommands, LibraryCommands, Gate!Kinds
<1>3. Gate!Allowed(KindOf(cmd))
  <2>1. CASE cmd \in Logins
    <3>1. Role = "none" /\ KindOf(cmd) \in {"login_admin", "login"}
      BY <2>1, Kind DEF Entitled, Role, Logins
    <3> QED
      BY <3>1 DEF Gate!Allowed
  <2>2. CASE cmd \in Logouts
    <3>1. Role # "none" /\ KindOf(cmd) = "logout"
      BY <2>2, Kind DEF Entitled, Role, Logouts
    <3> QED
      BY <3>1 DEF Gate!Allowed
  <2>3. CASE cmd = "get_access"
    <3>1. Role = "user" /\ KindOf(cmd) = "access"
      BY <2>3, Kind DEF Entitled, Role, IInv, OneRole
    <3> QED
      BY <3>1 DEF Gate!Allowed
  <2>4. CASE cmd \in AdminCommands
    <3>1. Role = "admin" /\ KindOf(cmd) = "admin"
      BY <2>4, Kind DEF Entitled, Role, IInv, OneRole
    <3> QED
      BY <3>1 DEF Gate!Allowed
  <2>5. CASE cmd \in LibraryCommands
    <3>1. jwt_token # NULL /\ KindOf(cmd) = "library"
      BY <2>5, Kind DEF Entitled
    <3> QED
      BY <3>1 DEF Gate!Allowed
  <2> QED
    BY <2>1, <2>2, <2>3, <2>4, <2>5 DEF Requests, Logins, Logouts
<1>4. Gate!Send(KindOf(cmd))
  BY <1>1, <1>3, IdleGate DEF Gate!Send, Role
<1> QED
  BY <1>2, <1>4 DEF Gate!Next

\* A handler that ends without touching the session.
LEMMA FinishGate ==
    ASSUME IInv, NEW cmd \in AdminCommands \cup LibraryCommands, Answered(cmd),
           NEW words, Finish(words), UNCHANGED <<admin_cookie, user_cookie, jwt_token>>
    PROVE  Gate!Next
<1>1. KindOf(request.cmd) \in {"admin", "library"}
  BY DEF Answered, KindOf, AdminCommands, LibraryCommands
<1>2. KindOf(request'.cmd) = "none"
  BY DEF Finish, NoRequest, KindOf, AdminCommands, LibraryCommands
<1>3. Gate!Conclude
  BY <1>1, <1>2 DEF Gate!Conclude, Gate!Outcome, Role
<1> QED
  BY <1>3 DEF Gate!Next

\* A handler that returns at once is no step of Gatekeeper.
LEMMA RejectGate ==
    ASSUME NotAdmin \/ NotUser \/ NoAccess \/ Return({}) \/ Return({"ERROR"})
    PROVE  UNCHANGED Gate!vars
  BY StutterGate DEF NotAdmin, NotUser, NoAccess, Return, globals

\* An administrator's command sends what Gatekeeper allows an administrator.
LEMMA AdminRequestGate ==
    ASSUME IInv, NEW cmd \in AdminCommands \cup {"logout_admin"}, AdminRequest(cmd)
    PROVE  Gate!Next
<1>1. cmd \in Requests /\ Entitled(cmd, admin_cookie, NULL)
  BY DEF Requests, Entitled, AdminCommands, LibraryCommands, Logins, AdminRequest
<1> QED
  BY <1>1, TransmitGate DEF AdminRequest, Issue

\* A user's command sends what Gatekeeper allows a user.
LEMMA UserRequestGate ==
    ASSUME IInv, NEW cmd \in {"logout", "get_access"}, UserRequest(cmd)
    PROVE  Gate!Next
<1>1. cmd \in Requests /\ Entitled(cmd, user_cookie, NULL)
  BY DEF Requests, Entitled, AdminCommands, LibraryCommands, Logins, UserRequest
<1> QED
  BY <1>1, TransmitGate DEF UserRequest, Issue

\* A library request is sent only with a token.
LEMMA LibraryTransmitGate ==
    ASSUME IInv, Prompt, NEW cmd \in LibraryCommands, jwt_token # NULL,
           Transmit(cmd, user_cookie, jwt_token, NULL, NULL)
    PROVE  Gate!Next
<1>1. cmd \in Requests /\ Entitled(cmd, user_cookie, jwt_token)
  BY DEF Requests, Entitled, AdminCommands, LibraryCommands, Logins
<1> QED
  BY <1>1, TransmitGate

\* A library command that sends is a step of Gatekeeper.
LEMMA LibraryRequestGate ==
    ASSUME IInv, NEW cmd \in LibraryCommands, LibraryRequest(cmd)
    PROVE  Gate!Next
  BY LibraryTransmitGate DEF LibraryRequest, Issue

\* A reply that only decides a verdict ends the request and changes no role.
LEMMA ConcludeGate ==
    ASSUME IInv, NEW cmd \in AdminCommands \cup LibraryCommands,
           NEW accepted, Conclude(cmd, accepted)
    PROVE  Gate!Next
  BY FinishGate DEF Conclude, globals

\* At the end of a handler that changes the session Gatekeeper sees the outcome
\* of the request and nothing outstanding any more.
LEMMA OutcomeGate ==
    ASSUME NEW cmd \in Logins \cup Logouts \cup {"get_access"}, Answered(cmd),
           NEW words, Finish(words), Gate!Outcome(KindOf(cmd))
    PROVE  Gate!Next
<1>1. KindOf(cmd) # "none"
  BY Kind DEF Logins, Logouts
<1>2. KindOf(request'.cmd) = "none"
  BY Kind DEF Finish, NoRequest
<1>3. Gate!Conclude
  BY <1>1, <1>2 DEF Gate!Conclude, Answered
<1> QED
  BY <1>3 DEF Gate!Next

\* login_admin asks for the role of administrator, and obtains it or not.
LEMMA LoginAdminGate == ASSUME IInv, login_admin PROVE [Gate!Next]_(Gate!vars)
<1>1. CASE Return({})
  BY <1>1, RejectGate
<1>2. CASE /\ Prompt
           /\ ~LoggedIn
           /\ \E admin \in AdminNames :
                Transmit("login_admin", NULL, NULL, admin, NULL)
  <2>1. "login_admin" \in Requests /\ Entitled("login_admin", NULL, NULL)
    BY <1>2 DEF Requests, Entitled, AdminCommands, LibraryCommands, Logins, LoggedIn
  <2> QED
    BY <1>2, <2>1, TransmitGate
<1>3. CASE /\ Answered("login_admin")
           /\ Finish(Verdict(Positive))
           /\ UNCHANGED <<user_cookie, jwt_token>>
  <2>1. admin_cookie = NULL /\ user_cookie = NULL
    BY <1>3 DEF Answered, IInv, LoginAlone, Logins
  <2>2. Role' \in {"none", "admin"}
    BY <1>3, <2>1 DEF Role
  <2>3. Gate!Outcome("login_admin")
    BY <1>3, <2>2 DEF Gate!Outcome
  <2>4. KindOf("login_admin") = "login_admin"
    BY Kind DEF Logins
  <2> QED
    BY <1>3, <2>3, <2>4, OutcomeGate DEF Logins
<1> QED
  BY <1>1, <1>2, <1>3 DEF login_admin

\* login asks for the role of user, and obtains it or not.
LEMMA LoginUserGate == ASSUME IInv, login_user PROVE [Gate!Next]_(Gate!vars)
<1>1. CASE Return({}) \/ Return({"ERROR"})
  BY <1>1, RejectGate
<1>2. CASE /\ Prompt
           /\ ~LoggedIn
           /\ \E admin \in AdminNames, user \in UserNames :
                Transmit("login", NULL, NULL, admin, user)
  <2>1. "login" \in Requests /\ Entitled("login", NULL, NULL)
    BY <1>2 DEF Requests, Entitled, AdminCommands, LibraryCommands, Logins, LoggedIn
  <2> QED
    BY <1>2, <2>1, TransmitGate
<1>3. CASE /\ Answered("login")
           /\ Finish(Verdict(Positive))
           /\ UNCHANGED <<admin_cookie, jwt_token>>
  <2>1. admin_cookie = NULL /\ user_cookie = NULL
    BY <1>3 DEF Answered, IInv, LoginAlone, Logins
  <2>2. Role' \in {"none", "user"}
    BY <1>3, <2>1 DEF Role
  <2>3. Gate!Outcome("login")
    BY <1>3, <2>2 DEF Gate!Outcome
  <2>4. KindOf("login") = "login"
    BY Kind DEF Logins
  <2> QED
    BY <1>3, <2>3, <2>4, OutcomeGate DEF Logins
<1> QED
  BY <1>1, <1>2, <1>3 DEF login_user

\* A logout gives the role up.
LEMMA LogoutGate ==
    ASSUME IInv, logout_admin \/ logout_user
    PROVE  [Gate!Next]_(Gate!vars)
<1>1. CASE NotAdmin \/ NotUser
  BY <1>1, RejectGate
<1>2. CASE AdminRequest("logout_admin") \/ UserRequest("logout")
  BY <1>2, AdminRequestGate, UserRequestGate
<1>3. ASSUME NEW cmd \in Logouts, Answered(cmd), Finish(Verdict(Positive)),
             admin_cookie' = NULL, user_cookie' = NULL, UNCHANGED jwt_token
      PROVE  Gate!Next
  <2>1. Role' = "none"
    BY <1>3 DEF Role
  <2>2. Gate!Outcome("logout")
    BY <1>3, <2>1 DEF Gate!Outcome
  <2> QED
    BY <1>3, <2>2, Kind, OutcomeGate
<1>4. Answered("logout_admin") => user_cookie = NULL
  BY DEF Answered, IInv, CookieOfRole, OneRole
<1>5. Answered("logout") => admin_cookie = NULL
  BY DEF Answered, IInv, CookieOfRole, OneRole
<1> QED
  BY <1>1, <1>2, <1>3, <1>4, <1>5 DEF logout_admin, logout_user, DropUser, Logouts

\* get_access asks for access, and obtains it or not.
LEMMA GetAccessGate == ASSUME IInv, get_access PROVE [Gate!Next]_(Gate!vars)
<1>1. CASE NotUser
  BY <1>1, RejectGate
<1>2. CASE UserRequest("get_access")
  BY <1>2, UserRequestGate
<1>3. CASE /\ Answered("get_access")
           /\ jwt_token' = IF reply.status \in Positive THEN reply.token
                                                        ELSE jwt_token
           /\ Finish(Verdict(Positive))
           /\ UNCHANGED <<admin_cookie, user_cookie>>
  <2>1. Role' = Role
    BY <1>3 DEF Role
  <2>2. jwt_token # NULL => jwt_token' # NULL
    BY <1>3 DEF IInv, AccessReply, Answered, Positive
  <2>3. Gate!Outcome("access")
    BY <2>1, <2>2 DEF Gate!Outcome
  <2> QED
    BY <1>3, <2>3, Kind, OutcomeGate
<1> QED
  BY <1>1, <1>2, <1>3 DEF get_access

\* The administrator's commands are steps of Gatekeeper or none.
LEMMA AdminGate == ASSUME IInv, Admin_Commands PROVE [Gate!Next]_(Gate!vars)
  BY RejectGate, AdminRequestGate, ConcludeGate
     DEF Admin_Commands, add_user, get_users, delete_user, Malformed, AdminCommands

\* The requests that add the movies are, to Gatekeeper, the one request that
\* add_collection began with.
LEMMA AddCollectionGate == ASSUME IInv, add_collection PROVE [Gate!Next]_(Gate!vars)
<1>1. CASE NoAccess \/ Malformed(jwt_token # NULL)
  BY <1>1, RejectGate DEF Malformed
<1>2. CASE /\ Prompt
           /\ jwt_token # NULL
           /\ Transmit("add_collection", user_cookie, jwt_token, NULL, NULL)
  BY <1>2, LibraryTransmitGate DEF LibraryCommands
<1>3. ASSUME NEW cmd \in {"add_collection", "post_movie"}, Answered(cmd),
             Transmit("post_movie", user_cookie, jwt_token, NULL, NULL)
      PROVE  UNCHANGED Gate!vars
  <2>1. cmd \in LibraryCommands /\ "post_movie" \in LibraryCommands
    BY DEF LibraryCommands
  <2> QED
    BY <1>3, <2>1, Kind, StutterGate DEF Answered, Transmit, globals
<1>4. ASSUME NEW cmd \in {"add_collection", "post_movie"}, Answered(cmd),
             NEW words, Finish(words), UNCHANGED <<globals, abandoned>>
      PROVE  Gate!Next
  BY <1>4, FinishGate DEF LibraryCommands, globals
<1> QED
  BY <1>1, <1>2, <1>3, <1>4 DEF add_collection, PostNext

\* The library commands are steps of Gatekeeper or none.
LEMMA LibraryGate == ASSUME IInv, Library_Commands PROVE [Gate!Next]_(Gate!vars)
<1>1. CASE get_movies \/ add_movie \/ get_movie \/ update_movie \/ delete_movie
  BY <1>1, RejectGate, LibraryRequestGate, ConcludeGate
     DEF get_movies, add_movie, get_movie, update_movie, delete_movie, Malformed,
         LibraryCommands
<1>2. CASE \/ get_collections \/ get_collection \/ delete_collection
           \/ add_movie_to_collection \/ delete_movie_from_collection
  BY <1>2, RejectGate, LibraryRequestGate, ConcludeGate
     DEF get_collections, get_collection, delete_collection,
         add_movie_to_collection, delete_movie_from_collection, Malformed,
         LibraryCommands
<1> QED
  BY <1>1, <1>2, AddCollectionGate DEF Library_Commands

\* The end and the start of a process are steps of Gatekeeper.
LEMMA ProcessGate == ASSUME IInv, Process PROVE [Gate!Next]_(Gate!vars)
<1>1. CASE End
  <2>1. Role' = "none" /\ KindOf(request'.cmd) = "none" /\ jwt_token' = NULL
    BY <1>1, Kind DEF End, Role, NoRequest
  <2>2. Gate!End
    BY <2>1 DEF Gate!End
  <2> QED
    BY <2>2 DEF Gate!Next
<1>2. CASE Launch
  BY <1>2, StutterGate DEF Launch, globals
<1> QED
  BY <1>1, <1>2 DEF Process, exit, Killed

\* What the server does by itself is no step of Gatekeeper.
LEMMA ServeGate ==
    ASSUME Serve \/ \E cookie \in Cookies : Expire(cookie)
    PROVE  UNCHANGED Gate!vars
  BY StutterGate
     DEF Serve, GrantLogin, GrantLogout, GrantAccess, GrantAdmin, GrantLibrary,
         Refuse, Answer, Expire, globals

\* The command-line client, with all its handlers and whatever the server does,
\* implements Gatekeeper: one request at a time, of a kind its role allows.
THEOREM ImplementsGatekeeper == Spec => GateSpec
<1>1. Init => Gate!Init
  BY Kind DEF Init, Gate!Init, Role, NoRequest
<1>2. ASSUME IInv, [Next]_vars
      PROVE  [Gate!Next]_(Gate!vars)
  <2>1. CASE Next
    BY <1>2, <2>1, LoginAdminGate, LoginUserGate, LogoutGate, GetAccessGate,
       AdminGate, LibraryGate, ProcessGate, ServeGate
       DEF Next, Command, Session_Commands
  <2>2. CASE UNCHANGED vars
    BY <2>2, StutterGate DEF vars, globals
  <2> QED
    BY <1>2, <2>1, <2>2
<1> QED
  BY <1>1, <1>2, Invariance, PTL DEF Spec, GateSpec, Gate!Spec
=============================================================================
