------------------------------ MODULE Gatekeeper ------------------------------
(***************************************************************************)
(* What the command-line client promises its server, whatever the user     *)
(* types: which role it plays, whether it has been granted access to the   *)
(* library, and which kind of request it has outstanding.  At most one     *)
(* request is outstanding, only kinds the role allows are sent, and the    *)
(* role changes only in the answer to the request that asks for it.        *)
(* Cookies, tokens, names and the wording of replies are left out.         *)
(***************************************************************************)

Roles == {"none", "admin", "user"}

Kinds == {"login_admin", "login", "logout", "access", "admin", "library"}

VARIABLES
    role,         \* who the client believes it is logged in as
    access,       \* a library token has been granted since the process began
    outstanding   \* the kind of the request awaiting an answer, or "none"

vars == <<role, access, outstanding>>

\* Type correctness of what the client promises.
TypeOK ==
    /\ role \in Roles
    /\ access \in BOOLEAN
    /\ outstanding \in Kinds \cup {"none"}

Init ==
    /\ role = "none"
    /\ access = FALSE
    /\ outstanding = "none"

-----------------------------------------------------------------------------

Allowed(kind) ==
    CASE kind \in {"login_admin", "login"} -> role = "none"
      [] kind = "logout"                   -> role # "none"
      [] kind = "access"                   -> role = "user"
      [] kind = "admin"                    -> role = "admin"
      [] kind = "library"                  -> access

Send(kind) ==
    /\ outstanding = "none"
    /\ Allowed(kind)
    /\ outstanding' = kind
    /\ UNCHANGED <<role, access>>

(***************************************************************************)
(* The answer may grant what was asked for or refuse it, except that a     *)
(* logout always takes effect.  A grant of access survives a logout: only  *)
(* the end of the process withdraws it.                                    *)
(***************************************************************************)
Outcome(kind) ==
    CASE kind = "login_admin" -> role' \in {"none", "admin"} /\ access' = access
      [] kind = "login"       -> role' \in {"none", "user"} /\ access' = access
      [] kind = "logout"      -> role' = "none" /\ access' = access
      [] kind = "access"      -> role' = role /\ (access => access')
      [] OTHER                -> UNCHANGED <<role, access>>

Conclude ==
    /\ outstanding # "none"
    /\ access' \in BOOLEAN
    /\ Outcome(outstanding)
    /\ outstanding' = "none"

End ==
    /\ role' = "none"
    /\ access' = FALSE
    /\ outstanding' = "none"

Next == (\E kind \in Kinds : Send(kind)) \/ Conclude \/ End

Spec == Init /\ [][Next]_vars
=============================================================================
