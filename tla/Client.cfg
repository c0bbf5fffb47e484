CONSTANTS
    NULL = NULL
    Cookies = {k1, k2}
    Tokens = {t1, t2}
    AdminNames = {a1}
    UserNames = {u1, u2}
    MaxMovies = 2
    NoContent = "204 No Content"
SPECIFICATION FairSpec
INVARIANTS
    TypeOK
    OneRole
    IdentityMatchesCookie
    NoOrphanSession
    TokenOrigin
    RequestMatchesSession
PROPERTIES
    CookieDroppedOnlyAtEnd
    VerdictAgrees
    GateSpec
    LogoutReleases
    CommandEnds
