CONSTANTS
    NULL = NULL
    Cookies = {k1, k2}
    Tokens = {t1}
    AdminNames = {a1}
    UserNames = {u1}
    MaxMovies = 1
    NoContent = "204 No Content"
SPECIFICATION Spec
PROPERTIES
    LogoutDropsToken
