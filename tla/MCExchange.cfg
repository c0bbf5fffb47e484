SPECIFICATION Spec
CONSTANTS
    NULL = NULL
    NaN = NaN
    IntBits = 8
    LongBits = 16
    MaxNesting = 2
    Deepest = 3
    Piece <- Strings_Only
    Literals = {"true", "null"}
    Figure <- Figures
    IsNumeral <- IsNumeralOf
    Huge <- TooLarge
    NumberText <- NumberTextOf
    NumberOf <- Typed_Number
    Unsigned <- Digits
    CookieEnds <- Attributes
    Texts <- TypedTexts
    Cookies <- HeldCookies
    Tokens <- HeldTokens
    Values <- ServerValues
    Styles <- Layouts
INVARIANTS
    ReadAsMeant
    StringsArrive
    InputKept
    CredentialsTaken
    BodyTaken
    ReplyRead
    CutRefused
    WithinLimits
CHECK_DEADLOCK FALSE
