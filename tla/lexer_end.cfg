SPECIFICATION Spec
CONSTANTS
    Char <- Chars
    Keyword <- Keywords
    Sources <- ShortComments
    NoToken = NoToken
INVARIANT
    ReadsStayInside
CHECK_DEADLOCK FALSE
