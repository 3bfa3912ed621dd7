SPECIFICATION Spec
CONSTANTS
    Char <- Chars
    Keyword <- Keywords
    Sources <- TokensAndComments
    NoToken = NoToken
INVARIANTS
    TypeOK
    BlockCommentsMatch
    TokensInOrder
PROPERTIES
    ImplementsTokenStream
    CallsEnd
CHECK_DEADLOCK FALSE
