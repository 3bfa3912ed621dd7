------------------------------- MODULE Lexer --------------------------------
(***************************************************************************)
(* The lexer, scc/src/lexer.c: nextToken and peekToken over one source     *)
(* text, character by character.  The source is a buffer that ends in a    *)
(* null character, at place Len(source) + 1; a read behind it stops the    *)
(* program, which scc/build.sh builds with the address sanitizer.          *)
(*                                                                         *)
(* Each loop of the C functions is one action an iteration, and pc names   *)
(* the loop that is running.                                               *)
(***************************************************************************)
EXTENDS Characters

CONSTANTS
    Sources,    \* the sources there are
    NoToken     \* no token has been peeked

ASSUME LexerAssumption == Sources \subseteq Seq(Char) /\ NoToken \notin Token

VARIABLES
    source,         \* the characters of the buffer before the null character
    start,          \* where the token being read starts
    current,        \* the cursor
    line,           \* newlines counted so far
    peekedToken,    \* the token that was peeked, if hasPeeked
    pc,             \* the running loop, "idle" between calls of the lexer
    caller,         \* "next" or "peek"
    delimLength,    \* length of the block comment's delimiter
    tryEndLength,   \* length of the delimiter that may close it
    output,         \* the tokens nextToken has returned
    status          \* "run", "fatal" after logFatal, or "overrun"

cursor == <<start, current, line>>
comment == <<delimLength, tryEndLength>>
vars == <<source, cursor, peekedToken, pc, caller, comment, output, status>>

-----------------------------------------------------------------------------
Loops == {"skip", "lineComment", "delimiter", "blockComment", "closing",
          "token", "identifier", "builtin", "number", "fraction", "string"}

End == Len(source) + 1

\* peek(), at the cursor or behind it.
At(place) == IF place \in DOMAIN source THEN source[place] ELSE NUL

isAtEnd == current = End

\* The loop pc is at its next character.
In(loops) == status = "run" /\ pc \in loops /\ current <= End

Go(loop) == pc' = loop

\* advance() by n characters.
Advance(n) == current' = current + n

Fatal ==
    /\ status' = "fatal"
    /\ UNCHANGED <<source, cursor, peekedToken, pc, caller, comment, output>>

\* makeToken with the cursor at place end, and the return to the caller.
Return(kind, end, hasDot) ==
    LET token == [kind |-> kind, from |-> start, to |-> end - 1, line |-> line,
                  hasDot |-> hasDot]
    IN  /\ current' = end
        /\ pc' = "idle"
        /\ IF caller = "peek"
           THEN peekedToken' = token /\ UNCHANGED output
           ELSE output' = Append(output, token) /\ UNCHANGED peekedToken
        /\ UNCHANGED <<source, start, line, caller, comment, status>>

Init ==
    /\ source \in Sources
    /\ start = 1 /\ current = 1 /\ line = 0
    /\ peekedToken = NoToken
    /\ pc = "idle"
    /\ caller = "next"
    /\ delimLength = 0 /\ tryEndLength = 0
    /\ output = <<>>
    /\ status = "run"

-----------------------------------------------------------------------------
(* The two calls. *)

\* The parser takes no token after EOF.
Ended == output # <<>> /\ output[Len(output)].kind = "EOF"

Idle == status = "run" /\ pc = "idle" /\ ~Ended

\* nextToken or peekToken with nothing peeked.
Call(function) ==
    /\ Idle
    /\ peekedToken = NoToken
    /\ caller' = function
    /\ Go("skip")
    /\ UNCHANGED <<source, cursor, peekedToken, comment, output, status>>

\* A mutation of TakePeeked: hasPeeked stays set.
TakePeekedKept ==
    /\ Idle
    /\ peekedToken # NoToken
    /\ Len(output) <= Len(source)
    /\ output' = Append(output, peekedToken)
    /\ UNCHANGED <<source, cursor, peekedToken, pc, caller, comment, status>>

\* nextToken after peekToken; another peekToken changes nothing.
TakePeeked ==
    /\ Idle
    /\ peekedToken # NoToken
    /\ output' = Append(output, peekedToken)
    /\ peekedToken' = NoToken
    /\ UNCHANGED <<source, cursor, pc, caller, comment, status>>

-----------------------------------------------------------------------------
(* skipWhitespace *)

SkipWhite ==
    /\ In({"skip"})
    /\ At(current) \in White
    /\ line' = IF At(current) = "\n" THEN line + 1 ELSE line
    /\ Advance(1)
    /\ UNCHANGED <<source, start, peekedToken, pc, caller, comment, output, status>>

\* "#" and the character behind it, which isNext consumes whatever it is.
EnterComment ==
    /\ In({"skip"})
    /\ At(current) = "#"
    /\ Advance(2)
    /\ IF At(current + 1) = "#"
       THEN Go("delimiter") /\ delimLength' = 2 /\ tryEndLength' = 0
       ELSE Go("lineComment") /\ UNCHANGED comment
    /\ UNCHANGED <<source, start, line, peekedToken, caller, output, status>>

\* A mutation of SkipLineComment: the cursor stays where it is.
SkipLineCommentStuck ==
    /\ In({"lineComment"})
    /\ At(current) = "\n" \/ isAtEnd
    /\ Go("skip")
    /\ UNCHANGED <<source, cursor, peekedToken, caller, comment, output, status>>

SkipLineComment ==
    /\ In({"lineComment"})
    /\ IF At(current) = "\n" \/ isAtEnd
       THEN Go("skip") /\ UNCHANGED current
       ELSE Advance(1) /\ UNCHANGED pc
    /\ UNCHANGED <<source, start, line, peekedToken, caller, comment, output, status>>

CountDelimiter ==
    /\ In({"delimiter"})
    /\ Advance(1)
    /\ IF At(current) = "#"
       THEN delimLength' = delimLength + 1 /\ UNCHANGED pc
       ELSE Go("blockComment") /\ UNCHANGED delimLength
    /\ UNCHANGED <<source, start, line, peekedToken, caller, tryEndLength, output, status>>

\* The end of the source must not be behind the character that is consumed.
SkipBlockComment ==
    /\ In({"blockComment"})
    /\ current + 1 # End
    /\ Advance(1)
    /\ IF At(current) = "#"
       THEN Go("closing") /\ tryEndLength' = 1
       ELSE UNCHANGED <<pc, tryEndLength>>
    /\ UNCHANGED <<source, start, line, peekedToken, caller, delimLength, output, status>>

\* "Unterminated block comment."
UnterminatedComment ==
    /\ In({"blockComment"})
    /\ current + 1 = End
    /\ Fatal

\* A mutation of CountClosing: a longer run of "#" closes the comment too.
CountClosingAtLeast ==
    /\ In({"closing"})
    /\ Advance(1)
    /\ IF At(current) = "#"
       THEN tryEndLength' = tryEndLength + 1 /\ UNCHANGED pc
       ELSE /\ Go(IF tryEndLength >= delimLength THEN "skip" ELSE "blockComment")
            /\ UNCHANGED tryEndLength
    /\ UNCHANGED <<source, start, line, peekedToken, caller, delimLength, output, status>>

CountClosing ==
    /\ In({"closing"})
    /\ Advance(1)
    /\ IF At(current) = "#"
       THEN tryEndLength' = tryEndLength + 1 /\ UNCHANGED pc
       ELSE /\ Go(IF tryEndLength = delimLength THEN "skip" ELSE "blockComment")
            /\ UNCHANGED tryEndLength
    /\ UNCHANGED <<source, start, line, peekedToken, caller, delimLength, output, status>>

-----------------------------------------------------------------------------
(* The rest of nextToken. *)

\* A mutation of BeginToken: marks the start behind the character.
BeginTokenLate ==
    /\ In({"skip"})
    /\ At(current) \notin White \cup {"#"}
    /\ start' = current + 1
    /\ Go("token")
    /\ UNCHANGED <<source, current, line, peekedToken, caller, comment, output, status>>

BeginToken ==
    /\ In({"skip"})
    /\ At(current) \notin White \cup {"#"}
    /\ start' = current
    /\ Go("token")
    /\ UNCHANGED <<source, current, line, peekedToken, caller, comment, output, status>>

EndOfSource ==
    /\ In({"token"})
    /\ isAtEnd
    /\ Return("EOF", current, FALSE)

\* A mutation of LexSymbol: never looks at the character behind.
LexSymbolSingle ==
    /\ In({"token"})
    /\ At(current) \in Symbol
    /\ Return("symbol", current + 1, FALSE)

LexSymbol ==
    /\ In({"token"})
    /\ At(current) \in Symbol
    /\ Return("symbol",
              current + (IF <<At(current), At(current + 1)>> \in Pair THEN 2 ELSE 1),
              FALSE)

\* The first character of a longer token.
LexFirst(chars, loop) ==
    /\ In({"token"})
    /\ At(current) \in chars
    /\ Advance(1)
    /\ Go(loop)
    /\ UNCHANGED <<source, start, line, peekedToken, caller, comment, output, status>>

\* A character of the token behind the first one.
LexMore(loops, chars) ==
    /\ In(loops)
    /\ At(current) \in chars
    /\ Advance(1)
    /\ UNCHANGED <<source, start, line, peekedToken, pc, caller, comment, output, status>>

classifyIdent(text) == IF text \in Keyword THEN "keyword" ELSE "identifier"

\* For a word that starts with "v", classifyIdent reads its third character,
\* which may be behind the null character.
LexIdentifier ==
    /\ In({"identifier"})
    /\ At(current) \notin Letter \cup Digit
    /\ At(start) = "v" => start + 2 <= End
    /\ Return(classifyIdent(SubSeq(source, start, current - 1)), current, FALSE)

LexBuiltin ==
    /\ In({"builtin"})
    /\ At(current) \notin Letter \cup Digit
    /\ Return("builtin", current, FALSE)

LexDot ==
    /\ In({"number"})
    /\ At(current) = "."
    /\ Advance(1)
    /\ Go("fraction")
    /\ UNCHANGED <<source, start, line, peekedToken, caller, comment, output, status>>

\* The type behind a number: three characters, whatever they are.
LexNumber ==
    /\ In({"number", "fraction"})
    /\ At(current) \notin Digit
    /\ pc = "number" => At(current) # "."
    /\ LET end == IF At(current) \in Suffix THEN current + 3 ELSE current
       IN  /\ end <= End + 1
           /\ Return("number", end, pc = "fraction")

SkipString ==
    /\ In({"string"})
    /\ At(current) # Quote
    /\ ~isAtEnd
    /\ line' = IF At(current) = "\n" THEN line + 1 ELSE line
    /\ Advance(1)
    /\ UNCHANGED <<source, start, peekedToken, pc, caller, comment, output, status>>

LexString ==
    /\ In({"string"})
    /\ At(current) = Quote
    /\ Return("string", current + 1, FALSE)

\* "String is not terminated."
UnterminatedString ==
    /\ In({"string"})
    /\ isAtEnd
    /\ Fatal

\* "Input '%c' can not be tokenized."
Untokenizable ==
    /\ In({"token"})
    /\ At(current) = Other
    /\ Fatal

\* A read behind the null character.
Overrun ==
    /\ \/ status = "run" /\ pc # "idle" /\ current > End
       \/ /\ In({"identifier"})
          /\ At(current) \notin Letter \cup Digit
          /\ At(start) = "v"
          /\ start + 2 > End
       \/ /\ In({"number", "fraction"})
          /\ At(current) \in Suffix
          /\ current + 3 > End + 1
    /\ status' = "overrun"
    /\ UNCHANGED <<source, cursor, peekedToken, pc, caller, comment, output>>

-----------------------------------------------------------------------------
\* What the lexer does by itself once it is called.
Step ==
    \/ SkipWhite
    \/ EnterComment
    \/ SkipLineComment
    \/ CountDelimiter
    \/ SkipBlockComment
    \/ UnterminatedComment
    \/ CountClosing
    \/ BeginToken
    \/ EndOfSource
    \/ LexSymbol
    \/ LexFirst(Letter, "identifier")
    \/ LexFirst(Digit \ Letter, "number")
    \/ LexFirst({"@"}, "builtin")
    \/ LexFirst({Quote}, "string")
    \/ LexMore({"identifier", "builtin"}, Letter \cup Digit)
    \/ LexMore({"number", "fraction"}, Digit)
    \/ LexIdentifier
    \/ LexBuiltin
    \/ LexDot
    \/ LexNumber
    \/ SkipString
    \/ LexString
    \/ UnterminatedString
    \/ Untokenizable
    \/ Overrun

Next ==
    \/ Call("next")
    \/ Call("peek")
    \/ TakePeeked
    \/ Step

\* A call, once made, runs: the program is one thread.
Spec == Init /\ [][Next]_vars /\ WF_vars(Step)

-----------------------------------------------------------------------------
TypeOK ==
    /\ source \in Seq(Char)
    /\ start \in 1 .. End
    /\ current \in Nat \ {0}
    /\ line \in Nat
    /\ peekedToken \in Token \cup {NoToken}
    /\ pc \in Loops \cup {"idle"}
    /\ caller \in {"next", "peek"}
    /\ delimLength \in Nat /\ tryEndLength \in Nat
    /\ output \in Seq(Token)
    /\ status \in {"run", "fatal", "overrun"}

\* A source without comments, which TokenStream leaves out.
Plain == \A i \in DOMAIN source : source[i] # "#"

Stream == INSTANCE TokenStream
          WITH source <- IF Plain THEN source ELSE <<>>,
               output <- IF Plain THEN output ELSE <<>>

\* From a source without comments the lexer implements TokenStream: calls of
\* peekToken, which run it ahead of nextToken, neither lose a token nor repeat
\* one, and each token is the longest match, with the right line.
ImplementsTokenStream == Stream!Spec

\* A call of the lexer comes to its end: it returns, or ends the program.
CallsEnd == pc # "idle" ~> pc = "idle" \/ status # "run"

\* The places from..to are a whole run of "#".
IsRun(from, to) ==
    /\ \A i \in from .. to : At(i) = "#"
    /\ At(from - 1) # "#"
    /\ At(to + 1) # "#"

\* A block comment reaches to the next run of exactly as many "#" as opened
\* it, shorter and longer ones being part of it (test.sn, "do extend until the
\* next matching sequence"): in a source that starts with a block comment, no
\* token lies before that run's end.
BlockCommentsMatch ==
    \A d \in 2 .. Len(source) :
        IsRun(1, d) /\ output # <<>> =>
            \E from \in d + 1 .. Len(source) :
                IsRun(from, from + d - 1) /\ from + d <= output[1].from

\* The tokens made so far, with the peeked one at the end.
Made == IF peekedToken = NoToken THEN output ELSE Append(output, peekedToken)

\* Tokens lie in the source in the order in which they are returned and share
\* no character; a peeked token, which is made before it is returned, comes
\* after all that were returned (nextToken, peekToken, makeToken).
TokensInOrder ==
    \A i, j \in 1 .. Len(Made) : i < j => Made[i].to < Made[j].from

\* No read goes behind the buffer: the end of the source is found and an
\* unfinished comment or string is reported ("Unterminated block comment.").
\* It does not hold: isNext consumes the null character behind a "#".
ReadsStayInside == status # "overrun"

=============================================================================
