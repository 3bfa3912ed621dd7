---------------------------- MODULE TokenStream -----------------------------
(***************************************************************************)
(* What nextToken promises the parser, for sources without comments: the   *)
(* tokens of the source from front to back, with nothing but white space   *)
(* left out between them, each the longest that starts where it does, and  *)
(* at the end the token EOF.  Peeking is no part of it.                    *)
(***************************************************************************)
EXTENDS Characters, FiniteSets

VARIABLES
    source,     \* the text, a sequence of characters
    output      \* the tokens nextToken has returned

\* The text and the null character that ends it, which the type behind a number
\* may take in.
Buffer == Append(source, NUL)

\* The characters from..to are all in chars.
All(from, to, chars) == \A i \in from .. to : Buffer[i] \in chars

IsWord(from, to) == Buffer[from] \in Letter /\ All(from, to, Letter \cup Digit)

\* The digits from..to, of which the first is no letter and with at most one dot
\* among the others.
IsDigits(from, to) ==
    /\ Buffer[from] \in Digit \ Letter
    /\ \E dot \in from + 1 .. to + 1 :
        /\ All(from, dot - 1, Digit)
        /\ dot <= to => Buffer[dot] = "."
        /\ All(dot + 1, to, Digit)

\* Of a number the lexer only knows its digits, and that a letter behind them
\* starts a type; this has three characters, whatever they are.
IsNumber(from, to) ==
    \/ IsDigits(from, to)
    \/ IsDigits(from, to - 3) /\ Buffer[to - 2] \in Suffix

\* The kinds of which the characters from..to are a token.
KindsOf(from, to) ==
    {kind \in Kind :
        \/ /\ IsWord(from, to)
           /\ kind = IF SubSeq(Buffer, from, to) \in Keyword THEN "keyword" ELSE "identifier"
        \/ kind = "number" /\ IsNumber(from, to)
        \/ /\ kind = "builtin"
           /\ Buffer[from] = "@"
           /\ All(from + 1, to, Letter \cup Digit)
        \/ /\ kind = "string"
           /\ from < to /\ Buffer[from] = Quote /\ Buffer[to] = Quote
           /\ \A i \in from + 1 .. to - 1 : Buffer[i] # Quote
        \/ /\ kind = "symbol"
           /\ \/ from = to /\ Buffer[from] \in Symbol
              \/ from + 1 = to /\ <<Buffer[from], Buffer[to]>> \in Pair}

IsLongest(from, to) ==
    \A further \in to + 1 .. Len(Buffer) : KindsOf(from, further) = {}

\* The place behind the tokens returned, and the line of the last one.
Front == IF output = <<>> THEN 1 ELSE output[Len(output)].to + 1

LastLine == IF output = <<>> THEN 0 ELSE output[Len(output)].line

Newlines(from, to) == Cardinality({i \in from .. to : Buffer[i] = "\n"})

\* A token with the line and the dot it has to have.  Lines are counted from 0,
\* and a string has the line it ends in; a newline that is taken for part of a
\* number's type is not counted.
TokenAt(kind, from, to) ==
    [kind |-> kind, from |-> from, to |-> to,
     line |-> LastLine + Newlines(Front, IF kind = "number" THEN from - 1 ELSE to),
     hasDot |-> /\ kind = "number"
                /\ \E i \in from + 1 .. to : Buffer[i] = "." /\ All(from, i - 1, Digit)]

\* The place at which the next token starts: after the last one and the white
\* space behind it.
Start(from) ==
    /\ from \in Front .. Len(Buffer)
    /\ All(Front, from - 1, White)
    /\ Buffer[from] \notin White

-----------------------------------------------------------------------------
Init == source \in Seq(Char) /\ output = <<>>

TakeToken ==
    \E from \in 1 .. Len(source) : \E to \in from .. Len(Buffer) :
        /\ Start(from)
        /\ IsLongest(from, to)
        /\ \E kind \in KindsOf(from, to) : output' = Append(output, TokenAt(kind, from, to))
        /\ UNCHANGED source

TakeEOF ==
    /\ Start(Len(Buffer))
    /\ output' = Append(output, TokenAt("EOF", Len(Buffer), Len(source)))
    /\ UNCHANGED source

Next == TakeToken \/ TakeEOF

Spec == Init /\ [][Next]_<<source, output>>

=============================================================================
