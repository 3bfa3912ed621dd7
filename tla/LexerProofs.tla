---------------------------- MODULE LexerProofs -----------------------------
(***************************************************************************)
(* Proofs about Lexer, for every set of characters and keywords, sources   *)
(* of every length, comments included.                                     *)
(*                                                                         *)
(* The order of the tokens rests on the cursor: all tokens made lie before *)
(* it, and while a token is being read they lie before its start, which is *)
(* never behind the cursor.  While a call runs no token is peeked, so a    *)
(* new token becomes the last one, whoever called.                         *)
(*                                                                         *)
(* That block comments end where they have to rests on CommentInv, and the *)
(* refinement of TokenStream on StreamInv; both say what the running loop  *)
(* has read so far.                                                        *)
(***************************************************************************)
EXTENDS Lexer, FiniteSetTheorems, SequenceTheorems, TLAPS

TokenLoops == {"token", "identifier", "builtin", "number", "fraction", "string"}

AllBefore(place) == \A i \in 1 .. Len(Made) : Made[i].to < place

\* The inductive invariant.
Inv ==
    /\ TypeOK
    /\ TokensInOrder
    /\ AllBefore(current)
    /\ pc \in TokenLoops => AllBefore(start) /\ start <= current
    /\ pc # "idle" => peekedToken = NoToken

\* The variables that a step of a loop leaves alone.
Kept == UNCHANGED <<source, peekedToken, caller, output, status>>

-----------------------------------------------------------------------------
\* A token made at the end of a call comes behind all the others.
LEMMA ReturnStep ==
    ASSUME Inv, pc \in TokenLoops, NEW kind \in Kind, NEW end \in Nat, end >= current,
           NEW hasDot \in BOOLEAN, Return(kind, end, hasDot)
    PROVE  Inv'
<1> DEFINE token == [kind |-> kind, from |-> start, to |-> end - 1, line |-> line,
                     hasDot |-> hasDot]
<1>1. /\ TypeOK /\ TokensInOrder /\ AllBefore(start) /\ start <= current
      /\ peekedToken = NoToken /\ Made = output /\ pc # "idle"
    BY DEF Inv, TokenLoops, Made
<1>2. token \in Token /\ token # NoToken /\ token.from = start /\ token.to = end - 1
  <2>1. start \in Nat \ {0} /\ line \in Nat /\ end - 1 \in Nat
    BY <1>1 DEF TypeOK, End
  <2>2. token \in Token
    BY <2>1 DEF Token
  <2> QED
    BY <2>2, LexerAssumption
<1>3. current' = end /\ pc' = "idle" /\ UNCHANGED <<source, start, line, caller, comment, status>>
    BY DEF Return
<1>4. /\ output' \in Seq(Token)
      /\ peekedToken' \in Token \cup {NoToken}
      /\ Made' = Append(output, token)
  <2>1. CASE caller = "peek"
    <3>1. peekedToken' = token /\ output' = output
        BY <2>1 DEF Return
    <3> QED
        BY <3>1, <1>1, <1>2 DEF Made, TypeOK
  <2>2. CASE caller # "peek"
    <3>1. output' = Append(output, token) /\ peekedToken' = NoToken
        BY <2>2, <1>1 DEF Return
    <3> QED
        BY <3>1, <1>1, <1>2 DEF Made, TypeOK
  <2> QED
    BY <2>1, <2>2
<1> HIDE DEF token
<1>5. /\ output \in Seq(Token)
      /\ Len(Made') = Len(output) + 1
      /\ \A i \in 1 .. Len(output) : Made'[i] = output[i]
      /\ Made'[Len(output) + 1] = token
    BY <1>1, <1>2, <1>4 DEF TypeOK
<1>6. TypeOK'
    BY <1>1, <1>3, <1>4 DEF TypeOK, End, comment
<1>7. TokensInOrder'
  <2> SUFFICES ASSUME NEW i \in 1 .. Len(Made'), NEW j \in 1 .. Len(Made'), i < j
               PROVE  Made'[i].to < Made'[j].from
    BY DEF TokensInOrder
  <2>1. i \in 1 .. Len(output)
    BY <1>5
  <2>2. CASE j = Len(output) + 1
    BY <2>1, <2>2, <1>1, <1>2, <1>5 DEF AllBefore
  <2>3. CASE j # Len(output) + 1
    <3>1. j \in 1 .. Len(output)
        BY <2>3, <1>5
    <3>2. output[i].to < output[j].from
        BY <3>1, <2>1, <1>1 DEF TokensInOrder
    <3> QED
        BY <3>1, <3>2, <2>1, <1>5
  <2> QED
    BY <2>2, <2>3
<1>8. AllBefore(current)'
  <2> SUFFICES ASSUME NEW i \in 1 .. Len(Made')
               PROVE  Made'[i].to < end
    BY <1>3 DEF AllBefore
  <2>1. start \in Nat /\ current \in Nat
    BY <1>1 DEF TypeOK, End
  <2>2. CASE i = Len(output) + 1
    BY <2>2, <1>2, <1>5
  <2>3. CASE i # Len(output) + 1
    <3>1. i \in 1 .. Len(output)
        BY <2>3, <1>5
    <3>2. output[i] \in Token
        BY <3>1, <1>5
    <3>3. output[i].to < start /\ output[i].to \in Nat
        BY <3>1, <3>2, <1>1 DEF AllBefore, Token
    <3> QED
        BY <3>1, <3>3, <2>1, <1>1, <1>5
  <2> QED
    BY <2>2, <2>3
<1> QED
    BY <1>3, <1>6, <1>7, <1>8 DEF Inv, TokenLoops

\* A step that makes no token keeps the order of those that were made: the
\* cursor never goes back, and a token starts at or before it.
LEMMA LoopStep ==
    ASSUME Inv, Kept, TypeOK', current' >= current, pc # "idle", pc' # "idle",
           \/ pc' \notin TokenLoops
           \/ (pc \in TokenLoops /\ start' = start)
           \/ (start' = current /\ current' = current)
    PROVE  Inv'
<1>1. Made' = Made
    BY DEF Kept, Made
<1>2. /\ TokensInOrder /\ AllBefore(current) /\ peekedToken = NoToken
      /\ pc \in TokenLoops => AllBefore(start) /\ start <= current
    BY DEF Inv
<1>3. current \in Nat /\ current' \in Nat /\ start \in Nat /\ start' \in Nat /\ output \in Seq(Token)
    BY DEF Inv, TypeOK, End
<1>4. TokensInOrder'
    BY <1>1, <1>2 DEF TokensInOrder
<1>5. \A i \in 1 .. Len(Made) : Made[i].to \in Nat
  <2> SUFFICES ASSUME NEW i \in 1 .. Len(Made)
               PROVE  Made[i].to \in Nat
    OBVIOUS
  <2>1. output[i] \in Token /\ Made[i] = output[i]
    BY <1>2, <1>3 DEF Made
  <2> QED
    BY <2>1 DEF Token
<1>6. AllBefore(current)'
    BY <1>1, <1>2, <1>3, <1>5 DEF AllBefore
<1>7. pc' \in TokenLoops => AllBefore(start)' /\ start' <= current'
    BY <1>1, <1>2, <1>3, <1>6 DEF AllBefore
<1>8. peekedToken' = NoToken
    BY <1>2 DEF Kept
<1> QED
    BY <1>4, <1>6, <1>7, <1>8 DEF Inv

-----------------------------------------------------------------------------
LEMMA InitInv == Init => Inv
<1> SUFFICES ASSUME Init
             PROVE  Inv
    OBVIOUS
<1>1. source \in Seq(Char) /\ Len(source) \in Nat
  <2>1. source \in Seq(Char)
    BY LexerAssumption DEF Init
  <2> QED
    BY <2>1
<1>2. Made = <<>>
    BY DEF Init, Made
<1> QED
    BY <1>1, <1>2 DEF Init, Inv, TypeOK, TokensInOrder, AllBefore, TokenLoops, End

\* The two calls.
LEMMA CallInv ==
    ASSUME Inv, (\E function \in {"next", "peek"} : Call(function)) \/ TakePeeked
    PROVE  Inv'
<1>1. CASE \E function \in {"next", "peek"} : Call(function)
  <2>1. PICK function \in {"next", "peek"} : Call(function)
    BY <1>1
  <2>2. /\ UNCHANGED <<source, start, current, line, peekedToken, output, status, delimLength, tryEndLength>>
        /\ peekedToken = NoToken /\ pc' = "skip" /\ caller' = function
    BY <2>1 DEF Call, Go, cursor, comment
  <2>3. Made' = Made
    BY <2>2 DEF Made
  <2> QED
    BY <2>2, <2>3 DEF Inv, TypeOK, TokensInOrder, AllBefore, TokenLoops, Loops, End
<1>2. CASE TakePeeked
  <2>1. /\ UNCHANGED <<source, start, current, line, pc, caller, delimLength, tryEndLength, status>>
        /\ peekedToken # NoToken /\ pc = "idle"
        /\ output' = Append(output, peekedToken) /\ peekedToken' = NoToken
    BY <1>2 DEF TakePeeked, Idle, cursor, comment
  <2>2. Made' = Made
    BY <2>1 DEF Made
  <2>3. output' \in Seq(Token)
    BY <2>1 DEF Inv, TypeOK
  <2> QED
    BY <2>1, <2>2, <2>3 DEF Inv, TypeOK, TokensInOrder, AllBefore, TokenLoops, Loops, End
<1> QED
    BY <1>1, <1>2

\* skipWhitespace.
LEMMA SkipInv ==
    ASSUME Inv,
           \/ SkipWhite \/ EnterComment \/ SkipLineComment \/ CountDelimiter
           \/ SkipBlockComment \/ CountClosing \/ BeginToken
    PROVE  Inv'
<1> USE DEF In, Go, Advance, cursor, comment
<1>1. TypeOK
    BY DEF Inv
<1>2. /\ Kept /\ pc # "idle" /\ pc' \in Loops /\ current' >= current
      /\ delimLength' \in Nat /\ tryEndLength' \in Nat
      /\ line' \in Nat /\ current' \in Nat \ {0} /\ start' \in 1 .. End
      /\ pc' \notin TokenLoops \/ (start' = current /\ current' = current)
  <2>1. CASE SkipWhite
    <3>1. Kept /\ start' = start
        BY <2>1 DEF SkipWhite, Kept
    <3>2. pc # "idle" /\ pc' \in Loops /\ pc' \notin TokenLoops
        BY <2>1 DEF SkipWhite, Loops, TokenLoops
    <3>3. /\ current' >= current /\ current' \in Nat \ {0} /\ line' \in Nat
          /\ delimLength' \in Nat /\ tryEndLength' \in Nat
        BY <2>1, <1>1 DEF SkipWhite, TypeOK
    <3> QED
        BY <3>1, <3>2, <3>3, <1>1 DEF TypeOK
  <2>2. CASE EnterComment
    <3>1. Kept /\ start' = start
        BY <2>2 DEF EnterComment, Kept
    <3>2. pc # "idle" /\ pc' \in Loops /\ pc' \notin TokenLoops
        BY <2>2 DEF EnterComment, Loops, TokenLoops
    <3>3. /\ current' >= current /\ current' \in Nat \ {0} /\ line' \in Nat
          /\ delimLength' \in Nat /\ tryEndLength' \in Nat
        BY <2>2, <1>1 DEF EnterComment, TypeOK
    <3> QED
        BY <3>1, <3>2, <3>3, <1>1 DEF TypeOK
  <2>3. CASE SkipLineComment
    <3>1. Kept /\ start' = start
        BY <2>3 DEF SkipLineComment, Kept
    <3>2. pc # "idle" /\ pc' \in Loops /\ pc' \notin TokenLoops
        BY <2>3 DEF SkipLineComment, Loops, TokenLoops
    <3>3. /\ current' >= current /\ current' \in Nat \ {0} /\ line' \in Nat
          /\ delimLength' \in Nat /\ tryEndLength' \in Nat
        BY <2>3, <1>1 DEF SkipLineComment, TypeOK
    <3> QED
        BY <3>1, <3>2, <3>3, <1>1 DEF TypeOK
  <2>4. CASE CountDelimiter
    <3>1. Kept /\ start' = start
        BY <2>4 DEF CountDelimiter, Kept
    <3>2. pc # "idle" /\ pc' \in Loops /\ pc' \notin TokenLoops
        BY <2>4 DEF CountDelimiter, Loops, TokenLoops
    <3>3. /\ current' >= current /\ current' \in Nat \ {0} /\ line' \in Nat
          /\ delimLength' \in Nat /\ tryEndLength' \in Nat
        BY <2>4, <1>1 DEF CountDelimiter, TypeOK
    <3> QED
        BY <3>1, <3>2, <3>3, <1>1 DEF TypeOK
  <2>5. CASE SkipBlockComment
    <3>1. Kept /\ start' = start
        BY <2>5 DEF SkipBlockComment, Kept
    <3>2. pc # "idle" /\ pc' \in Loops /\ pc' \notin TokenLoops
        BY <2>5 DEF SkipBlockComment, Loops, TokenLoops
    <3>3. /\ current' >= current /\ current' \in Nat \ {0} /\ line' \in Nat
          /\ delimLength' \in Nat /\ tryEndLength' \in Nat
        BY <2>5, <1>1 DEF SkipBlockComment, TypeOK
    <3> QED
        BY <3>1, <3>2, <3>3, <1>1 DEF TypeOK
  <2>6. CASE CountClosing
    <3>1. Kept /\ start' = start
        BY <2>6 DEF CountClosing, Kept
    <3>2. pc # "idle" /\ pc' \in Loops /\ pc' \notin TokenLoops
        BY <2>6 DEF CountClosing, Loops, TokenLoops
    <3>3. /\ current' >= current /\ current' \in Nat \ {0} /\ line' \in Nat
          /\ delimLength' \in Nat /\ tryEndLength' \in Nat
        BY <2>6, <1>1 DEF CountClosing, TypeOK
    <3> QED
        BY <3>1, <3>2, <3>3, <1>1 DEF TypeOK
  <2>7. CASE BeginToken
    BY <2>7, <1>1 DEF BeginToken, Kept, TypeOK, Loops, End
  <2> QED
    BY <2>1, <2>2, <2>3, <2>4, <2>5, <2>6, <2>7
<1>3. TypeOK'
    BY <1>1, <1>2 DEF Kept, TypeOK, End
<1>4. pc' # "idle"
    BY <1>2 DEF Loops
<1> QED
    BY <1>2, <1>3, <1>4, LoopStep

\* The characters of a token.
LEMMA LexInv ==
    ASSUME Inv, pc \in TokenLoops, pc' \in TokenLoops, Kept, current' = current + 1,
           line' \in Nat, UNCHANGED <<start, delimLength, tryEndLength>>
    PROVE  Inv'
<1>1. TypeOK
    BY DEF Inv
<1>2. TypeOK'
    BY <1>1 DEF Kept, TypeOK, End, Loops, TokenLoops
<1>3. current' >= current /\ pc # "idle" /\ pc' # "idle"
    BY <1>1 DEF TypeOK, TokenLoops
<1> QED
    BY <1>2, <1>3, LoopStep

LEMMA LexFirstInv ==
    ASSUME Inv, NEW chars, NEW loop \in TokenLoops, LexFirst(chars, loop)
    PROVE  Inv'
<1>1. line \in Nat
    BY DEF Inv, TypeOK
<1> QED
    BY <1>1, LexInv DEF LexFirst, In, Go, Advance, comment, Kept, TokenLoops

LEMMA LexMoreInv ==
    ASSUME Inv, NEW loops \in SUBSET TokenLoops, NEW chars,
           LexMore(loops, chars) \/ LexDot \/ SkipString
    PROVE  Inv'
<1>1. line \in Nat
    BY DEF Inv, TypeOK
<1>2. CASE LexMore(loops, chars)
    BY <1>1, <1>2, LexInv DEF LexMore, In, Advance, comment, Kept
<1>3. CASE LexDot
    BY <1>1, <1>3, LexInv DEF LexDot, In, Go, Advance, comment, Kept, TokenLoops
<1>4. CASE SkipString
  <2>1. line' \in Nat
    BY <1>1, <1>4 DEF SkipString
  <2> QED
    BY <1>4, <2>1, LexInv DEF SkipString, In, Advance, comment, Kept, TokenLoops
<1> QED
    BY <1>2, <1>3, <1>4

\* The ends of a token.
LEMMA ReturnCases ==
    ASSUME Inv,
           \/ EndOfSource \/ LexSymbol \/ LexIdentifier \/ LexBuiltin \/ LexNumber
           \/ LexString
    PROVE  \E kind \in Kind, end \in Nat, hasDot \in BOOLEAN :
                pc \in TokenLoops /\ end >= current /\ Return(kind, end, hasDot)
<1> USE DEF In, Kind, TokenLoops
<1>1. current \in Nat
    BY DEF Inv, TypeOK
<1>2. CASE EndOfSource
  <2> DEFINE end == current
  <2>1. pc \in TokenLoops /\ Return("EOF", end, FALSE)
    BY <1>2 DEF EndOfSource
  <2>2. end \in Nat /\ end >= current
    BY <1>1
  <2> HIDE DEF end
  <2> QED
    BY <2>1, <2>2
<1>3. CASE LexSymbol
  <2> DEFINE end == current + (IF <<At(current), At(current + 1)>> \in Pair THEN 2 ELSE 1)
  <2>1. pc \in TokenLoops /\ Return("symbol", end, FALSE)
    BY <1>3 DEF LexSymbol
  <2>2. end \in Nat /\ end >= current
    BY <1>1
  <2> HIDE DEF end
  <2> QED
    BY <2>1, <2>2
<1>4. CASE LexIdentifier
  <2> DEFINE kind == classifyIdent(SubSeq(source, start, current - 1))
             end == current
  <2>1. pc \in TokenLoops /\ Return(kind, end, FALSE)
    BY <1>4 DEF LexIdentifier
  <2>2. kind \in Kind /\ end \in Nat /\ end >= current
    BY <1>1 DEF classifyIdent
  <2> HIDE DEF kind, end
  <2> QED
    BY <2>1, <2>2
<1>5. CASE LexBuiltin
  <2> DEFINE end == current
  <2>1. pc \in TokenLoops /\ Return("builtin", end, FALSE)
    BY <1>5 DEF LexBuiltin
  <2>2. end \in Nat /\ end >= current
    BY <1>1
  <2> HIDE DEF end
  <2> QED
    BY <2>1, <2>2
<1>6. CASE LexNumber
  <2> DEFINE end == IF At(current) \in Suffix THEN current + 3 ELSE current
             hasDot == pc = "fraction"
  <2>1. pc \in TokenLoops /\ Return("number", end, hasDot)
    BY <1>6 DEF LexNumber
  <2>2. end \in Nat /\ end >= current
    BY <1>1
  <2>3. hasDot \in BOOLEAN
    OBVIOUS
  <2> HIDE DEF end, hasDot
  <2> QED
    BY <2>1, <2>2, <2>3
<1>7. CASE LexString
  <2> DEFINE end == current + 1
  <2>1. pc \in TokenLoops /\ Return("string", end, FALSE)
    BY <1>7 DEF LexString
  <2>2. end \in Nat /\ end >= current
    BY <1>1
  <2> HIDE DEF end
  <2> QED
    BY <2>1, <2>2
<1> QED
    BY <1>2, <1>3, <1>4, <1>5, <1>6, <1>7

LEMMA ReturnInv ==
    ASSUME Inv,
           \/ EndOfSource \/ LexSymbol \/ LexIdentifier \/ LexBuiltin \/ LexNumber
           \/ LexString
    PROVE  Inv'
    BY ReturnCases, ReturnStep

\* The ends of the program.
LEMMA StopInv ==
    ASSUME Inv, UnterminatedComment \/ UnterminatedString \/ Untokenizable \/ Overrun \/ UNCHANGED vars
    PROVE  Inv'
<1>1. /\ UNCHANGED <<source, start, current, line, peekedToken, pc, caller, delimLength,
                     tryEndLength, output>>
      /\ status' \in {"fatal", "overrun", status}
    BY DEF UnterminatedComment, UnterminatedString, Untokenizable, Overrun, Fatal, vars, cursor, comment
<1>2. Made' = Made
    BY <1>1 DEF Made
<1> QED
    BY <1>1, <1>2 DEF Inv, TypeOK, TokensInOrder, AllBefore, End

LEMMA StepInv == Inv /\ [Next]_vars => Inv'
<1> SUFFICES ASSUME Inv, [Next]_vars
             PROVE  Inv'
    OBVIOUS
<1>1. CASE Call("next") \/ Call("peek") \/ TakePeeked
    BY <1>1, CallInv
<1>2. CASE SkipWhite \/ EnterComment \/ SkipLineComment \/ CountDelimiter
           \/ SkipBlockComment \/ CountClosing \/ BeginToken
    BY <1>2, SkipInv
<1>3. CASE LexFirst(Letter, "identifier") \/ LexFirst(Digit \ Letter, "number")
           \/ LexFirst({"@"}, "builtin") \/ LexFirst({Quote}, "string")
  <2>1. {"identifier", "number", "builtin", "string"} \subseteq TokenLoops
    BY DEF TokenLoops
  <2> QED
    BY <1>3, <2>1, LexFirstInv
<1>4. CASE LexMore({"identifier", "builtin"}, Letter \cup Digit)
           \/ LexMore({"number", "fraction"}, Digit) \/ LexDot \/ SkipString
  <2>1. {"identifier", "builtin"} \in SUBSET TokenLoops /\ {"number", "fraction"} \in SUBSET TokenLoops
    BY DEF TokenLoops
  <2> QED
    BY <1>4, <2>1, LexMoreInv
<1>5. CASE EndOfSource \/ LexSymbol \/ LexIdentifier \/ LexBuiltin \/ LexNumber \/ LexString
    BY <1>5, ReturnInv
<1>6. CASE UnterminatedComment \/ UnterminatedString \/ Untokenizable \/ Overrun \/ UNCHANGED vars
    BY <1>6, StopInv
<1> QED
    BY <1>1, <1>2, <1>3, <1>4, <1>5, <1>6 DEF Next, Step

\* The invariant holds of every behaviour.
THEOREM Invariance == Spec => []Inv
<1> QED
    BY InitInv, StepInv, PTL DEF Spec

\* The state of the lexer keeps its type (struct Lexer), whatever the source;
\* in particular a token never starts behind the end of the source.
THEOREM TypeCorrect == Spec => []TypeOK
<1>1. Inv => TypeOK
    BY DEF Inv
<1> QED
    BY <1>1, Invariance, PTL

\* Tokens are made in the order of the source and share no character, however
\* calls of peekToken and nextToken are mixed and whatever comments the source
\* has, unfinished ones included.
THEOREM TokensAreInOrder == Spec => []TokensInOrder
<1>1. Inv => TokensInOrder
    BY DEF Inv
<1> QED
    BY <1>1, Invariance, PTL

-----------------------------------------------------------------------------
(* Block comments.  Until the first token is made, a source that opens with   *)
(* a run of d "#" is in that comment, or a run of exactly d is behind it.     *)

Closed(d, place) ==
    \E from \in d + 1 .. Len(source) : IsRun(from, from + d - 1) /\ from + d <= place

\* The run of "#" from .. current - 1, which may close the comment.
Closing(from) ==
    /\ from = current - tryEndLength
    /\ At(from - 1) # "#"
    /\ \A i \in from .. current - 1 : At(i) = "#"

\* The comment that d "#" opened is not behind the cursor yet.
Opened(d) ==
    \/ pc \in {"idle", "skip"} /\ current = 1
    \/ pc = "delimiter" /\ current \in 3 .. d + 1 /\ delimLength = current - 1
    \/ pc = "blockComment" /\ delimLength = d /\ current >= d + 2 /\ At(current - 1) # "#"
    \/ pc = "closing" /\ delimLength = d /\ \E from \in d + 2 .. current - 1 : Closing(from)

Place == IF pc \in TokenLoops THEN start ELSE current

CommentInv(d) ==
    IsRun(1, d) =>
        IF Made = <<>> THEN Opened(d) \/ (pc # "idle" /\ Closed(d, Place))
        ELSE Closed(d, Made[1].from)

CommentsInv == \A d \in 2 .. Len(source) : CommentInv(d)

LEMMA MadeFacts ==
    ASSUME Inv
    PROVE  /\ Made \in Seq(Token)
           /\ pc # "idle" => Made = output
           /\ output # <<>> => Made # <<>> /\ Made[1] = output[1]
<1>1. output \in Seq(Token) /\ peekedToken \in Token \cup {NoToken}
    BY DEF Inv, TypeOK
<1>2. Made \in Seq(Token)
    BY <1>1 DEF Made
<1>3. ASSUME output # <<>>
      PROVE  Made # <<>> /\ Made[1] = output[1]
    <2>1. 1 \in 1 .. Len(output)
        BY <1>1, <1>3
    <2> QED
        BY <1>1, <1>3, <2>1 DEF Made
<1> QED
    BY <1>2, <1>3 DEF Inv, Made

\* What makeToken and the return to the caller do to the tokens.
LEMMA ReturnMade ==
    ASSUME Inv, pc \in TokenLoops, NEW kind \in Kind, NEW end \in Nat, end >= current,
           NEW hasDot \in BOOLEAN, Return(kind, end, hasDot)
    PROVE  /\ Made = output /\ output \in Seq(Token)
           /\ \E token \in Token :
                /\ token.kind = kind /\ token.from = start /\ token.to = end - 1
                /\ token.line = line /\ token.hasDot = hasDot
                /\ Made' = Append(output, token)
                /\ IF caller = "peek" THEN peekedToken' = token /\ output' = output
                   ELSE output' = Append(output, token) /\ peekedToken' = NoToken
<1> DEFINE token == [kind |-> kind, from |-> start, to |-> end - 1, line |-> line,
                     hasDot |-> hasDot]
<1>1. /\ TypeOK /\ AllBefore(start) /\ start <= current
      /\ peekedToken = NoToken /\ Made = output /\ pc # "idle"
    BY DEF Inv, TokenLoops, Made
<1>2. token \in Token /\ token # NoToken
    <2>1. start \in Nat \ {0} /\ line \in Nat /\ end - 1 \in Nat
        BY <1>1 DEF TypeOK, End
    <2>2. token \in Token
        BY <2>1 DEF Token
    <2> QED
        BY <2>2, LexerAssumption
<1>3. /\ token.kind = kind /\ token.from = start /\ token.to = end - 1
      /\ token.line = line /\ token.hasDot = hasDot
    OBVIOUS
<1>4. IF caller = "peek" THEN peekedToken' = token /\ output' = output
      ELSE output' = Append(output, token) /\ peekedToken' = NoToken
    BY <1>1 DEF Return
<1> HIDE DEF token
<1>5. Made' = Append(output, token)
    BY <1>2, <1>4 DEF Made
<1> QED
    BY <1>1, <1>2, <1>3, <1>4, <1>5 DEF TypeOK

LEMMA ClosedStays ==
    ASSUME NEW d \in Nat, NEW place \in Nat, NEW later \in Nat, place <= later,
           source \in Seq(Char), source' = source, Closed(d, place)
    PROVE  Closed(d, later)'
<1>1. PICK from \in d + 1 .. Len(source) : IsRun(from, from + d - 1) /\ from + d <= place
    BY DEF Closed
<1>2. IsRun(from, from + d - 1)'
    BY <1>1 DEF IsRun, At
<1>3. from \in Nat /\ from + d <= later
    BY <1>1
<1> QED
    BY <1>1, <1>2, <1>3 DEF Closed

\* Once there is a token, the first one stays where it is.
LEMMA CommentKept ==
    ASSUME Inv, NEW d \in 2 .. Len(source), IsRun(1, d), CommentInv(d),
           source' = source, Made # <<>>, Made' # <<>>, Made'[1] = Made[1]
    PROVE  CommentInv(d)'
<1>1. Closed(d, Made[1].from) /\ source \in Seq(Char) /\ d \in Nat
    BY DEF CommentInv, Inv, TypeOK
<1>2. Made[1].from \in Nat
    <2>1. Made \in Seq(Token)
        BY MadeFacts
    <2>2. Made[1] \in Token
        BY <2>1
    <2> QED
        BY <2>2 DEF Token
<1>3. Closed(d, Made[1].from)'
    <2>1. PICK place \in Nat : place = Made[1].from
        BY <1>2
    <2>2. Closed(d, place)'
        BY <1>1, <2>1, ClosedStays
    <2>3. Made'[1].from = place
        BY <2>1
    <2> QED
        BY <2>2, <2>3 DEF Closed
<1> QED
    BY <1>3 DEF CommentInv

\* Steps of a loop, in which no token is made.
LEMMA CommentPasses ==
    ASSUME Inv, NEW d \in 2 .. Len(source), IsRun(1, d), CommentInv(d), Kept,
           pc # "idle", pc' # "idle", current' \in Nat, current' >= current,
           \/ pc' \notin TokenLoops
           \/ (pc \in TokenLoops /\ start' = start)
           \/ (start' = current /\ current' = current),
           Opened(d) => Opened(d)' \/ Closed(d, Place)'
    PROVE  CommentInv(d)'
<1>1. Made' = Made /\ source' = source
    BY DEF Kept, Made
<1>2. CASE Made # <<>>
    BY <1>1, <1>2, CommentKept
<1>3. CASE Made = <<>> /\ Opened(d)
    BY <1>1, <1>3 DEF CommentInv
<1>4. CASE Made = <<>> /\ ~Opened(d)
    <2>1. Closed(d, Place) /\ source \in Seq(Char) /\ d \in Nat
        BY <1>4 DEF CommentInv, Inv, TypeOK
    <2>2. Place \in Nat /\ Place' \in Nat /\ Place <= Place'
        BY DEF Place, Inv, TypeOK, End
    <2>3. PICK place \in Nat, later \in Nat : place = Place /\ later = Place'
        BY <2>2
    <2>4. Closed(d, later)'
        BY <1>1, <2>1, <2>2, <2>3, ClosedStays
    <2>5. Closed(d, Place)'
        BY <2>3, <2>4 DEF Closed
    <2> QED
        BY <1>1, <1>4, <2>5 DEF CommentInv
<1> QED
    BY <1>2, <1>3, <1>4

\* skipWhitespace, from the "#" that opens the comment to the one that closes it.
LEMMA CommentStep ==
    ASSUME Inv, NEW d \in 2 .. Len(source), IsRun(1, d), CommentInv(d),
           \/ SkipWhite \/ EnterComment \/ SkipLineComment \/ CountDelimiter
           \/ SkipBlockComment \/ CountClosing \/ BeginToken
    PROVE  CommentInv(d)'
<1> USE DEF In, Go, Advance, cursor, comment
<1>1. /\ TypeOK /\ current \in Nat \ {0} /\ start \in Nat /\ d \in Nat /\ source \in Seq(Char)
      /\ Len(source) \in Nat /\ delimLength \in Nat /\ tryEndLength \in Nat
    BY DEF Inv, TypeOK, End
<1>2. /\ \A i \in 1 .. d : At(i) = "#"
      /\ At(d + 1) # "#" /\ At(1) = "#"
    BY DEF IsRun
<1>3. source' = source /\ \A i : At(i)' = At(i)
    BY DEF At, SkipWhite, EnterComment, SkipLineComment, CountDelimiter, SkipBlockComment,
       CountClosing, BeginToken
<1>4. CASE SkipWhite
    <2>1. ~Opened(d)
        <3>1. At(1) = "#" /\ At(current) \in White /\ pc = "skip"
            BY <1>1, <1>2, <1>4 DEF SkipWhite
        <3> QED
            BY <3>1 DEF Opened, White
    <2>2. /\ Kept /\ pc # "idle" /\ pc' # "idle" /\ pc' \notin TokenLoops
          /\ current' \in Nat /\ current' >= current
        BY <1>1, <1>4 DEF SkipWhite, Kept, TokenLoops
    <2> QED
        BY <2>1, <2>2, CommentPasses
<1>5. CASE EnterComment
    <2>1. Opened(d) => Opened(d)'
        <3> SUFFICES ASSUME Opened(d) PROVE Opened(d)'
            OBVIOUS
        <3>1. current = 1
            BY <1>5 DEF Opened, EnterComment
        <3>2. At(2) = "#"
            BY <1>1, <1>2
        <3>3. pc' = "delimiter" /\ current' = 3 /\ delimLength' = 2
            BY <1>5, <3>1, <3>2 DEF EnterComment
        <3> QED
            BY <1>1, <3>3 DEF Opened
    <2>2. /\ Kept /\ pc # "idle" /\ pc' # "idle" /\ pc' \notin TokenLoops
          /\ current' \in Nat /\ current' >= current
        BY <1>1, <1>5 DEF EnterComment, Kept, TokenLoops
    <2> QED
        BY <2>1, <2>2, CommentPasses
<1>6. CASE SkipLineComment
    <2>1. ~Opened(d)
        BY <1>6 DEF Opened, SkipLineComment
    <2>2. /\ Kept /\ pc # "idle" /\ pc' # "idle" /\ pc' \notin TokenLoops
          /\ current' \in Nat /\ current' >= current
        BY <1>1, <1>6 DEF SkipLineComment, Kept, TokenLoops
    <2> QED
        BY <2>1, <2>2, CommentPasses
<1>7. CASE CountDelimiter
    <2>1. Opened(d) => Opened(d)'
        <3> SUFFICES ASSUME Opened(d) PROVE Opened(d)'
            OBVIOUS
        <3>1. current \in 3 .. d + 1 /\ delimLength = current - 1 /\ current' = current + 1
            BY <1>7 DEF Opened, CountDelimiter
        <3>2. CASE At(current) = "#"
            <4>1. current # d + 1
                BY <1>2, <3>2
            <4>2. pc' = "delimiter" /\ delimLength' = delimLength + 1
                BY <1>7, <3>2 DEF CountDelimiter
            <4> QED
                BY <1>1, <3>1, <4>1, <4>2 DEF Opened
        <3>3. CASE At(current) # "#"
            <4>1. current = d + 1
                BY <1>1, <1>2, <3>1, <3>3
            <4>2. pc' = "blockComment" /\ delimLength' = delimLength
                BY <1>7, <3>3 DEF CountDelimiter
            <4>3. current' = d + 2 /\ current' - 1 = d + 1 /\ delimLength' = d
                BY <1>1, <3>1, <4>1, <4>2
            <4>4. (At(current - 1) # "#")'
                BY <1>2, <1>3, <4>3 DEF At
            <4> QED
                BY <1>1, <4>2, <4>3, <4>4 DEF Opened
        <3> QED
            BY <3>2, <3>3
    <2>2. /\ Kept /\ pc # "idle" /\ pc' # "idle" /\ pc' \notin TokenLoops
          /\ current' \in Nat /\ current' >= current
        BY <1>1, <1>7 DEF CountDelimiter, Kept, TokenLoops
    <2> QED
        BY <2>1, <2>2, CommentPasses
<1>8. CASE SkipBlockComment
    <2>1. Opened(d) => Opened(d)'
        <3> SUFFICES ASSUME Opened(d) PROVE Opened(d)'
            OBVIOUS
        <3>1. /\ delimLength = d /\ current >= d + 2 /\ At(current - 1) # "#"
              /\ current' = current + 1 /\ delimLength' = d /\ current' - 1 = current
            BY <1>1, <1>8 DEF Opened, SkipBlockComment
        <3>2. CASE At(current) = "#"
            <4>1. pc' = "closing" /\ tryEndLength' = 1
                BY <1>8, <3>2 DEF SkipBlockComment
            <4>2. current' - tryEndLength' = current /\ current \in d + 2 .. current' - 1
                BY <1>1, <3>1, <4>1
            <4>4. \A i \in current .. current' - 1 : At(i)' = "#"
                BY <1>1, <1>3, <3>1, <3>2
            <4>5. PICK from \in d + 2 .. current' - 1 : from = current
                BY <4>2
            <4>6. At(from - 1)' # "#" /\ \A i \in from .. current' - 1 : At(i)' = "#"
                BY <1>3, <3>1, <4>4, <4>5 DEF At
            <4>7. Closing(from)'
                BY <4>2, <4>5, <4>6 DEF Closing
            <4> QED
                BY <3>1, <4>1, <4>5, <4>7 DEF Opened
        <3>3. CASE At(current) # "#"
            <4>1. pc' = "blockComment"
                BY <1>8, <3>3 DEF SkipBlockComment
            <4>2. (At(current - 1) # "#")' /\ current' >= d + 2
                BY <1>1, <1>3, <3>1, <3>3 DEF At
            <4> QED
                BY <1>1, <3>1, <4>1, <4>2 DEF Opened
        <3> QED
            BY <3>2, <3>3
    <2>2. /\ Kept /\ pc # "idle" /\ pc' # "idle" /\ pc' \notin TokenLoops
          /\ current' \in Nat /\ current' >= current
        BY <1>1, <1>8 DEF SkipBlockComment, Kept, TokenLoops
    <2> QED
        BY <2>1, <2>2, CommentPasses
<1>9. CASE CountClosing
    <2>1. Opened(d) => Opened(d)' \/ Closed(d, Place)'
        <3> SUFFICES ASSUME Opened(d) PROVE Opened(d)' \/ Closed(d, Place)'
            OBVIOUS
        <3>1. /\ delimLength = d /\ current' = current + 1 /\ delimLength' = d
              /\ current' - 1 = current
            BY <1>1, <1>9 DEF Opened, CountClosing
        <3>2. PICK from \in d + 2 .. current - 1 : Closing(from)
            BY <1>9 DEF Opened, CountClosing
        <3>3. /\ from \in Nat /\ from = current - tryEndLength /\ At(from - 1) # "#"
              /\ \A i \in from .. current - 1 : At(i) = "#"
            BY <1>1, <3>2 DEF Closing
        <3>4. CASE At(current) = "#"
            <4>1. pc' = "closing" /\ tryEndLength' = tryEndLength + 1
                BY <1>9, <3>4 DEF CountClosing
            <4>2. from = current' - tryEndLength' /\ from \in d + 2 .. current' - 1
                BY <1>1, <3>1, <3>2, <3>3, <4>1
            <4>3. \A i \in from .. current' - 1 : At(i)' = "#"
                BY <1>1, <1>3, <3>1, <3>3, <3>4
            <4>4. At(from - 1)' # "#"
                BY <1>3, <3>3
            <4>5. Closing(from)'
                BY <4>2, <4>3, <4>4 DEF Closing
            <4> QED
                BY <3>1, <4>1, <4>2, <4>5 DEF Opened
        <3>5. CASE At(current) # "#" /\ tryEndLength = d
            <4>1. pc' = "skip"
                BY <1>9, <3>1, <3>5 DEF CountClosing
            <4>2. from + d = current /\ from + d - 1 = current - 1
                BY <1>1, <3>3, <3>5
            <4>3. IsRun(from, from + d - 1)
                BY <1>1, <3>3, <3>5, <4>2 DEF IsRun
            <4>4. from \in d + 1 .. Len(source)
                <5>1. At(from) = "#"
                    BY <3>2, <3>3
                <5> QED
                    BY <1>1, <3>2, <3>3, <5>1 DEF At, NUL
            <4>5. from + d <= current'
                BY <1>1, <3>1, <3>3, <4>2
            <4>6. IsRun(from, from + d - 1)'
                BY <1>3, <4>3 DEF IsRun
            <4>7. Place' = current'
                BY <4>1 DEF Place, TokenLoops
            <4> QED
                BY <1>3, <4>4, <4>5, <4>6, <4>7 DEF Closed
        <3>6. CASE At(current) # "#" /\ tryEndLength # d
            <4>1. pc' = "blockComment"
                BY <1>9, <3>1, <3>6 DEF CountClosing
            <4>2. (At(current - 1) # "#")' /\ current' >= d + 2
                BY <1>1, <1>3, <3>1, <3>2, <3>6 DEF At
            <4> QED
                BY <3>1, <4>1, <4>2 DEF Opened
        <3> QED
            BY <3>4, <3>5, <3>6
    <2>2. /\ Kept /\ pc # "idle" /\ pc' # "idle" /\ pc' \notin TokenLoops
          /\ current' \in Nat /\ current' >= current
        BY <1>1, <1>9 DEF CountClosing, Kept, TokenLoops
    <2> QED
        BY <2>1, <2>2, CommentPasses
<1>10. CASE BeginToken
    <2>1. ~Opened(d)
        BY <1>1, <1>2, <1>10 DEF Opened, BeginToken
    <2>2. /\ Kept /\ pc # "idle" /\ pc' # "idle" /\ start' = current /\ current' = current
          /\ current' \in Nat /\ current' >= current
        BY <1>1, <1>10 DEF BeginToken, Kept
    <2> QED
        BY <2>1, <2>2, CommentPasses
<1> QED
    BY <1>4, <1>5, <1>6, <1>7, <1>8, <1>9, <1>10

\* Within a token nothing changes; the token that a call returns starts behind
\* the comment.
LEMMA CommentToken ==
    ASSUME Inv, NEW d \in 2 .. Len(source), IsRun(1, d), CommentInv(d), pc \in TokenLoops, Kept,
           pc' \in TokenLoops, start' = start, current' = current + 1
    PROVE  CommentInv(d)'
<1>1. current \in Nat /\ ~Opened(d) /\ pc # "idle" /\ pc' # "idle"
    BY DEF Inv, TypeOK, Opened, TokenLoops
<1> QED
    BY <1>1, CommentPasses

LEMMA CommentReturn ==
    ASSUME Inv, NEW d \in 2 .. Len(source), IsRun(1, d), CommentInv(d), pc \in TokenLoops,
           NEW kind \in Kind, NEW end \in Nat, end >= current, NEW hasDot \in BOOLEAN,
           Return(kind, end, hasDot)
    PROVE  CommentInv(d)'
<1>1. PICK token \in Token : token.from = start /\ Made' = Append(output, token)
    BY ReturnMade
<1>2. /\ Made = output /\ output \in Seq(Token) /\ source' = source
      /\ source \in Seq(Char) /\ d \in Nat /\ start \in Nat
    BY ReturnMade DEF Return, Inv, TypeOK, End
<1>3. CASE output = <<>>
    <2>1. Closed(d, start)
        BY <1>2, <1>3 DEF CommentInv, Opened, Place, TokenLoops
    <2>2. PICK place \in Nat : place = start
        BY <1>2
    <2>3. Closed(d, place)'
        BY <1>2, <2>1, <2>2, ClosedStays
    <2>4. Made' # <<>> /\ Made'[1].from = place
        BY <1>1, <1>2, <1>3, <2>2
    <2> QED
        BY <2>3, <2>4 DEF CommentInv, Closed
<1>4. CASE output # <<>>
    <2>1. Made' # <<>> /\ Made'[1] = Made[1]
        BY <1>1, <1>2, <1>4
    <2> QED
        BY <1>2, <1>4, <2>1, CommentKept
<1> QED
    BY <1>3, <1>4

LEMMA CommentCall ==
    ASSUME Inv, NEW d \in 2 .. Len(source), IsRun(1, d), CommentInv(d),
           (\E function \in {"next", "peek"} : Call(function)) \/ TakePeeked
    PROVE  CommentInv(d)'
<1>1. CASE \E function \in {"next", "peek"} : Call(function)
    <2>1. /\ pc = "idle" /\ pc' = "skip" /\ Made' = Made
          /\ source' = source /\ current' = current
        BY <1>1 DEF Call, Idle, Go, cursor, Made
    <2>2. CASE Made = <<>>
        BY <2>1, <2>2 DEF CommentInv, Opened
    <2>3. CASE Made # <<>>
        BY <2>1, <2>3, CommentKept
    <2> QED
        BY <2>2, <2>3
<1>2. CASE TakePeeked
    <2>1. peekedToken # NoToken /\ output' = Append(output, peekedToken) /\ peekedToken' = NoToken
        BY <1>2 DEF TakePeeked
    <2>2. output \in Seq(Token) /\ peekedToken \in Token
        BY <2>1 DEF Inv, TypeOK
    <2>3. Made' = Made /\ Made # <<>> /\ source' = source
        BY <1>2, <2>1, <2>2 DEF Made, TakePeeked
    <2> QED
        BY <2>3, CommentKept
<1> QED
    BY <1>1, <1>2

LEMMA CommentStops ==
    ASSUME Inv, NEW d \in 2 .. Len(source), IsRun(1, d), CommentInv(d),
           UnterminatedComment \/ UnterminatedString \/ Untokenizable \/ Overrun \/ UNCHANGED vars
    PROVE  CommentInv(d)'
<1>1. UNCHANGED <<source, start, current, peekedToken, pc, delimLength, tryEndLength, output>>
    BY DEF UnterminatedComment, UnterminatedString, Untokenizable, Overrun, Fatal, vars, cursor, comment
<1>2. Made' = Made
    BY <1>1 DEF Made
<1>3. Opened(d) => Opened(d)'
    BY <1>1 DEF Opened, Closing, At
<1>4. CASE Made = <<>> /\ Opened(d)
    BY <1>2, <1>3, <1>4 DEF CommentInv
<1>5. CASE Made = <<>> /\ ~Opened(d)
    <2>1. Closed(d, Place)' /\ pc' # "idle"
        BY <1>1, <1>5 DEF CommentInv, Closed, Place, IsRun, At
    <2> QED
        BY <1>2, <1>5, <2>1 DEF CommentInv
<1>6. CASE Made # <<>>
    BY <1>1, <1>2, <1>6, CommentKept
<1> QED
    BY <1>4, <1>5, <1>6

LEMMA CommentsKept == Inv /\ CommentsInv /\ [Next]_vars => CommentsInv'
<1> SUFFICES ASSUME Inv, CommentsInv, [Next]_vars, NEW d \in 2 .. Len(source'), IsRun(1, d)'
             PROVE  CommentInv(d)'
    BY DEF CommentsInv, CommentInv
<1>1. source' = source
    BY DEF Next, Step, Call, TakePeeked, SkipWhite, EnterComment, SkipLineComment, CountDelimiter,
       SkipBlockComment, UnterminatedComment, CountClosing, BeginToken, EndOfSource, LexSymbol,
       LexFirst, LexMore, LexIdentifier, LexBuiltin, LexDot, LexNumber, SkipString, LexString,
       UnterminatedString, Untokenizable, Overrun, Fatal, Return, vars
<1>2. d \in 2 .. Len(source) /\ IsRun(1, d) /\ CommentInv(d)
    BY <1>1 DEF CommentsInv, IsRun, At
<1> USE DEF In
<1>3. CASE Call("next") \/ Call("peek") \/ TakePeeked
    BY <1>2, <1>3, CommentCall
<1>4. CASE SkipWhite \/ EnterComment \/ SkipLineComment \/ CountDelimiter
           \/ SkipBlockComment \/ CountClosing \/ BeginToken
    BY <1>2, <1>4, CommentStep
<1>5. CASE LexFirst(Letter, "identifier") \/ LexFirst(Digit \ Letter, "number")
           \/ LexFirst({"@"}, "builtin") \/ LexFirst({Quote}, "string")
    <2>1. /\ pc \in TokenLoops /\ pc' \in TokenLoops /\ Kept
          /\ start' = start /\ current' = current + 1
        BY <1>5 DEF LexFirst, Go, Advance, Kept, TokenLoops
    <2> QED
        BY <1>2, <2>1, CommentToken
<1>6. CASE LexMore({"identifier", "builtin"}, Letter \cup Digit)
           \/ LexMore({"number", "fraction"}, Digit) \/ LexDot \/ SkipString
    <2>1. /\ pc \in TokenLoops /\ pc' \in TokenLoops /\ Kept
          /\ start' = start /\ current' = current + 1
        BY <1>6 DEF LexMore, LexDot, SkipString, Go, Advance, Kept, TokenLoops
    <2> QED
        BY <1>2, <2>1, CommentToken
<1>7. CASE EndOfSource \/ LexSymbol \/ LexIdentifier \/ LexBuiltin \/ LexNumber \/ LexString
    <2>1. PICK kind \in Kind, end \in Nat, hasDot \in BOOLEAN :
            pc \in TokenLoops /\ end >= current /\ Return(kind, end, hasDot)
        BY <1>7, ReturnCases
    <2> QED
        BY <1>2, <2>1, CommentReturn
<1>8. CASE UnterminatedComment \/ UnterminatedString \/ Untokenizable \/ Overrun \/ UNCHANGED vars
    BY <1>2, <1>8, CommentStops
<1> QED
    BY <1>3, <1>4, <1>5, <1>6, <1>7, <1>8 DEF Next, Step

LEMMA CommentsFound == Inv /\ CommentsInv => BlockCommentsMatch
<1> SUFFICES ASSUME Inv, CommentsInv, NEW d \in 2 .. Len(source), IsRun(1, d), output # <<>>
             PROVE  \E from \in d + 1 .. Len(source) :
                        IsRun(from, from + d - 1) /\ from + d <= output[1].from
    BY DEF BlockCommentsMatch
<1>1. Made # <<>> /\ Made[1] = output[1]
    BY MadeFacts
<1>2. Closed(d, Made[1].from)
    BY <1>1 DEF CommentsInv, CommentInv
<1> QED
    BY <1>1, <1>2 DEF Closed

\* A block comment reaches to the next run of exactly as many "#" as opened it,
\* however long the source is and whatever runs are in the comment: no token is
\* made before.
THEOREM CommentsMatch == Spec => []BlockCommentsMatch
<1>1. Init => CommentsInv
    BY DEF Init, CommentsInv, CommentInv, Made, Opened
<1> QED
    BY <1>1, InitInv, StepInv, CommentsKept, CommentsFound, PTL DEF Spec

-----------------------------------------------------------------------------
(* The refinement of TokenStream.  Its operators, of a text s that is given. *)

Within(s, from, to, chars) == \A i \in from .. to : s[i] \in chars

WordIn(s, from, to) == s[from] \in Letter /\ Within(s, from, to, Letter \cup Digit)

DigitsIn(s, from, to) ==
    /\ s[from] \in Digit \ Letter
    /\ \E dot \in from + 1 .. to + 1 :
        /\ Within(s, from, dot - 1, Digit)
        /\ dot <= to => s[dot] = "."
        /\ Within(s, dot + 1, to, Digit)

NumberIn(s, from, to) ==
    \/ DigitsIn(s, from, to)
    \/ DigitsIn(s, from, to - 3) /\ s[to - 2] \in Suffix

BuiltinIn(s, from, to) == s[from] = "@" /\ Within(s, from + 1, to, Letter \cup Digit)

StringIn(s, from, to) ==
    /\ from < to /\ s[from] = Quote /\ s[to] = Quote
    /\ \A i \in from + 1 .. to - 1 : s[i] # Quote

SymbolIn(s, from, to) ==
    \/ from = to /\ s[from] \in Symbol
    \/ from + 1 = to /\ <<s[from], s[to]>> \in Pair

Kinds(s, from, to) ==
    {kind \in Kind :
        \/ WordIn(s, from, to) /\ kind = classifyIdent(SubSeq(s, from, to))
        \/ kind = "number" /\ NumberIn(s, from, to)
        \/ kind = "builtin" /\ BuiltinIn(s, from, to)
        \/ kind = "string" /\ StringIn(s, from, to)
        \/ kind = "symbol" /\ SymbolIn(s, from, to)}

Longest(s, from, to) == \A further \in to + 1 .. Len(s) : Kinds(s, from, further) = {}

\* The place behind the tokens returned, and the line of the last one.
Front(out) == IF out = <<>> THEN 1 ELSE out[Len(out)].to + 1

LastLine(out) == IF out = <<>> THEN 0 ELSE out[Len(out)].line

Newlines(s, from, to) == Cardinality({i \in from .. to : s[i] = "\n"})

LineAt(s, out, to) == LastLine(out) + Newlines(s, Front(out), to)

HasPoint(s, from, to) == \E i \in from + 1 .. to : s[i] = "." /\ Within(s, from, i - 1, Digit)

TokenOf(s, out, kind, from, to) ==
    [kind |-> kind, from |-> from, to |-> to,
     line |-> LineAt(s, out, IF kind = "number" THEN from - 1 ELSE to),
     hasDot |-> kind = "number" /\ HasPoint(s, from, to)]

Starts(s, out, from) ==
    /\ from \in Front(out) .. Len(s)
    /\ Within(s, Front(out), from - 1, White)
    /\ s[from] \notin White

\* The token t is the one that has to follow those in out.
Promised(s, out, t) ==
    \/ \E from \in 1 .. Len(s) - 1 : \E to \in from .. Len(s) :
        /\ Starts(s, out, from)
        /\ Longest(s, from, to)
        /\ \E kind \in Kinds(s, from, to) : t = TokenOf(s, out, kind, from, to)
    \/ Starts(s, out, Len(s)) /\ t = TokenOf(s, out, "EOF", Len(s), Len(s) - 1)

\* What a loop has read of the token that starts at from: the characters before
\* place.
ReadSoFar(s, loop, from, place) ==
    /\ loop = "token" => place = from
    /\ loop # "token" => from < place /\ from < Len(s)
    /\ loop = "identifier" => WordIn(s, from, place - 1)
    /\ loop = "number" => s[from] \in Digit \ Letter /\ Within(s, from, place - 1, Digit)
    /\ loop = "fraction" =>
        /\ s[from] \in Digit \ Letter
        /\ \E dot \in from + 1 .. place - 1 :
            /\ Within(s, from, dot - 1, Digit)
            /\ s[dot] = "."
            /\ Within(s, dot + 1, place - 1, Digit)
    /\ loop = "builtin" => BuiltinIn(s, from, place - 1)
    /\ loop = "string" => s[from] = Quote /\ \A i \in from + 1 .. place - 1 : s[i] # Quote

\* The text with the null character behind it, as TokenStream has it.
Buffer == Append(source, NUL)

\* The place before which a loop has counted the newlines; the loops of a number
\* count none.
Counted(loop) == IF loop \in {"number", "fraction"} THEN start ELSE current

\* Of a plain source: what is read is what TokenStream asks for, and a token that
\* is peeked is still the next one.
PlainInv ==
    /\ current <= End + 1
    /\ pc \in TokenLoops \cup {"idle", "skip"}
    /\ pc = "idle" /\ peekedToken = NoToken =>
        current = Front(output) /\ line = LastLine(output)
    /\ pc = "idle" /\ peekedToken # NoToken =>
        /\ Promised(Buffer, output, peekedToken)
        /\ current = peekedToken.to + 1 /\ line = peekedToken.line
    /\ pc = "skip" =>
        /\ Front(output) <= current /\ Within(Buffer, Front(output), current - 1, White)
        /\ line = LineAt(Buffer, output, current - 1)
    /\ pc \in TokenLoops =>
        /\ current <= End
        /\ Starts(Buffer, output, start) /\ ReadSoFar(Buffer, pc, start, current)
        /\ line = LineAt(Buffer, output, Counted(pc) - 1)

StreamInv == Plain => PlainInv

\* The classes of characters with which tokens start do not overlap.
LEMMA CharClasses ==
    /\ Letter \cap (Digit \ Letter) = {} /\ Symbol \cap (Letter \cup Digit) = {}
    /\ "@" \notin Letter \cup Digit \cup Symbol /\ Quote \notin Letter \cup Digit \cup Symbol
    /\ "@" # Quote
    /\ "." \notin Letter \cup Digit /\ "." # "\n" /\ "\n" # Quote
    /\ White \cap (Letter \cup Digit \cup Symbol \cup {"@", Quote}) = {} /\ "\n" \in White
    /\ NUL \notin Letter \cup Digit \cup Symbol \cup White \cup {"@", Quote, "."}
    /\ Suffix \cap (Digit \cup {"."}) = {} /\ NUL \notin Suffix
<1>1. Symbol \cap Letter = {} /\ Symbol \cap Digit = {}
    BY DEF Symbol, Letter, Digit
<1>2. White \cap Letter = {} /\ White \cap Digit = {} /\ White \cap Symbol = {}
    BY DEF White, Letter, Digit, Symbol
<1>3. /\ "@" \notin Letter \cup Digit \cup Symbol \cup White
      /\ Quote \notin Letter \cup Digit \cup Symbol \cup White
      /\ NUL \notin Letter \cup Digit \cup Symbol \cup White \cup {"@", Quote, "."}
      /\ "." \notin Letter \cup Digit
    BY DEF Letter, Digit, Symbol, White, Quote, NUL
<1>4. "@" # Quote /\ "." # "\n" /\ "\n" # Quote /\ "\n" \in White
    BY DEF Quote, White
<1>5. Suffix \cap (Digit \cup {"."}) = {} /\ NUL \notin Suffix
    BY DEF Suffix, Digit, NUL
<1> QED
    BY <1>1, <1>2, <1>3, <1>4, <1>5

LEMMA PairFacts ==
    ASSUME NEW a, NEW b, <<a, b>> \in Pair
    PROVE  a \in Symbol /\ b \in Symbol
    BY DEF Pair, Symbol

\* The first character decides which kind a token can have.
LEMMA NoKinds ==
    ASSUME NEW s, NEW from, NEW to,
           \/ s[from] \in Letter /\ ~WordIn(s, from, to)
           \/ s[from] \in Digit \ Letter /\ ~NumberIn(s, from, to)
           \/ s[from] = "@" /\ ~BuiltinIn(s, from, to)
           \/ s[from] = Quote /\ ~StringIn(s, from, to)
           \/ s[from] \in Symbol /\ ~SymbolIn(s, from, to)
    PROVE  Kinds(s, from, to) = {}
<1>1. /\ WordIn(s, from, to) => s[from] \in Letter
      /\ NumberIn(s, from, to) => s[from] \in Digit \ Letter
      /\ BuiltinIn(s, from, to) => s[from] = "@"
      /\ StringIn(s, from, to) => s[from] = Quote
      /\ SymbolIn(s, from, to) => s[from] \in Symbol
    BY PairFacts DEF WordIn, NumberIn, DigitsIn, BuiltinIn, StringIn, SymbolIn
<1>2. /\ ~WordIn(s, from, to) /\ ~NumberIn(s, from, to) /\ ~BuiltinIn(s, from, to)
      /\ ~StringIn(s, from, to) /\ ~SymbolIn(s, from, to)
    BY <1>1, CharClasses
<1> QED
    BY <1>2 DEF Kinds

\* Where each kind of token ends: the characters from .. to are one, and none of
\* the longer texts is.
LEMMA WordEnds ==
    ASSUME NEW s, Len(s) \in Nat, NEW from \in Nat, NEW to \in Nat, WordIn(s, from, to),
           s[to + 1] \notin Letter \cup Digit, from <= to
    PROVE  /\ classifyIdent(SubSeq(s, from, to)) \in Kinds(s, from, to)
           /\ Longest(s, from, to)
<1>1. classifyIdent(SubSeq(s, from, to)) \in Kinds(s, from, to)
    BY DEF Kinds, Kind, classifyIdent
<1>2. ASSUME NEW further \in to + 1 .. Len(s) PROVE Kinds(s, from, further) = {}
    <2>1. to + 1 \in from .. further
        OBVIOUS
    <2>2. ~WordIn(s, from, further) /\ s[from] \in Letter
        BY <2>1 DEF WordIn, Within
    <2> QED
        BY <2>2, NoKinds
<1> QED
    BY <1>1, <1>2 DEF Longest

LEMMA BuiltinEnds ==
    ASSUME NEW s, Len(s) \in Nat, NEW from \in Nat, NEW to \in Nat, BuiltinIn(s, from, to),
           s[to + 1] \notin Letter \cup Digit, from <= to
    PROVE  "builtin" \in Kinds(s, from, to) /\ Longest(s, from, to)
<1>1. "builtin" \in Kinds(s, from, to)
    BY DEF Kinds, Kind
<1>2. ASSUME NEW further \in to + 1 .. Len(s) PROVE Kinds(s, from, further) = {}
    <2>1. to + 1 \in from + 1 .. further
        OBVIOUS
    <2>2. ~BuiltinIn(s, from, further) /\ s[from] = "@"
        BY <2>1 DEF BuiltinIn, Within
    <2> QED
        BY <2>2, NoKinds
<1> QED
    BY <1>1, <1>2 DEF Longest

LEMMA StringEnds ==
    ASSUME NEW s, Len(s) \in Nat, NEW from \in Nat, NEW to \in Nat, StringIn(s, from, to)
    PROVE  "string" \in Kinds(s, from, to) /\ Longest(s, from, to)
<1>1. "string" \in Kinds(s, from, to)
    BY DEF Kinds, Kind
<1>2. ASSUME NEW further \in to + 1 .. Len(s) PROVE Kinds(s, from, further) = {}
    <2>1. to \in from + 1 .. further - 1 /\ s[to] = Quote /\ s[from] = Quote
        BY DEF StringIn
    <2>2. ~StringIn(s, from, further)
        BY <2>1 DEF StringIn
    <2> QED
        BY <2>1, <2>2, NoKinds
<1> QED
    BY <1>1, <1>2 DEF Longest

LEMMA SymbolEnds ==
    ASSUME NEW s, Len(s) \in Nat, NEW from \in Nat, NEW to \in Nat, SymbolIn(s, from, to),
           from = to => <<s[from], s[to + 1]>> \notin Pair
    PROVE  "symbol" \in Kinds(s, from, to) /\ Longest(s, from, to)
<1>1. "symbol" \in Kinds(s, from, to)
    BY DEF Kinds, Kind
<1>2. ASSUME NEW further \in to + 1 .. Len(s) PROVE Kinds(s, from, further) = {}
    <2>1. s[from] \in Symbol
        BY PairFacts DEF SymbolIn
    <2>2. ~SymbolIn(s, from, further)
        <3>1. CASE from = to
            BY <3>1 DEF SymbolIn
        <3>2. CASE from + 1 = to
            BY <3>2 DEF SymbolIn
        <3> QED
            BY <3>1, <3>2 DEF SymbolIn
    <2> QED
        BY <2>1, <2>2, NoKinds
<1> QED
    BY <1>1, <1>2 DEF Longest

\* Digits with at most one dot are digits and dots.
LEMMA DigitsAre ==
    ASSUME NEW s, NEW from \in Nat, NEW to \in Nat, DigitsIn(s, from, to)
    PROVE  /\ from <= to /\ s[from] \in Digit \ Letter
           /\ \A i \in from .. to : s[i] \in Digit \cup {"."}
<1>1. PICK dot \in from + 1 .. to + 1 :
        /\ Within(s, from, dot - 1, Digit)
        /\ dot <= to => s[dot] = "."
        /\ Within(s, dot + 1, to, Digit)
    BY DEF DigitsIn
<1>2. ASSUME NEW i \in from .. to PROVE s[i] \in Digit \cup {"."}
    <2>1. CASE i < dot
        BY <1>1, <2>1 DEF Within
    <2>2. CASE i = dot
        BY <1>1, <2>2
    <2>3. CASE i > dot
        BY <1>1, <2>3 DEF Within
    <2> QED
        BY <2>1, <2>2, <2>3
<1> QED
    BY <1>1, <1>2 DEF DigitsIn

\* The digits of a number are not followed by more of them.
MostDigits(s, from, to) ==
    DigitsIn(s, from, to) /\ \A further \in Nat : further > to => ~DigitsIn(s, from, further)

LEMMA IntegerEnds ==
    ASSUME NEW s, NEW from \in Nat, NEW to \in Nat, from <= to,
           s[from] \in Digit \ Letter, Within(s, from, to, Digit),
           s[to + 1] \notin Digit \cup {"."}
    PROVE  MostDigits(s, from, to) /\ \A end \in Nat : ~HasPoint(s, from, end)
<1>1. \A i \in from .. to : s[i] # "."
    BY CharClasses DEF Within
<1>2. DigitsIn(s, from, to)
    <2>1. /\ to + 1 \in from + 1 .. to + 1
          /\ Within(s, from, (to + 1) - 1, Digit)
          /\ Within(s, (to + 1) + 1, to, Digit)
        BY DEF Within
    <2> QED
        BY <2>1 DEF DigitsIn
<1>3. ASSUME NEW dot \in Nat, dot >= from + 1, Within(s, from, dot - 1, Digit), s[dot] = "."
      PROVE  FALSE
    <2>1. CASE dot > to + 1
        BY <1>3, <2>1 DEF Within
    <2>2. CASE dot = to + 1
        BY <1>3, <2>2
    <2>3. CASE dot < to + 1
        BY <1>1, <1>3, <2>3
    <2> QED
        BY <2>1, <2>2, <2>3
<1>4. ASSUME NEW further \in Nat, further > to PROVE ~DigitsIn(s, from, further)
    <2>1. ASSUME NEW dot \in from + 1 .. further + 1,
                 Within(s, from, dot - 1, Digit),
                 dot <= further => s[dot] = ".",
                 Within(s, dot + 1, further, Digit)
          PROVE  FALSE
        <3>1. CASE dot <= further
            BY <1>3, <2>1, <3>1
        <3>2. CASE dot = further + 1
            <4>1. to + 1 \in from .. dot - 1
                BY <1>4, <3>2
            <4> QED
                BY <2>1, <4>1 DEF Within
        <3> QED
            BY <3>1, <3>2
    <2> QED
        BY <2>1 DEF DigitsIn
<1>5. ASSUME NEW end \in Nat PROVE ~HasPoint(s, from, end)
    BY <1>3 DEF HasPoint
<1> QED
    BY <1>2, <1>4, <1>5 DEF MostDigits

LEMMA FractionEnds ==
    ASSUME NEW s, NEW from \in Nat, NEW to \in Nat,
           s[from] \in Digit \ Letter, NEW point \in from + 1 .. to,
           Within(s, from, point - 1, Digit), s[point] = ".", Within(s, point + 1, to, Digit),
           s[to + 1] \notin Digit
    PROVE  MostDigits(s, from, to) /\ \A end \in Nat : end >= to => HasPoint(s, from, end)
<1>1. DigitsIn(s, from, to)
    BY DEF DigitsIn
<1>2. ASSUME NEW further \in Nat, further > to PROVE ~DigitsIn(s, from, further)
    <2>1. ASSUME NEW dot \in from + 1 .. further + 1,
                 Within(s, from, dot - 1, Digit),
                 dot <= further => s[dot] = ".",
                 Within(s, dot + 1, further, Digit)
          PROVE  FALSE
        <3>1. s[to + 1] \notin Digit /\ "." \notin Digit
            BY CharClasses
        <3>2. CASE dot > point
            BY <2>1, <3>1, <3>2 DEF Within
        <3>3. CASE dot = point
            BY <1>2, <2>1, <3>1, <3>3 DEF Within
        <3>4. CASE dot < point
            <4>1. dot \in from .. point - 1 /\ dot <= further
                BY <1>2, <3>4
            <4>2. s[dot] \in Digit /\ s[dot] = "."
                BY <2>1, <4>1 DEF Within
            <4> QED
                BY <3>1, <4>2
        <3> QED
            BY <3>2, <3>3, <3>4
    <2> QED
        BY <2>1 DEF DigitsIn
<1>3. ASSUME NEW end \in Nat, end >= to PROVE HasPoint(s, from, end)
    BY <1>3 DEF HasPoint
<1> QED
    BY <1>1, <1>2, <1>3 DEF MostDigits

\* A number without a type.
LEMMA UntypedEnds ==
    ASSUME NEW s, Len(s) \in Nat, NEW from \in Nat, NEW to \in Nat, MostDigits(s, from, to),
           s[to + 1] \notin Suffix
    PROVE  "number" \in Kinds(s, from, to) /\ Longest(s, from, to)
<1>1. /\ from <= to /\ s[from] \in Digit \ Letter
      /\ \A i \in from .. to : s[i] \in Digit \cup {"."}
    BY DigitsAre DEF MostDigits
<1>2. "number" \in Kinds(s, from, to)
    BY DEF Kinds, Kind, NumberIn, MostDigits
<1>3. ASSUME NEW further \in to + 1 .. Len(s) PROVE Kinds(s, from, further) = {}
    <2>1. ~DigitsIn(s, from, further)
        BY DEF MostDigits
    <2>2. ASSUME DigitsIn(s, from, further - 3), s[further - 2] \in Suffix PROVE FALSE
        <3>1. PICK end \in Int : end = further - 3 /\ end + 1 = further - 2
            OBVIOUS
        <3>2. PICK dot \in from + 1 .. end + 1 : TRUE
            BY <2>2, <3>1 DEF DigitsIn
        <3>3. end \in Nat /\ end >= from
            BY <3>2
        <3>4. end <= to
            BY <2>2, <3>1, <3>3 DEF MostDigits
        <3>5. CASE end = to
            BY <2>2, <3>1, <3>5
        <3>6. CASE end < to
            <4>1. end + 1 \in from .. to
                BY <3>3, <3>6
            <4> QED
                BY <1>1, <2>2, <3>1, <4>1, CharClasses
        <3> QED
            BY <3>4, <3>5, <3>6
    <2> QED
        BY <1>1, <2>1, <2>2, NoKinds DEF NumberIn
<1> QED
    BY <1>2, <1>3 DEF Longest

\* And one with a type.
LEMMA TypedEnds ==
    ASSUME NEW s, Len(s) \in Nat, NEW from \in Nat, NEW to \in Nat, MostDigits(s, from, to),
           s[to + 1] \in Suffix
    PROVE  "number" \in Kinds(s, from, to + 3) /\ Longest(s, from, to + 3)
<1>1. from <= to /\ s[from] \in Digit \ Letter
    BY DigitsAre DEF MostDigits
<1>2. "number" \in Kinds(s, from, to + 3)
    <2>1. (to + 3) - 3 = to /\ (to + 3) - 2 = to + 1
        OBVIOUS
    <2>2. NumberIn(s, from, to + 3)
        BY <2>1 DEF NumberIn, MostDigits
    <2> QED
        BY <2>2 DEF Kinds, Kind
<1>3. ASSUME NEW further \in (to + 3) + 1 .. Len(s) PROVE Kinds(s, from, further) = {}
    <2>1. further \in Nat /\ further > to /\ further - 3 \in Nat /\ further - 3 > to
        OBVIOUS
    <2>2. ~NumberIn(s, from, further)
        BY <2>1 DEF NumberIn, MostDigits
    <2> QED
        BY <1>1, <2>2, NoKinds
<1> QED
    BY <1>2, <1>3 DEF Longest

\* A newline is counted when it is read.
LEMMA NewlinesFacts ==
    ASSUME NEW s, NEW from \in Nat, NEW place \in Nat, from <= place + 1
    PROVE  /\ Newlines(s, from, place) \in Nat /\ Newlines(s, from, from - 1) = 0
           /\ Newlines(s, from, place + 1) =
                IF s[place + 1] = "\n" THEN Newlines(s, from, place) + 1
                                       ELSE Newlines(s, from, place)
<1> DEFINE N(to) == {i \in from .. to : s[i] = "\n"}
<1>1. IsFiniteSet(from .. place)
    BY FS_Interval
<1>2. IsFiniteSet(N(place))
    <2>1. N(place) \in SUBSET (from .. place)
        OBVIOUS
    <2> QED
        BY <1>1, <2>1, FS_Subset
<1>3. Newlines(s, from, place) \in Nat
    BY <1>2, FS_CardinalityType DEF Newlines
<1>4. Newlines(s, from, from - 1) = 0
    <2>1. {i \in from .. from - 1 : s[i] = "\n"} = {}
        OBVIOUS
    <2> QED
        BY <2>1, FS_EmptySet DEF Newlines
<1>5. CASE s[place + 1] = "\n"
    <2>1. N(place + 1) = N(place) \cup {place + 1} /\ place + 1 \notin N(place)
        BY <1>5
    <2> QED
        BY <1>2, <1>3, <1>4, <1>5, <2>1, FS_AddElement DEF Newlines
<1>6. CASE s[place + 1] # "\n"
    <2>1. N(place + 1) = N(place)
        BY <1>6
    <2> QED
        BY <1>3, <1>4, <1>6, <2>1 DEF Newlines
<1> QED
    BY <1>5, <1>6

-----------------------------------------------------------------------------
(* The steps of the lexer on a plain source. *)

\* nextToken returns nothing, or the token that has to be next.
Taken ==
    \/ output' = output
    \/ \E t \in Token : Promised(Buffer, output, t) /\ output' = Append(output, t)

LEMMA PlainFacts ==
    ASSUME Inv
    PROVE  /\ source \in Seq(Char) /\ Len(source) \in Nat /\ End = Len(source) + 1
           /\ current \in Nat \ {0} /\ start \in 1 .. End /\ start \in Nat \ {0}
           /\ line \in Nat /\ output \in Seq(Token)
           /\ Len(Buffer) = End /\ End \in Nat
           /\ \A place \in 1 .. End : Buffer[place] = At(place)
           /\ \A place \in Nat : place > Len(source) => At(place) = NUL
           /\ Plain => At(current) # "#"
<1>1. /\ source \in Seq(Char) /\ Len(source) \in Nat /\ End = Len(source) + 1
      /\ current \in Nat \ {0} /\ start \in 1 .. End /\ start \in Nat \ {0}
      /\ line \in Nat /\ output \in Seq(Token) /\ DOMAIN source = 1 .. Len(source)
    BY DEF Inv, TypeOK, End
<1>2. \A place \in Nat : place > Len(source) => At(place) = NUL
    BY <1>1 DEF At
<1>3. Len(Buffer) = End
    BY <1>1 DEF Buffer
<1>4. ASSUME NEW place \in 1 .. End PROVE Buffer[place] = At(place)
    <2>1. CASE place = Len(source) + 1
        BY <1>1, <1>2, <2>1 DEF Buffer
    <2>2. CASE place <= Len(source)
        BY <1>1, <2>2 DEF Buffer, At
    <2> QED
        BY <1>1, <2>1, <2>2
<1>5. Plain => At(current) # "#"
    BY DEF Plain, At, NUL
<1> QED
    BY <1>1, <1>2, <1>3, <1>4, <1>5

\* A character that is no null character is one of the source.
LEMMA InSource ==
    ASSUME Inv, NEW place \in Nat \ {0}, At(place) # NUL
    PROVE  place <= Len(source) /\ place < End /\ Buffer[place] = At(place)
<1>1. /\ Len(source) \in Nat /\ End = Len(source) + 1
      /\ place > Len(source) => At(place) = NUL
    BY PlainFacts
<1>2. place <= Len(source)
    BY <1>1
<1> QED
    BY <1>1, <1>2, PlainFacts

LEMMA FrontFacts ==
    ASSUME NEW out \in Seq(Token)
    PROVE  /\ Front(out) \in Nat /\ LastLine(out) \in Nat
           /\ \A t \in Token : /\ Front(Append(out, t)) = t.to + 1
                               /\ LastLine(Append(out, t)) = t.line
<1>1. Front(out) \in Nat /\ LastLine(out) \in Nat
    <2>1. out # <<>> => out[Len(out)] \in Token
        OBVIOUS
    <2> QED
        BY <2>1 DEF Front, LastLine, Token
<1>2. ASSUME NEW t \in Token
      PROVE  Front(Append(out, t)) = t.to + 1 /\ LastLine(Append(out, t)) = t.line
    <2>1. /\ Append(out, t) # <<>> /\ Len(Append(out, t)) = Len(out) + 1
          /\ Append(out, t)[Len(out) + 1] = t
        OBVIOUS
    <2> QED
        BY <2>1 DEF Front, LastLine
<1> QED
    BY <1>1, <1>2

\* The character at the cursor is counted when the cursor passes it.
LEMMA LinesRead ==
    ASSUME Inv, Front(output) <= current, line = LineAt(Buffer, output, current - 1)
    PROVE  LineAt(Buffer, output, current) = IF Buffer[current] = "\n" THEN line + 1 ELSE line
<1>1. /\ current \in Nat \ {0} /\ Front(output) \in Nat /\ LastLine(output) \in Nat
    BY PlainFacts, FrontFacts
<1>2. PICK before \in Nat : before = current - 1 /\ current = before + 1
    BY <1>1
<1>3. PICK front \in Nat : front = Front(output) /\ front <= before + 1
    BY <1>1, <1>2
<1>4. /\ Newlines(Buffer, front, before) \in Nat
      /\ Newlines(Buffer, front, before + 1) =
            IF Buffer[before + 1] = "\n" THEN Newlines(Buffer, front, before) + 1
                                         ELSE Newlines(Buffer, front, before)
    BY <1>3, NewlinesFacts
<1> QED
    BY <1>1, <1>2, <1>3, <1>4 DEF LineAt

LEMMA PlainReturn ==
    ASSUME Inv, PlainInv, pc \in TokenLoops,
           NEW kind \in Kind, NEW end \in Nat, end >= current, end <= End + 1,
           NEW hasDot \in BOOLEAN, Return(kind, end, hasDot),
           line = LineAt(Buffer, output, IF kind = "number" THEN start - 1 ELSE end - 1),
           hasDot <=> kind = "number" /\ HasPoint(Buffer, start, end - 1),
           \/ /\ start <= end - 1 /\ start < End
              /\ kind \in Kinds(Buffer, start, end - 1)
              /\ Longest(Buffer, start, end - 1)
           \/ kind = "EOF" /\ start = End /\ end = End
    PROVE  PlainInv' /\ Taken
<1>1. /\ Len(Buffer) = End /\ End \in Nat
      /\ current \in Nat \ {0} /\ start \in Nat \ {0} /\ output \in Seq(Token) /\ line \in Nat
    BY PlainFacts
<1>2. PICK token \in Token :
        /\ token.kind = kind /\ token.from = start /\ token.to = end - 1
        /\ token.line = line /\ token.hasDot = hasDot
        /\ IF caller = "peek" THEN peekedToken' = token /\ output' = output
           ELSE output' = Append(output, token) /\ peekedToken' = NoToken
    BY ReturnMade
<1>3. token = TokenOf(Buffer, output, kind, start, end - 1)
    <2>1. hasDot = (kind = "number" /\ HasPoint(Buffer, start, end - 1))
        OBVIOUS
    <2>2. token = [kind |-> token.kind, from |-> token.from, to |-> token.to,
                   line |-> token.line, hasDot |-> token.hasDot]
        BY DEF Token
    <2> QED
        BY <1>2, <2>1, <2>2 DEF TokenOf
<1>4. Starts(Buffer, output, start)
    BY DEF PlainInv
<1>5. Promised(Buffer, output, token)
    <2>1. CASE kind = "EOF" /\ start = End /\ end = End
        BY <1>1, <1>3, <1>4, <2>1 DEF Promised
    <2>2. CASE /\ start <= end - 1 /\ start < End
               /\ kind \in Kinds(Buffer, start, end - 1)
               /\ Longest(Buffer, start, end - 1)
        <3>1. start \in 1 .. Len(Buffer) - 1 /\ end - 1 \in start .. Len(Buffer)
            BY <1>1, <2>2
        <3> QED
            BY <1>3, <1>4, <2>2, <3>1 DEF Promised
    <2> QED
        BY <2>1, <2>2
<1>6. Taken
    BY <1>2, <1>5 DEF Taken
<1>7. /\ current' = end /\ pc' = "idle" /\ source' = source /\ line' = line
      /\ End' = End /\ Buffer' = Buffer
    BY DEF Return, End, Buffer
<1>8. token # NoToken /\ end = token.to + 1 /\ line = token.line
    BY <1>2, LexerAssumption
<1>9. CASE caller = "peek"
    <2>1. peekedToken' = token /\ output' = output
        BY <1>2, <1>9
    <2> QED
        BY <1>1, <1>5, <1>6, <1>7, <1>8, <2>1 DEF PlainInv, TokenLoops
<1>10. CASE caller # "peek"
    <2>1. peekedToken' = NoToken /\ output' = Append(output, token)
        BY <1>2, <1>10
    <2>2. Front(output') = end /\ LastLine(output') = line
        BY <1>1, <1>8, <2>1, FrontFacts
    <2> QED
        BY <1>6, <1>7, <2>1, <2>2 DEF PlainInv, TokenLoops
<1> QED
    BY <1>9, <1>10

\* The two calls.
LEMMA PlainCall ==
    ASSUME Inv, PlainInv, (\E function \in {"next", "peek"} : Call(function)) \/ TakePeeked
    PROVE  PlainInv' /\ Taken
<1>1. /\ output \in Seq(Token) /\ Front(output) \in Nat /\ LastLine(output) \in Nat
      /\ current \in Nat \ {0}
    BY PlainFacts, FrontFacts
<1>2. CASE \E function \in {"next", "peek"} : Call(function)
    <2>1. /\ UNCHANGED <<source, current, line, output, peekedToken>> /\ pc' = "skip"
          /\ current = Front(output) /\ line = LastLine(output)
        BY <1>2 DEF Call, Idle, Go, cursor, PlainInv
    <2>2. Buffer' = Buffer /\ End' = End
        BY <2>1 DEF Buffer, End
    <2>3. line = LineAt(Buffer, output, current - 1)
        <3>1. PICK before \in Nat : before = current - 1 /\ current <= before + 1
            BY <1>1
        <3>2. Newlines(Buffer, current, current - 1) = 0
            BY <1>1, <3>1, NewlinesFacts
        <3> QED
            BY <1>1, <2>1, <3>2 DEF LineAt
    <2> QED
        BY <1>1, <2>1, <2>2, <2>3 DEF PlainInv, Taken, Within, TokenLoops
<1>3. CASE TakePeeked
    <2>1. /\ UNCHANGED <<source, current, line, pc>> /\ peekedToken' = NoToken
          /\ output' = Append(output, peekedToken) /\ pc = "idle"
          /\ peekedToken \in Token /\ Promised(Buffer, output, peekedToken)
          /\ current = peekedToken.to + 1 /\ line = peekedToken.line
        BY <1>3 DEF TakePeeked, Idle, cursor, PlainInv, Inv, TypeOK
    <2>2. Front(output') = current /\ LastLine(output') = line
        BY <1>1, <2>1, FrontFacts
    <2> QED
        BY <2>1, <2>2 DEF PlainInv, Taken, End, TokenLoops
<1> QED
    BY <1>2, <1>3

\* skipWhitespace, up to the first character of a token.
LEMMA PlainSkip ==
    ASSUME Inv, Plain, PlainInv,
           \/ SkipWhite \/ EnterComment \/ SkipLineComment \/ CountDelimiter
           \/ SkipBlockComment \/ CountClosing \/ BeginToken
    PROVE  PlainInv' /\ Taken
<1> USE DEF In, Go, Advance, cursor
<1>1. /\ Len(Buffer) = End /\ End \in Nat
      /\ current \in Nat \ {0} /\ start \in Nat \ {0} /\ output \in Seq(Token) /\ line \in Nat
      /\ At(current) # "#"
    BY PlainFacts
<1>2. Front(output) \in Nat
    BY <1>1, FrontFacts
<1>3. CASE SkipWhite
    <2>1. /\ UNCHANGED <<source, output, pc>> /\ pc = "skip" /\ current' = current + 1
          /\ line' = IF At(current) = "\n" THEN line + 1 ELSE line
          /\ At(current) \in White /\ line = LineAt(Buffer, output, current - 1)
          /\ Front(output) <= current /\ Within(Buffer, Front(output), current - 1, White)
        BY <1>3 DEF SkipWhite, PlainInv
    <2>2. current < End /\ Buffer[current] = At(current)
        BY <1>1, <2>1, CharClasses, InSource
    <2>3. Buffer' = Buffer /\ End' = End
        BY <2>1 DEF Buffer, End
    <2>4. line' = LineAt(Buffer, output, current)
        BY <2>1, <2>2, LinesRead
    <2>5. current' - 1 = current /\ current' <= End
        BY <1>1, <2>1, <2>2
    <2>6. Within(Buffer, Front(output), current, White)
        BY <1>1, <1>2, <2>1, <2>2 DEF Within
    <2> QED
        BY <1>1, <1>2, <2>1, <2>3, <2>4, <2>5, <2>6 DEF PlainInv, Taken, TokenLoops
<1>4. CASE BeginToken
    <2>1. /\ UNCHANGED <<source, output, current, line>> /\ pc = "skip" /\ pc' = "token"
          /\ start' = current /\ At(current) \notin White
          /\ line = LineAt(Buffer, output, current - 1)
          /\ Front(output) <= current /\ Within(Buffer, Front(output), current - 1, White)
          /\ current <= End
        BY <1>4 DEF BeginToken, PlainInv
    <2>2. Starts(Buffer, output, current)
        <3>1. Buffer[current] = At(current)
            BY <1>1, <2>1, PlainFacts
        <3> QED
            BY <1>1, <1>2, <2>1, <3>1 DEF Starts
    <2>3. ReadSoFar(Buffer, "token", current, current)
        BY DEF ReadSoFar
    <2>4. Buffer' = Buffer /\ End' = End /\ Counted("token")' = current
        BY <2>1 DEF Buffer, End, Counted
    <2> QED
        BY <1>1, <2>1, <2>2, <2>3, <2>4 DEF PlainInv, Taken, TokenLoops
<1>5. ~EnterComment
    BY <1>1 DEF EnterComment
<1>6. ~(SkipLineComment \/ CountDelimiter \/ SkipBlockComment \/ CountClosing)
    BY DEF SkipLineComment, CountDelimiter, SkipBlockComment, CountClosing, PlainInv, TokenLoops
<1> QED
    BY <1>3, <1>4, <1>5, <1>6

\* A character of a token is read; of a number it is no newline.
LEMMA PlainRead ==
    ASSUME Inv, PlainInv, pc \in TokenLoops, NEW loop \in TokenLoops, pc' = loop, Kept,
           start' = start, current' = current + 1, current < End,
           line' = IF Buffer[current] = "\n" THEN line + 1 ELSE line,
           pc = "token" => start = current,
           pc # "token" => (pc \in {"number", "fraction"} <=> loop \in {"number", "fraction"}),
           loop \in {"number", "fraction"} => line' = line,
           ReadSoFar(Buffer, loop, start, current + 1)
    PROVE  PlainInv' /\ Taken
<1>1. /\ Len(Buffer) = End /\ End \in Nat /\ output \in Seq(Token)
      /\ current \in Nat \ {0} /\ start \in Nat \ {0} /\ source' = source /\ output' = output
    BY PlainFacts DEF Kept
<1>2. Buffer' = Buffer /\ End' = End /\ current' - 1 = current /\ current' <= End
    BY <1>1 DEF Buffer, End
<1>3. /\ Starts(Buffer, output, start) /\ line = LineAt(Buffer, output, Counted(pc) - 1)
    BY DEF PlainInv
<1>4. line' = LineAt(Buffer, output, Counted(loop)' - 1)
    <2>1. CASE loop \in {"number", "fraction"}
        <3>1. Counted(pc) = start /\ Counted(loop)' = start
            BY <2>1 DEF Counted
        <3> QED
            BY <1>3, <2>1, <3>1
    <2>2. CASE loop \notin {"number", "fraction"}
        <3>1. Counted(pc) = current /\ Counted(loop)' = current'
            BY <2>2 DEF Counted
        <3>2. Front(output) <= current
            <4>1. Front(output) <= start /\ start <= current /\ Front(output) \in Nat
                BY <1>1, <1>3, FrontFacts DEF Starts, Inv
            <4> QED
                BY <1>1, <4>1
        <3>3. line' = LineAt(Buffer, output, current)
            BY <1>3, <3>1, <3>2, LinesRead
        <3> QED
            BY <1>2, <3>1, <3>3
    <2> QED
        BY <2>1, <2>2
<1> QED
    BY <1>1, <1>2, <1>3, <1>4 DEF PlainInv, Taken, TokenLoops

LEMMA PlainFirst ==
    ASSUME Inv, PlainInv,
           \/ LexFirst(Letter, "identifier") \/ LexFirst(Digit \ Letter, "number")
           \/ LexFirst({"@"}, "builtin") \/ LexFirst({Quote}, "string")
    PROVE  PlainInv' /\ Taken
<1> USE DEF In, Go, Advance, comment
<1>1. Len(Buffer) = End /\ End \in Nat /\ current \in Nat \ {0}
    BY PlainFacts
<1>2. /\ pc = "token" /\ Kept /\ start' = start /\ current' = current + 1 /\ line' = line
    BY DEF LexFirst, Kept
<1>3. /\ At(current) \in Letter \cup (Digit \ Letter) \cup {"@", Quote}
    BY DEF LexFirst
<1>4. current < End /\ Buffer[current] = At(current) /\ Buffer[current] # "\n"
    BY <1>1, <1>3, CharClasses, InSource
<1>5. start = current /\ pc \in TokenLoops
    BY <1>2 DEF PlainInv, ReadSoFar, TokenLoops
<1>6. PICK loop \in TokenLoops : pc' = loop /\ ReadSoFar(Buffer, loop, start, current + 1)
    <2>1. CASE LexFirst(Letter, "identifier")
        BY <1>1, <1>4, <1>5, <2>1 DEF LexFirst, ReadSoFar, WordIn, Within, TokenLoops
    <2>2. CASE LexFirst(Digit \ Letter, "number")
        BY <1>1, <1>4, <1>5, <2>2 DEF LexFirst, ReadSoFar, Within, TokenLoops
    <2>3. CASE LexFirst({"@"}, "builtin")
        BY <1>1, <1>4, <1>5, <2>3 DEF LexFirst, ReadSoFar, BuiltinIn, Within, TokenLoops
    <2>4. CASE LexFirst({Quote}, "string")
        BY <1>1, <1>4, <1>5, <2>4 DEF LexFirst, ReadSoFar, TokenLoops
    <2> QED
        BY <2>1, <2>2, <2>3, <2>4
<1> QED
    BY <1>2, <1>4, <1>5, <1>6, PlainRead

LEMMA PlainMore ==
    ASSUME Inv, PlainInv,
           \/ LexMore({"identifier", "builtin"}, Letter \cup Digit)
           \/ LexMore({"number", "fraction"}, Digit) \/ LexDot \/ SkipString
    PROVE  PlainInv' /\ Taken
<1> USE DEF In, Go, Advance, comment
<1>1. /\ Len(Buffer) = End /\ End \in Nat
      /\ current \in Nat \ {0} /\ start \in Nat \ {0}
    BY PlainFacts
<1>2. /\ pc \in TokenLoops /\ pc # "token" /\ Kept /\ start' = start /\ current' = current + 1
    BY DEF LexMore, LexDot, SkipString, Kept, TokenLoops
<1>3. start < current /\ start < Len(Buffer) /\ ReadSoFar(Buffer, pc, start, current)
    BY <1>2 DEF PlainInv, ReadSoFar
<1>4. CASE LexMore({"identifier", "builtin"}, Letter \cup Digit)
    <2>1. /\ pc \in {"identifier", "builtin"} /\ pc' = pc /\ line' = line
          /\ At(current) \in Letter \cup Digit
        BY <1>4 DEF LexMore
    <2>2. current < End /\ Buffer[current] = At(current) /\ Buffer[current] # "\n"
        BY <1>1, <2>1, CharClasses, InSource
    <2>3. ReadSoFar(Buffer, pc, start, current + 1)
        BY <1>1, <1>3, <2>1, <2>2 DEF ReadSoFar, WordIn, BuiltinIn, Within
    <2> QED
        BY <1>2, <2>1, <2>2, <2>3, PlainRead
<1>5. CASE LexMore({"number", "fraction"}, Digit)
    <2>1. /\ pc \in {"number", "fraction"} /\ pc' = pc /\ line' = line
          /\ At(current) \in Digit
        BY <1>5 DEF LexMore
    <2>2. current < End /\ Buffer[current] = At(current) /\ Buffer[current] # "\n"
        BY <1>1, <2>1, CharClasses, InSource
    <2>3. ReadSoFar(Buffer, pc, start, current + 1)
        BY <1>1, <1>3, <2>1, <2>2 DEF ReadSoFar, Within
    <2> QED
        BY <1>2, <2>1, <2>2, <2>3, PlainRead
<1>6. CASE LexDot
    <2>1. pc = "number" /\ pc' = "fraction" /\ line' = line /\ At(current) = "."
        BY <1>6 DEF LexDot
    <2>2. current < End /\ Buffer[current] = "." /\ Buffer[current] # "\n"
        BY <1>1, <2>1, CharClasses, InSource
    <2>3. ReadSoFar(Buffer, "fraction", start, current + 1)
        <3>1. /\ current \in start + 1 .. (current + 1) - 1
              /\ Within(Buffer, start, current - 1, Digit)
              /\ Within(Buffer, current + 1, (current + 1) - 1, Digit)
              /\ Buffer[start] \in Digit \ Letter
            BY <1>1, <1>3, <2>1 DEF ReadSoFar, Within
        <3> QED
            BY <1>1, <1>3, <2>2, <3>1 DEF ReadSoFar
    <2> QED
        BY <1>2, <2>1, <2>2, <2>3, PlainRead DEF TokenLoops
<1>7. CASE SkipString
    <2>1. /\ pc = "string" /\ pc' = pc /\ At(current) # Quote /\ current <= End /\ current # End
          /\ line' = IF At(current) = "\n" THEN line + 1 ELSE line
        BY <1>7 DEF SkipString, isAtEnd
    <2>2. current < End /\ Buffer[current] = At(current)
        BY <1>1, <2>1, PlainFacts
    <2>3. ReadSoFar(Buffer, pc, start, current + 1)
        BY <1>1, <1>3, <2>1, <2>2 DEF ReadSoFar
    <2> QED
        BY <1>2, <2>1, <2>2, <2>3, PlainRead
<1> QED
    BY <1>4, <1>5, <1>6, <1>7

\* The end of a token that is no number and of which to is the last place.
LEMMA PlainOther ==
    ASSUME Inv, PlainInv, pc \in TokenLoops, NEW kind \in Kind, kind # "number",
           NEW to \in Nat, NEW end \in Nat, end = to + 1, Return(kind, end, FALSE),
           start <= to, end >= current, end <= End, LineAt(Buffer, output, to) = line,
           kind \in Kinds(Buffer, start, to), Longest(Buffer, start, to)
    PROVE  PlainInv' /\ Taken
<1>1. PICK no \in BOOLEAN : no = FALSE
    OBVIOUS
<1>2. Return(kind, end, no) /\ (no <=> kind = "number" /\ HasPoint(Buffer, start, end - 1))
    BY <1>1
<1>3. end - 1 = to /\ End \in Nat /\ start \in Nat \ {0}
    BY PlainFacts
<1>4. end <= End + 1 /\ start <= end - 1 /\ start < End
    BY <1>3
<1> QED
    BY <1>2, <1>3, <1>4, PlainReturn

\* The end of a number, with a type or without one.
LEMMA PlainNumber ==
    ASSUME Inv, PlainInv, LexNumber
    PROVE  PlainInv' /\ Taken
<1> DEFINE hasDot == pc = "fraction"
<1>1. /\ Len(Buffer) = End /\ End \in Nat
      /\ current \in Nat \ {0} /\ start \in Nat \ {0} /\ line \in Nat
      /\ At(current) \notin Digit /\ pc \in {"number", "fraction"} /\ pc \in TokenLoops
      /\ pc = "number" => At(current) # "."
    BY PlainFacts DEF LexNumber, In, TokenLoops
<1>2. PICK last \in Nat : last = current - 1 /\ last + 1 = current
    BY <1>1
<1>3. /\ ReadSoFar(Buffer, pc, start, last + 1) /\ current <= End
      /\ start <= last /\ start < End
      /\ line = LineAt(Buffer, output, start - 1)
    BY <1>1, <1>2 DEF PlainInv, ReadSoFar, Counted
<1>4. Buffer[last + 1] = At(current)
    BY <1>1, <1>2, <1>3, PlainFacts
<1>5. /\ MostDigits(Buffer, start, last)
      /\ \A end \in Nat : end >= last => (hasDot <=> HasPoint(Buffer, start, end))
    <2>1. CASE pc = "number"
        <3>1. Buffer[start] \in Digit \ Letter /\ Within(Buffer, start, last, Digit)
            BY <1>2, <1>3, <2>1 DEF ReadSoFar
        <3>2. Buffer[last + 1] \notin Digit \cup {"."}
            BY <1>1, <1>4, <2>1
        <3> QED
            BY <1>1, <1>3, <2>1, <3>1, <3>2, IntegerEnds
    <2>2. CASE pc = "fraction"
        <3>1. Buffer[start] \in Digit \ Letter
            BY <1>3, <2>2 DEF ReadSoFar
        <3>2. PICK dot \in start + 1 .. last :
                /\ Within(Buffer, start, dot - 1, Digit)
                /\ Buffer[dot] = "."
                /\ Within(Buffer, dot + 1, last, Digit)
            BY <1>2, <1>3, <2>2 DEF ReadSoFar
        <3> QED
            BY <1>1, <1>4, <2>2, <3>1, <3>2, FractionEnds
    <2> QED
        BY <1>1, <2>1, <2>2
<1>6. hasDot \in BOOLEAN /\ "number" \in Kind
    BY DEF Kind
<1> HIDE DEF hasDot
<1>7. CASE At(current) \in Suffix
    <2>1. PICK to \in Nat, end \in Nat : to = last + 3 /\ end = to + 1 /\ end - 1 = to
        OBVIOUS
    <2>2. end <= End + 1 /\ Return("number", end, hasDot)
        BY <1>2, <1>7, <2>1 DEF LexNumber, hasDot
    <2>3. "number" \in Kinds(Buffer, start, to) /\ Longest(Buffer, start, to)
        BY <1>1, <1>4, <1>5, <1>7, <2>1, TypedEnds
    <2>4. /\ start <= to /\ end >= current
          /\ hasDot <=> HasPoint(Buffer, start, to)
        BY <1>1, <1>2, <1>3, <1>5, <2>1
    <2> QED
        BY <1>1, <1>3, <1>6, <2>1, <2>2, <2>3, <2>4, PlainReturn
<1>8. CASE At(current) \notin Suffix
    <2>1. PICK end \in Nat : end = current /\ end - 1 = last
        BY <1>1, <1>2
    <2>2. end <= End + 1 /\ Return("number", end, hasDot)
        BY <1>1, <1>3, <1>8, <2>1 DEF LexNumber, hasDot
    <2>3. "number" \in Kinds(Buffer, start, last) /\ Longest(Buffer, start, last)
        BY <1>1, <1>4, <1>5, <1>8, UntypedEnds
    <2>4. end >= current /\ (hasDot <=> HasPoint(Buffer, start, last))
        BY <1>1, <1>5, <2>1
    <2> QED
        BY <1>1, <1>3, <1>6, <2>1, <2>2, <2>3, <2>4, PlainReturn
<1> QED
    BY <1>7, <1>8

\* The null character behind the source is in none of its words.
LEMMA BufferWords ==
    ASSUME Inv, NEW from \in Nat \ {0}, NEW to \in Nat, to <= Len(source)
    PROVE  SubSeq(Buffer, from, to) = SubSeq(source, from, to)
<1>1. source \in Seq(Char) /\ Len(source) \in Nat
    BY PlainFacts
<1>2. \A i \in 1 .. Len(source) : Buffer[i] = source[i]
    BY <1>1 DEF Buffer
<1>3. \A i \in from .. to : Buffer[i] = source[i] /\ source[i] \in Char
    BY <1>1, <1>2
<1>4. /\ SubSeq(Buffer, from, to) \in Seq(Char) /\ SubSeq(source, from, to) \in Seq(Char)
      /\ Len(SubSeq(Buffer, from, to)) = IF from <= to THEN to - from + 1 ELSE 0
      /\ Len(SubSeq(source, from, to)) = IF from <= to THEN to - from + 1 ELSE 0
      /\ \A i \in 1 .. to - from + 1 : /\ SubSeq(Buffer, from, to)[i] = Buffer[from + i - 1]
                                       /\ SubSeq(source, from, to)[i] = source[from + i - 1]
    BY <1>3, SubSeqProperties
<1>5. \A i \in 1 .. Len(SubSeq(Buffer, from, to)) :
        SubSeq(Buffer, from, to)[i] = SubSeq(source, from, to)[i]
    BY <1>3, <1>4
<1> QED
    BY <1>4, <1>5, SeqEqual

\* The ends of a token.
LEMMA PlainEnd ==
    ASSUME Inv, Plain, PlainInv,
           \/ EndOfSource \/ LexSymbol \/ LexIdentifier \/ LexBuiltin \/ LexNumber
           \/ LexString
    PROVE  PlainInv' /\ Taken
<1> USE DEF In
<1>1. /\ Len(source) \in Nat /\ End = Len(source) + 1
      /\ Len(Buffer) = End /\ End \in Nat
      /\ current \in Nat \ {0} /\ start \in Nat \ {0} /\ line \in Nat /\ output \in Seq(Token)
    BY PlainFacts
<1>2. PICK last \in Nat : last = current - 1 /\ last + 1 = current
    BY <1>1
<1>3. pc \in TokenLoops =>
        /\ ReadSoFar(Buffer, pc, start, current)
        /\ current <= End /\ Buffer[current] = At(current)
        /\ line = LineAt(Buffer, output, Counted(pc) - 1)
        /\ Front(output) <= current /\ Front(output) \in Nat
    <2>1. ASSUME pc \in TokenLoops PROVE Front(output) <= current /\ Front(output) \in Nat
        <3>1. Front(output) <= start /\ start <= current /\ Front(output) \in Nat
            BY <1>1, <2>1, FrontFacts DEF PlainInv, Starts, Inv
        <3> QED
            BY <1>1, <3>1
    <2>2. ASSUME pc \in TokenLoops PROVE current <= End /\ Buffer[current] = At(current)
        <3>1. current <= End
            BY <2>2 DEF PlainInv
        <3> QED
            BY <1>1, <3>1, PlainFacts
    <2> QED
        BY <2>1, <2>2 DEF PlainInv
<1>4. CASE EndOfSource
    <2>1. pc = "token" /\ current = End /\ Return("EOF", current, FALSE) /\ pc \in TokenLoops
        BY <1>4 DEF EndOfSource, isAtEnd, TokenLoops
    <2>2. start = End /\ line = LineAt(Buffer, output, End - 1)
        BY <1>3, <2>1 DEF ReadSoFar, Counted
    <2>3. PICK no \in BOOLEAN, kind \in Kind :
            no = FALSE /\ kind = "EOF" /\ kind # "number"
        BY DEF Kind
    <2>4. End >= current /\ End <= End + 1 /\ Return(kind, End, no)
        <3>1. Return(kind, End, no)
            BY <2>1, <2>3, Zenon
        <3> QED
            BY <1>1, <2>1, <3>1
    <2>5. no <=> kind = "number" /\ HasPoint(Buffer, start, End - 1)
        BY <2>3
    <2>6. line = LineAt(Buffer, output, IF kind = "number" THEN start - 1 ELSE End - 1)
        BY <2>2, <2>3
    <2> QED
        BY <1>1, <2>1, <2>2, <2>3, <2>4, <2>5, <2>6, PlainReturn
<1>5. CASE LexSymbol
    <2>1. /\ pc = "token" /\ At(current) \in Symbol /\ start = current /\ pc \in TokenLoops
        BY <1>3, <1>5 DEF LexSymbol, ReadSoFar, TokenLoops
    <2>2. current < End /\ Buffer[current] = At(current) /\ Buffer[current] # "\n"
        BY <1>1, <2>1, CharClasses, InSource
    <2>3. LineAt(Buffer, output, current) = line
        <3>1. line = LineAt(Buffer, output, current - 1)
            BY <1>3, <2>1 DEF Counted
        <3> QED
            BY <1>3, <2>1, <2>2, <3>1, LinesRead
    <2>4. CASE <<At(current), At(current + 1)>> \in Pair
        <3>1. Return("symbol", current + 2, FALSE)
            BY <1>5, <2>4 DEF LexSymbol
        <3>2. At(current + 1) \in Symbol /\ current + 1 \in Nat \ {0}
            BY <1>1, <2>4, PairFacts
        <3>3. /\ current + 1 < End /\ Buffer[current + 1] = At(current + 1)
              /\ Buffer[current + 1] # "\n"
            BY <1>1, <3>2, CharClasses, InSource
        <3>4. PICK to \in Nat, end \in Nat :
                to = current + 1 /\ end = to + 1 /\ end = current + 2 /\ start # to
            BY <1>1, <2>1
        <3>5. "symbol" \in Kinds(Buffer, start, to) /\ Longest(Buffer, start, to)
            <4>1. SymbolIn(Buffer, start, to)
                BY <2>1, <2>2, <2>4, <3>3, <3>4 DEF SymbolIn
            <4>2. start = to => <<Buffer[start], Buffer[to + 1]>> \notin Pair
                BY <3>4
            <4> QED
                BY <1>1, <4>1, <4>2, SymbolEnds
        <3>6. LineAt(Buffer, output, to) = line
            <4>1. PICK front \in Nat : front = Front(output) /\ front <= current + 1
                BY <1>1, <1>3, <2>1
            <4>2. Newlines(Buffer, front, current + 1) = Newlines(Buffer, front, current)
                BY <1>1, <3>3, <4>1, NewlinesFacts
            <4> QED
                BY <2>3, <3>4, <4>1, <4>2 DEF LineAt
        <3>7. /\ start <= to /\ end >= current /\ end <= End /\ "symbol" \in Kind
            BY <1>1, <2>1, <3>3, <3>4 DEF Kind
        <3> QED
            BY <2>1, <3>1, <3>4, <3>5, <3>6, <3>7, PlainOther
    <2>5. CASE <<At(current), At(current + 1)>> \notin Pair
        <3>1. Return("symbol", current + 1, FALSE)
            BY <1>5, <2>5 DEF LexSymbol
        <3>2. PICK to \in Nat, end \in Nat : to = current /\ end = to + 1 /\ to + 1 <= End
            BY <1>1, <2>2
        <3>3. "symbol" \in Kinds(Buffer, start, to) /\ Longest(Buffer, start, to)
            <4>1. SymbolIn(Buffer, start, to)
                BY <2>1, <2>2, <3>2 DEF SymbolIn
            <4>2. Buffer[to + 1] = At(current + 1)
                BY <1>1, <3>2, PlainFacts
            <4>3. <<Buffer[start], Buffer[to + 1]>> \notin Pair
                BY <2>1, <2>2, <2>5, <3>2, <4>2
            <4> QED
                BY <1>1, <4>1, <4>3, SymbolEnds
        <3>4. /\ start <= to /\ end >= current /\ end <= End /\ "symbol" \in Kind
            BY <1>1, <2>1, <2>2, <3>2 DEF Kind
        <3> QED
            BY <2>1, <2>3, <3>1, <3>2, <3>3, <3>4, PlainOther
    <2> QED
        BY <2>4, <2>5
<1>6. CASE LexIdentifier
    <2> DEFINE kind == classifyIdent(SubSeq(source, start, current - 1))
    <2>1. /\ pc = "identifier" /\ At(current) \notin Letter \cup Digit
          /\ Return(kind, current, FALSE) /\ pc \in TokenLoops
        BY <1>6 DEF LexIdentifier, TokenLoops
    <2>2. WordIn(Buffer, start, last) /\ start <= last /\ last <= Len(source)
        BY <1>1, <1>2, <1>3, <2>1 DEF ReadSoFar
    <2>3. Buffer[last + 1] \notin Letter \cup Digit
        BY <1>2, <1>3, <2>1
    <2>4. kind \in Kinds(Buffer, start, last) /\ Longest(Buffer, start, last)
        <3>1. kind = classifyIdent(SubSeq(Buffer, start, last))
            BY <1>1, <1>2, <2>2, BufferWords
        <3> QED
            BY <1>1, <2>2, <2>3, <3>1, WordEnds
    <2>5. kind \in Kind /\ kind # "number"
        BY DEF classifyIdent, Kind
    <2>6. LineAt(Buffer, output, last) = line
        BY <1>2, <1>3, <2>1 DEF Counted
    <2> HIDE DEF kind
    <2>7. current \in Nat /\ current = last + 1 /\ current >= current /\ current <= End
        BY <1>1, <1>2, <1>3, <2>1
    <2> QED
        BY <2>1, <2>2, <2>4, <2>5, <2>6, <2>7, PlainOther
<1>7. CASE LexBuiltin
    <2>1. /\ pc = "builtin" /\ At(current) \notin Letter \cup Digit
          /\ Return("builtin", current, FALSE) /\ pc \in TokenLoops
        BY <1>7 DEF LexBuiltin, TokenLoops
    <2>2. BuiltinIn(Buffer, start, last) /\ start <= last
        BY <1>1, <1>2, <1>3, <2>1 DEF ReadSoFar
    <2>3. Buffer[last + 1] \notin Letter \cup Digit
        BY <1>2, <1>3, <2>1
    <2>4. "builtin" \in Kinds(Buffer, start, last) /\ Longest(Buffer, start, last)
        BY <1>1, <2>2, <2>3, BuiltinEnds
    <2>5. "builtin" \in Kind /\ LineAt(Buffer, output, last) = line
        BY <1>2, <1>3, <2>1 DEF Kind, Counted
    <2>6. current \in Nat /\ current = last + 1 /\ current >= current /\ current <= End
        BY <1>1, <1>2, <1>3, <2>1
    <2> QED
        BY <2>1, <2>2, <2>4, <2>5, <2>6, PlainOther
<1>8. CASE LexNumber
    BY <1>8, PlainNumber
<1>9. CASE LexString
    <2>1. /\ pc = "string" /\ At(current) = Quote /\ Return("string", current + 1, FALSE)
          /\ pc \in TokenLoops
        BY <1>9 DEF LexString, TokenLoops
    <2>2. current < End /\ Buffer[current] = Quote /\ Buffer[current] # "\n"
        BY <1>1, <2>1, CharClasses, InSource
    <2>3. StringIn(Buffer, start, current)
        BY <1>1, <1>3, <2>1, <2>2 DEF ReadSoFar, StringIn
    <2>4. "string" \in Kinds(Buffer, start, current) /\ Longest(Buffer, start, current)
        BY <1>1, <2>3, StringEnds
    <2>5. LineAt(Buffer, output, current) = line
        <3>1. line = LineAt(Buffer, output, current - 1)
            BY <1>3, <2>1 DEF Counted
        <3> QED
            BY <1>3, <2>1, <2>2, <3>1, LinesRead
    <2>6. PICK to \in Nat, end \in Nat : to = current /\ end = to + 1
        BY <1>1
    <2>7. start <= to /\ end >= current /\ end <= End /\ "string" \in Kind
        BY <1>1, <2>2, <2>3, <2>6 DEF Kind, StringIn
    <2> QED
        BY <2>1, <2>4, <2>5, <2>6, <2>7, PlainOther
<1> QED
    BY <1>4, <1>5, <1>6, <1>7, <1>8, <1>9

LEMMA PlainStops ==
    ASSUME PlainInv,
           UnterminatedComment \/ UnterminatedString \/ Untokenizable \/ Overrun \/ UNCHANGED vars
    PROVE  PlainInv' /\ Taken
<1>1. UNCHANGED <<source, start, current, line, peekedToken, pc, output>>
    BY DEF UnterminatedComment, UnterminatedString, Untokenizable, Overrun, Fatal, vars, cursor, comment
<1> QED
    BY <1>1 DEF PlainInv, Taken, End, Buffer, Counted

LEMMA PlainStep == Inv /\ Plain /\ PlainInv /\ [Next]_vars => PlainInv' /\ Taken
<1> SUFFICES ASSUME Inv, Plain, PlainInv, [Next]_vars
             PROVE  PlainInv' /\ Taken
    OBVIOUS
<1>1. CASE Call("next") \/ Call("peek") \/ TakePeeked
    BY <1>1, PlainCall
<1>2. CASE SkipWhite \/ EnterComment \/ SkipLineComment \/ CountDelimiter
           \/ SkipBlockComment \/ CountClosing \/ BeginToken
    BY <1>2, PlainSkip
<1>3. CASE LexFirst(Letter, "identifier") \/ LexFirst(Digit \ Letter, "number")
           \/ LexFirst({"@"}, "builtin") \/ LexFirst({Quote}, "string")
    BY <1>3, PlainFirst
<1>4. CASE LexMore({"identifier", "builtin"}, Letter \cup Digit)
           \/ LexMore({"number", "fraction"}, Digit) \/ LexDot \/ SkipString
    BY <1>4, PlainMore
<1>5. CASE EndOfSource \/ LexSymbol \/ LexIdentifier \/ LexBuiltin \/ LexNumber \/ LexString
    BY <1>5, PlainEnd
<1>6. CASE UnterminatedComment \/ UnterminatedString \/ Untokenizable \/ Overrun \/ UNCHANGED vars
    BY <1>6, PlainStops
<1> QED
    BY <1>1, <1>2, <1>3, <1>4, <1>5, <1>6 DEF Next, Step

LEMMA SourceKept == [Next]_vars => source' = source /\ (Plain <=> Plain')
<1> SUFFICES ASSUME [Next]_vars PROVE source' = source
    BY DEF Plain
<1> QED
    BY DEF Next, Step, Call, TakePeeked, SkipWhite, EnterComment, SkipLineComment, CountDelimiter,
       SkipBlockComment, UnterminatedComment, CountClosing, BeginToken, EndOfSource, LexSymbol,
       LexFirst, LexMore, LexIdentifier, LexBuiltin, LexDot, LexNumber, SkipString, LexString,
       UnterminatedString, Untokenizable, Overrun, Fatal, Return, vars

LEMMA StreamStep == Inv /\ StreamInv /\ [Next]_vars => StreamInv'
    BY PlainStep, SourceKept DEF StreamInv

LEMMA StreamInit == Init => StreamInv
<1> SUFFICES ASSUME Init PROVE PlainInv
    BY DEF StreamInv
<1>1. source \in Seq(Char) /\ Len(source) \in Nat
    BY LexerAssumption DEF Init
<1>2. Front(output) = 1 /\ LastLine(output) = 0
    BY DEF Init, Front, LastLine
<1> QED
    BY <1>1, <1>2 DEF Init, PlainInv, End, TokenLoops

-----------------------------------------------------------------------------
(* The same in the words of TokenStream. *)

LEMMA StreamClasses ==
    /\ Stream!White = White /\ Stream!Letter = Letter /\ Stream!Digit = Digit
    /\ Stream!Symbol = Symbol /\ Stream!Pair = Pair /\ Stream!Quote = Quote
    /\ Stream!Kind = Kind /\ Stream!Suffix = Suffix
    BY DEF Stream!White, Stream!Letter, Stream!Digit, Stream!Symbol, Stream!Pair, Stream!Quote,
           Stream!Kind, Stream!Suffix, White, Letter, Digit, Symbol, Pair, Quote, Kind, Suffix

LEMMA StreamBuffer == Plain => Stream!Buffer = Buffer /\ Stream!NUL = NUL
    BY DEF Stream!Buffer, Buffer, Stream!NUL, NUL

LEMMA StreamKinds ==
    ASSUME Plain, NEW from, NEW to
    PROVE  Stream!KindsOf(from, to) = Kinds(Buffer, from, to)
<1>1. /\ Stream!IsWord(from, to) <=> WordIn(Buffer, from, to)
      /\ \A end : Stream!IsDigits(from, end) <=> DigitsIn(Buffer, from, end)
    BY StreamClasses, StreamBuffer
       DEF Stream!IsWord, Stream!IsDigits, Stream!All, WordIn, DigitsIn, Within
<1>2. Stream!IsNumber(from, to) <=> NumberIn(Buffer, from, to)
    BY <1>1, StreamClasses, StreamBuffer DEF Stream!IsNumber, NumberIn
<1> QED
    BY <1>1, <1>2, StreamClasses, StreamBuffer
       DEF Stream!KindsOf, Stream!All, Kinds, BuiltinIn, StringIn, SymbolIn, Within, classifyIdent

LEMMA StreamTokens ==
    ASSUME Plain
    PROVE  /\ \A from, to : Stream!IsLongest(from, to) <=> Longest(Buffer, from, to)
           /\ \A from : Stream!Start(from) <=> Starts(Buffer, output, from)
           /\ \A kind, from, to :
                Stream!TokenAt(kind, from, to) = TokenOf(Buffer, output, kind, from, to)
<1>1. \A from, to : Stream!IsLongest(from, to) <=> Longest(Buffer, from, to)
    BY StreamKinds, StreamBuffer DEF Stream!IsLongest, Longest
<1>2. /\ Stream!Front = Front(output) /\ Stream!LastLine = LastLine(output)
      /\ \A from : Stream!Start(from) <=> Starts(Buffer, output, from)
    BY StreamClasses, StreamBuffer
       DEF Stream!Start, Starts, Stream!Front, Front, Stream!LastLine, LastLine, Stream!All, Within
<1>3. \A from, to : Stream!Newlines(from, to) = Newlines(Buffer, from, to)
    <2>1. \A S : Stream!Cardinality(S) = Cardinality(S)
        BY Zenon DEF Stream!Cardinality, Cardinality
    <2>2. \A from, to :
            Stream!Newlines(from, to) = Stream!Cardinality({i \in from .. to : Buffer[i] = "\n"})
        BY StreamBuffer, Zenon DEF Stream!Newlines
    <2> QED
        BY <2>1, <2>2, Zenon DEF Newlines
<1>4. ASSUME NEW kind, NEW from, NEW to
      PROVE  Stream!TokenAt(kind, from, to) = TokenOf(Buffer, output, kind, from, to)
    <2>1. (kind = "number" /\ \E i \in from + 1 .. to :
                Stream!Buffer[i] = "." /\ Stream!All(from, i - 1, Stream!Digit))
          = (kind = "number" /\ HasPoint(Buffer, from, to))
        BY StreamClasses, StreamBuffer DEF HasPoint, Stream!All, Within
    <2> QED
        BY <1>2, <1>3, <2>1, Zenon DEF Stream!TokenAt, TokenOf, LineAt
<1> QED
    BY <1>1, <1>2, <1>4

LEMMA StreamNext ==
    ASSUME Inv, Plain, source' = source, Taken
    PROVE  Stream!Next \/ UNCHANGED <<source, output>>
<1>1. /\ Plain' /\ Stream!Buffer = Buffer /\ Len(Buffer) - 1 = Len(source)
    BY StreamBuffer, PlainFacts DEF Plain
<1>2. ASSUME NEW t \in Token, Promised(Buffer, output, t), output' = Append(output, t)
      PROVE  Stream!Next
    <2>1. CASE \E from \in 1 .. Len(Buffer) - 1 : \E to \in from .. Len(Buffer) :
                /\ Starts(Buffer, output, from)
                /\ Longest(Buffer, from, to)
                /\ \E kind \in Kinds(Buffer, from, to) : t = TokenOf(Buffer, output, kind, from, to)
        <3>1. Stream!TakeToken
            BY <1>1, <1>2, <2>1, StreamKinds, StreamTokens DEF Stream!TakeToken
        <3> QED
            BY <3>1 DEF Stream!Next
    <2>2. CASE /\ Starts(Buffer, output, Len(Buffer))
               /\ t = TokenOf(Buffer, output, "EOF", Len(Buffer), Len(Buffer) - 1)
        <3>1. Stream!TakeEOF
            BY <1>1, <1>2, <2>2, StreamTokens DEF Stream!TakeEOF
        <3> QED
            BY <3>1 DEF Stream!Next
    <2> QED
        BY <1>2, <2>1, <2>2 DEF Promised
<1> QED
    BY <1>2 DEF Taken

\* From a source without comments the lexer is a TokenStream, whatever words and
\* numbers are in it: the parser gets the longest matches, types behind numbers
\* included, one after the other, however peekToken and nextToken are mixed.
THEOREM LexerImplementsTokenStream == Spec => ImplementsTokenStream
<1> DEFINE src == IF Plain THEN source ELSE <<>>
           out == IF Plain THEN output ELSE <<>>
<1>1. Init => Stream!Init
    <2> SUFFICES ASSUME Init PROVE src \in Seq(Char) /\ out = <<>>
        BY DEF Stream!Init
    <2>1. source \in Seq(Char) /\ output = <<>>
        BY LexerAssumption DEF Init
    <2> QED
        BY <2>1
<1>2. Inv /\ StreamInv /\ [Next]_vars => [Stream!Next]_<<src, out>>
    <2> SUFFICES ASSUME Inv, StreamInv, [Next]_vars
                 PROVE  Stream!Next \/ UNCHANGED <<src, out>>
        OBVIOUS
    <2>1. source' = source /\ (Plain <=> Plain')
        BY SourceKept
    <2>2. CASE Plain
        BY <2>1, <2>2, PlainStep, StreamNext DEF StreamInv
    <2>3. CASE ~Plain
        BY <2>1, <2>3
    <2> QED
        BY <2>2, <2>3
<1> QED
    BY <1>1, <1>2, InitInv, StepInv, StreamInit, StreamStep, PTL
       DEF Spec, ImplementsTokenStream, Stream!Spec

=============================================================================
