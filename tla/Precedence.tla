----------------------------- MODULE Precedence -----------------------------
(***************************************************************************)
(* The operators of a term: parseTerm, parseBinary and parsePrefix of      *)
(* scc/src/parser.c, which climb the levels of `precedence` by calling     *)
(* each other, with nothing but the next token to decide what to do.  A    *)
(* behaviour is one call of parseTerm; frames is the call stack.           *)
(*                                                                         *)
(* A token "lvalue" or "value" stands for a whole postfix expression, and  *)
(* "type" for a whole type: the terms between their brackets are parsed by *)
(* calls of parseTerm of their own, which share nothing with this one but  *)
(* the place in the source.  Operators the three functions treat alike are *)
(* one token: "*" stands for * / %, "==" for the six relations, "++" for   *)
(* ++ and --, "!" for ! and ~.                                             *)
(***************************************************************************)
EXTENDS Integers, Sequences, FiniteSets

CONSTANTS
    Token,      \* the tokens the source is made of
    MaxTokens   \* bound: tokens consumed

Operand == {"lvalue", "value"}
BinaryOp == {"*", "+", "-", "==", "and", "or"}
TypeOp == {"as", ":"}
PrefixOp == {"&", "++", "-", "+", "!"}

\* "end" is any token that neither starts nor continues a term.
ASSUME PrecedenceAssumption ==
    /\ Token \subseteq Operand \cup BinaryOp \cup TypeOp \cup PrefixOp \cup {"=", "end"}
    /\ MaxTokens \in Nat

VARIABLES
    input,      \* the tokens consumed
    next,       \* the token peekToken returns
    frames,     \* the calls of parseTerm and parseBinary that are running
    ret,        \* the term the last call returned, until it is taken up
    nodes,      \* the binary, cast and typed terms that were built
    status      \* "run", "done", or "fatal" after logFatal

vars == <<input, next, frames, ret, nodes, status>>

-----------------------------------------------------------------------------
\* A mutation of precedence: 0 for a token that is no binary operator.
precedenceZero(t) ==
    CASE t = "as" -> 7
      [] t = ":" -> 6
      [] t = "*" -> 5
      [] t \in {"+", "-"} -> 4
      [] t = "==" -> 3
      [] t = "and" -> 2
      [] t = "or" -> 1
      [] OTHER -> 0

precedence(t) ==
    CASE t = "as" -> 7
      [] t = ":" -> 6
      [] t = "*" -> 5
      [] t \in {"+", "-"} -> 4
      [] t = "==" -> 3
      [] t = "and" -> 2
      [] t = "or" -> 1
      [] OTHER -> -1

\* A term: whether isModifiableLValue holds of it, the tokens from its first
\* to its last, and how many operands are in its tree.
Term == [kind : Operand, from : Nat, to : Nat, size : Nat]

NoTerm == [kind |-> "none", from |-> 0, to |-> 0, size |-> 0]

\* The term with operands left and right around an operator.
Joined(left, right) ==
    [kind |-> "value", from |-> left.from, to |-> right.to, size |-> left.size + right.size]

\* A binary node: its operator and where it stands.  call, the place at which
\* the innermost parseTerm started, is an auxiliary value that no action reads.
Node == [op : BinaryOp \cup TypeOp, at : Nat, from : Nat, to : Nat, call : Nat]

\* A running call: its minPrec, the prefix operator it has read, its left
\* operand so far, and the operator whose right operand it waits for.
Frame == [fn : {"term", "binary"}, call : Nat, min : Nat, prefix : PrefixOp \cup {"none"},
          left : Term \cup {NoTerm}, op : BinaryOp \cup {"=", "none"}, at : Nat]

Call(fn, call, min) ==
    [fn |-> fn, call |-> call, min |-> min, prefix |-> "none",
     left |-> NoTerm, op |-> "none", at |-> 0]

\* parseTerm starts by calling parseBinary(0).
TermCalls(start) == <<Call("term", start, 0), Call("binary", start, 0)>>

Here == Len(input) + 1
Top == frames[Len(frames)]
Below == SubSeq(frames, 1, Len(frames) - 1)
TopBecomes(f) == [frames EXCEPT ![Len(frames)] = f]

Init ==
    /\ input = <<>>
    /\ next \in Token
    /\ frames = TermCalls(1)
    /\ ret = NoTerm
    /\ nodes = {}
    /\ status = "run"

Running(fn) == status = "run" /\ ret = NoTerm /\ Top.fn = fn
Returned(fn) == status = "run" /\ ret # NoTerm /\ Top.fn = fn

\* nextToken, and what peekToken returns from then on.
Consume ==
    /\ Len(input) < MaxTokens
    /\ input' = Append(input, next)
    /\ next' \in Token

Fatal ==
    /\ status' = "fatal"
    /\ UNCHANGED <<input, next, frames, ret, nodes>>

-----------------------------------------------------------------------------
(* parsePrefix *)

InPrefix == Running("binary") /\ Top.left = NoTerm

ShiftPrefix ==
    /\ InPrefix
    /\ Top.prefix = "none"
    /\ next \in PrefixOp
    /\ Consume
    /\ frames' = TopBecomes([Top EXCEPT !.prefix = next])
    /\ UNCHANGED <<ret, nodes, status>>

\* Only an lvalue can be referenced, incremented or decremented.
MayTake(prefix, operand) == prefix \in {"&", "++"} => operand = "lvalue"

\* The operand, which takes a following "++" or "--" with it.
ShiftOperand ==
    /\ InPrefix
    /\ next \in Operand
    /\ Top.prefix # "+"
    /\ MayTake(Top.prefix, next)
    /\ Consume
    /\ next' # "++"
    /\ LET t == IF Top.prefix = "none"
                THEN [kind |-> next, from |-> Here, to |-> Here, size |-> 1]
                ELSE [kind |-> "value", from |-> Here - 1, to |-> Here, size |-> 1]
       IN  frames' = TopBecomes([Top EXCEPT !.left = t, !.prefix = "none"])
    /\ UNCHANGED <<ret, nodes, status>>

\* After "+" the operand is parsed, and then a term instead of it.
ShiftPlus ==
    /\ InPrefix
    /\ next \in Operand
    /\ Top.prefix = "+"
    /\ Consume
    /\ next' # "++"
    /\ frames' = frames \o TermCalls(Here + 1)
    /\ UNCHANGED <<ret, nodes, status>>

TakePlus ==
    /\ Returned("binary")
    /\ Top.prefix = "+"
    /\ frames' = TopBecomes([Top EXCEPT !.left = ret, !.prefix = "none"])
    /\ ret' = NoTerm
    /\ UNCHANGED <<input, next, nodes, status>>

\* "Not a factor", "Non-modifiable value cannot be modfied."
PrefixFails ==
    /\ InPrefix
    /\ \/ next \in Operand /\ ~MayTake(Top.prefix, next)
       \/ next \notin Operand /\ (next \in PrefixOp => Top.prefix # "none")
    /\ Fatal

-----------------------------------------------------------------------------
(* The loop of parseBinary.  A token with a precedence but no case in the   *)
(* switch would leave the loop where it is for good: a stuttering step.     *)

InLoop == Running("binary") /\ Top.left # NoTerm

\* A mutation of ShiftBinary: the right operand takes operators of the same
\* level.
ShiftBinarySameLevel ==
    /\ InLoop
    /\ next \in BinaryOp
    /\ precedence(next) >= Top.min
    /\ Consume
    /\ frames' = Append(TopBecomes([Top EXCEPT !.op = next, !.at = Here]),
                        Call("binary", Top.call, precedence(next)))
    /\ UNCHANGED <<ret, nodes, status>>

ShiftBinary ==
    /\ InLoop
    /\ next \in BinaryOp
    /\ precedence(next) >= Top.min
    /\ Consume
    /\ frames' = Append(TopBecomes([Top EXCEPT !.op = next, !.at = Here]),
                        Call("binary", Top.call, precedence(next) + 1))
    /\ UNCHANGED <<ret, nodes, status>>

\* "as" and ":", which parseType follows: no further call of parseBinary.
ShiftType ==
    /\ InLoop
    /\ next \in TypeOp
    /\ precedence(next) >= Top.min
    /\ Len(input) + 2 <= MaxTokens
    /\ input' = input \o <<next, "type">>
    /\ next' \in Token
    /\ LET n == [op |-> next, at |-> Here, from |-> Top.left.from, to |-> Here + 1,
                 call |-> Top.call]
       IN  /\ nodes' = nodes \cup {n}
           /\ frames' = TopBecomes([Top EXCEPT !.left.kind = "value", !.left.to = n.to])
    /\ UNCHANGED <<ret, status>>

\* parseType does not find a type.
TypeFails ==
    /\ InLoop
    /\ next \in TypeOp
    /\ precedence(next) >= Top.min
    /\ Fatal

\* A mutation of TakeRight: the left operand is lost.
TakeRightOnly ==
    /\ Returned("binary")
    /\ Top.op # "none"
    /\ nodes' = nodes \cup {[op |-> Top.op, at |-> Top.at, from |-> Top.left.from,
                             to |-> ret.to, call |-> Top.call]}
    /\ frames' = TopBecomes([Top EXCEPT !.left = ret, !.op = "none", !.at = 0])
    /\ ret' = NoTerm
    /\ UNCHANGED <<input, next, status>>

TakeRight ==
    /\ Returned("binary")
    /\ Top.op # "none"
    /\ nodes' = nodes \cup {[op |-> Top.op, at |-> Top.at, from |-> Top.left.from,
                             to |-> ret.to, call |-> Top.call]}
    /\ frames' = TopBecomes([Top EXCEPT !.left = Joined(Top.left, ret), !.op = "none", !.at = 0])
    /\ ret' = NoTerm
    /\ UNCHANGED <<input, next, status>>

ReturnBinary ==
    /\ InLoop
    /\ precedence(next) < Top.min
    /\ ret' = Top.left
    /\ frames' = Below
    /\ UNCHANGED <<input, next, nodes, status>>

-----------------------------------------------------------------------------
(* The rest of parseTerm *)

Assign ==
    /\ Returned("term")
    /\ Top.left = NoTerm
    /\ next = "="
    /\ ret.kind = "lvalue"
    /\ Consume
    /\ frames' = TopBecomes([Top EXCEPT !.left = ret, !.op = "=", !.at = Here])
                    \o TermCalls(Here + 1)
    /\ ret' = NoTerm
    /\ UNCHANGED <<nodes, status>>

\* "Lvalue is not assignable"
AssignFails ==
    /\ Returned("term")
    /\ Top.left = NoTerm
    /\ next = "="
    /\ ret.kind # "lvalue"
    /\ Fatal

\* A mutation of EndCall: the run goes on after the outermost call.
EndCallUnended ==
    /\ frames' = Below
    /\ UNCHANGED <<input, next, nodes, status>>

\* The outermost call ends the run.
EndCall ==
    /\ frames' = Below
    /\ status' = IF Len(frames) = 1 THEN "done" ELSE "run"
    /\ UNCHANGED <<input, next, nodes>>

ReturnTerm ==
    /\ Returned("term")
    /\ Top.left = NoTerm => next # "="
    /\ ret' = IF Top.left = NoTerm THEN ret ELSE Joined(Top.left, ret)
    /\ EndCall

Next ==
    \/ ShiftPrefix
    \/ ShiftOperand
    \/ ShiftPlus
    \/ TakePlus
    \/ PrefixFails
    \/ ShiftBinary
    \/ ShiftType
    \/ TypeFails
    \/ TakeRight
    \/ ReturnBinary
    \/ Assign
    \/ AssignFails
    \/ ReturnTerm

\* The one thread of the compiler runs on.
Spec == Init /\ [][Next]_vars /\ WF_vars(Next)

-----------------------------------------------------------------------------
TypeOK ==
    /\ input \in Seq(Token \cup {"type"})
    /\ next \in Token
    /\ frames \in Seq(Frame)
    /\ ret \in Term \cup {NoTerm}
    /\ nodes \subseteq Node
    /\ status \in {"run", "done", "fatal"}
    /\ status = "run" => frames # <<>>

\* The levels of grammar.y, from logical (with "and" above "or") to
\* binary-type.
Level(op) ==
    CASE op = "or" -> 1
      [] op = "and" -> 2
      [] op = "==" -> 3
      [] op \in {"+", "-"} -> 4
      [] op = "*" -> 5
      [] op \in TypeOp -> 6

Within(m, n) == m.call = n.call /\ n.from <= m.at /\ m.at <= n.to

\* The tree is the one that the levels of the grammar prescribe, left
\* associative in each: within a term, no operator to the left of its root
\* binds weaker, and none to the right binds weaker or as strong.
GrammarTree ==
    \A m, n \in nodes :
        Within(m, n) =>
            /\ m.at < n.at => Level(m.op) >= Level(n.op)
            /\ m.at > n.at => Level(m.op) > Level(n.op)

\* Within one parseTerm each call of parseBinary has a higher minPrec than the
\* call it was made from, so the recursion is never deeper than the levels.
LevelsClimb ==
    \A i \in 2 .. Len(frames) :
        frames[i].call = frames[i - 1].call =>
            /\ frames[i].fn = "binary"
            /\ frames[i - 1].fn = "binary" => frames[i].min > frames[i - 1].min
            /\ frames[i].min <= 6

\* Every operand that was read is in the tree of the term that is returned.
\* With a prefix "+" in the source this does not hold: parsePrefix drops the
\* operand of "+" and returns the term that comes after it.
OperandsKept ==
    status = "done" =>
        ret.size = Cardinality({k \in 1 .. Len(input) : input[k] \in Operand})

\* A "+" that no operand or type comes before.
IsPrefixPlus(k) ==
    /\ input[k] = "+"
    /\ k > 1 => input[k - 1] \notin Operand \cup {"type"}

\* That is the only way to lose one: however the calls of parseBinary and
\* parseTerm nest, each takes up what its callees return.
OnlyPlusLosesOperands ==
    (\A k \in 1 .. Len(input) : ~IsPrefixPlus(k)) => OperandsKept

\* When the source has nothing more for the term, parseTerm returns or reports
\* an error: neither the loop of parseBinary nor the calls go on for ever.
EndIsReached == next = "end" ~> status # "run"

=============================================================================
