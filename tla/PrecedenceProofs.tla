-------------------------- MODULE PrecedenceProofs --------------------------
(***************************************************************************)
(* Proofs about Precedence, for sources of any length over any tokens: the *)
(* tree is the one of the levels, the recursion climbs, and no operand but *)
(* that of a prefix "+" is lost.                                           *)
(***************************************************************************)
EXTENDS Precedence, FiniteSetTheorems, SequenceTheorems, TLAPS

Operator == BinaryOp \cup TypeOp

-----------------------------------------------------------------------------
(* The invariant *)

\* A call that waits for the one above it, in parseTerm for its term or for the
\* term after "=", in parseBinary for that after "+" or for its right operand.
Waiting(f) ==
    IF f.fn = "term"
    THEN f.prefix = "none" /\ f.op \in {"none", "="} /\ (f.left = NoTerm <=> f.op = "none")
    ELSE \/ f.left = NoTerm /\ f.op = "none" /\ f.prefix = "+"
         \/ f.left # NoTerm /\ f.op \in BinaryOp /\ f.prefix = "none" /\ f.min <= Level(f.op)

\* A call of parseBinary that reads its left operand or is in its loop.
Reading(f) == f.fn = "binary" /\ f.op = "none" /\ (f.left # NoTerm => f.prefix = "none")

\* The call g is the one that f has made.
Called(f, g) ==
    IF f.op \in BinaryOp
    THEN g.fn = "binary" /\ g.call = f.call /\ g.min = Level(f.op) + 1
    ELSE IF f.fn = "term" /\ f.op = "none"
         THEN g.fn = "binary" /\ g.call = f.call
         ELSE g.fn = "term" /\ g.call > f.call

StackOK ==
    /\ \A i \in 1 .. Len(frames) - 1 : Waiting(frames[i]) /\ Called(frames[i], frames[i + 1])
    /\ status = "run" => IF ret = NoTerm THEN Reading(Top) ELSE Waiting(Top)
    /\ frames # <<>> => frames[1].fn = "term" /\ frames[1].call = 1

\* The operand and the operator of a running call are among the tokens read.
PlaceOK(f, len) ==
    /\ f.call \in 1 .. len + 1
    /\ f.min \in 0 .. 6
    /\ f.op # "none" => f.left.from < f.at /\ f.at <= len
    /\ f.left # NoTerm => f.call <= f.left.from /\ f.left.from <= f.left.to /\ f.left.to <= len

\* What a call reads is behind the operators of the calls below it.
Before(f, g) ==
    /\ f.call <= g.call
    /\ f.op # "none" /\ g.left # NoTerm => f.at < g.left.from

NodeOK(m, len) == m.from <= m.at /\ m.at <= m.to /\ m.to <= len

PlacesOK ==
    /\ \A i \in 1 .. Len(frames) : PlaceOK(frames[i], Len(input))
    /\ \A i, j \in 1 .. Len(frames) : i < j => Before(frames[i], frames[j])
    /\ ret # NoTerm =>
        /\ ret.from <= ret.to /\ ret.to <= Len(input)
        /\ status = "run" => Top.call <= ret.from
        /\ \A i \in 1 .. Len(frames) : frames[i].op # "none" => frames[i].at < ret.from
    /\ status = "run" /\ ret = NoTerm /\ Top.left = NoTerm /\ Top.prefix # "none" =>
        /\ Top.call <= Len(input)
        /\ \A i \in 1 .. Len(frames) : frames[i].op # "none" => frames[i].at < Len(input)
        /\ \A m \in nodes : m.at < Len(input)
    /\ \A m \in nodes : NodeOK(m, Len(input))

\* A node m to the left of an operator whose right operand is parsed binds as
\* strong, and none goes across it.
Pending(f, m) ==
    /\ f.left.from <= m.at /\ m.at < f.at => Level(f.op) <= Level(m.op)
    /\ m.to < f.at \/ f.at < m.from

PendingOK ==
    \A i \in 1 .. Len(frames) : frames[i].op \in BinaryOp =>
        \A m \in nodes : m.call = frames[i].call => Pending(frames[i], m)

\* The nodes behind it are all in the left operand of the call it has made.
Behind(f, g, m) ==
    /\ f.op \in BinaryOp /\ f.at < m.at => g.left # NoTerm /\ g.left.from <= m.at
    /\ f.prefix = "+" => m.at < g.call

BehindOK ==
    \A i \in 1 .. Len(frames) - 1 : \A m \in nodes :
        m.call = frames[i].call => Behind(frames[i], frames[i + 1], m)

\* What the call f on top knows of the nodes m in its operands: with the right
\* one returned, and in its loop.
Taking(f, r, m) ==
    /\ f.op \in BinaryOp /\ f.at < m.at => Level(f.op) < Level(m.op)
    /\ f.prefix = "+" => m.at < r.from

Looping(f, t, m) ==
    f.left.from <= m.at => f.min <= Level(m.op) /\ (t \in Operator => Level(t) <= Level(m.op))

TopOK ==
    /\ ret # NoTerm =>
        /\ \A m \in nodes : m.call = Top.call => Taking(Top, ret, m)
        /\ Top.op \in BinaryOp /\ next \in Operator => Level(next) <= Level(Top.op)
    /\ ret = NoTerm /\ Top.left # NoTerm =>
        \A m \in nodes : m.call = Top.call => Looping(Top, next, m)

TreeInv == StackOK /\ PlacesOK /\ PendingOK /\ BehindOK /\ (status = "run" => TopOK) /\ GrammarTree

NoPlus == \A k \in 1 .. Len(input) : ~IsPrefixPlus(k)

\* The places from .. to of the tokens s that are operands.
OperandsAt(s, from, to) == {k \in from .. to : s[k] \in Operand}

Counted(s, t) == t.size = Cardinality(OperandsAt(s, t.from, t.to))

FrameCounts(s, f) ==
    /\ f.prefix # "+"
    /\ f.left # NoTerm => Counted(s, f.left)
    /\ f.op # "none" => f.left.to = f.at - 1 /\ s[f.at] \notin Operand

\* The first place of what g parses, a call that f has made.
StartAfter(f, g) == IF f.op # "none" THEN f.at + 1 ELSE g.call

Starts(f, g) ==
    /\ g.left # NoTerm => g.left.from = StartAfter(f, g)
    /\ f.op = "=" => g.call = f.at + 1

\* What the call g, made by f, knows of the tokens s it has read.
Follows(f, g, s) ==
    IF g.left # NoTerm THEN g.left.to = Len(s)
    ELSE IF g.prefix = "none"
         THEN /\ StartAfter(f, g) = Len(s) + 1
              /\ Len(s) > 0 => s[Len(s)] \notin Operand \cup {"type"}
         ELSE StartAfter(f, g) = Len(s) /\ s[Len(s)] \notin Operand

\* No token is between the terms and the operators, and each term has counted
\* the operands from its first token to its last.
Counts ==
    /\ \A i \in 1 .. Len(frames) : FrameCounts(input, frames[i])
    /\ frames # <<>> /\ frames[1].left # NoTerm => frames[1].left.from = 1
    /\ \A i \in 1 .. Len(frames) - 1 : Starts(frames[i], frames[i + 1])
    /\ ret # NoTerm =>
        /\ Counted(input, ret) /\ ret.to = Len(input)
        /\ status = "done" => ret.from = 1
        /\ status = "run" => ret.from = StartAfter(Top, Top)
    /\ status = "run" /\ ret = NoTerm => Follows(frames[Len(frames) - 1], Top, input)
    /\ status = "done" => ret # NoTerm

CountInv == NoPlus => Counts

-----------------------------------------------------------------------------
(* Tokens, terms and calls. *)

LEMMA Levels ==
    /\ \A t \in BinaryOp : precedence(t) = Level(t) /\ Level(t) \in 1 .. 5
    /\ \A t \in TypeOp : Level(t) = 6 /\ precedence(t) \in {6, 7}
    /\ \A t : precedence(t) \in Int
    BY DEF precedence, Level, BinaryOp, TypeOp

LEMMA TokensApart ==
    /\ "none" \notin BinaryOp \cup {"="} \cup PrefixOp
    /\ "=" \notin BinaryOp
    /\ Operand \cap (BinaryOp \cup TypeOp \cup PrefixOp \cup {"=", "none"}) = {}
    BY DEF BinaryOp, TypeOp, PrefixOp, Operand

LEMMA TermFacts ==
    /\ NoTerm \notin Term
    /\ \A t \in Term : /\ t.kind \in Operand /\ t.from \in Nat /\ t.to \in Nat /\ t.size \in Nat
                       /\ t # NoTerm
    /\ \A l, r \in Term : /\ Joined(l, r) \in Term
                          /\ Joined(l, r).from = l.from /\ Joined(l, r).to = r.to
                          /\ Joined(l, r).size = l.size + r.size
    BY DEF NoTerm, Term, Joined, Operand

LEMMA FrameFields ==
    ASSUME NEW f \in Frame
    PROVE  /\ f.fn \in {"term", "binary"} /\ f.call \in Nat /\ f.min \in Nat
           /\ f.prefix \in PrefixOp \cup {"none"} /\ f.left \in Term \cup {NoTerm}
           /\ f.op \in BinaryOp \cup {"=", "none"} /\ f.at \in Nat
    BY DEF Frame

LEMMA NewCall ==
    ASSUME NEW fn \in {"term", "binary"}, NEW call \in Nat, NEW min \in Nat
    PROVE  /\ Call(fn, call, min) \in Frame
           /\ Call(fn, call, min).fn = fn /\ Call(fn, call, min).call = call
           /\ Call(fn, call, min).min = min /\ Call(fn, call, min).prefix = "none"
           /\ Call(fn, call, min).left = NoTerm /\ Call(fn, call, min).op = "none"
           /\ Call(fn, call, min).at = 0
    BY DEF Call, Frame

\* The call f after a step of its own.
WithPrefix(f, p) == [f EXCEPT !.prefix = p]
WithLeft(f, t) == [f EXCEPT !.left = t, !.prefix = "none"]
WithOp(f, op, at) == [f EXCEPT !.op = op, !.at = at]
WithNode(f, t) == [f EXCEPT !.left = t, !.op = "none", !.at = 0]
WithAssigned(f, t, at) == [f EXCEPT !.left = t, !.op = "=", !.at = at]
WithType(f, to) == [f EXCEPT !.left.kind = "value", !.left.to = to]

\* f and g are the same call, at different times.
SameCall(f, g) == g \in Frame /\ g.fn = f.fn /\ g.call = f.call /\ g.min = f.min

LEMMA SetPrefix ==
    ASSUME NEW f \in Frame, NEW p \in PrefixOp
    PROVE  /\ SameCall(f, WithPrefix(f, p))
           /\ WithPrefix(f, p).prefix = p /\ WithPrefix(f, p).left = f.left
           /\ WithPrefix(f, p).op = f.op /\ WithPrefix(f, p).at = f.at
    BY DEF SameCall, WithPrefix, Frame

LEMMA SetLeft ==
    ASSUME NEW f \in Frame, NEW t \in Term
    PROVE  /\ SameCall(f, WithLeft(f, t))
           /\ WithLeft(f, t).prefix = "none" /\ WithLeft(f, t).left = t
           /\ WithLeft(f, t).op = f.op /\ WithLeft(f, t).at = f.at
    BY DEF SameCall, WithLeft, Frame

LEMMA SetOp ==
    ASSUME NEW f \in Frame, NEW op \in BinaryOp, NEW at \in Nat
    PROVE  /\ SameCall(f, WithOp(f, op, at))
           /\ WithOp(f, op, at).prefix = f.prefix /\ WithOp(f, op, at).left = f.left
           /\ WithOp(f, op, at).op = op /\ WithOp(f, op, at).at = at
    BY DEF SameCall, WithOp, Frame

LEMMA SetNode ==
    ASSUME NEW f \in Frame, NEW t \in Term
    PROVE  /\ SameCall(f, WithNode(f, t))
           /\ WithNode(f, t).prefix = f.prefix /\ WithNode(f, t).left = t
           /\ WithNode(f, t).op = "none" /\ WithNode(f, t).at = 0
    BY DEF SameCall, WithNode, Frame

LEMMA SetAssigned ==
    ASSUME NEW f \in Frame, NEW t \in Term, NEW at \in Nat
    PROVE  /\ SameCall(f, WithAssigned(f, t, at))
           /\ WithAssigned(f, t, at).prefix = f.prefix /\ WithAssigned(f, t, at).left = t
           /\ WithAssigned(f, t, at).op = "=" /\ WithAssigned(f, t, at).at = at
    BY DEF SameCall, WithAssigned, Frame

LEMMA SetTyped ==
    ASSUME NEW f \in Frame, f.left \in Term, NEW to \in Nat
    PROVE  /\ SameCall(f, WithType(f, to))
           /\ WithType(f, to).prefix = f.prefix
           /\ WithType(f, to).op = f.op /\ WithType(f, to).at = f.at
           /\ WithType(f, to).left \in Term /\ WithType(f, to).left.from = f.left.from
           /\ WithType(f, to).left.to = to /\ WithType(f, to).left.size = f.left.size
    BY DEF SameCall, WithType, Frame, Term, Operand

-----------------------------------------------------------------------------
(* The stack of calls. *)

LEMMA OneOrMore == \A n \in Nat \ {0} : n = 1 \/ n > 1
    OBVIOUS

LEMMA TopFacts ==
    ASSUME frames \in Seq(Frame), frames # <<>>
    PROVE  /\ Len(frames) \in Nat \ {0} /\ Top = frames[Len(frames)]
           /\ \A i \in 1 .. Len(frames) : frames[i] \in Frame
    BY DEF Top

LEMMA BecomesFacts ==
    ASSUME frames \in Seq(Frame), frames # <<>>, NEW f \in Frame
    PROVE  /\ TopBecomes(f) \in Seq(Frame) /\ Len(TopBecomes(f)) = Len(frames)
           /\ TopBecomes(f)[Len(frames)] = f
           /\ \A i \in 1 .. Len(frames) - 1 : TopBecomes(f)[i] = frames[i]
    BY DEF TopBecomes

LEMMA AppendFacts ==
    ASSUME NEW s \in Seq(Frame), NEW g \in Frame
    PROVE  /\ Append(s, g) \in Seq(Frame) /\ Len(Append(s, g)) = Len(s) + 1
           /\ Append(s, g)[Len(s) + 1] = g
           /\ \A i \in 1 .. Len(s) : Append(s, g)[i] = s[i]
    OBVIOUS

LEMMA CallsFacts ==
    ASSUME NEW s \in Seq(Frame), NEW start \in Nat
    PROVE  /\ s \o TermCalls(start) \in Seq(Frame) /\ Len(s \o TermCalls(start)) = Len(s) + 2
           /\ (s \o TermCalls(start))[Len(s) + 1] = Call("term", start, 0)
           /\ (s \o TermCalls(start))[Len(s) + 2] = Call("binary", start, 0)
           /\ \A i \in 1 .. Len(s) : (s \o TermCalls(start))[i] = s[i]
<1>1. TermCalls(start) \in Seq(Frame) /\ Len(TermCalls(start)) = 2
    BY NewCall DEF TermCalls
<1>2. TermCalls(start)[1] = Call("term", start, 0) /\ TermCalls(start)[2] = Call("binary", start, 0)
    BY DEF TermCalls
<1> DEFINE t == TermCalls(start)
<1>3. t \in Seq(Frame) /\ Len(t) = 2 /\ t[1] = Call("term", start, 0) /\ t[2] = Call("binary", start, 0)
    BY <1>1, <1>2
<1> HIDE DEF t
<1>4. /\ s \o t \in Seq(Frame) /\ Len(s \o t) = Len(s) + Len(t)
      /\ \A i \in 1 .. Len(s) + Len(t) : (s \o t)[i] = IF i <= Len(s) THEN s[i] ELSE t[i - Len(s)]
    <2>1. t \in Seq(Frame)
        BY <1>3
    <2> QED  BY <2>1, ConcatProperties
<1>5. Len(s) \in Nat
    OBVIOUS
<1>6. /\ (s \o t)[Len(s) + 1] = t[1] /\ (s \o t)[Len(s) + 2] = t[2]
      /\ \A i \in 1 .. Len(s) : (s \o t)[i] = s[i]
    BY <1>3, <1>4, <1>5
<1> QED  BY <1>3, <1>4, <1>5, <1>6 DEF t

LEMMA BelowFacts ==
    ASSUME frames \in Seq(Frame), frames # <<>>
    PROVE  /\ Below \in Seq(Frame) /\ Len(Below) = Len(frames) - 1
           /\ \A i \in 1 .. Len(frames) - 1 : Below[i] = frames[i]
           /\ Len(frames) > 1 => Below # <<>> /\ Below[Len(Below)] = frames[Len(frames) - 1]
<1> DEFINE n == Len(frames) - 1
<1>1. n \in Nat /\ \A i \in 1 .. n : frames[i] \in Frame
    BY TopFacts
<1>2. Below = SubSeq(frames, 1, n)
    BY DEF Below
<1> HIDE DEF n
<1>3. /\ SubSeq(frames, 1, n) \in Seq(Frame)
      /\ Len(SubSeq(frames, 1, n)) = IF 1 <= n THEN n - 1 + 1 ELSE 0
      /\ \A i \in 1 .. n - 1 + 1 : SubSeq(frames, 1, n)[i] = frames[1 + i - 1]
    BY <1>1, SubSeqProperties
<1>4. /\ Below \in Seq(Frame) /\ Len(Below) = n
      /\ \A i \in 1 .. n : Below[i] = frames[i]
    BY <1>1, <1>2, <1>3
<1>5. n > 0 => Below # <<>> /\ n \in 1 .. n
    BY <1>1, <1>4
<1> QED  BY <1>1, <1>4, <1>5 DEF n

-----------------------------------------------------------------------------
(* What a step does to the source and to the stack. *)

InputGrows(n) ==
    /\ input' \in Seq(Token \cup {"type"}) /\ Len(input') = Len(input) + n
    /\ \A k \in 1 .. Len(input) : input'[k] = input[k]
    /\ next' \in Token

\* The call on top becomes g.
Becomes(g) ==
    /\ frames' \in Seq(Frame) /\ Len(frames') = Len(frames)
    /\ frames'[Len(frames)] = g
    /\ \A i \in 1 .. Len(frames) - 1 : frames'[i] = frames[i]

\* Calls come on top of it.
Pushes(g, n) ==
    /\ frames' \in Seq(Frame) /\ Len(frames') = Len(frames) + n
    /\ frames'[Len(frames)] = g
    /\ \A i \in 1 .. Len(frames) - 1 : frames'[i] = frames[i]

\* The call on top returns.
Pops ==
    /\ frames' \in Seq(Frame) /\ Len(frames') = Len(frames) - 1
    /\ \A i \in 1 .. Len(frames) - 1 : frames'[i] = frames[i]

IsCall(g, fn, call, min) ==
    /\ g \in Frame /\ g.fn = fn /\ g.call = call /\ g.min = min
    /\ g.prefix = "none" /\ g.left = NoTerm /\ g.op = "none"

LEMMA ConsumeFacts ==
    ASSUME TypeOK, Consume
    PROVE  InputGrows(1) /\ input'[Len(input) + 1] = next
    BY DEF TypeOK, Consume, InputGrows

LEMMA RunFacts ==
    ASSUME TypeOK, StackOK, status = "run"
    PROVE  /\ frames \in Seq(Frame) /\ frames # <<>>
           /\ Len(frames) \in Nat \ {0} /\ Len(input) \in Nat /\ Top = frames[Len(frames)]
           /\ Top \in Frame /\ Top.left \in Term \cup {NoTerm} /\ Top.call \in Nat
           /\ \A i \in 1 .. Len(frames) : frames[i] \in Frame
           /\ ret # NoTerm => ret \in Term
    BY TopFacts, FrameFields DEF TypeOK

LEMMA ShiftPrefixFacts ==
    ASSUME TypeOK, StackOK, ShiftPrefix
    PROVE  /\ status = "run" /\ ret = NoTerm /\ Top.fn = "binary"
           /\ Top.left = NoTerm /\ Top.prefix = "none" /\ next \in PrefixOp
           /\ \E g : /\ Becomes(g) /\ SameCall(Top, g)
                     /\ g.prefix = next /\ g.left = NoTerm /\ g.op = Top.op /\ g.at = Top.at
           /\ InputGrows(1) /\ input'[Len(input) + 1] = next
           /\ ret' = ret /\ nodes' = nodes /\ status' = "run"
<1>1. /\ status = "run" /\ ret = NoTerm /\ Top.fn = "binary"
      /\ Top.left = NoTerm /\ Top.prefix = "none" /\ next \in PrefixOp
      /\ Consume /\ ret' = ret /\ nodes' = nodes /\ status' = "run"
      /\ frames' = TopBecomes(WithPrefix(Top, next))
    BY DEF ShiftPrefix, InPrefix, Running, WithPrefix
<1>2. frames \in Seq(Frame) /\ frames # <<>> /\ Top \in Frame
    BY <1>1, RunFacts
<1>3. PICK g : g = WithPrefix(Top, next)
    OBVIOUS
<1>4. SameCall(Top, g) /\ g.prefix = next /\ g.left = NoTerm /\ g.op = Top.op /\ g.at = Top.at
    BY <1>1, <1>2, <1>3, SetPrefix
<1>5. Becomes(g)
    BY <1>1, <1>2, <1>3, <1>4, BecomesFacts DEF Becomes, SameCall
<1> QED  BY <1>1, <1>4, <1>5, ConsumeFacts

LEMMA ShiftOperandFacts ==
    ASSUME TypeOK, StackOK, ShiftOperand
    PROVE  /\ status = "run" /\ ret = NoTerm /\ Top.fn = "binary"
           /\ Top.left = NoTerm /\ Top.prefix # "+" /\ next \in Operand
           /\ \E g : /\ Becomes(g) /\ SameCall(Top, g)
                     /\ g.prefix = "none" /\ g.op = Top.op /\ g.at = Top.at
                     /\ g.left \in Term /\ g.left.to = Len(input) + 1 /\ g.left.size = 1
                     /\ g.left.from = IF Top.prefix = "none" THEN Len(input) + 1 ELSE Len(input)
           /\ InputGrows(1) /\ input'[Len(input) + 1] = next
           /\ ret' = ret /\ nodes' = nodes /\ status' = "run"
<1>1. /\ status = "run" /\ ret = NoTerm /\ Top.fn = "binary"
      /\ Top.left = NoTerm /\ Top.prefix # "+" /\ next \in Operand
      /\ Consume /\ ret' = ret /\ nodes' = nodes /\ status' = "run"
    BY DEF ShiftOperand, InPrefix, Running
<1>2. frames \in Seq(Frame) /\ frames # <<>> /\ Top \in Frame /\ Len(input) \in Nat
    BY <1>1, RunFacts
<1>3. PICK t : /\ t = IF Top.prefix = "none"
                      THEN [kind |-> next, from |-> Here, to |-> Here, size |-> 1]
                      ELSE [kind |-> "value", from |-> Here - 1, to |-> Here, size |-> 1]
               /\ frames' = TopBecomes(WithLeft(Top, t))
    BY DEF ShiftOperand, WithLeft
<1>4. /\ t \in Term /\ t.to = Len(input) + 1 /\ t.size = 1
      /\ t.from = IF Top.prefix = "none" THEN Len(input) + 1 ELSE Len(input)
    BY <1>1, <1>2, <1>3 DEF Term, Operand, Here
<1>5. PICK g : g = WithLeft(Top, t)
    OBVIOUS
<1>6. SameCall(Top, g) /\ g.prefix = "none" /\ g.left = t /\ g.op = Top.op /\ g.at = Top.at
    BY <1>2, <1>4, <1>5, SetLeft
<1>7. Becomes(g)
    BY <1>2, <1>3, <1>5, <1>6, BecomesFacts DEF Becomes, SameCall
<1> QED  BY <1>1, <1>4, <1>6, <1>7, ConsumeFacts

LEMMA ShiftPlusFacts ==
    ASSUME TypeOK, StackOK, ShiftPlus
    PROVE  /\ status = "run" /\ ret = NoTerm /\ Top.fn = "binary"
           /\ Top.left = NoTerm /\ Top.prefix = "+" /\ next \in Operand
           /\ Pushes(Top, 2)
           /\ IsCall(frames'[Len(frames) + 1], "term", Len(input) + 2, 0)
           /\ IsCall(frames'[Len(frames) + 2], "binary", Len(input) + 2, 0)
           /\ InputGrows(1) /\ input'[Len(input) + 1] = next
           /\ ret' = ret /\ nodes' = nodes /\ status' = "run"
<1>1. /\ status = "run" /\ ret = NoTerm /\ Top.fn = "binary"
      /\ Top.left = NoTerm /\ Top.prefix = "+" /\ next \in Operand
      /\ Consume /\ ret' = ret /\ nodes' = nodes /\ status' = "run"
      /\ frames' = frames \o TermCalls(Len(input) + 1 + 1)
    BY DEF ShiftPlus, InPrefix, Running, Here
<1>2. /\ frames \in Seq(Frame) /\ Len(frames) \in Nat \ {0} /\ Top = frames[Len(frames)]
      /\ Len(input) \in Nat
    BY <1>1, RunFacts
<1>3. Len(input) + 1 + 1 = Len(input) + 2 /\ Len(input) + 2 \in Nat
    BY <1>2
<1>4. Pushes(Top, 2)
    <2>1. /\ frames' \in Seq(Frame) /\ Len(frames') = Len(frames) + 2
          /\ \A i \in 1 .. Len(frames) : frames'[i] = frames[i]
        BY <1>1, <1>2, <1>3, CallsFacts
    <2> QED  BY <1>2, <2>1 DEF Pushes
<1>5. /\ frames'[Len(frames) + 1] = Call("term", Len(input) + 2, 0)
      /\ frames'[Len(frames) + 2] = Call("binary", Len(input) + 2, 0)
    BY <1>1, <1>2, <1>3, CallsFacts
<1>6. /\ IsCall(Call("term", Len(input) + 2, 0), "term", Len(input) + 2, 0)
      /\ IsCall(Call("binary", Len(input) + 2, 0), "binary", Len(input) + 2, 0)
    BY <1>3, NewCall DEF IsCall
<1> QED  BY <1>1, <1>4, <1>5, <1>6, ConsumeFacts

LEMMA TakePlusFacts ==
    ASSUME TypeOK, StackOK, TakePlus
    PROVE  /\ status = "run" /\ ret \in Term /\ Top.fn = "binary"
           /\ Top.left = NoTerm /\ Top.prefix = "+" /\ Top.op = "none"
           /\ \E g : /\ Becomes(g) /\ SameCall(Top, g)
                     /\ g.prefix = "none" /\ g.op = "none" /\ g.at = Top.at /\ g.left = ret
           /\ ret' = NoTerm /\ nodes' = nodes /\ status' = "run"
           /\ input' = input /\ next' = next
<1>1. /\ status = "run" /\ ret # NoTerm /\ Top.fn = "binary" /\ Top.prefix = "+"
      /\ ret' = NoTerm /\ nodes' = nodes /\ status' = "run" /\ input' = input /\ next' = next
      /\ frames' = TopBecomes(WithLeft(Top, ret))
    BY DEF TakePlus, Returned, WithLeft
<1>2. frames \in Seq(Frame) /\ frames # <<>> /\ Top \in Frame /\ ret \in Term
    BY <1>1, RunFacts
<1>3. Top.left = NoTerm /\ Top.op = "none"
    BY <1>1 DEF StackOK, Waiting
<1>4. PICK g : g = WithLeft(Top, ret)
    OBVIOUS
<1>5. SameCall(Top, g) /\ g.prefix = "none" /\ g.left = ret /\ g.op = Top.op /\ g.at = Top.at
    BY <1>2, <1>4, SetLeft
<1>6. Becomes(g)
    BY <1>1, <1>2, <1>4, <1>5, BecomesFacts DEF Becomes, SameCall
<1> QED  BY <1>1, <1>2, <1>3, <1>5, <1>6

LEMMA ShiftBinaryFacts ==
    ASSUME TypeOK, StackOK, ShiftBinary
    PROVE  /\ status = "run" /\ ret = NoTerm /\ Top.fn = "binary"
           /\ Top.left \in Term /\ next \in BinaryOp /\ Top.min <= Level(next)
           /\ \E g : /\ Pushes(g, 1) /\ SameCall(Top, g)
                     /\ g.prefix = "none" /\ g.left = Top.left
                     /\ g.op = next /\ g.at = Len(input) + 1
           /\ IsCall(frames'[Len(frames) + 1], "binary", Top.call, Level(next) + 1)
           /\ InputGrows(1) /\ input'[Len(input) + 1] = next
           /\ ret' = ret /\ nodes' = nodes /\ status' = "run"
<1>1. /\ status = "run" /\ ret = NoTerm /\ Top.fn = "binary" /\ Top.left # NoTerm
      /\ next \in BinaryOp /\ precedence(next) >= Top.min
      /\ Consume /\ ret' = ret /\ nodes' = nodes /\ status' = "run"
      /\ frames' = Append(TopBecomes(WithOp(Top, next, Here)),
                          Call("binary", Top.call, precedence(next) + 1))
    BY DEF ShiftBinary, InLoop, Running, WithOp
<1>2. /\ frames \in Seq(Frame) /\ frames # <<>> /\ Top \in Frame /\ Len(input) \in Nat
      /\ Len(frames) \in Nat \ {0} /\ Top.left \in Term /\ Top.call \in Nat /\ Top.min \in Nat
    BY <1>1, RunFacts, FrameFields
<1>3. precedence(next) = Level(next) /\ Level(next) \in 1 .. 5
    BY <1>1, Levels
<1>4. Top.prefix = "none"
    BY <1>1 DEF StackOK, Reading
<1>5. PICK g : g = WithOp(Top, next, Here)
    OBVIOUS
<1>6. /\ SameCall(Top, g) /\ g.prefix = "none" /\ g.left = Top.left
      /\ g.op = next /\ g.at = Len(input) + 1
    <2>1. next \in BinaryOp /\ Here \in Nat /\ Here = Len(input) + 1
        BY <1>1, <1>2 DEF Here
    <2> QED  BY <1>2, <1>4, <1>5, <2>1, SetOp
<1>7. /\ TopBecomes(g) \in Seq(Frame) /\ Len(TopBecomes(g)) = Len(frames)
      /\ TopBecomes(g)[Len(frames)] = g
      /\ \A i \in 1 .. Len(frames) - 1 : TopBecomes(g)[i] = frames[i]
    BY <1>2, <1>6, BecomesFacts DEF SameCall
<1>8. PICK h : h = Call("binary", Top.call, Level(next) + 1)
    OBVIOUS
<1>9. IsCall(h, "binary", Top.call, Level(next) + 1)
    BY <1>2, <1>3, <1>8, NewCall DEF IsCall
<1>10. frames' = Append(TopBecomes(g), h)
    BY <1>1, <1>3, <1>5, <1>8
<1>11. Pushes(g, 1) /\ frames'[Len(frames) + 1] = h
    <2>1. h \in Frame
        BY <1>9 DEF IsCall
    <2>2. /\ frames' \in Seq(Frame) /\ Len(frames') = Len(frames) + 1 /\ frames'[Len(frames) + 1] = h
          /\ \A i \in 1 .. Len(frames) : frames'[i] = TopBecomes(g)[i]
        BY <1>7, <1>10, <2>1, AppendFacts
    <2> QED  BY <1>2, <1>7, <2>2 DEF Pushes
<1> QED  BY <1>1, <1>2, <1>3, <1>6, <1>9, <1>11, ConsumeFacts

LEMMA ShiftTypeFacts ==
    ASSUME TypeOK, StackOK, ShiftType
    PROVE  /\ status = "run" /\ ret = NoTerm /\ Top.fn = "binary"
           /\ Top.left \in Term /\ Top.prefix = "none" /\ Top.op = "none"
           /\ next \in TypeOp /\ Top.min <= precedence(next)
           /\ \E g : /\ Becomes(g) /\ SameCall(Top, g)
                     /\ g.prefix = "none" /\ g.op = "none" /\ g.at = Top.at
                     /\ g.left \in Term /\ g.left.from = Top.left.from
                     /\ g.left.to = Len(input) + 2 /\ g.left.size = Top.left.size
           /\ \E n \in Node : /\ nodes' = nodes \cup {n}
                              /\ n.op = next /\ n.at = Len(input) + 1 /\ n.call = Top.call
                              /\ n.from = Top.left.from /\ n.to = Len(input) + 2
           /\ InputGrows(2) /\ input'[Len(input) + 1] = next /\ input'[Len(input) + 2] = "type"
           /\ ret' = ret /\ status' = "run"
<1> DEFINE L == Len(input)
           node == [op |-> next, at |-> Here, from |-> Top.left.from, to |-> Here + 1,
                    call |-> Top.call]
<1>1. /\ status = "run" /\ ret = NoTerm /\ Top.fn = "binary" /\ Top.left # NoTerm
      /\ next \in TypeOp /\ precedence(next) >= Top.min
      /\ input' = input \o <<next, "type">> /\ next' \in Token
      /\ nodes' = nodes \cup {node}
      /\ frames' = TopBecomes(WithType(Top, node.to))
      /\ ret' = ret /\ status' = "run"
    BY DEF ShiftType, InLoop, Running, WithType
<1>2. /\ frames \in Seq(Frame) /\ frames # <<>> /\ Top \in Frame /\ L \in Nat
      /\ Len(frames) \in Nat \ {0} /\ Top.left \in Term /\ Top.call \in Nat /\ Top.min \in Nat
      /\ Top.left.from \in Nat
    BY <1>1, RunFacts, FrameFields, TermFacts
<1>3. Top.prefix = "none" /\ Top.op = "none" /\ Top.min <= precedence(next)
    BY <1>1, <1>2, Levels DEF StackOK, Reading
<1>4. /\ node \in Node /\ node.op = next /\ node.at = L + 1 /\ node.call = Top.call
      /\ node.from = Top.left.from /\ node.to = L + 2
    BY <1>1, <1>2 DEF Node, Here
<1> HIDE DEF node
<1>5. PICK g : g = WithType(Top, node.to)
    OBVIOUS
<1>6. /\ SameCall(Top, g) /\ g.prefix = "none" /\ g.op = "none" /\ g.at = Top.at
      /\ g.left \in Term /\ g.left.from = Top.left.from
      /\ g.left.to = L + 2 /\ g.left.size = Top.left.size
    <2>1. node.to \in Nat /\ node.to = L + 2
        BY <1>2, <1>4
    <2> QED  BY <1>2, <1>3, <1>5, <2>1, SetTyped
<1>7. Becomes(g)
    BY <1>1, <1>2, <1>5, <1>6, BecomesFacts DEF Becomes, SameCall
<1>8. InputGrows(2) /\ input'[L + 1] = next /\ input'[L + 2] = "type"
    <2> DEFINE S == Token \cup {"type"}
    <2>1. input \in Seq(S) /\ next \in S /\ "type" \in S
        BY DEF TypeOK
    <2> HIDE DEF S
    <2>2. <<next, "type">> \in Seq(S) /\ Len(<<next, "type">>) = 2
        BY <2>1
    <2>3. <<next, "type">>[1] = next /\ <<next, "type">>[2] = "type"
        OBVIOUS
    <2>4. PICK t : t = <<next, "type">>
        OBVIOUS
    <2>5. t \in Seq(S) /\ Len(t) = 2 /\ t[1] = next /\ t[2] = "type"
        BY <2>2, <2>3, <2>4
    <2>6. /\ input \o t \in Seq(S) /\ Len(input \o t) = Len(input) + Len(t)
          /\ \A i \in 1 .. Len(input) + Len(t) :
                (input \o t)[i] = IF i <= Len(input) THEN input[i] ELSE t[i - Len(input)]
        BY <2>1, <2>5, ConcatProperties
    <2>7. input' = input \o t
        BY <1>1, <2>4
    <2>8. /\ Len(input') = L + 2 /\ input'[L + 1] = t[1] /\ input'[L + 2] = t[2]
          /\ \A k \in 1 .. L : input'[k] = input[k]
        BY <1>2, <2>5, <2>6, <2>7
    <2> QED  BY <1>1, <2>5, <2>6, <2>7, <2>8 DEF InputGrows, S
<1> QED  BY <1>1, <1>2, <1>3, <1>4, <1>6, <1>7, <1>8

LEMMA TakeRightFacts ==
    ASSUME TypeOK, StackOK, TakeRight
    PROVE  /\ status = "run" /\ ret \in Term /\ Top.fn = "binary"
           /\ Top.left \in Term /\ Top.prefix = "none" /\ Top.op \in BinaryOp
           /\ Top.min <= Level(Top.op)
           /\ \E g : /\ Becomes(g) /\ SameCall(Top, g)
                     /\ g.prefix = "none" /\ g.op = "none" /\ g.left = Joined(Top.left, ret)
           /\ \E n \in Node : /\ nodes' = nodes \cup {n}
                              /\ n.op = Top.op /\ n.at = Top.at /\ n.call = Top.call
                              /\ n.from = Top.left.from /\ n.to = ret.to
           /\ ret' = NoTerm /\ status' = "run" /\ input' = input /\ next' = next
<1> DEFINE node == [op |-> Top.op, at |-> Top.at, from |-> Top.left.from, to |-> ret.to,
                    call |-> Top.call]
<1>1. /\ status = "run" /\ ret # NoTerm /\ Top.fn = "binary" /\ Top.op # "none"
      /\ nodes' = nodes \cup {node}
      /\ frames' = TopBecomes(WithNode(Top, Joined(Top.left, ret)))
      /\ ret' = NoTerm /\ status' = "run" /\ input' = input /\ next' = next
    BY DEF TakeRight, Returned, WithNode
<1>2. /\ frames \in Seq(Frame) /\ frames # <<>> /\ Top \in Frame /\ ret \in Term
      /\ Top.left \in Term \cup {NoTerm} /\ Top.call \in Nat /\ Top.at \in Nat
    BY <1>1, RunFacts, FrameFields
<1>3. /\ Top.left \in Term /\ Top.op \in BinaryOp /\ Top.prefix = "none"
      /\ Top.min <= Level(Top.op)
    BY <1>1, <1>2 DEF StackOK, Waiting
<1>4. Top.left.from \in Nat /\ ret.to \in Nat /\ Joined(Top.left, ret) \in Term
    BY <1>2, <1>3, TermFacts
<1>5. /\ node \in Node /\ node.op = Top.op /\ node.at = Top.at /\ node.call = Top.call
      /\ node.from = Top.left.from /\ node.to = ret.to
    BY <1>2, <1>3, <1>4 DEF Node
<1> HIDE DEF node
<1>6. PICK g : g = WithNode(Top, Joined(Top.left, ret))
    OBVIOUS
<1>7. SameCall(Top, g) /\ g.prefix = "none" /\ g.op = "none" /\ g.left = Joined(Top.left, ret)
    BY <1>2, <1>3, <1>4, <1>6, SetNode
<1>8. Becomes(g)
    BY <1>1, <1>2, <1>6, <1>7, BecomesFacts DEF Becomes, SameCall
<1> QED  BY <1>1, <1>2, <1>3, <1>5, <1>7, <1>8

LEMMA ReturnBinaryFacts ==
    ASSUME TypeOK, StackOK, ReturnBinary
    PROVE  /\ status = "run" /\ ret = NoTerm /\ Top.fn = "binary"
           /\ Top.left \in Term /\ Top.prefix = "none" /\ Top.op = "none"
           /\ precedence(next) < Top.min
           /\ Len(frames) > 1 /\ Pops
           /\ ret' = Top.left /\ nodes' = nodes /\ status' = "run"
           /\ input' = input /\ next' = next
<1>1. /\ status = "run" /\ ret = NoTerm /\ Top.fn = "binary" /\ Top.left # NoTerm
      /\ precedence(next) < Top.min /\ frames' = Below
      /\ ret' = Top.left /\ nodes' = nodes /\ status' = "run" /\ input' = input /\ next' = next
    BY DEF ReturnBinary, InLoop, Running
<1>2. /\ frames \in Seq(Frame) /\ frames # <<>> /\ Top \in Frame /\ Top.left \in Term
      /\ Len(frames) \in Nat \ {0} /\ Top = frames[Len(frames)]
    BY <1>1, RunFacts
<1>3. Top.prefix = "none" /\ Top.op = "none"
    BY <1>1 DEF StackOK, Reading
<1>4. Len(frames) > 1
    <2>1. Len(frames) # 1
        BY <1>1, <1>2 DEF StackOK
    <2>2. Len(frames) \in Nat \ {0}
        BY <1>2
    <2> QED  BY <2>1, <2>2, OneOrMore
<1>5. Pops
    <2>1. /\ Below \in Seq(Frame) /\ Len(Below) = Len(frames) - 1
          /\ \A i \in 1 .. Len(frames) - 1 : Below[i] = frames[i]
        BY <1>2, BelowFacts
    <2>2. frames' = Below
        BY <1>1
    <2> QED  BY <2>1, <2>2 DEF Pops
<1> QED  BY <1>1, <1>2, <1>3, <1>4, <1>5

LEMMA AssignFacts ==
    ASSUME TypeOK, StackOK, Assign
    PROVE  /\ status = "run" /\ ret \in Term /\ Top.fn = "term"
           /\ Top.left = NoTerm /\ Top.prefix = "none" /\ Top.op = "none" /\ next = "="
           /\ \E g : /\ Pushes(g, 2) /\ SameCall(Top, g)
                     /\ g.prefix = "none" /\ g.op = "=" /\ g.at = Len(input) + 1 /\ g.left = ret
           /\ IsCall(frames'[Len(frames) + 1], "term", Len(input) + 2, 0)
           /\ IsCall(frames'[Len(frames) + 2], "binary", Len(input) + 2, 0)
           /\ InputGrows(1) /\ input'[Len(input) + 1] = next
           /\ ret' = NoTerm /\ nodes' = nodes /\ status' = "run"
<1>1. /\ status = "run" /\ ret # NoTerm /\ Top.fn = "term" /\ Top.left = NoTerm /\ next = "="
      /\ Consume /\ ret' = NoTerm /\ nodes' = nodes /\ status' = "run"
      /\ frames' = TopBecomes(WithAssigned(Top, ret, Here)) \o TermCalls(Here + 1)
    BY DEF Assign, Returned, WithAssigned
<1>2. /\ frames \in Seq(Frame) /\ frames # <<>> /\ Top \in Frame /\ ret \in Term
      /\ Len(frames) \in Nat \ {0} /\ Len(input) \in Nat
    BY <1>1, RunFacts
<1>3. Top.prefix = "none" /\ Top.op = "none"
    BY <1>1 DEF StackOK, Waiting
<1>4. PICK g : g = WithAssigned(Top, ret, Here)
    OBVIOUS
<1>5. SameCall(Top, g) /\ g.prefix = "none" /\ g.op = "=" /\ g.at = Len(input) + 1 /\ g.left = ret
    <2>1. Here \in Nat /\ Here = Len(input) + 1
        BY <1>2 DEF Here
    <2> QED  BY <1>2, <1>3, <1>4, <2>1, SetAssigned
<1>6. PICK s : s = TopBecomes(g)
    OBVIOUS
<1>7. /\ s \in Seq(Frame) /\ Len(s) = Len(frames) /\ s[Len(frames)] = g
      /\ \A i \in 1 .. Len(frames) - 1 : s[i] = frames[i]
    BY <1>2, <1>5, <1>6, BecomesFacts DEF SameCall
<1>8. Len(input) + 2 \in Nat /\ Here + 1 = Len(input) + 2
    BY <1>2 DEF Here
<1>9. frames' = s \o TermCalls(Len(input) + 2)
    BY <1>1, <1>4, <1>6, <1>8
<1>10. /\ frames' \in Seq(Frame) /\ Len(frames') = Len(frames) + 2
       /\ frames'[Len(frames) + 1] = Call("term", Len(input) + 2, 0)
       /\ frames'[Len(frames) + 2] = Call("binary", Len(input) + 2, 0)
       /\ \A i \in 1 .. Len(frames) : frames'[i] = s[i]
    <2> DEFINE t == TermCalls(Len(input) + 2)
    <2>1. /\ s \o t \in Seq(Frame) /\ Len(s \o t) = Len(s) + 2
          /\ (s \o t)[Len(s) + 1] = Call("term", Len(input) + 2, 0)
          /\ (s \o t)[Len(s) + 2] = Call("binary", Len(input) + 2, 0)
          /\ \A i \in 1 .. Len(s) : (s \o t)[i] = s[i]
        BY <1>7, <1>8, CallsFacts
    <2> HIDE DEF t
    <2> QED  BY <1>7, <1>9, <2>1 DEF t
<1>11. Pushes(g, 2)
    BY <1>2, <1>7, <1>10 DEF Pushes
<1>12. /\ IsCall(Call("term", Len(input) + 2, 0), "term", Len(input) + 2, 0)
       /\ IsCall(Call("binary", Len(input) + 2, 0), "binary", Len(input) + 2, 0)
    BY <1>8, NewCall DEF IsCall
<1> QED  BY <1>1, <1>2, <1>3, <1>5, <1>10, <1>11, <1>12, ConsumeFacts

LEMMA ReturnTermFacts ==
    ASSUME TypeOK, StackOK, ReturnTerm
    PROVE  /\ status = "run" /\ ret \in Term /\ Top.fn = "term" /\ Top.prefix = "none"
           /\ \/ Top.left = NoTerm /\ Top.op = "none" /\ ret' = ret
              \/ Top.left \in Term /\ Top.op = "=" /\ ret' = Joined(Top.left, ret)
           /\ Pops /\ nodes' = nodes /\ input' = input /\ next' = next
           /\ \/ Len(frames) = 1 /\ status' = "done"
              \/ Len(frames) > 1 /\ status' = "run"
<1>1. /\ status = "run" /\ ret # NoTerm /\ Top.fn = "term"
      /\ ret' = IF Top.left = NoTerm THEN ret ELSE Joined(Top.left, ret)
      /\ frames' = Below /\ nodes' = nodes /\ input' = input /\ next' = next
      /\ status' = IF Len(frames) = 1 THEN "done" ELSE "run"
    BY DEF ReturnTerm, EndCall, Returned
<1>2. /\ frames \in Seq(Frame) /\ frames # <<>> /\ ret \in Term
      /\ Top.left \in Term \cup {NoTerm} /\ Len(frames) \in Nat \ {0}
    BY <1>1, RunFacts
<1>3. /\ Top.prefix = "none" /\ Top.op \in {"none", "="}
      /\ Top.left = NoTerm <=> Top.op = "none"
    BY <1>1 DEF StackOK, Waiting
<1>4. Pops
    <2>1. /\ Below \in Seq(Frame) /\ Len(Below) = Len(frames) - 1
          /\ \A i \in 1 .. Len(frames) - 1 : Below[i] = frames[i]
        BY <1>2, BelowFacts
    <2>2. frames' = Below
        BY <1>1
    <2> QED  BY <2>1, <2>2 DEF Pops
<1>5. \/ Top.left = NoTerm /\ Top.op = "none" /\ ret' = ret
      \/ Top.left \in Term /\ Top.op = "=" /\ ret' = Joined(Top.left, ret)
    BY <1>1, <1>2, <1>3
<1>6. \/ Len(frames) = 1 /\ status' = "done"
      \/ Len(frames) > 1 /\ status' = "run"
    <2>1. Len(frames) \in Nat \ {0}
        BY <1>2
    <2>2. Len(frames) = 1 \/ Len(frames) > 1
        BY <2>1, OneOrMore
    <2>3. status' = IF Len(frames) = 1 THEN "done" ELSE "run"
        BY <1>1
    <2> QED  BY <2>1, <2>2, <2>3
<1> QED  BY <1>1, <1>2, <1>3, <1>4, <1>5, <1>6

\* The three failures change nothing but the status.
LEMMA FailFacts ==
    ASSUME PrefixFails \/ TypeFails \/ AssignFails
    PROVE  status' = "fatal" /\ UNCHANGED <<input, next, frames, ret, nodes>>
    BY DEF PrefixFails, TypeFails, AssignFails, Fatal

-----------------------------------------------------------------------------
(* The stack, step by step. *)

\* A step that leaves the calls as they are, but for the one on top.
Reads(g) ==
    /\ status = "run" /\ Top.fn = "binary"
    /\ Becomes(g) /\ SameCall(Top, g) /\ g.op = "none"
    /\ g.left # NoTerm => g.prefix = "none"
    /\ ret' = NoTerm /\ status' = "run"

LEMMA StackReads ==
    ASSUME TypeOK, StackOK, NEW g, Reads(g)
    PROVE  StackOK'
<1> DEFINE n == Len(frames)
<1>1. n \in Nat \ {0} /\ Top = frames[n] /\ frames # <<>>
    BY RunFacts DEF Reads
<1>2. /\ frames' \in Seq(Frame) /\ Len(frames') = n /\ frames'[n] = g
      /\ \A i \in 1 .. n - 1 : frames'[i] = frames[i]
    BY DEF Reads, Becomes
<1>3. g.fn = Top.fn /\ g.call = Top.call /\ g.min = Top.min
    BY DEF Reads, SameCall
<1> HIDE DEF n
<1>4. ASSUME NEW i \in 1 .. Len(frames') - 1
      PROVE  Waiting(frames'[i]) /\ Called(frames'[i], frames'[i + 1])
    <2>1. i \in 1 .. n - 1 /\ i + 1 \in 1 .. n /\ frames'[i] = frames[i]
        BY <1>1, <1>2, <1>4
    <2>2. Waiting(frames[i]) /\ Called(frames[i], frames[i + 1])
        BY <2>1 DEF StackOK, n
    <2>3. CASE i + 1 = n
        <3>1. Called(frames[i], g)
            BY <1>1, <1>3, <2>2, <2>3 DEF Called
        <3> QED  BY <1>2, <2>1, <2>2, <2>3, <3>1
    <2>4. CASE i + 1 # n
        <3>1. i + 1 \in 1 .. n - 1
            BY <1>1, <2>1, <2>4
        <3> QED  BY <1>2, <2>1, <2>2, <3>1
    <2> QED  BY <2>3, <2>4
<1>5. Top' = g /\ Reading(g) /\ ret' = NoTerm
    BY <1>2, <1>3 DEF Top, Reads, Reading
<1>6. frames'[1].fn = "term" /\ frames'[1].call = 1
    <2>1. frames[1].fn = "term" /\ frames[1].call = 1
        BY <1>1 DEF StackOK
    <2>2. CASE n = 1
        BY <1>1, <1>2, <1>3, <2>1, <2>2
    <2>3. CASE n # 1
        <3>1. 1 \in 1 .. n - 1
            BY <1>1, <2>3
        <3> QED  BY <1>2, <2>1, <3>1
    <2> QED  BY <2>2, <2>3
<1> QED  BY <1>4, <1>5, <1>6 DEF StackOK

\* The call of parseBinary for the right operand.
LEMMA StackPushesOne ==
    ASSUME TypeOK, StackOK, status = "run", NEW g, NEW h,
           Pushes(g, 1), SameCall(Top, g), frames'[Len(frames) + 1] = h,
           Waiting(g), Called(g, h), Reading(h), ret' = NoTerm
    PROVE  StackOK'
<1> DEFINE n == Len(frames)
<1>1. n \in Nat \ {0} /\ Top = frames[n] /\ frames # <<>>
    BY RunFacts
<1>2. /\ frames' \in Seq(Frame) /\ Len(frames') = n + 1 /\ frames'[n] = g /\ frames'[n + 1] = h
      /\ \A i \in 1 .. n - 1 : frames'[i] = frames[i]
    BY DEF Pushes
<1>3. g.fn = Top.fn /\ g.call = Top.call /\ g.min = Top.min
    BY DEF SameCall
<1> HIDE DEF n
<1>4. ASSUME NEW i \in 1 .. Len(frames') - 1
      PROVE  Waiting(frames'[i]) /\ Called(frames'[i], frames'[i + 1])
    <2>0. i \in 1 .. n
        BY <1>1, <1>2, <1>4
    <2>1. CASE i = n
        BY <1>2, <2>1
    <2>2. CASE i < n
        <3>1. i \in 1 .. n - 1 /\ i + 1 \in 1 .. n /\ frames'[i] = frames[i]
            BY <1>1, <1>2, <2>0, <2>2
        <3>2. Waiting(frames[i]) /\ Called(frames[i], frames[i + 1])
            BY <3>1 DEF StackOK, n
        <3>3. CASE i + 1 = n
            <4>1. Called(frames[i], g)
                BY <1>1, <1>3, <3>2, <3>3 DEF Called
            <4> QED  BY <1>2, <3>1, <3>2, <3>3, <4>1
        <3>4. CASE i + 1 # n
            <4>1. i + 1 \in 1 .. n - 1
                BY <1>1, <3>1, <3>4
            <4> QED  BY <1>2, <3>1, <3>2, <4>1
        <3> QED  BY <3>3, <3>4
    <2> QED  BY <1>1, <2>0, <2>1, <2>2
<1>5. Top' = h /\ Reading(h) /\ ret' = NoTerm
    BY <1>2 DEF Top
<1>6. frames'[1].fn = "term" /\ frames'[1].call = 1
    <2>1. frames[1].fn = "term" /\ frames[1].call = 1
        BY <1>1 DEF StackOK
    <2>2. CASE n = 1
        BY <1>1, <1>2, <1>3, <2>1, <2>2
    <2>3. CASE n # 1
        <3>1. 1 \in 1 .. n - 1
            BY <1>1, <2>3
        <3> QED  BY <1>2, <2>1, <3>1
    <2> QED  BY <2>2, <2>3
<1> QED  BY <1>4, <1>5, <1>6 DEF StackOK

\* parseTerm, and the call of parseBinary it starts with.
LEMMA StackPushesTwo ==
    ASSUME TypeOK, StackOK, status = "run", NEW g, NEW call \in Nat,
           Pushes(g, 2), SameCall(Top, g), Waiting(g), g.op \notin BinaryOp,
           g.fn = "term" => g.op # "none", call > g.call,
           IsCall(frames'[Len(frames) + 1], "term", call, 0),
           IsCall(frames'[Len(frames) + 2], "binary", call, 0), ret' = NoTerm
    PROVE  StackOK'
<1> DEFINE n == Len(frames)
<1>1. n \in Nat \ {0} /\ Top = frames[n] /\ frames # <<>>
    BY RunFacts
<1>2. /\ frames' \in Seq(Frame) /\ Len(frames') = n + 2 /\ frames'[n] = g
      /\ \A i \in 1 .. n - 1 : frames'[i] = frames[i]
    BY DEF Pushes
<1>3. g.fn = Top.fn /\ g.call = Top.call /\ g.min = Top.min
    BY DEF SameCall
<1>a. /\ Called(g, frames'[n + 1]) /\ Waiting(frames'[n + 1])
      /\ Called(frames'[n + 1], frames'[n + 2]) /\ Reading(frames'[n + 2])
    BY TokensApart DEF IsCall, Called, Waiting, Reading
<1> HIDE DEF n
<1>4. ASSUME NEW i \in 1 .. Len(frames') - 1
      PROVE  Waiting(frames'[i]) /\ Called(frames'[i], frames'[i + 1])
    <2>0. i \in 1 .. n + 1
        BY <1>1, <1>2, <1>4
    <2>1. CASE i = n
        BY <1>2, <1>a, <2>1
    <2>5. CASE i = n + 1
        <3>1. i + 1 = n + 2
            BY <1>1, <2>5
        <3> QED  BY <1>2, <1>a, <2>5, <3>1
    <2>2. CASE i < n
        <3>1. i \in 1 .. n - 1 /\ i + 1 \in 1 .. n /\ frames'[i] = frames[i]
            BY <1>1, <1>2, <2>0, <2>2
        <3>2. Waiting(frames[i]) /\ Called(frames[i], frames[i + 1])
            BY <3>1 DEF StackOK, n
        <3>3. CASE i + 1 = n
            <4>1. Called(frames[i], g)
                BY <1>1, <1>3, <3>2, <3>3 DEF Called
            <4> QED  BY <1>2, <3>1, <3>2, <3>3, <4>1
        <3>4. CASE i + 1 # n
            <4>1. i + 1 \in 1 .. n - 1
                BY <1>1, <3>1, <3>4
            <4> QED  BY <1>2, <3>1, <3>2, <4>1
        <3> QED  BY <3>3, <3>4
    <2> QED  BY <1>1, <2>0, <2>1, <2>2, <2>5
<1>5. Top' = frames'[n + 2] /\ Reading(Top') /\ ret' = NoTerm
    BY <1>2, <1>a DEF Top
<1>6. frames'[1].fn = "term" /\ frames'[1].call = 1
    <2>1. frames[1].fn = "term" /\ frames[1].call = 1
        BY <1>1 DEF StackOK
    <2>2. CASE n = 1
        BY <1>1, <1>2, <1>3, <2>1, <2>2
    <2>3. CASE n # 1
        <3>1. 1 \in 1 .. n - 1
            BY <1>1, <2>3
        <3> QED  BY <1>2, <2>1, <3>1
    <2> QED  BY <2>2, <2>3
<1> QED  BY <1>4, <1>5, <1>6 DEF StackOK

LEMMA StackPops ==
    ASSUME TypeOK, StackOK, status = "run", Pops, ret' # NoTerm,
           status' = "run" => Len(frames) > 1
    PROVE  StackOK'
<1> DEFINE n == Len(frames)
<1>1. n \in Nat \ {0} /\ Top = frames[n] /\ frames # <<>>
    BY RunFacts
<1>2. /\ frames' \in Seq(Frame) /\ Len(frames') = n - 1
      /\ \A i \in 1 .. n - 1 : frames'[i] = frames[i]
    BY DEF Pops
<1> HIDE DEF n
<1>3. ASSUME NEW i \in 1 .. Len(frames') - 1
      PROVE  Waiting(frames'[i]) /\ Called(frames'[i], frames'[i + 1])
    <2>1. i \in 1 .. n - 1 /\ i + 1 \in 1 .. n - 1
        BY <1>1, <1>2, <1>3
    <2>2. Waiting(frames[i]) /\ Called(frames[i], frames[i + 1])
        BY <2>1 DEF StackOK, n
    <2> QED  BY <1>2, <2>1, <2>2
<1>4. status' = "run" => Waiting(Top')
    <2> SUFFICES ASSUME status' = "run"  PROVE Waiting(Top')
        OBVIOUS
    <2>1. n - 1 \in 1 .. n - 1
        BY <1>1 DEF n
    <2>2. Waiting(frames[n - 1])
        BY <2>1 DEF StackOK, n
    <2> QED  BY <1>2, <2>1, <2>2 DEF Top
<1>5. frames' # <<>> => frames'[1].fn = "term" /\ frames'[1].call = 1
    <2> SUFFICES ASSUME frames' # <<>>  PROVE frames'[1].fn = "term" /\ frames'[1].call = 1
        OBVIOUS
    <2>1. 1 \in 1 .. n - 1
        BY <1>1, <1>2
    <2> QED  BY <1>1, <1>2, <2>1 DEF StackOK
<1> QED  BY <1>3, <1>4, <1>5 DEF StackOK

-----------------------------------------------------------------------------
(* The places, step by step. *)

LEMMA PlaceGrows ==
    ASSUME NEW f \in Frame, NEW a \in Nat, NEW b \in Nat, a <= b, PlaceOK(f, a)
    PROVE  PlaceOK(f, b)
<1>1. /\ f.call \in Nat /\ f.at \in Nat
      /\ f.left # NoTerm => f.left.to \in Nat
    BY FrameFields, TermFacts
<1> QED  BY <1>1 DEF PlaceOK

LEMMA NodeGrows ==
    ASSUME NEW m \in Node, NEW a \in Nat, NEW b \in Nat, a <= b, NodeOK(m, a)
    PROVE  NodeOK(m, b)
    BY DEF NodeOK, Node

LEMMA PlacesReads ==
    ASSUME TypeOK, StackOK, PlacesOK, NEW g, Reads(g),
           NEW len \in Nat, Len(input') = len, Len(input) <= len,
           g.left # NoTerm =>
                /\ g.call <= g.left.from /\ g.left.from <= g.left.to /\ g.left.to <= len
                /\ \A i \in 1 .. Len(frames) - 1 :
                        frames[i].op # "none" => frames[i].at < g.left.from,
           g.left = NoTerm /\ g.prefix # "none" => Len(input) < len /\ nodes' = nodes,
           nodes' \subseteq Node,
           \A m \in nodes' : m \in nodes \/ NodeOK(m, len)
    PROVE  PlacesOK'
<1> DEFINE n == Len(frames)
           L == Len(input)
<1>1. /\ n \in Nat \ {0} /\ Top = frames[n] /\ frames # <<>> /\ L \in Nat
      /\ \A i \in 1 .. n : frames[i] \in Frame
    BY RunFacts DEF Reads
<1>2. /\ frames' \in Seq(Frame) /\ Len(frames') = n /\ frames'[n] = g
      /\ \A i \in 1 .. n - 1 : frames'[i] = frames[i]
    BY DEF Reads, Becomes
<1>3. g \in Frame /\ g.call = Top.call /\ g.min = Top.min /\ g.op = "none" /\ ret' = NoTerm
    BY DEF Reads, SameCall
<1>4. Top' = g
    BY <1>2 DEF Top
<1>5. /\ \A i \in 1 .. n : PlaceOK(frames[i], L)
      /\ \A i, j \in 1 .. n : i < j => Before(frames[i], frames[j])
      /\ \A m \in nodes : NodeOK(m, L)
    BY DEF PlacesOK
<1> HIDE DEF n, L
<1>6. PlaceOK(g, len)
    <2>1. PlaceOK(Top, len)
        BY <1>1, <1>5, PlaceGrows DEF L
    <2> QED  BY <1>3, <2>1 DEF PlaceOK
<1>7. \A i \in 1 .. n : PlaceOK(frames'[i], len)
    <2> TAKE i \in 1 .. n
    <2>1. CASE i = n
        BY <1>2, <1>6, <2>1
    <2>2. CASE i # n
        <3>1. i \in 1 .. n - 1
            BY <1>1, <2>2
        <3> QED  BY <1>1, <1>2, <1>5, <3>1, PlaceGrows DEF L
    <2> QED  BY <2>1, <2>2
<1>8. \A i, j \in 1 .. n : i < j => Before(frames'[i], frames'[j])
    <2> SUFFICES ASSUME NEW i \in 1 .. n, NEW j \in 1 .. n, i < j
                 PROVE  Before(frames'[i], frames'[j])
        OBVIOUS
    <2>1. i \in 1 .. n - 1 /\ frames'[i] = frames[i]
        BY <1>1, <1>2
    <2>2. CASE j = n
        <3>1. Before(frames[i], Top)
            BY <1>1, <1>5, <2>2
        <3> QED  BY <1>2, <1>3, <2>1, <2>2, <3>1 DEF Before, n
    <2>3. CASE j # n
        <3>1. j \in 1 .. n - 1
            BY <1>1, <2>3
        <3> QED  BY <1>2, <1>5, <2>1, <3>1
    <2> QED  BY <2>2, <2>3
<1>9. \A m \in nodes' : NodeOK(m, len)
    BY <1>1, <1>5, NodeGrows DEF TypeOK, L
<1>10. ASSUME g.left = NoTerm, g.prefix # "none"
       PROVE  /\ g.call <= len
              /\ \A i \in 1 .. n : frames'[i].op # "none" => frames'[i].at < len
              /\ \A m \in nodes' : m.at < len
    <2>1. L < len /\ nodes' = nodes
        BY <1>10 DEF L
    <2>2. g.call <= len
        <3>1. PlaceOK(Top, L)
            BY <1>1, <1>5
        <3> QED  BY <1>1, <1>3, <2>1, <3>1 DEF PlaceOK
    <2>3. ASSUME NEW i \in 1 .. n, frames'[i].op # "none"
          PROVE  frames'[i].at < len
        <3>1. i \in 1 .. n - 1
            BY <1>1, <1>2, <1>3, <2>3
        <3>2. PlaceOK(frames[i], L) /\ frames'[i] = frames[i] /\ frames[i] \in Frame
            BY <1>1, <1>2, <1>5, <2>3, <3>1
        <3>3. frames[i].at \in Nat /\ frames[i].at <= L
            BY <2>3, <3>2, FrameFields DEF PlaceOK
        <3> QED  BY <1>1, <2>1, <3>2, <3>3
    <2>4. ASSUME NEW m \in nodes'
          PROVE  m.at < len
        <3>1. m \in Node /\ NodeOK(m, L)
            BY <1>5, <2>1, <2>4
        <3>2. m.at \in Nat /\ m.to \in Nat
            BY <3>1 DEF Node
        <3> QED  BY <1>1, <2>1, <3>1, <3>2 DEF NodeOK
    <2> QED  BY <2>2, <2>3, <2>4
<1> QED  BY <1>2, <1>3, <1>4, <1>7, <1>8, <1>9, <1>10 DEF PlacesOK

LEMMA PlacesPushes ==
    ASSUME TypeOK, StackOK, PlacesOK, status = "run", NEW g, NEW k \in {1, 2},
           Pushes(g, k), SameCall(Top, g),
           NEW len \in Nat, Len(input') = len, Len(input) <= len,
           PlaceOK(g, len), \A i \in 1 .. Len(frames) - 1 : Before(frames[i], g),
           NEW call \in Nat, Top.call <= call, call <= len + 1,
           \A i \in Len(frames) + 1 .. Len(frames) + k :
                /\ frames'[i].call = call /\ frames'[i].min \in 0 .. 6
                /\ frames'[i].left = NoTerm /\ frames'[i].op = "none" /\ frames'[i].prefix = "none",
           ret' = NoTerm, nodes' = nodes
    PROVE  PlacesOK'
<1> DEFINE n == Len(frames)
           L == Len(input)
           new == n + 1 .. n + k
<1>1. /\ n \in Nat \ {0} /\ Top = frames[n] /\ frames # <<>> /\ L \in Nat
      /\ \A i \in 1 .. n : frames[i] \in Frame /\ frames[i].call \in Nat
    BY RunFacts, FrameFields
<1>2. /\ frames' \in Seq(Frame) /\ Len(frames') = n + k /\ frames'[n] = g
      /\ \A i \in 1 .. n - 1 : frames'[i] = frames[i]
    BY DEF Pushes
<1>3. g \in Frame /\ g.call = Top.call /\ g.min = Top.min
    BY DEF SameCall
<1>4. \A i \in new :
            /\ frames'[i].call = call /\ frames'[i].min \in 0 .. 6
            /\ frames'[i].left = NoTerm /\ frames'[i].op = "none" /\ frames'[i].prefix = "none"
    OBVIOUS
<1>5. /\ \A i \in 1 .. n : PlaceOK(frames[i], L)
      /\ \A i, j \in 1 .. n : i < j => Before(frames[i], frames[j])
      /\ \A m \in nodes : NodeOK(m, L)
    BY DEF PlacesOK
<1>6. n + k \in new /\ Top' = frames'[n + k]
    BY <1>1, <1>2 DEF Top
<1>p. \A i \in 1 .. n - 1 : Before(frames[i], g)
    OBVIOUS
<1>c. \A i \in 1 .. n : frames[i].call <= call
    <2> TAKE i \in 1 .. n
    <2>1. CASE i = n
        BY <1>1, <2>1
    <2>2. CASE i # n
        <3>1. Before(frames[i], Top)
            BY <1>1, <1>5, <2>2
        <3>2. frames[i].call <= Top.call /\ frames[i].call \in Nat /\ Top.call \in Nat
            BY <1>1, <3>1 DEF Before
        <3> QED  BY <3>2
    <2> QED  BY <2>1, <2>2
<1>i. /\ \A i \in 1 .. n + k : i \in 1 .. n - 1 \/ i = n \/ i \in new
      /\ n \notin 1 .. n - 1 /\ n \notin new /\ \A i \in 1 .. n - 1 : i \in 1 .. n
    BY <1>1
<1> HIDE DEF n, L, new
<1>7. \A i \in 1 .. n + k : PlaceOK(frames'[i], len)
    <2> TAKE i \in 1 .. n + k
    <2>1. CASE i = n
        BY <1>2, <2>1
    <2>2. CASE i \in 1 .. n - 1
        BY <1>1, <1>2, <1>5, <1>i, <2>2, PlaceGrows DEF L
    <2>3. CASE i \in new
        <3>1. call \in 1 .. len + 1
            <4>1. PlaceOK(Top, L) /\ Top.call \in Nat
                BY <1>1, <1>5
            <4> QED  BY <4>1 DEF PlaceOK
        <3> QED  BY <1>4, <2>3, <3>1 DEF PlaceOK
    <2> QED  BY <1>i, <2>1, <2>2, <2>3
<1>8. \A i, j \in 1 .. n + k : i < j => Before(frames'[i], frames'[j])
    <2> SUFFICES ASSUME NEW i \in 1 .. n + k, NEW j \in 1 .. n + k, i < j
                 PROVE  Before(frames'[i], frames'[j])
        OBVIOUS
    <2>1. CASE j \in new
        <3>1. frames'[i].call <= call
            <4>1. CASE i \in new
                BY <1>4, <4>1
            <4>2. CASE i = n
                BY <1>1, <1>2, <1>3, <1>c, <4>2
            <4>3. CASE i \in 1 .. n - 1
                BY <1>2, <1>c, <1>i, <4>3
            <4> QED  BY <1>i, <4>1, <4>2, <4>3
        <3> QED  BY <1>4, <2>1, <3>1 DEF Before
    <2>2. CASE j = n
        <3>1. i \in 1 .. n - 1
            BY <1>1, <2>2
        <3> QED  BY <1>2, <1>p, <2>2, <3>1
    <2>3. CASE j \in 1 .. n - 1
        <3>1. i \in 1 .. n - 1
            BY <1>1, <2>3
        <3> QED  BY <1>2, <1>5, <1>i, <2>3, <3>1
    <2> QED  BY <1>i, <2>1, <2>2, <2>3
<1>9. \A m \in nodes' : NodeOK(m, len)
    BY <1>1, <1>5, NodeGrows DEF TypeOK, L
<1> QED  BY <1>2, <1>4, <1>6, <1>7, <1>8, <1>9 DEF PlacesOK

\* The call on top returns the term r, which is part of what it has read.
LEMMA PlacesPops ==
    ASSUME TypeOK, StackOK, PlacesOK, status = "run", Pops, ret' # NoTerm, ret' \in Term,
           status' = "run" => Len(frames) > 1,
           Top.call <= ret'.from, ret'.from <= ret'.to, ret'.to <= Len(input),
           \A i \in 1 .. Len(frames) - 1 : frames[i].op # "none" => frames[i].at < ret'.from,
           input' = input, nodes' = nodes
    PROVE  PlacesOK'
<1> DEFINE n == Len(frames)
<1>1. /\ n \in Nat \ {0} /\ Top = frames[n] /\ frames # <<>> /\ Len(input) \in Nat
      /\ \A i \in 1 .. n : frames[i] \in Frame /\ frames[i].call \in Nat
    BY RunFacts, FrameFields
<1>2. /\ frames' \in Seq(Frame) /\ Len(frames') = n - 1
      /\ \A i \in 1 .. n - 1 : frames'[i] = frames[i]
    BY DEF Pops
<1>3. /\ \A i \in 1 .. n : PlaceOK(frames[i], Len(input))
      /\ \A i, j \in 1 .. n : i < j => Before(frames[i], frames[j])
      /\ \A m \in nodes : NodeOK(m, Len(input))
    BY DEF PlacesOK
<1>i. \A i \in 1 .. n - 1 : i \in 1 .. n
    BY <1>1
<1>r. /\ \A i \in 1 .. n - 1 : frames[i].op # "none" => frames[i].at < ret'.from
      /\ status' = "run" => n > 1
    OBVIOUS
<1> HIDE DEF n
<1>4. /\ \A i \in 1 .. Len(frames') : PlaceOK(frames'[i], Len(input'))
      /\ \A i, j \in 1 .. Len(frames') : i < j => Before(frames'[i], frames'[j])
      /\ \A m \in nodes' : NodeOK(m, Len(input'))
    BY <1>2, <1>3, <1>i
<1>5. status' = "run" => Top'.call <= ret'.from
    <2> SUFFICES ASSUME status' = "run"  PROVE Top'.call <= ret'.from
        OBVIOUS
    <2>1. n - 1 \in 1 .. n - 1 /\ n - 1 \in 1 .. n /\ n - 1 < n
        BY <1>1, <1>r
    <2>2. Top' = frames[n - 1]
        BY <1>2, <2>1 DEF Top
    <2>3. Before(frames[n - 1], Top)
        BY <1>1, <1>3, <2>1
    <2>4. frames[n - 1].call \in Nat /\ Top.call \in Nat /\ ret'.from \in Nat
        BY <1>1, <2>1, TermFacts
    <2>5. frames[n - 1].call <= Top.call
        BY <2>3 DEF Before
    <2> QED  BY <2>2, <2>4, <2>5
<1>6. \A i \in 1 .. Len(frames') : frames'[i].op # "none" => frames'[i].at < ret'.from
    BY <1>2, <1>r
<1> QED  BY <1>4, <1>5, <1>6 DEF PlacesOK

-----------------------------------------------------------------------------
(* The nodes, step by step. *)

\* A node that a step adds has the left operand of the call on top as its own.
NodesGrow ==
    /\ nodes' \subseteq Node
    /\ \A m \in nodes' : m \notin nodes =>
            Top.left # NoTerm /\ m.call = Top.call /\ m.from = Top.left.from /\ m.from <= m.at

LEMMA NoOperator == "none" \notin BinaryOp /\ "=" \notin BinaryOp
    BY TokensApart

LEMMA PendingReads ==
    ASSUME TypeOK, StackOK, PlacesOK, PendingOK, NEW g, Reads(g), NodesGrow
    PROVE  PendingOK'
<1> DEFINE n == Len(frames)
<1>1. /\ n \in Nat \ {0} /\ Top = frames[n]
      /\ \A i \in 1 .. n : frames[i] \in Frame
    BY RunFacts DEF Reads
<1>2. /\ Len(frames') = n /\ frames'[n] = g /\ g.op = "none"
      /\ \A i \in 1 .. n - 1 : frames'[i] = frames[i]
    BY DEF Reads, Becomes
<1>3. SUFFICES ASSUME NEW i \in 1 .. n, frames'[i].op \in BinaryOp,
                      NEW m \in nodes', m.call = frames'[i].call
               PROVE  Pending(frames'[i], m)
    BY <1>2 DEF PendingOK
<1>4. i \in 1 .. n - 1 /\ i \in 1 .. n /\ frames'[i] = frames[i] /\ i < n
    BY <1>1, <1>2, <1>3, NoOperator
<1>5. CASE m \in nodes
    BY <1>3, <1>4, <1>5 DEF PendingOK
<1>6. CASE m \notin nodes
    <2>1. Top.left # NoTerm /\ m.from = Top.left.from /\ m.from <= m.at /\ m \in Node
        BY <1>3, <1>6 DEF NodesGrow
    <2>2. Before(frames[i], Top)
        BY <1>1, <1>4 DEF PlacesOK, n
    <2>3. frames[i].at < m.from
        BY <1>3, <1>4, <2>1, <2>2, NoOperator DEF Before
    <2>4. frames[i].at \in Nat /\ m.from \in Nat /\ m.at \in Nat
        BY <1>1, <1>4, <2>1, FrameFields DEF Node
    <2>5. ~(m.at < frames[i].at)
        BY <2>1, <2>3, <2>4
    <2> QED  BY <1>4, <2>3, <2>5 DEF Pending
<1> QED  BY <1>5, <1>6

LEMMA PendingPushes ==
    ASSUME TypeOK, StackOK, PendingOK, status = "run", NEW g, NEW k \in {1, 2}, Pushes(g, k),
           g.op \in BinaryOp => \A m \in nodes : m.call = g.call => Pending(g, m),
           \A i \in Len(frames) + 1 .. Len(frames) + k : frames'[i].op = "none",
           nodes' = nodes
    PROVE  PendingOK'
<1> DEFINE n == Len(frames)
<1>1. n \in Nat \ {0}
    BY RunFacts
<1>2. /\ Len(frames') = n + k /\ frames'[n] = g
      /\ \A i \in 1 .. n - 1 : frames'[i] = frames[i]
    BY DEF Pushes
<1>3. SUFFICES ASSUME NEW i \in 1 .. n + k, frames'[i].op \in BinaryOp,
                      NEW m \in nodes, m.call = frames'[i].call
               PROVE  Pending(frames'[i], m)
    BY <1>2 DEF PendingOK
<1>4. i \notin n + 1 .. n + k
    BY <1>3, NoOperator
<1>5. CASE i = n
    BY <1>2, <1>3, <1>5
<1>6. CASE i # n
    <2>1. i \in 1 .. n - 1 /\ i \in 1 .. n
        BY <1>1, <1>4, <1>6
    <2> QED  BY <1>2, <1>3, <2>1 DEF PendingOK
<1> QED  BY <1>5, <1>6

LEMMA PendingPops ==
    ASSUME TypeOK, StackOK, PendingOK, status = "run", Pops, nodes' = nodes
    PROVE  PendingOK'
<1>1. Len(frames) \in Nat \ {0}
    BY RunFacts
<1>2. \A i \in 1 .. Len(frames) - 1 : i \in 1 .. Len(frames)
    BY <1>1
<1> QED  BY <1>2 DEF PendingOK, Pops

LEMMA BehindReads ==
    ASSUME TypeOK, StackOK, PlacesOK, BehindOK, NEW g, Reads(g), NodesGrow,
           Top.left # NoTerm => g.left # NoTerm /\ g.left.from = Top.left.from
    PROVE  BehindOK'
<1> DEFINE n == Len(frames)
<1>1. /\ n \in Nat \ {0} /\ Top = frames[n] /\ Top.fn = "binary"
      /\ \A i \in 1 .. n : frames[i] \in Frame
    BY RunFacts DEF Reads
<1>2. /\ Len(frames') = n /\ frames'[n] = g
      /\ \A i \in 1 .. n - 1 : frames'[i] = frames[i]
    BY DEF Reads, Becomes
<1>3. g.call = Top.call
    BY DEF Reads, SameCall
<1>p. /\ \A i \in 1 .. n - 1 : Waiting(frames[i]) /\ Called(frames[i], frames[i + 1])
      /\ \A i, j \in 1 .. n : i < j => Before(frames[i], frames[j])
      /\ \A i \in 1 .. n : PlaceOK(frames[i], Len(input))
      /\ \A i \in 1 .. n - 1 : \A m \in nodes :
            m.call = frames[i].call => Behind(frames[i], frames[i + 1], m)
    BY DEF StackOK, PlacesOK, BehindOK
<1>l. Top.left # NoTerm => g.left # NoTerm /\ g.left.from = Top.left.from
    OBVIOUS
<1> HIDE DEF n
<1>4. SUFFICES ASSUME NEW i \in 1 .. n - 1, NEW m \in nodes', m.call = frames[i].call
               PROVE  Behind(frames[i], frames'[i + 1], m)
    BY <1>2 DEF BehindOK
<1>5. i \in 1 .. n /\ i + 1 \in 1 .. n /\ i < n /\ i < i + 1
    BY <1>1
<1>6. CASE m \in nodes
    <2>1. Behind(frames[i], frames[i + 1], m)
        BY <1>4, <1>6, <1>p
    <2>2. CASE i + 1 = n
        BY <1>1, <1>2, <1>3, <1>l, <2>1, <2>2 DEF Behind
    <2>3. CASE i + 1 # n
        <3>1. i + 1 \in 1 .. n - 1
            BY <1>1, <1>5, <2>3
        <3> QED  BY <1>2, <2>1, <3>1
    <2> QED  BY <2>2, <2>3
<1>7. CASE m \notin nodes
    <2>1. /\ Top.left # NoTerm /\ m.call = Top.call /\ m.from = Top.left.from
          /\ m.from <= m.at /\ m \in Node
        BY <1>4, <1>7 DEF NodesGrow
    <2>2. Waiting(frames[i]) /\ Called(frames[i], frames[i + 1])
        BY <1>p
    <2>3. frames[i].call = Top.call
        BY <1>4, <2>1
    <2>4. CASE i + 1 = n
        <3>1. frames[i].prefix # "+"
            BY <1>1, <2>2, <2>4, NoOperator DEF Waiting, Called
        <3>2. frames'[i + 1].left # NoTerm /\ frames'[i + 1].left.from <= m.at
            BY <1>2, <1>l, <2>1, <2>4
        <3> QED  BY <3>1, <3>2 DEF Behind
    <2>5. CASE i + 1 # n
        <3>1. i + 1 \in 1 .. n - 1 /\ i + 1 < n /\ frames'[i + 1] = frames[i + 1]
            BY <1>1, <1>2, <1>5, <2>5
        <3>2. /\ frames[i + 1].call <= Top.call
              /\ frames[i].call \in Nat /\ frames[i + 1].call \in Nat /\ Top.call \in Nat
            <4>1. Before(frames[i + 1], Top) /\ frames[i] \in Frame /\ frames[i + 1] \in Frame
                BY <1>1, <1>5, <1>p, <3>1
            <4> QED  BY <1>1, <4>1, FrameFields DEF Before
        <3>3. frames[i].prefix # "+"
            BY <2>2, <2>3, <3>2, NoOperator DEF Waiting, Called
        <3>4. ASSUME frames[i].op \in BinaryOp
              PROVE  frames[i + 1].left # NoTerm /\ frames[i + 1].left.from <= m.at
            <4>1. frames[i + 1].fn = "binary"
                BY <2>2, <3>4 DEF Called
            <4>2. Waiting(frames[i + 1]) /\ Called(frames[i + 1], frames[i + 2])
                <5>1. i + 1 + 1 = i + 2
                    BY <1>5
                <5> QED  BY <1>p, <3>1, <5>1
            <4>3. frames[i + 1].prefix # "+"
                <5> SUFFICES ASSUME frames[i + 1].prefix = "+"  PROVE FALSE
                    OBVIOUS
                <5>1. frames[i + 2].call > frames[i + 1].call
                    BY <4>1, <4>2, NoOperator DEF Waiting, Called
                <5>2. i + 2 \in 1 .. n /\ frames[i + 2] \in Frame
                    BY <1>1, <1>5, <3>1
                <5>3. frames[i + 2].call \in Nat
                    BY <5>2, FrameFields
                <5>4. frames[i + 2].call <= Top.call
                    <6>1. CASE i + 2 = n
                        BY <1>1, <5>3, <6>1
                    <6>2. CASE i + 2 # n
                        <7>1. i + 2 < n
                            BY <1>1, <5>2, <6>2
                        <7>2. Before(frames[i + 2], Top)
                            BY <1>1, <1>p, <5>2, <7>1
                        <7> QED  BY <7>2 DEF Before
                    <6> QED  BY <6>1, <6>2
                <5>5. frames[i].call <= frames[i + 1].call
                    BY <1>5, <1>p DEF Before
                <5> QED  BY <2>3, <3>2, <5>1, <5>3, <5>4, <5>5
            <4>4. /\ frames[i + 1].left # NoTerm /\ frames[i + 1].op \in BinaryOp
                  /\ frames[i + 1].op # "none"
                BY <4>1, <4>2, <4>3, NoOperator DEF Waiting
            <4>5. /\ frames[i + 1].left.from < frames[i + 1].at
                  /\ frames[i + 1].at < Top.left.from
                <5>1. Before(frames[i + 1], Top) /\ PlaceOK(frames[i + 1], Len(input))
                    BY <1>1, <1>5, <1>p, <3>1
                <5> QED  BY <2>1, <4>4, <5>1 DEF Before, PlaceOK
            <4>6. /\ frames[i + 1].left.from \in Nat /\ frames[i + 1].at \in Nat
                  /\ m.at \in Nat /\ m.from \in Nat
                <5>1. frames[i + 1] \in Frame
                    BY <1>1, <1>5
                <5> QED  BY <2>1, <4>4, <5>1, FrameFields, TermFacts DEF Node
            <4> QED  BY <2>1, <4>4, <4>5, <4>6
        <3> QED  BY <3>1, <3>3, <3>4 DEF Behind
    <2> QED  BY <2>4, <2>5
<1> QED  BY <1>6, <1>7

LEMMA BehindPushes ==
    ASSUME TypeOK, StackOK, BehindOK, status = "run", NEW g, NEW k \in {1, 2}, Pushes(g, k),
           \A m \in nodes : m.call = g.call => Behind(g, frames'[Len(frames) + 1], m),
           Len(frames) > 1 => \A m \in nodes :
                /\ Behind(frames[Len(frames) - 1], Top, m)
                /\ m.call = frames[Len(frames) - 1].call
                => Behind(frames[Len(frames) - 1], g, m),
           \A i \in Len(frames) + 1 .. Len(frames) + k :
                frames'[i].op = "none" /\ frames'[i].prefix = "none",
           nodes' = nodes
    PROVE  BehindOK'
<1> DEFINE n == Len(frames)
<1>1. n \in Nat \ {0} /\ Top = frames[n]
    BY RunFacts
<1>2. /\ Len(frames') = n + k /\ frames'[n] = g
      /\ \A i \in 1 .. n - 1 : frames'[i] = frames[i]
    BY DEF Pushes
<1>3. SUFFICES ASSUME NEW i \in 1 .. n + k - 1, NEW m \in nodes, m.call = frames'[i].call
               PROVE  Behind(frames'[i], frames'[i + 1], m)
    BY <1>2 DEF BehindOK
<1>4. CASE i = n
    BY <1>2, <1>3, <1>4
<1>5. CASE i > n
    <2>1. i \in n + 1 .. n + k
        BY <1>1, <1>5
    <2> QED  BY <2>1, NoOperator DEF Behind
<1>6. CASE i < n
    <2>1. i \in 1 .. n - 1 /\ frames'[i] = frames[i]
        BY <1>1, <1>2, <1>6
    <2>2. Behind(frames[i], frames[i + 1], m)
        BY <1>3, <2>1 DEF BehindOK, n
    <2>3. CASE i + 1 = n
        <3>1. n - 1 = i /\ n > 1
            BY <1>1, <2>1, <2>3
        <3>2. Behind(frames[i], Top, m) /\ m.call = frames[i].call
            BY <1>1, <1>3, <2>1, <2>2, <2>3
        <3>3. Behind(frames[i], g, m)
            BY <1>3, <3>1, <3>2
        <3> QED  BY <1>2, <2>1, <2>3, <3>3
    <2>4. CASE i + 1 # n
        <3>1. i + 1 \in 1 .. n - 1
            BY <1>1, <2>1, <2>4
        <3> QED  BY <1>2, <2>1, <2>2, <3>1
    <2> QED  BY <2>3, <2>4
<1> QED  BY <1>1, <1>4, <1>5, <1>6

LEMMA BehindPops ==
    ASSUME TypeOK, StackOK, BehindOK, status = "run", Pops, nodes' = nodes
    PROVE  BehindOK'
<1> DEFINE n == Len(frames)
<1>1. n \in Nat \ {0}
    BY RunFacts
<1>2. Len(frames') = n - 1 /\ \A i \in 1 .. n - 1 : frames'[i] = frames[i]
    BY DEF Pops
<1>3. \A i \in 1 .. n - 1 - 1 : i \in 1 .. n - 1 /\ i + 1 \in 1 .. n - 1
    BY <1>1
<1> QED  BY <1>2, <1>3 DEF BehindOK

-----------------------------------------------------------------------------
(* The actions. *)

LEMMA TypeStep ==
    ASSUME input' \in Seq(Token \cup {"type"}), next' \in Token, frames' \in Seq(Frame),
           ret' \in Term \cup {NoTerm}, nodes' \subseteq Node,
           \/ status' = "run" /\ frames' # <<>>
           \/ status' \in {"done", "fatal"}
    PROVE  TypeOK'
    BY DEF TypeOK

LEMMA SameTree == ASSUME GrammarTree, nodes' = nodes  PROVE GrammarTree'
    BY DEF GrammarTree

LEMMA SameNodes == ASSUME TypeOK, nodes' = nodes  PROVE NodesGrow
<1>1. nodes \subseteq Node
    BY DEF TypeOK
<1> QED  BY <1>1 DEF NodesGrow

\* In parseBinary, before its operand is read and in its loop.
LEMMA ReadingTop ==
    ASSUME StackOK, status = "run", ret = NoTerm
    PROVE  Top.fn = "binary" /\ Top.op = "none" /\ (Top.left # NoTerm => Top.prefix = "none")
    BY DEF StackOK, Reading

LEMMA BecomesNotEmpty ==
    ASSUME NEW g, Becomes(g), frames \in Seq(Frame), frames # <<>>
    PROVE  frames' \in Seq(Frame) /\ frames' # <<>> /\ Top' = g
<1>1. Len(frames) \in Nat \ {0}
    BY TopFacts
<1>2. /\ frames' \in Seq(Frame) /\ Len(frames') = Len(frames)
      /\ frames'[Len(frames)] = g
    BY DEF Becomes
<1> QED  BY <1>1, <1>2 DEF Top

LEMMA ShiftPrefixStep ==
    ASSUME TypeOK, TreeInv, ShiftPrefix
    PROVE  TypeOK' /\ TreeInv'
<1>1. StackOK /\ PlacesOK /\ PendingOK /\ BehindOK /\ GrammarTree
    BY DEF TreeInv
<1>2. PICK g : /\ Becomes(g) /\ SameCall(Top, g)
               /\ g.prefix = next /\ g.left = NoTerm /\ g.op = Top.op
    BY <1>1, ShiftPrefixFacts
<1>3. /\ status = "run" /\ ret = NoTerm /\ Top.fn = "binary" /\ Top.left = NoTerm
      /\ InputGrows(1) /\ ret' = NoTerm /\ nodes' = nodes /\ status' = "run"
    BY <1>1, ShiftPrefixFacts
<1>4. Reads(g) /\ NodesGrow
    BY <1>1, <1>2, <1>3, ReadingTop, SameNodes DEF Reads
<1>5. frames \in Seq(Frame) /\ frames # <<>> /\ Len(input) \in Nat
    BY <1>1, <1>3, RunFacts
<1>6. TypeOK'
    <2>1. frames' \in Seq(Frame) /\ frames' # <<>>
        BY <1>2, <1>5, BecomesNotEmpty
    <2> QED  BY <1>3, <2>1, TypeStep DEF InputGrows, TypeOK
<1>7. StackOK'
    BY <1>1, <1>4, StackReads
<1>8. PlacesOK'
    <2>1. /\ Len(input) + 1 \in Nat /\ Len(input') = Len(input) + 1
          /\ Len(input) <= Len(input) + 1 /\ Len(input) < Len(input) + 1
        BY <1>3, <1>5 DEF InputGrows
    <2>2. nodes' \subseteq Node /\ \A m \in nodes' : m \in nodes \/ NodeOK(m, Len(input) + 1)
        BY <1>3 DEF TypeOK
    <2> QED  BY <1>1, <1>2, <1>3, <1>4, <2>1, <2>2, PlacesReads
<1>9. PendingOK' /\ BehindOK'
    BY <1>1, <1>3, <1>4, PendingReads, BehindReads
<1>10. TopOK'
    <2>1. Top' = g
        BY <1>2, <1>5, BecomesNotEmpty
    <2> QED  BY <1>2, <1>3, <2>1 DEF TopOK
<1>11. GrammarTree'
    BY <1>1, <1>3, SameTree
<1> QED  BY <1>6, <1>7, <1>8, <1>9, <1>10, <1>11 DEF TreeInv

LEMMA ShiftOperandStep ==
    ASSUME TypeOK, TreeInv, ShiftOperand
    PROVE  TypeOK' /\ TreeInv'
<1>1. StackOK /\ PlacesOK /\ PendingOK /\ BehindOK /\ GrammarTree
    BY DEF TreeInv
<1>2. PICK g : /\ Becomes(g) /\ SameCall(Top, g)
               /\ g.prefix = "none" /\ g.op = Top.op
               /\ g.left \in Term /\ g.left.to = Len(input) + 1
               /\ g.left.from = IF Top.prefix = "none" THEN Len(input) + 1 ELSE Len(input)
    BY <1>1, ShiftOperandFacts
<1>3. /\ status = "run" /\ ret = NoTerm /\ Top.fn = "binary" /\ Top.left = NoTerm
      /\ InputGrows(1) /\ ret' = NoTerm /\ nodes' = nodes /\ status' = "run"
    BY <1>1, ShiftOperandFacts
<1>4. Reads(g) /\ NodesGrow
    BY <1>1, <1>2, <1>3, ReadingTop, SameNodes DEF Reads
<1>5. /\ frames \in Seq(Frame) /\ frames # <<>> /\ Len(input) \in Nat
      /\ Len(frames) \in Nat \ {0} /\ Top = frames[Len(frames)]
      /\ \A i \in 1 .. Len(frames) : frames[i] \in Frame
    BY <1>1, <1>3, RunFacts
<1>6. TypeOK'
    <2>1. frames' \in Seq(Frame) /\ frames' # <<>>
        BY <1>2, <1>5, BecomesNotEmpty
    <2> QED  BY <1>3, <2>1, TypeStep DEF InputGrows, TypeOK
<1>7. StackOK'
    BY <1>1, <1>4, StackReads
<1> DEFINE L == Len(input)
<1>8. g.call <= g.left.from /\ g.left.from <= g.left.to /\ g.left.to <= L + 1
    <2>1. g.call \in Nat /\ g.call = Top.call /\ g.call <= L + 1
        <3>1. PlaceOK(Top, L) /\ Top \in Frame
            BY <1>1, <1>5 DEF PlacesOK
        <3> QED  BY <1>2, <1>5, <3>1, FrameFields DEF PlaceOK, SameCall
    <2>2. Top.prefix # "none" => g.call <= L
        BY <1>1, <1>3, <2>1 DEF PlacesOK
    <2> QED  BY <1>2, <1>5, <2>1, <2>2
<1>9. ASSUME NEW i \in 1 .. Len(frames) - 1, frames[i].op # "none"
      PROVE  frames[i].at < g.left.from
    <2>1. i \in 1 .. Len(frames)
        BY <1>5
    <2>2. PlaceOK(frames[i], L) /\ frames[i].at \in Nat
        BY <1>1, <1>5, <2>1, FrameFields DEF PlacesOK
    <2>3. frames[i].at <= L
        BY <1>9, <2>2 DEF PlaceOK
    <2>4. Top.prefix # "none" => frames[i].at < L
        BY <1>1, <1>3, <1>9, <2>1 DEF PlacesOK
    <2> QED  BY <1>2, <1>5, <2>2, <2>3, <2>4
<1>10. PlacesOK'
    <2>1. /\ L + 1 \in Nat /\ Len(input') = L + 1
          /\ Len(input) <= L + 1 /\ Len(input) < L + 1
        BY <1>3, <1>5 DEF InputGrows
    <2>2. nodes' \subseteq Node /\ \A m \in nodes' : m \in nodes \/ NodeOK(m, L + 1)
        BY <1>3 DEF TypeOK
    <2>3. g.left # NoTerm
        BY <1>2, TermFacts
    <2>4. \A i \in 1 .. Len(frames) - 1 : frames[i].op # "none" => frames[i].at < g.left.from
        BY <1>9
    <2> QED  BY <1>1, <1>4, <1>8, <2>1, <2>2, <2>3, <2>4, PlacesReads
<1>11. PendingOK' /\ BehindOK'
    BY <1>1, <1>3, <1>4, PendingReads, BehindReads
<1>12. TopOK'
    <2>1. Top' = g
        BY <1>2, <1>5, BecomesNotEmpty
    <2>2. ASSUME NEW m \in nodes
          PROVE  ~(g.left.from <= m.at)
        <3>1. m \in Node /\ NodeOK(m, L)
            BY <1>1 DEF PlacesOK, TypeOK
        <3>2. m.at \in Nat /\ m.to \in Nat
            BY <3>1 DEF Node
        <3>3. m.at <= L
            BY <1>5, <3>1, <3>2 DEF NodeOK
        <3>4. Top.prefix # "none" => m.at < L
            BY <1>1, <1>3 DEF PlacesOK
        <3> QED  BY <1>2, <1>5, <3>2, <3>3, <3>4
    <2> QED  BY <1>3, <2>1, <2>2 DEF TopOK, Looping
<1>13. GrammarTree'
    BY <1>1, <1>3, SameTree
<1> QED  BY <1>6, <1>7, <1>10, <1>11, <1>12, <1>13 DEF TreeInv

LEMMA TakePlusStep ==
    ASSUME TypeOK, TreeInv, TakePlus
    PROVE  TypeOK' /\ TreeInv'
<1>1. StackOK /\ PlacesOK /\ PendingOK /\ BehindOK /\ GrammarTree
    BY DEF TreeInv
<1>2. PICK g : /\ Becomes(g) /\ SameCall(Top, g)
               /\ g.prefix = "none" /\ g.op = "none" /\ g.left = ret
    BY <1>1, TakePlusFacts
<1>3. /\ status = "run" /\ ret \in Term /\ ret # NoTerm /\ Top.fn = "binary"
      /\ Top.left = NoTerm /\ Top.prefix = "+"
      /\ input' = input /\ next' = next /\ ret' = NoTerm /\ nodes' = nodes /\ status' = "run"
    BY <1>1, TakePlusFacts, TermFacts
<1>4. Reads(g) /\ NodesGrow
    BY <1>2, <1>3, SameNodes DEF Reads
<1>5. /\ frames \in Seq(Frame) /\ frames # <<>> /\ Len(input) \in Nat
      /\ Len(frames) \in Nat \ {0}
    BY <1>1, <1>3, RunFacts
<1>6. TypeOK'
    <2>1. frames' \in Seq(Frame) /\ frames' # <<>>
        BY <1>2, <1>5, BecomesNotEmpty
    <2> QED  BY <1>3, <2>1, TypeStep DEF TypeOK
<1>7. StackOK'
    BY <1>1, <1>4, StackReads
<1>8. /\ g.call <= g.left.from /\ g.left.from <= g.left.to /\ g.left.to <= Len(input)
      /\ \A i \in 1 .. Len(frames) - 1 : frames[i].op # "none" => frames[i].at < g.left.from
    <2>1. /\ ret.from <= ret.to /\ ret.to <= Len(input) /\ Top.call <= ret.from
          /\ \A i \in 1 .. Len(frames) : frames[i].op # "none" => frames[i].at < ret.from
        BY <1>1, <1>3 DEF PlacesOK
    <2>2. \A i \in 1 .. Len(frames) - 1 : i \in 1 .. Len(frames)
        BY <1>5
    <2> QED  BY <1>2, <2>1, <2>2 DEF SameCall
<1>9. PlacesOK'
    <2>1. Len(input') = Len(input) /\ Len(input) <= Len(input)
        BY <1>3, <1>5
    <2>2. nodes' \subseteq Node /\ \A m \in nodes' : m \in nodes \/ NodeOK(m, Len(input))
        BY <1>3 DEF TypeOK
    <2>3. g.left # NoTerm
        BY <1>2, <1>3
    <2> QED  BY <1>1, <1>4, <1>5, <1>8, <2>1, <2>2, <2>3, PlacesReads
<1>10. PendingOK' /\ BehindOK'
    BY <1>1, <1>3, <1>4, PendingReads, BehindReads
<1>11. TopOK'
    <2>1. Top' = g /\ g.call = Top.call
        BY <1>2, <1>5, BecomesNotEmpty DEF SameCall
    <2>2. TopOK
        BY <1>3 DEF TreeInv
    <2>3. ASSUME NEW m \in nodes, m.call = Top.call
          PROVE  ~(ret.from <= m.at)
        <3>1. m.at < ret.from
            BY <1>3, <2>2, <2>3 DEF TopOK, Taking
        <3>2. m.at \in Nat /\ ret.from \in Nat
            BY <1>3, TermFacts DEF TypeOK, Node
        <3> QED  BY <3>1, <3>2
    <2> QED  BY <1>2, <1>3, <2>1, <2>3 DEF TopOK, Looping
<1>12. GrammarTree'
    BY <1>1, <1>3, SameTree
<1> QED  BY <1>6, <1>7, <1>9, <1>10, <1>11, <1>12 DEF TreeInv

LEMMA LevelFacts ==
    /\ \A o \in BinaryOp : Level(o) \in 1 .. 5
    /\ \A o \in TypeOp : Level(o) = 6
    /\ \A o \in Operator : Level(o) \in 1 .. 6
    BY Levels DEF Operator

LEMMA ShiftTypeStep ==
    ASSUME TypeOK, TreeInv, ShiftType
    PROVE  TypeOK' /\ TreeInv'
<1> DEFINE L == Len(input)
<1>1. StackOK /\ PlacesOK /\ PendingOK /\ BehindOK /\ GrammarTree
    BY DEF TreeInv
<1>2. PICK g : /\ Becomes(g) /\ SameCall(Top, g)
               /\ g.prefix = "none" /\ g.op = "none"
               /\ g.left \in Term /\ g.left.from = Top.left.from
               /\ g.left.to = L + 2
    BY <1>1, ShiftTypeFacts
<1>3. PICK n \in Node : /\ nodes' = nodes \cup {n}
                        /\ n.op = next /\ n.at = L + 1 /\ n.call = Top.call
                        /\ n.from = Top.left.from /\ n.to = L + 2
    BY <1>1, ShiftTypeFacts
<1>4. /\ status = "run" /\ ret = NoTerm /\ Top.fn = "binary" /\ Top.left \in Term
      /\ next \in TypeOp /\ InputGrows(2) /\ ret' = NoTerm /\ status' = "run"
    BY <1>1, ShiftTypeFacts
<1>5. /\ frames \in Seq(Frame) /\ frames # <<>> /\ L \in Nat
      /\ Len(frames) \in Nat \ {0} /\ Top = frames[Len(frames)] /\ Top \in Frame
    BY <1>1, <1>4, RunFacts
<1>6. /\ Top.left # NoTerm /\ g.left # NoTerm /\ Top.left.from \in Nat /\ Top.left.to \in Nat
      /\ Top.call \in Nat /\ Top.min \in Nat
    BY <1>2, <1>4, <1>5, TermFacts, FrameFields
<1>7. PlaceOK(Top, L) /\ \A i \in 1 .. Len(frames) - 1 : Before(frames[i], Top)
    BY <1>1, <1>5 DEF PlacesOK
<1>8. Top.call <= Top.left.from /\ Top.left.from <= L /\ Top.min \in 0 .. 6
    <2>1. Top.call <= Top.left.from /\ Top.left.from <= Top.left.to /\ Top.left.to <= L
        BY <1>6, <1>7 DEF PlaceOK
    <2>2. Top.min \in 0 .. 6
        BY <1>7 DEF PlaceOK
    <2> QED  BY <1>5, <1>6, <2>1, <2>2
<1>9. nodes \subseteq Node /\ \A m \in nodes : NodeOK(m, L)
    BY <1>1 DEF TypeOK, PlacesOK
<1>10. Reads(g) /\ NodesGrow
    <2>1. Reads(g)
        BY <1>2, <1>4 DEF Reads
    <2>2. n.from <= n.at
        BY <1>3, <1>5, <1>6, <1>8
    <2> QED  BY <1>3, <1>6, <1>9, <2>1, <2>2 DEF NodesGrow
<1>11. TypeOK'
    <2>1. frames' \in Seq(Frame) /\ frames' # <<>>
        BY <1>2, <1>5, BecomesNotEmpty
    <2> QED  BY <1>3, <1>4, <1>9, <2>1, TypeStep DEF InputGrows
<1>12. StackOK'
    BY <1>1, <1>10, StackReads
<1>13. PlacesOK'
    <2>1. L + 2 \in Nat /\ Len(input') = L + 2 /\ Len(input) <= L + 2
        BY <1>4, <1>5 DEF InputGrows
    <2>2. nodes' \subseteq Node /\ \A m \in nodes' : m \in nodes \/ NodeOK(m, L + 2)
        BY <1>3, <1>5, <1>6, <1>8, <1>9 DEF NodeOK
    <2>3. /\ g.call <= g.left.from /\ g.left.from <= g.left.to /\ g.left.to <= L + 2
        BY <1>2, <1>5, <1>6, <1>8 DEF SameCall
    <2>4. \A i \in 1 .. Len(frames) - 1 : frames[i].op # "none" => frames[i].at < g.left.from
        BY <1>2, <1>6, <1>7 DEF Before
    <2> QED  BY <1>1, <1>6, <1>10, <2>1, <2>2, <2>3, <2>4, PlacesReads
<1>14. PendingOK' /\ BehindOK'
    BY <1>1, <1>2, <1>6, <1>10, PendingReads, BehindReads
<1>15. \A m \in nodes : m.call = Top.call => Looping(Top, next, m)
    BY <1>4, <1>6 DEF TreeInv, TopOK
<1>16. \A m \in nodes : m.op \in Operator /\ m.at \in Nat /\ m.from \in Nat /\ m.to \in Nat
    BY <1>9 DEF Node, Operator
<1>17. Level(next) = 6 /\ next \in Operator
    BY <1>4, LevelFacts DEF Operator
<1>18. ASSUME NEW m \in nodes, m.call = Top.call, Top.left.from <= m.at
       PROVE  Top.min <= Level(m.op) /\ Level(m.op) = 6
    <2>1. Top.min <= Level(m.op) /\ 6 <= Level(m.op)
        BY <1>15, <1>17, <1>18 DEF Looping
    <2>2. Level(m.op) \in 1 .. 6
        BY <1>16, LevelFacts
    <2> QED  BY <2>1, <2>2
<1>19. TopOK'
    <2>1. Top' = g /\ g.call = Top.call /\ g.min = Top.min
        BY <1>2, <1>5, BecomesNotEmpty DEF SameCall
    <2>2. next' \in Operator => Level(next') <= 6
        BY LevelFacts
    <2>3. ASSUME NEW m \in nodes', m.call = g.call
          PROVE  Looping(g, next', m)
        <3>1. CASE m \in nodes
            BY <1>2, <1>18, <2>1, <2>2, <2>3, <3>1 DEF Looping
        <3>2. CASE m = n
            BY <1>3, <1>8, <1>17, <2>1, <2>2, <3>2 DEF Looping
        <3> QED  BY <1>3, <2>3, <3>1, <3>2
    <2> QED  BY <1>4, <2>1, <2>3 DEF TopOK
<1>20. GrammarTree'
    <2> SUFFICES ASSUME NEW m \in nodes', NEW k \in nodes', Within(m, k)
                 PROVE  /\ m.at < k.at => Level(m.op) >= Level(k.op)
                        /\ m.at > k.at => Level(m.op) > Level(k.op)
        BY DEF GrammarTree
    <2>1. CASE m \in nodes /\ k \in nodes
        BY <1>1, <2>1 DEF GrammarTree
    <2>2. CASE m = n /\ k = n
        BY <1>3, <1>5, <2>2
    <2>3. CASE m \in nodes /\ k = n
        <3>1. m.call = Top.call /\ Top.left.from <= m.at
            BY <1>3, <2>3 DEF Within
        <3>2. Level(m.op) = 6 /\ Level(k.op) = 6
            BY <1>3, <1>17, <1>18, <2>3, <3>1
        <3>3. ~(m.at > k.at)
            BY <1>3, <1>5, <1>9, <1>16, <2>3 DEF NodeOK
        <3> QED  BY <3>2, <3>3
    <2>4. CASE m = n /\ k \in nodes
        <3>1. n.at <= k.to
            BY <2>4 DEF Within
        <3>2. k.to <= L /\ k.to \in Nat
            BY <1>9, <1>16, <2>4 DEF NodeOK
        <3> QED  BY <1>3, <1>5, <3>1, <3>2
    <2> QED  BY <1>3, <2>1, <2>2, <2>3, <2>4
<1> QED  BY <1>11, <1>12, <1>13, <1>14, <1>19, <1>20 DEF TreeInv

LEMMA TakeRightStep ==
    ASSUME TypeOK, TreeInv, TakeRight
    PROVE  TypeOK' /\ TreeInv'
<1> DEFINE L == Len(input)
<1>1. StackOK /\ PlacesOK /\ PendingOK /\ BehindOK /\ GrammarTree
    BY DEF TreeInv
<1>2. PICK g : /\ Becomes(g) /\ SameCall(Top, g)
               /\ g.prefix = "none" /\ g.op = "none" /\ g.left = Joined(Top.left, ret)
    BY <1>1, TakeRightFacts
<1>3. PICK n \in Node : /\ nodes' = nodes \cup {n}
                        /\ n.op = Top.op /\ n.at = Top.at /\ n.call = Top.call
                        /\ n.from = Top.left.from /\ n.to = ret.to
    BY <1>1, TakeRightFacts
<1>4. /\ status = "run" /\ ret \in Term /\ ret # NoTerm /\ Top.fn = "binary" /\ Top.left \in Term
      /\ Top.op \in BinaryOp /\ Top.min <= Level(Top.op)
      /\ input' = input /\ next' = next /\ ret' = NoTerm /\ status' = "run"
    BY <1>1, TakeRightFacts, TermFacts
<1>5. /\ frames \in Seq(Frame) /\ frames # <<>> /\ L \in Nat
      /\ Len(frames) \in Nat \ {0} /\ Top = frames[Len(frames)] /\ Top \in Frame
    BY <1>1, <1>4, RunFacts
<1>6. /\ Top.left # NoTerm /\ Top.left.from \in Nat /\ Top.left.to \in Nat /\ Top.op # "none"
      /\ Top.call \in Nat /\ Top.min \in Nat /\ Top.at \in Nat /\ ret.from \in Nat /\ ret.to \in Nat
      /\ g.left \in Term /\ g.left # NoTerm /\ g.left.from = Top.left.from /\ g.left.to = ret.to
    BY <1>2, <1>4, <1>5, TermFacts, FrameFields, NoOperator
<1>7. PlaceOK(Top, L) /\ \A i \in 1 .. Len(frames) - 1 : Before(frames[i], Top)
    BY <1>1, <1>5 DEF PlacesOK
<1>8. /\ Top.call <= Top.left.from /\ Top.left.from < Top.at /\ Top.at < ret.from
      /\ ret.from <= ret.to /\ ret.to <= L
    <2>1. Top.call <= Top.left.from /\ Top.left.from < Top.at
        BY <1>6, <1>7 DEF PlaceOK
    <2>2. /\ ret.from <= ret.to /\ ret.to <= L
          /\ \A i \in 1 .. Len(frames) : frames[i].op # "none" => frames[i].at < ret.from
        BY <1>1, <1>4 DEF PlacesOK
    <2>3. Top.at < ret.from
        BY <1>5, <1>6, <2>2
    <2> QED  BY <2>1, <2>2, <2>3
<1>9. /\ nodes \subseteq Node /\ \A m \in nodes : NodeOK(m, L)
      /\ \A m \in nodes : m.op \in Operator /\ m.at \in Nat /\ m.from \in Nat /\ m.to \in Nat
    BY <1>1 DEF TypeOK, PlacesOK, Node, Operator
<1>10. Reads(g) /\ NodesGrow
    <2>1. Reads(g)
        BY <1>2, <1>4 DEF Reads
    <2>2. n.from <= n.at
        BY <1>3, <1>6, <1>8
    <2> QED  BY <1>3, <1>6, <1>9, <2>1, <2>2 DEF NodesGrow
<1>11. TypeOK'
    <2>1. frames' \in Seq(Frame) /\ frames' # <<>>
        BY <1>2, <1>5, BecomesNotEmpty
    <2>2. input' \in Seq(Token \cup {"type"}) /\ next' \in Token
        BY <1>4 DEF TypeOK
    <2> QED  BY <1>3, <1>4, <1>9, <2>1, <2>2, TypeStep
<1>12. StackOK'
    BY <1>1, <1>10, StackReads
<1>13. PlacesOK'
    <2>1. Len(input') = L /\ Len(input) <= L
        BY <1>4, <1>5
    <2>2. nodes' \subseteq Node /\ \A m \in nodes' : m \in nodes \/ NodeOK(m, L)
        BY <1>3, <1>6, <1>8, <1>9 DEF NodeOK
    <2>3. /\ g.call <= g.left.from /\ g.left.from <= g.left.to /\ g.left.to <= L
        BY <1>2, <1>5, <1>6, <1>8 DEF SameCall
    <2>4. \A i \in 1 .. Len(frames) - 1 : frames[i].op # "none" => frames[i].at < g.left.from
        BY <1>6, <1>7 DEF Before
    <2> QED  BY <1>1, <1>5, <1>6, <1>10, <2>1, <2>2, <2>3, <2>4, PlacesReads
<1>14. PendingOK' /\ BehindOK'
    BY <1>1, <1>6, <1>10, PendingReads, BehindReads
<1>15. /\ \A m \in nodes : m.call = Top.call => Taking(Top, ret, m)
       /\ next \in Operator => Level(next) <= Level(Top.op)
    BY <1>4 DEF TreeInv, TopOK
<1>16. \A m \in nodes : m.call = Top.call => Pending(Top, m)
    BY <1>1, <1>4, <1>5 DEF PendingOK
<1>17. Level(Top.op) \in 1 .. 5 /\ \A m \in nodes : Level(m.op) \in 1 .. 6
    BY <1>4, <1>9, LevelFacts
<1>18. ASSUME NEW m \in nodes, m.call = Top.call, Top.left.from <= m.at
       PROVE  /\ m.at # Top.at
              /\ m.at < Top.at => Level(m.op) >= Level(Top.op)
              /\ m.at > Top.at => Level(m.op) > Level(Top.op)
    <2>1. Pending(Top, m) /\ Taking(Top, ret, m)
        BY <1>15, <1>16, <1>18
    <2>2. m.at # Top.at
        BY <1>6, <1>9, <2>1 DEF Pending, NodeOK
    <2>3. m.at < Top.at => Level(m.op) >= Level(Top.op)
        BY <1>17, <1>18, <2>1 DEF Pending
    <2>4. m.at > Top.at => Level(m.op) > Level(Top.op)
        BY <1>4, <1>6, <1>9, <1>17, <2>1 DEF Taking
    <2> QED  BY <2>2, <2>3, <2>4
<1>19. TopOK'
    <2>1. Top' = g /\ g.call = Top.call /\ g.min = Top.min
        BY <1>2, <1>5, BecomesNotEmpty DEF SameCall
    <2>2. next \in Operator => Level(next) \in 1 .. 6
        BY LevelFacts
    <2>3. ASSUME NEW m \in nodes', m.call = g.call
          PROVE  Looping(g, next', m)
        <3>1. CASE m \in nodes
            <4> SUFFICES ASSUME Top.left.from <= m.at
                         PROVE  Top.min <= Level(m.op) /\ (next \in Operator => Level(next) <= Level(m.op))
                BY <1>4, <1>6, <2>1 DEF Looping
            <4>1. Level(m.op) >= Level(Top.op)
                BY <1>6, <1>9, <1>17, <1>18, <2>1, <2>3, <3>1
            <4> QED  BY <1>4, <1>6, <1>15, <1>17, <2>2, <3>1, <4>1
        <3>2. CASE m = n
            BY <1>3, <1>4, <1>15, <2>1, <3>2 DEF Looping
        <3> QED  BY <1>3, <2>3, <3>1, <3>2
    <2> QED  BY <1>4, <2>1, <2>3 DEF TopOK
<1>20. GrammarTree'
    <2> SUFFICES ASSUME NEW m \in nodes', NEW k \in nodes', Within(m, k)
                 PROVE  /\ m.at < k.at => Level(m.op) >= Level(k.op)
                        /\ m.at > k.at => Level(m.op) > Level(k.op)
        BY DEF GrammarTree
    <2>1. CASE m \in nodes /\ k \in nodes
        BY <1>1, <2>1 DEF GrammarTree
    <2>2. CASE m = n /\ k = n
        BY <1>3, <1>6, <2>2
    <2>3. CASE m \in nodes /\ k = n
        <3>1. m.call = Top.call /\ Top.left.from <= m.at
            BY <1>3, <2>3 DEF Within
        <3> QED  BY <1>3, <1>18, <2>3, <3>1
    <2>4. CASE m = n /\ k \in nodes
        <3>1. k.call = Top.call /\ k.from <= Top.at /\ Top.at <= k.to
            BY <1>3, <2>4 DEF Within
        <3>2. k.to < Top.at \/ Top.at < k.from
            BY <1>16, <2>4, <3>1 DEF Pending
        <3> QED  BY <1>6, <1>9, <2>4, <3>1, <3>2
    <2> QED  BY <1>3, <2>1, <2>2, <2>3, <2>4
<1> QED  BY <1>11, <1>12, <1>13, <1>14, <1>19, <1>20 DEF TreeInv

LEMMA NewCallsOnTop ==
    ASSUME NEW f \in Frame, NEW k \in {1, 2}, Pushes(f, k), NEW call \in Nat,
           Len(frames) \in Nat \ {0}, NEW min \in Nat,
           k = 2 => IsCall(frames'[Len(frames) + 1], "term", call, 0),
           IsCall(frames'[Len(frames) + k], "binary", call, min), min \in 0 .. 6
    PROVE  /\ \A i \in Len(frames) + 1 .. Len(frames) + k :
                /\ frames'[i].call = call /\ frames'[i].min \in 0 .. 6
                /\ frames'[i].left = NoTerm /\ frames'[i].op = "none" /\ frames'[i].prefix = "none"
           /\ frames' \in Seq(Frame) /\ frames' # <<>>
           /\ Top' = frames'[Len(frames) + k] /\ Top'.left = NoTerm
<1>1. frames' \in Seq(Frame) /\ Len(frames') = Len(frames) + k
    BY DEF Pushes
<1>2. ASSUME NEW i \in Len(frames) + 1 .. Len(frames) + k
      PROVE  /\ frames'[i].call = call /\ frames'[i].min \in 0 .. 6
             /\ frames'[i].left = NoTerm /\ frames'[i].op = "none" /\ frames'[i].prefix = "none"
    <2>1. i = Len(frames) + k \/ (k = 2 /\ i = Len(frames) + 1)
        OBVIOUS
    <2> QED  BY <2>1 DEF IsCall
<1>3. frames' # <<>>
    BY <1>1
<1>4. Top' = frames'[Len(frames) + k] /\ Top'.left = NoTerm
    BY <1>1 DEF Top, IsCall
<1> QED  BY <1>1, <1>2, <1>3, <1>4

LEMMA ShiftBinaryStep ==
    ASSUME TypeOK, TreeInv, ShiftBinary
    PROVE  TypeOK' /\ TreeInv'
<1> DEFINE L == Len(input)
           n == Len(frames)
<1>1. StackOK /\ PlacesOK /\ PendingOK /\ BehindOK /\ GrammarTree
    BY DEF TreeInv
<1>2. PICK g : /\ Pushes(g, 1) /\ SameCall(Top, g)
               /\ g.prefix = "none" /\ g.left = Top.left /\ g.op = next /\ g.at = L + 1
    BY <1>1, ShiftBinaryFacts
<1>3. /\ status = "run" /\ ret = NoTerm /\ Top.fn = "binary" /\ Top.left \in Term
      /\ next \in BinaryOp /\ Top.min <= Level(next)
      /\ IsCall(frames'[n + 1], "binary", Top.call, Level(next) + 1)
      /\ InputGrows(1) /\ ret' = NoTerm /\ nodes' = nodes /\ status' = "run"
    BY <1>1, ShiftBinaryFacts
<1>4. /\ frames \in Seq(Frame) /\ frames # <<>> /\ L \in Nat
      /\ n \in Nat \ {0} /\ Top = frames[n] /\ Top \in Frame
    BY <1>1, <1>3, RunFacts
<1>5. /\ Top.left # NoTerm /\ Top.left.from \in Nat /\ Top.left.to \in Nat /\ Top.call \in Nat
      /\ g \in Frame /\ g.fn = "binary" /\ g.call = Top.call /\ g.min = Top.min
    BY <1>2, <1>3, <1>4, TermFacts, FrameFields DEF SameCall
<1>6. Level(next) + 1 \in Nat /\ Level(next) + 1 \in 0 .. 6 /\ Level(next) \in 1 .. 5 /\ next # "none"
    BY <1>3, LevelFacts, NoOperator
<1>7. /\ \A i \in n + 1 .. n + 1 :
            /\ frames'[i].call = Top.call /\ frames'[i].min \in 0 .. 6
            /\ frames'[i].left = NoTerm /\ frames'[i].op = "none" /\ frames'[i].prefix = "none"
      /\ frames' \in Seq(Frame) /\ frames' # <<>> /\ Top'.left = NoTerm
    BY <1>2, <1>3, <1>4, <1>5, <1>6, NewCallsOnTop
<1>8. /\ PlaceOK(Top, L) /\ \A i \in 1 .. n - 1 : Before(frames[i], Top)
      /\ nodes \subseteq Node /\ \A m \in nodes : NodeOK(m, L)
    BY <1>1, <1>4 DEF PlacesOK, TypeOK
<1>9. TypeOK'
    BY <1>3, <1>7, TypeStep DEF InputGrows, TypeOK
<1>10. StackOK'
    <2>1. Waiting(g)
        BY <1>2, <1>3, <1>5 DEF Waiting
    <2>2. Called(g, frames'[n + 1]) /\ Reading(frames'[n + 1])
        BY <1>2, <1>3, <1>5 DEF Called, Reading, IsCall
    <2> QED  BY <1>1, <1>2, <1>3, <2>1, <2>2, StackPushesOne
<1>11. PlacesOK'
    <2>1. /\ L + 1 \in Nat /\ Len(input') = L + 1 /\ Len(input) <= L + 1
          /\ Top.call <= Top.call /\ Top.call <= L + 1 + 1
        BY <1>3, <1>4, <1>5, <1>8 DEF InputGrows, PlaceOK
    <2>2. PlaceOK(g, L + 1)
        <3>1. PlaceOK(Top, L + 1)
            BY <1>4, <1>8, <2>1, PlaceGrows
        <3>2. Top.left.from < L + 1
            BY <1>4, <1>5, <1>8 DEF PlaceOK
        <3>3. g.left.from < g.at /\ g.at <= L + 1
            BY <1>2, <1>4, <3>2
        <3> QED  BY <1>2, <1>5, <3>1, <3>3 DEF PlaceOK
    <2>3. \A i \in 1 .. n - 1 : Before(frames[i], g)
        BY <1>2, <1>5, <1>8 DEF Before
    <2> QED  BY <1>1, <1>2, <1>3, <1>5, <1>7, <2>1, <2>2, <2>3, PlacesPushes
<1>12. ASSUME NEW m \in nodes
       PROVE  m.at \in Nat /\ m.to \in Nat /\ m.at < L + 1 /\ m.to < L + 1
    <2>1. m.at \in Nat /\ m.to \in Nat /\ NodeOK(m, L)
        BY <1>8 DEF Node
    <2> QED  BY <1>4, <2>1 DEF NodeOK
<1>13. PendingOK'
    <2>1. ASSUME NEW m \in nodes, m.call = g.call
          PROVE  Pending(g, m)
        <3>1. Looping(Top, next, m)
            BY <1>3, <1>5, <2>1 DEF TreeInv, TopOK
        <3>2. Top.left.from <= m.at => Level(next) <= Level(m.op)
            BY <1>3, <3>1 DEF Looping, Operator
        <3> QED  BY <1>2, <1>12, <3>2 DEF Pending
    <2>2. \A m \in nodes : m.call = g.call => Pending(g, m)
        BY <2>1
    <2>3. \A i \in n + 1 .. n + 1 : frames'[i].op = "none"
        BY <1>7
    <2> QED  BY <1>1, <1>2, <1>3, <2>2, <2>3, PendingPushes
<1>14. BehindOK'
    <2>1. \A m \in nodes : m.call = g.call => Behind(g, frames'[n + 1], m)
        <3>1. ASSUME NEW m \in nodes
              PROVE  ~(g.at < m.at)
            <4>1. m.at \in Nat /\ m.at < L + 1 /\ g.at = L + 1
                BY <1>2, <1>12
            <4> QED  BY <1>4, <4>1
        <3> QED  BY <1>2, <3>1 DEF Behind
    <2>2. \A m \in nodes :
            /\ Behind(frames[n - 1], Top, m)
            /\ m.call = frames[n - 1].call
            => Behind(frames[n - 1], g, m)
        BY <1>2, <1>5 DEF Behind
    <2>3. \A i \in n + 1 .. n + 1 : frames'[i].op = "none" /\ frames'[i].prefix = "none"
        BY <1>7
    <2> QED  BY <1>1, <1>2, <1>3, <2>1, <2>2, <2>3, BehindPushes
<1>15. TopOK'
    BY <1>3, <1>7 DEF TopOK
<1>16. GrammarTree'
    BY <1>1, <1>3, SameTree
<1> QED  BY <1>9, <1>10, <1>11, <1>13, <1>14, <1>15, <1>16 DEF TreeInv

LEMMA ShiftPlusStep ==
    ASSUME TypeOK, TreeInv, ShiftPlus
    PROVE  TypeOK' /\ TreeInv'
<1> DEFINE L == Len(input)
           n == Len(frames)
<1>1. StackOK /\ PlacesOK /\ PendingOK /\ BehindOK /\ GrammarTree
    BY DEF TreeInv
<1>2. /\ status = "run" /\ ret = NoTerm /\ Top.fn = "binary" /\ Top.left = NoTerm
      /\ Top.prefix = "+" /\ Pushes(Top, 2)
      /\ IsCall(frames'[n + 1], "term", L + 2, 0) /\ IsCall(frames'[n + 2], "binary", L + 2, 0)
      /\ InputGrows(1) /\ ret' = NoTerm /\ nodes' = nodes /\ status' = "run"
    BY <1>1, ShiftPlusFacts
<1>3. /\ frames \in Seq(Frame) /\ frames # <<>> /\ L \in Nat
      /\ n \in Nat \ {0} /\ Top = frames[n] /\ Top \in Frame /\ Top.call \in Nat
      /\ SameCall(Top, Top) /\ Top.op = "none"
    BY <1>1, <1>2, RunFacts, ReadingTop DEF SameCall
<1>4. L + 2 \in Nat /\ 0 \in Nat /\ 0 \in 0 .. 6
    BY <1>3
<1>5. /\ \A i \in n + 1 .. n + 2 :
            /\ frames'[i].call = L + 2 /\ frames'[i].min \in 0 .. 6
            /\ frames'[i].left = NoTerm /\ frames'[i].op = "none" /\ frames'[i].prefix = "none"
      /\ frames' \in Seq(Frame) /\ frames' # <<>> /\ Top'.left = NoTerm
    BY <1>2, <1>3, <1>4, NewCallsOnTop
<1>6. /\ PlaceOK(Top, L) /\ \A i \in 1 .. n - 1 : Before(frames[i], Top)
      /\ nodes \subseteq Node /\ \A m \in nodes : NodeOK(m, L)
    BY <1>1, <1>3 DEF PlacesOK, TypeOK
<1>7. Top.call <= L + 1 /\ Top.call < L + 2
    BY <1>3, <1>6 DEF PlaceOK
<1>8. TypeOK'
    BY <1>2, <1>5, TypeStep DEF InputGrows, TypeOK
<1>9. StackOK'
    <2>1. Waiting(Top) /\ Top.op \notin BinaryOp /\ (Top.fn = "term" => Top.op # "none")
        BY <1>2, <1>3, NoOperator DEF Waiting
    <2>2. L + 2 > Top.call
        BY <1>3, <1>7
    <2> QED  BY <1>1, <1>2, <1>3, <1>4, <2>1, <2>2, StackPushesTwo
<1>10. PlacesOK'
    <2>1. /\ L + 1 \in Nat /\ Len(input') = L + 1 /\ Len(input) <= L + 1
          /\ Top.call <= L + 2 /\ L + 2 <= L + 1 + 1
        BY <1>2, <1>3, <1>7 DEF InputGrows
    <2>2. PlaceOK(Top, L + 1)
        BY <1>3, <1>6, <2>1, PlaceGrows
    <2> QED  BY <1>1, <1>2, <1>3, <1>4, <1>5, <1>6, <2>1, <2>2, PlacesPushes
<1>11. PendingOK'
    <2>1. Top.op \in BinaryOp => \A m \in nodes : m.call = Top.call => Pending(Top, m)
        BY <1>3, NoOperator
    <2>2. \A i \in n + 1 .. n + 2 : frames'[i].op = "none"
        BY <1>5
    <2> QED  BY <1>1, <1>2, <2>1, <2>2, PendingPushes
<1>12. BehindOK'
    <2>1. ASSUME NEW m \in nodes
          PROVE  Behind(Top, frames'[n + 1], m)
        <3>1. m.at \in Nat /\ m.to \in Nat /\ NodeOK(m, L)
            BY <1>6 DEF Node
        <3>2. m.at < L + 2
            BY <1>3, <3>1 DEF NodeOK
        <3> QED  BY <1>2, <1>3, <3>2, NoOperator DEF Behind, IsCall
    <2>2. \A m \in nodes : m.call = Top.call => Behind(Top, frames'[n + 1], m)
        BY <2>1
    <2>3. \A m \in nodes :
            /\ Behind(frames[n - 1], Top, m)
            /\ m.call = frames[n - 1].call
            => Behind(frames[n - 1], Top, m)
        OBVIOUS
    <2>4. \A i \in n + 1 .. n + 2 : frames'[i].op = "none" /\ frames'[i].prefix = "none"
        BY <1>5
    <2> QED  BY <1>1, <1>2, <2>2, <2>3, <2>4, BehindPushes
<1>13. TopOK'
    BY <1>2, <1>5 DEF TopOK
<1>14. GrammarTree'
    BY <1>1, <1>2, SameTree
<1> QED  BY <1>8, <1>9, <1>10, <1>11, <1>12, <1>13, <1>14 DEF TreeInv

LEMMA AssignStep ==
    ASSUME TypeOK, TreeInv, Assign
    PROVE  TypeOK' /\ TreeInv'
<1> DEFINE L == Len(input)
           n == Len(frames)
<1>1. StackOK /\ PlacesOK /\ PendingOK /\ BehindOK /\ GrammarTree
    BY DEF TreeInv
<1>2. PICK g : /\ Pushes(g, 2) /\ SameCall(Top, g)
               /\ g.prefix = "none" /\ g.op = "=" /\ g.at = L + 1 /\ g.left = ret
    BY <1>1, AssignFacts
<1>3. /\ status = "run" /\ ret \in Term /\ ret # NoTerm /\ Top.fn = "term" /\ Top.left = NoTerm
      /\ IsCall(frames'[n + 1], "term", L + 2, 0) /\ IsCall(frames'[n + 2], "binary", L + 2, 0)
      /\ InputGrows(1) /\ ret' = NoTerm /\ nodes' = nodes /\ status' = "run"
    BY <1>1, AssignFacts, TermFacts
<1>4. /\ frames \in Seq(Frame) /\ frames # <<>> /\ L \in Nat
      /\ n \in Nat \ {0} /\ Top = frames[n] /\ Top \in Frame /\ Top.call \in Nat
    BY <1>1, <1>3, RunFacts
<1>5. /\ g \in Frame /\ g.fn = "term" /\ g.call = Top.call /\ g.min = Top.min
      /\ ret.from \in Nat /\ ret.to \in Nat
    BY <1>2, <1>3, TermFacts DEF SameCall
<1>6. L + 2 \in Nat /\ 0 \in Nat /\ 0 \in 0 .. 6
    BY <1>4
<1>7. /\ \A i \in n + 1 .. n + 2 :
            /\ frames'[i].call = L + 2 /\ frames'[i].min \in 0 .. 6
            /\ frames'[i].left = NoTerm /\ frames'[i].op = "none" /\ frames'[i].prefix = "none"
      /\ frames' \in Seq(Frame) /\ frames' # <<>> /\ Top'.left = NoTerm
    BY <1>2, <1>3, <1>4, <1>5, <1>6, NewCallsOnTop
<1>8. /\ PlaceOK(Top, L) /\ \A i \in 1 .. n - 1 : Before(frames[i], Top) /\ i \in 1 .. n
      /\ ret.from <= ret.to /\ ret.to <= L /\ Top.call <= ret.from
      /\ \A i \in 1 .. n : frames[i].op # "none" => frames[i].at < ret.from
    BY <1>1, <1>3, <1>4 DEF PlacesOK
<1>9. Top.call <= L + 1 /\ Top.call < L + 2
    BY <1>4, <1>8 DEF PlaceOK
<1>10. TypeOK'
    BY <1>3, <1>7, TypeStep DEF InputGrows, TypeOK
<1>11. StackOK'
    <2>1. Waiting(g) /\ g.op \notin BinaryOp /\ (g.fn = "term" => g.op # "none")
        BY <1>2, <1>3, <1>5, NoOperator DEF Waiting
    <2>2. L + 2 > g.call
        BY <1>4, <1>5, <1>9
    <2> QED  BY <1>1, <1>2, <1>3, <1>6, <2>1, <2>2, StackPushesTwo
<1>12. PlacesOK'
    <2>1. /\ L + 1 \in Nat /\ Len(input') = L + 1 /\ Len(input) <= L + 1
          /\ Top.call <= L + 2 /\ L + 2 <= L + 1 + 1
        BY <1>3, <1>4, <1>9 DEF InputGrows
    <2>2. PlaceOK(g, L + 1)
        <3>1. g.call \in 1 .. L + 1 + 1 /\ g.min \in 0 .. 6
            BY <1>4, <1>5, <1>8 DEF PlaceOK
        <3>2. g.left.from < g.at /\ g.at <= L + 1
            BY <1>2, <1>4, <1>5, <1>8
        <3>3. g.call <= g.left.from /\ g.left.from <= g.left.to /\ g.left.to <= L + 1
            BY <1>2, <1>4, <1>5, <1>8
        <3> QED  BY <3>1, <3>2, <3>3 DEF PlaceOK
    <2>3. \A i \in 1 .. n - 1 : Before(frames[i], g)
        BY <1>2, <1>5, <1>8 DEF Before
    <2> QED  BY <1>1, <1>2, <1>3, <1>6, <1>7, <2>1, <2>2, <2>3, PlacesPushes
<1>13. PendingOK'
    <2>1. g.op \in BinaryOp => \A m \in nodes : m.call = g.call => Pending(g, m)
        BY <1>2, NoOperator
    <2>2. \A i \in n + 1 .. n + 2 : frames'[i].op = "none"
        BY <1>7
    <2> QED  BY <1>1, <1>2, <1>3, <2>1, <2>2, PendingPushes
<1>14. BehindOK'
    <2>1. \A m \in nodes : m.call = g.call => Behind(g, frames'[n + 1], m)
        BY <1>2, NoOperator DEF Behind
    <2>2. ASSUME n > 1
          PROVE  \A m \in nodes :
            /\ Behind(frames[n - 1], Top, m)
            /\ m.call = frames[n - 1].call
            => Behind(frames[n - 1], g, m)
        <3>1. n - 1 \in 1 .. n - 1 /\ n - 1 + 1 = n
            BY <1>4, <2>2
        <3>2. Called(frames[n - 1], Top)
            BY <1>1, <1>4, <3>1 DEF StackOK
        <3>3. frames[n - 1].op \notin BinaryOp
            BY <1>3, <3>2 DEF Called
        <3> QED  BY <1>5, <3>3 DEF Behind
    <2>3. \A i \in n + 1 .. n + 2 : frames'[i].op = "none" /\ frames'[i].prefix = "none"
        BY <1>7
    <2> QED  BY <1>1, <1>2, <1>3, <2>1, <2>2, <2>3, BehindPushes
<1>15. TopOK'
    BY <1>3, <1>7 DEF TopOK
<1>16. GrammarTree'
    BY <1>1, <1>3, SameTree
<1> QED  BY <1>10, <1>11, <1>12, <1>13, <1>14, <1>15, <1>16 DEF TreeInv

LEMMA PopsNotEmpty ==
    ASSUME Pops, Len(frames) \in Nat, Len(frames) > 1
    PROVE  frames' # <<>> /\ Top' = frames[Len(frames) - 1]
<1>1. Len(frames') = Len(frames) - 1 /\ frames'[Len(frames) - 1] = frames[Len(frames) - 1]
    BY DEF Pops
<1> QED  BY <1>1 DEF Top

LEMMA ReturnBinaryStep ==
    ASSUME TypeOK, TreeInv, ReturnBinary
    PROVE  TypeOK' /\ TreeInv'
<1> DEFINE L == Len(input)
           n == Len(frames)
           f == frames[n - 1]
<1>1. StackOK /\ PlacesOK /\ PendingOK /\ BehindOK /\ GrammarTree
    BY DEF TreeInv
<1>2. /\ status = "run" /\ ret = NoTerm /\ Top.fn = "binary" /\ Top.left \in Term
      /\ Top.left # NoTerm /\ precedence(next) < Top.min /\ n > 1 /\ Pops
      /\ ret' = Top.left /\ nodes' = nodes /\ status' = "run" /\ input' = input /\ next' = next
    BY <1>1, ReturnBinaryFacts, TermFacts
<1>3. /\ L \in Nat /\ n \in Nat \ {0} /\ Top = frames[n] /\ Top \in Frame
      /\ Top.min \in Nat
    BY <1>1, <1>2, RunFacts, FrameFields
<1>4. frames' # <<>> /\ Top' = f
    BY <1>2, <1>3, PopsNotEmpty
<1>5. n - 1 \in 1 .. n - 1 /\ n - 1 \in 1 .. n /\ n - 1 + 1 = n
    BY <1>2, <1>3
<1>6. /\ PlaceOK(Top, L) /\ \A i \in 1 .. n - 1 : Before(frames[i], Top)
      /\ Called(f, Top)
    BY <1>1, <1>3, <1>5 DEF PlacesOK, StackOK
<1>7. TypeOK'
    <2>1. frames' \in Seq(Frame)
        BY <1>2 DEF Pops
    <2>2. input' \in Seq(Token \cup {"type"}) /\ next' \in Token /\ nodes' \subseteq Node
        BY <1>2 DEF TypeOK
    <2> QED  BY <1>2, <1>4, <2>1, <2>2, TypeStep
<1>8. StackOK'
    BY <1>1, <1>2, StackPops
<1>9. PlacesOK'
    <2>1. Top.call <= ret'.from /\ ret'.from <= ret'.to /\ ret'.to <= Len(input)
        BY <1>2, <1>6 DEF PlaceOK
    <2>2. \A i \in 1 .. n - 1 : frames[i].op # "none" => frames[i].at < ret'.from
        BY <1>2, <1>6 DEF Before
    <2> QED  BY <1>1, <1>2, <2>1, <2>2, PlacesPops
<1>10. PendingOK' /\ BehindOK'
    BY <1>1, <1>2, PendingPops, BehindPops
<1> HIDE DEF f
<1>11. TopOK'
    <2>1. f.prefix # "+" \/ f.op \in BinaryOp
        <3>1. Waiting(f)
            BY <1>1, <1>5 DEF StackOK, f
        <3> QED  BY <1>2, <1>6, <3>1, NoOperator DEF Waiting, Called
    <2>2. f.op \in BinaryOp => f.prefix # "+"
        <3>1. Waiting(f)
            BY <1>1, <1>5 DEF StackOK, f
        <3> QED  BY <3>1, NoOperator DEF Waiting
    <2>3. ASSUME f.op \in BinaryOp
          PROVE  Top.call = f.call /\ Top.min = Level(f.op) + 1 /\ Level(f.op) \in 1 .. 5
        BY <1>6, <2>3, LevelFacts DEF Called
    <2>4. ASSUME NEW m \in nodes, m.call = f.call, f.op \in BinaryOp, f.at < m.at
          PROVE  Level(f.op) < Level(m.op)
        <3>1. Behind(f, Top, m)
            BY <1>1, <1>3, <1>5, <2>4 DEF BehindOK, f
        <3>2. Top.left.from <= m.at
            BY <2>4, <3>1 DEF Behind
        <3>3. Looping(Top, next, m)
            BY <1>2, <2>3, <2>4 DEF TreeInv, TopOK
        <3>4. Top.min <= Level(m.op)
            BY <3>2, <3>3 DEF Looping
        <3>5. Level(m.op) \in 1 .. 6
            <4>1. m.op \in Operator
                BY <2>4 DEF TypeOK, Node, Operator
            <4> QED  BY <4>1, LevelFacts
        <3> QED  BY <2>3, <2>4, <3>4, <3>5
    <2>5. ASSUME f.op \in BinaryOp, next \in Operator
          PROVE  Level(next) <= Level(f.op)
        <3>1. Top.min \in 0 .. 6
            BY <1>6 DEF PlaceOK
        <3>2. next \in BinaryOp
            BY <1>2, <2>5, <3>1, Levels DEF Operator
        <3>3. precedence(next) = Level(next) /\ Level(next) \in 1 .. 5
            BY <3>2, Levels
        <3> QED  BY <1>2, <2>3, <2>5, <3>3
    <2> QED  BY <1>2, <1>4, <2>1, <2>2, <2>4, <2>5 DEF TopOK, Taking
<1>12. GrammarTree'
    BY <1>1, <1>2, SameTree
<1> QED  BY <1>7, <1>8, <1>9, <1>10, <1>11, <1>12 DEF TreeInv

LEMMA ReturnTermStep ==
    ASSUME TypeOK, TreeInv, ReturnTerm
    PROVE  TypeOK' /\ TreeInv'
<1> DEFINE L == Len(input)
           n == Len(frames)
           f == frames[n - 1]
<1>1. StackOK /\ PlacesOK /\ PendingOK /\ BehindOK /\ GrammarTree
    BY DEF TreeInv
<1>2. /\ status = "run" /\ ret \in Term /\ ret # NoTerm /\ Top.fn = "term"
      /\ Pops /\ nodes' = nodes /\ input' = input /\ next' = next
    BY <1>1, ReturnTermFacts, TermFacts
<1>3. \/ n = 1 /\ status' = "done"
      \/ n > 1 /\ status' = "run"
    BY <1>1, ReturnTermFacts
<1>4. \/ Top.left = NoTerm /\ Top.op = "none" /\ ret' = ret
      \/ Top.left \in Term /\ Top.op = "=" /\ ret' = Joined(Top.left, ret)
    BY <1>1, ReturnTermFacts
<1>5. /\ L \in Nat /\ n \in Nat \ {0} /\ Top = frames[n] /\ Top \in Frame
      /\ Top.at \in Nat /\ ret.from \in Nat /\ ret.to \in Nat
    BY <1>1, <1>2, RunFacts, FrameFields, TermFacts
<1>6. /\ PlaceOK(Top, L) /\ \A i \in 1 .. n - 1 : Before(frames[i], Top) /\ i \in 1 .. n
      /\ ret.from <= ret.to /\ ret.to <= L /\ Top.call <= ret.from
      /\ \A i \in 1 .. n : frames[i].op # "none" => frames[i].at < ret.from
    BY <1>1, <1>2, <1>5 DEF PlacesOK
<1>7. /\ ret' \in Term /\ ret' # NoTerm
      /\ Top.call <= ret'.from /\ ret'.from <= ret'.to /\ ret'.to <= L
      /\ \A i \in 1 .. n - 1 : frames[i].op # "none" => frames[i].at < ret'.from
    <2>1. CASE Top.left = NoTerm /\ Top.op = "none" /\ ret' = ret
        BY <1>2, <1>6, <2>1
    <2>2. CASE Top.left \in Term /\ Top.op = "=" /\ ret' = Joined(Top.left, ret)
        <3>1. /\ Joined(Top.left, ret) \in Term /\ Top.left # NoTerm /\ Top.left.from \in Nat
              /\ Joined(Top.left, ret).from = Top.left.from /\ Joined(Top.left, ret).to = ret.to
              /\ Joined(Top.left, ret) # NoTerm
            BY <1>2, <2>2, TermFacts
        <3>2. Top.call <= Top.left.from /\ Top.left.from < Top.at
            BY <1>6, <2>2, <3>1, NoOperator DEF PlaceOK
        <3>3. Top.at < ret.from
            <4>1. n \in 1 .. n /\ Top.op # "none"
                BY <1>5, <2>2
            <4> QED  BY <1>5, <1>6, <4>1
        <3>4. \A i \in 1 .. n - 1 : frames[i].op # "none" => frames[i].at < Top.left.from
            BY <1>6, <3>1 DEF Before
        <3>5. Top.left.from <= ret.to
            BY <1>5, <1>6, <3>1, <3>2, <3>3
        <3> QED  BY <1>6, <2>2, <3>1, <3>2, <3>4, <3>5
    <2> QED  BY <1>4, <2>1, <2>2
<1>8. n > 1 => frames' # <<>> /\ Top' = f
    BY <1>2, <1>5, PopsNotEmpty
<1>9. TypeOK'
    <2>1. frames' \in Seq(Frame)
        BY <1>2 DEF Pops
    <2>2. input' \in Seq(Token \cup {"type"}) /\ next' \in Token /\ nodes' \subseteq Node
        BY <1>2 DEF TypeOK
    <2> QED  BY <1>3, <1>7, <1>8, <2>1, <2>2, TypeStep
<1>10. StackOK'
    BY <1>1, <1>2, <1>3, <1>7, StackPops
<1>11. PlacesOK'
    <2>1. status' = "run" => n > 1
        BY <1>3
    <2> QED  BY <1>1, <1>2, <1>7, <2>1, PlacesPops
<1>12. PendingOK' /\ BehindOK'
    BY <1>1, <1>2, PendingPops, BehindPops
<1> HIDE DEF f
<1>13. status' = "run" => TopOK'
    <2> SUFFICES ASSUME status' = "run"  PROVE TopOK'
        OBVIOUS
    <2>1. n > 1 /\ Top' = f
        BY <1>3, <1>8
    <2>2. n - 1 \in 1 .. n - 1 /\ n - 1 \in 1 .. n /\ n - 1 + 1 = n
        BY <1>5, <2>1
    <2>3. f.op \notin BinaryOp
        <3>1. Called(f, Top)
            BY <1>1, <1>5, <2>2 DEF StackOK, f
        <3> QED  BY <1>2, <3>1 DEF Called
    <2>4. ASSUME NEW m \in nodes, m.call = f.call, f.prefix = "+"
          PROVE  m.at < ret'.from
        <3>1. Behind(f, Top, m)
            BY <1>1, <1>5, <2>2, <2>4 DEF BehindOK, f
        <3>2. m.at < Top.call /\ m.at \in Nat
            BY <2>4, <3>1 DEF Behind, TypeOK, Node
        <3>3. Top.call <= ret'.from /\ Top.call \in Nat /\ ret'.from \in Nat
            BY <1>5, <1>7, FrameFields, TermFacts
        <3> QED  BY <3>2, <3>3
    <2> QED  BY <1>2, <1>7, <2>1, <2>3, <2>4 DEF TopOK, Taking
<1>14. GrammarTree'
    BY <1>1, <1>2, SameTree
<1> QED  BY <1>9, <1>10, <1>11, <1>12, <1>13, <1>14 DEF TreeInv

LEMMA FailStep ==
    ASSUME TypeOK, TreeInv, PrefixFails \/ TypeFails \/ AssignFails
    PROVE  TypeOK' /\ TreeInv'
<1>1. status' = "fatal" /\ UNCHANGED <<input, next, frames, ret, nodes>>
    BY FailFacts
<1>2. TypeOK'
    BY <1>1 DEF TypeOK
<1>3. StackOK' /\ PlacesOK' /\ PendingOK' /\ BehindOK' /\ GrammarTree'
    BY <1>1 DEF TreeInv, StackOK, PlacesOK, PendingOK, BehindOK, GrammarTree
<1> QED  BY <1>1, <1>2, <1>3 DEF TreeInv

LEMMA InitInv == Init => TypeOK /\ TreeInv
<1> SUFFICES ASSUME Init  PROVE TypeOK /\ TreeInv
    OBVIOUS
<1>1. /\ input = <<>> /\ next \in Token /\ frames = TermCalls(1)
      /\ ret = NoTerm /\ nodes = {} /\ status = "run"
    BY DEF Init
<1>2. /\ frames = <<Call("term", 1, 0), Call("binary", 1, 0)>>
      /\ IsCall(Call("term", 1, 0), "term", 1, 0) /\ IsCall(Call("binary", 1, 0), "binary", 1, 0)
    BY <1>1, NewCall DEF TermCalls, IsCall
<1>3. /\ frames \in Seq(Frame) /\ Len(frames) = 2 /\ frames # <<>> /\ Len(input) = 0
      /\ IsCall(frames[1], "term", 1, 0) /\ IsCall(frames[2], "binary", 1, 0) /\ Top = frames[2]
    BY <1>1, <1>2 DEF IsCall, Top
<1>4. TypeOK
    BY <1>1, <1>3 DEF TypeOK
<1>5. StackOK
    <2>1. Waiting(frames[1]) /\ Called(frames[1], frames[2]) /\ Reading(frames[2])
        BY <1>3, NoOperator DEF IsCall, Waiting, Called, Reading
    <2>2. frames[1].fn = "term" /\ frames[1].call = 1
        BY <1>3 DEF IsCall
    <2>3. ASSUME NEW i \in 1 .. Len(frames) - 1
          PROVE  Waiting(frames[i]) /\ Called(frames[i], frames[i + 1])
        <3>1. i = 1 /\ i + 1 = 2
            BY <1>3
        <3> QED  BY <2>1, <3>1
    <2> QED  BY <1>1, <1>3, <2>1, <2>2, <2>3 DEF StackOK
<1>6. PlacesOK
    <2>1. \A i \in 1 .. 2 : /\ frames[i].call = 1 /\ frames[i].min = 0 /\ frames[i].op = "none"
                            /\ frames[i].left = NoTerm /\ frames[i].prefix = "none"
        BY <1>3 DEF IsCall
    <2> QED  BY <1>1, <1>3, <2>1 DEF PlacesOK, PlaceOK, Before
<1>7. TopOK
    BY <1>1, <1>3 DEF TopOK, IsCall
<1> QED  BY <1>1, <1>4, <1>5, <1>6, <1>7 DEF TreeInv, PendingOK, BehindOK, GrammarTree

LEMMA NextInv == TypeOK /\ TreeInv /\ [Next]_vars => TypeOK' /\ TreeInv'
<1> SUFFICES ASSUME TypeOK, TreeInv, [Next]_vars  PROVE TypeOK' /\ TreeInv'
    OBVIOUS
<1>1. CASE ShiftPrefix  BY <1>1, ShiftPrefixStep
<1>2. CASE ShiftOperand  BY <1>2, ShiftOperandStep
<1>3. CASE ShiftPlus  BY <1>3, ShiftPlusStep
<1>4. CASE TakePlus  BY <1>4, TakePlusStep
<1>5. CASE ShiftBinary  BY <1>5, ShiftBinaryStep
<1>6. CASE ShiftType  BY <1>6, ShiftTypeStep
<1>7. CASE TakeRight  BY <1>7, TakeRightStep
<1>8. CASE ReturnBinary  BY <1>8, ReturnBinaryStep
<1>9. CASE Assign  BY <1>9, AssignStep
<1>10. CASE ReturnTerm  BY <1>10, ReturnTermStep
<1>11. CASE PrefixFails \/ TypeFails \/ AssignFails  BY <1>11, FailStep
<1>12. CASE UNCHANGED vars
    BY <1>12 DEF vars, TypeOK, TreeInv, StackOK, PlacesOK, PendingOK, BehindOK, TopOK,
                 GrammarTree, Top
<1> QED
    BY <1>1, <1>2, <1>3, <1>4, <1>5, <1>6, <1>7, <1>8, <1>9, <1>10, <1>11, <1>12 DEF Next

-----------------------------------------------------------------------------
(* What every behaviour keeps. *)

\* The invariant on which the theorems below rest: the calls that wait, with
\* the places and the levels of what they have read.
THEOREM Invariance == Spec => [](TypeOK /\ TreeInv)
    BY InitInv, NextInv, PTL DEF Spec

\* The tokens, terms, nodes and calls are what parseTerm and parseBinary make.
THEOREM TypeCorrect == Spec => []TypeOK
    BY Invariance, PTL

\* parseBinary climbs the levels of `precedence` with only the next token to
\* look at; the tree it builds is the one that the levels of grammar.y
\* prescribe, left associative in each, for every source.
THEOREM TreeIsGrammars == Spec => []GrammarTree
<1>1. TypeOK /\ TreeInv => GrammarTree
    BY DEF TreeInv
<1> QED  BY <1>1, Invariance, PTL

LEMMA CallsClimb ==
    ASSUME TypeOK, StackOK, PlacesOK
    PROVE  LevelsClimb
<1> SUFFICES ASSUME NEW i \in 2 .. Len(frames), frames[i].call = frames[i - 1].call
             PROVE  /\ frames[i].fn = "binary"
                    /\ frames[i - 1].fn = "binary" => frames[i].min > frames[i - 1].min
                    /\ frames[i].min <= 6
    BY DEF LevelsClimb
<1> DEFINE j == i - 1
<1>1. j \in 1 .. Len(frames) - 1 /\ j + 1 = i /\ i \in 1 .. Len(frames) /\ j \in 1 .. Len(frames)
    BY DEF TypeOK
<1>2. Waiting(frames[j]) /\ Called(frames[j], frames[i])
    BY <1>1 DEF StackOK
<1>3. frames[j] \in Frame /\ frames[i] \in Frame
    BY <1>1 DEF TypeOK
<1>4. /\ frames[j].call \in Nat /\ frames[i].call \in Nat
      /\ frames[j].min \in Nat /\ frames[i].min \in Nat
    BY <1>3, FrameFields
<1>5. frames[i].call = frames[j].call
    OBVIOUS
<1> HIDE DEF j
<1>6. ~(frames[i].call > frames[j].call)
    BY <1>4, <1>5
<1>7. /\ frames[i].fn = "binary"
      /\ frames[j].op \in BinaryOp \/ frames[j].fn = "term"
      /\ frames[j].op \in BinaryOp => frames[i].min = Level(frames[j].op) + 1
    BY <1>2, <1>6 DEF Called
<1>8. frames[i].min <= 6
    <2>1. PlaceOK(frames[i], Len(input))
        BY <1>1 DEF PlacesOK
    <2> QED  BY <2>1 DEF PlaceOK
<1>9. frames[j].fn = "binary" => frames[i].min > frames[j].min
    <2> SUFFICES ASSUME frames[j].fn = "binary"  PROVE frames[i].min > frames[j].min
        OBVIOUS
    <2>1. frames[j].op \in BinaryOp
        BY <1>7
    <2>2. frames[j].min <= Level(frames[j].op) /\ Level(frames[j].op) \in 1 .. 5
        BY <1>2, <2>1, NoOperator, LevelFacts DEF Waiting
    <2>3. frames[i].min = Level(frames[j].op) + 1
        BY <1>7, <2>1
    <2> QED  BY <1>4, <2>2, <2>3
<1> QED  BY <1>7, <1>8, <1>9 DEF j

\* Within a parseTerm each parseBinary is called with a higher minPrec than its
\* caller's, and none above the last level: the recursion ends with the levels,
\* however long the term is.
THEOREM RecursionClimbs == Spec => []LevelsClimb
<1>1. TypeOK /\ TreeInv => LevelsClimb
    BY CallsClimb DEF TreeInv
<1> QED  BY <1>1, Invariance, PTL

-----------------------------------------------------------------------------
(* No operand is lost. *)

LEMMA OperandsFinite ==
    ASSUME NEW s, NEW from \in Nat, NEW to \in Nat
    PROVE  IsFiniteSet(OperandsAt(s, from, to))
<1>1. IsFiniteSet(from .. to) /\ OperandsAt(s, from, to) \subseteq from .. to
    BY FS_Interval DEF OperandsAt
<1> QED  BY <1>1, FS_Subset

LEMMA OperandsApart ==
    ASSUME NEW s, NEW from \in Nat, NEW at \in Nat, NEW to \in Nat,
           from < at, at <= to, s[at] \notin Operand
    PROVE  Cardinality(OperandsAt(s, from, to)) =
                Cardinality(OperandsAt(s, from, at - 1)) + Cardinality(OperandsAt(s, at + 1, to))
<1> DEFINE A == OperandsAt(s, from, at - 1)
           B == OperandsAt(s, at + 1, to)
<1>1. at - 1 \in Nat /\ at + 1 \in Nat
    OBVIOUS
<1>2. IsFiniteSet(A) /\ IsFiniteSet(B)
    BY <1>1, OperandsFinite
<1>3. OperandsAt(s, from, to) = A \cup B
    BY DEF OperandsAt
<1>4. A \cap B = {}
    BY DEF OperandsAt
<1> HIDE DEF A, B
<1>5. Cardinality(A \cup B) = Cardinality(A) + Cardinality(B) - Cardinality(A \cap B)
    BY <1>2, FS_Union
<1>6. Cardinality(A) \in Nat /\ Cardinality(B) \in Nat /\ Cardinality(A \cap B) = 0
    BY <1>2, <1>4, FS_CardinalityType, FS_EmptySet
<1> QED  BY <1>3, <1>5, <1>6 DEF A, B

LEMMA CountedJoined ==
    ASSUME NEW s, NEW l \in Term, NEW r \in Term, NEW at \in Nat,
           l.from < at, at <= r.to, l.to = at - 1, r.from = at + 1,
           s[at] \notin Operand, Counted(s, l), Counted(s, r)
    PROVE  Counted(s, Joined(l, r))
<1>1. l.from \in Nat /\ r.to \in Nat
    BY TermFacts
<1>2. Cardinality(OperandsAt(s, l.from, r.to)) =
        Cardinality(OperandsAt(s, l.from, at - 1)) + Cardinality(OperandsAt(s, at + 1, r.to))
    BY <1>1, OperandsApart
<1>3. /\ Joined(l, r).from = l.from /\ Joined(l, r).to = r.to
      /\ Joined(l, r).size = l.size + r.size
    BY TermFacts
<1>4. /\ l.size = Cardinality(OperandsAt(s, l.from, at - 1))
      /\ r.size = Cardinality(OperandsAt(s, at + 1, r.to))
    BY DEF Counted
<1> QED  BY <1>2, <1>3, <1>4 DEF Counted

\* The tokens that were read stay.
Kept ==
    /\ Len(input') \in Nat /\ Len(input) <= Len(input')
    /\ \A k \in 1 .. Len(input) : input'[k] = input[k]

LEMMA CountedStays ==
    ASSUME Kept, Len(input) \in Nat, NEW t \in Term, 1 <= t.from, t.to <= Len(input),
           Counted(input, t)
    PROVE  Counted(input', t)
<1>1. t.from \in Nat /\ t.to \in Nat
    BY TermFacts
<1>2. \A k \in t.from .. t.to : input'[k] = input[k]
    BY <1>1 DEF Kept
<1>3. OperandsAt(input', t.from, t.to) = OperandsAt(input, t.from, t.to)
    BY <1>2 DEF OperandsAt
<1> QED  BY <1>3 DEF Counted

LEMMA FrameCountsStay ==
    ASSUME Kept, Len(input) \in Nat, NEW f \in Frame, PlaceOK(f, Len(input)),
           FrameCounts(input, f)
    PROVE  FrameCounts(input', f)
<1>1. ASSUME f.left # NoTerm
      PROVE  Counted(input', f.left)
    <2>1. f.left \in Term /\ f.call \in Nat /\ f.left.from \in Nat
        BY <1>1, FrameFields, TermFacts
    <2>2. 1 <= f.left.from /\ f.left.to <= Len(input)
        BY <1>1, <2>1 DEF PlaceOK
    <2> QED  BY <1>1, <2>1, <2>2, CountedStays DEF FrameCounts
<1>2. ASSUME f.op # "none"
      PROVE  input'[f.at] = input[f.at]
    <2>1. f.at \in Nat /\ f.at <= Len(input) /\ f.left.from < f.at /\ f.left.from \in Nat
        <3>1. f.left.from \in Nat
            BY FrameFields, TermFacts DEF NoTerm
        <3> QED  BY <1>2, <3>1, FrameFields DEF PlaceOK
    <2>2. f.at \in 1 .. Len(input)
        BY <2>1
    <2> QED  BY <2>2 DEF Kept
<1> QED  BY <1>1, <1>2 DEF FrameCounts

LEMMA NoPlusStays ==
    ASSUME Kept, Len(input) \in Nat, NoPlus'
    PROVE  NoPlus
<1> SUFFICES ASSUME NEW k \in 1 .. Len(input)  PROVE ~IsPrefixPlus(k)
    BY DEF NoPlus
<1>1. k \in 1 .. Len(input') /\ input'[k] = input[k]
    BY DEF Kept
<1>2. k > 1 => input'[k - 1] = input[k - 1]
    BY DEF Kept
<1>3. ~(input'[k] = "+" /\ (k > 1 => input'[k - 1] \notin Operand \cup {"type"}))
    BY <1>1 DEF NoPlus, IsPrefixPlus
<1> QED  BY <1>1, <1>2, <1>3 DEF IsPrefixPlus

LEMMA GrowsKept ==
    ASSUME NEW j \in {1, 2}, InputGrows(j), Len(input) \in Nat
    PROVE  Kept /\ Len(input') = Len(input) + j
    BY DEF InputGrows, Kept

LEMMA SameKept ==
    ASSUME input' = input, Len(input) \in Nat
    PROVE  Kept
    BY DEF Kept

LEMMA ReadingDepth ==
    ASSUME TypeOK, StackOK, status = "run", Top.fn = "binary"
    PROVE  Len(frames) - 1 \in 1 .. Len(frames) - 1 /\ Len(frames) > 1
<1>1. Len(frames) \in Nat \ {0} /\ Top = frames[Len(frames)] /\ frames # <<>>
    BY RunFacts
<1>2. Len(frames) # 1
    BY <1>1 DEF StackOK
<1> QED  BY <1>1, <1>2, OneOrMore

\* StartAfter and Starts of a call that stays the same.
LEMMA SameStart ==
    ASSUME NEW f, NEW g, NEW h, SameCall(g, h)
    PROVE  StartAfter(f, h) = StartAfter(f, g)
    BY DEF StartAfter, SameCall

LEMMA CountReads ==
    ASSUME TypeOK, TreeInv, Counts, NEW g, Reads(g), Kept,
           FrameCounts(input', g),
           g.left # NoTerm => g.left.from = StartAfter(frames[Len(frames) - 1], Top),
           Follows(frames[Len(frames) - 1], g, input')
    PROVE  Counts'
<1> DEFINE n == Len(frames)
<1>1. /\ n \in Nat \ {0} /\ Top = frames[n] /\ Len(input) \in Nat
      /\ \A i \in 1 .. n : frames[i] \in Frame
    BY RunFacts DEF Reads, TreeInv
<1>2. /\ Len(frames') = n /\ frames'[n] = g /\ SameCall(Top, g) /\ ret' = NoTerm
      /\ status' = "run" /\ \A i \in 1 .. n - 1 : frames'[i] = frames[i]
    BY DEF Reads, Becomes
<1>3. n - 1 \in 1 .. n - 1 /\ n > 1 /\ n - 1 + 1 = n
    BY <1>1, ReadingDepth DEF TreeInv, Reads
<1>4. \A i \in 1 .. n : PlaceOK(frames[i], Len(input))
    BY DEF TreeInv, PlacesOK
<1>5. FrameCounts(input', g) /\ Follows(frames[n - 1], g, input')
    OBVIOUS
<1>6. /\ \A i \in 1 .. n : FrameCounts(input, frames[i])
      /\ \A i \in 1 .. n - 1 : Starts(frames[i], frames[i + 1])
    BY DEF Counts
<1>s. g.left # NoTerm => g.left.from = StartAfter(frames[n - 1], g)
    BY <1>2, SameStart
<1> HIDE DEF n
<1>7. \A i \in 1 .. n : FrameCounts(input', frames'[i])
    <2> TAKE i \in 1 .. n
    <2>1. CASE i = n
        BY <1>2, <1>5, <2>1
    <2>2. CASE i # n
        <3>1. i \in 1 .. n - 1
            BY <1>1, <2>2
        <3> QED  BY <1>1, <1>2, <1>4, <1>6, <3>1, FrameCountsStay
    <2> QED  BY <2>1, <2>2
<1>8. ASSUME NEW i \in 1 .. n - 1
      PROVE  Starts(frames'[i], frames'[i + 1])
    <2>1. frames'[i] = frames[i] /\ Starts(frames[i], frames[i + 1])
        BY <1>2, <1>6
    <2>2. CASE i + 1 = n
        <3>1. i = n - 1
            BY <1>1, <2>2
        <3>2. Starts(frames[i], g)
            BY <1>1, <1>2, <1>s, <2>1, <2>2, <3>1 DEF Starts, SameCall
        <3> QED  BY <1>2, <2>1, <2>2, <3>2
    <2>3. CASE i + 1 # n
        <3>1. i + 1 \in 1 .. n - 1
            BY <1>1, <2>3
        <3> QED  BY <1>2, <2>1, <3>1
    <2> QED  BY <2>2, <2>3
<1>9. frames'[1] = frames[1] /\ frames # <<>>
    <2>1. 1 \in 1 .. n - 1
        BY <1>1, <1>3
    <2> QED  BY <1>2, <2>1 DEF n, Reads, TypeOK
<1>10. frames'[1].left # NoTerm => frames'[1].left.from = 1
    BY <1>9 DEF Counts
<1>11. Follows(frames'[Len(frames') - 1], Top', input')
    BY <1>2, <1>3, <1>5 DEF Top
<1> QED  BY <1>2, <1>7, <1>8, <1>10, <1>11 DEF Counts

LEMMA CountPushes ==
    ASSUME TypeOK, TreeInv, Counts, status = "run", NEW g, NEW k \in {1, 2}, Pushes(g, k),
           SameCall(Top, g), Kept, ret' = NoTerm, status' = "run",
           FrameCounts(input', g),
           Len(frames) = 1 /\ g.left # NoTerm => g.left.from = 1,
           Len(frames) > 1 => Starts(frames[Len(frames) - 1], g),
           g.op = "=" => frames'[Len(frames) + 1].call = g.at + 1,
           \A i \in Len(frames) + 1 .. Len(frames) + k :
                frames'[i].left = NoTerm /\ frames'[i].op = "none" /\ frames'[i].prefix = "none",
           Follows(frames'[Len(frames) + k - 1], frames'[Len(frames) + k], input')
    PROVE  Counts'
<1> DEFINE n == Len(frames)
<1>1. /\ n \in Nat \ {0} /\ Top = frames[n] /\ Len(input) \in Nat /\ frames # <<>>
      /\ \A i \in 1 .. n : frames[i] \in Frame
    BY RunFacts DEF TreeInv
<1>2. /\ Len(frames') = n + k /\ frames'[n] = g
      /\ \A i \in 1 .. n - 1 : frames'[i] = frames[i]
    BY DEF Pushes
<1>3. \A i \in n + 1 .. n + k :
            frames'[i].left = NoTerm /\ frames'[i].op = "none" /\ frames'[i].prefix = "none"
    OBVIOUS
<1>4. /\ \A i \in 1 .. n : PlaceOK(frames[i], Len(input))
      /\ \A i \in 1 .. n : FrameCounts(input, frames[i])
      /\ \A i \in 1 .. n - 1 : Starts(frames[i], frames[i + 1])
    BY DEF TreeInv, PlacesOK, Counts
<1>5. /\ FrameCounts(input', g)
      /\ n = 1 /\ g.left # NoTerm => g.left.from = 1
      /\ n > 1 => Starts(frames[n - 1], g)
      /\ g.op = "=" => frames'[n + 1].call = g.at + 1
      /\ Follows(frames'[n + k - 1], frames'[n + k], input')
    OBVIOUS
<1>6. \A i \in 1 .. n + k : i \in 1 .. n - 1 \/ i = n \/ i \in n + 1 .. n + k
    BY <1>1
<1> HIDE DEF n
<1>7. \A i \in 1 .. n + k : FrameCounts(input', frames'[i])
    <2> TAKE i \in 1 .. n + k
    <2>1. CASE i = n
        BY <1>2, <1>5, <2>1
    <2>2. CASE i \in 1 .. n - 1
        <3>1. i \in 1 .. n
            BY <1>1, <2>2
        <3> QED  BY <1>1, <1>2, <1>4, <2>2, <3>1, FrameCountsStay
    <2>3. CASE i \in n + 1 .. n + k
        BY <1>3, <2>3 DEF FrameCounts
    <2> QED  BY <1>6, <2>1, <2>2, <2>3
<1>8. ASSUME NEW i \in 1 .. n + k - 1
      PROVE  Starts(frames'[i], frames'[i + 1])
    <2>1. CASE i >= n
        <3>1. i + 1 \in n + 1 .. n + k
            BY <1>1, <2>1
        <3>2. frames'[i + 1].left = NoTerm
            BY <1>3, <3>1
        <3>3. CASE i = n
            BY <1>2, <1>5, <3>2, <3>3 DEF Starts
        <3>4. CASE i # n
            <4>1. i \in n + 1 .. n + k
                BY <1>1, <2>1, <3>4
            <4> QED  BY <1>3, <3>2, <4>1 DEF Starts
        <3> QED  BY <3>3, <3>4
    <2>2. CASE i < n
        <3>1. i \in 1 .. n - 1 /\ frames'[i] = frames[i]
            BY <1>1, <1>2, <2>2
        <3>2. CASE i + 1 = n
            <4>1. i = n - 1 /\ n > 1
                BY <1>1, <3>1, <3>2
            <4> QED  BY <1>2, <1>5, <3>1, <3>2, <4>1
        <3>3. CASE i + 1 # n
            <4>1. i + 1 \in 1 .. n - 1
                BY <1>1, <3>1, <3>3
            <4> QED  BY <1>2, <1>4, <3>1, <4>1
        <3> QED  BY <3>2, <3>3
    <2> QED  BY <1>1, <2>1, <2>2
<1>9. frames'[1].left # NoTerm => frames'[1].left.from = 1
    <2>1. CASE n = 1
        BY <1>2, <1>5, <2>1
    <2>2. CASE n # 1
        <3>1. 1 \in 1 .. n - 1
            BY <1>1, <2>2
        <3> QED  BY <1>1, <1>2, <3>1 DEF Counts
    <2> QED  BY <2>1, <2>2
<1>10. Follows(frames'[Len(frames') - 1], Top', input')
    <2>1. Len(frames') - 1 = n + k - 1 /\ Top' = frames'[n + k]
        BY <1>1, <1>2 DEF Top
    <2> QED  BY <1>5, <2>1
<1>11. ret' = NoTerm
    OBVIOUS
<1>12. /\ \A i \in 1 .. Len(frames') : FrameCounts(input', frames'[i])
       /\ \A i \in 1 .. Len(frames') - 1 : Starts(frames'[i], frames'[i + 1])
    BY <1>1, <1>2, <1>7, <1>8
<1> QED  BY <1>9, <1>10, <1>11, <1>12 DEF Counts

LEMMA CountPops ==
    ASSUME TypeOK, TreeInv, Counts, status = "run", Pops, input' = input, ret' # NoTerm,
           Counted(input, ret'), ret'.to = Len(input),
           status' = "done" => ret'.from = 1,
           status' = "run" =>
                /\ Len(frames) > 1
                /\ ret'.from = StartAfter(frames[Len(frames) - 1], frames[Len(frames) - 1])
    PROVE  Counts'
<1> DEFINE n == Len(frames)
<1>1. n \in Nat \ {0} /\ frames # <<>>
    BY RunFacts DEF TreeInv
<1>2. Len(frames') = n - 1 /\ \A i \in 1 .. n - 1 : frames'[i] = frames[i]
    BY DEF Pops
<1>3. /\ \A i \in 1 .. n - 1 : i \in 1 .. n
      /\ \A i \in 1 .. n - 1 - 1 : i \in 1 .. n - 1 /\ i + 1 \in 1 .. n - 1
    BY <1>1
<1>4. \A i \in 1 .. Len(frames') : FrameCounts(input', frames'[i])
    BY <1>2, <1>3 DEF Counts
<1>5. \A i \in 1 .. Len(frames') - 1 : Starts(frames'[i], frames'[i + 1])
    BY <1>2, <1>3 DEF Counts
<1>6. frames' # <<>> /\ frames'[1].left # NoTerm => frames'[1].left.from = 1
    <2> SUFFICES ASSUME frames' # <<>>, frames'[1].left # NoTerm  PROVE frames'[1].left.from = 1
        OBVIOUS
    <2>1. 1 \in 1 .. n - 1
        <3>1. frames' \in Seq(Frame)
            BY DEF Pops
        <3> QED  BY <1>1, <1>2, <3>1
    <2> QED  BY <1>1, <1>2, <2>1 DEF Counts
<1>7. status' = "run" => ret'.from = StartAfter(Top', Top')
    <2> SUFFICES ASSUME status' = "run"  PROVE ret'.from = StartAfter(Top', Top')
        OBVIOUS
    <2>1. n > 1
        OBVIOUS
    <2>2. Top' = frames[n - 1]
        BY <1>1, <2>1, PopsNotEmpty
    <2> QED  BY <2>2
<1> QED  BY <1>4, <1>5, <1>6, <1>7 DEF Counts

LEMMA NoOperands ==
    /\ "type" \notin Operand \cup BinaryOp \cup TypeOp \cup PrefixOp
    /\ \A t \in BinaryOp \cup PrefixOp \cup {"="} : t \notin Operand \cup {"type"}
    /\ \A t \in TypeOp : t \notin Operand
    BY DEF Operand, BinaryOp, TypeOp, PrefixOp

\* In a source without a prefix "+" no call waits for the term after one.
LEMMA CountFacts ==
    ASSUME TypeOK, TreeInv, CountInv, Kept, NoPlus', status = "run"
    PROVE  /\ Counts /\ Len(input) \in Nat /\ frames # <<>>
           /\ Len(frames) \in Nat \ {0} /\ Top = frames[Len(frames)] /\ Top \in Frame
           /\ FrameCounts(input, Top) /\ PlaceOK(Top, Len(input))
           /\ Top.prefix # "+" /\ Top.call \in Nat
<1>1. /\ Len(input) \in Nat /\ frames # <<>> /\ Top \in Frame
      /\ Len(frames) \in Nat \ {0} /\ Top = frames[Len(frames)] /\ Top.call \in Nat
    BY RunFacts DEF TreeInv
<1>2. Counts
    BY <1>1, NoPlusStays DEF CountInv
<1>3. Len(frames) \in 1 .. Len(frames)
    BY <1>1
<1>4. FrameCounts(input, Top) /\ PlaceOK(Top, Len(input))
    BY <1>1, <1>2, <1>3 DEF Counts, TreeInv, PlacesOK
<1> QED  BY <1>1, <1>2, <1>4 DEF FrameCounts

LEMMA CountShiftPrefix ==
    ASSUME TypeOK, TreeInv, CountInv, ShiftPrefix, NoPlus'
    PROVE  Counts'
<1> DEFINE L == Len(input)
           f == frames[Len(frames) - 1]
<1>1. StackOK
    BY DEF TreeInv
<1>2. PICK g : /\ Becomes(g) /\ SameCall(Top, g)
               /\ g.prefix = next /\ g.left = NoTerm /\ g.op = Top.op
    BY <1>1, ShiftPrefixFacts
<1>3. /\ status = "run" /\ ret = NoTerm /\ Top.fn = "binary" /\ Top.left = NoTerm
      /\ Top.prefix = "none" /\ next \in PrefixOp /\ InputGrows(1)
      /\ input'[L + 1] = next /\ ret' = NoTerm /\ status' = "run"
    BY <1>1, ShiftPrefixFacts
<1>4. L \in Nat /\ Kept /\ Len(input') = L + 1
    BY <1>1, <1>3, RunFacts, GrowsKept
<1>5. Reads(g)
    BY <1>1, <1>2, <1>3, ReadingTop DEF Reads
<1>6. Counts /\ Follows(f, Top, input)
    BY <1>3, <1>4, CountFacts DEF Counts
<1>7. StartAfter(f, Top) = L + 1 /\ (L > 0 => input[L] \notin Operand \cup {"type"})
    BY <1>3, <1>6 DEF Follows
<1>8. next # "+"
    <2> SUFFICES ASSUME next = "+"  PROVE FALSE
        OBVIOUS
    <2>1. L + 1 \in 1 .. Len(input')
        BY <1>4
    <2>2. ~(input'[L + 1] = "+" /\ (L + 1 > 1 => input'[L + 1 - 1] \notin Operand \cup {"type"}))
        BY <2>1 DEF NoPlus, IsPrefixPlus
    <2>3. L + 1 > 1 => L > 0 /\ L + 1 - 1 = L /\ input'[L] = input[L]
        BY <1>4 DEF Kept
    <2> QED  BY <1>3, <1>7, <2>2, <2>3
<1>9. FrameCounts(input', g)
    BY <1>2, <1>3, <1>5, <1>8 DEF FrameCounts, Reads
<1>10. Follows(f, g, input')
    <2>1. StartAfter(f, g) = L + 1
        BY <1>2, <1>7, SameStart
    <2>2. next # "none" /\ next \notin Operand
        BY <1>3, NoOperands, TokensApart
    <2> QED  BY <1>2, <1>3, <1>4, <2>1, <2>2 DEF Follows
<1> QED  BY <1>2, <1>4, <1>5, <1>6, <1>9, <1>10, CountReads

LEMMA CountShiftOperand ==
    ASSUME TypeOK, TreeInv, CountInv, ShiftOperand, NoPlus'
    PROVE  Counts'
<1> DEFINE L == Len(input)
           f == frames[Len(frames) - 1]
<1>1. StackOK
    BY DEF TreeInv
<1>2. PICK g : /\ Becomes(g) /\ SameCall(Top, g)
               /\ g.prefix = "none" /\ g.op = Top.op
               /\ g.left \in Term /\ g.left.to = L + 1 /\ g.left.size = 1
               /\ g.left.from = IF Top.prefix = "none" THEN L + 1 ELSE L
    BY <1>1, ShiftOperandFacts
<1>3. /\ status = "run" /\ ret = NoTerm /\ Top.fn = "binary" /\ Top.left = NoTerm
      /\ next \in Operand /\ InputGrows(1)
      /\ input'[L + 1] = next /\ ret' = NoTerm /\ status' = "run"
    BY <1>1, ShiftOperandFacts
<1>4. L \in Nat /\ Kept /\ Len(input') = L + 1
    BY <1>1, <1>3, RunFacts, GrowsKept
<1>5. Reads(g) /\ g.op = "none"
    BY <1>1, <1>2, <1>3, ReadingTop DEF Reads
<1>6. Counts /\ Follows(f, Top, input)
    BY <1>3, <1>4, CountFacts DEF Counts
<1>7. /\ Top.prefix = "none" => StartAfter(f, Top) = L + 1
      /\ Top.prefix # "none" => StartAfter(f, Top) = L /\ input[L] \notin Operand
    BY <1>3, <1>6 DEF Follows
<1>8. OperandsAt(input', g.left.from, g.left.to) = {L + 1}
    <2>1. CASE Top.prefix = "none"
        BY <1>2, <1>3, <1>4, <2>1 DEF OperandsAt
    <2>2. CASE Top.prefix # "none"
        <3>1. Top.call <= L
            BY <1>3, <2>2 DEF TreeInv, PlacesOK
        <3>2. L \in 1 .. L
            <4>1. Top.call \in 1 .. L + 1
                BY <1>3, <1>4, CountFacts DEF PlaceOK
            <4> QED  BY <1>4, <3>1, <4>1
        <3>3. input'[L] \notin Operand
            BY <1>4, <1>7, <2>2, <3>2 DEF Kept
        <3>4. L .. L + 1 = {L, L + 1}
            BY <1>4
        <3> QED  BY <1>2, <1>3, <2>2, <3>3, <3>4 DEF OperandsAt
    <2> QED  BY <2>1, <2>2
<1>9. Counted(input', g.left)
    <2>1. Cardinality({L + 1}) = 1
        BY FS_Singleton
    <2> QED  BY <1>2, <1>8, <2>1 DEF Counted
<1>10. FrameCounts(input', g)
    BY <1>2, <1>5, <1>9 DEF FrameCounts
<1>11. g.left # NoTerm /\ g.left.from = StartAfter(f, Top)
    BY <1>2, <1>7, TermFacts
<1>12. Follows(f, g, input')
    BY <1>2, <1>4, <1>11 DEF Follows
<1> QED  BY <1>4, <1>5, <1>6, <1>10, <1>11, <1>12, CountReads

LEMMA CountPlus ==
    ASSUME TypeOK, TreeInv, CountInv, NoPlus'
    PROVE  ~ShiftPlus /\ ~TakePlus
<1>1. StackOK
    BY DEF TreeInv
<1>2. ASSUME ShiftPlus  PROVE FALSE
    <2>1. status = "run" /\ Top.prefix = "+" /\ InputGrows(1)
        BY <1>1, <1>2, ShiftPlusFacts
    <2>2. Kept
        BY <1>1, <2>1, RunFacts, GrowsKept
    <2> QED  BY <2>1, <2>2, CountFacts
<1>3. ASSUME TakePlus  PROVE FALSE
    <2>1. status = "run" /\ Top.prefix = "+" /\ input' = input
        BY <1>1, <1>3, TakePlusFacts
    <2>2. Kept
        BY <1>1, <2>1, RunFacts, SameKept
    <2> QED  BY <2>1, <2>2, CountFacts
<1> QED  BY <1>2, <1>3

LEMMA CountShiftBinary ==
    ASSUME TypeOK, TreeInv, CountInv, ShiftBinary, NoPlus'
    PROVE  Counts'
<1> DEFINE L == Len(input)
           n == Len(frames)
           f == frames[n - 1]
<1>1. StackOK
    BY DEF TreeInv
<1>2. PICK g : /\ Pushes(g, 1) /\ SameCall(Top, g)
               /\ g.prefix = "none" /\ g.left = Top.left /\ g.op = next /\ g.at = L + 1
    BY <1>1, ShiftBinaryFacts
<1>3. /\ status = "run" /\ ret = NoTerm /\ Top.fn = "binary" /\ Top.left \in Term
      /\ next \in BinaryOp /\ InputGrows(1) /\ input'[L + 1] = next
      /\ ret' = NoTerm /\ status' = "run"
      /\ frames'[n + 1].left = NoTerm /\ frames'[n + 1].op = "none" /\ frames'[n + 1].prefix = "none"
    BY <1>1, ShiftBinaryFacts DEF IsCall
<1>4. L \in Nat /\ Kept /\ Len(input') = L + 1 /\ Top.left # NoTerm
    BY <1>1, <1>3, RunFacts, GrowsKept, TermFacts
<1>5. /\ Counts /\ Follows(f, Top, input)
      /\ n \in Nat \ {0} /\ Top = frames[n] /\ Top \in Frame
      /\ FrameCounts(input, Top) /\ PlaceOK(Top, L)
    BY <1>3, <1>4, CountFacts DEF Counts
<1>6. Top.left.to = L /\ next \notin Operand \cup {"type"} /\ next # "=" /\ next # "none"
    BY <1>3, <1>4, <1>5, NoOperands, NoOperator DEF Follows
<1>7. FrameCounts(input', g)
    <2>1. FrameCounts(input', Top)
        BY <1>4, <1>5, FrameCountsStay
    <2>2. g.left.to = g.at - 1 /\ input'[g.at] \notin Operand
        BY <1>2, <1>3, <1>4, <1>6
    <2> QED  BY <1>2, <2>1, <2>2 DEF FrameCounts
<1>8. n - 1 \in 1 .. n - 1 /\ n > 1 /\ n - 1 + 1 = n
    BY <1>1, <1>3, <1>5, ReadingDepth
<1>9. Starts(f, g) /\ n # 1
    <2>1. Starts(f, Top)
        BY <1>5, <1>8 DEF Counts
    <2> QED  BY <1>2, <1>8, <2>1 DEF Starts, StartAfter, SameCall
<1>10. Follows(frames'[n + 1 - 1], frames'[n + 1], input')
    <2>1. n + 1 - 1 = n /\ frames'[n] = g
        BY <1>2, <1>5 DEF Pushes
    <2>2. StartAfter(g, frames'[n + 1]) = L + 2
        BY <1>2, <1>4, <1>6 DEF StartAfter
    <2> QED  BY <1>3, <1>4, <1>6, <2>1, <2>2 DEF Follows
<1>11. /\ \A i \in n + 1 .. n + 1 :
                frames'[i].left = NoTerm /\ frames'[i].op = "none" /\ frames'[i].prefix = "none"
       /\ g.op # "="
    BY <1>2, <1>3, <1>5, <1>6
<1> HIDE DEF f
<1> QED  BY <1>2, <1>3, <1>4, <1>5, <1>7, <1>9, <1>10, <1>11, CountPushes DEF f

LEMMA CountShiftType ==
    ASSUME TypeOK, TreeInv, CountInv, ShiftType, NoPlus'
    PROVE  Counts'
<1> DEFINE L == Len(input)
           f == frames[Len(frames) - 1]
<1>1. StackOK
    BY DEF TreeInv
<1>2. PICK g : /\ Becomes(g) /\ SameCall(Top, g)
               /\ g.prefix = "none" /\ g.op = "none"
               /\ g.left \in Term /\ g.left.from = Top.left.from
               /\ g.left.to = L + 2 /\ g.left.size = Top.left.size
    BY <1>1, ShiftTypeFacts
<1>3. /\ status = "run" /\ ret = NoTerm /\ Top.fn = "binary" /\ Top.left \in Term
      /\ next \in TypeOp /\ InputGrows(2)
      /\ input'[L + 1] = next /\ input'[L + 2] = "type" /\ ret' = NoTerm /\ status' = "run"
    BY <1>1, ShiftTypeFacts
<1>4. L \in Nat /\ Kept /\ Len(input') = L + 2
    BY <1>1, <1>3, RunFacts, GrowsKept
<1>5. Reads(g) /\ Top.left # NoTerm /\ g.left # NoTerm /\ Top.left.from \in Nat
    BY <1>2, <1>3, TermFacts DEF Reads
<1>6. /\ Counts /\ Follows(f, Top, input)
      /\ FrameCounts(input, Top) /\ PlaceOK(Top, L) /\ Top \in Frame
      /\ Len(frames) \in Nat \ {0} /\ Top = frames[Len(frames)]
    BY <1>3, <1>4, CountFacts DEF Counts
<1>7. Top.left.to = L
    BY <1>5, <1>6 DEF Follows
<1>8. Counted(input', g.left)
    <2>1. Counted(input', Top.left)
        <3>1. FrameCounts(input', Top)
            BY <1>4, <1>6, FrameCountsStay
        <3> QED  BY <1>5, <3>1 DEF FrameCounts
    <2>2. input'[L + 1] \notin Operand /\ input'[L + 2] \notin Operand
        BY <1>3, NoOperands
    <2>3. OperandsAt(input', Top.left.from, L + 2) = OperandsAt(input', Top.left.from, L)
        <3>1. \A k \in Top.left.from .. L + 2 :
                    k \in Top.left.from .. L \/ k = L + 1 \/ k = L + 2
            BY <1>4, <1>5
        <3>2. \A k \in Top.left.from .. L : k \in Top.left.from .. L + 2
            BY <1>4, <1>5
        <3> QED  BY <2>2, <3>1, <3>2 DEF OperandsAt
    <2> QED  BY <1>2, <1>7, <2>1, <2>3 DEF Counted
<1>9. FrameCounts(input', g)
    BY <1>2, <1>8 DEF FrameCounts
<1>10. g.left.from = StartAfter(f, Top)
    <2>1. Len(frames) - 1 \in 1 .. Len(frames) - 1 /\ Len(frames) - 1 + 1 = Len(frames)
        BY <1>1, <1>3, <1>6, ReadingDepth
    <2>2. Starts(f, Top)
        BY <1>6, <2>1 DEF Counts
    <2> QED  BY <1>2, <1>5, <2>2 DEF Starts
<1>11. Follows(f, g, input')
    BY <1>2, <1>4, <1>5 DEF Follows
<1> QED  BY <1>4, <1>5, <1>6, <1>9, <1>10, <1>11, CountReads

LEMMA CountTakeRight ==
    ASSUME TypeOK, TreeInv, CountInv, TakeRight, NoPlus'
    PROVE  Counts'
<1> DEFINE L == Len(input)
           f == frames[Len(frames) - 1]
<1>1. StackOK
    BY DEF TreeInv
<1>2. PICK g : /\ Becomes(g) /\ SameCall(Top, g)
               /\ g.prefix = "none" /\ g.op = "none" /\ g.left = Joined(Top.left, ret)
    BY <1>1, TakeRightFacts
<1>3. /\ status = "run" /\ ret \in Term /\ ret # NoTerm /\ Top.fn = "binary"
      /\ Top.left \in Term /\ Top.left # NoTerm /\ Top.op \in BinaryOp /\ Top.op # "none"
      /\ input' = input /\ ret' = NoTerm /\ status' = "run"
    BY <1>1, TakeRightFacts, TermFacts, NoOperator
<1>4. L \in Nat /\ Kept
    BY <1>1, <1>3, RunFacts, SameKept
<1>5. Reads(g) /\ g.left \in Term /\ g.left # NoTerm /\ g.left.from = Top.left.from /\ g.left.to = ret.to
    BY <1>2, <1>3, TermFacts DEF Reads
<1>6. /\ Counts /\ FrameCounts(input, Top) /\ PlaceOK(Top, L) /\ Top \in Frame
      /\ Len(frames) \in Nat \ {0} /\ Top = frames[Len(frames)]
    BY <1>3, <1>4, CountFacts
<1>7. Counted(input, ret) /\ ret.to = L /\ ret.from = Top.at + 1
    BY <1>3, <1>6 DEF Counts, StartAfter
<1>8. Counted(input, g.left)
    <2>1. /\ Top.at \in Nat /\ Top.left.from < Top.at /\ Top.at <= ret.to
          /\ Top.left.to = Top.at - 1 /\ input[Top.at] \notin Operand /\ Counted(input, Top.left)
        BY <1>3, <1>6, <1>7, FrameFields DEF FrameCounts, PlaceOK
    <2> QED  BY <1>2, <1>3, <1>7, <2>1, CountedJoined
<1>9. FrameCounts(input', g)
    BY <1>2, <1>3, <1>8 DEF FrameCounts
<1>10. g.left.from = StartAfter(f, Top)
    <2>1. Len(frames) - 1 \in 1 .. Len(frames) - 1 /\ Len(frames) - 1 + 1 = Len(frames)
        BY <1>1, <1>3, <1>6, ReadingDepth
    <2>2. Starts(f, Top)
        BY <1>6, <2>1 DEF Counts
    <2> QED  BY <1>3, <1>5, <2>2 DEF Starts
<1>11. Follows(f, g, input')
    BY <1>3, <1>5, <1>7 DEF Follows
<1> QED  BY <1>4, <1>5, <1>6, <1>9, <1>10, <1>11, CountReads

LEMMA CountReturnBinary ==
    ASSUME TypeOK, TreeInv, CountInv, ReturnBinary, NoPlus'
    PROVE  Counts'
<1> DEFINE L == Len(input)
           n == Len(frames)
           f == frames[n - 1]
<1>1. StackOK
    BY DEF TreeInv
<1>2. /\ status = "run" /\ ret = NoTerm /\ Top.fn = "binary" /\ Top.left \in Term
      /\ Top.left # NoTerm /\ n > 1 /\ Pops
      /\ ret' = Top.left /\ ret' # NoTerm /\ status' = "run" /\ input' = input
    BY <1>1, ReturnBinaryFacts, TermFacts
<1>3. L \in Nat /\ Kept
    BY <1>1, <1>2, RunFacts, SameKept
<1>4. /\ Counts /\ Follows(f, Top, input) /\ FrameCounts(input, Top)
      /\ n \in Nat \ {0} /\ Top = frames[n]
    BY <1>2, <1>3, CountFacts DEF Counts
<1>5. Counted(input, ret') /\ ret'.to = L
    BY <1>2, <1>4 DEF FrameCounts, Follows
<1>6. n - 1 \in 1 .. n - 1 /\ n - 1 + 1 = n /\ n - 1 \in 1 .. n
    BY <1>2, <1>4
<1>7. /\ Starts(f, Top) /\ Waiting(f) /\ Called(f, Top) /\ FrameCounts(input, f)
    BY <1>1, <1>4, <1>6 DEF Counts, StackOK
<1> HIDE DEF f
<1>8. ret'.from = StartAfter(f, f)
    <2>1. ret'.from = StartAfter(f, Top)
        BY <1>2, <1>7 DEF Starts
    <2>2. f.op = "none" => Top.call = f.call
        BY <1>2, <1>7, NoOperator DEF Waiting, Called, FrameCounts
    <2> QED  BY <2>1, <2>2 DEF StartAfter
<1> QED  BY <1>2, <1>4, <1>5, <1>8, CountPops DEF f

LEMMA CountAssign ==
    ASSUME TypeOK, TreeInv, CountInv, Assign, NoPlus'
    PROVE  Counts'
<1> DEFINE L == Len(input)
           n == Len(frames)
           f == frames[n - 1]
<1>1. StackOK
    BY DEF TreeInv
<1>2. PICK g : /\ Pushes(g, 2) /\ SameCall(Top, g)
               /\ g.prefix = "none" /\ g.op = "=" /\ g.at = L + 1 /\ g.left = ret
    BY <1>1, AssignFacts
<1>3. /\ status = "run" /\ ret \in Term /\ ret # NoTerm /\ Top.fn = "term" /\ Top.left = NoTerm
      /\ Top.op = "none" /\ next = "=" /\ InputGrows(1) /\ input'[L + 1] = next
      /\ IsCall(frames'[n + 1], "term", L + 2, 0) /\ IsCall(frames'[n + 2], "binary", L + 2, 0)
      /\ ret' = NoTerm /\ status' = "run"
    BY <1>1, AssignFacts, TermFacts
<1>4. L \in Nat /\ Kept /\ Len(input') = L + 1
    BY <1>1, <1>3, RunFacts, GrowsKept
<1>5. /\ Counts /\ n \in Nat \ {0} /\ Top = frames[n] /\ PlaceOK(Top, L) /\ Top.call \in Nat
      /\ frames # <<>>
    BY <1>3, <1>4, CountFacts
<1>6. Counted(input, ret) /\ ret.to = L /\ ret.from = Top.call
    BY <1>3, <1>5 DEF Counts, StartAfter
<1>7. FrameCounts(input', g)
    <2>1. 1 <= ret.from
        BY <1>5, <1>6 DEF PlaceOK
    <2>2. Counted(input', ret)
        BY <1>3, <1>4, <1>6, <2>1, CountedStays
    <2>3. g.left.to = g.at - 1 /\ input'[g.at] \notin Operand
        BY <1>2, <1>3, <1>4, <1>6, NoOperands
    <2> QED  BY <1>2, <2>2, <2>3 DEF FrameCounts
<1>8. n = 1 => g.left.from = 1
    <2> SUFFICES ASSUME n = 1  PROVE g.left.from = 1
        OBVIOUS
    <2>1. frames[1].call = 1
        BY <1>1, <1>5 DEF StackOK
    <2> QED  BY <1>2, <1>5, <1>6, <2>1
<1>9. n > 1 => Starts(f, g)
    <2> SUFFICES ASSUME n > 1  PROVE Starts(f, g)
        OBVIOUS
    <2>1. n - 1 \in 1 .. n - 1 /\ n - 1 + 1 = n
        BY <1>5
    <2>2. Starts(f, Top) /\ Waiting(f) /\ Called(f, Top)
        BY <1>1, <1>5, <2>1 DEF Counts, StackOK
    <2>3. f.op \in {"none", "="}
        BY <1>3, <2>2 DEF Waiting, Called
    <2>4. g.call = Top.call
        BY <1>2 DEF SameCall
    <2> QED  BY <1>2, <1>6, <2>2, <2>3, <2>4 DEF Starts, StartAfter
<1>10. Follows(frames'[n + 2 - 1], frames'[n + 2], input')
    <2>1. n + 2 - 1 = n + 1
        BY <1>5
    <2>2. StartAfter(frames'[n + 1], frames'[n + 2]) = L + 2
        BY <1>3 DEF StartAfter, IsCall
    <2>3. input'[L + 1] \notin Operand \cup {"type"}
        BY <1>3, NoOperands
    <2> QED  BY <1>3, <1>4, <2>1, <2>2, <2>3 DEF Follows, IsCall
<1>11. \A i \in n + 1 .. n + 2 :
            frames'[i].left = NoTerm /\ frames'[i].op = "none" /\ frames'[i].prefix = "none"
    <2>1. \A i \in n + 1 .. n + 2 : i = n + 1 \/ i = n + 2
        BY <1>5
    <2> QED  BY <1>3, <2>1 DEF IsCall
<1>12. frames'[n + 1].call = g.at + 1
    BY <1>2, <1>3, <1>4 DEF IsCall
<1> HIDE DEF f
<1> QED
    BY <1>2, <1>3, <1>4, <1>5, <1>7, <1>8, <1>9, <1>10, <1>11, <1>12, CountPushes DEF f

LEMMA CountReturnTerm ==
    ASSUME TypeOK, TreeInv, CountInv, ReturnTerm, NoPlus'
    PROVE  Counts'
<1> DEFINE L == Len(input)
           n == Len(frames)
           f == frames[n - 1]
<1>1. StackOK
    BY DEF TreeInv
<1>2. /\ status = "run" /\ ret \in Term /\ ret # NoTerm /\ Top.fn = "term"
      /\ Pops /\ input' = input
    BY <1>1, ReturnTermFacts, TermFacts
<1>3. \/ n = 1 /\ status' = "done"
      \/ n > 1 /\ status' = "run"
    BY <1>1, ReturnTermFacts
<1>4. \/ Top.left = NoTerm /\ Top.op = "none" /\ ret' = ret
      \/ Top.left \in Term /\ Top.op = "=" /\ ret' = Joined(Top.left, ret)
    BY <1>1, ReturnTermFacts
<1>5. L \in Nat /\ Kept
    BY <1>1, <1>2, RunFacts, SameKept
<1>6. /\ Counts /\ FrameCounts(input, Top) /\ PlaceOK(Top, L) /\ Top \in Frame
      /\ n \in Nat \ {0} /\ Top = frames[n] /\ frames # <<>>
    BY <1>2, <1>5, CountFacts
<1>7. Counted(input, ret) /\ ret.to = L /\ ret.from = StartAfter(Top, Top)
    BY <1>2, <1>6 DEF Counts
<1>8. /\ ret' # NoTerm /\ Counted(input, ret') /\ ret'.to = L
      /\ ret'.from = IF Top.op = "none" THEN Top.call ELSE Top.left.from
      /\ Top.op # "none" => Top.left # NoTerm
    <2>1. CASE Top.left = NoTerm /\ Top.op = "none" /\ ret' = ret
        BY <1>2, <1>7, <2>1 DEF StartAfter
    <2>2. CASE Top.left \in Term /\ Top.op = "=" /\ ret' = Joined(Top.left, ret)
        <3>1. Top.op # "none" /\ Top.left # NoTerm /\ ret.from = Top.at + 1
            BY <1>7, <2>2, TermFacts DEF StartAfter
        <3>2. /\ Top.at \in Nat /\ Top.left.from < Top.at /\ Top.at <= ret.to
              /\ Top.left.to = Top.at - 1 /\ input[Top.at] \notin Operand /\ Counted(input, Top.left)
            BY <1>6, <1>7, <3>1, FrameFields DEF FrameCounts, PlaceOK
        <3>3. Counted(input, Joined(Top.left, ret))
            BY <1>2, <1>7, <2>2, <3>1, <3>2, CountedJoined
        <3> QED  BY <1>2, <1>7, <2>2, <3>1, <3>3, TermFacts
    <2> QED  BY <1>4, <2>1, <2>2
<1>9. n = 1 => ret'.from = 1
    <2> SUFFICES ASSUME n = 1  PROVE ret'.from = 1
        OBVIOUS
    <2>1. frames[1].call = 1 /\ (frames[1].left # NoTerm => frames[1].left.from = 1)
        BY <1>1, <1>6 DEF StackOK, Counts
    <2> QED  BY <1>6, <1>8, <2>1
<1>10. n > 1 => ret'.from = StartAfter(f, f)
    <2> SUFFICES ASSUME n > 1  PROVE ret'.from = StartAfter(f, f)
        OBVIOUS
    <2>1. n - 1 \in 1 .. n - 1 /\ n - 1 + 1 = n /\ n - 1 \in 1 .. n
        BY <1>6
    <2>2. Starts(f, Top) /\ Waiting(f) /\ Called(f, Top) /\ FrameCounts(input, f)
        BY <1>1, <1>6, <2>1 DEF Counts, StackOK
    <2> HIDE DEF f
    <2>3. f.op = "="
        BY <1>2, <2>2 DEF Waiting, Called, FrameCounts
    <2> QED  BY <1>8, <2>2, <2>3 DEF Starts, StartAfter
<1> HIDE DEF f
<1>11. /\ status' = "done" => ret'.from = 1
       /\ status' = "run" => n > 1 /\ ret'.from = StartAfter(f, f)
    BY <1>3, <1>9, <1>10
<1> QED  BY <1>2, <1>6, <1>8, <1>11, CountPops DEF f

LEMMA InitCount == Init => CountInv
<1> SUFFICES ASSUME Init  PROVE Counts
    BY DEF CountInv
<1>1. input = <<>> /\ ret = NoTerm /\ status = "run" /\ frames = TermCalls(1) /\ Len(input) = 0
    BY DEF Init
<1>2. /\ frames = <<Call("term", 1, 0), Call("binary", 1, 0)>>
      /\ IsCall(Call("term", 1, 0), "term", 1, 0) /\ IsCall(Call("binary", 1, 0), "binary", 1, 0)
    BY <1>1, NewCall DEF TermCalls, IsCall
<1>3. /\ Len(frames) = 2 /\ Top = frames[2]
      /\ IsCall(frames[1], "term", 1, 0) /\ IsCall(frames[2], "binary", 1, 0)
    BY <1>2 DEF Top
<1>4. \A i \in 1 .. 2 : frames[i].left = NoTerm /\ frames[i].op = "none" /\ frames[i].prefix = "none"
    BY <1>3 DEF IsCall
<1>5. \A i \in 1 .. Len(frames) : FrameCounts(input, frames[i])
    BY <1>3, <1>4 DEF FrameCounts
<1>6. ASSUME NEW i \in 1 .. Len(frames) - 1
      PROVE  Starts(frames[i], frames[i + 1])
    <2>1. i = 1 /\ i + 1 = 2 /\ 1 \in 1 .. 2 /\ 2 \in 1 .. 2
        BY <1>3
    <2> QED  BY <1>4, <2>1 DEF Starts
<1>7. Follows(frames[Len(frames) - 1], Top, input)
    <2>1. Len(frames) - 1 = 1
        BY <1>3
    <2>2. StartAfter(frames[1], frames[2]) = 1
        BY <1>3 DEF StartAfter, IsCall
    <2>3. frames[2].left = NoTerm /\ frames[2].prefix = "none" /\ Top = frames[2]
        BY <1>3, <1>4
    <2>4. Len(input) + 1 = 1 /\ ~(Len(input) > 0)
        BY <1>1
    <2>5. Follows(frames[1], frames[2], input)
        BY <2>2, <2>3, <2>4 DEF Follows
    <2> QED  BY <2>1, <2>3, <2>5
<1>8. frames[1].left = NoTerm
    BY <1>4
<1> QED  BY <1>1, <1>5, <1>6, <1>7, <1>8 DEF Counts

LEMMA NextCount == TypeOK /\ TreeInv /\ CountInv /\ [Next]_vars => CountInv'
<1> SUFFICES ASSUME TypeOK, TreeInv, CountInv, [Next]_vars, NoPlus'  PROVE Counts'
    BY DEF CountInv
<1>1. CASE ShiftPrefix  BY <1>1, CountShiftPrefix
<1>2. CASE ShiftOperand  BY <1>2, CountShiftOperand
<1>3. CASE ShiftPlus \/ TakePlus  BY <1>3, CountPlus
<1>4. CASE ShiftBinary  BY <1>4, CountShiftBinary
<1>5. CASE ShiftType  BY <1>5, CountShiftType
<1>6. CASE TakeRight  BY <1>6, CountTakeRight
<1>7. CASE ReturnBinary  BY <1>7, CountReturnBinary
<1>8. CASE Assign  BY <1>8, CountAssign
<1>9. CASE ReturnTerm  BY <1>9, CountReturnTerm
<1>10. CASE PrefixFails \/ TypeFails \/ AssignFails
    <2>1. status' = "fatal" /\ UNCHANGED <<input, next, frames, ret, nodes>>
        BY <1>10, FailFacts
    <2>2. NoPlus
        BY <2>1 DEF NoPlus, IsPrefixPlus
    <2> QED  BY <2>1, <2>2 DEF CountInv, Counts
<1>11. CASE UNCHANGED vars
    <2>1. NoPlus
        BY <1>11 DEF vars, NoPlus, IsPrefixPlus
    <2> QED  BY <1>11, <2>1 DEF vars, CountInv, Counts, Top
<1> QED
    BY <1>1, <1>2, <1>3, <1>4, <1>5, <1>6, <1>7, <1>8, <1>9, <1>10, <1>11 DEF Next

\* Every operand that was read is in the tree of the term that parseTerm
\* returns, unless a prefix "+" stands before one: however the calls nest, each
\* takes up what its callees return.
THEOREM OperandsStay == Spec => []OnlyPlusLosesOperands
<1>1. Spec => []CountInv
    BY InitCount, NextCount, Invariance, PTL DEF Spec
<1>2. TypeOK /\ CountInv => OnlyPlusLosesOperands
    <2> SUFFICES ASSUME TypeOK, CountInv, NoPlus, status = "done"
                 PROVE  ret.size = Cardinality({k \in 1 .. Len(input) : input[k] \in Operand})
        BY DEF OnlyPlusLosesOperands, OperandsKept, NoPlus
    <2>1. Counts
        BY DEF CountInv
    <2>2. ret # NoTerm /\ Counted(input, ret) /\ ret.to = Len(input) /\ ret.from = 1
        BY <2>1 DEF Counts
    <2> QED  BY <2>2 DEF Counted, OperandsAt
<1> QED  BY <1>1, <1>2, Invariance, PTL

=============================================================================
