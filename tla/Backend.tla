------------------------------ MODULE Backend -------------------------------
(***************************************************************************)
(* The type checker and, for a program that it accepts, the emitter, as    *)
(* main calls them: the emitter reads the types that the other has left    *)
(* at the terms, those included that were not resolved any further.        *)
(***************************************************************************)
EXTENDS Terms, Functions

CONSTANT Programs   \* what the parser returns

ASSUME BackendAssumption == NULL \notin Nat /\ \A p \in Programs : WellFormed(p)

VARIABLES
    program, heap, typed, declType, status,
    constraint, stack, decl, currentReturnType, ignored,    \* of Typer
    frames, symbol, lines, max, emitted                     \* of Emitter

T == INSTANCE Typer

E == INSTANCE Emitter

typerVars == <<constraint, stack, decl, currentReturnType, ignored>>
emitterVars == <<frames, symbol, lines, max, emitted>>
vars == <<program, heap, typed, declType, status, typerVars, emitterVars>>

Init == T!Init /\ E!Init

Next ==
    \/ T!Next /\ UNCHANGED emitterVars
    \/ E!Next /\ UNCHANGED typerVars

Spec == Init /\ [][Next]_vars

-----------------------------------------------------------------------------
Idents == T!Names(program) \ {NULL}
Node == DOMAIN heap.type
TermAt == DOMAIN program.terms

TypeOK ==
    /\ heap \in T!Heap
    /\ heap.is \in [Node -> Node]
    /\ constraint \in [Idents -> Node \cup {NULL}]
    /\ typed \in [TermAt -> Node \cup {NULL}]
    /\ declType \in [DOMAIN program.decls -> Node \cup {NULL}]
    /\ stack \in Seq([term : TermAt \cup {NULL}, at : Nat,
                      fun : Node \cup {NULL}, prev : Node \cup {NULL}])
    /\ currentReturnType \in Node \cup {NULL}
    /\ decl \in 1 .. Len(program.decls) + 1
    /\ ignored \in BOOLEAN
    /\ frames \in Seq([term : TermAt, at : Nat, result : E!Symbol \cup {NULL}, label : Nat])
    /\ symbol \in [TermAt -> E!Symbol \cup {NULL}]
    /\ lines \in Seq(E!Line)
    /\ max \in [local : Nat, label : Nat, struct : Nat, global : Nat]
    /\ emitted \in 0 .. Len(program.decls)
    /\ status \in {"typing", "typed", "emitted", "fatal", "crash"}

-----------------------------------------------------------------------------
(* Types *)

Is(n) == heap.type[heap.is[n]]

\* Types that are equal by what they stand for in h.
EqualUnder(h, a, b) ==
    LET equal[p \in (DOMAIN h.type) \X (DOMAIN h.type)] ==
            \/ h.is[p[1]] = h.is[p[2]]
            \/ LET l == h.type[h.is[p[1]]]
                   r == h.type[h.is[p[2]]]
               IN  /\ l.kind # "var" /\ l.kind = r.kind /\ Len(l.parts) = Len(r.parts)
                   /\ \A i \in DOMAIN l.parts :
                        /\ l.parts[i].name = r.parts[i].name
                        /\ equal[<<l.parts[i].type, r.parts[i].type>>]
    IN  equal[<<a, b>>]

\* Under the final substitution.
Equal(a, b) == EqualUnder(heap, a, b)

Kind(t) == program.terms[t].kind
KidType(t, i) == typed[program.terms[t].kids[i]]
KidIs(t, i) == Is(KidType(t, i))
PartsOf(t) == Is(typed[t]).parts

\* The typing rules, each for a term and its parts.
VarOK(t) == Equal(typed[t], constraint[program.terms[t].names[1]])

FunctionOK(t) ==
    LET term == program.terms[t]
    IN  /\ \A i \in 2 .. Len(term.names) : Equal(PartsOf(t)[i - 1].type, constraint[term.names[i]])
        /\ \A i \in DOMAIN term.notes :
            term.notes[i] # NULL => Equal(PartsOf(t)[i].type, term.notes[i])
        /\ Equal(KidType(t, 1), LastType(PartsOf(t)))

ApplicationOK(t) ==
    LET callee == KidIs(t, 1).parts
    IN  /\ Len(callee) = Len(program.terms[t].kids)
        /\ \A i \in 1 .. Len(callee) - 1 : Equal(KidType(t, i + 1), callee[i].type)
        /\ Equal(typed[t], LastType(callee))

\* A return agrees with the function that it is written in.
ReturnOK(t) ==
    LET enclosing == program.decls[DeclOf(program, t)].exp
    IN  /\ Kind(enclosing) = "function"
        /\ Equal(KidType(t, 1), LastType(PartsOf(enclosing)))

BinaryOK(t) ==
    LET op == program.terms[t].op
        kinds == {KidIs(t, 1).kind, KidIs(t, 2).kind}
    IN  /\ Equal(KidType(t, 1), KidType(t, 2)) \/ (op = "+" /\ "pointer" \in kinds)
        /\ op \in Relational \cup Equality \cup Logical => Is(typed[t]).kind = "bool"
        /\ op \in Relational \cup Arithmetic => kinds \subseteq Numeric
        /\ op = "%" => kinds \subseteq Integral
        /\ op \in Logical => kinds = {"bool"}
        /\ op \in Arithmetic \cup {"%"} => Equal(typed[t], KidType(t, 1))

ConditionalOK(t) ==
    /\ KidIs(t, 1).kind = "bool"
    /\ Equal(typed[t], KidType(t, 2))
    /\ Len(program.terms[t].kids) = 3 => Equal(KidType(t, 3), KidType(t, 2))

StatementsOK(t) ==
    LET term == program.terms[t]
    IN  \A i \in DOMAIN term.names :
            IF term.names[i] = NULL
            THEN KidIs(t, i).kind \in Structs
            ELSE /\ Equal(KidType(t, i), constraint[term.names[i]])
                 /\ term.notes[i] # NULL => Equal(KidType(t, i), term.notes[i])

\* A term and its parts, by the rule for it.
Agrees(t) ==
    /\ Kind(t) = "var" => VarOK(t)
    /\ Kind(t) = "function" => FunctionOK(t)
    /\ Kind(t) = "application" => ApplicationOK(t)
    /\ Kind(t) = "return" => ReturnOK(t)
    /\ Kind(t) = "binary" => BinaryOK(t)
    /\ Kind(t) = "conditional" => ConditionalOK(t)
    /\ Kind(t) = "assignment" => Equal(KidType(t, 1), KidType(t, 2))
    /\ Kind(t) = "block" => StatementsOK(t)

\* A program that the type checker accepts is well typed: when all constraints
\* are in, every term agrees with its parts by the typing rules, though most of
\* the types were looked at long before.  Except where an answer was false and
\* is ignored, in an assignment.
WellTyped ==
    status = "typed" /\ frames = <<>> /\ emitted = 0 /\ ~ignored => \A t \in TermAt : Agrees(t)

-----------------------------------------------------------------------------
(* The lines of an emitted program *)

LineAt == DOMAIN lines

Defines(i, label) == lines[i].op = "label" /\ lines[i].labels = <<label>>

\* Every jump goes forward, to a label of the same function that is defined
\* once in the whole text.
JumpsLand ==
    status = "emitted" => \A i \in LineAt : \A k \in DOMAIN lines[i].labels :
        \E j \in LineAt :
            /\ Defines(j, lines[i].labels[k])
            /\ \A h \in LineAt : Defines(h, lines[i].labels[k]) => h = j
            /\ lines[i].op # "label" =>
                j > i /\ \A h \in i .. j : lines[h].op \notin {"function", "end"}

Writes(i) == {s \in Range(lines[i].to) : s.space = "local"}

\* A temporary of an identifier is written only by its declaration and by
\* assignments, and one that the emitter has made only for the term it was made
\* for: the two draw on one numbering, and it continues over all functions.
LocalsDistinct ==
    status = "emitted" => \A i, j \in LineAt : \A s \in Writes(i) \cap Writes(j) :
        IF s.id < program.maxId
        THEN program.terms[lines[i].of].kind \in {"assignment", "block"}
        ELSE lines[i].of = lines[j].of

\* Where the execution goes from a line.
Successors(i) ==
    CASE lines[i].op \in {"ret", "end"} -> {}
      [] lines[i].op \in {"jmp", "jnz"} ->
            {j \in LineAt : \E k \in DOMAIN lines[i].labels : Defines(j, lines[i].labels[k])}
      [] OTHER -> {i + 1}

\* Some path leads from the head of the function to line i, on which no line
\* writes s.
Unwritten(s, i) ==
    LET path[j \in LineAt] ==
            \/ lines[j].op = "function"
            \/ \E k \in 1 .. j - 1 :
                j \in Successors(k) /\ s \notin Range(lines[k].to) /\ path[k]
    IN  path[i]

Below(t) ==
    LET below[k \in 0 .. t] ==
            k = t \/ \E p \in k + 1 .. t : k \in Range(program.terms[p].kids) /\ below[p]
    IN  {k \in 1 .. t : below[k]}

Uses(name, t) == \E k \in Below(t) : program.terms[k].kind = "var" /\ program.terms[k].names[1] = name

\* The names that their own initialiser uses.
SelfInitialised ==
    UNION {{program.terms[t].names[i] : i \in {k \in DOMAIN program.terms[t].names :
                program.terms[t].names[k] # NULL
                /\ Uses(program.terms[t].names[k], program.terms[t].kids[k])}} :
            t \in {k \in TermAt : program.terms[k].kind = "block"}}

Conjunctions == {t \in TermAt : program.terms[t].op = "and"}

\* Of these the code never writes, or too late, what it reads.
NeverWritten ==
    {E!idToSymbol(name) : name \in Formals(program) \cup SelfInitialised}
        \cup {symbol[t] : t \in Conjunctions}

\* No line reads an indeterminate symbol, and a temporary that it reads has been
\* written on every path to it, be it an operand, an argument or a result.
ReadsFollowWrites ==
    status = "emitted" => \A i \in LineAt : \A s \in Range(lines[i].from) :
        /\ s.space # "indeterminate"
        /\ s.space = "local" /\ s \notin NeverWritten => ~Unwritten(s, i)

=============================================================================
