------------------------------- MODULE Typer --------------------------------
(***************************************************************************)
(* The walk of scc/src/typer.c over a program: typeTerm and type.          *)
(*                                                                         *)
(* The recursion of typeTerm is a stack.  In each frame, `at` is how many  *)
(* parts of the term have been dealt with; a part is called first, and     *)
(* what the code does with its type when it returns is a step of its own.  *)
(* All calls of constrainTypes are made here; what such a call does step   *)
(* by step, with types that are written to, is in Unification.  Here it is *)
(* an operator on the types and on what each of them stands for.           *)
(***************************************************************************)
EXTENDS Terms, Functions

CONSTANT Programs   \* what the parser returns

VARIABLES
    program,
    heap,       \* the types, and the substitution of type variables
    constraint, \* the type of each identifier, or NULL
    stack,      \* the running calls of typeTerm, the last one first
    typed,      \* term->type, or NULL
    declType,   \* the type fields of the declarations
    decl,       \* the declaration at which `type` is
    currentReturnType,
    ignored,    \* auxiliary: an answer was false, and nobody looked at it
    status      \* "typing", "typed"; "fatal" and "crash" are the end

vars ==
    <<program, heap, constraint, stack, typed, declType, decl, currentReturnType,
      ignored, status>>

-----------------------------------------------------------------------------
(* Types and the substitution *)

\* is[n] is what resolveType returns for n: n itself, unless it is a variable
\* that stands for another type.
Heap == [type : Seq(Type), is : Seq(Nat \ {0})]

Resolved(h, n) == h.type[h.is[n]]

\* Where newType and freshTypeVar put the next type.
Fresh(h) == Len(h.type) + 1

newType(h, type) == [type |-> Append(h.type, type), is |-> Append(h.is, Fresh(h))]

insertSubstitution(h, v, n) ==
    [h EXCEPT !.is = [m \in DOMAIN @ |-> IF @[m] = v THEN n ELSE @[m]]]

occursIn(h, v, n) ==
    LET occurs[m \in DOMAIN h.type] ==
            \/ h.is[m] = v
            \/ \E i \in DOMAIN Resolved(h, m).parts : occurs[Resolved(h, m).parts[i].type]
    IN  occurs[n]

\* constrainTypes: the pairs of types that are still to be made equal.  Those
\* of members of other names do not agree.
Pair(a, b, agree) == [left |-> a, right |-> b, agree |-> agree]

PartPairs(a, b) ==
    [i \in DOMAIN a.parts |->
        Pair(a.parts[i].type, b.parts[i].type, a.parts[i].name = b.parts[i].name)]

\* One pair: what it binds, the pairs it leaves, and whether it can be equal.
ConstrainPair(s) ==
    LET pair == Head(s.todo)
        a == s.heap.is[pair.left]
        b == s.heap.is[pair.right]
        left == s.heap.type[a]
        right == s.heap.type[b]
    IN  CASE ~pair.agree -> [s EXCEPT !.ok = FALSE]
          [] pair.agree /\ a = b -> [s EXCEPT !.todo = Tail(@)]
          [] pair.agree /\ a # b /\ left.kind = "var" ->
                IF occursIn(s.heap, a, b)
                THEN [s EXCEPT !.ok = FALSE]
                ELSE [s EXCEPT !.todo = Tail(@), !.heap = insertSubstitution(@, a, b)]
          [] pair.agree /\ left.kind # "var" /\ right.kind = "var" ->
                IF occursIn(s.heap, b, a)
                THEN [s EXCEPT !.ok = FALSE]
                ELSE [s EXCEPT !.todo = Tail(@), !.heap = insertSubstitution(@, b, a)]
          [] OTHER ->
                IF left.kind = right.kind /\ Len(left.parts) = Len(right.parts)
                THEN [s EXCEPT !.todo = PartPairs(left, right) \o Tail(@)]
                ELSE [s EXCEPT !.ok = FALSE]

\* The types are those of h, whatever they come to stand for.
Running(h) ==
    LET Node == DOMAIN h.type
    IN  [heap : [type : {h.type}, is : [Node -> Node]], ok : BOOLEAN,
         todo : Seq([left : Node, right : Node, agree : BOOLEAN])]

constrainTypes(h, a, b) ==
    LET run[s \in Running(h)] ==
            IF s.ok /\ s.todo # <<>> THEN run[ConstrainPair(s)] ELSE s
    IN  run[[heap |-> h, ok |-> TRUE, todo |-> <<Pair(a, b, TRUE)>>]]

\* A struct and a union have the same kind.
SameKind(a, b) == a.kind = b.kind \/ {a.kind, b.kind} \subseteq Structs

\* A mutation of constrainTypeTo: the variable stands for a type not yet made.
constrainTypeToUnmade(h, n, target) ==
    IF Resolved(h, n).kind = "var"
    THEN [heap |-> insertSubstitution(h, h.is[n], Fresh(h)), ok |-> TRUE]
    ELSE [heap |-> h, ok |-> SameKind(Resolved(h, n), target)]

\* The target, boolType or unitType, is copied.
constrainTypeTo(h, n, target) ==
    IF Resolved(h, n).kind = "var"
    THEN [heap |-> insertSubstitution(newType(h, target), h.is[n], Fresh(h)), ok |-> TRUE]
    ELSE [heap |-> h, ok |-> SameKind(Resolved(h, n), target)]

boolType == Simple("bool")
unitType == Simple("struct")

\* The first type of an identifier is its own, each later one has to be equal.
insertConstraint(h, c, name, n) ==
    IF c[name] = NULL
    THEN [heap |-> h, constraint |-> [c EXCEPT ![name] = n], ok |-> TRUE]
    ELSE LET answer == constrainTypes(h, c[name], n)
         IN  [heap |-> answer.heap, constraint |-> c, ok |-> answer.ok]

-----------------------------------------------------------------------------
(* The stack *)

Names(p) ==
    (UNION {Range(p.terms[t].names) : t \in DOMAIN p.terms})
        \cup {p.decls[d].name : d \in DOMAIN p.decls}

Init ==
    /\ program \in Programs
    /\ heap = [type |-> program.types, is |-> [n \in DOMAIN program.types |-> n]]
    /\ constraint = [name \in Names(program) \ {NULL} |-> NULL]
    /\ stack = <<>>
    /\ typed = [t \in DOMAIN program.terms |-> NULL]
    /\ declType = [d \in DOMAIN program.decls |-> program.decls[d].type]
    /\ decl = 1
    /\ currentReturnType = NULL
    /\ ignored = FALSE
    /\ status = "typing"

\* fun and prev are those of a function: its type, once made, and
\* prevReturnType.
Frame(t) == [term |-> t, at |-> 0, fun |-> NULL, prev |-> NULL]

Top == Head(stack)
This == program.terms[Top.term]
Kid == This.kids[Top.at + 1]

Turn(kinds) ==
    status = "typing" /\ stack # <<>> /\ Top.term # NULL /\ This.kind \in kinds

\* The parts of the term are all dealt with, or one is next, or has returned.
Complete(kinds) == Turn(kinds) /\ Top.at = Len(This.kids)
Calls(kinds) ==
    Turn(kinds) /\ Top.at < Len(This.kids) /\ (Kid # NULL => typed[Kid] = NULL)
Returned(kinds) ==
    Turn(kinds) /\ Top.at < Len(This.kids) /\ Kid # NULL /\ typed[Kid] # NULL

\* The type that typeTerm has returned for the i-th part.
KidType(i) == typed[This.kids[i]]
KidIs(i) == Resolved(heap, KidType(i))

Call(t) == stack' = <<Frame(t)>> \o stack

\* The part has been dealt with.
TakeKid == stack' = [stack EXCEPT ![1].at = @ + 1]

\* The end of typeTerm, with the type of the term.
Return(h, n) ==
    /\ heap' = h
    /\ stack' = Tail(stack)
    /\ typed' = [typed EXCEPT ![Top.term] = h.is[n]]
    /\ UNCHANGED <<program, declType, decl, status>>

ReturnNew(h, type) == Return(newType(h, type), Fresh(h))

\* logFatal.
Fatal ==
    /\ status' = "fatal"
    /\ UNCHANGED <<program, heap, constraint, stack, typed, declType, decl,
                   currentReturnType, ignored>>

Require(condition, step) == IF condition THEN step ELSE Fatal

\* What the steps that only return, or only take a part, leave alone.
Rest == UNCHANGED <<constraint, currentReturnType, ignored>>
Took == TakeKid /\ UNCHANGED <<program, typed, declType, decl, currentReturnType, status>>

-----------------------------------------------------------------------------
(* typeTerm *)

\* All parts are called in the same way, but in a function after its head.
\* A declaration without initialiser is called with NULL, and read.
EvaluateKid ==
    /\ Calls(Typable)
    /\ This.kind = "function" => Top.fun # NULL
    /\ Call(Kid)
    /\ UNCHANGED <<program, heap, typed, declType, decl, status>> /\ Rest

ReadNull ==
    /\ status = "typing" /\ stack # <<>> /\ Top.term = NULL
    /\ status' = "crash"
    /\ UNCHANGED <<program, heap, stack, typed, declType, decl>> /\ Rest

TakeOperand ==
    /\ Returned({"structure", "return", "binary", "assignment"})
    /\ Took /\ UNCHANGED <<heap, constraint, ignored>>

TypeLiteral ==
    /\ Complete({"constant", "boolean"})
    /\ Return(heap, This.notes[1]) /\ Rest

TypeKnownVar ==
    /\ Complete({"var"})
    /\ constraint[This.names[1]] # NULL
    /\ Return(heap, constraint[This.names[1]]) /\ Rest

TypeNewVar ==
    /\ Complete({"var"})
    /\ constraint[This.names[1]] = NULL
    /\ constraint' = [constraint EXCEPT ![This.names[1]] = Fresh(heap)]
    /\ ReturnNew(heap, Simple("var"))
    /\ UNCHANGED <<currentReturnType, ignored>>

\* A type that is written down, or a new variable.
Noted(s, note) ==
    IF note = NULL
    THEN [s EXCEPT !.heap = newType(@, Simple("var")), !.parts = Append(@, Part(Fresh(s.heap)))]
    ELSE [s EXCEPT !.parts = Append(@, Part(note))]

\* The i-th formal.  Nobody looks at the answer of insertConstraint.
InsertFormal(s, i) ==
    LET noted == Noted(s, This.notes[i])
        answer == insertConstraint(noted.heap, s.constraint, This.names[i + 1],
                                   LastType(noted.parts))
    IN  [noted EXCEPT !.heap = answer.heap, !.constraint = answer.constraint,
                      !.ok = @ /\ answer.ok]

EnterFunction ==
    /\ Calls({"function"}) /\ Top.fun = NULL
    /\ LET begin == [heap |-> heap, constraint |-> constraint, parts |-> <<>>, ok |-> TRUE]
           formals[i \in 0 .. Len(This.names) - 1] ==
                IF i = 0 THEN begin ELSE InsertFormal(formals[i - 1], i)
           head == Noted(formals[Len(This.names) - 1], This.notes[Len(This.names)])
           fun == [kind |-> "fun", parts |-> head.parts]
           answer == insertConstraint(newType(head.heap, fun), head.constraint,
                                      This.names[1], Fresh(head.heap))
       IN  Require(answer.ok,
            /\ heap' = answer.heap
            /\ constraint' = answer.constraint
            /\ currentReturnType' = LastType(head.parts)
            /\ ignored' = (ignored \/ ~head.ok)
            /\ stack' = [stack EXCEPT ![1].fun = Fresh(head.heap),
                                     ![1].prev = currentReturnType]
            /\ UNCHANGED <<program, typed, declType, decl, status>>)

\* A mutation of TypeFunction: the return type remains that of the function.
TypeFunctionKeeping ==
    /\ Returned({"function"}) /\ Top.fun # NULL
    /\ LET answer == constrainTypes(heap, typed[Kid], LastType(heap.type[Top.fun].parts))
       IN  Require(answer.ok,
            Return(answer.heap, Top.fun) /\ UNCHANGED <<constraint, currentReturnType, ignored>>)

TypeFunction ==
    /\ Returned({"function"}) /\ Top.fun # NULL
    /\ LET answer == constrainTypes(heap, typed[Kid], LastType(heap.type[Top.fun].parts))
       IN  Require(answer.ok,
            /\ currentReturnType' = Top.prev
            /\ Return(answer.heap, Top.fun)
            /\ UNCHANGED <<constraint, ignored>>)

\* The type of the callee as it was when it was typed.
Callee == heap.type[KidType(1)]

TakeCallee ==
    /\ Returned({"application"}) /\ Top.at = 0
    /\ Require(Callee.kind = "fun" /\ Len(Callee.parts) = Len(This.kids),
        Took /\ UNCHANGED <<heap, constraint, ignored>>)

TakeArgument ==
    /\ Returned({"application"}) /\ Top.at > 0
    /\ LET answer == constrainTypes(heap, typed[Kid], Callee.parts[Top.at].type)
       IN  Require(answer.ok, Took /\ heap' = answer.heap /\ UNCHANGED <<constraint, ignored>>)

TypeApplication ==
    /\ Complete({"application"})
    /\ Return(heap, LastType(Callee.parts)) /\ Rest

TypeStructure ==
    /\ Complete({"structure"})
    /\ LET member(i) == [name |-> This.names[i].text, type |-> KidType(i)]
       IN  ReturnNew(heap, [kind |-> This.op, parts |-> [i \in DOMAIN This.kids |-> member(i)]])
    /\ Rest

TypeReturn ==
    /\ Complete({"return"})
    /\ IF currentReturnType = NULL THEN Fatal
       ELSE LET answer == constrainTypes(heap, KidType(1), currentReturnType)
            IN  Require(answer.ok, ReturnNew(answer.heap, unitType) /\ Rest)

TypeJump ==
    /\ Complete({"break", "continue"})
    /\ ReturnNew(heap, unitType) /\ Rest

Left == KidIs(1)
Right == KidIs(2)

\* Binary operators of some kinds, when both operands are typed.
Operation(ops) == Complete({"binary"}) /\ This.op \in ops

\* The operands are constrained to be equal, and the result is the first, or new.
Equated == constrainTypes(heap, KidType(1), KidType(2))

\* For other operands the result remains NULL, which is an error.
TypeAddition ==
    /\ Operation({"+"})
    /\ CASE Left.kind \in Numeric /\ Right.kind \in Numeric ->
                Require(Equated.ok, Return(Equated.heap, KidType(1)) /\ Rest)
         [] Left.kind = "pointer" /\ Right.kind \in Integral -> Return(heap, KidType(1)) /\ Rest
         [] Left.kind \in Integral /\ Right.kind = "pointer" -> Return(heap, KidType(2)) /\ Rest
         [] OTHER -> Fatal

\* What is no number yet can become one by being constrained.
TypeArithmetic ==
    /\ Operation(Arithmetic)
    /\ Require(Equated.ok /\ Resolved(Equated.heap, KidType(1)).kind \in Numeric,
        Return(Equated.heap, KidType(1)) /\ Rest)

TypeRelation ==
    /\ Operation(Relational)
    /\ Require({Left.kind, Right.kind} \subseteq Numeric /\ Equated.ok,
        ReturnNew(Equated.heap, boolType) /\ Rest)

TypeRemainder ==
    /\ Operation({"%"})
    /\ Require({Left.kind, Right.kind} \subseteq Integral /\ Equated.ok,
        Return(Equated.heap, KidType(1)) /\ Rest)

TypeLogical ==
    /\ Operation(Logical)
    /\ Require({Left.kind, Right.kind} \subseteq {"bool"}, Return(heap, KidType(1)) /\ Rest)

TypeEquality ==
    /\ Operation(Equality)
    /\ Require(Equated.ok /\ Resolved(Equated.heap, KidType(1)).kind
                    \in Numeric \cup {"bool", "pointer"},
        ReturnNew(Equated.heap, boolType) /\ Rest)

TakeCondition ==
    /\ Returned({"conditional"}) /\ Top.at = 0
    /\ LET answer == constrainTypeTo(heap, typed[Kid], boolType)
       IN  Require(answer.ok, Took /\ heap' = answer.heap /\ UNCHANGED <<constraint, ignored>>)

TakeThen ==
    /\ Returned({"conditional"}) /\ Top.at = 1
    /\ Took /\ UNCHANGED <<heap, constraint, ignored>>

TakeElse ==
    /\ Returned({"conditional"}) /\ Top.at = 2
    /\ LET answer == constrainTypes(heap, KidType(2), typed[Kid])
       IN  Require(answer.ok, Took /\ heap' = answer.heap /\ UNCHANGED <<constraint, ignored>>)

TypeConditional ==
    /\ Complete({"conditional"})
    /\ Return(heap, KidType(2)) /\ Rest

\* Nobody looks at the answer.
TypeAssignment ==
    /\ Complete({"assignment"})
    /\ LET answer == constrainTypes(heap, KidType(2), KidType(1))
       IN  /\ ReturnNew(answer.heap, unitType)
           /\ ignored' = (ignored \/ ~answer.ok)
    /\ UNCHANGED <<constraint, currentReturnType>>

\* A statement of a block; the code also keeps the type of a declaration.
Statement == Returned({"block"}) /\ Top.at < Len(This.names)

TakeDeclaration ==
    /\ Statement /\ This.names[Top.at + 1] # NULL
    /\ LET note == This.notes[Top.at + 1]
           noted == IF note = NULL THEN [heap |-> heap, ok |-> TRUE]
                                   ELSE constrainTypes(heap, typed[Kid], note)
           answer == insertConstraint(noted.heap, constraint, This.names[Top.at + 1], typed[Kid])
       IN  Require(noted.ok /\ answer.ok,
            Took /\ heap' = answer.heap /\ constraint' = answer.constraint
                 /\ UNCHANGED ignored)

TakeUnitStatement ==
    /\ Statement /\ This.names[Top.at + 1] = NULL
    /\ LET answer == constrainTypeTo(heap, typed[Kid], unitType)
       IN  Require(answer.ok, Took /\ heap' = answer.heap /\ UNCHANGED <<constraint, ignored>>)

TakeBlockValue ==
    /\ Returned({"block"}) /\ Top.at = Len(This.names)
    /\ Took /\ UNCHANGED <<heap, constraint, ignored>>

TypeBlock ==
    /\ Complete({"block"})
    /\ IF Len(This.kids) > Len(This.names) THEN Return(heap, KidType(Len(This.kids)))
                                           ELSE ReturnNew(heap, unitType)
    /\ Rest

NotImplemented == Turn(Untypable) /\ Fatal

-----------------------------------------------------------------------------
(* type *)

Decl == program.decls[decl]

AtDecl == status = "typing" /\ stack = <<>> /\ decl <= Len(program.decls)

StartDecl ==
    /\ AtDecl
    /\ Decl.exp # NULL /\ typed[Decl.exp] = NULL
    /\ Call(Decl.exp)
    /\ UNCHANGED <<program, heap, typed, declType, decl, status>> /\ Rest

\* The type of the term, or a variable, is constrained by what is written down,
\* and by what the name has been used as.
ConstrainDecl(h, n) ==
    LET noted == IF Decl.type = NULL THEN [heap |-> h, ok |-> TRUE]
                                     ELSE constrainTypes(h, n, Decl.type)
        answer == insertConstraint(noted.heap, constraint, Decl.name, n)
    IN  Require(noted.ok /\ answer.ok,
            /\ heap' = answer.heap
            /\ constraint' = answer.constraint
            /\ declType' = [declType EXCEPT ![decl] = n]
            /\ decl' = decl + 1
            /\ UNCHANGED <<program, stack, typed, currentReturnType, ignored, status>>)

FinishDecl ==
    /\ AtDecl
    /\ Decl.exp # NULL /\ typed[Decl.exp] # NULL
    /\ ConstrainDecl(heap, typed[Decl.exp])

DeclareOnly ==
    /\ AtDecl
    /\ Decl.exp = NULL
    /\ ConstrainDecl(newType(heap, Simple("var")), Fresh(heap))

\* The terms whose type may have been overwritten: a function has copies of its
\* parameters, in which resolveType puts what they stand for.  A variable can
\* stand for such a copy; the variable that is the formal has a type of its own.
Parameters ==
    {n \in DOMAIN heap.type : heap.type[n].kind = "var" /\ \E f \in DOMAIN heap.type :
        /\ heap.type[f].kind = "fun"
        /\ \E i \in 1 .. Len(heap.type[f].parts) - 1 : heap.type[f].parts[i] = Part(n)}

Overwritten ==
    {t \in DOMAIN typed :
        /\ typed[t] # NULL
        /\ heap.type[typed[t]].kind = "var"
        /\ \E n \in Parameters : heap.is[n] = heap.is[typed[t]]
        /\ program.terms[t].kind = "var" => program.terms[t].names[1] \notin Formals(program)}

\* The second loop, over the declarations and their terms, not what is in them;
\* but the types of all functions are resolved with their parts.
ResolveDecls ==
    /\ status = "typing" /\ decl > Len(program.decls)
    /\ \E copies \in SUBSET Overwritten :
        LET exps == {program.decls[d].exp : d \in DOMAIN program.decls}
            names == {program.decls[d].name : d \in DOMAIN program.decls}
        IN  /\ typed' = [t \in DOMAIN typed |->
                            IF t \in exps \cup copies THEN heap.is[typed[t]] ELSE typed[t]]
            /\ constraint' = [name \in DOMAIN constraint |->
                    IF name \in names THEN heap.is[constraint[name]] ELSE constraint[name]]
    /\ declType' = [d \in DOMAIN declType |-> heap.is[declType[d]]]
    /\ status' = "typed"
    /\ UNCHANGED <<program, heap, stack, decl, currentReturnType, ignored>>

-----------------------------------------------------------------------------
Next ==
    \/ EvaluateKid \/ ReadNull \/ TakeOperand
    \/ TypeLiteral \/ TypeKnownVar \/ TypeNewVar
    \/ EnterFunction \/ TypeFunction
    \/ TakeCallee \/ TakeArgument \/ TypeApplication
    \/ TypeStructure \/ TypeReturn \/ TypeJump
    \/ TypeAddition \/ TypeArithmetic \/ TypeRelation \/ TypeRemainder
    \/ TypeLogical \/ TypeEquality
    \/ TakeCondition \/ TakeThen \/ TakeElse \/ TypeConditional
    \/ TypeAssignment
    \/ TakeDeclaration \/ TakeUnitStatement \/ TakeBlockValue \/ TypeBlock
    \/ NotImplemented
    \/ StartDecl \/ FinishDecl \/ DeclareOnly \/ ResolveDecls

Spec == Init /\ [][Next]_vars

=============================================================================
