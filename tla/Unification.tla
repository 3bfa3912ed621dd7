---------------------------- MODULE Unification -----------------------------
(***************************************************************************)
(* The unification of types in scc/src/typer.c: resolveType, occursIn,     *)
(* constrainTypes and constrainTypeTo over the substitution of type        *)
(* variables.                                                              *)
(*                                                                         *)
(* Types are nodes of a heap that point to each other and are shared, as   *)
(* the type of an identifier is by its uses; resolveType writes into them. *)
(* The parameters of a function are pointed to like other parts, where the *)
(* code copies them.                                                       *)
(*                                                                         *)
(* The recursion of constrainTypes is a list of pairs still to be          *)
(* constrained, and each action is one call: both types are resolved, and  *)
(* then one case applies.                                                  *)
(***************************************************************************)
EXTENDS Integers, Sequences, FiniteSets

CONSTANTS
    Node,       \* the addresses of types
    Var,        \* the type variables
    Kind,       \* the kinds of types that are no variable
    Name,       \* names of members
    Heaps,      \* the types there are when the first call is made
    Target,     \* the nodes of boolType and unitType
    NULL,       \* no type, or no variable
    MaxCalls    \* bound: calls of constrainTypes and constrainTypeTo

\* A type: the parameters and result of a function, the members of a struct,
\* and what a pointer points to are its parts.  A part of a struct has a name,
\* the part of an array the element count for one.
Part == [name : Name, type : Node]
Type == [kind : Kind \cup {"var"}, var : Var \cup {NULL}, parts : Seq(Part)]

\* Variables are no other type.
VarsAreVars(h) ==
    \A n \in Node :
        /\ h[n].kind = "var" <=> h[n].var # NULL
        /\ h[n].kind = "var" => h[n].parts = <<>>

\* A type is built after its parts: among any types, one has none of them as a part.
WellBuilt(h) ==
    /\ VarsAreVars(h)
    /\ \A S \in (SUBSET Node) \ {{}} : \E n \in S :
        \A i \in DOMAIN h[n].parts : h[n].parts[i].type \notin S

ASSUME UnificationAssumption ==
    /\ Node \subseteq Nat
    /\ NULL \notin Var \cup Node
    /\ "var" \notin Kind
    /\ Heaps \subseteq [Node -> Type]
    /\ \A h \in Heaps : WellBuilt(h)
    /\ Target \subseteq Node
    /\ \A h \in Heaps, n \in Target : h[n].kind # "var" /\ h[n].parts = <<>>
    /\ MaxCalls \in Nat

VARIABLES
    heap,
    subst,      \* the type each variable stands for, or NULL
    todo,       \* the pairs a running constrainTypes has still to constrain
    result,     \* "running", or what the last call returned: "none", "true", "false"
    built,      \* auxiliary: the heap at the beginning
    asked,      \* auxiliary: the pairs of all calls, in order
    granted     \* auxiliary: those answered with true

vars == <<heap, subst, todo, result, built, asked, granted>>

-----------------------------------------------------------------------------
IsVar(n) == heap[n].kind = "var"

BoundVar == {v \in Var : subst[v] # NULL}

Bound(n) == heap[n].var \in BoundVar

\* The variables that resolveType comes to from a bound variable, each
\* standing for the next, and the type that the last one stands for.
Chain(v) ==
    LET closed(S) == \A w \in S : Bound(subst[w]) => heap[subst[w]].var \in S
    IN  {w \in BoundVar : \A S \in SUBSET BoundVar : v \in S /\ closed(S) => w \in S}

Denoted(v) == subst[CHOOSE w \in Chain(v) : ~Bound(subst[w])]

\* The type that resolveType returns.
Resolved(n) == IF Bound(n) THEN Denoted(heap[n].var) ELSE n

\* Everything that it comes to from some types: what a variable stands for,
\* and the parts of the others.
Succ(n) ==
    IF Bound(n) THEN {subst[heap[n].var]}
                ELSE {heap[n].parts[i].type : i \in DOMAIN heap[n].parts}

Reach(from) ==
    LET closed(S) == \A k \in S : Succ(k) \subseteq S
    IN  {m \in Node : \A S \in SUBSET Node : from \subseteq S /\ closed(S) => m \in S}

\* What it leaves behind: every type that it has come to has resolved parts,
\* and every variable the type it denotes.
ResolvedParts(visited) ==
    [n \in Node |->
        IF n \in visited
        THEN [heap[n] EXCEPT !.parts =
                [i \in DOMAIN @ |-> [name |-> @[i].name, type |-> Resolved(@[i].type)]]]
        ELSE heap[n]]

ResolvedVars(visited) ==
    [v \in Var |->
        IF v \in BoundVar /\ \E n \in visited : heap[n].var = v
        THEN Denoted(v)
        ELSE subst[v]]

\* A mutation of occursIn: looks at the type itself only.
occursAt(v, n) == heap[n].var = v

occursIn(v, n) == \E m \in Reach({n}) : heap[m].var = v

-----------------------------------------------------------------------------
Init ==
    /\ heap \in Heaps
    /\ subst = [v \in Var |-> NULL]
    /\ todo = <<>>
    /\ result = "none"
    /\ built = heap
    /\ asked = <<>>
    /\ granted = {}

Pair(a, b, agree) == [left |-> a, right |-> b, agree |-> agree]

\* constrainTypes, called by typeTerm or insertConstraint.
Constrain(a, b) ==
    /\ result # "running"
    /\ Len(asked) < MaxCalls
    /\ todo' = <<Pair(a, b, TRUE)>>
    /\ result' = "running"
    /\ asked' = Append(asked, <<a, b>>)
    /\ UNCHANGED <<heap, subst, built, granted>>

Running == result = "running" /\ todo # <<>> /\ Head(todo).agree

\* The pair whose turn it is, resolved.  NamesDiffer comes before that.
Left == Resolved(Head(todo).left)
Right == Resolved(Head(todo).right)

Resolve ==
    LET visited == Reach({Head(todo).left, Head(todo).right})
    IN  heap' = ResolvedParts(visited) /\ subst' = ResolvedVars(visited)

\* A mutation of ResolveAndBind: the variable of the type instead of the type.
ResolveAndBindVar(v, n) ==
    LET visited == Reach({Head(todo).left, Head(todo).right})
    IN  /\ heap' = ResolvedParts(visited)
        /\ subst' = [ResolvedVars(visited) EXCEPT ![v] = heap[n].var]

ResolveAndBind(v, n) ==
    LET visited == Reach({Head(todo).left, Head(todo).right})
    IN  heap' = ResolvedParts(visited) /\ subst' = [ResolvedVars(visited) EXCEPT ![v] = n]

Advance == todo' = Tail(todo) /\ UNCHANGED <<result, built, asked, granted>>

Refuse ==
    /\ todo' = <<>>
    /\ result' = "false"
    /\ UNCHANGED <<built, asked, granted>>

SameVar == IsVar(Left) /\ IsVar(Right) /\ heap[Left].var = heap[Right].var

\* A mutation of SkipSame: the pair is constrained again.
SkipSameAgain ==
    /\ Running
    /\ SameVar
    /\ Resolve
    /\ UNCHANGED <<todo, result, built, asked, granted>>

SkipSame ==
    /\ Running
    /\ SameVar
    /\ Resolve
    /\ Advance

BindLeft ==
    /\ Running
    /\ IsVar(Left) /\ ~SameVar
    /\ ~occursIn(heap[Left].var, Right)
    /\ ResolveAndBind(heap[Left].var, Right)
    /\ Advance

BindRight ==
    /\ Running
    /\ IsVar(Right) /\ ~IsVar(Left)
    /\ ~occursIn(heap[Right].var, Left)
    /\ ResolveAndBind(heap[Right].var, Left)
    /\ Advance

Occurs ==
    /\ Running
    /\ ~SameVar
    /\ \/ IsVar(Left) /\ occursIn(heap[Left].var, Right)
       \/ IsVar(Right) /\ ~IsVar(Left) /\ occursIn(heap[Right].var, Left)
    /\ Resolve
    /\ Refuse

\* The same kind and number of parts.
Alike(a, b) == a.kind = b.kind /\ Len(a.parts) = Len(b.parts)

\* Mutations of PartPairs: the names are not compared; all parts of the first
\* type are constrained to the first part of the other.
PartPairsNameless(a, b) ==
    [i \in DOMAIN a.parts |-> Pair(a.parts[i].type, b.parts[i].type, TRUE)]

PartPairsToFirst(a, b) ==
    [i \in DOMAIN a.parts |-> Pair(a.parts[i].type, b.parts[1].type, TRUE)]

PartPairs(a, b) ==
    [i \in DOMAIN a.parts |->
        Pair(a.parts[i].type, b.parts[i].type, a.parts[i].name = b.parts[i].name)]

\* A mutation of Descend: the last part, the result of a function, is left out.
DescendButLast ==
    /\ Running
    /\ ~IsVar(Left) /\ ~IsVar(Right)
    /\ Alike(heap[Left], heap[Right])
    /\ Resolve
    /\ LET pairs == PartPairs(heap'[Left], heap'[Right])
       IN  todo' = SubSeq(pairs, 1, Len(pairs) - 1) \o Tail(todo)
    /\ UNCHANGED <<result, built, asked, granted>>

\* The parts of the two types come before what is left.  The code reads each
\* when its turn comes; until then it can only be resolved further.
Descend ==
    /\ Running
    /\ ~IsVar(Left) /\ ~IsVar(Right)
    /\ Alike(heap[Left], heap[Right])
    /\ Resolve
    /\ todo' = PartPairs(heap'[Left], heap'[Right]) \o Tail(todo)
    /\ UNCHANGED <<result, built, asked, granted>>

Clash ==
    /\ Running
    /\ ~IsVar(Left) /\ ~IsVar(Right)
    /\ ~Alike(heap[Left], heap[Right])
    /\ Resolve
    /\ Refuse

\* Members of other names, or arrays of other sizes.
NamesDiffer ==
    /\ result = "running" /\ todo # <<>>
    /\ ~Head(todo).agree
    /\ Refuse
    /\ UNCHANGED <<heap, subst>>

Grant ==
    /\ result = "running" /\ todo = <<>>
    /\ result' = "true"
    /\ granted' = granted \cup {asked[Len(asked)]}
    /\ UNCHANGED <<heap, subst, todo, built, asked>>

-----------------------------------------------------------------------------
(* constrainTypeTo *)

\* What it compares of two kinds: STRUCT_TYPE is that of unions too.
TypeKind(n) == IF heap[n].kind = "union" THEN "struct" ELSE heap[n].kind

\* A target has no variable that could occur in the type, and is copied.
ConstrainTo(a, target) ==
    /\ result # "running"
    /\ Len(asked) < MaxCalls
    /\ asked' = Append(asked, <<a, target>>)
    /\ LET to == Resolved(a)
           answer == IsVar(to) \/ TypeKind(to) = TypeKind(target)
       IN  /\ heap' = ResolvedParts(Reach({a}))
           /\ subst' = IF IsVar(to)
                       THEN [ResolvedVars(Reach({a})) EXCEPT ![heap[to].var] = target]
                       ELSE ResolvedVars(Reach({a}))
           /\ result' = IF answer THEN "true" ELSE "false"
           /\ granted' = IF answer THEN granted \cup {<<a, target>>} ELSE granted
    /\ UNCHANGED <<todo, built>>

-----------------------------------------------------------------------------
\* What a running constrainTypes does.
Step ==
    \/ SkipSame
    \/ BindLeft
    \/ BindRight
    \/ Occurs
    \/ Descend
    \/ Clash
    \/ NamesDiffer
    \/ Grant

Next ==
    \/ \E a, b \in Node : Constrain(a, b)
    \/ \E a \in Node, target \in Target : ConstrainTo(a, target)
    \/ Step

\* A call, once made, runs: the program is one thread.
Spec == Init /\ [][Next]_vars /\ WF_vars(Step)

-----------------------------------------------------------------------------
TypeOK ==
    /\ heap \in [Node -> Type]
    /\ subst \in [Var -> Node \cup {NULL}]
    /\ todo \in Seq([left : Node, right : Node, agree : BOOLEAN])
    /\ result \in {"none", "running", "true", "false"}
    /\ asked \in Seq(Node \X Node)
    /\ granted \subseteq Node \X Node

\* No type is a part of itself, through whatever variables (no set of types
\* leads back into itself from each of its members): resolveType,
\* occursIn and constrainTypes, which recurse over types, come to an end.
\* The occurs check of each binding is what keeps it so, also after calls
\* that answered false and whose answer was ignored (typeTerm, ASSIGNMENT).
Acyclic == \A S \in (SUBSET Node) \ {{}} : \E n \in S : Succ(n) \cap S = {}

\* Equalities between types: each is mapped to the first it is equal to.
Equality == {eq \in [Node -> Node] : \A n \in Node : eq[n] <= n /\ eq[eq[n]] = eq[n]}

\* Types of the same kind, variable, and names, whose parts are equal.
SameIn(eq, a, b) ==
    /\ Alike(a, b)
    /\ a.var = b.var
    /\ \A i \in DOMAIN a.parts :
        /\ a.parts[i].name = b.parts[i].name
        /\ eq[a.parts[i].type] = eq[b.parts[i].type]

\* Two types that constrainTypes has made equal are equal after every later
\* call too, part by part: under the substitution, there is an equality of
\* types that holds of them.
GrantedStaysEqual ==
    result # "running" => \E eq \in Equality :
        /\ \A p \in granted : eq[p[1]] = eq[p[2]]
        /\ \A a, b \in Node :
            a < b /\ eq[a] = eq[b] => SameIn(eq, heap[Resolved(a)], heap[Resolved(b)])

\* The equalities under which some equations hold: a variable is one type, and
\* the parts of equal types are equal.
Satisfying(equations) ==
    {eq \in Equality :
        /\ \A e \in equations : eq[e[1]] = eq[e[2]]
        /\ \A a, b \in Node : a < b =>
            /\ built[a].kind = "var" /\ built[a].var = built[b].var => eq[a] = eq[b]
            /\ eq[a] = eq[b] /\ Alike(built[a], built[b]) =>
                \A i \in DOMAIN built[a].parts :
                    eq[built[a].parts[i].type] = eq[built[b].parts[i].type]}

\* The equations have a solution: one of these makes no two types of different
\* kinds or names equal, and no type a part of itself.
Solvable(equations) ==
    \E eq \in Satisfying(equations) :
        /\ \A a, b \in Node : a < b =>
            \/ eq[a] # eq[b]
            \/ "var" \in {built[a].kind, built[b].kind}
            \/ SameIn(eq, built[a], built[b])
        /\ \A S \in (SUBSET Node) \ {{}} : \E n \in S : \A m \in Node :
            eq[m] = eq[n] => \A i \in DOMAIN built[m].parts :
                                \A k \in S : eq[k] # eq[built[m].parts[i].type]

Calls == {asked[i] : i \in 1 .. Len(asked)}

\* As long as every call was granted, an answer is the right one: true when
\* the equations of all calls have a solution together, false when not.
AnswersAreRight ==
    result \in {"true", "false"} /\ (\A i \in 1 .. Len(asked) - 1 : asked[i] \in granted) =>
        (result = "true" <=> Solvable(Calls))

\* Nothing is constrained that need not be: a variable stands only for a type
\* to which it is equal whenever what was asked holds.
OnlyWhatFollows ==
    result # "running" => \A eq \in Satisfying(Calls) : \A n \in Node : eq[Resolved(n)] = eq[n]

\* A call of constrainTypes comes to its end.
CallsEnd == result = "running" ~> result # "running"

=============================================================================
