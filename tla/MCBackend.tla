----------------------------- MODULE MCBackend ------------------------------
(***************************************************************************)
(* Small programs for Backend and Meaning.  A term is put together as the  *)
(* sequence of its terms, with how far back each part is.                  *)
(***************************************************************************)
EXTENDS Meaning, SequencesExt

\* The types written down in the programs.
I32 == 1
I64 == 2
Bool == 3
Unit == 4
Printer == 5
Pair == 6
Pointer == 7
F64 == 8
Alias == 9

Written ==
    <<Simple("i32"), Simple("i64"), Simple("bool"), Simple("struct"),
      [kind |-> "fun", parts |-> <<Part(I32), Part(Unit)>>],
      [kind |-> "struct", parts |-> <<[name |-> "m", type |-> I32]>>],
      [kind |-> "pointer", parts |-> <<Part(I32)>>],
      Simple("f64"), Simple("union")>>

-----------------------------------------------------------------------------
(* Terms *)

Leaf(kind) ==
    [kind |-> kind, op |-> "", value |-> 0, kids |-> <<>>, names |-> <<>>, notes |-> <<>>]

\* How far back the parts of a term are that comes behind them.
Offsets(parts) ==
    [i \in DOMAIN parts |->
        IF parts[i] = <<>> THEN NULL
        ELSE 1 + FoldLeft(LAMBDA n, p : n + Len(p), 0, SubSeq(parts, i + 1, Len(parts)))]

Built(leaf, parts) ==
    FlattenSeq(parts) \o <<[leaf EXCEPT !.kids = Offsets(parts)]>>

Constant(type, n) == <<[Leaf("constant") EXCEPT !.value = n, !.notes = <<type>>]>>
Boolean(n) == <<[Leaf("boolean") EXCEPT !.value = n, !.notes = <<Bool>>]>>
Var(name) == <<[Leaf("var") EXCEPT !.names = <<name>>]>>
Binary(op, a, b) == Built([Leaf("binary") EXCEPT !.op = op], <<a, b>>)
App(f, args) == Built(Leaf("application"), <<Var(f)>> \o args)
Assign(name, a) == Built(Leaf("assignment"), <<a, Var(name)>>)
Return(a) == Built(Leaf("return"), <<a>>)
If(parts) == Built(Leaf("conditional"), parts)
Struct(names, parts) ==
    Built([Leaf("structure") EXCEPT !.op = "struct", !.names = names], parts)

\* Statements: a declaration, perhaps with a type, or a term.
Declare(name, note, a) == [name |-> name, note |-> note, term |-> a]
Do(a) == [name |-> NULL, note |-> NULL, term |-> a]

Block(stmts, value) ==
    Built([Leaf("block") EXCEPT !.names = [i \in DOMAIN stmts |-> stmts[i].name],
                                !.notes = [i \in DOMAIN stmts |-> stmts[i].note]],
          [i \in DOMAIN stmts |-> stmts[i].term] \o value)

Fun(names, notes, body) ==
    Built([Leaf("function") EXCEPT !.names = names, !.notes = notes], <<body>>)

\* Declarations, with their terms, as a program.
Assembled(decls, maxId) ==
    LET ends == [d \in DOMAIN decls |->
                    FoldLeft(LAMBDA n, e : n + Len(e.term), 0, SubSeq(decls, 1, d))]
        flat == FlattenSeq([d \in DOMAIN decls |-> decls[d].term])
    IN  [terms |-> [t \in DOMAIN flat |-> [flat[t] EXCEPT !.kids =
                        [i \in DOMAIN @ |-> IF @[i] = NULL THEN NULL ELSE t - @[i]]]],
         decls |-> [d \in DOMAIN decls |->
                        [name |-> decls[d].name, type |-> decls[d].note,
                         exp |-> IF decls[d].term = <<>> THEN NULL ELSE ends[d]]],
         types |-> Written, maxId |-> maxId]

-----------------------------------------------------------------------------
(* Programs *)

print == TextIdent("print")
yes == TextIdent("yes")
no == TextIdent("no")
h == TextIdent("h")
g == TextIdent("g")
y == TextIdent("y")
z == TextIdent("z")
main == TextIdent("main")
m == TextIdent("m")

Answers == [f \in {print, yes, no, h, g} |-> IF f \in {yes, g} THEN 1 ELSE 0]

\* The lambda is lifted from the declaration of h: x is its formal, l its name.
x == AutoIdent(1)
l == AutoIdent(2)
a == AutoIdent(3)
b == AutoIdent(4)
c == AutoIdent(5)

One == Constant(I32, 1)
Two == Constant(I32, 2)
Long == Constant(I64, 2)
UnitTerm == Struct(<<>>, <<>>)
NoTerm == <<>>

\* h and g are the declarations between the lifted lambda and main.
Prelude(lambda, ofH, ofG) ==
    <<Declare(print, Printer, NoTerm),
      Declare(yes, NULL, Fun(<<yes>>, <<NULL>>, Block(<<>>, <<Boolean(1)>>))),
      Declare(no, NULL, Fun(<<no>>, <<NULL>>, Block(<<>>, <<Boolean(0)>>))),
      Declare(l, NULL, lambda),
      Declare(h, NULL, ofH),
      Declare(g, NULL, ofG)>>

\* fun (x : i32) i32 -> x  and  fun (x) -> x
Lambda(note) == Fun(<<AutoIdent(0), x>>, <<note, note>>, Var(x))

\* fun g(y : note) result { ... }
G(note, result, stmts, value) == Fun(<<g, y>>, <<note, result>>, Block(stmts, value))

PlainG == G(I32, I32, <<>>, <<Var(y)>>)

MainOf(stmts, value) ==
    <<Declare(main, NULL, Fun(<<main>>, <<NULL>>, Block(stmts, value)))>>

Plain(body) == Assembled(Prelude(Lambda(I32), Var(l), PlainG) \o body, 6)

\* The terms of main: { var a = ...; a statement; perhaps a value }
Values ==
    {One, Boolean(1), Var(a), Var(print), UnitTerm, Struct(<<m>>, <<Two>>),
     Binary("+", Var(a), One),
     Binary("<", Var(a), Two),
     Binary("or", App(no, <<>>), App(yes, <<>>)),
     Binary("or", App(yes, <<>>), Block(<<Do(App(print, <<One>>))>>, <<Boolean(0)>>)),
     Binary("and", App(yes, <<>>), App(no, <<>>)),
     App(g, <<Binary("*", Var(a), Two)>>),
     Block(<<Do(Assign(a, Two))>>, <<Var(a)>>),
     Block(<<Declare(b, NULL, Var(a)), Do(Assign(a, Two))>>, <<Var(b)>>)}

Statements ==
    UNION {{Do(App(print, <<v>>)), Do(Assign(a, v)), Declare(b, NULL, v), Do(v), Do(Return(v))} :
            v \in Values}

Mains ==
    {Plain(MainOf(<<Declare(a, NULL, first), second>>, value)) :
        first \in {One, Boolean(0), App(g, <<One>>), Binary("or", App(no, <<>>), App(no, <<>>))},
        second \in Statements,
        value \in {<<>>, <<Var(a)>>, <<App(print, <<Var(a)>>)>>}}

\* Operators on a variable of a type, and terms that only the type checker knows.
Operations ==
    {Plain(MainOf(<<Declare(a, note, first), Declare(b, NULL, Binary(op, Var(a), second))>>, <<>>)) :
        note \in {NULL, I32}, first \in {One, Long, Boolean(0)}, second \in {One, Boolean(1)},
        op \in {"+", "-", "%", "<", "==", "and"}}

Accepted ==
    {Plain(MainOf(<<Declare(a, NULL, One), Do(term)>>, value)) :
        term \in {If(<<Binary("<", Var(a), Two), App(print, <<Var(a)>>)>>),
                  If(<<App(yes, <<>>), UnitTerm, App(print, <<Var(a)>>)>>),
                  If(<<App(yes, <<>>), One, Boolean(1)>>),
                  If(<<Var(a), UnitTerm>>),
                  <<Leaf("break")>>, <<Leaf("continue")>>, Block(<<>>, <<>>),
                  Built(Leaf("deref"), <<Var(a)>>),
                  App(print, <<>>), App(a, <<One>>), App(g, <<Boolean(1)>>), App(h, <<Var(a)>>),
                  App(l, <<Var(a)>>), Block(<<Declare(b, NULL, NoTerm)>>, <<>>),
                  Block(<<Declare(b, NULL, Var(b))>>, <<>>),
                  Block(<<Declare(b, NULL, Binary("-", Var(b), One)), Do(App(print, <<Var(b)>>))>>, <<>>),
                  Block(<<Declare(b, NULL, Var(b)), Do(Var(b))>>, <<>>)},
        value \in {<<>>, <<Var(a)>>}}

\* Functions whose types are found out from their uses; h can be a value, or a
\* function that the lambda was written in and uses before it is typed.
Lambdas ==
    {Lambda(I32), Lambda(NULL), Fun(<<AutoIdent(0), x>>, <<NULL, NULL>>, Binary("-", Var(h), One))}

Hs == {Var(l), Return(One), Fun(<<h, z>>, <<NULL, NULL>>, App(l, <<Var(z)>>))}

Gs ==
    {PlainG, G(NULL, NULL, <<>>, <<Var(y)>>), G(I32, I32, <<>>, <<App(g, <<Var(y)>>)>>),
     G(I32, NULL, <<Do(Return(Var(y)))>>, <<Two>>), G(NULL, NULL, <<Do(Return(Var(y)))>>, <<>>),
     G(Pointer, NULL, <<>>, <<Binary("+", Var(y), One)>>),
     G(Pointer, NULL, <<>>, <<Binary("+", One, Var(y))>>),
     G(NULL, NULL, <<>>, <<If(<<Var(y), One, Two>>)>>),
     G(NULL, NULL, <<Do(Var(y))>>, <<>>),
     G(NULL, NULL, <<>>, <<App(g, <<Var(g)>>)>>),
     G(NULL, NULL, <<Declare(c, NULL, App(h, <<App(g, <<Var(y)>>)>>))>>, <<App(g, <<Var(y)>>)>>)}

Functions ==
    {Assembled(Prelude(lambda, ofH, ofG)
                \o MainOf(<<Declare(a, NULL, App(f, <<first>>)), Do(App(print, <<One>>))>>, value), 6) :
        lambda \in Lambdas, ofH \in Hs, ofG \in Gs, f \in {g, h, l},
        first \in {One, UnitTerm, Var(print)}, value \in {<<>>, <<Var(a)>>}}

SmallPrograms == Mains \cup Operations \cup Accepted \cup Functions

=============================================================================
