------------------------------- MODULE Terms --------------------------------
(***************************************************************************)
(* The trees of scc/src/syntax.c that the parser hands to the type checker *)
(* and the emitter: identifiers, types, terms and programs.                *)
(*                                                                         *)
(* The terms of a program are a sequence in which a term comes behind its  *)
(* parts, and the types are another; a pointer is a place in one of them.  *)
(***************************************************************************)
EXTENDS Integers, Sequences

CONSTANT NULL

\* newIdent and makeIdent.
AutoIdent(n) == [isAuto |-> TRUE, id |-> n, text |-> ""]
TextIdent(text) == [isAuto |-> FALSE, id |-> 0, text |-> text]

\* "" where there is no name.
Text == {""} \cup STRING

identifier == [isAuto : BOOLEAN, id : Nat, text : Text]

-----------------------------------------------------------------------------
(* Types *)

Integral == {"i8", "i16", "i32", "i64", "u8", "u16", "u32", "u64"}
Numeric == Integral \cup {"f32", "f64"}
Structs == {"struct", "union"}

TypeKind == Numeric \cup Structs \cup {"var", "bool", "pointer", "array", "fun"}

\* The parts of a function are its parameters and its result; those of a
\* struct or union have the names of the members.  The simple types have none.
Type ==
    {type \in [kind : TypeKind, parts : Seq([name : Text, type : Nat \ {0}])] :
        type.kind \in Numeric \cup {"var", "bool"} => type.parts = <<>>}

Simple(kind) == [kind |-> kind, parts |-> <<>>]

\* A part without a name.
Part(n) == [name |-> "", type |-> n]

\* Of the last of the parts, the result of a function.
LastType(parts) == parts[Len(parts)].type

isUnitType(type) == type.kind \in Structs /\ type.parts = <<>>

-----------------------------------------------------------------------------
(* Terms *)

Arithmetic == {"-", "*", "/"}
Relational == {"<", "<=", ">", ">="}
Equality == {"==", "!="}
Logical == {"and", "or"}

BinaryOp == {"+", "%"} \cup Arithmetic \cup Relational \cup Equality \cup Logical

\* The kinds that typeTerm knows, and those that it does not.
Typable ==
    {"constant", "boolean", "var", "structure", "return", "break", "continue", "binary",
     "conditional", "application", "function", "assignment", "block"}

Untypable ==
    {"array", "string", "ref", "deref", "cast", "typed", "unary", "binary-assign",
     "subscript", "access", "loop"}

\* op is a binary operator, and says whether a structure is a struct or a
\* union.  kids are the parts, in the order in which they are evaluated: the
\* value of an assignment before its lvalue, the callee before the arguments.
\* In a block there is one for each statement, perhaps one more, the value,
\* and NULL for a declaration without initialiser.
\*
\* names are: the identifier of a variable; recBinder and the formals; the
\* members; for the statements of a block, the names they declare, or NULL.
\* notes are the types written down: that of a constant or boolean; those of
\* the formals and the result, or NULL; those of declarations, or NULL.
Term ==
    [kind : Typable \cup Untypable,
     op : BinaryOp \cup Structs \cup {""},
     value : Int,
     kids : Seq(Nat \cup {NULL}),
     names : Seq(identifier \cup {NULL}),
     notes : Seq(Nat \cup {NULL})]

Declaration == [name : identifier, type : Nat \cup {NULL}, exp : Nat \cup {NULL}]

\* maxId is what getMaxId returns.
Program ==
    [terms : Seq(Term), decls : Seq(Declaration), types : Seq(Type), maxId : Nat]

\* The parts and names of a term; only a statement of a block can have no name.
Shaped(term) ==
    LET parts == Len(term.kids)
        names == Len(term.names)
    IN  /\ term.kind \in {"constant", "boolean"} =>
            parts = 0 /\ Len(term.notes) = 1 /\ term.notes[1] # NULL
        /\ term.kind = "var" => parts = 0 /\ names = 1
        /\ term.kind \in {"return", "function"} => parts = 1
        /\ term.kind \in {"binary", "assignment"} => parts = 2
        /\ term.kind = "conditional" => parts \in 2 .. 3
        /\ term.kind = "application" => parts > 0
        /\ term.kind = "function" => names > 0
        /\ term.kind = "binary" => term.op \in BinaryOp
        /\ term.kind = "structure" => term.op \in Structs
        /\ term.kind = "structure" => parts = names
        /\ term.kind = "block" => parts \in names .. names + 1
        /\ term.kind \in {"function", "block"} => Len(term.notes) = names
        /\ term.kind # "block" => NULL \notin {term.names[i] : i \in 1 .. names}

\* The terms of a declaration lie together, in the order of the declarations,
\* and there are no others.
LaidOut(p) ==
    /\ \A c, d \in DOMAIN p.decls :
        c < d /\ p.decls[c].exp # NULL /\ p.decls[d].exp # NULL => p.decls[c].exp < p.decls[d].exp
    /\ \A d \in DOMAIN p.decls, t \in DOMAIN p.terms : \A i \in DOMAIN p.terms[t].kids :
        p.decls[d].exp # NULL /\ p.decls[d].exp < t /\ p.terms[t].kids[i] # NULL =>
            p.decls[d].exp < p.terms[t].kids[i]
    /\ \A t \in DOMAIN p.terms :
        \/ \E d \in DOMAIN p.decls : p.decls[d].exp = t
        \/ \E u \in DOMAIN p.terms : \E i \in DOMAIN p.terms[u].kids : p.terms[u].kids[i] = t

\* Terms come behind their parts.  Only a declaration of a program has a
\* function, since the parser has lifted the others, and only a local
\* declaration can have no term.  isModifiableLValue lets a variable be
\* assigned to, or terms that the type checker does not know.
WellFormed(p) ==
    /\ p \in Program /\ LaidOut(p)
    /\ \A t \in DOMAIN p.terms :
        /\ Shaped(p.terms[t])
        /\ \A i \in DOMAIN p.terms[t].names :
            LET name == p.terms[t].names[i]
            IN  name # NULL /\ name.isAuto => name.id < p.maxId
        /\ \A i \in DOMAIN p.terms[t].kids :
            LET kid == p.terms[t].kids[i]
            IN  IF kid = NULL
                THEN p.terms[t].kind = "block" /\ p.terms[t].names[i] # NULL
                ELSE kid \in 1 .. t - 1 /\ p.terms[kid].kind # "function"
        /\ p.terms[t].kind = "assignment" =>
            p.terms[p.terms[t].kids[2]].kind \in {"var"} \cup Untypable
        /\ \A i \in DOMAIN p.terms[t].notes : p.terms[t].notes[i] \in DOMAIN p.types \cup {NULL}
    /\ \A d \in DOMAIN p.decls :
        /\ p.decls[d].exp \in DOMAIN p.terms \cup {NULL}
        /\ p.decls[d].type \in DOMAIN p.types \cup {NULL}
        /\ p.decls[d].name # NULL
    /\ \A t \in DOMAIN p.types : \A i \in DOMAIN p.types[t].parts :
        p.types[t].parts[i].type < t

Formals(p) ==
    UNION {{p.terms[t].names[i] : i \in 2 .. Len(p.terms[t].names)} :
            t \in {k \in DOMAIN p.terms : p.terms[k].kind = "function"}}

\* The declaration a term is in.
DeclOf(p, t) ==
    CHOOSE d \in DOMAIN p.decls :
        /\ p.decls[d].exp # NULL /\ p.decls[d].exp >= t
        /\ \A c \in 1 .. d - 1 : p.decls[c].exp # NULL => p.decls[c].exp < t

=============================================================================
