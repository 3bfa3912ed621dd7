--------------------------- MODULE MCUnification ----------------------------
(***************************************************************************)
(* Small instances of Unification: two variables, bool, and two types made *)
(* of the nodes before them, so that they can be equal, share a part, have *)
(* other names, or be a part of each other through a variable.             *)
(***************************************************************************)
EXTENDS Unification, TLC

CONSTANTS x, y

Nodes == 1 .. 5

Vars == {x, y}

Kinds == {"bool", "pointer", "struct"}

Names == {"", "m", "o"}

Leaf(kind, var) == [kind |-> kind, var |-> var, parts |-> <<>>]

Compound(kind, parts) == [kind |-> kind, var |-> NULL, parts |-> parts]

Pointers(to) == {Compound("pointer", <<[name |-> "", type |-> k]>>) : k \in to}

Structs(first, second, name) ==
    {Compound("struct", <<[name |-> "m", type |-> k], [name |-> name, type |-> l]>>) :
        k \in first, l \in second}

SmallHeaps ==
    {<<Leaf("var", x), Leaf("var", y), Leaf("bool", NULL), a, b>> :
        a \in Pointers({1, 2}) \cup Structs({1}, {2}, "m"),
        b \in Pointers({3, 4}) \cup Structs({1, 2}, {4}, "m") \cup Structs({1}, {2}, "o")}

\* boolType.  unitType is a target too, but constrainTypeTo takes any struct
\* for it.
Bool == {3}

=============================================================================
