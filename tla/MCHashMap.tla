----------------------------- MODULE MCHashMap ------------------------------
(***************************************************************************)
(* Small instances of HashMap: a table that starts with two slots, and     *)
(* hashes that collide in it and wrap around the end of the tables of four *)
(* and eight slots it grows into.                                          *)
(***************************************************************************)
EXTENDS HashMap, TLC

CONSTANTS a, b, c

Keys == {a, b, c}

\* a and b meet in slot 1 of two, b wraps around from the last slot of four,
\* and c meets b in slot 7 of eight.
Hashes == a :> 1 @@ b :> 7 @@ c :> 15


=============================================================================
