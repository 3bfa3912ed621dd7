---------------------------- MODULE MCPrecedence ----------------------------
(***************************************************************************)
(* Small instances of Precedence: terms over one operator of each of five  *)
(* levels, long enough to climb up and down between them.                  *)
(***************************************************************************)
EXTENDS Precedence

LevelTokens == {"lvalue", "&", "+", "*", "==", "or", "as", "=", "end"}

=============================================================================
