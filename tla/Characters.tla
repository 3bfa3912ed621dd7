----------------------------- MODULE Characters -----------------------------
(***************************************************************************)
(* The characters of a source text and what scc/src/lexer.c tells apart    *)
(* about them, and the tokens they are joined to.                          *)
(***************************************************************************)
EXTENDS Integers, Sequences

CONSTANTS
    Char,       \* the characters of the source
    Keyword     \* the words that classifyIdent knows, as sequences

White == {"\n", " ", "\t", "\r"}

\* isLetter, of lower-case letters (it takes upper-case ones too).
Letter == {"a", "b", "c", "d", "e", "f", "g", "h", "i", "j", "k", "l", "m", "n", "o",
           "p", "q", "r", "s", "t", "u", "v", "w", "x", "y", "z", "_"}

\* isDigit, with the letters of hexadecimal digits and of the bases.
Digit == {"0", "1", "2", "3", "4", "5", "6", "7", "8", "9",
          "a", "b", "c", "d", "e", "f", "x", "o"}

Symbol == {"(", ")", "[", "]", "{", "}", ",", ";", ".", ":", "=", "<", ">",
           "-", "~", "!", "&", "*", "/", "%", "+"}

\* The symbols of two characters.
Pair == {<<".", "*">>, <<"=", "=">>, <<"<", "=">>, <<">", "=">>, <<"-", ">">>,
         <<"-", "-">>, <<"!", "=">>, <<"+", "+">>}

\* The first letters of a type that may follow a number; "f" is a digit already.
Suffix == {"i", "u"}

Quote == "\""

\* A character with which no token starts.
Other == "$"

ASSUME CharactersAssumption ==
    /\ Char \subseteq White \cup Letter \cup Digit \cup Symbol \cup {"#", "@", Quote, Other}
    /\ Keyword \subseteq Seq(Letter)

\* The terminating null character, which no source contains.
NUL == "NUL"

Kind == {"identifier", "keyword", "builtin", "number", "string", "symbol", "EOF"}

\* from and to are the places of the first and the last character.
Token == [kind : Kind, from : Nat, to : Nat, line : Nat, hasDot : BOOLEAN]

=============================================================================
