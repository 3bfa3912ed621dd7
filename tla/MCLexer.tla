------------------------------ MODULE MCLexer -------------------------------
(***************************************************************************)
(* Small instances of Lexer: all sources over a few characters, those of   *)
(* tokens and those of comments.                                           *)
(***************************************************************************)
EXTENDS Lexer

Texts(chars, length) == UNION {[1 .. n -> chars] : n \in 0 .. length}

\* "o" is a letter and a digit, "or" a keyword, and "i" starts a type behind a
\* number.
PlainChars == {"\n", "o", "r", "i", "1", ".", "=", Quote, "@", Other}

CommentChars == {"\n", "#", "i", "1"}

Chars == PlainChars \cup CommentChars

Keywords == {<<"o", "r">>}

TokensAndComments == Texts(PlainChars, 4) \cup Texts(CommentChars, 7)

ShortComments == Texts(CommentChars, 3)

=============================================================================
