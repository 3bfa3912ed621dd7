-------------------------- MODULE MCNumberLiteral ---------------------------
(***************************************************************************)
(* A small instance of NumberLiteral: digits of three bases, the prefixes  *)
(* of two, and the types i32, u32 and f32, of which the last consists of   *)
(* digits.  The integer types are narrower than in the code, so that two   *)
(* or three digits overflow them.                                          *)
(***************************************************************************)
EXTENDS NumberLiteral

DigitChars == {"0", "2", "3", "f", "o", "x"}

TypeChars == {"2", "3"}

Narrow ==
    [t \in Integer |->
        CASE t = "i8" -> 3 [] t = "i16" -> 4 [] t = "i32" -> 5 [] t = "i64" -> 6
          [] t = "u8" -> 3 [] t = "u16" -> 4 [] t = "u32" -> 5 [] t = "u64" -> 6]

=============================================================================
