--------------------------- MODULE NumberLiteral ----------------------------
(***************************************************************************)
(* parseNumber of scc/src/parser.c with parseDigit and                     *)
(* parseFloatingPoint: the base, the type and the value of a number token. *)
(* lexNumber takes any word of digits, with a dot and the three characters *)
(* behind an "i" or "u"; what it means is decided here.                    *)
(*                                                                         *)
(* The value of a floating-point literal is kept exactly, as the digits    *)
(* before and behind the dot; the rounding of double is not modelled.      *)
(***************************************************************************)
EXTENDS Integers, Sequences

CONSTANTS
    DigitChar,  \* the characters of literals for which isDigit holds
    TypeChar,   \* those that may follow the "i" or "u" of a type
    MaxDigits,  \* bound: characters before the dot
    MaxPart,    \* bound: and behind it
    Width       \* the bits of each integer type

Integer == {"i8", "i16", "i32", "i64", "u8", "u16", "u32", "u64"}
Float == {"f32", "f64"}
Signed == {"i8", "i16", "i32", "i64"}

\* parseDigit, but for the check against the base.
Digits ==
    [c \in {"0", "1", "2", "3", "4", "5", "6", "7", "8", "9", "a", "b", "c", "d", "e", "f"} |->
        CASE c = "0" -> 0 [] c = "1" -> 1 [] c = "2" -> 2 [] c = "3" -> 3
          [] c = "4" -> 4 [] c = "5" -> 5 [] c = "6" -> 6 [] c = "7" -> 7
          [] c = "8" -> 8 [] c = "9" -> 9 [] c = "a" -> 10 [] c = "b" -> 11
          [] c = "c" -> 12 [] c = "d" -> 13 [] c = "e" -> 14 [] c = "f" -> 15]

ASSUME NumberAssumption ==
    /\ DigitChar \subseteq DOMAIN Digits \cup {"x", "o"}
    /\ MaxDigits \in Nat /\ MaxPart \in Nat
    /\ Width \in [Integer -> Nat \ {0}]

VARIABLES
    text,       \* the characters of the token
    base,       \* 8, 10 or 16
    type,
    from, to,   \* the places of the digits in text: start and len
    pc,         \* "base", "type", "digits", or the outcome "done" or "fatal"
    place,      \* the digit of the next iteration
    value,      \* the value so far, of a float the part before the dot
    part,       \* of a float, the digits behind the dot as a number
    partSize    \* and how many there are; -1 before the dot

vars == <<text, base, type, from, to, pc, place, value, part, partSize>>

-----------------------------------------------------------------------------
Words(n) == UNION {[1 .. k -> DigitChar] : k \in 0 .. n}

\* The number tokens that lexNumber returns.
Literals ==
    LET heads == {w \in Words(MaxDigits) : w # <<>> /\ w[1] \in DOMAIN Digits
                                            /\ Digits[w[1]] < 10}
        tails == {<<>>} \cup {<<".">> \o w : w \in Words(MaxPart)}
        types == {<<>>} \cup {<<letter, c, d>> : letter \in {"i", "u"}, c, d \in TypeChar}
    IN  {h \o w \o t : h \in heads, w \in tails, t \in types}

HasDot(word) == \E i \in 1 .. Len(word) : word[i] = "."

Init ==
    /\ text \in Literals
    /\ base = 10
    /\ type = IF HasDot(text) THEN "f32" ELSE "i32"
    /\ from = 1 /\ to = Len(text)
    /\ pc = "base"
    /\ place = 0
    /\ value = 0 /\ part = 0 /\ partSize = -1

Fatal ==
    /\ pc' = "fatal"
    /\ UNCHANGED <<text, base, type, from, to, place, value, part, partSize>>

-----------------------------------------------------------------------------
(* The prefix.  The character behind a token of one is no letter of a base. *)

HasPrefix == Len(text) > 1 /\ text[2] \in {"o", "d", "x"}

TakePrefix ==
    /\ pc = "base"
    /\ HasPrefix
    /\ text[1] = "0"
    /\ base' = CASE text[2] = "o" -> 8 [] text[2] = "d" -> 10 [] text[2] = "x" -> 16
    /\ from' = 3
    /\ pc' = "type"
    /\ UNCHANGED <<text, type, to, place, value, part, partSize>>

NoPrefix ==
    /\ pc = "base"
    /\ ~HasPrefix
    /\ pc' = "type"
    /\ UNCHANGED <<text, base, type, from, to, place, value, part, partSize>>

\* "Missing prefix 0 for ..."
PrefixFails ==
    /\ pc = "base"
    /\ HasPrefix
    /\ text[1] # "0"
    /\ Fatal

-----------------------------------------------------------------------------
(* The type, recognised from the end of the text. *)

Len2 == to - from + 1

\* The characters of the types that a literal may end in: there is no f16.
TypeText(t) ==
    CASE t = "i8" -> <<"i", "8">> [] t = "u8" -> <<"u", "8">>
      [] t = "i16" -> <<"i", "1", "6">> [] t = "u16" -> <<"u", "1", "6">>
      [] t = "i32" -> <<"i", "3", "2">> [] t = "u32" -> <<"u", "3", "2">>
      [] t = "f32" -> <<"f", "3", "2">> [] t = "i64" -> <<"i", "6", "4">>
      [] t = "u64" -> <<"u", "6", "4">> [] t = "f64" -> <<"f", "6", "4">>

EndsIn(t) == SubSeq(text, to - Len(TypeText(t)) + 1, to) = TypeText(t)

\* The last but one character is one that it is in a type.
LooksTyped == Len2 > 2 /\ text[to - 1] \in {"i", "u", "1", "3", "6"}

BeginDigits == pc' = "digits" /\ place' = from

\* A mutation of TakeType: the case of "u32" is a copy of that of "i32".
TakeTypeSigned ==
    /\ pc = "type"
    /\ LooksTyped
    /\ \E t \in Integer \cup Float :
        /\ EndsIn(t)
        /\ type' = IF t = "u32" THEN "i32" ELSE t
        /\ to' = to - Len(TypeText(t))
    /\ BeginDigits
    /\ UNCHANGED <<text, base, from, value, part, partSize>>

TakeType ==
    /\ pc = "type"
    /\ LooksTyped
    /\ \E t \in Integer \cup Float :
        /\ EndsIn(t)
        /\ type' = t
        /\ to' = to - Len(TypeText(t))
    /\ BeginDigits
    /\ UNCHANGED <<text, base, from, value, part, partSize>>

NoType ==
    /\ pc = "type"
    /\ Len2 > 0
    /\ ~LooksTyped
    /\ BeginDigits
    /\ UNCHANGED <<text, base, type, from, to, value, part, partSize>>

\* "No number literals constructed by the lexer are empty.", "Invalid numeric type"
TypeFails ==
    /\ pc = "type"
    /\ \/ Len2 = 0
       \/ LooksTyped /\ \A t \in Integer \cup Float : ~EndsIn(t)
    /\ Fatal

-----------------------------------------------------------------------------
(* The digits. *)

IsDigitOf(c) == c \in DOMAIN Digits /\ Digits[c] < base

InDigits == pc = "digits" /\ place <= to

\* A mutation of Wrapped: one bit too many.
WrappedWide(t, n) ==
    LET m == n % (2 ^ (Width[t] + 1))
    IN  IF t \in Signed /\ m >= 2 ^ Width[t] THEN m - 2 ^ (Width[t] + 1) ELSE m

\* A sum stored into an integer of type t.  Of int32_t and int64_t the overflow
\* is undefined; the build without optimisation wraps around.
Wrapped(t, n) ==
    LET m == n % (2 ^ Width[t])
    IN  IF t \in Signed /\ m >= 2 ^ (Width[t] - 1) THEN m - 2 ^ Width[t] ELSE m

\* A mutation of IntegerDigit: the value is scaled after the digit was added.
IntegerDigitSwapped ==
    /\ InDigits
    /\ type \in Integer
    /\ IsDigitOf(text[place])
    /\ value' = Wrapped(type, (value + Digits[text[place]]) * base)
    /\ place' = place + 1
    /\ UNCHANGED <<text, base, type, from, to, pc, part, partSize>>

IntegerDigit ==
    /\ InDigits
    /\ type \in Integer
    /\ IsDigitOf(text[place])
    /\ value' = Wrapped(type, value * base + Digits[text[place]])
    /\ place' = place + 1
    /\ UNCHANGED <<text, base, type, from, to, pc, part, partSize>>

Dot ==
    /\ InDigits
    /\ type \in Float
    /\ text[place] = "."
    /\ partSize = -1
    /\ partSize' = 0
    /\ place' = place + 1
    /\ UNCHANGED <<text, base, type, from, to, pc, value, part>>

FloatDigit ==
    /\ InDigits
    /\ type \in Float
    /\ IsDigitOf(text[place])
    /\ IF partSize = -1
       THEN value' = value * base + Digits[text[place]] /\ UNCHANGED <<part, partSize>>
       ELSE part' = part * base + Digits[text[place]] /\ partSize' = partSize + 1
                /\ UNCHANGED value
    /\ place' = place + 1
    /\ UNCHANGED <<text, base, type, from, to, pc>>

\* "Invalid digit", "Number contains more than one decimal separator"
DigitFails ==
    /\ InDigits
    /\ ~IsDigitOf(text[place])
    /\ text[place] = "." => type \notin Float \/ partSize # -1
    /\ Fatal

Finish ==
    /\ pc = "digits"
    /\ place > to
    /\ pc' = "done"
    /\ UNCHANGED <<text, base, type, from, to, place, value, part, partSize>>

Next ==
    \/ TakePrefix
    \/ NoPrefix
    \/ PrefixFails
    \/ TakeType
    \/ NoType
    \/ TypeFails
    \/ IntegerDigit
    \/ Dot
    \/ FloatDigit
    \/ DigitFails
    \/ Finish

Spec == Init /\ [][Next]_vars

-----------------------------------------------------------------------------
Values(t) == IF t \in Signed THEN -(2 ^ (Width[t] - 1)) .. 2 ^ (Width[t] - 1) - 1
                             ELSE 0 .. 2 ^ Width[t] - 1

\* The value fits its type, at every moment.
TypeOK ==
    /\ base \in {8, 10, 16}
    /\ type \in Integer \cup Float
    /\ from \in {1, 3} /\ to \in Nat
    /\ pc \in {"base", "type", "digits", "done", "fatal"}
    /\ place \in Nat
    /\ type \in Integer => value \in Values(type)
    /\ value \in Int /\ part \in Nat /\ partSize \in Nat \cup {-1}

\* b to the power of n, which the provers know nothing of when it is written b ^ n.
Power(b, n) ==
    LET power[i \in 0 .. n] == IF i = 0 THEN 1 ELSE b * power[i - 1]
    IN  power[n]

\* The number that the characters first..last denote in base b, as a sum of powers.
Sum(word, b, first, last) ==
    LET n == last - first + 1
        sum[i \in 0 .. n] ==
            IF i = 0 THEN 0
                     ELSE sum[i - 1] + Digits[word[first + i - 1]] * Power(b, n - i)
    IN  sum[n]

\* A literal that is accepted has the value that its digits denote in its base,
\* modulo the width of its type; of a float, with every digit behind the dot
\* counted for its scale.
ValueIsRight ==
    pc = "done" =>
        /\ type \in Integer => value = Wrapped(type, Sum(text, base, from, to))
        /\ type \in Float /\ partSize = -1 => value = Sum(text, base, from, to)
        /\ type \in Float /\ partSize # -1 =>
            LET dot == CHOOSE i \in from .. to : text[i] = "."
            IN  /\ value = Sum(text, base, from, dot - 1)
                /\ part = Sum(text, base, dot + 1, to)
                /\ partSize = to - dot

\* The places at which a letter stands that is no digit of the base, so that
\* only a type can start there.
TypePlaces ==
    {i \in from .. Len(text) : text[i] \in {"i", "u"} \/ (text[i] = "f" /\ base # 16)}

\* A hexadecimal literal that ends in "f32" or "f64": these are digits of base
\* 16, and parseNumber takes them for the type (NumbersAreTaken).
EndsInHexFloat ==
    base = 16 /\ \E t \in Float : SubSeq(text, Len(text) - 2, Len(text)) = TypeText(t)

\* An accepted literal ends where the first letter stands that is no digit of its
\* base, and has the type that is spelled from there to its end; without such a
\* letter every character is one of the number, and the type is f32 or i32,
\* with a dot or without.  So neither is a digit taken for a type nor a type for
\* digits, but for EndsInHexFloat.
TypeIsRight ==
    pc = "done" /\ ~EndsInHexFloat =>
        IF TypePlaces = {}
        THEN to = Len(text) /\ type = IF HasDot(text) THEN "f32" ELSE "i32"
        ELSE /\ text = SubSeq(text, 1, to) \o TypeText(type)
             /\ \A i \in TypePlaces : i > to

\* The numbers of spec/syntax.typ, which have no type and no dot.
IsNumber(word) ==
    \/ \A i \in 1 .. Len(word) : word[i] \in DOMAIN Digits /\ Digits[word[i]] < 10
    \/ /\ Len(word) > 2
       /\ word[1] = "0"
       /\ \/ word[2] = "x" /\ \A i \in 3 .. Len(word) : word[i] \in DOMAIN Digits
          \/ word[2] = "o" /\ \A i \in 3 .. Len(word) : word[i] \in DOMAIN Digits
                                                            /\ Digits[word[i]] < 8

\* Each of them is accepted, and all its digits count.  It does not hold: the last
\* two digits of 110 are taken for the rest of a type, and the last three of 0xf32
\* for a whole one.
NumbersAreTaken ==
    IsNumber(text) =>
        /\ pc # "fatal"
        /\ pc = "done" => to = Len(text)

=============================================================================
