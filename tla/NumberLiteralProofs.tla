------------------------ MODULE NumberLiteralProofs -------------------------
(***************************************************************************)
(* Proofs about NumberLiteral: the type and the value that parseNumber     *)
(* finds, for any literal, however long, and any widths of the types.      *)
(***************************************************************************)
EXTENDS NumberLiteral, FiniteSetTheorems, SequenceTheorems, TLAPS

-----------------------------------------------------------------------------
(* Powers of two: there are 2 ^ n sets of numbers up to n. *)

LEMMA TwoPower ==
    ASSUME NEW n \in Nat
    PROVE  2 ^ n \in Nat \ {0}
<1>1. IsFiniteSet(1 .. n) /\ Cardinality(1 .. n) = n
    BY FS_Interval
<1>2. Cardinality(SUBSET (1 .. n)) = 2 ^ n /\ IsFiniteSet(SUBSET (1 .. n))
    BY <1>1, FS_SUBSET
<1>3. 2 ^ n \in Nat
    BY <1>2, FS_CardinalityType
<1> QED  BY <1>2, <1>3, FS_EmptySet

\* Half of the sets have n among them.
LEMMA TwoPowerDoubles ==
    ASSUME NEW n \in Nat \ {0}
    PROVE  2 ^ n = 2 * 2 ^ (n - 1)
<1> PICK A : A = SUBSET (1 .. n - 1)
    OBVIOUS
<1> PICK B : B = {X \in SUBSET (1 .. n) : n \in X}
    OBVIOUS
<1>1. /\ IsFiniteSet(1 .. n) /\ Cardinality(1 .. n) = n
      /\ IsFiniteSet(1 .. n - 1) /\ Cardinality(1 .. n - 1) = n - 1
    BY FS_Interval
<1>2. /\ Cardinality(SUBSET (1 .. n)) = 2 ^ n
      /\ IsFiniteSet(A) /\ Cardinality(A) = 2 ^ (n - 1)
    BY <1>1, FS_SUBSET
<1>3. SUBSET (1 .. n) = A \cup B
    <2>1. ASSUME NEW X \in SUBSET (1 .. n), n \notin X PROVE X \in A
        BY <2>1
    <2>2. A \subseteq SUBSET (1 .. n)
        OBVIOUS
    <2> QED  BY <2>1, <2>2
<1>4. A \cap B = {}
    OBVIOUS
<1> PICK f : f = [X \in A |-> X \cup {n}]
    OBVIOUS
<1>5. f \in Bijection(A, B)
    <2>1. f \in [A -> B]
        OBVIOUS
    <2>2. ASSUME NEW X \in A, NEW Y \in A, f[X] = f[Y] PROVE X = Y
        <3>1. n \notin X /\ n \notin Y
            OBVIOUS
        <3>2. X \cup {n} = Y \cup {n}
            BY <2>2
        <3>3. X = (X \cup {n}) \ {n} /\ Y = (Y \cup {n}) \ {n}
            BY <3>1
        <3> QED  BY <3>2, <3>3
    <2>3. ASSUME NEW Y \in B PROVE \E X \in A : f[X] = Y
        <3>1. Y \ {n} \in A
            OBVIOUS
        <3>2. f[Y \ {n}] = Y
            BY <3>1
        <3> QED  BY <3>1, <3>2
    <2> QED  BY <2>1, <2>2, <2>3 DEF Bijection, Injection, Surjection, IsInjective
<1>6. IsFiniteSet(B) /\ Cardinality(B) = Cardinality(A)
    <2>1. ExistsBijection(A, B)
        BY <1>5 DEF ExistsBijection
    <2> QED  BY <1>2, <2>1, FS_Bijection
<1>7. Cardinality(A \cup B) = Cardinality(A) + Cardinality(B) - Cardinality(A \cap B)
    BY <1>2, <1>6, FS_Union
<1>8. Cardinality(A \cap B) = 0
    BY <1>4, FS_EmptySet
<1> PICK whole, half : whole = 2 ^ n /\ half = 2 ^ (n - 1)
    OBVIOUS
<1>9. half \in Nat
    BY TwoPower
<1>10. whole = half + half - 0
    BY <1>2, <1>3, <1>6, <1>7, <1>8
<1>11. whole = 2 * half
    BY <1>9, <1>10
<1> QED  BY <1>11

-----------------------------------------------------------------------------
(* Remainders, and the values of a type. *)

LEMMA QuotientIs ==
    ASSUME NEW n \in Int, NEW m \in Int, m > 0
    PROVE  n = m * (n \div m) + (n % m)
OBVIOUS

LEMMA Divided ==
    ASSUME NEW n \in Int, NEW m \in Nat \ {0}
    PROVE  \E q \in Int : n = q * m + (n % m)
<1> PICK q, r : q = n \div m /\ r = n % m
    OBVIOUS
<1>1. m \in Int /\ m > 0
    OBVIOUS
<1>2. n = m * q + r
    BY <1>1, QuotientIs
<1>3. q \in Int /\ r \in Int
    OBVIOUS
<1>4. m * q = q * m
    BY <1>1, <1>3
<1> QED  BY <1>2, <1>3, <1>4

LEMMA RemainderIs ==
    ASSUME NEW q \in Int, NEW m \in Nat \ {0}, NEW r \in 0 .. m - 1
    PROVE  (q * m + r) % m = r
OBVIOUS

LEMMA RemainderKept ==
    ASSUME NEW n \in Int, NEW k \in Int, NEW m \in Nat \ {0}
    PROVE  (n + k * m) % m = n % m
<1> PICK r : r = n % m
    OBVIOUS
<1>1. PICK q \in Int : n = q * m + r
    BY Divided
<1>2. r \in 0 .. m - 1
    OBVIOUS
<1>3. (q + k) * m + r = n + k * m
    BY <1>1, <1>2
<1>4. ((q + k) * m + r) % m = r
    <2> PICK j : j = q + k
        OBVIOUS
    <2>1. j \in Int
        OBVIOUS
    <2>2. (j * m + r) % m = r
        BY <1>2, <2>1, RemainderIs
    <2> QED  BY <2>2
<1> QED  BY <1>3, <1>4

LEMMA Distributes ==
    ASSUME NEW x \in Int, NEW y \in Int, NEW z \in Int
    PROVE  x * z + y * z = (x + y) * z
OBVIOUS

LEMMA WidthSizes ==
    ASSUME NEW t \in Integer
    PROVE  /\ 2 ^ Width[t] \in Nat \ {0}
           /\ 2 ^ (Width[t] - 1) \in Nat \ {0}
           /\ 2 ^ Width[t] = 2 * 2 ^ (Width[t] - 1)
<1> PICK w : w = Width[t]
    OBVIOUS
<1>1. w \in Nat \ {0} /\ w \in Nat /\ w - 1 \in Nat
    BY NumberAssumption
<1>2. 2 ^ w \in Nat \ {0} /\ 2 ^ (w - 1) \in Nat \ {0}
    BY <1>1, TwoPower
<1>3. 2 ^ w = 2 * 2 ^ (w - 1)
    BY <1>1, TwoPowerDoubles
<1> QED  BY <1>2, <1>3

\* Wrapping changes a number by a multiple of the type's size, into its values.
LEMMA WrappedIs ==
    ASSUME NEW t \in Integer, NEW n \in Int
    PROVE  /\ Wrapped(t, n) \in Values(t)
           /\ Wrapped(t, n) \in Int
           /\ \E k \in Int : Wrapped(t, n) = n + k * 2 ^ Width[t]
<1> PICK size, half : size = 2 ^ Width[t] /\ half = 2 ^ (Width[t] - 1)
    OBVIOUS
<1>1. size \in Nat \ {0} /\ half \in Nat \ {0} /\ size = 2 * half
    BY WidthSizes
<1> PICK r : r = n % size
    OBVIOUS
<1>2. r \in 0 .. size - 1
    BY <1>1
<1>3. PICK q \in Int : n = q * size + r
    BY <1>1, Divided
<1>4. CASE t \in Signed /\ r >= half
    <2>1. Wrapped(t, n) = r - size /\ Values(t) = -half .. half - 1
        BY <1>4 DEF Wrapped, Values
    <2>2. r - size \in -half .. half - 1
        BY <1>1, <1>2, <1>4
    <2> PICK k : k = 0 - q - 1
        OBVIOUS
    <2>3. k \in Int /\ (q + k) * size = 0 - size
        BY <1>1
    <2>4. q * size + k * size = (q + k) * size
        <3>1. size \in Int
            BY <1>1
        <3> QED  BY <2>3, <3>1, Distributes
    <2>5. r - size = n + k * size
        BY <1>1, <1>2, <1>3, <2>3, <2>4
    <2>6. Wrapped(t, n) = n + k * size
        BY <2>1, <2>5
    <2>7. Wrapped(t, n) \in Values(t)
        BY <2>1, <2>2
    <2>8. Wrapped(t, n) \in Int
        BY <1>1, <1>2, <2>1
    <2> QED  BY <2>3, <2>6, <2>7, <2>8
<1>5. CASE ~(t \in Signed /\ r >= half)
    <2>1. Wrapped(t, n) = r
        BY <1>5 DEF Wrapped
    <2>2. r \in Values(t)
        <3>1. CASE t \in Signed
            <4>1. Values(t) = -half .. half - 1
                BY <3>1 DEF Values
            <4>2. r < half /\ r \in Nat
                BY <1>1, <1>2, <1>5, <3>1
            <4>3. r \in -half .. half - 1
                BY <1>1, <4>2
            <4> QED  BY <4>1, <4>3
        <3>2. CASE t \notin Signed
            BY <1>2, <3>2 DEF Values
        <3> QED  BY <3>1, <3>2
    <2> PICK k : k = 0 - q
        OBVIOUS
    <2>3. k \in Int /\ (q + k) * size = 0
        BY <1>1
    <2>4. q * size + k * size = (q + k) * size
        <3>1. size \in Int
            BY <1>1
        <3> QED  BY <2>3, <3>1, Distributes
    <2>5. r = n + k * size
        BY <1>1, <1>2, <1>3, <2>3, <2>4
    <2>6. Wrapped(t, n) = n + k * size
        BY <2>1, <2>5
    <2>7. Wrapped(t, n) \in Values(t)
        BY <2>1, <2>2
    <2>8. Wrapped(t, n) \in Int
        BY <1>1, <1>2, <2>1
    <2> QED  BY <2>3, <2>6, <2>7, <2>8
<1> QED  BY <1>4, <1>5

LEMMA WrappedKept ==
    ASSUME NEW t \in Integer, NEW n \in Int, NEW k \in Int
    PROVE  Wrapped(t, n + k * 2 ^ Width[t]) = Wrapped(t, n)
<1>1. 2 ^ Width[t] \in Nat \ {0}
    BY WidthSizes
<1>2. (n + k * 2 ^ Width[t]) % 2 ^ Width[t] = n % 2 ^ Width[t]
    BY <1>1, RemainderKept
<1> QED  BY <1>2 DEF Wrapped

\* Wrapping in each step is wrapping once, in the end.
LEMMA WrappedStep ==
    ASSUME NEW t \in Integer, NEW n \in Int, NEW b \in Int, NEW d \in Int
    PROVE  Wrapped(t, Wrapped(t, n) * b + d) = Wrapped(t, n * b + d)
<1> PICK size : size = 2 ^ Width[t]
    OBVIOUS
<1>1. size \in Nat \ {0}
    BY WidthSizes
<1>2. PICK k \in Int : Wrapped(t, n) = n + k * size
    BY WrappedIs
<1>3. (n + k * size) * b + d = (n * b + d) + (k * b) * size
    BY <1>1
<1>4. Wrapped(t, (n * b + d) + (k * b) * size) = Wrapped(t, n * b + d)
    <2> PICK m, j : m = n * b + d /\ j = k * b
        OBVIOUS
    <2>1. m \in Int /\ j \in Int
        OBVIOUS
    <2>2. Wrapped(t, m + j * size) = Wrapped(t, m)
        BY <2>1, WrappedKept
    <2> QED  BY <2>2
<1> QED  BY <1>2, <1>3, <1>4

LEMMA WrappedZero ==
    ASSUME NEW t \in Integer
    PROVE  Wrapped(t, 0) = 0 /\ 0 \in Values(t)
<1> PICK size, half : size = 2 ^ Width[t] /\ half = 2 ^ (Width[t] - 1)
    OBVIOUS
<1>1. size \in Nat \ {0} /\ half \in Nat \ {0}
    BY WidthSizes
<1>2. 0 % size = 0
    BY <1>1
<1>3. Wrapped(t, 0) = 0
    BY <1>1, <1>2 DEF Wrapped
<1> QED  BY <1>3, WrappedIs

-----------------------------------------------------------------------------
(* Sums of powers.  Both are functions with a value for 0 and a step, which *)
(* exist and are told apart by induction: by the first number at which one  *)
(* of them fails.                                                           *)

LEMMA FirstOf ==
    ASSUME NEW S \in SUBSET Nat, S # {}
    PROVE  \E m \in S : \A k \in S : m <= k
<1>1. PICK m \in S : \A k \in S : ~(<<k, m>> \in OpToRel(<, Nat))
    BY NatLessThanWellFounded, WFMin
<1>2. \A k \in S : ~(k < m)
    BY <1>1 DEF OpToRel
<1> QED  BY <1>2

\* f begins with c and goes on by h, after a multiplication with a.
Recurs(f, n, c, a, h) ==
    /\ f \in [0 .. n -> Int]
    /\ f[0] = c
    /\ \A i \in 1 .. n : f[i] = a * f[i - 1] + h[i]

LEMMA RecurrenceExists ==
    ASSUME NEW n \in Nat, NEW c \in Int, NEW a \in Int, NEW h \in [1 .. n -> Int]
    PROVE  \E f : Recurs(f, n, c, a, h)
<1> SUFFICES ASSUME ~\E f : Recurs(f, n, c, a, h) PROVE FALSE
    OBVIOUS
<1> PICK S : S = {k \in 0 .. n : ~\E f : Recurs(f, k, c, a, h)}
    OBVIOUS
<1>1. S \in SUBSET Nat /\ n \in S
    OBVIOUS
<1>2. PICK m \in S : \A k \in S : m <= k
    BY <1>1, FirstOf
<1>3. m # 0
    <2> SUFFICES ASSUME m = 0 PROVE FALSE
        OBVIOUS
    <2> PICK f : f = [i \in 0 .. 0 |-> c]
        OBVIOUS
    <2>1. Recurs(f, 0, c, a, h)
        BY DEF Recurs
    <2> QED  BY <1>2, <2>1
<1>4. m \in 1 .. n /\ m - 1 \in 0 .. n /\ m - 1 \notin S
    BY <1>1, <1>2, <1>3
<1>5. PICK f : Recurs(f, m - 1, c, a, h)
    BY <1>4
<1> PICK g : g = [i \in 0 .. m |-> IF i = m THEN a * f[m - 1] + h[m] ELSE f[i]]
    OBVIOUS
<1>6. f[m - 1] \in Int /\ h[m] \in Int
    BY <1>4, <1>5 DEF Recurs
<1> PICK next : next = a * f[m - 1] + h[m]
    OBVIOUS
<1>7. next \in Int
    BY <1>6
<1>8. g \in [0 .. m -> Int]
    <2>1. ASSUME NEW i \in 0 .. m, i # m PROVE f[i] \in Int
        BY <1>4, <1>5, <2>1 DEF Recurs
    <2> QED  BY <1>7, <2>1
<1>9. g[0] = c
    BY <1>4, <1>5 DEF Recurs
<1>10. ASSUME NEW i \in 1 .. m PROVE g[i] = a * g[i - 1] + h[i]
    <2>1. i - 1 \in 0 .. m /\ i - 1 # m /\ g[i - 1] = f[i - 1]
        BY <1>4
    <2>2. CASE i = m
        BY <1>4, <2>1, <2>2
    <2>3. CASE i # m
        BY <1>4, <1>5, <2>1, <2>3 DEF Recurs
    <2> QED  BY <2>2, <2>3
<1>11. Recurs(g, m, c, a, h)
    BY <1>8, <1>9, <1>10 DEF Recurs
<1> QED  BY <1>2, <1>11

\* Two functions that begin alike and take like steps are alike.
StepAlike(f, g, n) ==
    /\ f[0] = g[0]
    /\ \A i \in 1 .. n : f[i - 1] = g[i - 1] => f[i] = g[i]

LEMMA StepsAgree ==
    ASSUME NEW n \in Nat, NEW f, NEW g, StepAlike(f, g, n)
    PROVE  \A i \in 0 .. n : f[i] = g[i]
<1> SUFFICES ASSUME NEW i \in 0 .. n, f[i] # g[i] PROVE FALSE
    OBVIOUS
<1> PICK S : S = {k \in 0 .. n : f[k] # g[k]}
    OBVIOUS
<1>1. S \in SUBSET Nat /\ i \in S
    OBVIOUS
<1>2. PICK m \in S : \A k \in S : m <= k
    BY <1>1, FirstOf
<1>3. m \in 1 .. n /\ m - 1 \in 0 .. n /\ m - 1 \notin S
    BY <1>2 DEF StepAlike
<1> QED  BY <1>2, <1>3 DEF StepAlike

LEMMA PowerIs ==
    ASSUME NEW b \in Nat, NEW n \in Nat
    PROVE  \E f : /\ f \in [0 .. n -> Int]
                  /\ Power(b, n) = f[n]
                  /\ f[0] = 1
                  /\ \A i \in 1 .. n : f[i] = b * f[i - 1]
<1>1. PICK f : Recurs(f, n, 1, b, [i \in 1 .. n |-> 0])
    <2> PICK h : h = [i \in 1 .. n |-> 0]
        OBVIOUS
    <2>1. h \in [1 .. n -> Int]
        OBVIOUS
    <2> QED  BY <2>1, RecurrenceExists
<1>2. f \in [0 .. n -> Int] /\ f[0] = 1
    BY <1>1 DEF Recurs
<1>3. ASSUME NEW i \in 1 .. n PROVE f[i] = b * f[i - 1]
    <2>1. f[i] = b * f[i - 1] + 0
        BY <1>1 DEF Recurs
    <2>2. f[i - 1] \in Int
        BY <1>2
    <2> QED  BY <2>1, <2>2
<1>4. f = [i \in 0 .. n |-> IF i = 0 THEN 1 ELSE b * f[i - 1]]
    <2>1. ASSUME NEW i \in 0 .. n PROVE f[i] = IF i = 0 THEN 1 ELSE b * f[i - 1]
        BY <1>2, <1>3
    <2> QED  BY <1>2, <2>1
<1> DEFINE P == CHOOSE p : p = [i \in 0 .. n |-> IF i = 0 THEN 1 ELSE b * p[i - 1]]
<1>5. P = [i \in 0 .. n |-> IF i = 0 THEN 1 ELSE b * P[i - 1]]
    BY <1>4
<1>6. Power(b, n) = P[n]
    BY DEF Power
<1> HIDE DEF P
<1>7. PICK p : p = P
    OBVIOUS
<1>8. p[0] = 1 /\ \A i \in 1 .. n : p[i] = b * p[i - 1]
    BY <1>5, <1>7
<1>9. \A i \in 0 .. n : f[i] = p[i]
    <2>1. StepAlike(f, p, n)
        BY <1>2, <1>3, <1>8 DEF StepAlike
    <2> QED  BY <2>1, StepsAgree
<1>10. Power(b, n) = f[n]
    BY <1>6, <1>7, <1>9
<1> QED  BY <1>2, <1>3, <1>10

LEMMA PowerStep ==
    ASSUME NEW b \in Nat, NEW n \in Nat
    PROVE  /\ Power(b, 0) = 1
           /\ Power(b, n) \in Int
           /\ Power(b, n + 1) = b * Power(b, n)
<1>1. Power(b, 0) = 1
    <2>1. 0 \in Nat
        OBVIOUS
    <2> QED  BY <2>1, PowerIs
<1>2. PICK f : /\ f \in [0 .. n -> Int]
               /\ Power(b, n) = f[n]
               /\ f[0] = 1
               /\ \A i \in 1 .. n : f[i] = b * f[i - 1]
    BY PowerIs
<1> PICK m : m = n + 1
    OBVIOUS
<1>3. m \in Nat /\ m - 1 = n /\ 1 .. n \subseteq 1 .. m
    OBVIOUS
<1>4. PICK g : /\ g \in [0 .. m -> Int]
               /\ Power(b, m) = g[m]
               /\ g[0] = 1
               /\ \A i \in 1 .. m : g[i] = b * g[i - 1]
    BY <1>3, PowerIs
<1>5. \A i \in 0 .. n : f[i] = g[i]
    <2>1. StepAlike(f, g, n)
        BY <1>2, <1>3, <1>4 DEF StepAlike
    <2> QED  BY <2>1, StepsAgree
<1>6. g[m] = b * g[n]
    BY <1>3, <1>4
<1> QED  BY <1>1, <1>2, <1>4, <1>5, <1>6

LEMMA DigitsAre ==
    /\ \A c \in DOMAIN Digits : Digits[c] \in Nat
    /\ "." \notin DOMAIN Digits
<1>1. DOMAIN Digits = {"0", "1", "2", "3", "4", "5", "6", "7",
                       "8", "9", "a", "b", "c", "d", "e", "f"}
    BY DEF Digits
<1>2. \A c \in DOMAIN Digits : Digits[c] \in Nat
    BY <1>1 DEF Digits
<1> QED  BY <1>1, <1>2

\* The characters of word from first to last are digits.
AllDigits(word, first, last) == \A i \in first .. last : word[i] \in DOMAIN Digits

\* What the i-th of n digits counts for.
Worth(word, b, first, n, i) == Digits[word[first + i - 1]] * Power(b, n - i)

LEMMA WorthIs ==
    ASSUME NEW word, NEW b \in Nat, NEW first \in Nat, NEW n \in Nat,
           AllDigits(word, first, first + n - 1)
    PROVE  \E h \in [1 .. n -> Int] : \A i \in 1 .. n : h[i] = Worth(word, b, first, n, i)
<1>1. ASSUME NEW i \in 1 .. n PROVE Worth(word, b, first, n, i) \in Int
    <2> PICK j, k : j = first + i - 1 /\ k = n - i
        OBVIOUS
    <2>1. j \in first .. first + n - 1 /\ k \in Nat
        OBVIOUS
    <2>2. Digits[word[j]] \in Nat
        BY <2>1, DigitsAre DEF AllDigits
    <2>3. Power(b, k) \in Int
        BY <2>1, PowerStep
    <2> QED  BY <2>2, <2>3 DEF Worth
<1> PICK h : h = [i \in 1 .. n |-> Worth(word, b, first, n, i)]
    OBVIOUS
<1>2. h \in [1 .. n -> Int] /\ \A i \in 1 .. n : h[i] = Worth(word, b, first, n, i)
    BY <1>1
<1> QED  BY <1>2

\* f are the sums of the first digits, and h what they count for.
SumBy(f, h, word, b, first, n) ==
    /\ f \in [0 .. n -> Int] /\ h \in [1 .. n -> Int]
    /\ Sum(word, b, first, first + n - 1) = f[n]
    /\ f[0] = 0
    /\ \A i \in 1 .. n : f[i] = f[i - 1] + h[i]
    /\ \A i \in 1 .. n : h[i] = Worth(word, b, first, n, i)

LEMMA SumIs ==
    ASSUME NEW word, NEW b \in Nat, NEW first \in Nat, NEW n \in Nat,
           AllDigits(word, first, first + n - 1)
    PROVE  \E f, h : SumBy(f, h, word, b, first, n)
<1>1. PICK h \in [1 .. n -> Int] : \A i \in 1 .. n : h[i] = Worth(word, b, first, n, i)
    BY WorthIs
<1>2. PICK f : Recurs(f, n, 0, 1, h)
    BY RecurrenceExists
<1>3. f \in [0 .. n -> Int] /\ f[0] = 0
    BY <1>2 DEF Recurs
<1>4. ASSUME NEW i \in 1 .. n PROVE f[i] = f[i - 1] + h[i]
    <2>1. f[i] = 1 * f[i - 1] + h[i]
        BY <1>2 DEF Recurs
    <2>2. f[i - 1] \in Int
        BY <1>3
    <2> QED  BY <2>1, <2>2
<1>5. f = [i \in 0 .. n |-> IF i = 0 THEN 0 ELSE f[i - 1] + Worth(word, b, first, n, i)]
    <2>1. ASSUME NEW i \in 0 .. n
          PROVE f[i] = IF i = 0 THEN 0 ELSE f[i - 1] + Worth(word, b, first, n, i)
        <3>1. CASE i = 0
            BY <1>3, <3>1
        <3>2. CASE i # 0
            <4>1. i \in 1 .. n
                BY <3>2
            <4> QED  BY <1>1, <1>4, <3>2, <4>1
        <3> QED  BY <3>1, <3>2
    <2> QED  BY <1>3, <2>1
<1> DEFINE P == CHOOSE p : p = [i \in 0 .. n |->
                    IF i = 0 THEN 0 ELSE p[i - 1] + Worth(word, b, first, n, i)]
<1>6. P = [i \in 0 .. n |-> IF i = 0 THEN 0 ELSE P[i - 1] + Worth(word, b, first, n, i)]
    BY <1>5, Zenon
<1>7. Sum(word, b, first, first + n - 1) = P[n]
    <2> PICK last : last = first + n - 1
        OBVIOUS
    <2>1. last - first + 1 = n
        OBVIOUS
    <2> QED  BY <2>1 DEF Sum, Worth
<1> HIDE DEF P
<1>8. PICK p : p = P
    OBVIOUS
<1>9. p[0] = 0 /\ \A i \in 1 .. n : p[i] = p[i - 1] + Worth(word, b, first, n, i)
    BY <1>6, <1>8
<1>10. \A i \in 0 .. n : p[i] = f[i]
    <2>1. StepAlike(p, f, n)
        BY <1>1, <1>3, <1>4, <1>9 DEF StepAlike
    <2> QED  BY <2>1, StepsAgree
<1>11. Sum(word, b, first, first + n - 1) = f[n]
    BY <1>7, <1>8, <1>10
<1>12. SumBy(f, h, word, b, first, n)
    BY <1>1, <1>3, <1>4, <1>11 DEF SumBy
<1> QED  BY <1>12

\* A further digit: what is before it counts for base times as much.
LEMMA WorthStep ==
    ASSUME NEW word, NEW b \in Nat, NEW first \in Nat, NEW n \in Nat,
           AllDigits(word, first, first + n), NEW i \in 1 .. n
    PROVE  /\ Worth(word, b, first, n, i) \in Int
           /\ Worth(word, b, first, n + 1, i) = Worth(word, b, first, n, i) * b
<1> PICK j, k : j = first + i - 1 /\ k = n - i
    OBVIOUS
<1>1. j \in first .. first + n /\ k \in Nat /\ n + 1 - i = k + 1
    OBVIOUS
<1> PICK d, w : d = Digits[word[j]] /\ w = Power(b, k)
    OBVIOUS
<1>2. d \in Nat
    BY <1>1, DigitsAre DEF AllDigits
<1>3. w \in Int /\ Power(b, k + 1) = b * w
    BY <1>1, PowerStep
<1>4. Worth(word, b, first, n, i) = d * w
    BY DEF Worth
<1>5. Worth(word, b, first, n + 1, i) = d * (b * w)
    BY <1>1, <1>3 DEF Worth
<1>6. d * (b * w) = (d * w) * b
    BY <1>2, <1>3
<1> QED  BY <1>2, <1>3, <1>4, <1>5, <1>6

LEMMA SumStep ==
    ASSUME NEW word, NEW b \in Nat, NEW first \in Nat, NEW n \in Nat,
           AllDigits(word, first, first + n)
    PROVE  /\ Sum(word, b, first, first + n - 1) \in Int
           /\ Digits[word[first + n]] \in Nat
           /\ Sum(word, b, first, first + n) =
                Sum(word, b, first, first + n - 1) * b + Digits[word[first + n]]
<1>1. AllDigits(word, first, first + n - 1)
    BY DEF AllDigits
<1>2. PICK f, h : SumBy(f, h, word, b, first, n)
    BY <1>1, SumIs
<1>3. PICK m \in Nat : m = n + 1
    OBVIOUS
<1>4. m \in 1 .. m /\ first + m - 1 = first + n /\ 1 .. n \subseteq 1 .. m /\ n = m - 1
    BY <1>3
<1>5. PICK g, k : SumBy(g, k, word, b, first, m)
    <2>1. AllDigits(word, first, first + m - 1)
        BY <1>4
    <2> QED  BY <1>3, <2>1, SumIs
<1>6. \E s : \A i \in 0 .. n : s[i] = f[i] * b
    <2> PICK s : s = [i \in 0 .. n |-> f[i] * b]
        OBVIOUS
    <2> QED  OBVIOUS
<1>7. PICK s : \A i \in 0 .. n : s[i] = f[i] * b
    BY <1>6
<1>8. \A i \in 0 .. n : g[i] = s[i]
    <2>1. ASSUME NEW i \in 1 .. n, g[i - 1] = s[i - 1] PROVE g[i] = s[i]
        <3>1. i \in 1 .. m /\ i - 1 \in 0 .. n /\ i \in 0 .. n
            BY <1>4
        <3>2. h[i] \in Int /\ k[i] = h[i] * b
            <4>1. /\ Worth(word, b, first, n, i) \in Int
                  /\ Worth(word, b, first, n + 1, i) = Worth(word, b, first, n, i) * b
                BY WorthStep, Zenon
            <4>2. h[i] = Worth(word, b, first, n, i) /\ k[i] = Worth(word, b, first, n + 1, i)
                BY <1>2, <1>3, <1>5, <3>1, Zenon DEF SumBy
            <4> QED  BY <4>1, <4>2
        <3>3. g[i] = g[i - 1] + k[i] /\ f[i] = f[i - 1] + h[i]
            BY <1>2, <1>5, <3>1 DEF SumBy
        <3>4. s[i] = f[i] * b /\ s[i - 1] = f[i - 1] * b /\ f[i - 1] \in Int
            BY <1>2, <1>7, <3>1 DEF SumBy
        <3>5. f[i - 1] * b + h[i] * b = (f[i - 1] + h[i]) * b
            <4> PICK x, y : x = f[i - 1] /\ y = h[i]
                OBVIOUS
            <4>1. x \in Int /\ y \in Int
                BY <3>2, <3>4
            <4>2. x * b + y * b = (x + y) * b
                BY <4>1, Distributes
            <4> QED  BY <4>2
        <3> QED  BY <2>1, <3>2, <3>3, <3>4, <3>5
    <2>2. g[0] = s[0]
        BY <1>2, <1>5, <1>7 DEF SumBy
    <2>3. StepAlike(g, s, n)
        BY <2>1, <2>2 DEF StepAlike
    <2> QED  BY <2>3, StepsAgree
<1>9. Digits[word[first + n]] \in Nat
    BY DigitsAre DEF AllDigits
<1>10. k[m] = Digits[word[first + n]]
    <2>1. Power(b, 0) = 1 /\ m - m = 0
        BY <1>3, PowerStep
    <2>2. k[m] = Digits[word[first + n]] * 1
        BY <1>4, <1>5, <2>1 DEF Worth, SumBy
    <2> QED  BY <1>9, <2>2
<1>11. g[m] = f[n] * b + Digits[word[first + n]]
    <2>1. g[n] = f[n] * b
        BY <1>7, <1>8
    <2>2. g[m] = g[n] + k[m]
        BY <1>4, <1>5 DEF SumBy
    <2> QED  BY <1>10, <2>1, <2>2
<1>12. f[n] \in Int
    BY <1>2 DEF SumBy
<1> QED  BY <1>2, <1>4, <1>5, <1>9, <1>11, <1>12 DEF SumBy

\* No digits are 0.
LEMMA SumNone ==
    ASSUME NEW word, NEW b \in Nat, NEW first \in Nat
    PROVE  Sum(word, b, first, first - 1) = 0
<1>1. first + 0 - 1 = first - 1 /\ 0 \in Nat
    OBVIOUS
<1>2. AllDigits(word, first, first + 0 - 1)
    BY DEF AllDigits
<1>3. PICK f, h : SumBy(f, h, word, b, first, 0)
    BY <1>1, <1>2, SumIs
<1> QED  BY <1>1, <1>3 DEF SumBy

LEMMA SumNext ==
    ASSUME NEW word, NEW b \in Nat, NEW first \in Nat, NEW next \in Nat, first <= next,
           AllDigits(word, first, next - 1), word[next] \in DOMAIN Digits
    PROVE  /\ AllDigits(word, first, next)
           /\ Sum(word, b, first, next - 1) \in Int
           /\ Digits[word[next]] \in Nat
           /\ Sum(word, b, first, next) = Sum(word, b, first, next - 1) * b + Digits[word[next]]
<1>1. AllDigits(word, first, next)
    BY DEF AllDigits
<1>2. PICK n \in Nat : next = first + n
    <2>1. next - first \in Nat /\ next = first + (next - first)
        OBVIOUS
    <2> QED  BY <2>1
<1>3. AllDigits(word, first, first + n)
    BY <1>1, <1>2
<1>4. /\ Sum(word, b, first, first + n - 1) \in Int
      /\ Digits[word[first + n]] \in Nat
      /\ Sum(word, b, first, first + n) =
           Sum(word, b, first, first + n - 1) * b + Digits[word[first + n]]
    BY <1>3, SumStep
<1> QED  BY <1>1, <1>2, <1>4

-----------------------------------------------------------------------------
(* What holds while a literal is read. *)

Default == IF HasDot(text) THEN "f32" ELSE "i32"

\* The type was taken from the end of the text, or nothing was.
TypeFound ==
    \/ /\ text = SubSeq(text, 1, to) \o TypeText(type)
       /\ SubSeq(text, to + 1, Len(text)) = TypeText(type)
       /\ Len(text) = to + Len(TypeText(type))
    \/ to = Len(text) /\ type = Default

\* The digits before place are in the value, wrapped if it is an integer.
IntegerSoFar ==
    /\ AllDigits(text, from, place - 1)
    /\ value = Wrapped(type, Sum(text, base, from, place - 1))

WholeSoFar ==
    /\ AllDigits(text, from, place - 1)
    /\ value = Sum(text, base, from, place - 1)
    /\ part = 0

PartSoFar(dot) ==
    /\ text[dot] = "."
    /\ AllDigits(text, from, dot - 1)
    /\ AllDigits(text, dot + 1, place - 1)
    /\ value = Sum(text, base, from, dot - 1)
    /\ part = Sum(text, base, dot + 1, place - 1)
    /\ partSize = place - 1 - dot

ValueSoFar ==
    /\ type \in Integer => IntegerSoFar
    /\ type \in Float /\ partSize = -1 => WholeSoFar
    /\ type \in Float /\ partSize # -1 => \E dot \in from .. place - 1 : PartSoFar(dot)

IInv ==
    /\ TypeOK
    /\ text \in Literals
    /\ from <= to + 1 /\ to <= Len(text)
    /\ pc \in {"base", "type"} => /\ to = Len(text) /\ type = Default
                                  /\ value = 0 /\ part = 0 /\ partSize = -1
    /\ pc \in {"digits", "done"} => /\ TypeFound /\ ValueSoFar
                                    /\ from <= place /\ place <= to + 1
    /\ pc = "done" => place = to + 1

LEMMA LiteralIs ==
    ASSUME NEW word \in Literals
    PROVE  \E S : word \in Seq(S)
<1> PICK S : S = DigitChar \cup TypeChar \cup {".", "i", "u"}
    OBVIOUS
<1>1. ASSUME NEW n \in Nat, NEW w \in Words(n) PROVE w \in Seq(S)
    <2>1. PICK k \in 0 .. n : w \in [1 .. k -> DigitChar]
        BY DEF Words
    <2>2. w \in [1 .. k -> S] /\ k \in Nat
        BY <2>1
    <2> QED  BY <2>2
<1> DEFINE tails == {<<>>} \cup {<<".">> \o w : w \in Words(MaxPart)}
<1> DEFINE types == {<<>>} \cup {<<l, c, d>> : l \in {"i", "u"}, c, d \in TypeChar}
<1>2. PICK h \in Words(MaxDigits), w \in tails, t \in types : word = h \o w \o t
    <2> DEFINE heads == {w \in Words(MaxDigits) : w # <<>> /\ w[1] \in DOMAIN Digits
                                                        /\ Digits[w[1]] < 10}
    <2>1. Literals = {h \o w \o t : h \in heads, w \in tails, t \in types}
        BY DEF Literals
    <2>2. heads \subseteq Words(MaxDigits)
        OBVIOUS
    <2> HIDE DEF heads, tails, types
    <2> QED  BY <2>1, <2>2
<1>3. h \in Seq(S)
    BY <1>1, <1>2, NumberAssumption
<1>4. w \in Seq(S)
    <2>1. CASE w = <<>>
        BY <2>1
    <2>2. CASE w # <<>>
        <3>1. PICK v \in Words(MaxPart) : w = <<".">> \o v
            BY <1>2, <2>2
        <3>2. v \in Seq(S) /\ <<".">> \in Seq(S)
            BY <1>1, NumberAssumption
        <3> QED  BY <3>1, <3>2
    <2> QED  BY <2>1, <2>2
<1>5. t \in Seq(S)
    <2>1. CASE t = <<>>
        BY <2>1
    <2>2. CASE t # <<>>
        <3>1. PICK l \in {"i", "u"}, c \in TypeChar, d \in TypeChar : t = <<l, c, d>>
            BY <1>2, <2>2
        <3> QED  BY <3>1
    <2> QED  BY <2>1, <2>2
<1>6. word \in Seq(S)
    BY <1>2, <1>3, <1>4, <1>5
<1> QED  BY <1>6

LEMMA TypesDiffer ==
    /\ "i32" \in Integer /\ "f32" \in Float
    /\ \A t \in Float : t \notin Integer
BY DEF Integer, Float

LEMMA InitInv ==
    ASSUME Init
    PROVE  IInv
<1>1. PICK S : text \in Seq(S)
    BY LiteralIs DEF Init
<1>2. Len(text) \in Nat
    BY <1>1
<1>3. type \in Integer \cup Float /\ type = Default
    BY TypesDiffer DEF Init, Default
<1>4. type \in Integer => value \in Values(type)
    BY WrappedZero DEF Init
<1>5. TypeOK
    BY <1>2, <1>3, <1>4 DEF Init, TypeOK
<1> QED  BY <1>2, <1>3, <1>5 DEF Init, IInv

LEMMA TypeTextIs ==
    ASSUME NEW t \in Integer \cup Float
    PROVE  Len(TypeText(t)) \in {2, 3}
<1> PICK word : word = TypeText(t)
    OBVIOUS
<1>1. word \in {<<"i", "8">>, <<"u", "8">>, <<"i", "1", "6">>, <<"u", "1", "6">>,
                <<"i", "3", "2">>, <<"u", "3", "2">>, <<"f", "3", "2">>,
                <<"i", "6", "4">>, <<"u", "6", "4">>, <<"f", "6", "4">>}
    BY DEF TypeText, Integer, Float
<1>2. Len(word) \in {2, 3}
    BY <1>1
<1> QED  BY <1>2

LEMMA TextIs ==
    ASSUME IInv
    PROVE  /\ Len(text) \in Nat
           /\ from \in Nat /\ to \in Nat /\ place \in Nat /\ base \in Nat
           /\ type \in Integer \cup Float
           /\ value \in Int /\ part \in Nat /\ partSize \in Int
<1>1. PICK S : text \in Seq(S)
    BY LiteralIs DEF IInv
<1>2. Len(text) \in Nat
    BY <1>1
<1> QED  BY <1>2 DEF IInv, TypeOK

\* With the digits all to come, the value so far is 0.
LEMMA NothingRead ==
    ASSUME IInv, from' = from, base' = base, type' \in Integer \cup Float,
           value' = 0, part' = 0, partSize' = -1, place' = from
    PROVE  ValueSoFar'
<1>1. from \in Nat /\ base \in Nat
    BY TextIs
<1>2. AllDigits(text', from, from - 1)
    BY <1>1 DEF AllDigits
<1> PICK word, kind : word = text' /\ kind = type'
    OBVIOUS
<1>3. Sum(word, base, from, from - 1) = 0
    BY <1>1, SumNone
<1>4. kind \in Integer => Wrapped(kind, 0) = 0
    BY WrappedZero
<1>5. kind \in Integer => IntegerSoFar'
    <2>1. AllDigits(text', from', place' - 1)
        BY <1>2
    <2>2. Sum(text', base', from', place' - 1) = 0
        BY <1>3
    <2> QED  BY <1>4, <2>1, <2>2, Zenon DEF IntegerSoFar
<1>6. WholeSoFar'
    BY <1>2, <1>3 DEF WholeSoFar
<1> QED  BY <1>5, <1>6 DEF ValueSoFar

LEMMA PrefixKeeps ==
    ASSUME IInv, TakePrefix \/ NoPrefix
    PROVE  IInv'
<1>1. CASE TakePrefix
    <2>1. pc = "base" /\ Len(text) > 1 /\ text[2] \in {"o", "d", "x"}
        BY <1>1 DEF TakePrefix, HasPrefix
    <2>2. base' \in {8, 10, 16}
        BY <1>1, <2>1 DEF TakePrefix
    <2>3. from' = 3 /\ pc' = "type"
        BY <1>1 DEF TakePrefix
    <2>4. UNCHANGED <<text, type, to, place, value, part, partSize>>
        BY <1>1 DEF TakePrefix
    <2>5. TypeOK'
        BY <2>2, <2>3, <2>4 DEF IInv, TypeOK, Values
    <2>6. to = Len(text) /\ 3 <= to + 1
        BY <2>1, TextIs DEF IInv
    <2> QED  BY <2>1, <2>3, <2>4, <2>5, <2>6 DEF IInv, Default, HasDot
<1>2. CASE NoPrefix
    <2>1. pc = "base" /\ pc' = "type"
        BY <1>2 DEF NoPrefix
    <2>2. UNCHANGED <<text, base, type, from, to, place, value, part, partSize>>
        BY <1>2 DEF NoPrefix
    <2>3. TypeOK'
        BY <2>1, <2>2 DEF IInv, TypeOK, Values
    <2> QED  BY <2>1, <2>2, <2>3 DEF IInv, Default, HasDot
<1> QED  BY <1>1, <1>2

\* What is cut off at the end is behind the prefix.
LEMMA TakeTypeKeeps ==
    ASSUME IInv, TakeType
    PROVE  IInv'
<1>1. pc = "type" /\ to - from + 1 > 2
    BY DEF TakeType, LooksTyped, Len2
<1>2. PICK t \in Integer \cup Float : EndsIn(t) /\ type' = t /\ to' = to - Len(TypeText(t))
    BY DEF TakeType
<1>3. pc' = "digits" /\ place' = from /\ UNCHANGED <<text, base, from, value, part, partSize>>
    BY DEF TakeType, BeginDigits
<1>4. /\ to = Len(text) /\ value = 0 /\ part = 0 /\ partSize = -1
      /\ Len(text) \in Nat /\ from \in Nat /\ to \in Nat /\ base \in Nat
      /\ from \in {1, 3}
    BY <1>1, TextIs DEF IInv, TypeOK
<1> PICK word : word = TypeText(t)
    OBVIOUS
<1>5. Len(word) \in {2, 3}
    BY TypeTextIs
<1>6. to' \in Nat /\ from <= to' + 1 /\ to' <= Len(text)
    <2> PICK size, k : size = Len(word) /\ k = to'
        OBVIOUS
    <2>1. size \in {2, 3} /\ k = to - size /\ to - from >= 2 /\ from >= 1
        BY <1>1, <1>2, <1>4, <1>5
    <2>2. k \in Nat /\ from <= k + 1 /\ k <= to
        <3>1. to \in Nat /\ from \in Nat
            BY <1>4
        <3>2. CASE size = 2
            BY <2>1, <3>1, <3>2
        <3>3. CASE size = 3
            BY <2>1, <3>1, <3>3
        <3> QED  BY <2>1, <3>2, <3>3
    <2> QED  BY <1>4, <2>2
<1>7. text = SubSeq(text, 1, to') \o word
    <2>1. PICK S : text \in Seq(S)
        BY LiteralIs DEF IInv
    <2>2. SubSeq(text, to' + 1, to) = word
        BY <1>2, <1>4, <1>5 DEF EndsIn
    <2> PICK k \in Nat : k = to'
        BY <1>6
    <2>3. text = SubSeq(text, 1, k) \o SubSeq(text, k + 1, Len(text))
        <3>1. SubSeq(text, 1, k) \o SubSeq(text, k + 1, Len(text)) = SubSeq(text, 1, Len(text))
            <4>1. /\ 1 \in 1 .. Len(text) + 1
                  /\ k \in 1 - 1 .. Len(text) /\ Len(text) \in k .. Len(text)
                BY <1>4, <1>6
            <4> QED  BY <2>1, <4>1, ConcatAdjacentSubSeq
        <3>2. SubSeq(text, 1, Len(text)) = text
            BY <2>1, SubSeqFull
        <3> QED  BY <3>1, <3>2
    <2> QED  BY <1>4, <2>2, <2>3
<1>8. TypeFound'
    <2>1. SubSeq(text, to' + 1, to) = word
        BY <1>2, <1>4, <1>5 DEF EndsIn
    <2>2. Len(text) = to' + Len(word)
        BY <1>2, <1>4, <1>5
    <2> QED  BY <1>2, <1>3, <1>4, <1>7, <2>1, <2>2 DEF TypeFound
<1>9. ValueSoFar'
    <2>1. type' \in Integer \cup Float
        BY <1>2
    <2> QED  BY <1>3, <1>4, <2>1, NothingRead
<1>10. TypeOK'
    BY <1>2, <1>3, <1>4, <1>6, WrappedZero DEF IInv, TypeOK
<1>11. text' \in Literals /\ pc' = "digits"
    BY <1>3 DEF IInv
<1>12. from' <= to' + 1 /\ to' <= Len(text')
    BY <1>3, <1>6
<1>13. from' <= place' /\ place' <= to' + 1
    <2>1. from <= from
        <3>1. from \in Nat
            BY <1>4
        <3> QED  BY <3>1
    <2> QED  BY <1>3, <1>6, <2>1, Zenon
<1> QED  BY <1>8, <1>9, <1>10, <1>11, <1>12, <1>13 DEF IInv

LEMMA NoTypeKeeps ==
    ASSUME IInv, NoType
    PROVE  IInv'
<1>1. /\ pc = "type" /\ pc' = "digits" /\ place' = from
      /\ UNCHANGED <<text, base, type, from, to, value, part, partSize>>
    BY DEF NoType, BeginDigits
<1>2. to = Len(text) /\ type = Default /\ value = 0 /\ part = 0 /\ partSize = -1
    BY <1>1 DEF IInv
<1>3. TypeFound'
    BY <1>1, <1>2 DEF TypeFound, Default, HasDot
<1>4. TypeOK'
    BY <1>1, TextIs DEF IInv, TypeOK, Values
<1>5. ValueSoFar'
    <2>1. type' \in Integer \cup Float
        BY <1>1, TextIs
    <2> QED  BY <1>1, <1>2, <2>1, NothingRead
<1>6. from <= to + 1 /\ from \in Nat /\ to <= Len(text)
    BY TextIs DEF IInv
<1> QED  BY <1>1, <1>3, <1>4, <1>5, <1>6 DEF IInv

LEMMA StopKeeps ==
    ASSUME IInv, PrefixFails \/ TypeFails \/ DigitFails
    PROVE  IInv'
<1>1. pc' = "fatal" /\ UNCHANGED <<text, base, type, from, to, place, value, part, partSize>>
    BY DEF PrefixFails, TypeFails, DigitFails, Fatal
<1>2. TypeOK'
    BY <1>1 DEF IInv, TypeOK, Values
<1> QED  BY <1>1, <1>2 DEF IInv

LEMMA FinishKeeps ==
    ASSUME IInv, Finish
    PROVE  IInv'
<1>1. /\ pc = "digits" /\ pc' = "done" /\ place > to
      /\ UNCHANGED <<text, base, type, from, to, place, value, part, partSize>>
    BY DEF Finish
<1>2. TypeOK' /\ TypeFound' /\ ValueSoFar'
    <2>1. TypeOK'
        BY <1>1 DEF IInv, TypeOK, Values
    <2>2. TypeFound'
        BY <1>1 DEF IInv, TypeFound, Default, HasDot
    <2>3. ValueSoFar'
        BY <1>1 DEF IInv, ValueSoFar, IntegerSoFar, WholeSoFar, PartSoFar
    <2> QED  BY <2>1, <2>2, <2>3
<1>3. place = to + 1
    BY <1>1, TextIs DEF IInv
<1> QED  BY <1>1, <1>2, <1>3 DEF IInv

\* What the three actions that read a character have in common.
ReadsOne ==
    /\ pc = "digits" /\ pc' = "digits"
    /\ place <= to /\ place' = place + 1
    /\ UNCHANGED <<text, base, type, from, to>>

LEMMA ReadKeeps ==
    ASSUME IInv, ReadsOne, ValueSoFar',
           value' \in Int, part' \in Nat, partSize' \in Nat \cup {-1},
           type \in Integer => value' \in Values(type)
    PROVE  IInv'
<1>1. TypeFound'
    BY DEF IInv, ReadsOne, TypeFound, Default, HasDot
<1>2. TypeOK'
    BY TextIs DEF IInv, ReadsOne, TypeOK, Values
<1>3. from <= place /\ place \in Nat /\ to \in Nat /\ from \in Nat
    BY TextIs DEF IInv, ReadsOne
<1>4. from <= place + 1 /\ place + 1 <= to + 1
    BY <1>3 DEF ReadsOne
<1> QED  BY <1>1, <1>2, <1>4 DEF IInv, ReadsOne

LEMMA IntegerDigitKeeps ==
    ASSUME IInv, IntegerDigit
    PROVE  IInv'
<1>1. ReadsOne /\ type \in Integer /\ IsDigitOf(text[place]) /\ UNCHANGED <<part, partSize>>
    BY DEF IntegerDigit, InDigits, ReadsOne
<1>2. value' = Wrapped(type, value * base + Digits[text[place]])
    BY DEF IntegerDigit
<1>3. /\ from \in Nat /\ place \in Nat /\ base \in Nat /\ from <= place
      /\ value \in Int /\ part \in Nat /\ partSize \in Nat \cup {-1}
    BY <1>1, TextIs DEF IInv, ReadsOne, TypeOK
<1>4. IntegerSoFar
    BY <1>1 DEF IInv, ReadsOne, ValueSoFar
<1> PICK sum, d : sum = Sum(text, base, from, place - 1) /\ d = Digits[text[place]]
    OBVIOUS
<1>5. /\ AllDigits(text, from, place)
      /\ sum \in Int /\ d \in Nat
      /\ Sum(text, base, from, place) = sum * base + d
    <2>1. AllDigits(text, from, place - 1) /\ text[place] \in DOMAIN Digits
        BY <1>1, <1>4 DEF IntegerSoFar, IsDigitOf
    <2> QED  BY <1>3, <2>1, SumNext
<1>6. value' = Wrapped(type, sum * base + d)
    <2>1. value = Wrapped(type, sum)
        BY <1>4 DEF IntegerSoFar
    <2>2. base \in Int /\ d \in Int
        BY <1>3, <1>5
    <2>3. Wrapped(type, Wrapped(type, sum) * base + d) = Wrapped(type, sum * base + d)
        BY <1>1, <1>5, <2>2, WrappedStep
    <2> QED  BY <1>2, <2>1, <2>3
<1>7. IntegerSoFar'
    <2>1. place' - 1 = place
        BY <1>1, <1>3 DEF ReadsOne
    <2> QED  BY <1>1, <1>5, <1>6, <2>1 DEF IntegerSoFar, ReadsOne
<1>8. value' \in Values(type) /\ value' \in Int
    <2>1. sum * base + d \in Int
        BY <1>3, <1>5
    <2> QED  BY <1>1, <1>6, <2>1, WrappedIs
<1>9. ValueSoFar'
    <2>1. type' \in Integer /\ type' \notin Float
        BY <1>1, TypesDiffer DEF ReadsOne
    <2> QED  BY <1>7, <2>1 DEF ValueSoFar
<1>10. part' \in Nat /\ partSize' \in Nat \cup {-1}
    BY <1>1, <1>3
<1> QED  BY <1>1, <1>8, <1>9, <1>10, ReadKeeps

LEMMA DotKeeps ==
    ASSUME IInv, Dot
    PROVE  IInv'
<1>1. /\ ReadsOne /\ type \in Float /\ text[place] = "."
      /\ partSize = -1 /\ partSize' = 0 /\ value' = value /\ part' = part
    BY DEF Dot, InDigits, ReadsOne
<1>2. /\ from \in Nat /\ place \in Nat /\ base \in Nat /\ from <= place
      /\ value \in Int /\ part \in Nat
    BY <1>1, TextIs DEF IInv, ReadsOne
<1>3. WholeSoFar /\ part = 0
    BY <1>1 DEF IInv, ReadsOne, ValueSoFar, WholeSoFar
<1>4. PICK dot \in Nat : dot = place
    BY <1>2
<1>5. PartSoFar(dot)'
    <2>1. place' - 1 = dot /\ AllDigits(text, dot + 1, dot) /\ dot - dot = 0
        BY <1>1, <1>4 DEF ReadsOne, AllDigits
    <2>2. Sum(text, base, dot + 1, dot) = 0
        <3> PICK next \in Nat : next = dot + 1
            OBVIOUS
        <3>1. Sum(text, base, next, next - 1) = 0
            BY <1>2, SumNone
        <3> QED  BY <3>1
    <2>3. /\ text' = text /\ base' = base /\ from' = from
          /\ text[dot] = "." /\ AllDigits(text, from, dot - 1)
          /\ value' = Sum(text, base, from, dot - 1)
          /\ part' = 0 /\ partSize' = 0
        BY <1>1, <1>3, <1>4 DEF WholeSoFar, ReadsOne
    <2> QED  BY <2>1, <2>2, <2>3 DEF PartSoFar
<1>6. dot \in from' .. place' - 1
    BY <1>1, <1>2, <1>4 DEF ReadsOne
<1>7. ValueSoFar'
    <2>1. type' \in Float /\ type' \notin Integer /\ partSize' # -1
        BY <1>1, TypesDiffer DEF ReadsOne
    <2> QED  BY <1>5, <1>6, <2>1 DEF ValueSoFar
<1>8. type \notin Integer
    BY <1>1, TypesDiffer
<1>9. value' \in Int /\ part' \in Nat /\ partSize' \in Nat \cup {-1}
    BY <1>1, <1>2
<1> QED  BY <1>1, <1>7, <1>8, <1>9, ReadKeeps

LEMMA FloatDigitKeeps ==
    ASSUME IInv, FloatDigit
    PROVE  IInv'
<1>1. ReadsOne /\ type \in Float /\ type \notin Integer /\ text[place] \in DOMAIN Digits
    BY TypesDiffer DEF FloatDigit, InDigits, ReadsOne, IsDigitOf
<1>2. /\ from \in Nat /\ place \in Nat /\ base \in Nat /\ from <= place
      /\ value \in Int /\ part \in Nat /\ partSize \in Nat \cup {-1}
    BY <1>1, TextIs DEF IInv, ReadsOne, TypeOK
<1> PICK d : d = Digits[text[place]]
    OBVIOUS
<1>3. d \in Nat
    BY <1>1, DigitsAre
<1>4. place' - 1 = place /\ UNCHANGED <<text, base, type, from>>
    BY <1>1, <1>2 DEF ReadsOne
<1>5. CASE partSize = -1
    <2>1. value' = value * base + d /\ part' = part /\ partSize' = partSize
        BY <1>5 DEF FloatDigit
    <2>2. WholeSoFar
        BY <1>1, <1>5 DEF IInv, ReadsOne, ValueSoFar
    <2>3. /\ AllDigits(text, from, place)
          /\ Sum(text, base, from, place) = Sum(text, base, from, place - 1) * base + d
        BY <1>1, <1>2, <2>2, SumNext DEF WholeSoFar
    <2>4. WholeSoFar'
        BY <1>4, <2>1, <2>2, <2>3 DEF WholeSoFar
    <2>5. ValueSoFar'
        BY <1>1, <1>4, <1>5, <2>1, <2>4 DEF ValueSoFar
    <2>6. value' \in Int /\ part' \in Nat /\ partSize' \in Nat \cup {-1}
        BY <1>2, <1>3, <2>1
    <2> QED  BY <1>1, <2>5, <2>6, ReadKeeps
<1>6. CASE partSize # -1
    <2>1. value' = value /\ part' = part * base + d /\ partSize' = partSize + 1
        BY <1>6 DEF FloatDigit
    <2>2. PICK dot \in from .. place - 1 : PartSoFar(dot)
        BY <1>1, <1>6 DEF IInv, ReadsOne, ValueSoFar
    <2>3. PICK next \in Nat : next = dot + 1
        BY <1>2
    <2>4. next <= place /\ dot \in from .. place /\ dot \in Nat
        BY <1>2, <2>3
    <2>5. /\ AllDigits(text, next, place)
          /\ Sum(text, base, next, place) = Sum(text, base, next, place - 1) * base + d
        BY <1>1, <1>2, <2>2, <2>3, <2>4, SumNext DEF PartSoFar
    <2>6. PartSoFar(dot)'
        <3>1. partSize + 1 = place - dot /\ place - dot = place' - 1 - dot
            BY <1>2, <1>4, <2>2, <2>4 DEF PartSoFar
        <3> QED  BY <1>4, <2>1, <2>2, <2>3, <2>5, <3>1 DEF PartSoFar
    <2>7. partSize' \in Nat
        BY <1>2, <1>6, <2>1
    <2>8. ValueSoFar'
        <3>1. dot \in from' .. place' - 1 /\ partSize' # -1
            BY <1>4, <2>4, <2>7
        <3> QED  BY <1>1, <1>4, <2>6, <3>1 DEF ValueSoFar
    <2>9. value' \in Int /\ part' \in Nat
        BY <1>2, <1>3, <2>1
    <2> QED  BY <1>1, <2>7, <2>8, <2>9, ReadKeeps
<1> QED  BY <1>5, <1>6

LEMMA NextKeeps ==
    ASSUME IInv, [Next]_vars
    PROVE  IInv'
<1>1. CASE UNCHANGED vars
    <2>1. TypeOK'
        BY <1>1 DEF IInv, TypeOK, Values, vars
    <2>2. TypeFound' <=> TypeFound
        BY <1>1 DEF TypeFound, Default, HasDot, vars
    <2>3. ValueSoFar' <=> ValueSoFar
        BY <1>1 DEF ValueSoFar, IntegerSoFar, WholeSoFar, PartSoFar, vars
    <2>4. Default' = Default
        BY <1>1 DEF Default, HasDot, vars
    <2> QED  BY <1>1, <2>1, <2>2, <2>3, <2>4 DEF IInv, vars
<1> QED  BY <1>1, PrefixKeeps, TakeTypeKeeps, NoTypeKeeps, StopKeeps, IntegerDigitKeeps,
            DotKeeps, FloatDigitKeeps, FinishKeeps DEF Next

\* The dot is the one character that is no digit.
LEMMA ValueInv ==
    ASSUME IInv
    PROVE  ValueIsRight
<1> SUFFICES ASSUME pc = "done"
             PROVE  /\ type \in Integer => value = Wrapped(type, Sum(text, base, from, to))
                    /\ type \in Float /\ partSize = -1 => value = Sum(text, base, from, to)
                    /\ type \in Float /\ partSize # -1 =>
                        LET dot == CHOOSE i \in from .. to : text[i] = "."
                        IN  /\ value = Sum(text, base, from, dot - 1)
                            /\ part = Sum(text, base, dot + 1, to)
                            /\ partSize = to - dot
    BY DEF ValueIsRight
<1>1. ValueSoFar /\ place - 1 = to /\ from \in Nat /\ to \in Nat
    BY TextIs DEF IInv
<1>2. ASSUME type \in Float, partSize # -1
      PROVE  LET dot == CHOOSE i \in from .. to : text[i] = "."
             IN  /\ value = Sum(text, base, from, dot - 1)
                 /\ part = Sum(text, base, dot + 1, to)
                 /\ partSize = to - dot
    <2>1. PICK dot \in from .. to : PartSoFar(dot)
        BY <1>1, <1>2 DEF ValueSoFar
    <2>2. ASSUME NEW i \in from .. to, text[i] = "." PROVE i = dot
        <3>1. text[i] \notin DOMAIN Digits
            BY <2>2, DigitsAre
        <3>2. i \notin from .. dot - 1 /\ i \notin dot + 1 .. to
            BY <1>1, <2>1, <3>1 DEF PartSoFar, AllDigits
        <3> QED  BY <1>1, <2>1, <3>2
    <2>3. (CHOOSE i \in from .. to : text[i] = ".") = dot
        BY <2>1, <2>2 DEF PartSoFar
    <2> QED  BY <1>1, <2>1, <2>3 DEF PartSoFar
<1> QED  BY <1>1, <1>2 DEF ValueSoFar, IntegerSoFar, WholeSoFar

-----------------------------------------------------------------------------
\* The value fits its type after every digit that parseNumber reads, for any
\* widths of the types, and the state keeps its types.
THEOREM TypeCorrect == Spec => []TypeOK
<1>1. Init => IInv
    BY InitInv
<1>2. IInv /\ [Next]_vars => IInv'
    BY NextKeeps
<1>3. IInv => TypeOK
    BY DEF IInv
<1> QED  BY <1>1, <1>2, <1>3, PTL DEF Spec

\* A literal that parseNumber accepts, of whatever length, has the value that
\* its digits denote in its base, modulo the width of its type, whatever the
\* widths are; of a float, every digit behind the dot counts.
THEOREM LiteralsMeanTheirDigits == Spec => []ValueIsRight
<1>1. Init => IInv
    BY InitInv
<1>2. IInv /\ [Next]_vars => IInv'
    BY NextKeeps
<1>3. IInv => ValueIsRight
    BY ValueInv
<1> QED  BY <1>1, <1>2, <1>3, PTL DEF Spec

-----------------------------------------------------------------------------
(* The characters of a type and those of the digits. *)

\* What was read are digits of the base and the dot.
InBase ==
    pc \in {"digits", "done"} =>
        \A i \in from .. place - 1 : IsDigitOf(text[i]) \/ text[i] = "."

LEMMA InBaseKept ==
    ASSUME IInv, InBase, [Next]_vars
    PROVE  InBase'
<1>1. /\ from \in Nat /\ place \in Nat
      /\ pc = "digits" => from <= place
    BY TextIs DEF IInv
<1>2. CASE IntegerDigit \/ Dot \/ FloatDigit
    <2>1. ReadsOne /\ (IsDigitOf(text[place]) \/ text[place] = ".")
        BY <1>2 DEF IntegerDigit, Dot, FloatDigit, InDigits, ReadsOne
    <2>2. ASSUME NEW i \in from .. place' - 1 PROVE IsDigitOf(text[i]) \/ text[i] = "."
        <3>1. i \in from .. place - 1 \/ i = place
            BY <1>1, <2>1 DEF ReadsOne
        <3> QED
            BY <2>1, <3>1 DEF InBase, ReadsOne
    <2> QED
        BY <2>1, <2>2 DEF InBase, ReadsOne, IsDigitOf
<1>3. CASE TakeType \/ NoType
    <2>1. place' = from /\ from' = from
        BY <1>3 DEF TakeType, NoType, BeginDigits
    <2>2. from' .. place' - 1 = {}
        BY <1>1, <2>1
    <2> QED
        BY <2>2 DEF InBase
<1>4. CASE TakePrefix \/ NoPrefix \/ PrefixFails \/ TypeFails \/ DigitFails
    BY <1>4 DEF TakePrefix, NoPrefix, PrefixFails, TypeFails, DigitFails, Fatal, InBase
<1>5. CASE Finish \/ UNCHANGED vars
    BY <1>5 DEF Finish, vars, InBase, IsDigitOf
<1> QED
    BY <1>2, <1>3, <1>4, <1>5 DEF Next

\* A type starts with a letter that is a digit of base 16 at most.
LEMMA TypeStarts ==
    ASSUME NEW t \in Integer \cup Float
    PROVE  /\ TypeText(t)[1] \in {"i", "u", "f"}
           /\ TypeText(t)[1] = "f" => t \in Float /\ Len(TypeText(t)) = 3
    BY DEF TypeText, Integer, Float

LEMMA DigitLetters ==
    /\ "i" \notin DOMAIN Digits /\ "u" \notin DOMAIN Digits
    /\ Digits["f"] = 15 /\ "f" # "." /\ "i" # "." /\ "u" # "."
    BY DEF Digits

LEMMA TypeInv ==
    ASSUME IInv, InBase
    PROVE  TypeIsRight
<1> SUFFICES ASSUME pc = "done", ~EndsInHexFloat
             PROVE  IF TypePlaces = {}
                    THEN to = Len(text) /\ type = Default
                    ELSE /\ text = SubSeq(text, 1, to) \o TypeText(type)
                         /\ \A i \in TypePlaces : i > to
    BY DEF TypeIsRight, Default
<1>1. /\ from \in Nat /\ to \in Nat /\ Len(text) \in Nat /\ type \in Integer \cup Float
      /\ place - 1 = to /\ base \in {8, 10, 16} /\ from <= to + 1 /\ TypeFound
    BY TextIs DEF IInv, TypeOK
<1>2. ASSUME NEW i \in TypePlaces PROVE i > to
    <2>1. i \in Nat /\ i >= from /\ (text[i] \in {"i", "u"} \/ (text[i] = "f" /\ base # 16))
        BY <1>1 DEF TypePlaces
    <2>2. ~(IsDigitOf(text[i]) \/ text[i] = ".")
        <3>1. CASE text[i] \in {"i", "u"}
            BY <3>1, DigitLetters DEF IsDigitOf
        <3>2. CASE text[i] = "f" /\ base # 16
            <4>1. base <= 15
                BY <1>1, <3>2
            <4> QED
                BY <1>1, <3>2, <4>1, DigitLetters DEF IsDigitOf
        <3> QED
            BY <2>1, <3>1, <3>2
    <2> QED
        BY <1>1, <2>1, <2>2 DEF InBase
<1>3. CASE to = Len(text) /\ type = Default
    <2>1. TypePlaces = {}
        <3>1. ASSUME NEW i \in TypePlaces PROVE FALSE
            <4>1. i \in from .. Len(text)
                BY DEF TypePlaces
            <4> QED
                BY <1>1, <1>2, <1>3, <4>1
        <3> QED
            BY <3>1
    <2> QED
        BY <1>3, <2>1
<1>4. CASE /\ text = SubSeq(text, 1, to) \o TypeText(type)
           /\ SubSeq(text, to + 1, Len(text)) = TypeText(type)
           /\ Len(text) = to + Len(TypeText(type))
    <2> PICK word : word = TypeText(type)
        OBVIOUS
    <2>1. Len(word) \in {2, 3} /\ to + 1 <= Len(text) /\ Len(text) = to + Len(word)
        <3>1. Len(word) \in {2, 3}
            BY <1>1, TypeTextIs
        <3>2. PICK size \in {2, 3}, length \in Nat :
                size = Len(word) /\ length = Len(text) /\ length = to + size
            BY <1>1, <1>4, <3>1
        <3>3. to + 1 <= length
            BY <1>1, <3>2
        <3> QED
            BY <3>1, <3>2, <3>3
    <2>2. word[1] = text[to + 1]
        <3>1. PICK S : text \in Seq(S)
            BY LiteralIs DEF IInv
        <3>2. PICK first \in Nat : first = to + 1
            BY <1>1
        <3>3. \A i \in first .. Len(text) : text[i] \in S
            BY <1>1, <3>1, <3>2
        <3>4. SubSeq(text, first, Len(text))[1] = text[first + 1 - 1]
            BY <1>1, <2>1, <3>2, <3>3, SubSeqProperties
        <3>5. first + 1 - 1 = first
            BY <3>2
        <3>6. SubSeq(text, first, Len(text)) = word
            BY <1>4, <3>2
        <3> QED
            BY <3>2, <3>4, <3>5, <3>6
    <2>3. text[to + 1] \in {"i", "u", "f"}
        BY <1>1, <2>2, TypeStarts
    <2>4. ~(text[to + 1] = "f" /\ base = 16)
        <3>1. ASSUME text[to + 1] = "f", base = 16 PROVE FALSE
            <4>1. type \in Float /\ Len(word) = 3
                BY <1>1, <2>2, <3>1, TypeStarts
            <4>2. Len(text) - 2 = to + 1
                BY <1>1, <2>1, <4>1
            <4> QED
                BY <1>4, <3>1, <4>1, <4>2 DEF EndsInHexFloat
        <3> QED
            BY <3>1
    <2>5. to + 1 \in TypePlaces
        <3>1. from <= to + 1 /\ to + 1 \in from .. Len(text)
            BY <1>1, <2>1
        <3> QED
            BY <2>3, <2>4, <3>1 DEF TypePlaces
    <2> QED
        BY <1>2, <1>4, <2>5
<1> QED
    BY <1>1, <1>3, <1>4 DEF TypeFound

\* For a literal of any length that is accepted, and does not end in the digits
\* "f32" or "f64" of base 16: the number ends before the first letter that is no
\* digit of its base, and the type is what is spelled from there on.
THEOREM TypesAreTaken == Spec => []TypeIsRight
<1>1. Init => IInv /\ InBase
    BY InitInv DEF Init, InBase
<1>2. IInv /\ InBase /\ [Next]_vars => IInv' /\ InBase'
    BY NextKeeps, InBaseKept
<1>3. IInv /\ InBase => TypeIsRight
    BY TypeInv
<1> QED  BY <1>1, <1>2, <1>3, PTL DEF Spec

=============================================================================
