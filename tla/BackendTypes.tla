---------------------------- MODULE BackendTypes -----------------------------
(***************************************************************************)
(* Proofs about Backend, for all programs: the state has the type that     *)
(* TypeOK says, and a program that the type checker accepts is well typed. *)
(***************************************************************************)
EXTENDS BackendProofs

-----------------------------------------------------------------------------
(* The running call, in the names of the model. *)

LEMMA SimpleFacts ==
    /\ T!Simple("var") \in Type /\ T!Simple("var").parts = <<>>
    /\ T!boolType \in Type /\ T!boolType.parts = <<>>
    /\ T!unitType \in Type /\ T!unitType.parts = <<>>
<1>1. ASSUME NEW kind \in TypeKind
      PROVE  T!Simple(kind) \in Type /\ T!Simple(kind).parts = <<>>
    BY DEF T!Simple, Type
<1>2. "var" \in TypeKind /\ "bool" \in TypeKind /\ "struct" \in TypeKind
    BY DEF TypeKind, Structs
<1> QED  BY <1>1, <1>2 DEF T!boolType, T!unitType

LEMMA TypeMade ==
    ASSUME NEW kind \in Structs \cup {"fun"}, NEW parts \in Seq([name : Text, type : Nat \ {0}])
    PROVE  /\ [kind |-> kind, parts |-> parts] \in Type
           /\ [kind |-> kind, parts |-> parts].parts = parts
<1> PICK S : S = Seq([name : Text, type : Nat \ {0}])
    OBVIOUS
<1>1. kind \in TypeKind /\ kind \notin Numeric \cup {"var", "bool"}
    BY DEF TypeKind, Structs, Numeric, Integral
<1>2. parts \in S
    OBVIOUS
<1>3. [kind |-> kind, parts |-> parts] \in [kind : TypeKind, parts : S]
    BY ONLY <1>1, <1>2
<1> QED  BY <1>1, <1>3 DEF Type

\* The names of the model for what the frame says.
LEMMA ThisFacts ==
    /\ T!Top = Head(stack) /\ T!Top.term = TopTerm /\ T!Top.at = TopAt
    /\ T!This = program.terms[TopTerm] /\ T!This.kids = Parts(TopTerm) /\ T!This.names = Names(TopTerm)
    /\ T!This.kind = Kind(TopTerm)
    /\ T!Kid = NextPart
    /\ \A i : T!KidType(i) = typed[Parts(TopTerm)[i]]
BY DEF T!Top, T!This, T!Kid, T!KidType, TopTerm, TopAt, Parts, Names, NextPart, Kind

LEMMA KidTyped ==
    ASSUME program \in Programs, Walk, TyperOK, InTerm, NEW i \in 1 .. TopAt
    PROVE  T!KidType(i) \in Nodes(heap)
<1>1. Parts(TopTerm)[i] \in Done
    BY InTermFacts
<1> QED  BY <1>1, ThisFacts DEF Done, TyperOK

LEMMA KidsTyped ==
    ASSUME program \in Programs, Walk, TyperOK, NEW kinds, T!Complete(kinds)
    PROVE  /\ InTerm /\ TopTerm \in TermAt /\ Kind(TopTerm) \in kinds
           /\ TopAt = Len(Parts(TopTerm)) /\ Len(Parts(TopTerm)) \in Nat
           /\ \A i \in 1 .. Len(Parts(TopTerm)) : T!KidType(i) \in Nodes(heap)
<1>1. InTerm /\ Kind(TopTerm) \in kinds /\ TopAt = Len(Parts(TopTerm))
    BY CompleteFacts
<1> QED  BY <1>1, InTermFacts, TermFacts, KidTyped

LEMMA NextTyped ==
    ASSUME program \in Programs, Walk, TyperOK, InTerm, PartTyped
    PROVE  T!Kid = NextPart /\ NextPart \in TermAt /\ typed[NextPart] \in Nodes(heap)
<1>1. TopAt + 1 \in DOMAIN Parts(TopTerm) /\ NextPart # NULL /\ typed[NextPart] # NULL
      /\ TopTerm \in TermAt
    BY InTermFacts, TermFacts DEF PartTyped
<1>2. NextPart \in TermAt
    BY <1>1, TermFacts DEF NextPart
<1> QED  BY <1>1, <1>2, ThisFacts DEF TyperOK

TypeSetting == program \in Programs /\ Walk /\ TyperOK

\* A type as one of those that stand for themselves, and its parts.
LEMMA PartsTyped ==
    ASSUME NEW h, Good(h), NEW n \in Nodes(h)
    PROVE  /\ h.type[n].parts \in Seq([name : Text, type : Nat \ {0}])
           /\ DOMAIN h.type[n].parts = 1 .. Len(h.type[n].parts) /\ Len(h.type[n].parts) \in Nat
           /\ \A i \in 1 .. Len(h.type[n].parts) : h.type[n].parts[i].type \in Nodes(h)
           /\ h.type[n].parts # <<>> =>
                T!LastType(h.type[n].parts) \in Nodes(h) /\ LastType(h.type[n].parts) \in Nodes(h)
<1>1. Typed(h.type)
    BY DEF Good, HeapOK
<1>2. /\ h.type[n] \in Type
      /\ DOMAIN h.type[n].parts = 1 .. Len(h.type[n].parts) /\ Len(h.type[n].parts) \in Nat
      /\ \A i \in DOMAIN h.type[n].parts : h.type[n].parts[i].type \in Nodes(h)
    BY <1>1, TypedFacts DEF Nodes
<1>3. h.type[n].parts \in Seq([name : Text, type : Nat \ {0}])
    BY <1>2 DEF Type
<1>4. h.type[n].parts # <<>> => Len(h.type[n].parts) \in 1 .. Len(h.type[n].parts)
    <2> PICK S, p : S = [name : Text, type : Nat \ {0}] /\ p = h.type[n].parts
        OBVIOUS
    <2>1. p \in Seq(S)
        BY <1>3
    <2>2. p # <<>> => Len(p) \in 1 .. Len(p)
        BY <2>1
    <2> QED  BY <2>2
<1>5. T!LastType(h.type[n].parts) = h.type[n].parts[Len(h.type[n].parts)].type
      /\ LastType(h.type[n].parts) = h.type[n].parts[Len(h.type[n].parts)].type
    BY DEF T!LastType, LastType
<1> QED  BY <1>2, <1>3, <1>4, <1>5

\* What the frame on the top of the stack says.
LEMMA TopFits ==
    ASSUME TypeSetting, InTerm
    PROVE  /\ FrameFits(Head(stack), heap, typed) /\ Head(stack) \in Calls(heap)
           /\ TopTerm \in TermAt /\ TopAt \in 0 .. Len(Parts(TopTerm)) /\ Len(Parts(TopTerm)) \in Nat
<1>1. stack # <<>> /\ StackFits
    BY DEF TypeSetting, TyperOK, InTerm
<1>2. Head(stack) \in Calls(heap) /\ FrameFits(Head(stack), heap, typed)
    BY <1>1, StackFacts DEF StackFits, TypeSetting
<1> QED  BY <1>2, InTermFacts, TermFacts DEF TypeSetting

\* The callee, once its parameters have been counted.
LEMMA CalleeFits ==
    ASSUME TypeSetting, InTerm, Kind(TopTerm) = "application", TopAt > 0
    PROVE  /\ T!Callee = heap.type[T!KidType(1)] /\ T!KidType(1) \in Nodes(heap)
           /\ Len(T!Callee.parts) = Len(Parts(TopTerm))
<1>1. T!KidType(1) \in Nodes(heap)
    BY TopFits, KidTyped DEF TypeSetting
<1>2. T!KidType(1) = typed[Parts(TopTerm)[1]]
    BY ThisFacts
<1>3. T!Callee = heap.type[T!KidType(1)]
    BY DEF T!Callee
<1> QED  BY <1>1, <1>2, <1>3, TopFits DEF FrameFits, TopTerm, TopAt, InTerm

-----------------------------------------------------------------------------
(* The formals of a function. *)

MemberType == [name : Text, type : Nat \ {0}]

PartsIn(h, parts) ==
    /\ parts \in Seq(MemberType)
    /\ \A i \in 1 .. Len(parts) : parts[i].type \in Nodes(h)

\* As far as the types of the formals are made.
Entering(s) ==
    /\ s = [heap |-> s.heap, constraint |-> s.constraint, parts |-> s.parts, ok |-> s.ok]
    /\ StepsTo(heap, s.heap)
    /\ Types(s.heap, s.constraint) /\ Keeps(constraint, s.constraint)
    /\ PartsIn(s.heap, s.parts)
    /\ s.ok \in BOOLEAN

LEMMA MemberMade ==
    ASSUME NEW D, NEW U, NEW no \in U, NEW n \in D
    PROVE  [name |-> no, type |-> n] \in [name : U, type : D]
OBVIOUS

LEMMA PartAppended ==
    ASSUME NEW h, Good(h), NEW parts, PartsIn(h, parts), NEW n \in Nodes(h)
    PROVE  /\ PartsIn(h, Append(parts, T!Part(n)))
           /\ Append(parts, T!Part(n)) # <<>>
           /\ T!LastType(Append(parts, T!Part(n))) = n
<1> PICK e, P : e = T!Part(n) /\ P = MemberType
    OBVIOUS
<1>1. n \in Nat \ {0}
    BY NodesFacts
<1>2. e \in P /\ e.type = n
    <2> PICK no, D, U : no = "" /\ D = Nat \ {0} /\ U = Text
        OBVIOUS
    <2>1. e = [name |-> no, type |-> n]
        BY DEF T!Part
    <2>2. no \in U
        BY DEF Text
    <2>3. n \in D
        BY <1>1
    <2>4. [name |-> no, type |-> n] \in [name : U, type : D]
        BY ONLY <2>2, <2>3, MemberMade
    <2>5. P = [name : U, type : D]
        BY DEF MemberType
    <2> QED  BY ONLY <2>1, <2>4, <2>5
<1>3. parts \in Seq(P) /\ \A i \in 1 .. Len(parts) : parts[i].type \in Nodes(h)
    BY DEF PartsIn
<1> PICK q : q = Append(parts, e)
    OBVIOUS
<1>4. q \in Seq(P) /\ Len(q) = Len(parts) + 1 /\ Len(parts) \in Nat /\ q[Len(q)] = e /\ q # <<>>
      /\ \A i \in 1 .. Len(parts) : q[i] = parts[i]
    BY <1>2, <1>3
<1>5. ASSUME NEW i \in 1 .. Len(q) PROVE q[i].type \in Nodes(h)
    <2>1. CASE i = Len(q)
        BY <1>2, <1>4, <2>1
    <2>2. CASE i # Len(q)
        BY <1>3, <1>4, <2>2
    <2> QED  BY <2>1, <2>2
<1>6. PartsIn(h, q)
    BY <1>4, <1>5 DEF PartsIn
<1> QED  BY <1>2, <1>4, <1>6 DEF T!LastType

LEMMA NotedKeeps ==
    ASSUME NEW s, Entering(s), Noted(heap), NEW note \in DOMAIN program.types \cup {NULL}
    PROVE  /\ Entering(T!Noted(s, note)) /\ T!Noted(s, note).parts # <<>>
           /\ T!LastType(T!Noted(s, note).parts) \in Nodes(T!Noted(s, note).heap)
           /\ T!Noted(s, note).constraint = s.constraint
<1> PICK t : t = T!Noted(s, note)
    OBVIOUS
<1>0. /\ s = [heap |-> s.heap, constraint |-> s.constraint, parts |-> s.parts, ok |-> s.ok]
      /\ StepsTo(heap, s.heap) /\ Good(s.heap) /\ Types(s.heap, s.constraint)
      /\ Keeps(constraint, s.constraint) /\ PartsIn(s.heap, s.parts) /\ s.ok \in BOOLEAN
    BY DEF Entering, StepsTo
<1>1. ASSUME note = NULL
      PROVE  Entering(t) /\ t.parts # <<>> /\ T!LastType(t.parts) \in Nodes(t.heap)
             /\ t.constraint = s.constraint
    <2> PICK g, x : g = T!newType(s.heap, T!Simple("var")) /\ x = T!Fresh(s.heap)
        OBVIOUS
    <2> PICK parts : parts = Append(s.parts, T!Part(x))
        OBVIOUS
    <2>1. StepsTo(s.heap, g) /\ x \in Nodes(g) /\ Good(g)
        BY <1>0, SimpleFacts, NewTypeGood DEF StepsTo
    <2>2. PartsIn(g, s.parts)
        BY <1>0, <2>1 DEF PartsIn, StepsTo, Extends
    <2>3. PartsIn(g, parts) /\ parts # <<>> /\ T!LastType(parts) = x
        BY <2>1, <2>2, PartAppended
    <2>4. t = [heap |-> g, constraint |-> s.constraint, parts |-> parts, ok |-> s.ok]
        <3>1. t = [s EXCEPT !.heap = g, !.parts = parts]
            BY <1>0, <1>1 DEF T!Noted
        <3> QED  BY <1>0, <3>1
    <2>5. t.heap = g /\ t.constraint = s.constraint /\ t.parts = parts /\ t.ok = s.ok
        BY <2>4
    <2>6. StepsTo(heap, g) /\ Types(g, s.constraint)
        BY <1>0, <2>1, StepsTwice, TypesKeep DEF StepsTo
    <2>7. Entering(t)
        BY <1>0, <2>3, <2>4, <2>5, <2>6 DEF Entering
    <2> QED  BY <2>1, <2>3, <2>5, <2>7
<1>2. ASSUME note # NULL
      PROVE  Entering(t) /\ t.parts # <<>> /\ T!LastType(t.parts) \in Nodes(t.heap)
             /\ t.constraint = s.constraint
    <2> PICK parts : parts = Append(s.parts, T!Part(note))
        OBVIOUS
    <2>1. note \in Nodes(s.heap)
        BY <1>0, <1>2 DEF Noted, StepsTo, Extends
    <2>2. PartsIn(s.heap, parts) /\ parts # <<>> /\ T!LastType(parts) = note
        BY <1>0, <2>1, PartAppended
    <2>3. t = [heap |-> s.heap, constraint |-> s.constraint, parts |-> parts, ok |-> s.ok]
        <3>1. t = [s EXCEPT !.parts = parts]
            BY <1>0, <1>2 DEF T!Noted
        <3> QED  BY <1>0, <3>1
    <2>4. t.heap = s.heap /\ t.constraint = s.constraint /\ t.parts = parts /\ t.ok = s.ok
        BY <2>3
    <2>5. Entering(t)
        BY <1>0, <2>2, <2>3, <2>4 DEF Entering
    <2> QED  BY <2>1, <2>2, <2>4, <2>5
<1> QED  BY <1>1, <1>2

LEMMA InsertFormalKeeps ==
    ASSUME program \in Programs, Noted(heap), TopTerm \in TermAt, Kind(TopTerm) = "function",
           NEW s, Entering(s), NEW i \in 1 .. Len(Names(TopTerm)) - 1
    PROVE  Entering(T!InsertFormal(s, i))
<1> PICK note, name : note = T!This.notes[i] /\ name = T!This.names[i + 1]
    OBVIOUS
<1> PICK t, n : t = T!Noted(s, note) /\ n = T!LastType(t.parts)
    OBVIOUS
<1> PICK answer : answer = T!insertConstraint(t.heap, s.constraint, name, n)
    OBVIOUS
<1>1. name \in Idents /\ note \in DOMAIN program.types \cup {NULL}
    <2>1. i + 1 \in 1 .. Len(Names(TopTerm)) /\ i \in 1 .. Len(program.terms[TopTerm].notes)
        BY NamesFacts, ShapeFacts
    <2>2. note = program.terms[TopTerm].notes[i] /\ name = Names(TopTerm)[i + 1]
        BY ThisFacts
    <2>3. Names(TopTerm)[i + 1] # NULL
        BY <2>1, ShapeFacts
    <2> QED  BY <2>1, <2>2, <2>3, TermNameFacts, NoteFacts
<1>2. Entering(t) /\ n \in Nodes(t.heap) /\ t.constraint = s.constraint
    BY <1>1, NotedKeeps
<1>3. /\ t = [heap |-> t.heap, constraint |-> t.constraint, parts |-> t.parts, ok |-> t.ok]
      /\ StepsTo(heap, t.heap) /\ Good(t.heap) /\ Types(t.heap, s.constraint)
      /\ Keeps(constraint, s.constraint) /\ PartsIn(t.heap, t.parts) /\ t.ok \in BOOLEAN
    BY <1>2 DEF Entering, StepsTo
<1>4. /\ StepsTo(t.heap, answer.heap) /\ answer.ok \in BOOLEAN
      /\ Types(answer.heap, answer.constraint) /\ Keeps(s.constraint, answer.constraint)
    BY SMTT(30), <1>1, <1>2, <1>3, InsertConstraintSteps
<1> PICK ok : ok = (t.ok /\ answer.ok)
    OBVIOUS
<1> PICK u : u = T!InsertFormal(s, i)
    OBVIOUS
<1>5. u = [heap |-> answer.heap, constraint |-> answer.constraint, parts |-> t.parts, ok |-> ok]
    <2>1. u = [t EXCEPT !.heap = answer.heap, !.constraint = answer.constraint,
                        !.ok = t.ok /\ answer.ok]
        BY DEF T!InsertFormal
    <2>2. u = [t EXCEPT !.heap = answer.heap, !.constraint = answer.constraint, !.ok = ok]
        BY <2>1
    <2> QED  BY <1>3, <2>2, Zenon
<1>6. u.heap = answer.heap /\ u.constraint = answer.constraint /\ u.parts = t.parts /\ u.ok = ok
    BY ONLY <1>5
<1>7. StepsTo(heap, u.heap) /\ PartsIn(u.heap, u.parts) /\ Types(u.heap, u.constraint)
    <2>1. StepsTo(heap, answer.heap)
        BY <1>3, <1>4, StepsTwice
    <2>2. Nodes(t.heap) \subseteq Nodes(answer.heap)
        BY <1>4, Zenon DEF StepsTo, Extends
    <2>3. PartsIn(answer.heap, t.parts)
        BY <1>3, <2>2 DEF PartsIn
    <2> QED  BY <1>4, <1>6, <2>1, <2>3, Zenon
<1>8. Keeps(constraint, u.constraint)
    BY <1>3, <1>4, <1>6, Zenon DEF Keeps
<1>9. u.ok \in BOOLEAN
    BY <1>6
<1> QED  BY <1>5, <1>6, <1>7, <1>8, <1>9, Zenon DEF Entering

\* The states s of the head of a function, one for each formal.
FormalsTo(f, n, begin) ==
    /\ f = [i \in 0 .. n |-> f[i]]
    /\ f[0] = begin
    /\ \A i \in 1 .. n : f[i] = T!InsertFormal(f[i - 1], i)

LEMMA FormalsExist ==
    ASSUME NEW n \in Nat, NEW begin
    PROVE  \E f : FormalsTo(f, n, begin)
<1> SUFFICES ASSUME ~\E f : FormalsTo(f, n, begin) PROVE FALSE
    OBVIOUS
<1> PICK S : S = {k \in 0 .. n : ~\E f : FormalsTo(f, k, begin)}
    OBVIOUS
<1>1. S \in SUBSET Nat /\ n \in S
    OBVIOUS
<1>2. PICK m \in S : \A k \in S : m <= k
    BY <1>1, FirstOf
<1>3. m # 0
    <2> SUFFICES ASSUME m = 0 PROVE FALSE
        OBVIOUS
    <2> PICK f : f = [i \in 0 .. 0 |-> begin]
        OBVIOUS
    <2>1. FormalsTo(f, 0, begin)
        BY DEF FormalsTo
    <2> QED  BY <1>2, <2>1
<1>4. m \in 1 .. n /\ m - 1 \in 0 .. n /\ m - 1 \notin S
    BY <1>1, <1>2, <1>3
<1>5. PICK f : FormalsTo(f, m - 1, begin)
    BY <1>4
<1> PICK last : last = T!InsertFormal(f[m - 1], m)
    OBVIOUS
<1> PICK g : g = [i \in 0 .. m |-> IF i = m THEN last ELSE f[i]]
    OBVIOUS
<1>6. g = [i \in 0 .. m |-> g[i]] /\ g[0] = begin
    BY <1>4, <1>5 DEF FormalsTo
<1>7. ASSUME NEW i \in 1 .. m PROVE g[i] = T!InsertFormal(g[i - 1], i)
    <2>1. i - 1 \in 0 .. m /\ i - 1 # m /\ g[i - 1] = f[i - 1] /\ i \in 0 .. m
        BY <1>4
    <2>2. CASE i = m
        <3>1. g[i] = last
            BY <2>1, <2>2
        <3> QED  BY <2>1, <2>2, <3>1
    <2>3. CASE i # m
        <3>1. g[i] = f[i] /\ i \in 1 .. m - 1
            BY <1>4, <2>1, <2>3
        <3> QED  BY <1>5, <2>1, <3>1 DEF FormalsTo
    <2> QED  BY <2>2, <2>3
<1>8. FormalsTo(g, m, begin)
    BY <1>6, <1>7 DEF FormalsTo
<1> QED  BY <1>2, <1>8

LEMMA FormalsAre ==
    ASSUME NEW n \in Nat, NEW begin, NEW f,
           f = CHOOSE g : g = [i \in 0 .. n |-> IF i = 0 THEN begin ELSE T!InsertFormal(g[i - 1], i)]
    PROVE  FormalsTo(f, n, begin)
<1>1. PICK e : FormalsTo(e, n, begin)
    BY FormalsExist
<1>2. e = [i \in 0 .. n |-> IF i = 0 THEN begin ELSE T!InsertFormal(e[i - 1], i)]
    <2>1. ASSUME NEW i \in 0 .. n
          PROVE  e[i] = IF i = 0 THEN begin ELSE T!InsertFormal(e[i - 1], i)
        <3>1. CASE i = 0
            BY <1>1, <3>1 DEF FormalsTo
        <3>2. CASE i # 0
            <4>1. i \in 1 .. n
                BY <3>2
            <4>2. e[i] = T!InsertFormal(e[i - 1], i)
                BY <1>1, <4>1 DEF FormalsTo
            <4> QED  BY <3>2, <4>2
        <3> QED  BY <3>1, <3>2
    <2>2. e = [i \in 0 .. n |-> e[i]]
        BY <1>1 DEF FormalsTo
    <2> QED  BY <2>1, <2>2
<1>3. f = [i \in 0 .. n |-> IF i = 0 THEN begin ELSE T!InsertFormal(f[i - 1], i)]
    BY <1>2
<1>4. ASSUME NEW i \in 0 .. n
      PROVE  f[i] = IF i = 0 THEN begin ELSE T!InsertFormal(f[i - 1], i)
    BY <1>3
<1>5. f = [i \in 0 .. n |-> f[i]]
    BY <1>3, <1>4
<1> QED  BY SMTT(30), <1>4, <1>5 DEF FormalsTo

-----------------------------------------------------------------------------
(* The typing rules, for types h, those c of the identifiers and y of the   *)
(* terms; also as far as the parts of a term have been dealt with.          *)

Notes(t) == program.terms[t].notes

KindIn(h, n, kinds) == n \in Nodes(h) /\ As(h, n).kind \in kinds

VarIn(h, c, y, t) == Equals(h, y[t], c[Names(t)[1]])

\* n is the type of a function, but for its body.
HeadIn(h, c, n, t) ==
    /\ n \in Nodes(h) /\ h.type[n].kind = "fun" /\ Len(h.type[n].parts) = Len(Names(t))
    /\ \A i \in 2 .. Len(Names(t)) : Equals(h, h.type[n].parts[i - 1].type, c[Names(t)[i]])
    /\ \A i \in 1 .. Len(Names(t)) :
        Notes(t)[i] # NULL => Equals(h, h.type[n].parts[i].type, Notes(t)[i])

FunctionIn(h, c, y, t) ==
    HeadIn(h, c, y[t], t) /\ Equals(h, y[Parts(t)[1]], LastType(h.type[y[t]].parts))

ArgumentsIn(h, y, t, n) ==
    LET callee == y[Parts(t)[1]]
    IN  /\ callee \in Nodes(h) /\ h.type[callee].kind = "fun"
        /\ Len(h.type[callee].parts) = Len(Parts(t))
        /\ \A i \in 2 .. n : Equals(h, y[Parts(t)[i]], h.type[callee].parts[i - 1].type)

ApplicationIn(h, y, t) ==
    /\ ArgumentsIn(h, y, t, Len(Parts(t)))
    /\ Equals(h, y[t], LastType(h.type[y[Parts(t)[1]]].parts))

OperandsIn(h, y, t, kinds) == KindIn(h, y[Parts(t)[1]], kinds) /\ KindIn(h, y[Parts(t)[2]], kinds)

BinaryIn(h, y, t) ==
    LET op == program.terms[t].op
        a == y[Parts(t)[1]]
        b == y[Parts(t)[2]]
    IN  /\ Equals(h, a, b) \/ (op = "+" /\ (KindIn(h, a, {"pointer"}) \/ KindIn(h, b, {"pointer"})))
        /\ op \in Relational \cup Equality \cup Logical => KindIn(h, y[t], {"bool"})
        /\ op \in Relational \cup Arithmetic => OperandsIn(h, y, t, Numeric)
        /\ op = "%" => OperandsIn(h, y, t, Integral)
        /\ op \in Logical => OperandsIn(h, y, t, {"bool"})
        /\ op \in Arithmetic \cup {"%"} => Equals(h, y[t], a)

ConditionIn(h, y, t, n) ==
    /\ n >= 1 => KindIn(h, y[Parts(t)[1]], {"bool"})
    /\ n = 3 => Equals(h, y[Parts(t)[3]], y[Parts(t)[2]])

ConditionalIn(h, y, t) ==
    ConditionIn(h, y, t, Len(Parts(t))) /\ Equals(h, y[t], y[Parts(t)[2]])

AssignmentIn(h, y, t) == Equals(h, y[Parts(t)[1]], y[Parts(t)[2]])

StatementIn(h, c, y, t, i) ==
    IF Names(t)[i] = NULL
    THEN KindIn(h, y[Parts(t)[i]], Structs)
    ELSE /\ Equals(h, y[Parts(t)[i]], c[Names(t)[i]])
         /\ Notes(t)[i] # NULL => Equals(h, y[Parts(t)[i]], Notes(t)[i])

StatementsIn(h, c, y, t, n) ==
    \A i \in 1 .. Len(Names(t)) : i <= n => StatementIn(h, c, y, t, i)

\* A return has a rule of its own, that tells of the function that it is in.
RuleIn(h, c, y, t) ==
    /\ Kind(t) = "var" => VarIn(h, c, y, t)
    /\ Kind(t) = "function" => FunctionIn(h, c, y, t)
    /\ Kind(t) = "application" => ApplicationIn(h, y, t)
    /\ Kind(t) = "binary" => BinaryIn(h, y, t)
    /\ Kind(t) = "conditional" => ConditionalIn(h, y, t)
    /\ Kind(t) = "assignment" => AssignmentIn(h, y, t)
    /\ Kind(t) = "block" => StatementsIn(h, c, y, t, Len(Names(t)))

PartlyIn(h, c, y, f) ==
    /\ Kind(f.term) = "function" /\ f.fun # NULL => HeadIn(h, c, f.fun, f.term)
    /\ Kind(f.term) = "application" /\ f.at > 0 => ArgumentsIn(h, y, f.term, f.at)
    /\ Kind(f.term) = "conditional" => ConditionIn(h, y, f.term, f.at)
    /\ Kind(f.term) = "block" => StatementsIn(h, c, y, f.term, f.at)

\* What has a type keeps it, or has that for which it stands.
Stays(h, S, y, z) == \A x \in S : y[x] \in Nodes(h) => z[x] = y[x] \/ z[x] = h.is[y[x]]

LEMMA NodeKept ==
    ASSUME NEW h, Good(h), NEW g, Later(h, g), NEW S, NEW y, NEW z, Stays(h, S, y, z),
           NEW x \in S, y[x] \in Nodes(h)
    PROVE  /\ z[x] \in Nodes(g) /\ g.is[z[x]] = g.is[y[x]]
           /\ h.type[y[x]].kind # "var" => z[x] = y[x] /\ g.type[z[x]] = h.type[y[x]]
<1>1. Nodes(h) \subseteq Nodes(g) /\ \A n \in Nodes(h) : g.type[n] = h.type[n]
    BY DEF Later, StepsTo, Extends
<1>2. h.is[y[x]] \in Nodes(h) /\ h.is[h.is[y[x]]] = h.is[y[x]]
    BY DEF Good, HeapOK
<1>3. z[x] = y[x] \/ z[x] = h.is[y[x]]
    BY DEF Stays
<1>4. g.is[h.is[y[x]]] = g.is[y[x]]
    BY <1>2 DEF Later
<1>5. h.type[y[x]].kind # "var" => h.is[y[x]] = y[x]
    BY DEF Good, HeapOK
<1> QED  BY <1>1, <1>2, <1>3, <1>4, <1>5

LEMMA EqualsKept ==
    ASSUME NEW h, Good(h), NEW g, Later(h, g), NEW a, NEW b, Equals(h, a, b),
           NEW c \in Nodes(g), NEW d \in Nodes(g), g.is[c] = g.is[a], g.is[d] = g.is[b]
    PROVE  Equals(g, c, d)
<1>1. Good(g)
    BY DEF Later, StepsTo
<1> QED  BY <1>1, EqualsLater, EqualsOfSame

LEMMA KindKept ==
    ASSUME NEW h, Good(h), NEW g, Later(h, g), NEW n, NEW kinds, KindIn(h, n, kinds),
           "var" \notin kinds, NEW m \in Nodes(g), g.is[m] = g.is[n]
    PROVE  KindIn(g, m, kinds)
<1>1. n \in Nodes(h) /\ h.type[h.is[n]].kind \in kinds
    BY DEF KindIn, As
<1>2. g.type[g.is[n]] = h.type[h.is[n]]
    BY <1>1, LaterStands
<1> QED  BY <1>1, <1>2 DEF KindIn, As

Moves(h, g, c, d, y, z) ==
    Good(h) /\ Later(h, g) /\ Stays(h, Idents, c, d) /\ Stays(h, TermAt, y, z)

\* What is equal remains so, of terms, identifiers and other types.
LEMMA EqualsMoves ==
    ASSUME NEW h, NEW g, NEW c, NEW d, NEW y, NEW z, Moves(h, g, c, d, y, z)
    PROVE  /\ \A s, t \in TermAt : Equals(h, y[s], y[t]) => Equals(g, z[s], z[t])
           /\ \A t \in TermAt, name \in Idents : Equals(h, y[t], c[name]) => Equals(g, z[t], d[name])
           /\ \A t \in TermAt : \A n : Equals(h, y[t], n) => Equals(g, z[t], n)
           /\ \A name \in Idents : \A n : Equals(h, n, c[name]) => Equals(g, n, d[name])
           /\ \A t \in TermAt : \A kinds : KindIn(h, y[t], kinds) /\ "var" \notin kinds
                => KindIn(g, z[t], kinds)
<1>0. Good(h) /\ Later(h, g) /\ Stays(h, Idents, c, d) /\ Stays(h, TermAt, y, z)
    BY DEF Moves
<1>1. \A t \in TermAt : y[t] \in Nodes(h) => z[t] \in Nodes(g) /\ g.is[z[t]] = g.is[y[t]]
    BY <1>0, NodeKept
<1>2. \A name \in Idents : c[name] \in Nodes(h) => d[name] \in Nodes(g) /\ g.is[d[name]] = g.is[c[name]]
    BY <1>0, NodeKept
<1>3. \A n \in Nodes(h) : n \in Nodes(g)
    BY <1>0 DEF Later, StepsTo, Extends
<1>4. \A a, b : Equals(h, a, b) => a \in Nodes(h) /\ b \in Nodes(h)
    BY DEF Equals
<1>5. \A s, t \in TermAt : Equals(h, y[s], y[t]) => Equals(g, z[s], z[t])
    BY <1>0, <1>1, <1>4, EqualsKept
<1>6. \A t \in TermAt, name \in Idents : Equals(h, y[t], c[name]) => Equals(g, z[t], d[name])
    BY <1>0, <1>1, <1>2, <1>4, EqualsKept
<1>7. \A t \in TermAt : \A n : Equals(h, y[t], n) => Equals(g, z[t], n)
    BY <1>0, <1>1, <1>3, <1>4, EqualsKept
<1>8. \A name \in Idents : \A n : Equals(h, n, c[name]) => Equals(g, n, d[name])
    BY <1>0, <1>2, <1>3, <1>4, EqualsKept
<1>9. \A t \in TermAt : \A kinds : KindIn(h, y[t], kinds) /\ "var" \notin kinds => KindIn(g, z[t], kinds)
    <2> SUFFICES ASSUME NEW t \in TermAt, NEW kinds, KindIn(h, y[t], kinds), "var" \notin kinds
                 PROVE  KindIn(g, z[t], kinds)
        OBVIOUS
    <2>1. y[t] \in Nodes(h)
        BY DEF KindIn
    <2> QED  BY <1>0, <1>1, <2>1, KindKept
<1> QED  BY <1>5, <1>6, <1>7, <1>8, <1>9

LEMMA KindsWithoutVar ==
    /\ "var" \notin Numeric /\ "var" \notin Integral /\ "var" \notin Structs
    /\ "var" \notin {"bool"} /\ "var" \notin {"pointer"}
BY DEF Numeric, Integral, Structs

LEMMA HeadKept ==
    ASSUME program \in Programs, NEW t \in TermAt, Kind(t) = "function",
           NEW h, NEW g, NEW c, NEW d, NEW y, NEW z, Moves(h, g, c, d, y, z),
           NEW n, HeadIn(h, c, n, t)
    PROVE  HeadIn(g, d, n, t) /\ g.type[n] = h.type[n]
<1>0. Good(h) /\ Later(h, g)
    BY DEF Moves
<1>1. n \in Nodes(h) /\ h.type[n].kind = "fun" /\ Len(h.type[n].parts) = Len(Names(t))
    BY DEF HeadIn
<1>2. n \in Nodes(g) /\ g.type[n] = h.type[n]
    BY <1>0, <1>1 DEF Later, StepsTo, Extends
<1>3. ASSUME NEW i \in 2 .. Len(Names(t))
      PROVE  Equals(g, h.type[n].parts[i - 1].type, d[Names(t)[i]])
    <2>1. i \in 1 .. Len(Names(t)) /\ Names(t)[i] # NULL
        BY ShapeFacts, NamesFacts
    <2>2. Names(t)[i] \in Idents
        BY <2>1, TermNameFacts
    <2>3. Equals(h, h.type[n].parts[i - 1].type, c[Names(t)[i]])
        BY DEF HeadIn
    <2> QED  BY <2>2, <2>3, EqualsMoves
<1>4. ASSUME NEW i \in 1 .. Len(Names(t)), Notes(t)[i] # NULL
      PROVE  Equals(g, h.type[n].parts[i].type, Notes(t)[i])
    <2>1. Equals(h, h.type[n].parts[i].type, Notes(t)[i])
        BY <1>4, Zenon DEF HeadIn
    <2> QED  BY <1>0, <2>1, EqualsLater
<1> QED  BY <1>1, <1>2, <1>3, <1>4 DEF HeadIn

LEMMA ArgumentsKept ==
    ASSUME program \in Programs, NEW t \in TermAt, Kind(t) = "application",
           NEW h, NEW g, NEW c, NEW d, NEW y, NEW z, Moves(h, g, c, d, y, z),
           NEW n \in Nat \ {0}, \A i \in 1 .. n : Parts(t)[i] \in TermAt, ArgumentsIn(h, y, t, n)
    PROVE  ArgumentsIn(g, z, t, n) /\ g.type[z[Parts(t)[1]]] = h.type[y[Parts(t)[1]]]
<1>0. Good(h) /\ Later(h, g) /\ Stays(h, TermAt, y, z)
    BY DEF Moves
<1> PICK callee : callee = y[Parts(t)[1]]
    OBVIOUS
<1>1. /\ callee \in Nodes(h) /\ h.type[callee].kind = "fun"
      /\ Len(h.type[callee].parts) = Len(Parts(t))
      /\ \A i \in 2 .. n : Equals(h, y[Parts(t)[i]], h.type[callee].parts[i - 1].type)
    BY DEF ArgumentsIn
<1>2. Parts(t)[1] \in TermAt
    OBVIOUS
<1>3. z[Parts(t)[1]] = callee /\ callee \in Nodes(g) /\ g.type[callee] = h.type[callee]
    BY <1>0, <1>1, <1>2, NodeKept
<1>4. ASSUME NEW i \in 2 .. n PROVE Equals(g, z[Parts(t)[i]], g.type[callee].parts[i - 1].type)
    <2> PICK s, m : s = Parts(t)[i] /\ m = h.type[callee].parts[i - 1].type
        OBVIOUS
    <2>1. s \in TermAt /\ Equals(h, y[s], m)
        BY <1>1
    <2>2. Equals(g, z[s], m)
        BY <2>1, EqualsMoves
    <2> QED  BY <1>3, <2>2
<1> QED  BY <1>1, <1>3, <1>4 DEF ArgumentsIn

LEMMA ConditionKept ==
    ASSUME NEW t \in TermAt, NEW h, NEW g, NEW c, NEW d, NEW y, NEW z, Moves(h, g, c, d, y, z),
           NEW n \in Nat, \A i \in 1 .. n : Parts(t)[i] \in TermAt, ConditionIn(h, y, t, n)
    PROVE  ConditionIn(g, z, t, n)
<1>1. n >= 1 => KindIn(g, z[Parts(t)[1]], {"bool"})
    <2> SUFFICES ASSUME n >= 1 PROVE KindIn(g, z[Parts(t)[1]], {"bool"})
        OBVIOUS
    <2>1. Parts(t)[1] \in TermAt /\ KindIn(h, y[Parts(t)[1]], {"bool"})
        BY DEF ConditionIn
    <2> QED  BY <2>1, KindsWithoutVar, EqualsMoves
<1>2. n = 3 => Equals(g, z[Parts(t)[3]], z[Parts(t)[2]])
    <2> SUFFICES ASSUME n = 3 PROVE Equals(g, z[Parts(t)[3]], z[Parts(t)[2]])
        OBVIOUS
    <2>1. Parts(t)[3] \in TermAt /\ Parts(t)[2] \in TermAt /\ Equals(h, y[Parts(t)[3]], y[Parts(t)[2]])
        BY DEF ConditionIn
    <2> QED  BY <2>1, EqualsMoves
<1> QED  BY <1>1, <1>2 DEF ConditionIn

LEMMA StatementsKept ==
    ASSUME program \in Programs, NEW t \in TermAt, Kind(t) = "block",
           NEW h, NEW g, NEW c, NEW d, NEW y, NEW z, Moves(h, g, c, d, y, z),
           NEW n \in Nat, \A i \in 1 .. n : i <= Len(Names(t)) => Parts(t)[i] \in TermAt,
           StatementsIn(h, c, y, t, n)
    PROVE  StatementsIn(g, d, z, t, n)
<1> SUFFICES ASSUME NEW i \in 1 .. Len(Names(t)), i <= n PROVE StatementIn(g, d, z, t, i)
    BY DEF StatementsIn
<1>1. StatementIn(h, c, y, t, i)
    BY DEF StatementsIn
<1>2. Len(Names(t)) \in Nat
    BY NamesFacts
<1>3. Parts(t)[i] \in TermAt
    BY <1>2
<1>4. CASE Names(t)[i] = NULL
    <2>1. KindIn(h, y[Parts(t)[i]], Structs)
        BY <1>1, <1>4 DEF StatementIn
    <2>2. KindIn(g, z[Parts(t)[i]], Structs)
        BY <1>3, <2>1, KindsWithoutVar, EqualsMoves
    <2> QED  BY <1>4, <2>2 DEF StatementIn
<1>5. CASE Names(t)[i] # NULL
    <2>1. Names(t)[i] \in Idents
        BY <1>5, TermNameFacts
    <2>2. /\ Equals(h, y[Parts(t)[i]], c[Names(t)[i]])
          /\ Notes(t)[i] # NULL => Equals(h, y[Parts(t)[i]], Notes(t)[i])
        BY <1>1, <1>5 DEF StatementIn
    <2>3. Equals(g, z[Parts(t)[i]], d[Names(t)[i]])
        BY <1>3, <2>1, <2>2, EqualsMoves
    <2>4. Notes(t)[i] # NULL => Equals(g, z[Parts(t)[i]], Notes(t)[i])
        BY <1>3, <2>2, EqualsMoves
    <2> QED  BY <1>5, <2>3, <2>4 DEF StatementIn
<1> QED  BY <1>4, <1>5

LEMMA RuleKept ==
    ASSUME program \in Programs, NEW t \in TermAt, \A i \in DOMAIN Parts(t) : Parts(t)[i] \in TermAt,
           NEW h, NEW g, NEW c, NEW d, NEW y, NEW z, Moves(h, g, c, d, y, z),
           RuleIn(h, c, y, t)
    PROVE  RuleIn(g, d, z, t)
<1>0. Good(h) /\ Later(h, g) /\ Stays(h, TermAt, y, z)
    BY DEF Moves
<1> PICK n : n = Len(Parts(t))
    OBVIOUS
<1>1. n \in Nat /\ \A i \in 1 .. n : Parts(t)[i] \in TermAt
    BY TermFacts
<1>2. CASE Kind(t) = "var"
    <2>1. Names(t)[1] \in Idents
        BY <1>2, NamesFacts, TermNameFacts
    <2>2. VarIn(g, d, z, t)
        BY <1>2, <2>1, EqualsMoves DEF RuleIn, VarIn
    <2> QED  BY <1>2, <2>2 DEF RuleIn
<1>3. CASE Kind(t) = "function"
    <2>1. HeadIn(h, c, y[t], t) /\ Equals(h, y[Parts(t)[1]], LastType(h.type[y[t]].parts))
        BY <1>3 DEF RuleIn, FunctionIn
    <2>2. y[t] \in Nodes(h) /\ h.type[y[t]].kind = "fun"
        BY <2>1 DEF HeadIn
    <2>3. z[t] = y[t]
        BY <1>0, <2>2, NodeKept
    <2> PICK m : m = y[t]
        OBVIOUS
    <2>4. HeadIn(g, d, m, t) /\ g.type[m] = h.type[m]
        BY <1>3, <2>1, HeadKept
    <2>5. Parts(t)[1] \in TermAt
        BY <1>1, <1>3, TermFacts
    <2> PICK k : k = LastType(h.type[m].parts)
        OBVIOUS
    <2>6. Equals(g, z[Parts(t)[1]], k)
        BY <2>1, <2>5, EqualsMoves
    <2> QED  BY <1>3, <2>3, <2>4, <2>6 DEF RuleIn, FunctionIn
<1>4. CASE Kind(t) = "application"
    <2>1. n \in Nat \ {0} /\ ArgumentsIn(h, y, t, n)
        BY <1>1, <1>4, TermFacts DEF RuleIn, ApplicationIn
    <2>2. ArgumentsIn(g, z, t, n) /\ g.type[z[Parts(t)[1]]] = h.type[y[Parts(t)[1]]]
        BY <1>1, <1>4, <2>1, ArgumentsKept
    <2> PICK k : k = LastType(h.type[y[Parts(t)[1]]].parts)
        OBVIOUS
    <2>3. Equals(h, y[t], k)
        BY <1>4 DEF RuleIn, ApplicationIn
    <2>4. Equals(g, z[t], k)
        BY <2>3, EqualsMoves
    <2> QED  BY <1>4, <2>2, <2>4 DEF RuleIn, ApplicationIn
<1>5. CASE Kind(t) = "binary"
    <2> PICK p, q : p = Parts(t)[1] /\ q = Parts(t)[2]
        OBVIOUS
    <2>0. n = 2
        BY <1>5, TermFacts
    <2>1. p \in TermAt /\ q \in TermAt
        BY <1>1, <2>0
    <2>2. BinaryIn(h, y, t)
        BY <1>5 DEF RuleIn
    <2>3. /\ Equals(h, y[p], y[q]) => Equals(g, z[p], z[q])
          /\ Equals(h, y[t], y[p]) => Equals(g, z[t], z[p])
        BY <2>1, EqualsMoves
    <2>4. \A kinds : "var" \notin kinds =>
            /\ KindIn(h, y[p], kinds) => KindIn(g, z[p], kinds)
            /\ KindIn(h, y[q], kinds) => KindIn(g, z[q], kinds)
            /\ KindIn(h, y[t], kinds) => KindIn(g, z[t], kinds)
        BY <2>1, EqualsMoves
    <2>5. /\ KindIn(h, y[t], {"bool"}) => KindIn(g, z[t], {"bool"})
          /\ KindIn(h, y[p], {"pointer"}) => KindIn(g, z[p], {"pointer"})
          /\ KindIn(h, y[q], {"pointer"}) => KindIn(g, z[q], {"pointer"})
          /\ OperandsIn(h, y, t, Numeric) => OperandsIn(g, z, t, Numeric)
          /\ OperandsIn(h, y, t, Integral) => OperandsIn(g, z, t, Integral)
          /\ OperandsIn(h, y, t, {"bool"}) => OperandsIn(g, z, t, {"bool"})
        BY <2>4, KindsWithoutVar DEF OperandsIn
    <2>6. BinaryIn(g, z, t)
        BY <2>2, <2>3, <2>5 DEF BinaryIn
    <2> QED  BY <1>5, <2>6 DEF RuleIn
<1>6. CASE Kind(t) = "conditional"
    <2>1. ConditionIn(h, y, t, n) /\ Equals(h, y[t], y[Parts(t)[2]])
        BY <1>6 DEF RuleIn, ConditionalIn
    <2>2. ConditionIn(g, z, t, n)
        BY <1>1, <2>1, ConditionKept
    <2>3. Parts(t)[2] \in TermAt
        BY <1>1, <1>6, ShapeFacts
    <2>4. Equals(g, z[t], z[Parts(t)[2]])
        BY <2>1, <2>3, EqualsMoves
    <2> QED  BY <1>6, <2>2, <2>4 DEF RuleIn, ConditionalIn
<1>7. CASE Kind(t) = "assignment"
    <2>1. Parts(t)[1] \in TermAt /\ Parts(t)[2] \in TermAt
        BY <1>1, <1>7, TermFacts
    <2>2. AssignmentIn(g, z, t)
        BY <1>7, <2>1, EqualsMoves DEF RuleIn, AssignmentIn
    <2> QED  BY <1>7, <2>2 DEF RuleIn
<1>8. CASE Kind(t) = "block"
    <2> PICK k : k = Len(Names(t))
        OBVIOUS
    <2>1. k \in Nat /\ \A i \in 1 .. k : i <= Len(Names(t)) => Parts(t)[i] \in TermAt
        BY <1>1, <1>8, NamesFacts, ShapeFacts
    <2>2. StatementsIn(h, c, y, t, k)
        BY <1>8 DEF RuleIn
    <2>3. StatementsIn(g, d, z, t, k)
        BY <1>8, <2>1, <2>2, StatementsKept
    <2> QED  BY <1>8, <2>3 DEF RuleIn
<1>9. CASE Kind(t) \notin {"var", "function", "application", "binary", "conditional", "assignment", "block"}
    BY <1>9 DEF RuleIn
<1> QED  BY <1>2, <1>3, <1>4, <1>5, <1>6, <1>7, <1>8, <1>9

LEMMA PartlyKept ==
    ASSUME program \in Programs, NEW f, f.term \in TermAt, f.at \in Nat,
           \A i \in 1 .. f.at : Parts(f.term)[i] \in TermAt,
           NEW h, NEW g, NEW c, NEW d, NEW y, NEW z, Moves(h, g, c, d, y, z),
           PartlyIn(h, c, y, f)
    PROVE  PartlyIn(g, d, z, f)
<1> PICK t, n : t = f.term /\ n = f.at
    OBVIOUS
<1>0. t \in TermAt /\ n \in Nat /\ \A i \in 1 .. n : Parts(t)[i] \in TermAt
    OBVIOUS
<1>1. Kind(t) = "function" /\ f.fun # NULL => HeadIn(g, d, f.fun, t)
    <2> SUFFICES ASSUME Kind(t) = "function", f.fun # NULL PROVE HeadIn(g, d, f.fun, t)
        OBVIOUS
    <2>1. HeadIn(h, c, f.fun, t)
        BY DEF PartlyIn
    <2> QED  BY <1>0, <2>1, HeadKept
<1>2. Kind(t) = "application" /\ n > 0 => ArgumentsIn(g, z, t, n)
    <2> SUFFICES ASSUME Kind(t) = "application", n > 0 PROVE ArgumentsIn(g, z, t, n)
        OBVIOUS
    <2>1. ArgumentsIn(h, y, t, n) /\ n \in Nat \ {0}
        BY <1>0 DEF PartlyIn
    <2> QED  BY <1>0, <2>1, ArgumentsKept
<1>3. Kind(t) = "conditional" => ConditionIn(g, z, t, n)
    BY <1>0, ConditionKept DEF PartlyIn
<1>4. Kind(t) = "block" => StatementsIn(g, d, z, t, n)
    <2> SUFFICES ASSUME Kind(t) = "block" PROVE StatementsIn(g, d, z, t, n)
        OBVIOUS
    <2>1. StatementsIn(h, c, y, t, n)
        BY DEF PartlyIn
    <2> QED  BY <1>0, <2>1, StatementsKept
<1> QED  BY <1>1, <1>2, <1>3, <1>4 DEF PartlyIn

-----------------------------------------------------------------------------
(* Each action of the type checker is a step of one of the forms, that lets *)
(* the rule hold for what it has dealt with, unless an answer is ignored.   *)

Grows ==
    /\ Constrains
    /\ Later(heap, heap') /\ Holds(constraint, constraint')
    /\ ignored => ignored'

PartlyHolds == PartlyIn(heap, constraint, typed, Head(stack))

TakesByRule ==
    /\ TakesPart /\ Grows
    /\ ~ignored' /\ PartlyHolds =>
        PartlyIn(heap', constraint', typed, [Head(stack) EXCEPT !.at = @ + 1])

ReturnsByRule ==
    /\ ReturnsType /\ Grows
    /\ IF Kind(TopTerm) = "function"
       THEN /\ Head(stack).fun # NULL /\ typed'[TopTerm] = Head(stack).fun
            /\ currentReturnType' = Head(stack).prev
       ELSE currentReturnType' = currentReturnType
    /\ ~ignored' /\ PartlyHolds => RuleIn(heap', constraint', typed', TopTerm)
    /\ Kind(TopTerm) = "return" =>
        currentReturnType # NULL /\ Equals(heap', typed[Parts(TopTerm)[1]], currentReturnType)

CallsByRule == CallsTerm /\ Called

EntersByRule ==
    /\ InTerm /\ Kind(TopTerm) = "function" /\ Head(stack).fun = NULL
    /\ \E fun \in Nodes(heap') :
        /\ heap'.type[fun].kind = "fun" /\ heap'.type[fun].parts # <<>>
        /\ stack' = [stack EXCEPT ![1].fun = fun, ![1].prev = currentReturnType]
        /\ currentReturnType' = LastType(heap'.type[fun].parts)
        /\ ~ignored' => HeadIn(heap', constraint', fun, TopTerm)
    /\ Grows
    /\ UNCHANGED <<program, typed, declType, decl, status>>

DeclaresByRule == DeclaresType /\ Grows /\ stack = <<>>

RuleStep ==
    StopsTyping \/ CallsByRule \/ TakesByRule \/ ReturnsByRule \/ EntersByRule \/ DeclaresByRule
        \/ T!ResolveDecls

LEMMA FatalRule ==
    ASSUME T!Fatal
    PROVE  RuleStep
BY DEF T!Fatal, RuleStep, StopsTyping

LEMMA LaterNodes ==
    ASSUME NEW h, NEW g, Later(h, g)
    PROVE  /\ StepsTo(h, g) /\ Good(g) /\ Nodes(h) \subseteq Nodes(g)
           /\ \A n \in Nodes(h) : g.type[n] = h.type[n]
BY DEF Later, StepsTo, Extends

\* Where no identifier gets a type.
LEMMA GrowsOnly ==
    ASSUME TyperOK, Later(heap, heap'), UNCHANGED <<constraint, ignored>>
    PROVE  Grows
<1>1. StepsTo(heap, heap')
    BY LaterNodes
<1>2. Types(heap', constraint)
    BY <1>1, TypesKeep DEF TyperOK, StepsTo
<1>3. Types(heap', constraint') /\ Keeps(constraint, constraint') /\ Holds(constraint, constraint')
    BY <1>2 DEF Keeps, Holds
<1> QED  BY <1>1, <1>3 DEF Grows, Constrains, TyperOK

LEMMA GrowsMoves ==
    ASSUME TyperOK, Grows
    PROVE  Moves(heap, heap', constraint, constraint', typed, typed)
<1>1. Good(heap) /\ Later(heap, heap') /\ NULL \notin Nodes(heap)
    BY NodesFacts DEF TyperOK, Grows
<1>2. Stays(heap, Idents, constraint, constraint')
    BY <1>1 DEF Grows, Holds, Stays
<1>3. Stays(heap, TermAt, typed, typed)
    BY DEF Stays
<1> QED  BY <1>1, <1>2, <1>3 DEF Moves

\* What a call returns, and that the parts keep their types.
LEMMA Returning ==
    ASSUME TypeSetting, InTerm, NEW h, Good(h), NEW n \in Nodes(h), T!Return(h, n)
    PROVE  /\ heap' = h /\ stack' = Tail(stack)
           /\ h.is[n] \in Nodes(h) /\ typed' = [typed EXCEPT ![TopTerm] = h.is[n]]
           /\ typed'[TopTerm] = h.is[n] /\ Equals(h, typed'[TopTerm], n)
           /\ \A i \in 1 .. Len(Parts(TopTerm)) :
                Parts(TopTerm)[i] # NULL => typed'[Parts(TopTerm)[i]] = typed[Parts(TopTerm)[i]]
           /\ UNCHANGED <<program, declType, decl, status>>
<1>1. /\ heap' = h /\ stack' = Tail(stack) /\ typed' = [typed EXCEPT ![TopTerm] = h.is[n]]
      /\ UNCHANGED <<program, declType, decl, status>>
    BY ThisFacts DEF T!Return
<1>2. h.is[n] \in Nodes(h) /\ h.is[h.is[n]] = h.is[n]
    BY DEF Good, HeapOK
<1>3. TopTerm \in TermAt /\ DOMAIN typed = TermAt /\ program \in Programs
    BY InTermFacts DEF TypeSetting, Walk
<1>4. typed'[TopTerm] = h.is[n]
    BY <1>1, <1>3
<1>5. Equals(h, h.is[n], n)
    BY <1>2, EqualsItself
<1>6. ASSUME NEW i \in 1 .. Len(Parts(TopTerm)), Parts(TopTerm)[i] # NULL
      PROVE  typed'[Parts(TopTerm)[i]] = typed[Parts(TopTerm)[i]]
    <2> PICK k, t : k = Parts(TopTerm)[i] /\ t = TopTerm
        OBVIOUS
    <2>1. k \in TermAt /\ k < t /\ t \in TermAt
        BY <1>3, <1>6, TermFacts
    <2>2. k # t
        BY <1>3, <2>1, ProgramFacts
    <2> QED  BY <1>1, <1>3, <2>1, <2>2
<1> QED  BY <1>1, <1>2, <1>4, <1>5, <1>6

\* There is no rule for a constant, and that for a return is another.
LEMMA NoRule ==
    ASSUME NEW h, NEW c, NEW y, NEW t,
           Kind(t) \in {"constant", "boolean", "structure", "return", "break", "continue"}
    PROVE  RuleIn(h, c, y, t)
BY DEF RuleIn

LEMMA ReturnRule ==
    ASSUME TypeSetting, InTerm, Kind(TopTerm) # "function",
           NEW h, Later(heap, h), NEW n \in Nodes(h), T!Return(h, n),
           Types(h, constraint'), Holds(constraint, constraint'), ignored' \in BOOLEAN,
           ignored => ignored', currentReturnType' = currentReturnType,
           ~ignored' /\ PartlyHolds => RuleIn(h, constraint', typed', TopTerm),
           Kind(TopTerm) = "return" =>
                currentReturnType # NULL /\ Equals(h, typed[Parts(TopTerm)[1]], currentReturnType)
    PROVE  RuleStep
<1>1. Good(h) /\ StepsTo(heap, h) /\ Nodes(heap) \subseteq Nodes(h)
    BY LaterNodes
<1>2. /\ heap' = h /\ stack' = Tail(stack) /\ h.is[n] \in Nodes(h)
      /\ typed' = [typed EXCEPT ![TopTerm] = h.is[n]]
      /\ UNCHANGED <<program, declType, decl, status>>
    BY <1>1, Returning
<1>3. Keeps(constraint, constraint')
    BY DEF Keeps, Holds
<1>4. Constrains
    BY <1>1, <1>2, <1>3 DEF Constrains
<1>5. currentReturnType' \in Nodes(h) \cup {NULL}
    BY <1>1 DEF TypeSetting, TyperOK
<1>6. ReturnsType
    BY <1>2, <1>4, <1>5 DEF ReturnsType
<1>7. Grows
    BY <1>2, <1>4 DEF Grows
<1>8. ReturnsByRule
    BY <1>2, <1>6, <1>7 DEF ReturnsByRule
<1> QED  BY <1>8 DEF RuleStep

LEMMA ReturnRestRule ==
    ASSUME TypeSetting, InTerm, Kind(TopTerm) # "function",
           NEW h, Later(heap, h), NEW n \in Nodes(h), T!Return(h, n), T!Rest,
           ~ignored /\ PartlyHolds => RuleIn(h, constraint, typed', TopTerm),
           Kind(TopTerm) = "return" =>
                currentReturnType # NULL /\ Equals(h, typed[Parts(TopTerm)[1]], currentReturnType)
    PROVE  RuleStep
<1>1. constraint' = constraint /\ currentReturnType' = currentReturnType /\ ignored' = ignored
    BY DEF T!Rest
<1>2. Types(h, constraint) /\ ignored \in BOOLEAN
    BY LaterNodes, TypesKeep DEF TypeSetting, TyperOK, StepsTo
<1>3. Types(h, constraint') /\ Holds(constraint, constraint') /\ ignored' \in BOOLEAN
    BY <1>1, <1>2 DEF Holds
<1> QED  BY <1>1, <1>3, ReturnRule

\* The type that is made for the term, and the rule for it.
LEMMA ReturnNewRule ==
    ASSUME TypeSetting, InTerm, Kind(TopTerm) # "function",
           NEW h, Later(heap, h), NEW type \in Type, type.kind # "var",
           \A i \in DOMAIN type.parts : type.parts[i].type \in Nodes(h),
           T!ReturnNew(h, type), T!Rest,
           \A g : Later(h, g) /\ typed'[TopTerm] \in Nodes(g) /\ As(g, typed'[TopTerm]) = type =>
                /\ ~ignored /\ PartlyHolds => RuleIn(g, constraint, typed', TopTerm)
                /\ Kind(TopTerm) = "return" => currentReturnType # NULL
                        /\ Equals(g, typed[Parts(TopTerm)[1]], currentReturnType)
    PROVE  RuleStep
<1> PICK g, x : g = T!newType(h, type) /\ x = T!Fresh(h)
    OBVIOUS
<1>1. Later(h, g) /\ x \in Nodes(g) /\ g.type[x] = type /\ g.is[x] = x
    BY LaterNodes, NewTypeLater
<1>2. Later(heap, g) /\ Good(g)
    BY <1>1, LaterTwice, LaterNodes
<1>3. T!Return(g, x)
    BY DEF T!ReturnNew
<1>4. typed'[TopTerm] = x
    BY <1>1, <1>2, <1>3, Returning
<1>5. As(g, x) = type
    BY <1>1 DEF As
<1> QED  BY <1>1, <1>2, <1>3, <1>4, <1>5, ReturnRestRule

LEMMA TakeRule ==
    ASSUME TypeSetting, InTerm, PartTyped, T!Took, Grows,
           Kind(TopTerm) = "application" /\ TopAt = 0 =>
                Len(heap.type[typed[NextPart]].parts) = Len(Parts(TopTerm)),
           ~ignored' /\ PartlyHolds =>
                PartlyIn(heap', constraint', typed, [Head(stack) EXCEPT !.at = @ + 1])
    PROVE  RuleStep
<1>1. /\ stack' = [stack EXCEPT ![1].at = @ + 1]
      /\ UNCHANGED <<program, typed, declType, decl, currentReturnType, status>>
    BY DEF T!Took, T!TakeKid
<1>2. TakesPart
    BY <1>1 DEF TakesPart, Grows
<1>3. TakesByRule
    BY <1>2 DEF TakesByRule
<1> QED  BY <1>3 DEF RuleStep

\* The frame when the part has been dealt with.
LEMMA TakenFrame ==
    ASSUME TypeSetting, InTerm
    PROVE  LET f == [Head(stack) EXCEPT !.at = @ + 1]
           IN  f.term = TopTerm /\ f.at = TopAt + 1 /\ f.fun = Head(stack).fun
<1>1. Head(stack) \in Calls(heap)
    BY TopFits
<1> QED  BY <1>1 DEF Calls, TopTerm, TopAt

\* Nothing is said of the parts one by one.
LEMMA NoPartRule ==
    ASSUME TypeSetting, InTerm, Kind(TopTerm) \in {"structure", "return", "binary", "assignment"},
           NEW h, NEW c, NEW y
    PROVE  PartlyIn(h, c, y, [Head(stack) EXCEPT !.at = @ + 1])
BY TakenFrame DEF PartlyIn

\* What has been said of the parts, of the types that are there then.
LEMMA PartsHold ==
    ASSUME TypeSetting, InTerm, PartlyHolds, Grows
    PROVE  PartlyIn(heap', constraint', typed, Head(stack))
<1>1. program \in Programs /\ Walk /\ TyperOK
    BY DEF TypeSetting
<1>2. TopTerm \in TermAt /\ TopAt \in 0 .. Len(Parts(TopTerm)) /\ Len(Parts(TopTerm)) \in Nat
      /\ \A i \in 1 .. TopAt : Parts(TopTerm)[i] \in Done
    BY <1>1, InTermFacts, TermFacts
<1> PICK f : f = Head(stack)
    OBVIOUS
<1>3. f.term \in TermAt /\ f.at \in Nat /\ \A i \in 1 .. f.at : Parts(f.term)[i] \in TermAt
    BY <1>2 DEF TopTerm, TopAt, Done
<1>4. Moves(heap, heap', constraint, constraint', typed, typed)
    BY <1>1, GrowsMoves
<1>5. PartlyIn(heap, constraint, typed, f)
    BY DEF PartlyHolds
<1> QED  BY <1>1, <1>3, <1>4, <1>5, PartlyKept

LEMMA UnitFacts ==
    /\ T!boolType \in Type /\ T!boolType.parts = <<>> /\ T!boolType.kind = "bool"
    /\ T!unitType \in Type /\ T!unitType.parts = <<>> /\ T!unitType.kind = "struct"
BY SimpleFacts DEF T!boolType, T!unitType, T!Simple

LEMMA LiteralRules ==
    ASSUME TypeSetting
    PROVE  /\ T!TypeLiteral => RuleStep
           /\ T!TypeKnownVar => RuleStep
           /\ T!TypeNewVar => RuleStep
           /\ T!TypeJump => RuleStep
<1>0. Good(heap) /\ Later(heap, heap) /\ program \in Programs /\ Walk /\ TyperOK
    BY LaterItself DEF TypeSetting, TyperOK
<1>1. ASSUME T!TypeLiteral PROVE RuleStep
    <2>1. T!Complete({"constant", "boolean"}) /\ T!Return(heap, T!This.notes[1]) /\ T!Rest
        BY <1>1 DEF T!TypeLiteral
    <2>2. InTerm /\ TopTerm \in TermAt /\ Kind(TopTerm) \in {"constant", "boolean"}
        BY <1>0, <2>1, KidsTyped
    <2>3. program.terms[TopTerm].notes[1] \in DOMAIN program.types
        <3>1. Len(program.terms[TopTerm].notes) = 1 /\ program.terms[TopTerm].notes[1] # NULL
            BY <1>0, <2>2, ShapeFacts
        <3> QED  BY <1>0, <2>2, <3>1, NoteFacts
    <2>4. T!This.notes[1] \in Nodes(heap)
        BY <1>0, <2>3, ThisFacts DEF TyperOK, Noted
    <2>5. RuleIn(heap, constraint, typed', TopTerm)
        BY <2>2, NoRule
    <2> QED  BY <1>0, <2>1, <2>2, <2>4, <2>5, ReturnRestRule
<1>2. ASSUME NEW t \in TermAt, Kind(t) = "var" PROVE Names(t)[1] \in Idents
    <2>1. Len(Names(t)) = 1 /\ \A i \in 1 .. Len(Names(t)) : Names(t)[i] # NULL
        BY <1>0, <1>2, ShapeFacts
    <2> QED  BY <1>0, <2>1, TermNameFacts
<1>3. ASSUME T!TypeKnownVar PROVE RuleStep
    <2>1. T!Complete({"var"}) /\ constraint[Names(TopTerm)[1]] # NULL
          /\ T!Return(heap, constraint[Names(TopTerm)[1]]) /\ T!Rest
        BY <1>3, ThisFacts DEF T!TypeKnownVar
    <2>2. InTerm /\ TopTerm \in TermAt /\ Kind(TopTerm) = "var"
        BY <1>0, <2>1, KidsTyped
    <2>3. constraint[Names(TopTerm)[1]] \in Nodes(heap)
        BY <1>0, <1>2, <2>1, <2>2 DEF TyperOK, Types
    <2>4. Equals(heap, typed'[TopTerm], constraint[Names(TopTerm)[1]])
        BY <1>0, <2>1, <2>2, <2>3, Returning
    <2>5. RuleIn(heap, constraint, typed', TopTerm)
        BY <2>2, <2>4 DEF RuleIn, VarIn
    <2> QED  BY <1>0, <2>1, <2>2, <2>3, <2>5, ReturnRestRule
<1>4. ASSUME T!TypeNewVar PROVE RuleStep
    <2> PICK name, g, x : name = Names(TopTerm)[1] /\ g = T!newType(heap, T!Simple("var"))
                          /\ x = T!Fresh(heap)
        OBVIOUS
    <2>1. /\ T!Complete({"var"}) /\ constraint[name] = NULL
          /\ constraint' = [constraint EXCEPT ![name] = x]
          /\ T!Return(g, x) /\ currentReturnType' = currentReturnType /\ ignored' = ignored
        BY <1>4, ThisFacts DEF T!TypeNewVar, T!ReturnNew
    <2>2. InTerm /\ TopTerm \in TermAt /\ Kind(TopTerm) = "var"
        BY <1>0, <2>1, KidsTyped
    <2>3. name \in Idents
        BY <1>2, <2>2
    <2>4. Later(heap, g) /\ x \in Nodes(g)
        BY <1>0, SimpleFacts, NewTypeLater
    <2>5. Types(g, constraint) /\ Good(g)
        BY <1>0, <2>4, LaterNodes, TypesKeep DEF TyperOK, StepsTo
    <2> PICK c : c = constraint'
        OBVIOUS
    <2>6. Types(g, c) /\ c[name] = x
        BY <2>1, <2>3, <2>4, <2>5 DEF Types
    <2>7. Holds(constraint, c)
        BY <1>0, <2>1 DEF Holds, TyperOK, Types
    <2>8. Equals(g, typed'[TopTerm], c[name])
        BY <1>0, <2>1, <2>2, <2>4, <2>5, <2>6, Returning
    <2>9. RuleIn(g, c, typed', TopTerm)
        BY <2>2, <2>8 DEF RuleIn, VarIn
    <2>10. ignored' \in BOOLEAN /\ (ignored => ignored')
        BY <1>0, <2>1 DEF TyperOK
    <2> QED  BY <2>1, <2>2, <2>4, <2>6, <2>7, <2>9, <2>10, ReturnRule
<1>5. ASSUME T!TypeJump PROVE RuleStep
    <2>1. T!Complete({"break", "continue"}) /\ T!ReturnNew(heap, T!unitType) /\ T!Rest
        BY <1>5 DEF T!TypeJump
    <2>2. InTerm /\ Kind(TopTerm) \in {"break", "continue"}
        BY <1>0, <2>1, KidsTyped
    <2>3. \A g : RuleIn(g, constraint, typed', TopTerm)
        BY <2>2, NoRule
    <2>4. T!unitType \in Type /\ T!unitType.parts = <<>> /\ T!unitType.kind = "struct"
        BY UnitFacts
    <2> QED  BY <1>0, <2>1, <2>2, <2>3, <2>4, ReturnNewRule
<1> QED  BY <1>1, <1>3, <1>4, <1>5

\* The callee has the type of a function, with as many parameters.
LEMMA CalleeIs ==
    ASSUME TypeSetting, InTerm, Kind(TopTerm) = "application", TopAt > 0
    PROVE  /\ T!Callee = heap.type[typed[Parts(TopTerm)[1]]]
           /\ Parts(TopTerm)[1] \in TermAt /\ typed[Parts(TopTerm)[1]] \in Nodes(heap)
           /\ PartlyHolds => ArgumentsIn(heap, typed, TopTerm, TopAt)
<1>1. /\ T!Callee = heap.type[T!KidType(1)] /\ T!KidType(1) \in Nodes(heap)
      /\ T!KidType(1) = typed[Parts(TopTerm)[1]]
    BY CalleeFits, ThisFacts
<1>2. Parts(TopTerm)[1] \in TermAt
    BY InTermFacts, TopFits DEF Done, TypeSetting
<1>3. PartlyHolds => ArgumentsIn(heap, typed, TopTerm, TopAt)
    BY DEF PartlyHolds, PartlyIn, TopTerm, TopAt
<1> QED  BY <1>1, <1>2, <1>3

LEMMA ApplicationRules ==
    ASSUME TypeSetting
    PROVE  /\ T!TakeCallee => RuleStep
           /\ T!TakeArgument => RuleStep
           /\ T!TypeApplication => RuleStep
<1>0. Good(heap) /\ Later(heap, heap) /\ program \in Programs /\ Walk /\ TyperOK
    BY LaterItself DEF TypeSetting, TyperOK
<1> PICK f : f = [Head(stack) EXCEPT !.at = @ + 1]
    OBVIOUS
<1>1. ASSUME T!TakeCallee, ~T!Fatal PROVE RuleStep
    <2>1. /\ T!Returned({"application"}) /\ T!Top.at = 0
          /\ T!Callee.kind = "fun" /\ Len(T!Callee.parts) = Len(T!This.kids)
          /\ T!Took /\ UNCHANGED <<heap, constraint, ignored>>
        BY <1>1 DEF T!TakeCallee, T!Require
    <2>2. InTerm /\ Kind(TopTerm) = "application" /\ PartTyped
        BY <2>1, ReturnedFacts
    <2>3. TopAt = 0 /\ NextPart = Parts(TopTerm)[1]
        BY <2>1, ThisFacts DEF NextPart
    <2>4. T!Callee = heap.type[typed[NextPart]] /\ typed[NextPart] \in Nodes(heap)
        BY <1>0, <2>2, <2>3, ThisFacts, NextTyped DEF T!Callee
    <2>5. Len(heap.type[typed[NextPart]].parts) = Len(Parts(TopTerm))
        BY <2>1, <2>4, ThisFacts
    <2>6. ArgumentsIn(heap, typed, TopTerm, 1)
        BY <2>1, <2>3, <2>4, <2>5 DEF ArgumentsIn
    <2>7. PartlyIn(heap, constraint, typed, f)
        BY <2>2, <2>3, <2>6, TakenFrame DEF PartlyIn
    <2>8. Grows
        BY <1>0, <2>1, GrowsOnly
    <2> QED  BY <2>1, <2>2, <2>5, <2>7, <2>8, TakeRule
<1>2. ASSUME T!TakeArgument, ~T!Fatal PROVE RuleStep
    <2> PICK callee : callee = typed[Parts(TopTerm)[1]]
        OBVIOUS
    <2>1. T!Returned({"application"}) /\ TopAt > 0
        BY <1>2, ThisFacts DEF T!TakeArgument
    <2>2. InTerm /\ Kind(TopTerm) = "application" /\ PartTyped
        BY <2>1, ReturnedFacts
    <2>3. /\ T!Callee = heap.type[callee] /\ callee \in Nodes(heap)
          /\ PartlyHolds => ArgumentsIn(heap, typed, TopTerm, TopAt)
          /\ Len(T!Callee.parts) = Len(Parts(TopTerm))
        BY <2>1, <2>2, CalleeIs, CalleeFits
    <2>4. TopAt \in 1 .. Len(T!Callee.parts) /\ TopAt \in Nat \ {0}
        BY <2>1, <2>2, <2>3, TopFits DEF PartTyped
    <2> PICK param : param = T!Callee.parts[TopAt].type
        OBVIOUS
    <2>5. param \in Nodes(heap)
        BY <1>0, <2>3, <2>4, PartsTyped
    <2>6. typed[T!Kid] \in Nodes(heap) /\ T!Kid = NextPart
        BY <1>0, <2>2, NextTyped
    <2> PICK answer : answer = T!constrainTypes(heap, typed[T!Kid], param)
        OBVIOUS
    <2>7. Later(heap, answer.heap) /\ (answer.ok => EqualUnder(answer.heap, typed[T!Kid], param))
        BY <1>0, <2>5, <2>6, ConstrainTypesEqual
    <2>8. T!Took /\ heap' = answer.heap /\ answer.ok /\ UNCHANGED <<constraint, ignored>>
        BY <1>2, ThisFacts DEF T!TakeArgument, T!Require
    <2>9. Grows
        BY <1>0, <2>7, <2>8, GrowsOnly
    <2>10. ASSUME PartlyHolds PROVE PartlyIn(heap', constraint', typed, f)
        <3>1. PartlyIn(heap', constraint', typed, Head(stack))
            BY <2>2, <2>9, <2>10, PartsHold
        <3>2. ArgumentsIn(heap', typed, TopTerm, TopAt)
            BY <2>1, <2>2, <3>1 DEF PartlyIn, TopTerm, TopAt
        <3>3. Equals(heap', typed[Parts(TopTerm)[TopAt + 1]], param)
            BY <2>5, <2>6, <2>7, <2>8, LaterNodes DEF Equals, NextPart
        <3>4. heap'.type[callee].parts[TopAt].type = param
            <4>1. Later(heap, heap')
                BY <2>7, <2>8
            <4>2. heap'.type[callee] = heap.type[callee]
                BY ONLY <2>3, <4>1, LaterNodes
            <4> QED  BY <2>3, <4>2
        <3>5. ASSUME NEW i \in 2 .. TopAt + 1
              PROVE  Equals(heap', typed[Parts(TopTerm)[i]], heap'.type[callee].parts[i - 1].type)
            <4>1. CASE i = TopAt + 1
                BY <2>4, <3>3, <3>4, <4>1
            <4>2. CASE i # TopAt + 1
                <5>1. i \in 2 .. TopAt
                    BY <2>4, <4>2
                <5> QED  BY <3>2, <5>1 DEF ArgumentsIn
            <4> QED  BY <4>1, <4>2
        <3>6. ArgumentsIn(heap', typed, TopTerm, TopAt + 1)
            BY <3>2, <3>5 DEF ArgumentsIn
        <3> QED  BY <2>2, <3>6, TakenFrame DEF PartlyIn
    <2> QED  BY <2>1, <2>2, <2>8, <2>9, <2>10, TakeRule
<1>3. ASSUME T!TypeApplication PROVE RuleStep
    <2>1. /\ T!Complete({"application"})
          /\ T!Return(heap, T!LastType(T!Callee.parts)) /\ T!Rest
        BY <1>3 DEF T!TypeApplication
    <2>2. InTerm /\ TopTerm \in TermAt /\ Kind(TopTerm) = "application" /\ TopAt = Len(Parts(TopTerm))
        BY <1>0, <2>1, KidsTyped
    <2>3. TopAt > 0 /\ \A i \in 1 .. Len(Parts(TopTerm)) : Parts(TopTerm)[i] \in Done
        BY <1>0, <2>2, TermFacts, InTermFacts
    <2> PICK callee : callee = typed[Parts(TopTerm)[1]]
        OBVIOUS
    <2>4. /\ T!Callee = heap.type[callee] /\ callee \in Nodes(heap)
          /\ PartlyHolds => ArgumentsIn(heap, typed, TopTerm, TopAt)
          /\ Len(T!Callee.parts) = Len(Parts(TopTerm))
        BY <2>2, <2>3, CalleeIs, CalleeFits
    <2>5. T!Callee.parts # <<>>
        BY <2>2, <2>3, <2>4
    <2> PICK result : result = T!LastType(T!Callee.parts)
        OBVIOUS
    <2>6. result \in Nodes(heap) /\ result = LastType(heap.type[callee].parts)
        BY <1>0, <2>4, <2>5, PartsTyped DEF T!LastType, LastType
    <2>7. Equals(heap, typed'[TopTerm], result) /\ \A i \in 1 .. Len(Parts(TopTerm)) :
            Parts(TopTerm)[i] # NULL => typed'[Parts(TopTerm)[i]] = typed[Parts(TopTerm)[i]]
        BY <1>0, <2>1, <2>2, <2>6, Returning
    <2>8. \A i \in 1 .. TopAt : typed'[Parts(TopTerm)[i]] = typed[Parts(TopTerm)[i]]
        BY <1>0, <2>2, <2>3, <2>7, ProgramFacts, BackendAssumption DEF Done
    <2>9. TopAt \in Nat \ {0}
        BY <2>2, <2>3, TopFits
    <2>10. ASSUME PartlyHolds PROVE RuleIn(heap, constraint, typed', TopTerm)
        <3>1. ArgumentsIn(heap, typed, TopTerm, TopAt)
            BY <2>4, <2>10
        <3>2. typed'[Parts(TopTerm)[1]] = callee
            BY <2>8, <2>9
        <3>3. \A i \in 2 .. TopAt : typed'[Parts(TopTerm)[i]] = typed[Parts(TopTerm)[i]]
            BY <2>8, <2>9
        <3>4. ArgumentsIn(heap, typed', TopTerm, TopAt)
            BY <3>1, <3>2, <3>3 DEF ArgumentsIn
        <3>5. ApplicationIn(heap, typed', TopTerm)
            BY <2>2, <2>6, <2>7, <3>2, <3>4 DEF ApplicationIn
        <3> QED  BY <2>2, <3>5 DEF RuleIn
    <2> QED  BY <1>0, <2>1, <2>2, <2>6, <2>10, ReturnRestRule
<1>4. T!Fatal => RuleStep
    BY FatalRule
<1> QED  BY <1>1, <1>2, <1>3, <1>4

LEMMA StructureRule ==
    ASSUME TypeSetting, T!TypeStructure
    PROVE  RuleStep
<1>0. Good(heap) /\ Later(heap, heap) /\ program \in Programs /\ Walk /\ TyperOK
    BY LaterItself DEF TypeSetting, TyperOK
<1> DEFINE part(i) == [name |-> Names(TopTerm)[i].text, type |-> T!KidType(i)]
<1> PICK parts : parts = [i \in DOMAIN Parts(TopTerm) |-> part(i)]
    OBVIOUS
<1>1. /\ T!Complete({"structure"})
      /\ T!ReturnNew(heap, [kind |-> program.terms[TopTerm].op, parts |-> parts]) /\ T!Rest
    BY ThisFacts DEF T!TypeStructure
<1>2. /\ InTerm /\ TopTerm \in TermAt /\ Kind(TopTerm) = "structure"
      /\ Len(Parts(TopTerm)) \in Nat
      /\ \A i \in 1 .. Len(Parts(TopTerm)) : T!KidType(i) \in Nodes(heap)
    BY <1>0, <1>1, KidsTyped
<1>3. /\ program.terms[TopTerm].op \in Structs /\ Len(Parts(TopTerm)) = Len(Names(TopTerm))
      /\ \A i \in 1 .. Len(Names(TopTerm)) : Names(TopTerm)[i] # NULL
    BY <1>0, <1>2, ShapeFacts
<1>4. DOMAIN Parts(TopTerm) = 1 .. Len(Parts(TopTerm))
    BY <1>0, <1>2, TermFacts
<1>5. ASSUME NEW i \in 1 .. Len(Parts(TopTerm)) PROVE part(i) \in [name : Text, type : Nat \ {0}]
    <2>1. Names(TopTerm)[i] \in identifier
        BY <1>0, <1>2, <1>3, NameFacts, NamesFacts
    <2>2. Names(TopTerm)[i].text \in Text
        BY <2>1 DEF identifier
    <2>3. T!KidType(i) \in Nat \ {0}
        BY <1>0, <1>2, NodesFacts
    <2> QED  BY <2>2, <2>3
<1> PICK n, P : n = Len(Parts(TopTerm)) /\ P = [name : Text, type : Nat \ {0}]
    OBVIOUS
<1>6. parts \in Seq(P)
    <2>1. \A i \in 1 .. n : part(i) \in P
        BY <1>5
    <2>2. parts = [i \in 1 .. n |-> part(i)] /\ n \in Nat
        BY <1>2, <1>4
    <2> HIDE DEF part
    <2>3. parts \in [1 .. n -> P]
        BY ONLY <2>1, <2>2
    <2> QED  BY ONLY <2>2, <2>3
<1> PICK type : type = [kind |-> program.terms[TopTerm].op, parts |-> parts]
    OBVIOUS
<1>7. type \in Type /\ type.parts = parts
    <2>1. program.terms[TopTerm].op \in Structs
        BY <1>3
    <2> QED  BY <1>6, <2>1, TypeMade
<1>8. \A i \in DOMAIN type.parts : type.parts[i].type \in Nodes(heap)
    BY <1>2, <1>4, <1>7
<1>9. T!ReturnNew(heap, type)
    BY <1>1
<1>10. \A g : RuleIn(g, constraint, typed', TopTerm)
    BY <1>2, NoRule
<1>11. type.kind # "var"
    BY <1>3 DEF Structs
<1> QED  BY <1>0, <1>1, <1>2, <1>7, <1>8, <1>9, <1>10, <1>11, ReturnNewRule

LEMMA BodyRules ==
    ASSUME TypeSetting
    PROVE  /\ T!TypeReturn => RuleStep
           /\ T!TypeFunction => RuleStep
<1>0. TypeSetting /\ Good(heap) /\ Later(heap, heap) /\ program \in Programs /\ Walk /\ TyperOK
    BY LaterItself DEF TypeSetting, TyperOK
<1>1. ASSUME T!TypeReturn, ~T!Fatal PROVE RuleStep
    <2> PICK k, n : k = Parts(TopTerm)[1] /\ n = currentReturnType
        OBVIOUS
    <2> PICK answer : answer = T!constrainTypes(heap, T!KidType(1), n)
        OBVIOUS
    <2>1. /\ T!Complete({"return"}) /\ n # NULL /\ answer.ok
          /\ T!ReturnNew(answer.heap, T!unitType) /\ T!Rest
        BY <1>1 DEF T!TypeReturn, T!Require
    <2>2. /\ InTerm /\ TopTerm \in TermAt /\ Kind(TopTerm) = "return"
          /\ \A i \in 1 .. Len(Parts(TopTerm)) : T!KidType(i) \in Nodes(heap)
        BY <1>0, <2>1, KidsTyped
    <2>3. Len(Parts(TopTerm)) = 1
        BY <1>0, <2>2, TermFacts
    <2>4. T!KidType(1) \in Nodes(heap) /\ n \in Nodes(heap) /\ T!KidType(1) = typed[k]
        BY <1>0, <2>1, <2>2, <2>3, ThisFacts DEF TyperOK
    <2>5. Later(heap, answer.heap) /\ EqualUnder(answer.heap, typed[k], n)
        BY <1>0, <2>1, <2>4, ConstrainTypesEqual
    <2>6. Equals(answer.heap, typed[k], n) /\ Good(answer.heap)
        BY <2>4, <2>5, LaterNodes DEF Equals
    <2>7. \A g : Later(answer.heap, g) => Equals(g, typed[k], n)
        BY <2>6, EqualsLater
    <2>8. \A g : RuleIn(g, constraint, typed', TopTerm)
        BY <2>2, NoRule
    <2>9. \A i \in DOMAIN T!unitType.parts : T!unitType.parts[i].type \in Nodes(answer.heap)
        BY UnitFacts
    <2> QED  BY <2>1, <2>2, <2>5, <2>7, <2>8, <2>9, UnitFacts, ReturnNewRule
<1>2. ASSUME T!TypeFunction, ~T!Fatal PROVE RuleStep
    <2> PICK fun, k : fun = Head(stack).fun /\ k = Parts(TopTerm)[1]
        OBVIOUS
    <2>1. T!Returned({"function"}) /\ fun # NULL
        BY <1>2, ThisFacts DEF T!TypeFunction
    <2>2. InTerm /\ PartTyped /\ Kind(TopTerm) = "function" /\ TopTerm \in TermAt
        BY <1>0, <2>1, ReturnedFacts, InTermFacts
    <2>3. NextPart = k /\ Len(Parts(TopTerm)) = 1
        <3>1. Len(Parts(TopTerm)) = 1 /\ TopAt \in 0 .. Len(Parts(TopTerm))
            BY <1>0, <2>2, TermFacts, InTermFacts
        <3>2. TopAt = 0
            BY <2>2, <3>1 DEF PartTyped
        <3> QED  BY <3>1, <3>2 DEF NextPart
    <2>4. /\ FrameFits(Head(stack), heap, typed) /\ Head(stack) \in Calls(heap)
        BY <2>2, TopFits
    <2>5. fun \in Nodes(heap) /\ heap.type[fun].parts # <<>> /\ Head(stack).prev \in Nodes(heap) \cup {NULL}
        BY <2>1, <2>4 DEF FrameFits, Calls
    <2> PICK result : result = LastType(heap.type[fun].parts)
        OBVIOUS
    <2>6. /\ result \in Nodes(heap) /\ result = T!LastType(heap.type[fun].parts)
          /\ typed[k] \in Nodes(heap) /\ T!Kid = k /\ k \in TermAt
        BY <1>0, <2>2, <2>3, <2>5, PartsTyped, NextTyped DEF LastType, T!LastType
    <2> PICK answer : answer = T!constrainTypes(heap, typed[k], result)
        OBVIOUS
    <2> PICK h : h = answer.heap
        OBVIOUS
    <2>7. /\ currentReturnType' = Head(stack).prev
          /\ T!Return(h, fun) /\ answer.ok
          /\ constraint' = constraint /\ ignored' = ignored
        BY <1>2, <2>6, ThisFacts, Zenon DEF T!TypeFunction, T!Require
    <2>8. Later(heap, h) /\ EqualUnder(h, typed[k], result)
        BY <1>0, <2>6, <2>7, ConstrainTypesEqual
    <2>9. Good(h) /\ fun \in Nodes(h) /\ Nodes(heap) \subseteq Nodes(h) /\ h.type[fun] = heap.type[fun]
        BY ONLY <2>5, <2>8, LaterNodes
    <2>10. /\ heap' = h /\ stack' = Tail(stack) /\ h.is[fun] \in Nodes(h)
           /\ typed' = [typed EXCEPT ![TopTerm] = h.is[fun]] /\ typed'[TopTerm] = h.is[fun]
           /\ UNCHANGED <<program, declType, decl, status>>
        BY ONLY <1>0, <2>2, <2>7, <2>9, Returning
    <2>11. typed'[k] = typed[k]
        <3>1. \A i \in 1 .. Len(Parts(TopTerm)) :
                Parts(TopTerm)[i] # NULL => typed'[Parts(TopTerm)[i]] = typed[Parts(TopTerm)[i]]
            BY <2>2, <2>7, <2>9, Returning, Zenon
        <3>2. k # NULL
            BY <2>2, <2>3 DEF PartTyped
        <3> QED  BY <2>3, <3>1, <3>2
    <2>12. h.is[fun] = fun
        <3>1. heap.type[fun] \in Type
            BY <1>0, <2>5, TypedFacts DEF Good, HeapOK, Nodes
        <3>2. h.type[fun].kind # "var"
            BY <2>5, <2>9, <3>1, Zenon DEF Type
        <3> QED  BY <2>9, <3>2, Zenon DEF Good, HeapOK
    <2>13. Grows
        BY <1>0, <2>7, <2>8, <2>10, GrowsOnly, Zenon
    <2>14. ReturnsType
        <3>1. currentReturnType' \in Nodes(heap') \cup {NULL}
            BY <2>5, <2>7, <2>9, <2>10, Zenon
        <3> QED  BY <2>2, <2>10, <2>13, <3>1, Zenon DEF ReturnsType, Grows
    <2>15. ASSUME PartlyHolds PROVE RuleIn(heap', constraint', typed', TopTerm)
        <3>1. PartlyIn(heap', constraint', typed, Head(stack))
            BY <2>2, <2>13, <2>15, PartsHold
        <3>2. HeadIn(h, constraint', fun, TopTerm)
            BY <2>1, <2>2, <2>10, <3>1, Zenon DEF PartlyIn, TopTerm
        <3>3. Equals(h, typed'[k], LastType(h.type[fun].parts))
            BY <2>6, <2>8, <2>9, <2>11, Zenon DEF Equals
        <3>4. FunctionIn(h, constraint', typed', TopTerm)
            BY <2>10, <2>12, <3>2, <3>3, Zenon DEF FunctionIn
        <3> QED  BY <2>2, <2>10, <3>4, Zenon DEF RuleIn
    <2>16. ReturnsByRule
        BY <2>1, <2>2, <2>7, <2>10, <2>12, <2>13, <2>14, <2>15, Zenon DEF ReturnsByRule
    <2> QED  BY <2>16 DEF RuleStep
<1>3. T!Fatal => RuleStep
    BY FatalRule
<1> QED  BY <1>1, <1>2, <1>3

LEMMA OpsApart ==
    /\ "+" \notin Relational \cup Equality \cup Logical \cup Arithmetic \cup {"%"}
    /\ "%" \notin Relational \cup Equality \cup Logical \cup Arithmetic
    /\ Arithmetic \cap (Relational \cup Equality \cup Logical) = {}
    /\ Relational \cap (Equality \cup Logical) = {}
    /\ Equality \cap Logical = {}
BY DEF Relational, Equality, Logical, Arithmetic

\* The operands of a binary operator, and what making them equal does.
LEMMA Operands ==
    ASSUME TypeSetting, NEW ops, T!Operation(ops)
    PROVE  /\ InTerm /\ Kind(TopTerm) = "binary" /\ program.terms[TopTerm].op \in ops
           /\ T!KidType(1) = typed[Parts(TopTerm)[1]] /\ T!KidType(2) = typed[Parts(TopTerm)[2]]
           /\ typed[Parts(TopTerm)[1]] \in Nodes(heap) /\ typed[Parts(TopTerm)[2]] \in Nodes(heap)
           /\ \A h, n : Good(h) /\ n \in Nodes(h) /\ T!Return(h, n) =>
                /\ typed'[Parts(TopTerm)[1]] = typed[Parts(TopTerm)[1]]
                /\ typed'[Parts(TopTerm)[2]] = typed[Parts(TopTerm)[2]]
                /\ Equals(h, typed'[TopTerm], n)
           /\ Later(heap, T!Equated.heap)
           /\ T!Equated.ok =>
                Equals(T!Equated.heap, typed[Parts(TopTerm)[1]], typed[Parts(TopTerm)[2]])
<1>0. Good(heap) /\ program \in Programs /\ Walk /\ TyperOK
    BY DEF TypeSetting, TyperOK
<1>1. T!Complete({"binary"}) /\ program.terms[TopTerm].op \in ops
    BY ThisFacts DEF T!Operation
<1>2. /\ InTerm /\ TopTerm \in TermAt /\ Kind(TopTerm) = "binary" /\ TopAt = Len(Parts(TopTerm))
      /\ \A i \in 1 .. Len(Parts(TopTerm)) : T!KidType(i) \in Nodes(heap)
    BY <1>0, <1>1, KidsTyped
<1>3. Len(Parts(TopTerm)) = 2
    BY <1>0, <1>2, TermFacts
<1> PICK p, q : p = Parts(TopTerm)[1] /\ q = Parts(TopTerm)[2]
    OBVIOUS
<1>4. T!KidType(1) = typed[p] /\ T!KidType(2) = typed[q]
    BY ThisFacts
<1>5. typed[p] \in Nodes(heap) /\ typed[q] \in Nodes(heap)
    BY <1>2, <1>3, <1>4
<1>6. p # NULL /\ q # NULL
    <2>1. p \in TermAt /\ q \in TermAt
        BY <1>0, <1>2, <1>3, InTermFacts DEF Done
    <2> QED  BY <1>0, <2>1, ProgramFacts, BackendAssumption
<1>7. ASSUME NEW h, NEW n, Good(h), n \in Nodes(h), T!Return(h, n)
      PROVE  typed'[p] = typed[p] /\ typed'[q] = typed[q] /\ Equals(h, typed'[TopTerm], n)
    <2>1. /\ Equals(h, typed'[TopTerm], n)
          /\ \A i \in 1 .. Len(Parts(TopTerm)) :
                Parts(TopTerm)[i] # NULL => typed'[Parts(TopTerm)[i]] = typed[Parts(TopTerm)[i]]
        BY <1>2, <1>7, Returning
    <2> QED  BY <1>3, <1>6, <2>1
<1> PICK answer : answer = T!Equated
    OBVIOUS
<1>8. answer = T!constrainTypes(heap, typed[p], typed[q])
    BY <1>4 DEF T!Equated
<1>9. Later(heap, answer.heap) /\ (answer.ok => EqualUnder(answer.heap, typed[p], typed[q]))
    BY <1>0, <1>5, <1>8, ConstrainTypesEqual
<1>10. answer.ok => Equals(answer.heap, typed[p], typed[q])
    BY <1>5, <1>9, LaterNodes DEF Equals
<1> QED  BY <1>1, <1>2, <1>4, <1>5, <1>7, <1>9, <1>10

\* A type keeps the kind that it has, and equal types are of one kind.
LEMMA KindStays ==
    ASSUME NEW h, Good(h), NEW g, Later(h, g), NEW n, NEW kinds, "var" \notin kinds,
           KindIn(h, n, kinds)
    PROVE  KindIn(g, n, kinds)
<1>1. n \in Nodes(h)
    BY DEF KindIn
<1>2. n \in Nodes(g)
    BY <1>1, LaterNodes
<1> QED  BY <1>2, KindKept

LEMMA KindOfEqual ==
    ASSUME NEW h, Good(h), NEW a, NEW b, Equals(h, a, b), NEW kinds
    PROVE  KindIn(h, a, kinds) <=> KindIn(h, b, kinds)
<1>1. a \in Nodes(h) /\ b \in Nodes(h) /\ EqualUnder(h, a, b)
    BY DEF Equals
<1>2. As(h, a).kind = As(h, b).kind
    BY <1>1, EqualIsSameKind DEF As, Good
<1> QED  BY <1>1, <1>2 DEF KindIn

LEMMA OperationRule ==
    ASSUME TypeSetting, NEW ops, T!Operation(ops), NEW h, Later(heap, h), NEW n \in Nodes(h),
           T!Return(h, n), T!Rest, BinaryIn(h, typed', TopTerm)
    PROVE  RuleStep
<1>1. InTerm /\ Kind(TopTerm) = "binary"
    BY Operands
<1>2. RuleIn(h, constraint, typed', TopTerm)
    BY <1>1 DEF RuleIn
<1> QED  BY <1>1, <1>2, ReturnRestRule

\* A comparison.
LEMMA ComparisonRule ==
    ASSUME TypeSetting, NEW ops, T!Operation(ops), ops \subseteq Relational \cup Equality,
           NEW h, Later(heap, h), T!ReturnNew(h, T!boolType), T!Rest,
           Equals(h, typed[Parts(TopTerm)[1]], typed[Parts(TopTerm)[2]]),
           ops \subseteq Relational => OperandsIn(h, typed, TopTerm, Numeric),
           ops \subseteq Equality \/ ops \subseteq Relational
    PROVE  RuleStep
<1>1. InTerm /\ Kind(TopTerm) = "binary" /\ program.terms[TopTerm].op \in ops
    BY Operands
<1> PICK op, p, q : op = program.terms[TopTerm].op /\ p = Parts(TopTerm)[1] /\ q = Parts(TopTerm)[2]
    OBVIOUS
<1>2. typed'[p] = typed[p] /\ typed'[q] = typed[q]
    <2> PICK g, x : g = T!newType(h, T!boolType) /\ x = T!Fresh(h)
        OBVIOUS
    <2>1. Later(h, g) /\ x \in Nodes(g)
        BY LaterNodes, UnitFacts, NewTypeLater
    <2>2. T!Return(g, x) /\ Good(g)
        BY <2>1, LaterNodes DEF T!ReturnNew
    <2> QED  BY <2>1, <2>2, Operands
<1>3. op \in Relational \cup Equality /\ op \notin Arithmetic \cup Logical \cup {"%", "+"}
    BY <1>1, OpsApart
<1>4. op \in Relational => OperandsIn(h, typed, TopTerm, Numeric)
    BY <1>1, OpsApart
<1>5. ASSUME NEW g, Later(h, g), typed'[TopTerm] \in Nodes(g), As(g, typed'[TopTerm]) = T!boolType
      PROVE  RuleIn(g, constraint, typed', TopTerm)
    <2>1. Equals(g, typed'[p], typed'[q])
        BY <1>2, <1>5, LaterNodes, EqualsLater
    <2>2. KindIn(g, typed'[TopTerm], {"bool"})
        BY <1>5, UnitFacts DEF KindIn
    <2>3. op \in Relational => OperandsIn(g, typed', TopTerm, Numeric)
        <3> SUFFICES ASSUME op \in Relational PROVE OperandsIn(g, typed', TopTerm, Numeric)
            OBVIOUS
        <3>1. KindIn(h, typed[p], Numeric) /\ KindIn(h, typed[q], Numeric)
            BY <1>4 DEF OperandsIn
        <3>2. KindIn(g, typed[p], Numeric) /\ KindIn(g, typed[q], Numeric)
            BY <1>5, <3>1, LaterNodes, KindsWithoutVar, KindStays
        <3> QED  BY <1>2, <3>2 DEF OperandsIn
    <2>4. BinaryIn(g, typed', TopTerm)
        BY <1>3, <2>1, <2>2, <2>3 DEF BinaryIn
    <2> QED  BY <1>1, <2>4 DEF RuleIn
<1>6. \A i \in DOMAIN T!boolType.parts : T!boolType.parts[i].type \in Nodes(h)
    BY UnitFacts
<1> QED  BY <1>1, <1>5, <1>6, UnitFacts, ReturnNewRule

\* The operators and kinds of the type checker's instance are those of the terms.
LEMMA SameSets ==
    /\ T!Arithmetic = Arithmetic /\ T!Relational = Relational
    /\ T!Logical = Logical /\ T!Equality = Equality
    /\ T!Integral = Integral /\ T!Numeric = Numeric
<1>1. T!Integral = Integral
    BY DEF T!Integral, Integral
<1>2. T!Numeric = Numeric
    BY <1>1 DEF T!Numeric, Numeric
<1>3. T!Arithmetic = Arithmetic
    BY DEF T!Arithmetic, Arithmetic
<1>4. T!Relational = Relational
    BY DEF T!Relational, Relational
<1>5. T!Logical = Logical
    BY DEF T!Logical, Logical
<1>6. T!Equality = Equality
    BY DEF T!Equality, Equality
<1> QED  BY <1>1, <1>2, <1>3, <1>4, <1>5, <1>6

LEMMA OperatorRules ==
    ASSUME TypeSetting
    PROVE  /\ T!TypeAddition => RuleStep
           /\ T!TypeArithmetic => RuleStep
           /\ T!TypeRelation => RuleStep
           /\ T!TypeRemainder => RuleStep
           /\ T!TypeLogical => RuleStep
           /\ T!TypeEquality => RuleStep
<1>0. Good(heap) /\ Later(heap, heap)
    BY LaterItself DEF TypeSetting, TyperOK
<1> PICK op, a, b : /\ op = program.terms[TopTerm].op
                    /\ a = typed[Parts(TopTerm)[1]] /\ b = typed[Parts(TopTerm)[2]]
    OBVIOUS
<1> PICK answer : answer = T!Equated
    OBVIOUS
<1>1. ASSUME NEW ops, T!Operation(ops)
      PROVE  /\ op \in ops /\ a \in Nodes(heap) /\ b \in Nodes(heap)
             /\ T!KidType(1) = a /\ T!KidType(2) = b
             /\ \A h, n : Good(h) /\ n \in Nodes(h) /\ T!Return(h, n) =>
                    /\ typed'[Parts(TopTerm)[1]] = a /\ typed'[Parts(TopTerm)[2]] = b
                    /\ Equals(h, typed'[TopTerm], n)
             /\ Later(heap, answer.heap) /\ Good(answer.heap) /\ a \in Nodes(answer.heap)
             /\ answer.ok => Equals(answer.heap, a, b)
    <2>1. /\ op \in ops /\ a \in Nodes(heap) /\ b \in Nodes(heap)
          /\ T!KidType(1) = a /\ T!KidType(2) = b
          /\ \A h, n : Good(h) /\ n \in Nodes(h) /\ T!Return(h, n) =>
                /\ typed'[Parts(TopTerm)[1]] = a /\ typed'[Parts(TopTerm)[2]] = b
                /\ Equals(h, typed'[TopTerm], n)
          /\ Later(heap, answer.heap)
          /\ answer.ok => Equals(answer.heap, a, b)
        BY <1>1, Operands
    <2> QED  BY <2>1, LaterNodes
<1>2. ASSUME NEW ops, T!Operation(ops)
      PROVE  /\ T!Left.kind = As(heap, a).kind /\ T!Right.kind = As(heap, b).kind
             /\ T!Resolved(answer.heap, T!KidType(1)).kind = As(answer.heap, a).kind
    <2>1. T!KidType(1) = a /\ T!KidType(2) = b
        BY <1>1, <1>2
    <2> QED  BY <2>1 DEF T!Left, T!Right, T!KidIs, T!Resolved, As
<1>3. T!Fatal => RuleStep
    BY FatalRule
<1>4. T!TypeAddition => RuleStep
    <2> SUFFICES ASSUME T!TypeAddition, ~T!Fatal PROVE RuleStep
        BY <1>3
    <2>1. T!Operation({"+"})
        BY DEF T!TypeAddition
    <2>2. op = "+" /\ op \notin Relational \cup Equality \cup Logical \cup Arithmetic \cup {"%"}
        BY <1>1, <2>1, OpsApart
    <2>3. \/ answer.ok /\ T!Return(answer.heap, a) /\ T!Rest
          \/ As(heap, a).kind = "pointer" /\ T!Return(heap, a) /\ T!Rest
          \/ As(heap, b).kind = "pointer" /\ T!Return(heap, b) /\ T!Rest
        <3>1. /\ T!Left.kind = As(heap, a).kind /\ T!Right.kind = As(heap, b).kind
              /\ T!KidType(1) = a /\ T!KidType(2) = b
            BY <1>1, <1>2, <2>1
        <3> QED  BY <3>1 DEF T!TypeAddition, T!Require
    <2>4. CASE answer.ok /\ T!Return(answer.heap, a) /\ T!Rest
        <3>1. Equals(answer.heap, typed'[Parts(TopTerm)[1]], typed'[Parts(TopTerm)[2]])
            BY <1>1, <2>1, <2>4
        <3>2. BinaryIn(answer.heap, typed', TopTerm)
            BY <2>2, <3>1 DEF BinaryIn
        <3> QED  BY <1>1, <2>1, <2>4, <3>2, OperationRule
    <2>5. ASSUME NEW n \in {a, b}, As(heap, n).kind = "pointer", T!Return(heap, n), T!Rest
          PROVE  RuleStep
        <3>1. n \in Nodes(heap)
            BY <1>1, <2>1
        <3>2. typed'[Parts(TopTerm)[1]] = a /\ typed'[Parts(TopTerm)[2]] = b
            BY <1>0, <1>1, <2>1, <2>5, <3>1
        <3>3. KindIn(heap, n, {"pointer"})
            BY <2>5, <3>1 DEF KindIn
        <3>4. KindIn(heap, typed'[Parts(TopTerm)[1]], {"pointer"})
                \/ KindIn(heap, typed'[Parts(TopTerm)[2]], {"pointer"})
            BY <3>2, <3>3
        <3>5. BinaryIn(heap, typed', TopTerm)
            BY <2>2, <3>4 DEF BinaryIn
        <3> QED  BY <1>0, <2>1, <2>5, <3>1, <3>5, OperationRule
    <2> QED  BY <2>3, <2>4, <2>5
<1>5. T!TypeArithmetic => RuleStep
    <2> SUFFICES ASSUME T!TypeArithmetic, ~T!Fatal PROVE RuleStep
        BY <1>3
    <2>1. T!Operation(Arithmetic)
        BY SameSets DEF T!TypeArithmetic
    <2>2. op \in Arithmetic /\ op \notin Relational \cup Equality \cup Logical \cup {"%", "+"}
        BY <1>1, <2>1, OpsApart
    <2>3. answer.ok /\ As(answer.heap, a).kind \in Numeric /\ T!Return(answer.heap, a) /\ T!Rest
        <3>1. T!KidType(1) = a /\ T!Resolved(answer.heap, T!KidType(1)).kind = As(answer.heap, a).kind
            BY <1>1, <1>2, <2>1
        <3> QED  BY <3>1, SameSets DEF T!TypeArithmetic, T!Require
    <2>4. /\ Equals(answer.heap, a, b) /\ Equals(answer.heap, typed'[TopTerm], a)
          /\ typed'[Parts(TopTerm)[1]] = a /\ typed'[Parts(TopTerm)[2]] = b
        BY <1>1, <2>1, <2>3
    <2>5. KindIn(answer.heap, a, Numeric)
        BY <1>1, <2>1, <2>3 DEF KindIn
    <2>6. KindIn(answer.heap, b, Numeric)
        BY <1>1, <2>1, <2>4, <2>5, KindOfEqual
    <2>7. OperandsIn(answer.heap, typed', TopTerm, Numeric)
        BY <2>4, <2>5, <2>6 DEF OperandsIn
    <2>8. BinaryIn(answer.heap, typed', TopTerm)
        BY <2>2, <2>4, <2>7 DEF BinaryIn
    <2> QED  BY <1>1, <2>1, <2>3, <2>8, OperationRule
<1>6. T!TypeRelation => RuleStep
    <2> SUFFICES ASSUME T!TypeRelation, ~T!Fatal PROVE RuleStep
        BY <1>3
    <2>1. T!Operation(Relational)
        BY SameSets DEF T!TypeRelation
    <2>2. /\ As(heap, a).kind \in Numeric /\ As(heap, b).kind \in Numeric /\ answer.ok
          /\ T!ReturnNew(answer.heap, T!boolType) /\ T!Rest
        <3>1. T!Left.kind = As(heap, a).kind /\ T!Right.kind = As(heap, b).kind
            BY <1>2, <2>1
        <3> QED  BY <3>1, SameSets DEF T!TypeRelation, T!Require
    <2>3. KindIn(heap, a, Numeric) /\ KindIn(heap, b, Numeric)
        BY <1>1, <2>1, <2>2 DEF KindIn
    <2>4. KindIn(answer.heap, a, Numeric) /\ KindIn(answer.heap, b, Numeric)
        BY <1>0, <1>1, <2>1, <2>3, KindsWithoutVar, KindStays
    <2>5. OperandsIn(answer.heap, typed, TopTerm, Numeric)
        BY <2>4 DEF OperandsIn
    <2> QED  BY <1>1, <2>1, <2>2, <2>5, ComparisonRule
<1>7. T!TypeRemainder => RuleStep
    <2> SUFFICES ASSUME T!TypeRemainder, ~T!Fatal PROVE RuleStep
        BY <1>3
    <2>1. T!Operation({"%"})
        BY DEF T!TypeRemainder
    <2>2. op = "%" /\ op \notin Relational \cup Equality \cup Logical \cup Arithmetic
        BY <1>1, <2>1, OpsApart
    <2>3. /\ As(heap, a).kind \in Integral /\ As(heap, b).kind \in Integral /\ answer.ok
          /\ T!Return(answer.heap, a) /\ T!Rest
        <3>1. T!Left.kind = As(heap, a).kind /\ T!Right.kind = As(heap, b).kind /\ T!KidType(1) = a
            BY <1>1, <1>2, <2>1
        <3> QED  BY <3>1, SameSets DEF T!TypeRemainder, T!Require
    <2>4. KindIn(heap, a, Integral) /\ KindIn(heap, b, Integral)
        BY <1>1, <2>1, <2>3 DEF KindIn
    <2>5. KindIn(answer.heap, a, Integral) /\ KindIn(answer.heap, b, Integral)
        BY <1>0, <1>1, <2>1, <2>4, KindsWithoutVar, KindStays
    <2>6. /\ Equals(answer.heap, a, b) /\ Equals(answer.heap, typed'[TopTerm], a)
          /\ typed'[Parts(TopTerm)[1]] = a /\ typed'[Parts(TopTerm)[2]] = b
        BY <1>1, <2>1, <2>3
    <2>7. OperandsIn(answer.heap, typed', TopTerm, Integral)
        BY <2>5, <2>6 DEF OperandsIn
    <2>8. BinaryIn(answer.heap, typed', TopTerm)
        BY <2>2, <2>6, <2>7 DEF BinaryIn
    <2> QED  BY <1>1, <2>1, <2>3, <2>8, OperationRule
<1>8. T!TypeLogical => RuleStep
    <2> SUFFICES ASSUME T!TypeLogical, ~T!Fatal PROVE RuleStep
        BY <1>3
    <2>1. T!Operation(Logical)
        BY SameSets DEF T!TypeLogical
    <2>2. op \in Logical /\ op \notin Relational \cup Arithmetic \cup {"%"}
        BY <1>1, <2>1, OpsApart
    <2>3. As(heap, a).kind = "bool" /\ As(heap, b).kind = "bool" /\ T!Return(heap, a) /\ T!Rest
        <3>1. T!Left.kind = As(heap, a).kind /\ T!Right.kind = As(heap, b).kind /\ T!KidType(1) = a
            BY <1>1, <1>2, <2>1
        <3> QED  BY <3>1, SameSets DEF T!TypeLogical, T!Require
    <2>4. a \in Nodes(heap) /\ b \in Nodes(heap)
        BY <1>1, <2>1
    <2>5. Equals(heap, a, b)
        BY <1>0, <2>3, <2>4, SimpleEquals
    <2>6. /\ typed'[Parts(TopTerm)[1]] = a /\ typed'[Parts(TopTerm)[2]] = b
          /\ Equals(heap, typed'[TopTerm], a)
        BY <1>0, <1>1, <2>1, <2>3, <2>4
    <2>7. KindIn(heap, a, {"bool"}) /\ KindIn(heap, b, {"bool"})
        BY <2>3, <2>4 DEF KindIn
    <2>8. KindIn(heap, typed'[TopTerm], {"bool"})
        BY <1>0, <2>6, <2>7, KindOfEqual
    <2>9. OperandsIn(heap, typed', TopTerm, {"bool"})
        BY <2>6, <2>7 DEF OperandsIn
    <2>10. BinaryIn(heap, typed', TopTerm)
        BY <2>2, <2>5, <2>6, <2>8, <2>9 DEF BinaryIn
    <2> QED  BY <1>0, <2>1, <2>3, <2>4, <2>10, OperationRule
<1>9. T!TypeEquality => RuleStep
    <2> SUFFICES ASSUME T!TypeEquality, ~T!Fatal PROVE RuleStep
        BY <1>3
    <2>1. T!Operation(Equality)
        BY SameSets DEF T!TypeEquality
    <2>2. answer.ok /\ T!ReturnNew(answer.heap, T!boolType) /\ T!Rest
        BY DEF T!TypeEquality, T!Require
    <2>3. ~(Equality \subseteq Relational)
        BY DEF Equality, Relational
    <2> QED  BY <1>1, <2>1, <2>2, <2>3, ComparisonRule
<1> QED  BY <1>4, <1>5, <1>6, <1>7, <1>8, <1>9

\* What constrainTypeTo leaves is a bool, or a struct or union.
LEMMA SameKinds ==
    ASSUME NEW type
    PROVE  /\ T!SameKind(type, T!boolType) => type.kind \in {"bool"}
           /\ T!SameKind(type, T!unitType) => type.kind \in Structs
<1>1. T!boolType.kind = "bool" /\ T!unitType.kind = "struct"
    BY UnitFacts
<1> QED  BY <1>1 DEF T!SameKind, T!Structs, Structs

LEMMA ConditionalRules ==
    ASSUME TypeSetting
    PROVE  /\ T!TakeOperand => RuleStep
           /\ T!TakeCondition => RuleStep
           /\ T!TakeThen => RuleStep
           /\ T!TakeElse => RuleStep
           /\ T!TypeConditional => RuleStep
<1>0. TypeSetting /\ Good(heap) /\ Later(heap, heap) /\ program \in Programs /\ Walk /\ TyperOK
    BY LaterItself DEF TypeSetting, TyperOK
<1> PICK f : f = [Head(stack) EXCEPT !.at = @ + 1]
    OBVIOUS
<1>1. ASSUME T!TakeOperand PROVE RuleStep
    <2>1. T!Returned({"structure", "return", "binary", "assignment"})
          /\ T!Took /\ UNCHANGED <<heap, constraint, ignored>>
        BY <1>1 DEF T!TakeOperand
    <2>2. InTerm /\ Kind(TopTerm) \in {"structure", "return", "binary", "assignment"} /\ PartTyped
        BY <2>1, ReturnedFacts
    <2>3. Grows
        BY <1>0, <2>1, GrowsOnly
    <2>4. PartlyIn(heap', constraint', typed, f)
        BY <2>2, NoPartRule
    <2> QED  BY <2>1, <2>2, <2>3, <2>4, TakeRule
<1>2. ASSUME T!TakeThen PROVE RuleStep
    <2>1. /\ T!Returned({"conditional"}) /\ TopAt = 1
          /\ T!Took /\ UNCHANGED <<heap, constraint, ignored>>
        BY <1>2, ThisFacts DEF T!TakeThen
    <2>2. InTerm /\ Kind(TopTerm) = "conditional" /\ PartTyped
        BY <2>1, ReturnedFacts
    <2>3. Grows
        BY <1>0, <2>1, GrowsOnly
    <2>4. ASSUME PartlyHolds PROVE PartlyIn(heap', constraint', typed, f)
        <3>1. ConditionIn(heap, typed, TopTerm, 1)
            BY <2>1, <2>2, <2>4 DEF PartlyHolds, PartlyIn, TopTerm, TopAt
        <3>2. ConditionIn(heap', typed, TopTerm, 2)
            BY <2>1, <3>1 DEF ConditionIn
        <3> QED  BY <2>1, <2>2, <3>2, TakenFrame DEF PartlyIn
    <2> QED  BY <2>1, <2>2, <2>3, <2>4, TakeRule
<1>3. ASSUME T!TakeCondition, ~T!Fatal PROVE RuleStep
    <2> PICK answer : answer = T!constrainTypeTo(heap, typed[T!Kid], T!boolType)
        OBVIOUS
    <2>1. /\ T!Returned({"conditional"}) /\ TopAt = 0 /\ T!Took /\ heap' = answer.heap
          /\ answer.ok /\ UNCHANGED <<constraint, ignored>>
        BY <1>3, ThisFacts DEF T!TakeCondition, T!Require
    <2>2. InTerm /\ Kind(TopTerm) = "conditional" /\ PartTyped
        BY <2>1, ReturnedFacts
    <2>3. typed[T!Kid] \in Nodes(heap) /\ T!Kid = NextPart /\ NextPart = Parts(TopTerm)[1]
        BY <1>0, <2>1, <2>2, NextTyped DEF NextPart
    <2>4. Later(heap, answer.heap) /\ T!SameKind(As(answer.heap, typed[T!Kid]), T!boolType)
        BY <1>0, <2>1, <2>3, UnitFacts, ConstrainTypeToLater
    <2>5. Grows
        BY <1>0, <2>1, <2>4, GrowsOnly
    <2>6. typed[T!Kid] \in Nodes(answer.heap)
        BY <2>3, <2>4, LaterNodes
    <2>7. KindIn(answer.heap, typed[T!Kid], {"bool"})
        BY <2>4, <2>6, SameKinds DEF KindIn
    <2>8. ConditionIn(heap', typed, TopTerm, 1)
        BY <2>1, <2>3, <2>7 DEF ConditionIn
    <2>9. PartlyIn(heap', constraint', typed, f)
        BY <2>1, <2>2, <2>8, TakenFrame DEF PartlyIn
    <2> QED  BY <2>1, <2>2, <2>5, <2>9, TakeRule
<1>4. ASSUME T!TakeElse, ~T!Fatal PROVE RuleStep
    <2> PICK answer : answer = T!constrainTypes(heap, T!KidType(2), typed[T!Kid])
        OBVIOUS
    <2>1. /\ T!Returned({"conditional"}) /\ TopAt = 2 /\ T!Took /\ heap' = answer.heap
          /\ answer.ok /\ UNCHANGED <<constraint, ignored>>
        BY <1>4, ThisFacts DEF T!TakeElse, T!Require
    <2>2. InTerm /\ Kind(TopTerm) = "conditional" /\ PartTyped
        BY <2>1, ReturnedFacts
    <2>3. /\ T!KidType(2) \in Nodes(heap) /\ typed[T!Kid] \in Nodes(heap)
          /\ T!Kid = Parts(TopTerm)[3] /\ T!KidType(2) = typed[Parts(TopTerm)[2]]
        BY <1>0, <2>1, <2>2, KidTyped, NextTyped, ThisFacts DEF NextPart
    <2>4. Later(heap, answer.heap) /\ EqualUnder(answer.heap, T!KidType(2), typed[T!Kid])
        BY <1>0, <2>1, <2>3, ConstrainTypesEqual
    <2>5. Grows
        BY <1>0, <2>1, <2>4, GrowsOnly
    <2>6. Equals(answer.heap, typed[Parts(TopTerm)[2]], typed[Parts(TopTerm)[3]]) /\ Good(answer.heap)
        BY <2>3, <2>4, LaterNodes DEF Equals
    <2>7. Equals(heap', typed[Parts(TopTerm)[3]], typed[Parts(TopTerm)[2]])
        BY <2>1, <2>6, EqualsSymmetric
    <2>8. ASSUME PartlyHolds PROVE PartlyIn(heap', constraint', typed, f)
        <3>1. PartlyIn(heap', constraint', typed, Head(stack))
            BY <2>2, <2>5, <2>8, PartsHold
        <3>2. ConditionIn(heap', typed, TopTerm, 2)
            BY <2>1, <2>2, <3>1 DEF PartlyIn, TopTerm, TopAt
        <3>3. ConditionIn(heap', typed, TopTerm, 3)
            BY <2>7, <3>2 DEF ConditionIn
        <3> QED  BY <2>1, <2>2, <3>3, TakenFrame DEF PartlyIn
    <2> QED  BY <2>1, <2>2, <2>5, <2>8, TakeRule
<1>5. ASSUME T!TypeConditional PROVE RuleStep
    <2>1. T!Complete({"conditional"}) /\ T!Return(heap, T!KidType(2)) /\ T!Rest
        BY <1>5 DEF T!TypeConditional
    <2>2. /\ InTerm /\ TopTerm \in TermAt /\ Kind(TopTerm) = "conditional" /\ TopAt = Len(Parts(TopTerm))
          /\ \A i \in 1 .. Len(Parts(TopTerm)) : T!KidType(i) \in Nodes(heap)
        BY <1>0, <2>1, KidsTyped
    <2>3. Len(Parts(TopTerm)) \in 2 .. 3
        BY <1>0, <2>2, ShapeFacts
    <2>4. /\ T!KidType(2) \in Nodes(heap) /\ T!KidType(2) = typed[Parts(TopTerm)[2]]
          /\ Parts(TopTerm)[1] # NULL /\ Parts(TopTerm)[2] # NULL
          /\ Len(Parts(TopTerm)) = 3 => Parts(TopTerm)[3] # NULL
        <3>1. \A i \in 1 .. Len(Parts(TopTerm)) : Parts(TopTerm)[i] \in Done
            BY <1>0, <2>2, TermFacts, InTermFacts
        <3>2. \A i \in 1 .. Len(Parts(TopTerm)) : Parts(TopTerm)[i] # NULL
            BY <1>0, <3>1, ProgramFacts, BackendAssumption DEF Done
        <3> QED  BY <2>2, <2>3, <3>2, ThisFacts
    <2> PICK n, y : n = T!KidType(2) /\ y = typed'
        OBVIOUS
    <2>5. /\ Equals(heap, y[TopTerm], y[Parts(TopTerm)[2]])
          /\ y[Parts(TopTerm)[1]] = typed[Parts(TopTerm)[1]]
          /\ y[Parts(TopTerm)[2]] = typed[Parts(TopTerm)[2]]
          /\ Len(Parts(TopTerm)) = 3 => y[Parts(TopTerm)[3]] = typed[Parts(TopTerm)[3]]
        <3>1. TypeSetting /\ InTerm /\ Good(heap) /\ n \in Nodes(heap) /\ T!Return(heap, n)
            BY <1>0, <2>1, <2>2, <2>4 DEF T!Return
        <3>2. /\ Equals(heap, typed'[TopTerm], n)
              /\ \A i \in 1 .. Len(Parts(TopTerm)) :
                    Parts(TopTerm)[i] # NULL => typed'[Parts(TopTerm)[i]] = typed[Parts(TopTerm)[i]]
            BY ONLY <3>1, Returning
        <3>3. /\ 1 \in 1 .. Len(Parts(TopTerm)) /\ 2 \in 1 .. Len(Parts(TopTerm))
              /\ Len(Parts(TopTerm)) = 3 => 3 \in 1 .. Len(Parts(TopTerm))
            BY <2>3
        <3> QED  BY <2>4, <3>2, <3>3
    <2>6. ASSUME PartlyHolds PROVE RuleIn(heap, constraint, y, TopTerm)
        <3>1. ConditionIn(heap, typed, TopTerm, Len(Parts(TopTerm)))
            BY <2>2, <2>6 DEF PartlyHolds, PartlyIn, TopTerm, TopAt
        <3>2. ConditionIn(heap, y, TopTerm, Len(Parts(TopTerm)))
            BY <2>3, <2>5, <3>1 DEF ConditionIn
        <3>3. ConditionalIn(heap, y, TopTerm)
            BY <2>5, <3>2 DEF ConditionalIn
        <3> QED  BY <2>2, <3>3 DEF RuleIn
    <2>7. ~ignored /\ PartlyHolds => RuleIn(heap, constraint, typed', TopTerm)
        BY <2>6
    <2>8. n \in Nodes(heap) /\ T!Return(heap, n) /\ T!Rest
        BY <2>1, <2>4 DEF T!Return
    <2>9. InTerm /\ Kind(TopTerm) # "function" /\ Kind(TopTerm) # "return" /\ Later(heap, heap)
        BY <1>0, <2>2
    <2> QED  BY <1>0, <2>7, <2>8, <2>9, ReturnRestRule
<1>6. T!Fatal => RuleStep
    BY FatalRule
<1> QED  BY <1>1, <1>2, <1>3, <1>4, <1>5, <1>6

LEMMA AssignmentRule ==
    ASSUME TypeSetting, T!TypeAssignment
    PROVE  RuleStep
<1>0. TypeSetting /\ Good(heap) /\ Later(heap, heap) /\ program \in Programs /\ Walk /\ TyperOK
    BY LaterItself DEF TypeSetting, TyperOK
<1> PICK answer : answer = T!constrainTypes(heap, T!KidType(2), T!KidType(1))
    OBVIOUS
<1> PICK g, x : g = T!newType(answer.heap, T!unitType) /\ x = T!Fresh(answer.heap)
    OBVIOUS
<1> PICK a, b : a = Parts(TopTerm)[1] /\ b = Parts(TopTerm)[2]
    OBVIOUS
<1>1. /\ T!Complete({"assignment"}) /\ T!Return(g, x)
      /\ ignored' = (ignored \/ ~answer.ok)
      /\ constraint' = constraint /\ currentReturnType' = currentReturnType
    BY DEF T!TypeAssignment, T!ReturnNew
<1>2. /\ InTerm /\ TopTerm \in TermAt /\ Kind(TopTerm) = "assignment"
      /\ \A i \in 1 .. Len(Parts(TopTerm)) : T!KidType(i) \in Nodes(heap)
    BY <1>0, <1>1, KidsTyped
<1>3. Len(Parts(TopTerm)) = 2
    BY <1>0, <1>2, TermFacts
<1>4. /\ T!KidType(1) \in Nodes(heap) /\ T!KidType(2) \in Nodes(heap)
      /\ T!KidType(1) = typed[a] /\ T!KidType(2) = typed[b]
    BY <1>2, <1>3, ThisFacts
<1>5. /\ Later(heap, answer.heap) /\ answer.ok \in BOOLEAN
      /\ answer.ok => EqualUnder(answer.heap, typed[b], typed[a])
    BY <1>0, <1>4, ConstrainTypesEqual, ConstrainTypesSteps
<1>6. Good(answer.heap) /\ Nodes(heap) \subseteq Nodes(answer.heap)
    BY <1>5, LaterNodes
<1>7. \A i \in DOMAIN T!unitType.parts : T!unitType.parts[i].type \in Nodes(answer.heap)
    BY UnitFacts
<1>8. Later(answer.heap, g) /\ x \in Nodes(g)
    BY <1>6, <1>7, UnitFacts, NewTypeLater
<1>9. Later(heap, g)
    BY <1>5, <1>8, LaterTwice
<1>10. Good(g) /\ Types(g, constraint)
    <2>1. StepsTo(heap, g) /\ Good(g)
        BY ONLY <1>9, LaterNodes
    <2>2. Types(heap, constraint)
        BY <1>0 DEF TyperOK
    <2> QED  BY <2>1, <2>2, TypesKeep DEF StepsTo
<1>11. typed'[a] = typed[a] /\ typed'[b] = typed[b]
    <2>1. \A i \in 1 .. Len(Parts(TopTerm)) :
            Parts(TopTerm)[i] # NULL => typed'[Parts(TopTerm)[i]] = typed[Parts(TopTerm)[i]]
        BY ONLY <1>0, <1>1, <1>2, <1>8, <1>10, Returning
    <2>2. a \in Done /\ b \in Done
        BY <1>0, <1>1, <1>2, <1>3, TermFacts, InTermFacts, KidsTyped
    <2>3. a # NULL /\ b # NULL
        BY <1>0, <2>2, ProgramFacts, BackendAssumption DEF Done
    <2> QED  BY <1>3, <2>1, <2>3
<1>12. ASSUME ~ignored' PROVE RuleIn(g, constraint', typed', TopTerm)
    <2>1. Equals(answer.heap, typed[b], typed[a])
        BY <1>1, <1>4, <1>5, <1>6, <1>12 DEF Equals
    <2>2. Equals(g, typed[b], typed[a])
        BY <1>6, <1>8, <2>1, EqualsLater
    <2>3. Equals(g, typed'[a], typed'[b])
        BY <1>10, <1>11, <2>2, EqualsSymmetric
    <2> QED  BY <1>2, <2>3 DEF RuleIn, AssignmentIn
<1>13. /\ Types(g, constraint') /\ Holds(constraint, constraint') /\ ignored' \in BOOLEAN
       /\ ignored => ignored'
    BY <1>0, <1>1, <1>5, <1>10 DEF Holds, TyperOK
<1> QED  BY <1>0, <1>1, <1>2, <1>8, <1>9, <1>12, <1>13, ReturnRule

\* The statements that have been dealt with, and one more.
LEMMA TakeStatementRule ==
    ASSUME TypeSetting, InTerm, Kind(TopTerm) = "block", PartTyped, T!Took, Grows,
           ~ignored' /\ TopAt < Len(Names(TopTerm)) =>
                StatementIn(heap', constraint', typed, TopTerm, TopAt + 1)
    PROVE  RuleStep
<1> PICK f : f = [Head(stack) EXCEPT !.at = @ + 1]
    OBVIOUS
<1>1. TopAt \in Nat /\ Len(Names(TopTerm)) \in Nat
    BY TopFits, NamesFacts DEF TypeSetting
<1>2. ASSUME ~ignored', PartlyHolds PROVE PartlyIn(heap', constraint', typed, f)
    <2>1. PartlyIn(heap', constraint', typed, Head(stack))
        BY <1>2, PartsHold
    <2>2. StatementsIn(heap', constraint', typed, TopTerm, TopAt)
        BY <2>1 DEF PartlyIn, TopTerm, TopAt
    <2>3. ASSUME NEW i \in 1 .. Len(Names(TopTerm)), i <= TopAt + 1
          PROVE  StatementIn(heap', constraint', typed, TopTerm, i)
        <3>1. CASE i <= TopAt
            BY <2>2, <3>1 DEF StatementsIn
        <3>2. CASE i = TopAt + 1
            <4>1. TopAt < Len(Names(TopTerm))
                BY <1>1, <3>2
            <4> QED  BY <1>2, <3>2, <4>1
        <3> QED  BY <1>1, <2>3, <3>1, <3>2
    <2>4. StatementsIn(heap', constraint', typed, TopTerm, TopAt + 1)
        BY <2>3 DEF StatementsIn
    <2> QED  BY <2>4, TakenFrame DEF PartlyIn
<1>3. Kind(TopTerm) # "application"
    OBVIOUS
<1> QED  BY <1>2, <1>3, TakeRule

LEMMA DeclarationRule ==
    ASSUME TypeSetting, T!TakeDeclaration
    PROVE  RuleStep
<1>0. TypeSetting /\ Good(heap) /\ Later(heap, heap) /\ program \in Programs /\ Walk /\ TyperOK
    BY LaterItself DEF TypeSetting, TyperOK
<1> SUFFICES ASSUME ~T!Fatal PROVE RuleStep
    BY FatalRule
<1> PICK note, name : note = program.terms[TopTerm].notes[TopAt + 1] /\ name = Names(TopTerm)[TopAt + 1]
    OBVIOUS
<1> PICK n : n = typed[T!Kid]
    OBVIOUS
<1> PICK noted : noted = IF note = NULL THEN [heap |-> heap, ok |-> TRUE]
                                        ELSE T!constrainTypes(heap, n, note)
    OBVIOUS
<1> PICK answer : answer = T!insertConstraint(noted.heap, constraint, name, n)
    OBVIOUS
<1>1. /\ T!Returned({"block"}) /\ TopAt < Len(Names(TopTerm)) /\ name # NULL
      /\ T!Took /\ heap' = answer.heap /\ constraint' = answer.constraint /\ ignored' = ignored
      /\ noted.ok /\ answer.ok
    BY ThisFacts, Zenon DEF T!TakeDeclaration, T!Statement, T!Require
<1>2. InTerm /\ Kind(TopTerm) = "block" /\ PartTyped
    BY <1>1, ReturnedFacts
<1>3. /\ TopTerm \in TermAt /\ TopAt \in 0 .. Len(Parts(TopTerm)) /\ n \in Nodes(heap)
      /\ n = typed[NextPart]
    BY <1>0, <1>2, InTermFacts, NextTyped
<1>4. TopAt + 1 \in 1 .. Len(Names(TopTerm))
    BY <1>0, <1>1, <1>3, NamesFacts, TermFacts
<1>5. name \in Idents
    BY <1>0, <1>1, <1>3, <1>4, TermNameFacts
<1>6. note \in DOMAIN program.types \cup {NULL}
    <2>1. Len(program.terms[TopTerm].notes) = Len(Names(TopTerm))
        BY <1>0, <1>2, <1>3, ShapeFacts
    <2> QED  BY <1>0, <1>3, <1>4, <2>1, NoteFacts
<1>7. note # NULL => note \in Nodes(heap)
    BY <1>0, <1>6 DEF TyperOK, Noted
<1>8. Later(heap, noted.heap) /\ (note # NULL => Equals(noted.heap, n, note))
    <2>1. CASE note = NULL
        <3>1. noted = [heap |-> heap, ok |-> TRUE]
            BY <2>1, Zenon
        <3> QED  BY <1>0, <2>1, <3>1
    <2>2. CASE note # NULL
        <3>1. noted = T!constrainTypes(heap, n, note)
            BY <2>2, Zenon
        <3>2. Later(heap, noted.heap) /\ EqualUnder(noted.heap, n, note)
            BY <1>0, <1>1, <1>3, <1>7, <2>2, <3>1, ConstrainTypesEqual, Zenon
        <3>3. Nodes(heap) \subseteq Nodes(noted.heap)
            BY <3>2, LaterNodes, Zenon
        <3> QED  BY <1>3, <1>7, <2>2, <3>2, <3>3 DEF Equals
    <2> QED  BY <2>1, <2>2
<1>9. Types(noted.heap, constraint) /\ n \in Nodes(noted.heap) /\ Good(noted.heap)
    <2>1. StepsTo(heap, noted.heap) /\ Good(noted.heap) /\ Nodes(heap) \subseteq Nodes(noted.heap)
        BY ONLY <1>8, LaterNodes
    <2>2. Types(heap, constraint)
        BY <1>0 DEF TyperOK
    <2> QED  BY <1>3, <2>1, <2>2, TypesKeep DEF StepsTo
<1>10. /\ Later(noted.heap, answer.heap) /\ Holds(constraint, answer.constraint)
       /\ Equals(answer.heap, n, answer.constraint[name])
    BY <1>1, <1>5, <1>9, InsertConstraintEqual, Zenon
<1>11. /\ StepsTo(noted.heap, answer.heap) /\ Types(answer.heap, answer.constraint)
       /\ Keeps(constraint, answer.constraint)
    BY <1>5, <1>9, InsertConstraintSteps, Zenon
<1>12. Later(heap, answer.heap)
    BY ONLY <1>8, <1>10, LaterTwice
<1>13. note # NULL => Equals(answer.heap, n, note)
    BY ONLY <1>8, <1>9, <1>10, EqualsLater
<1>14. StepsTo(heap, answer.heap)
    BY ONLY <1>12, LaterNodes
<1>15. Grows
    BY <1>0, <1>1, <1>10, <1>11, <1>12, <1>14, Zenon DEF Grows, Constrains, TyperOK, T!Took
<1>16. StatementIn(heap', constraint', typed, TopTerm, TopAt + 1)
    BY <1>1, <1>3, <1>10, <1>13, Zenon DEF StatementIn, Notes, NextPart
<1> QED  BY <1>0, <1>1, <1>2, <1>15, <1>16, TakeStatementRule, Zenon

LEMMA BlockRules ==
    ASSUME TypeSetting
    PROVE  /\ T!TakeUnitStatement => RuleStep
           /\ T!TakeBlockValue => RuleStep
           /\ T!TypeBlock => RuleStep
<1>0. TypeSetting /\ Good(heap) /\ Later(heap, heap) /\ program \in Programs /\ Walk /\ TyperOK
    BY LaterItself DEF TypeSetting, TyperOK
<1>1. ASSUME T!TakeUnitStatement, ~T!Fatal PROVE RuleStep
    <2> PICK answer : answer = T!constrainTypeTo(heap, typed[T!Kid], T!unitType)
        OBVIOUS
    <2>1. /\ T!Returned({"block"}) /\ Names(TopTerm)[TopAt + 1] = NULL /\ T!Took
          /\ heap' = answer.heap /\ answer.ok /\ UNCHANGED <<constraint, ignored>>
        BY <1>1, ThisFacts DEF T!TakeUnitStatement, T!Statement, T!Require
    <2>2. InTerm /\ Kind(TopTerm) = "block" /\ PartTyped
        BY <2>1, ReturnedFacts
    <2>3. typed[T!Kid] \in Nodes(heap) /\ T!Kid = NextPart
        BY <1>0, <2>2, NextTyped
    <2>4. Later(heap, answer.heap) /\ T!SameKind(As(answer.heap, typed[T!Kid]), T!unitType)
        BY <1>0, <2>1, <2>3, UnitFacts, ConstrainTypeToLater
    <2>5. Grows
        BY <1>0, <2>1, <2>4, GrowsOnly
    <2>6. typed[T!Kid] \in Nodes(answer.heap)
        BY <2>3, <2>4, LaterNodes
    <2>7. KindIn(heap', typed[NextPart], Structs)
        BY <2>1, <2>3, <2>4, <2>6, SameKinds DEF KindIn
    <2>8. StatementIn(heap', constraint', typed, TopTerm, TopAt + 1)
        BY <2>1, <2>7 DEF StatementIn, NextPart
    <2> QED  BY <1>0, <2>1, <2>2, <2>5, <2>8, TakeStatementRule
<1>2. ASSUME T!TakeBlockValue PROVE RuleStep
    <2>1. /\ T!Returned({"block"}) /\ TopAt = Len(Names(TopTerm))
          /\ T!Took /\ UNCHANGED <<heap, constraint, ignored>>
        BY <1>2, ThisFacts DEF T!TakeBlockValue
    <2>2. InTerm /\ Kind(TopTerm) = "block" /\ PartTyped
        BY <2>1, ReturnedFacts
    <2>3. Grows
        BY <1>0, <2>1, GrowsOnly
    <2>4. TopAt \in Nat
        BY <1>0, <2>2, TopFits
    <2> QED  BY <1>0, <2>1, <2>2, <2>3, <2>4, TakeStatementRule
<1>3. ASSUME T!TypeBlock PROVE RuleStep
    <2>1. /\ T!Complete({"block"}) /\ T!Rest
          /\ IF Len(Parts(TopTerm)) > Len(Names(TopTerm))
             THEN T!Return(heap, T!KidType(Len(Parts(TopTerm))))
             ELSE T!ReturnNew(heap, T!unitType)
        BY <1>3, ThisFacts DEF T!TypeBlock
    <2>2. /\ InTerm /\ TopTerm \in TermAt /\ Len(Parts(TopTerm)) \in Nat /\ Kind(TopTerm) = "block"
          /\ TopAt = Len(Parts(TopTerm))
          /\ \A i \in 1 .. Len(Parts(TopTerm)) : T!KidType(i) \in Nodes(heap)
        BY <1>0, <2>1, KidsTyped
    <2>3. Len(Parts(TopTerm)) \in Len(Names(TopTerm)) .. Len(Names(TopTerm)) + 1
          /\ Len(Names(TopTerm)) \in Nat
        BY <1>0, <2>2, ShapeFacts, NamesFacts
    <2>4. \A i \in 1 .. Len(Parts(TopTerm)) : Parts(TopTerm)[i] # NULL /\ Parts(TopTerm)[i] \in TermAt
        <3>1. \A i \in 1 .. Len(Parts(TopTerm)) : Parts(TopTerm)[i] \in Done
            BY <1>0, <2>2, InTermFacts
        <3> QED  BY <1>0, <3>1, ProgramFacts, BackendAssumption DEF Done
    <2>5. ASSUME PartlyHolds,
                 \A i \in 1 .. Len(Parts(TopTerm)) : typed'[Parts(TopTerm)[i]] = typed[Parts(TopTerm)[i]]
          PROVE  StatementsIn(heap, constraint, typed', TopTerm, Len(Names(TopTerm)))
        <3>1. StatementsIn(heap, constraint, typed, TopTerm, TopAt)
            BY <2>2, <2>5 DEF PartlyHolds, PartlyIn, TopTerm, TopAt
        <3>2. ASSUME NEW i \in 1 .. Len(Names(TopTerm))
              PROVE  StatementIn(heap, constraint, typed', TopTerm, i)
            <4>1. StatementIn(heap, constraint, typed, TopTerm, i)
                BY <2>2, <2>3, <3>1 DEF StatementsIn
            <4>2. typed'[Parts(TopTerm)[i]] = typed[Parts(TopTerm)[i]]
                BY <2>2, <2>3, <2>5
            <4> QED  BY <4>1, <4>2 DEF StatementIn
        <3> QED  BY <3>2 DEF StatementsIn
    <2>6. CASE Len(Parts(TopTerm)) > Len(Names(TopTerm))
        <3> PICK n : n = T!KidType(Len(Parts(TopTerm)))
            OBVIOUS
        <3>1. n \in Nodes(heap) /\ T!Return(heap, n)
            BY <2>1, <2>2, <2>3, <2>6 DEF T!Return
        <3>2. \A i \in 1 .. Len(Parts(TopTerm)) : typed'[Parts(TopTerm)[i]] = typed[Parts(TopTerm)[i]]
            <4>1. \A i \in 1 .. Len(Parts(TopTerm)) :
                    Parts(TopTerm)[i] # NULL => typed'[Parts(TopTerm)[i]] = typed[Parts(TopTerm)[i]]
                BY ONLY <1>0, <2>2, <3>1, Returning
            <4> QED  BY <2>4, <4>1
        <3>3. ASSUME PartlyHolds PROVE RuleIn(heap, constraint, typed', TopTerm)
            <4>1. StatementsIn(heap, constraint, typed', TopTerm, Len(Names(TopTerm)))
                BY <2>5, <3>2, <3>3
            <4> QED  BY <2>2, <4>1 DEF RuleIn
        <3> QED  BY <1>0, <2>1, <2>2, <3>1, <3>3, ReturnRestRule
    <2>7. CASE ~(Len(Parts(TopTerm)) > Len(Names(TopTerm)))
        <3> PICK h, x : h = T!newType(heap, T!unitType) /\ x = T!Fresh(heap)
            OBVIOUS
        <3>1. T!ReturnNew(heap, T!unitType) /\ T!Return(h, x)
            BY <2>1, <2>7 DEF T!ReturnNew
        <3>2. \A i \in DOMAIN T!unitType.parts : T!unitType.parts[i].type \in Nodes(heap)
            BY UnitFacts
        <3>3. Later(heap, h) /\ x \in Nodes(h)
            BY <1>0, <3>2, UnitFacts, NewTypeLater
        <3>4. Good(h)
            BY ONLY <3>3, LaterNodes
        <3>5. \A i \in 1 .. Len(Parts(TopTerm)) : typed'[Parts(TopTerm)[i]] = typed[Parts(TopTerm)[i]]
            <4>1. \A i \in 1 .. Len(Parts(TopTerm)) :
                    Parts(TopTerm)[i] # NULL => typed'[Parts(TopTerm)[i]] = typed[Parts(TopTerm)[i]]
                BY ONLY <1>0, <2>2, <3>1, <3>3, <3>4, Returning
            <4> QED  BY <2>4, <4>1
        <3>6. ASSUME NEW g, Later(heap, g), PartlyHolds
              PROVE  RuleIn(g, constraint, typed', TopTerm)
            <4> PICK y : y = typed'
                OBVIOUS
            <4>1. StatementsIn(heap, constraint, y, TopTerm, Len(Names(TopTerm)))
                BY <2>5, <3>5, <3>6
            <4>2. Moves(heap, g, constraint, constraint, y, y)
                BY <1>0, <3>6 DEF Moves, Stays
            <4>3. \A i \in 1 .. Len(Names(TopTerm)) : Parts(TopTerm)[i] \in TermAt
                BY <2>2, <2>3, <2>4
            <4>4. StatementsIn(g, constraint, y, TopTerm, Len(Names(TopTerm)))
                BY <1>0, <2>2, <2>3, <4>1, <4>2, <4>3, StatementsKept
            <4> QED  BY <2>2, <4>4 DEF RuleIn
        <3> QED  BY <1>0, <2>1, <2>2, <3>1, <3>2, <3>6, UnitFacts, ReturnNewRule
    <2> QED  BY <2>6, <2>7
<1>4. T!Fatal => RuleStep
    BY FatalRule
<1> QED  BY <1>1, <1>2, <1>3, <1>4

LEMMA WalkRules ==
    ASSUME TypeSetting
    PROVE  /\ T!EvaluateKid => RuleStep
           /\ T!ReadNull => RuleStep
           /\ T!NotImplemented => RuleStep
           /\ T!StartDecl => RuleStep
<1>0. program \in Programs /\ Walk /\ TyperOK
    BY DEF TypeSetting
<1>1. ASSUME T!EvaluateKid PROVE RuleStep
    <2>1. /\ stack' = <<T!Frame(NextPart)>> \o stack /\ InTerm /\ TopAt < Len(Parts(TopTerm))
          /\ NextPart # NULL => typed[NextPart] = NULL
          /\ UNCHANGED <<program, heap, typed, declType, decl, status>>
          /\ UNCHANGED <<constraint, currentReturnType, ignored>>
        BY <1>1, ThisFacts DEF T!EvaluateKid, T!Call, T!Rest, T!Calls, T!Turn, InTerm
    <2>2. TopTerm \in TermAt /\ TopAt + 1 \in DOMAIN Parts(TopTerm)
        BY <1>0, <2>1, InTermFacts, TermFacts
    <2>3. NextPart \in TermAt \cup {NULL}
        BY <1>0, <2>2, TermFacts DEF NextPart
    <2>4. CallsTerm
        BY <2>1, <2>3 DEF CallsTerm
    <2>5. Called
        BY <2>1 DEF Called, Same, InTerm
    <2> QED  BY <2>4, <2>5 DEF RuleStep, CallsByRule
<1>2. T!ReadNull => RuleStep
    BY DEF T!ReadNull, T!Rest, RuleStep, StopsTyping
<1>3. T!NotImplemented => RuleStep
    BY FatalRule DEF T!NotImplemented
<1>4. ASSUME T!StartDecl PROVE RuleStep
    <2> PICK t : t = program.decls[decl].exp
        OBVIOUS
    <2>1. /\ stack' = <<T!Frame(t)>> \o stack /\ t # NULL /\ decl <= Len(program.decls)
          /\ typed[t] = NULL /\ stack = <<>> /\ status = "typing"
          /\ UNCHANGED <<program, heap, typed, declType, decl, status>>
          /\ UNCHANGED <<constraint, currentReturnType, ignored>>
        BY <1>4 DEF T!StartDecl, T!Call, T!Rest, T!AtDecl, T!Decl
    <2>2. decl \in DOMAIN program.decls
        BY <1>0, <2>1, ProgramFacts DEF TyperOK
    <2>3. t \in TermAt
        BY <1>0, <2>1, <2>2, ProgramFacts DEF Roots
    <2>4. CallsTerm
        BY <2>1, <2>3 DEF CallsTerm
    <2>5. Called
        BY <2>1, <2>2 DEF Called, Same
    <2> QED  BY <2>4, <2>5 DEF RuleStep, CallsByRule
<1> QED  BY <1>1, <1>2, <1>3, <1>4

\* What is known of the type of a declaration is made equal.
LEMMA DeclareRule ==
    ASSUME TypeSetting, T!AtDecl, NEW h, Later(heap, h), NEW n \in Nodes(h), T!ConstrainDecl(h, n)
    PROVE  RuleStep
<1>0. TypeSetting /\ Good(heap) /\ program \in Programs /\ Walk /\ TyperOK
    BY DEF TypeSetting, TyperOK
<1> SUFFICES ASSUME ~T!Fatal PROVE RuleStep
    BY FatalRule
<1> PICK type, name : type = program.decls[decl].type /\ name = program.decls[decl].name
    OBVIOUS
<1> PICK noted : noted = IF type = NULL THEN [heap |-> h, ok |-> TRUE]
                                        ELSE T!constrainTypes(h, n, type)
    OBVIOUS
<1> PICK answer : answer = T!insertConstraint(noted.heap, constraint, name, n)
    OBVIOUS
<1>1. /\ heap' = answer.heap /\ constraint' = answer.constraint
      /\ declType' = [declType EXCEPT ![decl] = n] /\ decl' = decl + 1
      /\ UNCHANGED <<program, stack, typed, currentReturnType, ignored, status>>
    BY DEF T!ConstrainDecl, T!Require, T!Decl
<1>2. decl \in DOMAIN program.decls /\ stack = <<>>
    BY <1>0, ProgramFacts DEF TyperOK, T!AtDecl
<1>3. name \in Idents /\ type \in DOMAIN program.types \cup {NULL}
    <2>1. type \in DOMAIN program.types \cup {NULL}
        BY <1>0, <1>2, BackendAssumption DEF WellFormed
    <2> QED  BY <1>0, <1>2, <2>1, DeclNameFacts, Zenon
<1>4. Good(h) /\ StepsTo(heap, h) /\ Nodes(heap) \subseteq Nodes(h)
    BY LaterNodes
<1>5. type # NULL => type \in Nodes(h)
    BY <1>0, <1>3, <1>4 DEF TyperOK, Noted
<1>6. Later(h, noted.heap)
    <2>1. CASE type = NULL
        <3>1. noted = [heap |-> h, ok |-> TRUE]
            BY <2>1
        <3> QED  BY <1>4, <3>1, LaterItself
    <2>2. CASE type # NULL
        <3>1. noted = T!constrainTypes(h, n, type)
            BY <2>2
        <3> QED  BY <1>4, <1>5, <2>2, <3>1, ConstrainTypesEqual
    <2> QED  BY <2>1, <2>2
<1>7. Later(heap, h)
    OBVIOUS
<1>8. Later(heap, noted.heap)
    BY ONLY <1>6, <1>7, LaterTwice
<1>9. Types(noted.heap, constraint) /\ n \in Nodes(noted.heap) /\ Good(noted.heap)
    <2>1. StepsTo(heap, noted.heap) /\ Good(noted.heap)
        BY ONLY <1>8, LaterNodes
    <2>2. Types(heap, constraint)
        BY <1>0 DEF TyperOK
    <2>3. Nodes(h) \subseteq Nodes(noted.heap)
        BY ONLY <1>6, LaterNodes, Zenon
    <2> QED  BY <2>1, <2>2, <2>3, TypesKeep DEF StepsTo
<1>10. /\ Types(answer.heap, answer.constraint)
       /\ Keeps(constraint, answer.constraint) /\ answer.constraint[name] # NULL
    BY <1>3, <1>9, InsertConstraintSteps
<1>11. Later(noted.heap, answer.heap) /\ Holds(constraint, answer.constraint)
    BY <1>3, <1>9, InsertConstraintEqual
<1>12. Later(heap, answer.heap)
    BY ONLY <1>8, <1>11, LaterTwice
<1>13. StepsTo(heap, answer.heap)
    BY ONLY <1>12, LaterNodes, Zenon
<1>14. n \in Nodes(answer.heap)
    <2>1. Nodes(noted.heap) \subseteq Nodes(answer.heap)
        BY ONLY <1>11, LaterNodes
    <2> QED  BY <1>9, <2>1
<1>15. Constrains
    BY <1>0, <1>1, <1>10, <1>13, Zenon DEF Constrains, TyperOK
<1>16. DeclaresType
    BY <1>1, <1>2, <1>10, <1>14, <1>15, Zenon DEF DeclaresType
<1>17. Grows
    BY <1>1, <1>11, <1>12, <1>15, Zenon DEF Grows
<1> QED  BY <1>2, <1>16, <1>17 DEF RuleStep, DeclaresByRule

LEMMA DeclRules ==
    ASSUME TypeSetting
    PROVE  /\ T!FinishDecl => RuleStep
           /\ T!DeclareOnly => RuleStep
<1>0. TypeSetting /\ Good(heap) /\ Later(heap, heap) /\ program \in Programs /\ Walk /\ TyperOK
    BY LaterItself DEF TypeSetting, TyperOK
<1>1. ASSUME T!FinishDecl PROVE RuleStep
    <2>1. /\ T!AtDecl /\ T!ConstrainDecl(heap, typed[T!Decl.exp])
          /\ T!Decl.exp # NULL /\ typed[T!Decl.exp] # NULL
        BY <1>1 DEF T!FinishDecl
    <2>2. decl \in DOMAIN program.decls
        BY <1>0, <2>1, ProgramFacts DEF TyperOK, T!AtDecl
    <2>3. T!Decl.exp \in TermAt
        BY <1>0, <2>1, <2>2, ProgramFacts DEF Roots, T!Decl
    <2>4. typed[T!Decl.exp] \in Nodes(heap)
        BY <1>0, <2>1, <2>3 DEF TyperOK
    <2> QED  BY <1>0, <2>1, <2>4, DeclareRule
<1>2. ASSUME T!DeclareOnly PROVE RuleStep
    <2> PICK type : type = T!Simple("var")
        OBVIOUS
    <2>1. T!AtDecl /\ T!ConstrainDecl(T!newType(heap, type), T!Fresh(heap))
        BY <1>2 DEF T!DeclareOnly, T!ConstrainDecl
    <2>2. type \in Type /\ \A i \in DOMAIN type.parts : type.parts[i].type \in Nodes(heap)
        BY SimpleFacts
    <2>3. Later(heap, T!newType(heap, type)) /\ T!Fresh(heap) \in Nodes(T!newType(heap, type))
        BY <1>0, <2>2, NewTypeLater
    <2> QED  BY <1>0, <2>1, <2>3, DeclareRule
<1> QED  BY <1>1, <1>2

-----------------------------------------------------------------------------
(* The head of a function: the formals have the types that are in its type. *)

FormalIn(h, c, parts, i) == Equals(h, parts[i].type, c[Names(TopTerm)[i + 1]])

NoteIn(h, parts, i) == Notes(TopTerm)[i] # NULL => Equals(h, parts[i].type, Notes(TopTerm)[i])

\* As far as k formals.
HeadTo(s, k) ==
    /\ Entering(s) /\ Later(heap, s.heap) /\ Holds(constraint, s.constraint)
    /\ s.ok =>
        /\ Len(s.parts) = k
        /\ \A i \in 1 .. k : FormalIn(s.heap, s.constraint, s.parts, i) /\ NoteIn(s.heap, s.parts, i)

LEMMA FormalMoves ==
    ASSUME program \in Programs, TopTerm \in TermAt, Kind(TopTerm) = "function",
           NEW h, Good(h), NEW g, Later(h, g), NEW c, NEW d, Holds(c, d),
           NEW i \in 1 .. Len(Names(TopTerm)) - 1, NEW parts, NEW q, q[i] = parts[i],
           FormalIn(h, c, parts, i)
    PROVE  FormalIn(g, d, q, i)
<1> PICK name : name = Names(TopTerm)[i + 1]
    OBVIOUS
<1>1. name \in Idents
    <2>1. i + 1 \in 1 .. Len(Names(TopTerm))
        BY NamesFacts
    <2>2. name # NULL
        BY <2>1, ShapeFacts
    <2> QED  BY <2>1, <2>2, TermNameFacts
<1>2. Equals(h, parts[i].type, c[name])
    BY DEF FormalIn
<1>3. c[name] # NULL
    BY <1>2, NodesFacts DEF Equals
<1>4. d[name] = c[name]
    BY <1>1, <1>3 DEF Holds
<1>5. Equals(g, parts[i].type, c[name])
    BY <1>2, EqualsLater
<1> QED  BY <1>4, <1>5 DEF FormalIn

LEMMA NoteMoves ==
    ASSUME NEW h, Good(h), NEW g, Later(h, g), NEW i, NEW parts, NEW q, q[i] = parts[i],
           NoteIn(h, parts, i)
    PROVE  NoteIn(g, q, i)
BY EqualsLater DEF NoteIn

\* A part is added, of the type that is written down or a new one.
LEMMA NotedAdds ==
    ASSUME NEW s, Entering(s), Noted(heap), NEW note \in DOMAIN program.types \cup {NULL}
    PROVE  LET t == T!Noted(s, note)
           IN  /\ Later(s.heap, t.heap) /\ t.ok = s.ok /\ t.constraint = s.constraint
               /\ Len(t.parts) = Len(s.parts) + 1 /\ Len(s.parts) \in Nat
               /\ \A i \in 1 .. Len(s.parts) : t.parts[i] = s.parts[i]
               /\ T!LastType(t.parts) = t.parts[Len(t.parts)].type
               /\ T!LastType(t.parts) \in Nodes(t.heap)
               /\ note # NULL => T!LastType(t.parts) = note
<1> PICK t : t = T!Noted(s, note)
    OBVIOUS
<1>0. /\ s = [heap |-> s.heap, constraint |-> s.constraint, parts |-> s.parts, ok |-> s.ok]
      /\ Good(s.heap) /\ StepsTo(heap, s.heap) /\ PartsIn(s.heap, s.parts)
    BY DEF Entering, StepsTo
<1>1. T!LastType(t.parts) \in Nodes(t.heap)
    BY NotedKeeps
<1>2. T!LastType(t.parts) = t.parts[Len(t.parts)].type
    BY DEF T!LastType
<1>3. ASSUME NEW n
      PROVE  LET parts == Append(s.parts, T!Part(n))
             IN  /\ Len(parts) = Len(s.parts) + 1 /\ Len(s.parts) \in Nat
                 /\ \A i \in 1 .. Len(s.parts) : parts[i] = s.parts[i]
                 /\ parts[Len(parts)].type = n
    <2> PICK e : e = T!Part(n)
        OBVIOUS
    <2>1. e.type = n
        BY DEF T!Part
    <2> PICK A : A = MemberType \cup {e}
        OBVIOUS
    <2>2. s.parts \in Seq(A) /\ e \in A
        <3> PICK M : M = MemberType
            OBVIOUS
        <3>1. s.parts \in Seq(M) /\ M \subseteq A
            BY <1>0 DEF PartsIn
        <3> QED  BY <3>1
    <2> PICK q, parts : q = s.parts /\ parts = Append(q, e)
        OBVIOUS
    <2>3. /\ Len(parts) = Len(q) + 1 /\ Len(q) \in Nat
          /\ \A i \in 1 .. Len(q) : parts[i] = q[i]
          /\ parts[Len(parts)] = e
        BY <2>2
    <2> QED  BY <2>1, <2>3
<1>4. CASE note = NULL
    <2> PICK g, x : g = T!newType(s.heap, T!Simple("var")) /\ x = T!Fresh(s.heap)
        OBVIOUS
    <2> PICK parts : parts = Append(s.parts, T!Part(x))
        OBVIOUS
    <2>1. T!Simple("var") \in Type
          /\ \A i \in DOMAIN T!Simple("var").parts : T!Simple("var").parts[i].type \in Nodes(s.heap)
        BY SimpleFacts
    <2>2. Later(s.heap, g)
        BY <1>0, <2>1, NewTypeLater
    <2>3. t = [heap |-> g, constraint |-> s.constraint, parts |-> parts, ok |-> s.ok]
        <3>1. t = [s EXCEPT !.heap = g, !.parts = parts]
            BY <1>0, <1>4 DEF T!Noted
        <3> QED  BY <1>0, <3>1
    <2>4. t.heap = g /\ t.constraint = s.constraint /\ t.parts = parts /\ t.ok = s.ok
        BY <2>3
    <2> QED  BY <1>1, <1>2, <1>3, <1>4, <2>2, <2>4
<1>5. CASE note # NULL
    <2> PICK parts : parts = Append(s.parts, T!Part(note))
        OBVIOUS
    <2>1. t = [heap |-> s.heap, constraint |-> s.constraint, parts |-> parts, ok |-> s.ok]
        <3>1. t = [s EXCEPT !.parts = parts]
            BY <1>0, <1>5 DEF T!Noted
        <3> QED  BY <1>0, <3>1
    <2>2. t.heap = s.heap /\ t.constraint = s.constraint /\ t.parts = parts /\ t.ok = s.ok
        BY <2>1
    <2>3. Later(s.heap, s.heap)
        BY <1>0, LaterItself
    <2> QED  BY <1>1, <1>2, <1>3, <1>5, <2>2, <2>3
<1> QED  BY <1>4, <1>5

LEMMA InsertFormalRule ==
    ASSUME program \in Programs, Noted(heap), TopTerm \in TermAt, Kind(TopTerm) = "function",
           NEW s, NEW i \in 1 .. Len(Names(TopTerm)) - 1, HeadTo(s, i - 1)
    PROVE  HeadTo(T!InsertFormal(s, i), i)
<1> PICK note, name : note = T!This.notes[i] /\ name = T!This.names[i + 1]
    OBVIOUS
<1> PICK t, n : t = T!Noted(s, note) /\ n = T!LastType(t.parts)
    OBVIOUS
<1> PICK answer : answer = T!insertConstraint(t.heap, s.constraint, name, n)
    OBVIOUS
<1> PICK u : u = T!InsertFormal(s, i)
    OBVIOUS
<1>0. Entering(s) /\ Later(heap, s.heap) /\ Holds(constraint, s.constraint)
    BY DEF HeadTo
<1>1. /\ name \in Idents /\ note \in DOMAIN program.types \cup {NULL}
      /\ note = Notes(TopTerm)[i] /\ name = Names(TopTerm)[i + 1]
    <2>1. i + 1 \in 1 .. Len(Names(TopTerm)) /\ i \in 1 .. Len(program.terms[TopTerm].notes)
        BY NamesFacts, ShapeFacts
    <2>2. note = program.terms[TopTerm].notes[i] /\ name = Names(TopTerm)[i + 1]
        BY ThisFacts
    <2>3. Names(TopTerm)[i + 1] # NULL
        BY <2>1, ShapeFacts
    <2> QED  BY <2>1, <2>2, <2>3, TermNameFacts, NoteFacts DEF Notes
<1>2. /\ Later(s.heap, t.heap) /\ t.ok = s.ok /\ t.constraint = s.constraint
      /\ Len(t.parts) = Len(s.parts) + 1 /\ Len(s.parts) \in Nat
      /\ \A j \in 1 .. Len(s.parts) : t.parts[j] = s.parts[j]
      /\ n = t.parts[Len(t.parts)].type /\ n \in Nodes(t.heap)
      /\ note # NULL => n = note
    BY <1>0, <1>1, NotedAdds
<1>3. Entering(t)
    BY <1>0, <1>1, NotedKeeps
<1>4. /\ t = [heap |-> t.heap, constraint |-> t.constraint, parts |-> t.parts, ok |-> t.ok]
      /\ Good(t.heap) /\ Types(t.heap, t.constraint)
    BY <1>3 DEF Entering, StepsTo
<1>5. /\ Later(t.heap, answer.heap) /\ Holds(s.constraint, answer.constraint)
      /\ answer.ok => Equals(answer.heap, n, answer.constraint[name])
    BY <1>1, <1>2, <1>4, InsertConstraintEqual
<1> PICK ok : ok = (t.ok /\ answer.ok)
    OBVIOUS
<1>6. u = [heap |-> answer.heap, constraint |-> answer.constraint, parts |-> t.parts, ok |-> ok]
    <2>1. u = [t EXCEPT !.heap = answer.heap, !.constraint = answer.constraint,
                        !.ok = t.ok /\ answer.ok]
        BY DEF T!InsertFormal
    <2>2. u = [t EXCEPT !.heap = answer.heap, !.constraint = answer.constraint, !.ok = ok]
        BY <2>1
    <2> QED  BY <1>4, <2>2, Zenon
<1>7. u.heap = answer.heap /\ u.constraint = answer.constraint /\ u.parts = t.parts /\ u.ok = ok
    BY <1>6
<1>8. Later(s.heap, u.heap) /\ Later(heap, u.heap)
    <2>1. Later(t.heap, u.heap) /\ Later(s.heap, t.heap) /\ Later(heap, s.heap)
        BY <1>0, <1>2, <1>5, <1>7, Zenon
    <2>2. Later(s.heap, u.heap)
        BY ONLY <2>1, LaterTwice, Zenon
    <2> QED  BY ONLY <2>1, <2>2, LaterTwice
<1>9. Holds(s.constraint, u.constraint) /\ Holds(constraint, u.constraint)
    BY <1>0, <1>5, <1>7, HoldsTwice
<1>10. Entering(u)
    BY <1>0, InsertFormalKeeps
<1>11. ASSUME u.ok
       PROVE  /\ Len(u.parts) = i
              /\ \A j \in 1 .. i : FormalIn(u.heap, u.constraint, u.parts, j) /\ NoteIn(u.heap, u.parts, j)
    <2>1. /\ s.ok /\ answer.ok /\ Len(s.parts) = i - 1
          /\ \A j \in 1 .. i - 1 : FormalIn(s.heap, s.constraint, s.parts, j) /\ NoteIn(s.heap, s.parts, j)
        BY <1>2, <1>7, <1>11, Zenon DEF HeadTo
    <2>2. Len(u.parts) = i
        BY <1>2, <1>7, <2>1
    <2>3. Good(s.heap) /\ Good(u.heap) /\ n \in Nodes(u.heap)
        <3>1. Good(s.heap)
            BY <1>0 DEF Entering, StepsTo
        <3>2. Good(u.heap)
            BY <1>10 DEF Entering, StepsTo
        <3>3. Nodes(t.heap) \subseteq Nodes(answer.heap)
            BY ONLY <1>5, LaterNodes
        <3> QED  BY <1>2, <1>7, <3>1, <3>2, <3>3, Zenon
    <2>4. ASSUME NEW j \in 1 .. i - 1
          PROVE  FormalIn(u.heap, u.constraint, u.parts, j) /\ NoteIn(u.heap, u.parts, j)
        <3>1. u.parts[j] = s.parts[j]
            BY <1>2, <1>7, <2>1
        <3>2. j \in 1 .. Len(Names(TopTerm)) - 1
            BY NamesFacts
        <3>3. FormalIn(s.heap, s.constraint, s.parts, j) /\ NoteIn(s.heap, s.parts, j)
            BY <2>1
        <3>4. FormalIn(u.heap, u.constraint, u.parts, j)
            BY <1>8, <1>9, <2>3, <3>1, <3>2, <3>3, FormalMoves
        <3>5. NoteIn(u.heap, u.parts, j)
            BY <1>8, <2>3, <3>1, <3>3, NoteMoves, Zenon
        <3> QED  BY <3>4, <3>5, Zenon
    <2>5. u.parts[i].type = n
        BY <1>2, <1>7, <2>1
    <2>6. FormalIn(u.heap, u.constraint, u.parts, i)
        BY <1>1, <1>5, <1>7, <2>1, <2>5 DEF FormalIn
    <2>7. NoteIn(u.heap, u.parts, i)
        BY <1>1, <1>2, <2>3, <2>5, EqualsItself DEF NoteIn
    <2>8. \A j \in 1 .. i : j = i \/ j \in 1 .. i - 1
        OBVIOUS
    <2> QED  BY <2>2, <2>4, <2>6, <2>7, <2>8
<1> QED  BY <1>8, <1>9, <1>10, <1>11 DEF HeadTo

LEMMA FormalsRule ==
    ASSUME program \in Programs, Noted(heap), TopTerm \in TermAt, Kind(TopTerm) = "function",
           NEW n \in Nat, n = Len(Names(TopTerm)) - 1,
           NEW begin, HeadTo(begin, 0), NEW f, FormalsTo(f, n, begin)
    PROVE  HeadTo(f[n], n)
<1> SUFFICES ASSUME ~HeadTo(f[n], n) PROVE FALSE
    OBVIOUS
<1> PICK S : S = {k \in 0 .. n : ~HeadTo(f[k], k)}
    OBVIOUS
<1>1. S \in SUBSET Nat /\ n \in S
    OBVIOUS
<1>2. PICK m \in S : \A k \in S : m <= k
    BY <1>1, FirstOf
<1>3. m # 0
    BY <1>2 DEF FormalsTo
<1>4. m \in 1 .. n /\ m - 1 \in 0 .. n /\ m - 1 \notin S
    BY <1>1, <1>2, <1>3
<1>5. HeadTo(f[m - 1], m - 1) /\ f[m] = T!InsertFormal(f[m - 1], m)
    BY <1>4 DEF FormalsTo
<1>6. HeadTo(f[m], m)
    BY <1>4, <1>5, InsertFormalRule
<1> QED  BY <1>2, <1>6

LEMMA EnterFunctionRule ==
    ASSUME TypeSetting, T!EnterFunction
    PROVE  RuleStep
<1>0. /\ Good(heap) /\ Later(heap, heap) /\ program \in Programs /\ Walk /\ TyperOK /\ Noted(heap)
      /\ StepsTo(heap, heap)
    BY LaterItself, StepsToItself DEF TypeSetting, TyperOK
<1> DEFINE begin == [heap |-> heap, constraint |-> constraint, parts |-> <<>>, ok |-> TRUE]
           formals == CHOOSE g : g = [i \in 0 .. Len(T!This.names) - 1 |->
                            IF i = 0 THEN begin ELSE T!InsertFormal(g[i - 1], i)]
           head == T!Noted(formals[Len(T!This.names) - 1], T!This.notes[Len(T!This.names)])
           fun == [kind |-> "fun", parts |-> head.parts]
           answer == T!insertConstraint(T!newType(head.heap, fun), head.constraint,
                                        T!This.names[1], T!Fresh(head.heap))
<1>1. /\ T!Calls({"function"}) /\ T!Top.fun = NULL
      /\ answer.ok =>
            /\ heap' = answer.heap /\ constraint' = answer.constraint
            /\ currentReturnType' = T!LastType(head.parts)
            /\ ignored' = (ignored \/ ~head.ok)
            /\ stack' = [stack EXCEPT ![1].fun = T!Fresh(head.heap), ![1].prev = currentReturnType]
            /\ UNCHANGED <<program, typed, declType, decl, status>>
      /\ ~answer.ok => T!Fatal
    BY Zenon DEF T!EnterFunction, T!Require
<1>2. InTerm /\ Kind(TopTerm) = "function" /\ TopTerm \in TermAt /\ Head(stack).fun = NULL
    <2>1. InTerm /\ Kind(TopTerm) = "function" /\ Head(stack).fun = NULL
        BY <1>1, ThisFacts, Zenon DEF T!Calls, T!Turn, InTerm
    <2> QED  BY <1>0, <2>1, InTermFacts
<1> PICK n : n = Len(Names(TopTerm)) - 1
    OBVIOUS
<1>3. n \in Nat /\ Len(T!This.names) - 1 = n
    BY <1>0, <1>2, ShapeFacts, NamesFacts, ThisFacts
<1> PICK b : b = begin
    OBVIOUS
<1> PICK f : f = formals
    OBVIOUS
<1>4. FormalsTo(f, n, b)
    <2>1. f = CHOOSE g : g = [i \in 0 .. n |-> IF i = 0 THEN b ELSE T!InsertFormal(g[i - 1], i)]
        BY <1>3
    <2> HIDE DEF formals, begin, head, answer
    <2> QED  BY <1>3, <2>1, FormalsAre
<1>5. HeadTo(b, 0)
    <2>1. b.heap = heap /\ b.constraint = constraint /\ b.parts = <<>> /\ b.ok = TRUE
        OBVIOUS
    <2>2. Types(heap, constraint) /\ Keeps(constraint, constraint) /\ Holds(constraint, constraint)
        BY <1>0 DEF TyperOK, Keeps, Holds
    <2>3. PartsIn(heap, <<>>)
        BY DEF PartsIn
    <2>4. Entering(b)
        BY <1>0, <2>1, <2>2, <2>3 DEF Entering
    <2> QED  BY <1>0, <2>1, <2>2, <2>4 DEF HeadTo
<1>6. HeadTo(f[n], n)
    BY <1>0, <1>2, <1>3, <1>4, <1>5, FormalsRule
<1> PICK note : note = T!This.notes[Len(T!This.names)]
    OBVIOUS
<1>7. note \in DOMAIN program.types \cup {NULL} /\ note = Notes(TopTerm)[Len(Names(TopTerm))]
    <2>1. Len(Names(TopTerm)) \in 1 .. Len(program.terms[TopTerm].notes)
        BY <1>0, <1>2, ShapeFacts, NamesFacts
    <2>2. note = program.terms[TopTerm].notes[Len(Names(TopTerm))]
        BY ThisFacts
    <2> QED  BY <1>0, <1>2, <2>1, <2>2, NoteFacts DEF Notes
<1> PICK s, e : s = head /\ e = f[n]
    OBVIOUS
<1>8. s = T!Noted(e, note)
    BY <1>3
<1> HIDE DEF head, formals, begin
<1>9. /\ Entering(e) /\ Later(heap, e.heap) /\ Holds(constraint, e.constraint)
      /\ Entering(s) /\ s.parts # <<>> /\ T!LastType(s.parts) \in Nodes(s.heap)
    <2>1. Entering(e) /\ Later(heap, e.heap) /\ Holds(constraint, e.constraint)
        BY <1>6 DEF HeadTo
    <2> QED  BY <1>0, <1>7, <1>8, <2>1, NotedKeeps
<1>10. /\ Later(e.heap, s.heap) /\ s.ok = e.ok /\ s.constraint = e.constraint
       /\ Len(s.parts) = Len(e.parts) + 1 /\ Len(e.parts) \in Nat
       /\ \A i \in 1 .. Len(e.parts) : s.parts[i] = e.parts[i]
       /\ T!LastType(s.parts) = s.parts[Len(s.parts)].type
       /\ note # NULL => T!LastType(s.parts) = note
    BY <1>0, <1>7, <1>8, <1>9, NotedAdds
<1>11. /\ Good(e.heap) /\ Good(s.heap) /\ Types(s.heap, s.constraint)
       /\ PartsIn(s.heap, s.parts) /\ s.ok \in BOOLEAN
    BY <1>9 DEF Entering, StepsTo
<1> PICK g, x, type : g = T!newType(s.heap, fun) /\ x = T!Fresh(s.heap) /\ type = fun
    OBVIOUS
<1>12. /\ type \in Type /\ type.parts = s.parts /\ type.kind = "fun"
       /\ \A i \in DOMAIN type.parts : type.parts[i].type \in Nodes(s.heap)
    <2> PICK M : M = MemberType
        OBVIOUS
    <2>1. s.parts \in Seq(M) /\ DOMAIN s.parts = 1 .. Len(s.parts)
        BY <1>11 DEF PartsIn
    <2>2. type = [kind |-> "fun", parts |-> s.parts]
        OBVIOUS
    <2>3. s.parts \in Seq([name : Text, type : Nat \ {0}])
        BY <2>1 DEF MemberType
    <2>4. type \in Type /\ type.parts = s.parts
        BY <2>2, <2>3, TypeMade, Zenon
    <2> QED  BY <1>11, <2>1, <2>2, <2>4 DEF PartsIn
<1>13. Later(s.heap, g) /\ x \in Nodes(g) /\ g.type[x] = type
    BY <1>11, <1>12, NewTypeLater
<1> PICK a, name : a = answer /\ name = T!This.names[1]
    OBVIOUS
<1>14. a = T!insertConstraint(g, s.constraint, name, x)
    OBVIOUS
<1>15. name \in Idents
    <2>1. 1 \in 1 .. Len(Names(TopTerm)) /\ Names(TopTerm)[1] # NULL
        BY <1>0, <1>2, <1>3, ShapeFacts, NamesFacts
    <2> QED  BY <1>0, <1>2, <2>1, TermNameFacts, ThisFacts
<1>16. Good(g) /\ Types(g, s.constraint)
    <2>1. Good(g) /\ StepsTo(s.heap, g)
        BY ONLY <1>13, LaterNodes
    <2> QED  BY <1>11, <2>1, TypesKeep DEF StepsTo
<1>17. /\ a.ok \in BOOLEAN /\ Types(a.heap, a.constraint) /\ Keeps(s.constraint, a.constraint)
    BY <1>13, <1>14, <1>15, <1>16, InsertConstraintSteps
<1>18. Later(g, a.heap) /\ Holds(s.constraint, a.constraint)
    BY <1>13, <1>14, <1>15, <1>16, InsertConstraintEqual
<1>19. Later(e.heap, a.heap) /\ Later(s.heap, a.heap) /\ Later(heap, a.heap)
    <2>1. Later(s.heap, a.heap)
        BY ONLY <1>13, <1>18, LaterTwice
    <2>2. Later(e.heap, a.heap)
        BY ONLY <1>10, <2>1, LaterTwice
    <2> QED  BY ONLY <1>9, <2>1, <2>2, LaterTwice
<1>20. Holds(e.constraint, a.constraint) /\ Holds(constraint, a.constraint)
    BY <1>9, <1>10, <1>18, HoldsTwice
<1>21. CASE ~a.ok
    BY <1>1, <1>21, FatalRule
<1>22. CASE a.ok
    <2>1. /\ heap' = a.heap /\ constraint' = a.constraint
          /\ currentReturnType' = T!LastType(s.parts)
          /\ ignored' = (ignored \/ ~s.ok)
          /\ stack' = [stack EXCEPT ![1].fun = x, ![1].prev = currentReturnType]
          /\ UNCHANGED <<program, typed, declType, decl, status>>
        BY <1>1, <1>22
    <2> HIDE DEF answer, fun
    <2>2. /\ StepsTo(heap, a.heap) /\ Good(a.heap) /\ Nodes(s.heap) \subseteq Nodes(a.heap)
          /\ x \in Nodes(a.heap) /\ a.heap.type[x] = type
        <3>1. StepsTo(heap, a.heap) /\ Good(a.heap)
            BY ONLY <1>19, LaterNodes
        <3>2. Nodes(s.heap) \subseteq Nodes(a.heap)
            BY ONLY <1>19, LaterNodes
        <3>3. x \in Nodes(a.heap) /\ a.heap.type[x] = g.type[x]
            BY ONLY <1>13, <1>18, LaterNodes
        <3> QED  BY <1>13, <3>1, <3>2, <3>3
    <2>3. Keeps(constraint, a.constraint)
        <3>1. Keeps(constraint, s.constraint)
            BY <1>9 DEF Entering
        <3> QED  BY <1>17, <3>1 DEF Keeps
    <2>4. ignored' \in BOOLEAN /\ (ignored => ignored')
        BY <1>0, <1>11, <2>1 DEF TyperOK
    <2>5. Constrains
        BY <1>17, <2>1, <2>2, <2>3, <2>4 DEF Constrains
    <2>6. Grows
        BY <1>19, <1>20, <2>1, <2>4, <2>5 DEF Grows
    <2>7. a.heap.type[x].kind = "fun" /\ a.heap.type[x].parts = s.parts
        BY <1>12, <2>2
    <2>8. T!LastType(s.parts) = LastType(a.heap.type[x].parts)
        BY <2>7 DEF T!LastType, LastType
    <2>9. ASSUME ~ignored' PROVE HeadIn(a.heap, a.constraint, x, TopTerm)
        <3>1. /\ Len(e.parts) = n
              /\ \A i \in 1 .. n : FormalIn(e.heap, e.constraint, e.parts, i) /\ NoteIn(e.heap, e.parts, i)
            BY <1>6, <1>10, <2>1, <2>9 DEF HeadTo
        <3>2. Len(s.parts) = Len(Names(TopTerm)) /\ Len(Names(TopTerm)) = n + 1
            <4>1. Len(Names(TopTerm)) \in Nat
                BY <1>0, <1>2, NamesFacts
            <4> QED  BY <1>3, <1>10, <3>1, <4>1
        <3>3. ASSUME NEW i \in 1 .. n
              PROVE  FormalIn(a.heap, a.constraint, s.parts, i) /\ NoteIn(a.heap, s.parts, i)
            <4>1. s.parts[i] = e.parts[i] /\ i \in 1 .. Len(Names(TopTerm)) - 1
                BY <1>10, <3>1, <3>2
            <4>2. FormalIn(e.heap, e.constraint, e.parts, i) /\ NoteIn(e.heap, e.parts, i)
                BY <3>1
            <4>3. FormalIn(a.heap, a.constraint, s.parts, i)
                BY <1>0, <1>2, <1>11, <1>19, <1>20, <4>1, <4>2, FormalMoves
            <4>4. NoteIn(a.heap, s.parts, i)
                BY <1>11, <1>19, <4>1, <4>2, NoteMoves
            <4> QED  BY <4>3, <4>4
        <3>4. NoteIn(a.heap, s.parts, n + 1)
            <4>1. s.parts[n + 1].type \in Nodes(a.heap)
                BY <1>9, <1>10, <2>2, <3>2
            <4>2. note # NULL => s.parts[n + 1].type = note
                BY <1>10, <3>2
            <4>3. note = Notes(TopTerm)[n + 1]
                BY <1>7, <3>2
            <4> QED  BY <2>2, <4>1, <4>2, <4>3, EqualsItself DEF NoteIn
        <3>5. ASSUME NEW i \in 2 .. Len(Names(TopTerm))
              PROVE  Equals(a.heap, s.parts[i - 1].type, a.constraint[Names(TopTerm)[i]])
            <4> PICK j : j = i - 1
                OBVIOUS
            <4>1. j \in 1 .. n /\ j + 1 = i
                BY <1>3, <3>2
            <4>2. FormalIn(a.heap, a.constraint, s.parts, j)
                BY <3>3, <4>1
            <4> QED  BY <4>1, <4>2 DEF FormalIn
        <3>6. ASSUME NEW i \in 1 .. Len(Names(TopTerm))
              PROVE  Notes(TopTerm)[i] # NULL => Equals(a.heap, s.parts[i].type, Notes(TopTerm)[i])
            <4>1. i = n + 1 \/ i \in 1 .. n
                BY <1>3, <3>2
            <4> QED  BY <3>3, <3>4, <4>1 DEF NoteIn
        <3> QED  BY <2>2, <2>7, <3>2, <3>5, <3>6 DEF HeadIn
    <2>10. /\ x \in Nodes(heap') /\ heap'.type[x].kind = "fun" /\ heap'.type[x].parts # <<>>
           /\ currentReturnType' = LastType(heap'.type[x].parts)
           /\ ~ignored' => HeadIn(heap', constraint', x, TopTerm)
        BY <1>9, <2>1, <2>2, <2>7, <2>8, <2>9, Zenon
    <2>11. EntersByRule
        BY <1>2, <2>1, <2>6, <2>10 DEF EntersByRule
    <2> QED  BY <2>11 DEF RuleStep
<1> QED  BY <1>17, <1>21, <1>22

LEMMA RuleSteps ==
    ASSUME TypeSetting, T!Next
    PROVE  RuleStep
<1>1. T!EvaluateKid \/ T!ReadNull \/ T!NotImplemented \/ T!StartDecl => RuleStep
    BY WalkRules
<1>2. T!TypeLiteral \/ T!TypeKnownVar \/ T!TypeNewVar \/ T!TypeJump => RuleStep
    BY LiteralRules
<1>3. T!TakeCallee \/ T!TakeArgument \/ T!TypeApplication \/ T!TypeStructure => RuleStep
    BY ApplicationRules, StructureRule
<1>4. T!TypeReturn \/ T!EnterFunction \/ T!TypeFunction => RuleStep
    BY BodyRules, EnterFunctionRule
<1>5. T!TypeAddition \/ T!TypeArithmetic \/ T!TypeRelation \/ T!TypeRemainder
        \/ T!TypeLogical \/ T!TypeEquality => RuleStep
    BY OperatorRules
<1>6. T!TakeOperand \/ T!TakeCondition \/ T!TakeThen \/ T!TakeElse \/ T!TypeConditional
        \/ T!TypeAssignment => RuleStep
    BY ConditionalRules, AssignmentRule
<1>7. T!TakeDeclaration \/ T!TakeUnitStatement \/ T!TakeBlockValue \/ T!TypeBlock => RuleStep
    BY DeclarationRule, BlockRules
<1>8. T!FinishDecl \/ T!DeclareOnly \/ T!ResolveDecls => RuleStep
    BY DeclRules DEF RuleStep
<1> QED  BY <1>1, <1>2, <1>3, <1>4, <1>5, <1>6, <1>7, <1>8 DEF T!Next

-----------------------------------------------------------------------------
(* So each action of the type checker keeps what TyperOK says. *)

TypeStep ==
    StopsTyping \/ CallsTerm \/ TakesPart \/ ReturnsType \/ EntersFunction \/ DeclaresType
        \/ T!ResolveDecls

LEMMA TypeStepKeeps ==
    ASSUME TypeSetting, status = "typing", TypeStep
    PROVE  TyperOK'
<1>0. program \in Programs /\ Walk /\ TyperOK
    BY DEF TypeSetting
<1>1. ASSUME StopsTyping PROVE TyperOK'
    <2>1. /\ status' # "typing" /\ UNCHANGED <<program, heap, typed, declType, decl, stack>>
          /\ UNCHANGED <<constraint, currentReturnType, ignored>>
        BY <1>1 DEF StopsTyping
    <2> QED  BY <1>0, <2>1, RestKeeps
<1> QED  BY <1>0, <1>1, TakesKeeps, ReturnsKeeps, CallsKeeps, EntersKeeps, DeclaresKeeps,
            AcceptsKeeps DEF TypeStep

\* A function that is entered has a result.
LEMMA EntersByRuleEnters ==
    ASSUME EntersByRule
    PROVE  EntersFunction
<1>1. PICK fun \in Nodes(heap') :
        /\ heap'.type[fun].parts # <<>>
        /\ stack' = [stack EXCEPT ![1].fun = fun, ![1].prev = currentReturnType]
        /\ currentReturnType' = LastType(heap'.type[fun].parts)
    BY DEF EntersByRule
<1>2. Constrains /\ Good(heap')
    BY DEF EntersByRule, Grows, Constrains, StepsTo
<1>3. currentReturnType' \in Nodes(heap')
    BY <1>1, <1>2, PartsTyped
<1> QED  BY <1>1, <1>2, <1>3 DEF EntersByRule, EntersFunction

LEMMA TyperSteps ==
    ASSUME TypeSetting, T!Next
    PROVE  TypeStep
<1>1. RuleStep
    BY RuleSteps
<1>2. EntersByRule => EntersFunction
    BY EntersByRuleEnters
<1> QED  BY <1>1, <1>2
         DEF RuleStep, TypeStep, CallsByRule, TakesByRule, ReturnsByRule, DeclaresByRule

LEMMA TyperKeeps ==
    ASSUME TypeSetting, T!Next
    PROVE  TyperOK'
BY TyperRuns, TyperSteps, TypeStepKeeps

\* The types that are written down refer to others that come before them.
LEMMA WrittenTypesFounded ==
    ASSUME NEW p \in Programs
    PROVE  Good([type |-> p.types, is |-> [n \in DOMAIN p.types |-> n]])
<1> PICK h : h = [type |-> p.types, is |-> [n \in DOMAIN p.types |-> n]]
    OBVIOUS
<1> PICK S1 : S1 = Type
    OBVIOUS
<1>0. WellFormed(p) /\ p \in Program
    BY BackendAssumption DEF WellFormed
<1>1. p.types \in Seq(S1)
    BY <1>0 DEF Program
<1>2. DOMAIN p.types = 1 .. Len(p.types) /\ Len(p.types) \in Nat
    BY <1>1
<1>3. ASSUME NEW t \in DOMAIN p.types, NEW i \in DOMAIN p.types[t].parts
      PROVE  p.types[t].parts[i].type \in DOMAIN p.types /\ p.types[t].parts[i].type < t
    <2> PICK n : n = p.types[t].parts[i].type
        OBVIOUS
    <2>1. n < t
        BY <1>0 DEF WellFormed
    <2>2. n \in Nat \ {0}
        <3>1. p.types[t] \in Type
            BY <1>1
        <3> PICK M : M = [name : Text, type : Nat \ {0}]
            OBVIOUS
        <3> PICK q : q = p.types[t].parts
            OBVIOUS
        <3>2. q \in Seq(M) /\ i \in DOMAIN q
            BY <3>1 DEF Type
        <3>3. q[i] \in M
            BY ONLY <3>2
        <3>4. q[i].type \in Nat \ {0}
            BY <3>3
        <3> QED  BY <3>4
    <2> QED  BY <1>2, <2>1, <2>2
<1>4. /\ h = [type |-> h.type, is |-> h.is] /\ h.type = p.types /\ Nodes(h) = DOMAIN p.types
      /\ h.is \in [Nodes(h) -> Nodes(h)] /\ \A n \in Nodes(h) : h.is[n] = n
    BY DEF Nodes
<1>5. HeapOK(h)
    <2>1. Typed(h.type)
        BY <1>1, <1>3, <1>4 DEF Typed
    <2> QED  BY <1>4, <2>1 DEF HeapOK
<1>6. Founded(h)
    <2> SUFFICES ASSUME NEW S \in SUBSET StandAlone(h), S # {}
                 PROVE  \E n \in S : Succ(h, n) \cap S = {}
        BY DEF Founded
    <2>1. S \in SUBSET Nat /\ S \subseteq Nodes(h)
        <3>1. S \subseteq Nodes(h)
            BY DEF StandAlone
        <3>2. Nodes(h) = 1 .. Len(p.types) /\ Len(p.types) \in Nat
            BY <1>2, <1>4
        <3> QED  BY ONLY <3>1, <3>2
    <2>2. PICK n \in S : \A k \in S : n <= k
        BY <2>1, FirstOf
    <2>3. ASSUME NEW m \in Succ(h, n) PROVE m \notin S
        <3>1. PICK i \in DOMAIN p.types[n].parts : m = h.is[p.types[n].parts[i].type]
            BY <1>4 DEF Succ, PartsAt
        <3> PICK k : k = p.types[n].parts[i].type
            OBVIOUS
        <3>2. n \in DOMAIN p.types /\ n \in Nat
            BY <1>4, <2>1
        <3>3. k \in DOMAIN p.types /\ k < n
            BY <1>3, <3>1, <3>2
        <3>4. m = k
            BY <1>4, <3>1, <3>3
        <3>5. m \in Nat /\ m < n
            BY <1>2, <3>3, <3>4
        <3> QED  BY <2>2, <3>2, <3>5
    <2> QED  BY <2>3
<1> QED  BY <1>5, <1>6 DEF Good

LEMMA InitTyper ==
    ASSUME Init
    PROVE  TyperOK
<1>1. /\ program \in Programs
      /\ heap = [type |-> program.types, is |-> [n \in DOMAIN program.types |-> n]]
      /\ constraint = [name \in Idents |-> NULL]
      /\ stack = <<>>
      /\ typed = [t \in TermAt |-> NULL]
      /\ declType = [d \in DOMAIN program.decls |-> program.decls[d].type]
      /\ decl = 1 /\ currentReturnType = NULL /\ ignored = FALSE
    BY DEF Init, T!Init, Idents, TermAt
<1>2. Good(heap)
    BY <1>1, WrittenTypesFounded
<1>3. Nodes(heap) = DOMAIN program.types
    BY <1>1 DEF Nodes
<1>4. Noted(heap)
    BY <1>3 DEF Noted
<1>5. Types(heap, constraint)
    BY <1>1 DEF Types
<1>6. typed \in [TermAt -> Nodes(heap) \cup {NULL}]
    BY <1>1
<1>7. declType \in [DOMAIN program.decls -> Nodes(heap) \cup {NULL}]
    <2>1. \A d \in DOMAIN program.decls : program.decls[d].type \in DOMAIN program.types \cup {NULL}
        BY <1>1, BackendAssumption DEF WellFormed
    <2> QED  BY <1>1, <1>3, <2>1
<1>8. Len(stack) = 0 /\ stack \in Seq(Calls(heap))
    BY <1>1
<1>9. StackFits
    BY <1>8 DEF StackFits
<1>10. decl \in 1 .. Len(program.decls) + 1 /\ DeclsFit
    <2>1. Len(program.decls) \in Nat /\ DOMAIN program.decls = 1 .. Len(program.decls)
        BY <1>1, ProgramFacts
    <2> QED  BY <1>1, <2>1 DEF DeclsFit
<1> QED  BY <1>1, <1>2, <1>4, <1>5, <1>6, <1>7, <1>8, <1>9, <1>10 DEF TyperOK

-----------------------------------------------------------------------------
(* The whole *)

LEMMA InitEmitter ==
    ASSUME Init
    PROVE  EmitterOK
<1>1. /\ program \in Programs
      /\ frames = <<>> /\ lines = <<>> /\ emitted = 0
      /\ symbol = [t \in TermAt |-> NULL]
      /\ max = [local |-> program.maxId, label |-> 0, struct |-> 0, global |-> 0]
    BY DEF Init, T!Init, E!Init, TermAt
<1>2. frames \in Seq(Emission) /\ Len(frames) = 0 /\ lines \in Seq(E!Line)
    BY <1>1
<1>3. symbol \in [TermAt -> E!Symbol \cup {NULL}]
    BY <1>1
<1>4. max \in Counter
    <2>1. program.maxId \in Nat
        BY <1>1, ProgramFacts
    <2> QED  BY <1>1, <2>1 DEF Counter
<1>5. emitted \in 0 .. Len(program.decls)
    <2>1. Len(program.decls) \in Nat
        BY <1>1, ProgramFacts
    <2> QED  BY <1>1, <2>1
<1> QED  BY <1>2, <1>3, <1>4, <1>5 DEF EmitterOK

LEMMA EmitterSame ==
    ASSUME EmitterOK, program' = program, UNCHANGED emitterVars
    PROVE  EmitterOK'
<1>1. /\ program' = program /\ frames' = frames /\ symbol' = symbol /\ lines' = lines
      /\ max' = max /\ emitted' = emitted
    BY DEF emitterVars
<1>2. TermAt' = TermAt /\ Emission' = Emission
    BY <1>1 DEF TermAt, Emission
<1>3. (\A f \in 1 .. Len(frames) : Given(frames[f], symbol))'
    BY SMTT(30), <1>1, <1>2 DEF EmitterOK, Given, Parts, Kind
<1> QED  BY <1>1, <1>2, <1>3 DEF EmitterOK

TyperSame ==
    /\ UNCHANGED <<program, heap, typed, declType, decl, stack>>
    /\ UNCHANGED <<constraint, currentReturnType, ignored>>

\* The inductive invariant for the types.
TypesInvariant == Invariant /\ TyperOK /\ EmitterOK

LEMMA TyperKeepsTypes ==
    ASSUME TypesInvariant, T!Next, UNCHANGED emitterVars
    PROVE  TypesInvariant'
<1>1. Invariant /\ TyperOK /\ EmitterOK
    BY DEF TypesInvariant
<1>2. status = "typing" /\ Invariant'
    BY <1>1, TyperRuns, TypeInvariant
<1>3. Walk /\ program \in Programs /\ frames = <<>>
    BY <1>1, <1>2 DEF Invariant
<1>4. program' = program
    <2>1. WalkStep
        BY <1>2, <1>3, TyperStep
    <2> QED  BY <1>3, <2>1, WalkKeeps
<1>5. TyperOK'
    BY <1>1, <1>3, TyperKeeps DEF TypeSetting
<1>6. EmitterOK'
    BY <1>1, <1>4, EmitterSame
<1> QED  BY <1>2, <1>5, <1>6 DEF TypesInvariant

LEMMA EmitterForms ==
    ASSUME TypesInvariant, E!Next, UNCHANGED typerVars
    PROVE  Setting /\ EmitStep /\ EmitForm
<1>1. Invariant /\ TyperOK /\ EmitterOK
    BY DEF TypesInvariant
<1>2. Setting /\ EmitStep
    <2>1. status = "typed"
        BY TurnFacts, CallsFacts, CompletedFacts
           DEF E!Next, E!EmitKid, E!EmitReturnUnit, E!EmitReturn, E!EmitBoolean, E!EmitConstant,
                     E!EmitStructure, E!EmitVar, E!EnterBinary, E!EmitLeft, E!EmitLogical,
                     E!EmitOperator, E!TakeEmitted, E!EmitAssignment, E!EmitLocal, E!EmitBlock,
                     E!EnterCall, E!EmitCall, E!NotImplemented, E!SkipDecl, E!StartFunction,
                     E!FinishFunction, E!Finish, E!AtDecl
    <2>2. Setting
        BY <1>1, <2>1 DEF Invariant, Setting
    <2> QED  BY <2>2, EmitterStep
<1>3. EmitForm
    BY <1>1, <1>2, EmitterForm DEF EmitSetting
<1> QED  BY <1>2, <1>3

LEMMA EmitterKeepsTypes ==
    ASSUME TypesInvariant, E!Next, UNCHANGED typerVars
    PROVE  TypesInvariant'
<1>1. Invariant /\ TyperOK /\ EmitterOK
    BY DEF TypesInvariant
<1>2. Invariant'
    BY <1>1, EmitInvariant
<1>3. Setting /\ EmitStep
    BY EmitterForms
<1>4. EmitForm
    BY EmitterForms
<1>5. EmitterOK'
    BY <1>1, <1>3, <1>4, EmitFormKeeps DEF Setting
<1>6. status' # "typing"
    BY <1>3 DEF EmitStep
<1>7. TyperSame
    BY <1>4 DEF EmitForm, TyperSame, typerVars
<1>8. TyperOK'
    BY <1>1, <1>6, <1>7, RestKeeps DEF TyperSame
<1> QED  BY <1>2, <1>5, <1>8 DEF TypesInvariant

LEMMA NothingKeepsTypes ==
    ASSUME TypesInvariant, UNCHANGED vars
    PROVE  TyperOK' /\ EmitterOK'
<1>1. TyperOK /\ EmitterOK
    BY DEF TypesInvariant
<1>2. /\ program' = program /\ heap' = heap /\ typed' = typed /\ declType' = declType
      /\ status' = status /\ constraint' = constraint /\ stack' = stack /\ decl' = decl
      /\ currentReturnType' = currentReturnType /\ ignored' = ignored
    BY DEF vars, typerVars
<1>3. UNCHANGED emitterVars
    BY DEF vars
<1>4. EmitterOK'
    BY <1>1, <1>2, <1>3, EmitterSame
<1>5. Calls(heap)' = Calls(heap)
    BY <1>2 DEF Calls, TermAt, Nodes
<1>6. Good(heap)' /\ Noted(heap)' /\ Types(heap, constraint)'
    BY <1>1, <1>2 DEF TyperOK, Noted, Types, Idents
<1>7. StackFits' <=> StackFits
    BY <1>2 DEF StackFits, FrameFits, Kind, TermAt, Parts
<1>8. DeclsFit' <=> DeclsFit
    BY <1>2 DEF DeclsFit
<1> QED  BY <1>1, <1>2, <1>4, <1>5, <1>6, <1>7, <1>8 DEF TyperOK, TermAt

LEMMA TypesInvariance == Spec => []TypesInvariant
<1>1. Init => TypesInvariant
    BY InitInvariant, InitTyper, InitEmitter DEF TypesInvariant
<1>2. TypesInvariant /\ T!Next /\ UNCHANGED emitterVars => TypesInvariant'
    BY TyperKeepsTypes
<1>3. TypesInvariant /\ E!Next /\ UNCHANGED typerVars => TypesInvariant'
    BY EmitterKeepsTypes
<1>4. Invariant /\ Invariant' /\ TypesInvariant /\ [Next]_vars => TypesInvariant'
    <2>1. TypesInvariant /\ UNCHANGED vars => TyperOK' /\ EmitterOK'
        BY NothingKeepsTypes
    <2> QED  BY <1>2, <1>3, <2>1 DEF Next, TypesInvariant
<1> QED  BY <1>1, <1>4, Invariance, PTL DEF Spec

-----------------------------------------------------------------------------
(* The state has its type. *)

LEMMA HeapHasItsType ==
    ASSUME TyperOK
    PROVE  /\ heap \in T!Heap /\ heap.is \in [Node -> Node]
           /\ Node = Nodes(heap)
<1>1. Good(heap)
    BY DEF TyperOK
<1> PICK t, i : t = heap.type /\ i = heap.is
    OBVIOUS
<1> PICK S : S = Type
    OBVIOUS
<1>2. heap = [type |-> t, is |-> i] /\ t \in Seq(S) /\ i \in [DOMAIN t -> DOMAIN t]
    BY <1>1 DEF Good, HeapOK, Typed, Nodes
<1>3. DOMAIN t = 1 .. Len(t) /\ Len(t) \in Nat
    BY ONLY <1>2
<1>4. i \in [1 .. Len(t) -> Nat \ {0}]
    BY ONLY <1>2, <1>3
<1>5. i \in Seq(Nat \ {0})
    BY ONLY <1>3, <1>4
<1>6. [type |-> t, is |-> i] \in [type : Seq(S), is : Seq(Nat \ {0})]
    BY ONLY <1>2, <1>5
<1>7. heap \in T!Heap
    <2>1. T!Type = Type
        <3>1. T!TypeKind = TypeKind
            BY DEF T!TypeKind, TypeKind, T!Numeric, Numeric, T!Integral, Integral, T!Structs, Structs
        <3>2. T!Text = Text
            BY DEF T!Text, Text
        <3>3. T!Numeric = Numeric
            BY DEF T!Numeric, Numeric, T!Integral, Integral
        <3> QED  BY <3>1, <3>2, <3>3 DEF T!Type, Type
    <2>2. T!Heap = [type : Seq(S), is : Seq(Nat \ {0})]
        BY <2>1 DEF T!Heap
    <2> QED  BY <1>2, <1>6, <2>2
<1> QED  BY <1>2, <1>7 DEF Node, Nodes

\* The whole state has its type, in every program: a type that is not a variable
\* stands for itself and the others for such types, the terms, the identifiers
\* and the declarations have types that are there, and every line that the
\* emitter writes is of symbols that it has.
THEOREM StateHasItsType == Spec => []TypeOK
<1>1. TypesInvariant => TypeOK
    <2> SUFFICES ASSUME TypesInvariant PROVE TypeOK
        OBVIOUS
    <2>1. TyperOK /\ EmitterOK
        BY DEF TypesInvariant
    <2>2. status \in {"typing", "typed", "emitted", "fatal", "crash"}
        BY DEF TypesInvariant, Invariant
    <2>3. heap \in T!Heap /\ heap.is \in [Node -> Node] /\ Node = Nodes(heap)
        BY <2>1, HeapHasItsType
    <2>4. /\ constraint \in [Idents -> Node \cup {NULL}]
          /\ typed \in [TermAt -> Node \cup {NULL}]
          /\ declType \in [DOMAIN program.decls -> Node \cup {NULL}]
          /\ currentReturnType \in Node \cup {NULL}
          /\ decl \in 1 .. Len(program.decls) + 1
          /\ ignored \in BOOLEAN
        BY <2>1, <2>3 DEF TyperOK, Types
    <2>5. stack \in Seq([term : TermAt \cup {NULL}, at : Nat,
                         fun : Node \cup {NULL}, prev : Node \cup {NULL}])
        BY <2>1, <2>3 DEF TyperOK, Calls
    <2>6. /\ frames \in Seq([term : TermAt, at : Nat, result : E!Symbol \cup {NULL}, label : Nat])
          /\ symbol \in [TermAt -> E!Symbol \cup {NULL}]
          /\ lines \in Seq(E!Line)
          /\ max \in [local : Nat, label : Nat, struct : Nat, global : Nat]
          /\ emitted \in 0 .. Len(program.decls)
        BY <2>1 DEF EmitterOK, Emission, Counter
    <2> QED  BY <2>2, <2>3, <2>4, <2>5, <2>6 DEF TypeOK
<1> QED  BY <1>1, TypesInvariance, PTL

-----------------------------------------------------------------------------
(* What the types are, and that they can be constrained. *)

\* No type leads back to itself through its parts and what those stand for, and
\* only a variable stands for another type, in every program and at every step:
\* also after an answer of constrainTypes that was false, when the pairs before
\* the refused one have been bound.
TypesFounded == Good(heap)

THEOREM NoTypeContainsItself == Spec => []TypesFounded
<1>1. TypesInvariant => TypesFounded
    BY DEF TypesInvariant, TyperOK, TypesFounded
<1> QED  BY <1>1, TypesInvariance, PTL

\* Whichever types constrainTypes is called for at whatever time, the pairs that
\* it goes through come to an end, in what it returns.
ConstrainTypesEnds ==
    \A a, b \in Node :
        RunsTo(heap, With(heap, <<T!Pair(a, b, TRUE)>>), T!constrainTypes(heap, a, b))

THEOREM EveryCallEnds == Spec => []ConstrainTypesEnds
<1>1. TypesInvariant => ConstrainTypesEnds
    <2> SUFFICES ASSUME TypesInvariant, NEW a \in Node, NEW b \in Node
                 PROVE  RunsTo(heap, With(heap, <<T!Pair(a, b, TRUE)>>), T!constrainTypes(heap, a, b))
        BY DEF ConstrainTypesEnds
    <2>1. Good(heap) /\ Node = Nodes(heap)
        BY DEF TypesInvariant, TyperOK, Node, Nodes
    <2> QED  BY <2>1, ConstrainTypesRuns
<1> QED  BY <1>1, TypesInvariance, PTL

-----------------------------------------------------------------------------
(* While the type checker runs, the terms that are done are typed by the   *)
(* rules, and so are those that have been begun, as far as they are.       *)

Exp(d) == program.decls[d].exp

\* The declaration that a term is in, by what DeclOf says of it.
InDecl(d, t) ==
    /\ d \in DOMAIN program.decls /\ Exp(d) # NULL /\ Exp(d) >= t
    /\ \A c \in 1 .. d - 1 : Exp(c) # NULL => Exp(c) < t

Bottom(s) == s[Len(s)]

\* The running calls s are within one declaration d, and the only function is
\* the one that they begin with; its result r is what a return is compared with.
Nested(s, h, d, r) ==
    IF s = <<>>
    THEN r = NULL
    ELSE /\ d \in DOMAIN program.decls /\ Bottom(s).term = Exp(d)
         /\ \A i \in 1 .. Len(s) : s[i].term # NULL => InDecl(d, s[i].term)
         /\ \A i \in 1 .. Len(s) - 1 : s[i].term # NULL => Kind(s[i].term) # "function"
         /\ IF Bottom(s).fun = NULL
            THEN r = NULL
            ELSE /\ Kind(Bottom(s).term) = "function" /\ Bottom(s).prev = NULL
                 /\ Bottom(s).fun \in Nodes(h) /\ h.type[Bottom(s).fun].kind = "fun"
                 /\ r = LastType(h.type[Bottom(s).fun].parts)

DoneBy(h, c, y) == \A t \in TermAt : y[t] # NULL => RuleIn(h, c, y, t)

BegunBy(h, c, y, s) == \A i \in 1 .. Len(s) : s[i].term # NULL => PartlyIn(h, c, y, s[i])

\* t returns what a function of type n returns.
ReturnsTo(h, y, t, n) ==
    /\ n \in Nodes(h) /\ h.type[n].kind = "fun"
    /\ Equals(h, y[Parts(t)[1]], LastType(h.type[n].parts))

\* The function that a return is in is typed, or it is the one that runs.
ReturnIn(h, y, s, d, t) ==
    \E e \in DOMAIN program.decls :
        /\ InDecl(e, t) /\ Kind(Exp(e)) = "function"
        /\ IF y[Exp(e)] # NULL
           THEN ReturnsTo(h, y, t, y[Exp(e)])
           ELSE s # <<>> /\ d = e /\ Bottom(s).fun # NULL /\ ReturnsTo(h, y, t, Bottom(s).fun)

ReturnsBy(h, y, s, d) ==
    \A t \in TermAt : y[t] # NULL /\ Kind(t) = "return" => ReturnIn(h, y, s, d, t)

RulesHold ==
    /\ Nested(stack, heap, decl, currentReturnType)
    /\ ReturnsBy(heap, typed, stack, decl)
    /\ ~ignored => DoneBy(heap, constraint, typed) /\ BegunBy(heap, constraint, typed, stack)

\* The same of the next state.
RulesHoldNext ==
    /\ Nested(stack', heap', decl', currentReturnType')
    /\ ReturnsBy(heap', typed', stack', decl')
    /\ ~ignored' => DoneBy(heap', constraint', typed') /\ BegunBy(heap', constraint', typed', stack')

LEMMA RulePrimes ==
    ASSUME program' = program, NEW t, NEW h, NEW c, NEW y
    PROVE  RuleIn(h, c, y, t) <=> RuleIn(h, c, y, t)'
<1>1. Kind(t)' = Kind(t) /\ Names(t)' = Names(t) /\ Notes(t)' = Notes(t) /\ Parts(t)' = Parts(t)
    BY DEF Kind, Names, Notes, Parts
<1>2. VarIn(h, c, y, t) <=> VarIn(h, c, y, t)'
    BY <1>1 DEF VarIn
<1>3. FunctionIn(h, c, y, t) <=> FunctionIn(h, c, y, t)'
    BY <1>1 DEF FunctionIn, HeadIn
<1>4. ApplicationIn(h, y, t) <=> ApplicationIn(h, y, t)'
    BY <1>1 DEF ApplicationIn, ArgumentsIn
<1>5. BinaryIn(h, y, t) <=> BinaryIn(h, y, t)'
    BY <1>1 DEF BinaryIn, OperandsIn
<1>6. ConditionalIn(h, y, t) <=> ConditionalIn(h, y, t)'
    BY <1>1 DEF ConditionalIn, ConditionIn
<1>7. AssignmentIn(h, y, t) <=> AssignmentIn(h, y, t)'
    BY <1>1 DEF AssignmentIn
<1>8. StatementsIn(h, c, y, t, Len(Names(t))) <=> StatementsIn(h, c, y, t, Len(Names(t)))'
    BY <1>1 DEF StatementsIn, StatementIn
<1> QED  BY <1>1, <1>2, <1>3, <1>4, <1>5, <1>6, <1>7, <1>8 DEF RuleIn

LEMMA PartlyPrimes ==
    ASSUME program' = program, NEW f, NEW h, NEW c, NEW y
    PROVE  PartlyIn(h, c, y, f) <=> PartlyIn(h, c, y, f)'
<1> PICK t : t = f.term
    OBVIOUS
<1>1. Kind(t)' = Kind(t) /\ Names(t)' = Names(t) /\ Notes(t)' = Notes(t) /\ Parts(t)' = Parts(t)
    BY DEF Kind, Names, Notes, Parts
<1>2. HeadIn(h, c, f.fun, t) <=> HeadIn(h, c, f.fun, t)'
    BY <1>1 DEF HeadIn
<1>3. ArgumentsIn(h, y, t, f.at) <=> ArgumentsIn(h, y, t, f.at)'
    BY <1>1 DEF ArgumentsIn
<1>4. ConditionIn(h, y, t, f.at) <=> ConditionIn(h, y, t, f.at)'
    BY <1>1 DEF ConditionIn
<1>5. StatementsIn(h, c, y, t, f.at) <=> StatementsIn(h, c, y, t, f.at)'
    BY <1>1 DEF StatementsIn, StatementIn
<1> QED  BY <1>1, <1>2, <1>3, <1>4, <1>5 DEF PartlyIn

LEMMA NestedPrimes ==
    ASSUME program' = program, NEW s, NEW h, NEW d, NEW r
    PROVE  Nested(s, h, d, r) <=> Nested(s, h, d, r)'
BY DEF Nested, InDecl, Exp, Bottom, Kind

LEMMA ReturnPrimes ==
    ASSUME program' = program, NEW t, NEW h, NEW y, NEW s, NEW d
    PROVE  ReturnIn(h, y, s, d, t) <=> ReturnIn(h, y, s, d, t)'
<1>1. \A e : /\ InDecl(e, t) <=> InDecl(e, t)'
             /\ Exp(e) = Exp(e)' /\ Kind(Exp(e)) = Kind(Exp(e))'
    BY DEF InDecl, Exp, Kind
<1>2. \A n : ReturnsTo(h, y, t, n) <=> ReturnsTo(h, y, t, n)'
    BY DEF ReturnsTo, Parts
<1> QED  BY <1>1, <1>2 DEF ReturnIn

LEMMA RulesNext ==
    ASSUME program' = program, RulesHoldNext
    PROVE  RulesHold'
<1> PICK h, c, y, s : h = heap' /\ c = constraint' /\ y = typed' /\ s = stack'
    OBVIOUS
<1> PICK d, r : d = decl' /\ r = currentReturnType'
    OBVIOUS
<1>1. /\ Nested(s, h, d, r) /\ ReturnsBy(h, y, s, d)
      /\ ~ignored' => DoneBy(h, c, y) /\ BegunBy(h, c, y, s)
    BY DEF RulesHoldNext
<1>2. TermAt' = TermAt
    BY DEF TermAt
<1>3. Nested(s, h, d, r)'
    BY <1>1, NestedPrimes
<1>4. ReturnsBy(h, y, s, d)'
    <2>1. \A t : Kind(t)' = Kind(t)
        BY DEF Kind
    <2> QED  BY <1>1, <1>2, <2>1, ReturnPrimes DEF ReturnsBy
<1>5. DoneBy(h, c, y) => DoneBy(h, c, y)'
    BY <1>2, RulePrimes DEF DoneBy
<1>6. BegunBy(h, c, y, s) => BegunBy(h, c, y, s)'
    BY PartlyPrimes DEF BegunBy
<1>7. /\ Nested(stack, heap, decl, currentReturnType)'
      /\ ReturnsBy(heap, typed, stack, decl)'
    BY <1>3, <1>4 DEF Nested, ReturnsBy, ReturnIn, ReturnsTo, Bottom
<1> QED  BY <1>1, <1>5, <1>6, <1>7 DEF RulesHold

-----------------------------------------------------------------------------
(* What the rules say is kept when types are added and others are bound. *)

LEMMA DoneKept ==
    ASSUME TypeSetting, DoneBy(heap, constraint, typed),
           NEW g, NEW d, NEW z, Moves(heap, g, constraint, d, typed, z), NEW t \in Done
    PROVE  RuleIn(g, d, z, t)
<1> PICK h, c, y : h = heap /\ c = constraint /\ y = typed
    OBVIOUS
<1>1. t \in TermAt /\ RuleIn(h, c, y, t)
    BY DEF Done, DoneBy
<1>2. \A i \in DOMAIN Parts(t) : Parts(t)[i] \in TermAt
    BY DEF TypeSetting, Walk, Closed, Done
<1>3. program \in Programs /\ Moves(h, g, c, d, y, z)
    BY DEF TypeSetting
<1> QED  BY ONLY <1>1, <1>2, <1>3, RuleKept

LEMMA BegunKept ==
    ASSUME TypeSetting, BegunBy(heap, constraint, typed, stack),
           NEW g, NEW d, NEW z, Moves(heap, g, constraint, d, typed, z),
           NEW i \in 1 .. Len(stack), stack[i].term # NULL
    PROVE  PartlyIn(g, d, z, stack[i])
<1> PICK h, c, y, f : h = heap /\ c = constraint /\ y = typed /\ f = stack[i]
    OBVIOUS
<1>1. FrameOK(f, program.terms, typed) /\ f.term # NULL
    BY DEF TypeSetting, Walk, StackOK
<1>2. f.term \in TermAt /\ f.at \in Nat /\ \A j \in 1 .. f.at : Parts(f.term)[j] \in TermAt
    BY <1>1 DEF FrameOK, Parts, TermAt
<1>3. program \in Programs /\ Moves(h, g, c, d, y, z) /\ PartlyIn(h, c, y, f)
    BY DEF TypeSetting, BegunBy
<1> QED  BY ONLY <1>1, <1>2, <1>3, PartlyKept, f = stack[i]

LEMMA ReturnsToKept ==
    ASSUME TypeSetting, NEW g, NEW d, NEW z, Moves(heap, g, constraint, d, typed, z),
           NEW t \in TermAt, Parts(t)[1] \in TermAt, NEW n, ReturnsTo(heap, typed, t, n)
    PROVE  ReturnsTo(g, z, t, n)
<1> PICK h, c, y, k : h = heap /\ c = constraint /\ y = typed /\ k = Parts(t)[1]
    OBVIOUS
<1>1. Moves(h, g, c, d, y, z) /\ k \in TermAt /\ Later(h, g)
    BY DEF Moves
<1>2. n \in Nodes(h) /\ h.type[n].kind = "fun" /\ Equals(h, y[k], LastType(h.type[n].parts))
    BY DEF ReturnsTo
<1>3. Nodes(h) \subseteq Nodes(g) /\ \A m \in Nodes(h) : g.type[m] = h.type[m]
    BY <1>1, LaterNodes
<1> PICK l : l = LastType(h.type[n].parts)
    OBVIOUS
<1>4. Equals(g, z[k], l)
    BY ONLY <1>1, <1>2, l = LastType(h.type[n].parts), EqualsMoves
<1> QED  BY <1>2, <1>3, <1>4 DEF ReturnsTo

\* The function that is entered is still entered, or typed.
LEMMA ReturnInKept ==
    ASSUME TypeSetting, NEW g, NEW d, NEW z, Moves(heap, g, constraint, d, typed, z),
           NEW t \in Done, Kind(t) = "return", ReturnIn(heap, typed, stack, decl, t),
           NEW s, NEW e,
           decl \in DOMAIN program.decls /\ stack # <<>> /\ Bottom(stack).fun # NULL
               /\ typed[Exp(decl)] = NULL =>
           \/ z[Exp(decl)] = NULL /\ s # <<>> /\ e = decl /\ Bottom(s).fun = Bottom(stack).fun
           \/ z[Exp(decl)] = Bottom(stack).fun
    PROVE  ReturnIn(g, z, s, e, t)
<1>0. program \in Programs /\ Walk /\ TyperOK
    BY DEF TypeSetting
<1>1. t \in TermAt /\ Parts(t)[1] \in TermAt
    BY <1>0, TermFacts DEF Walk, Closed, Done
<1>2. PICK a \in DOMAIN program.decls :
        /\ InDecl(a, t) /\ Kind(Exp(a)) = "function"
        /\ IF typed[Exp(a)] # NULL
           THEN ReturnsTo(heap, typed, t, typed[Exp(a)])
           ELSE stack # <<>> /\ decl = a /\ Bottom(stack).fun # NULL
                /\ ReturnsTo(heap, typed, t, Bottom(stack).fun)
    BY DEF ReturnIn
<1>3. Exp(a) \in TermAt
    BY <1>0, <1>2, ProgramFacts DEF InDecl, Exp, Roots
<1>4. NULL \notin Nodes(heap)
    BY <1>0, NodesFacts DEF TyperOK
<1>5. \A n : ReturnsTo(heap, typed, t, n) => ReturnsTo(g, z, t, n)
    BY <1>1, ReturnsToKept
<1>6. CASE typed[Exp(a)] # NULL
    <2>1. typed[Exp(a)] \in Nodes(heap) /\ heap.type[typed[Exp(a)]].kind = "fun"
        BY <1>2, <1>6 DEF ReturnsTo
    <2>2. Good(heap) /\ Stays(heap, TermAt, typed, z) /\ Later(heap, g)
        BY DEF Moves
    <2>3. z[Exp(a)] = typed[Exp(a)]
        BY <1>3, <2>1, <2>2, NodeKept
    <2> QED  BY <1>2, <1>5, <1>6, <2>3 DEF ReturnIn
<1>7. CASE typed[Exp(a)] = NULL
    <2>1. stack # <<>> /\ decl = a /\ Bottom(stack).fun # NULL /\ ReturnsTo(heap, typed, t, Bottom(stack).fun)
        BY <1>2, <1>7
    <2>2. CASE z[Exp(a)] = NULL /\ s # <<>> /\ e = a /\ Bottom(s).fun = Bottom(stack).fun
        BY <1>2, <1>5, <2>1, <2>2 DEF ReturnIn
    <2>3. CASE z[Exp(a)] = Bottom(stack).fun
        BY <1>2, <1>5, <2>1, <2>3 DEF ReturnIn
    <2> QED  BY <1>7, <2>1, <2>2, <2>3
<1> QED  BY <1>6, <1>7

\* The call that the others are in.
LEMMA NestedKept ==
    ASSUME TypeSetting, Nested(stack, heap, decl, currentReturnType), NEW g, Later(heap, g),
           NEW s, s # <<>>, stack # <<>>, Bottom(s).term = Bottom(stack).term,
           Bottom(s).fun = Bottom(stack).fun, Bottom(s).prev = Bottom(stack).prev,
           \A i \in 1 .. Len(s) : s[i].term # NULL => InDecl(decl, s[i].term),
           \A i \in 1 .. Len(s) - 1 : s[i].term # NULL => Kind(s[i].term) # "function"
    PROVE  Nested(s, g, decl, currentReturnType)
<1>1. Nodes(heap) \subseteq Nodes(g) /\ \A n \in Nodes(heap) : g.type[n] = heap.type[n]
    BY LaterNodes
<1> QED  BY <1>1 DEF Nested

-----------------------------------------------------------------------------
(* The steps. *)

LEMMA BottomFacts ==
    ASSUME TypeSetting, stack # <<>>, Nested(stack, heap, decl, currentReturnType)
    PROVE  /\ Len(stack) \in Nat \ {0} /\ stack[1] = Head(stack)
           /\ Bottom(stack) = stack[Len(stack)] /\ Bottom(stack) \in Calls(heap)
           /\ Bottom(stack).term # NULL => Bottom(stack).term \in TermAt
           /\ decl \in DOMAIN program.decls /\ Bottom(stack).term = Exp(decl)
           /\ Head(stack).term # NULL => Head(stack).term \in TermAt
           /\ TopTerm # NULL /\ Kind(TopTerm) = "function" => Len(stack) = 1
<1>1. /\ Len(stack) \in Nat \ {0} /\ stack[1] = Head(stack)
      /\ \A i \in 1 .. Len(stack) : stack[i] \in Calls(heap)
    BY StackFacts DEF TypeSetting
<1>2. Bottom(stack) = stack[Len(stack)] /\ Bottom(stack) \in Calls(heap) /\ Head(stack) \in Calls(heap)
    BY <1>1 DEF Bottom
<1>3. decl \in DOMAIN program.decls /\ Bottom(stack).term = Exp(decl)
    BY DEF Nested
<1>4. \A i \in 1 .. Len(stack) - 1 : stack[i].term # NULL => Kind(stack[i].term) # "function"
    BY DEF Nested
<1>5. TopTerm # NULL /\ Kind(TopTerm) = "function" => Len(stack) = 1
    <2>1. Len(stack) # 1 => 1 \in 1 .. Len(stack) - 1
        <3> PICK n : n = Len(stack)
            OBVIOUS
        <3>1. n \in Nat \ {0}
            BY <1>1
        <3>2. n # 1 => 1 \in 1 .. n - 1
            BY ONLY <3>1
        <3> QED  BY <3>2
    <2>2. stack[1].term = TopTerm
        BY <1>1 DEF TopTerm
    <2> QED  BY <1>4, <2>1, <2>2
<1> QED  BY <1>1, <1>2, <1>3, <1>5 DEF Calls

LEMMA TakesHold ==
    ASSUME TypeSetting, RulesHold, TakesByRule
    PROVE  RulesHoldNext
<1>0. /\ program \in Programs /\ TyperOK /\ TypeSetting
      /\ InTerm /\ stack # <<>> /\ Grows /\ stack' = [stack EXCEPT ![1].at = @ + 1]
      /\ UNCHANGED <<program, typed, declType, decl, currentReturnType, status>>
    BY DEF TypeSetting, TakesByRule, TakesPart, InTerm
<1>1. Moves(heap, heap', constraint, constraint', typed, typed) /\ Later(heap, heap')
    BY <1>0, GrowsMoves DEF Grows
<1> PICK f : f = [Head(stack) EXCEPT !.at = @ + 1]
    OBVIOUS
<1>2. f.term = TopTerm /\ f.fun = Head(stack).fun /\ f.prev = Head(stack).prev
    <2>1. Head(stack) \in Calls(heap)
        BY <1>0, StackFacts
    <2> QED  BY <2>1 DEF Calls, TopTerm
<1>3. Nested(stack, heap, decl, currentReturnType)
    BY DEF RulesHold
<1> PICK C, s : C = Calls(heap) /\ s = stack'
    OBVIOUS
<1>4. stack \in Seq(C) /\ stack[1] = Head(stack)
    BY <1>0, StackFacts DEF TyperOK
<1>5. s = [stack EXCEPT ![1] = f]
    BY <1>0, <1>4
<1>6. /\ Len(s) = Len(stack) /\ Len(stack) \in Nat \ {0}
      /\ s[1] = f /\ \A i \in 2 .. Len(stack) : s[i] = stack[i]
    BY <1>0, <1>4, <1>5, SetFacts
<1>7. \A i \in 1 .. Len(stack) :
        s[i].term = stack[i].term /\ s[i].fun = stack[i].fun /\ s[i].prev = stack[i].prev
    <2> SUFFICES ASSUME NEW i \in 1 .. Len(stack)
                 PROVE  s[i].term = stack[i].term /\ s[i].fun = stack[i].fun /\ s[i].prev = stack[i].prev
        OBVIOUS
    <2>1. i = 1 \/ i \in 2 .. Len(stack)
        BY <1>6
    <2>2. Head(stack).term = TopTerm
        BY DEF TopTerm
    <2> QED  BY <1>2, <1>4, <1>6, <2>1, <2>2
<1>8. s # <<>> /\ Bottom(s).fun = Bottom(stack).fun
    BY <1>6, <1>7 DEF Bottom
<1>9. Nested(s, heap', decl, currentReturnType)
    <2>1. Bottom(s).term = Bottom(stack).term /\ Bottom(s).prev = Bottom(stack).prev
        BY <1>6, <1>7 DEF Bottom
    <2>2. /\ \A i \in 1 .. Len(s) : s[i].term # NULL => InDecl(decl, s[i].term)
          /\ \A i \in 1 .. Len(s) - 1 : s[i].term # NULL => Kind(s[i].term) # "function"
        BY <1>0, <1>3, <1>6, <1>7 DEF Nested
    <2> QED  BY <1>0, <1>1, <1>3, <1>8, <2>1, <2>2, NestedKept
<1>10. ReturnsBy(heap', typed, s, decl)
    <2> SUFFICES ASSUME NEW t \in TermAt, typed[t] # NULL, Kind(t) = "return"
                 PROVE  ReturnIn(heap', typed, s, decl, t)
        BY DEF ReturnsBy
    <2>1. t \in Done /\ ReturnIn(heap, typed, stack, decl, t)
        BY DEF Done, RulesHold, ReturnsBy
    <2> QED  BY <1>0, <1>1, <1>8, <2>1, ReturnInKept
<1>11. ASSUME ~ignored' PROVE DoneBy(heap', constraint', typed) /\ BegunBy(heap', constraint', typed, s)
    <2>1. DoneBy(heap, constraint, typed) /\ BegunBy(heap, constraint, typed, stack)
        BY <1>0, <1>11 DEF RulesHold, Grows
    <2>2. DoneBy(heap', constraint', typed)
        BY <1>0, <1>1, <2>1, DoneKept DEF DoneBy, Done
    <2>3. PartlyHolds
        BY <1>0, <1>4, <1>6, <2>1 DEF BegunBy, PartlyHolds, InTerm, TopTerm
    <2>4. PartlyIn(heap', constraint', typed, f)
        BY <1>11, <2>3 DEF TakesByRule
    <2>5. ASSUME NEW i \in 1 .. Len(s), s[i].term # NULL
          PROVE  PartlyIn(heap', constraint', typed, s[i])
        <3>1. CASE i = 1
            BY <1>6, <2>4, <3>1
        <3>2. CASE i # 1
            <4>1. i \in 1 .. Len(stack) /\ s[i] = stack[i]
                BY <1>6, <3>2
            <4> QED  BY <1>0, <1>1, <2>1, <2>5, <4>1, BegunKept
        <3> QED  BY <3>1, <3>2
    <2> QED  BY <2>2, <2>5 DEF BegunBy
<1> QED  BY <1>0, <1>9, <1>10, <1>11 DEF RulesHoldNext

LEMMA EntersHold ==
    ASSUME TypeSetting, RulesHold, EntersByRule
    PROVE  RulesHoldNext
<1>0. /\ program \in Programs /\ TyperOK /\ TypeSetting
      /\ InTerm /\ stack # <<>> /\ Grows /\ Kind(TopTerm) = "function" /\ Head(stack).fun = NULL
      /\ UNCHANGED <<program, typed, declType, decl, status>>
    BY DEF TypeSetting, EntersByRule, InTerm
<1>1. Moves(heap, heap', constraint, constraint', typed, typed) /\ Later(heap, heap')
    BY <1>0, GrowsMoves DEF Grows
<1>2. Nested(stack, heap, decl, currentReturnType)
    BY DEF RulesHold
<1>3. Len(stack) = 1 /\ Bottom(stack) = Head(stack) /\ stack[1] = Head(stack)
    BY <1>0, <1>2, BottomFacts DEF InTerm
<1>4. currentReturnType = NULL
    BY <1>0, <1>2, <1>3 DEF Nested
<1>5. PICK fun \in Nodes(heap') :
        /\ heap'.type[fun].kind = "fun" /\ heap'.type[fun].parts # <<>>
        /\ stack' = [stack EXCEPT ![1].fun = fun, ![1].prev = currentReturnType]
        /\ currentReturnType' = LastType(heap'.type[fun].parts)
        /\ ~ignored' => HeadIn(heap', constraint', fun, TopTerm)
    BY DEF EntersByRule
<1> PICK C, s, f, r : /\ C = Calls(heap) /\ s = stack' /\ r = currentReturnType'
                      /\ f = [term |-> TopTerm, at |-> TopAt, fun |-> fun, prev |-> NULL]
    OBVIOUS
<1>6. stack \in Seq(C) /\ Head(stack) \in C
    BY <1>0, StackFacts DEF TyperOK
<1>7. s = [stack EXCEPT ![1] = f]
    <2> PICK c, e : c = Head(stack) /\ e = [c EXCEPT !.fun = fun]
        OBVIOUS
    <2>1. e = [term |-> c.term, at |-> c.at, fun |-> fun, prev |-> c.prev]
        BY <1>6 DEF Calls
    <2>2. f = [e EXCEPT !.prev = NULL]
        <3> PICK d : d = [e EXCEPT !.prev = NULL]
            OBVIOUS
        <3>1. c.term = TopTerm /\ c.at = TopAt
            BY DEF TopTerm, TopAt
        <3>2. d = [term |-> c.term, at |-> c.at, fun |-> fun, prev |-> NULL]
            BY <2>1
        <3> QED  BY <3>1, <3>2
    <2> PICK q : q = [stack EXCEPT ![1] = e]
        OBVIOUS
    <2> PICK A : A = C \cup {e}
        OBVIOUS
    <2>3. stack \in Seq(A) /\ e \in A
        <3>1. C \subseteq A
            OBVIOUS
        <3> QED  BY <1>6, <3>1
    <2>4. q[1] = e
        BY <1>0, <2>3
    <2>5. s = [q EXCEPT ![1].prev = NULL]
        BY <1>3, <1>4, <1>5
    <2>6. s = [q EXCEPT ![1] = f]
        BY <2>2, <2>4, <2>5
    <2> QED  BY <1>0, <2>3, <2>6
<1>8. Len(s) = 1 /\ s[1] = f /\ s # <<>>
    BY <1>0, <1>3, <1>6, <1>7, SetFacts
<1>9. Bottom(s) = f
    BY <1>8 DEF Bottom
<1>10. Nested(s, heap', decl, r)
    <2>1. /\ decl \in DOMAIN program.decls /\ TopTerm = Exp(decl)
          /\ InDecl(decl, TopTerm)
        BY <1>0, <1>2, <1>3 DEF Nested, TopTerm, InTerm
    <2>2. \A i \in 1 .. Len(s) : s[i].term # NULL => InDecl(decl, s[i].term)
        BY <1>8, <2>1
    <2>3. \A i \in 1 .. Len(s) - 1 : s[i].term # NULL => Kind(s[i].term) # "function"
        BY <1>8
    <2>4. fun # NULL
        BY <1>1, LaterNodes, NodesFacts
    <2>5. Bottom(s).term = TopTerm /\ Bottom(s).fun = fun /\ Bottom(s).prev = NULL
        BY <1>9
    <2>6. r = LastType(heap'.type[fun].parts)
        BY <1>5
    <2> QED  BY <1>0, <1>5, <1>8, <2>1, <2>2, <2>3, <2>4, <2>5, <2>6 DEF Nested
<1>11. ReturnsBy(heap', typed, s, decl)
    <2> SUFFICES ASSUME NEW t \in TermAt, typed[t] # NULL, Kind(t) = "return"
                 PROVE  ReturnIn(heap', typed, s, decl, t)
        BY DEF ReturnsBy
    <2>1. t \in Done /\ ReturnIn(heap, typed, stack, decl, t)
        BY DEF Done, RulesHold, ReturnsBy
    <2> QED  BY <1>0, <1>1, <1>3, <2>1, ReturnInKept
<1>12. ASSUME ~ignored' PROVE DoneBy(heap', constraint', typed) /\ BegunBy(heap', constraint', typed, s)
    <2>1. DoneBy(heap, constraint, typed)
        BY <1>0, <1>12 DEF RulesHold, Grows
    <2>2. DoneBy(heap', constraint', typed)
        BY <1>0, <1>1, <2>1, DoneKept DEF DoneBy, Done
    <2>3. PartlyIn(heap', constraint', typed, f)
        <3>1. HeadIn(heap', constraint', f.fun, f.term) /\ Kind(f.term) = "function"
            BY <1>0, <1>5, <1>12
        <3> HIDE DEF HeadIn
        <3> QED  BY <3>1 DEF PartlyIn
    <2> QED  BY <1>8, <2>2, <2>3 DEF BegunBy
<1> QED  BY <1>0, <1>10, <1>11, <1>12 DEF RulesHoldNext

LEMMA DeclaresHold ==
    ASSUME TypeSetting, RulesHold, DeclaresByRule
    PROVE  RulesHoldNext
<1>0. /\ TyperOK /\ TypeSetting /\ Grows /\ stack = <<>>
      /\ UNCHANGED <<program, stack, typed, currentReturnType, ignored, status>>
    BY DEF TypeSetting, DeclaresByRule, DeclaresType
<1>1. Moves(heap, heap', constraint, constraint', typed, typed)
    BY <1>0, GrowsMoves
<1>2. Nested(stack', heap', decl', currentReturnType')
    BY <1>0 DEF RulesHold, Nested
<1>3. ReturnsBy(heap', typed, stack, decl')
    <2> SUFFICES ASSUME NEW t \in TermAt, typed[t] # NULL, Kind(t) = "return"
                 PROVE  ReturnIn(heap', typed, stack, decl', t)
        BY DEF ReturnsBy
    <2>1. t \in Done /\ ReturnIn(heap, typed, stack, decl, t)
        BY DEF Done, RulesHold, ReturnsBy
    <2> QED  BY <1>0, <1>1, <2>1, ReturnInKept
<1>4. ~ignored' => DoneBy(heap', constraint', typed) /\ BegunBy(heap', constraint', typed, stack)
    <2>1. BegunBy(heap', constraint', typed, stack)
        BY <1>0 DEF BegunBy
    <2> QED  BY <1>0, <1>1, <2>1, DoneKept DEF DoneBy, Done, RulesHold
<1> QED  BY <1>0, <1>2, <1>3, <1>4 DEF RulesHoldNext

LEMMA LaidOutFacts ==
    ASSUME program \in Programs
    PROVE  /\ \A c, d \in DOMAIN program.decls :
                c < d /\ Exp(c) # NULL /\ Exp(d) # NULL => Exp(c) < Exp(d)
           /\ \A d \in DOMAIN program.decls, t \in TermAt : \A i \in DOMAIN Parts(t) :
                Exp(d) # NULL /\ Exp(d) < t /\ Parts(t)[i] # NULL => Exp(d) < Parts(t)[i]
           /\ \A t \in TermAt :
                t \in Roots \/ \E u \in TermAt : \E i \in DOMAIN Parts(u) : Parts(u)[i] = t
           /\ \A t \in TermAt : \A i \in DOMAIN Parts(t) :
                IF Parts(t)[i] = NULL THEN Kind(t) = "block" ELSE Kind(Parts(t)[i]) # "function"
           /\ \A d \in DOMAIN program.decls : Exp(d) # NULL => Exp(d) \in TermAt
<1>1. WellFormed(program) /\ LaidOut(program)
    BY BackendAssumption DEF WellFormed
<1>2. \A c, d \in DOMAIN program.decls :
        c < d /\ Exp(c) # NULL /\ Exp(d) # NULL => Exp(c) < Exp(d)
    BY <1>1 DEF LaidOut, Exp
<1>3. \A d \in DOMAIN program.decls, t \in TermAt : \A i \in DOMAIN Parts(t) :
        Exp(d) # NULL /\ Exp(d) < t /\ Parts(t)[i] # NULL => Exp(d) < Parts(t)[i]
    BY <1>1 DEF LaidOut, Exp, TermAt, Parts
<1>4. \A t \in TermAt :
        t \in Roots \/ \E u \in TermAt : \E i \in DOMAIN Parts(u) : Parts(u)[i] = t
    <2> SUFFICES ASSUME NEW t \in TermAt
                 PROVE  t \in Roots \/ \E u \in TermAt : \E i \in DOMAIN Parts(u) : Parts(u)[i] = t
        OBVIOUS
    <2>1. \/ \E d \in DOMAIN program.decls : program.decls[d].exp = t
          \/ \E u \in TermAt : \E i \in DOMAIN Parts(u) : Parts(u)[i] = t
        BY <1>1 DEF LaidOut, TermAt, Parts
    <2>2. t # NULL
        BY ProgramFacts, BackendAssumption
    <2> QED  BY <2>1, <2>2 DEF Roots
<1>5. \A t \in TermAt : \A i \in DOMAIN Parts(t) :
        IF Parts(t)[i] = NULL THEN Kind(t) = "block" ELSE Kind(Parts(t)[i]) # "function"
    BY <1>1 DEF WellFormed, TermAt, Parts, Kind
<1>6. \A d \in DOMAIN program.decls : Exp(d) # NULL => Exp(d) \in TermAt
    BY <1>1 DEF WellFormed, Exp, TermAt
<1> QED  BY <1>2, <1>3, <1>4, <1>5, <1>6

\* A declaration is what its term is in, and so is each part of a term in it.
LEMMA InDeclFacts ==
    ASSUME program \in Programs
    PROVE  /\ \A d \in DOMAIN program.decls : Exp(d) # NULL => InDecl(d, Exp(d))
           /\ \A d, t : t \in TermAt /\ InDecl(d, t) =>
                \A i \in DOMAIN Parts(t) : Parts(t)[i] # NULL => InDecl(d, Parts(t)[i])
<1>0. /\ TermAt = 1 .. Len(program.terms) /\ Len(program.terms) \in Nat
      /\ DOMAIN program.decls = 1 .. Len(program.decls) /\ Len(program.decls) \in Nat
    BY ProgramFacts
<1>1. ASSUME NEW d \in DOMAIN program.decls, Exp(d) # NULL PROVE InDecl(d, Exp(d))
    <2>1. Exp(d) \in TermAt
        BY <1>1, LaidOutFacts
    <2>2. ASSUME NEW c \in 1 .. d - 1, Exp(c) # NULL PROVE Exp(c) < Exp(d)
        <3>1. c \in DOMAIN program.decls /\ c < d
            BY <1>0
        <3> QED  BY <1>1, <2>2, <3>1, LaidOutFacts
    <2> QED  BY <1>0, <1>1, <2>1, <2>2 DEF InDecl
<1>2. ASSUME NEW d, NEW t \in TermAt, InDecl(d, t), NEW i \in DOMAIN Parts(t), Parts(t)[i] # NULL
      PROVE  InDecl(d, Parts(t)[i])
    <2>1. Parts(t)[i] \in TermAt /\ Parts(t)[i] < t
        BY <1>2, TermFacts
    <2>2. /\ d \in DOMAIN program.decls /\ Exp(d) # NULL /\ Exp(d) >= t
          /\ \A c \in 1 .. d - 1 : Exp(c) # NULL => Exp(c) < t
        BY <1>2 DEF InDecl
    <2>3. Exp(d) >= Parts(t)[i]
        <3>1. Exp(d) \in TermAt
            BY <2>2, LaidOutFacts
        <3> QED  BY <1>0, <2>1, <2>2, <3>1
    <2>4. ASSUME NEW c \in 1 .. d - 1, Exp(c) # NULL PROVE Exp(c) < Parts(t)[i]
        <3>1. c \in DOMAIN program.decls
            BY <1>0, <2>2
        <3> QED  BY <1>2, <2>2, <2>4, <3>1, LaidOutFacts
    <2> QED  BY <2>2, <2>3, <2>4 DEF InDecl
<1> QED  BY <1>1, <1>2

\* Nothing has been dealt with yet.
LEMMA NothingBegun ==
    ASSUME NEW t, NEW h, NEW c, NEW y
    PROVE  PartlyIn(h, c, y, T!Frame(t))
<1>1. T!Frame(t).term = t /\ T!Frame(t).at = 0 /\ T!Frame(t).fun = NULL
    BY DEF T!Frame
<1>2. ConditionIn(h, y, t, 0)
    BY DEF ConditionIn
<1>3. StatementsIn(h, c, y, t, 0)
    BY DEF StatementsIn
<1> QED  BY <1>1, <1>2, <1>3 DEF PartlyIn

LEMMA CallsHold ==
    ASSUME TypeSetting, RulesHold, CallsByRule
    PROVE  RulesHoldNext
<1>0. /\ program \in Programs /\ TyperOK /\ TypeSetting /\ Walk
      /\ UNCHANGED <<program, heap, typed, declType, decl, status>>
      /\ UNCHANGED <<constraint, currentReturnType, ignored>>
    BY DEF TypeSetting, CallsByRule, CallsTerm
<1> PICK t : t = IF stack = <<>> THEN program.decls[decl].exp ELSE NextPart
    OBVIOUS
<1>1. /\ \/ InTerm /\ TopAt < Len(Parts(TopTerm))
         \/ stack = <<>>
      /\ stack = <<>> => t # NULL /\ decl \in DOMAIN program.decls /\ t = Exp(decl)
      /\ stack # <<>> => t = NextPart
      /\ stack' = <<T!Frame(t)>> \o stack
    BY DEF CallsByRule, Called, Exp
<1>2. Nested(stack, heap, decl, currentReturnType)
    BY DEF RulesHold
<1>3. Moves(heap, heap, constraint, constraint, typed, typed) /\ Later(heap, heap)
    <2>1. Good(heap) /\ Later(heap, heap)
        BY <1>0, LaterItself DEF TyperOK
    <2> QED  BY <2>1 DEF Moves, Stays
<1> PICK C, s : C = Calls(heap) /\ s = stack'
    OBVIOUS
<1>4. stack \in Seq(C)
    BY <1>0 DEF TyperOK
<1>5. /\ Len(s) = Len(stack) + 1 /\ Len(stack) \in Nat /\ s # <<>>
      /\ s[1] = T!Frame(t) /\ s[1].term = t /\ s[1].fun = NULL
      /\ \A i \in 1 .. Len(stack) : s[i + 1] = stack[i]
      /\ \A i \in 2 .. Len(stack) + 1 : s[i] = stack[i - 1]
    <2>1. T!Frame(t).term = t /\ T!Frame(t).fun = NULL
        BY DEF T!Frame
    <2>2. s = <<T!Frame(t)>> \o stack
        BY <1>1
    <2>3. /\ Len(s) = Len(stack) + 1 /\ Len(stack) \in Nat
          /\ s[1] = T!Frame(t)
          /\ \A i \in 1 .. Len(stack) : s[i + 1] = stack[i]
          /\ \A i \in 2 .. Len(stack) + 1 : s[i] = stack[i - 1]
        BY <1>4, <2>2, PushFacts
    <2>4. s # <<>>
        BY <2>2, <2>3
    <2> QED  BY <2>1, <2>3, <2>4
<1>6. stack # <<>> => Bottom(s) = Bottom(stack)
    <2>1. stack # <<>> => Len(stack) \in 1 .. Len(stack)
        BY <1>4
    <2> QED  BY <1>5, <2>1 DEF Bottom
<1>7. Nested(s, heap, decl, currentReturnType)
    <2>1. CASE stack = <<>>
        <3>1. Len(s) = 1 /\ Bottom(s) = s[1]
            BY <1>5, <2>1 DEF Bottom
        <3>2. InDecl(decl, t)
            BY <1>0, <1>1, <2>1, InDeclFacts
        <3>3. currentReturnType = NULL
            BY <1>2, <2>1 DEF Nested
        <3>4. ASSUME NEW i \in 1 .. Len(s) PROVE InDecl(decl, s[i].term)
            <4>1. i = 1
                BY <3>1
            <4> QED  BY <1>5, <3>2, <4>1
        <3>5. \A i \in 1 .. Len(s) - 1 : s[i].term # NULL => Kind(s[i].term) # "function"
            BY <3>1
        <3>6. Bottom(s).term = Exp(decl) /\ Bottom(s).fun = NULL
            BY <1>1, <1>5, <2>1, <3>1
        <3> QED  BY <1>1, <1>5, <2>1, <3>3, <3>4, <3>5, <3>6 DEF Nested
    <2>2. CASE stack # <<>>
        <3>1. /\ \A i \in 1 .. Len(stack) : stack[i].term # NULL => InDecl(decl, stack[i].term)
              /\ \A i \in 1 .. Len(stack) - 1 : stack[i].term # NULL => Kind(stack[i].term) # "function"
            BY <1>2, <2>2 DEF Nested
        <3>2. TopTerm \in TermAt /\ TopAt + 1 \in DOMAIN Parts(TopTerm) /\ InDecl(decl, TopTerm)
            <4>1. /\ TopTerm \in TermAt /\ TopTerm = stack[1].term /\ TopTerm # NULL
                  /\ Len(stack) \in Nat \ {0} /\ TopAt \in 0 .. Len(Parts(TopTerm))
                BY <1>0, <1>1, <2>2, InTermFacts DEF TopTerm, InTerm
            <4>2. DOMAIN Parts(TopTerm) = 1 .. Len(Parts(TopTerm)) /\ Len(Parts(TopTerm)) \in Nat
                BY <1>0, <4>1, TermFacts
            <4>3. 1 \in 1 .. Len(stack)
                BY <4>1
            <4> QED  BY <1>1, <2>2, <3>1, <4>1, <4>2, <4>3
        <3>3. t # NULL => InDecl(decl, t) /\ Kind(t) # "function"
            BY <1>0, <1>1, <2>2, <3>2, InDeclFacts, LaidOutFacts DEF NextPart
        <3>4. ASSUME NEW i \in 1 .. Len(s), s[i].term # NULL PROVE InDecl(decl, s[i].term)
            <4>1. i = 1 \/ (i - 1 \in 1 .. Len(stack) /\ s[i] = stack[i - 1])
                BY <1>5
            <4> QED  BY <1>5, <3>1, <3>3, <3>4, <4>1
        <3>5. ASSUME NEW i \in 1 .. Len(s) - 1, s[i].term # NULL PROVE Kind(s[i].term) # "function"
            <4>1. i = 1 \/ (i - 1 \in 1 .. Len(stack) - 1 /\ s[i] = stack[i - 1])
                BY <1>5
            <4> QED  BY <1>5, <3>1, <3>3, <3>5, <4>1
        <3> QED  BY <1>0, <1>2, <1>3, <1>5, <1>6, <2>2, <3>4, <3>5, NestedKept
    <2> QED  BY <2>1, <2>2
<1>8. ReturnsBy(heap, typed, s, decl)
    <2> SUFFICES ASSUME NEW u \in TermAt, typed[u] # NULL, Kind(u) = "return"
                 PROVE  ReturnIn(heap, typed, s, decl, u)
        BY DEF ReturnsBy
    <2>1. u \in Done /\ ReturnIn(heap, typed, stack, decl, u)
        BY DEF Done, RulesHold, ReturnsBy
    <2> QED  BY <1>0, <1>3, <1>5, <1>6, <2>1, ReturnInKept
<1>9. ASSUME ~ignored PROVE DoneBy(heap, constraint, typed) /\ BegunBy(heap, constraint, typed, s)
    <2>1. DoneBy(heap, constraint, typed) /\ BegunBy(heap, constraint, typed, stack)
        BY <1>9 DEF RulesHold
    <2>2. ASSUME NEW i \in 1 .. Len(s), s[i].term # NULL
          PROVE  PartlyIn(heap, constraint, typed, s[i])
        <3>1. i = 1 \/ (i - 1 \in 1 .. Len(stack) /\ s[i] = stack[i - 1])
            BY <1>5
        <3>2. CASE i = 1
            BY <1>5, <3>2, NothingBegun
        <3>3. CASE i - 1 \in 1 .. Len(stack) /\ s[i] = stack[i - 1]
            BY <2>1, <2>2, <3>3 DEF BegunBy
        <3> QED  BY <3>1, <3>2, <3>3
    <2> QED  BY <2>1, <2>2 DEF BegunBy
<1> QED  BY <1>0, <1>7, <1>8, <1>9 DEF RulesHoldNext

LEMMA ReturnsHold ==
    ASSUME TypeSetting, RulesHold, ReturnsByRule
    PROVE  RulesHoldNext
<1>0. /\ program \in Programs /\ TyperOK /\ TypeSetting /\ Walk
      /\ InTerm /\ stack # <<>> /\ Grows /\ stack' = Tail(stack)
      /\ UNCHANGED <<program, declType, decl, status>>
    BY DEF TypeSetting, ReturnsByRule, ReturnsType, InTerm
<1>1. PICK n \in Nodes(heap') : typed' = [typed EXCEPT ![TopTerm] = n]
    BY DEF ReturnsByRule, ReturnsType
<1> PICK y, C, s, b : y = typed' /\ C = Calls(heap) /\ s = stack' /\ b = Bottom(stack)
    OBVIOUS
<1>2. /\ TopTerm \in TermAt /\ TopTerm # NULL /\ stack[1] = Head(stack) /\ stack[1].term = TopTerm
      /\ typed[TopTerm] = NULL
      /\ \A i \in 1 .. TopAt : Parts(TopTerm)[i] \in Done
    BY <1>0, InTermFacts DEF TopTerm, InTerm
<1>3. /\ y[TopTerm] = n /\ n # NULL
      /\ \A t \in TermAt : t # TopTerm => y[t] = typed[t]
    <2>1. DOMAIN typed = TermAt
        BY <1>0 DEF TyperOK
    <2>2. n # NULL
        <3>1. Good(heap')
            BY <1>0 DEF Grows, Constrains, StepsTo
        <3> QED  BY <3>1, NodesFacts
    <2> QED  BY <1>1, <1>2, <2>1, <2>2
<1>4. Moves(heap, heap', constraint, constraint', typed, y) /\ Later(heap, heap')
    <2>1. Moves(heap, heap', constraint, constraint', typed, typed)
        BY <1>0, GrowsMoves
    <2>2. Stays(heap, TermAt, typed, y)
        <3>1. NULL \notin Nodes(heap)
            BY <1>0, NodesFacts DEF TyperOK
        <3> QED  BY <1>2, <1>3, <3>1 DEF Stays
    <2> QED  BY <2>1, <2>2 DEF Moves
<1>5. stack \in Seq(C)
    BY <1>0 DEF TyperOK
<1>6. /\ Len(stack) \in Nat \ {0} /\ Len(s) = Len(stack) - 1 /\ s \in Seq(C)
      /\ \A i \in 1 .. Len(stack) - 1 : s[i] = stack[i + 1]
    BY <1>0, <1>5, PopFacts
<1>7. Nested(stack, heap, decl, currentReturnType)
    BY DEF RulesHold
<1>8. /\ decl \in DOMAIN program.decls /\ b.term = Exp(decl)
      /\ b.fun = NULL => currentReturnType = NULL
      /\ b.fun # NULL => Kind(b.term) = "function" /\ b.prev = NULL
            /\ b.fun \in Nodes(heap) /\ heap.type[b.fun].kind = "fun"
            /\ currentReturnType = LastType(heap.type[b.fun].parts)
      /\ \A i \in 1 .. Len(stack) : stack[i].term # NULL => InDecl(decl, stack[i].term)
      /\ \A i \in 1 .. Len(stack) - 1 : stack[i].term # NULL => Kind(stack[i].term) # "function"
    BY <1>0, <1>7 DEF Nested
<1>9. s = <<>> => Len(stack) = 1 /\ b = Head(stack)
    <2>1. s = <<>> => Len(s) = 0
        OBVIOUS
    <2>2. Len(stack) = 1 => b = Head(stack)
        BY <1>2 DEF Bottom
    <2> QED  BY <1>6, <2>1, <2>2
<1>10. s # <<>> => /\ Bottom(s) = b /\ Len(s) \in Nat \ {0}
                   /\ Kind(TopTerm) # "function" /\ b.term # TopTerm
                   /\ typed[b.term] = NULL /\ b.term \in TermAt
    <2> SUFFICES ASSUME s # <<>> PROVE /\ Bottom(s) = b /\ Len(s) \in Nat \ {0}
                                       /\ Kind(TopTerm) # "function" /\ b.term # TopTerm
                                       /\ typed[b.term] = NULL /\ b.term \in TermAt
        OBVIOUS
    <2>1. Len(s) \in Nat \ {0} /\ Len(stack) = Len(s) + 1
        <3> PICK k : k = Len(s)
            OBVIOUS
        <3>1. k \in Nat /\ k # 0
            BY <1>6
        <3> QED  BY <1>6, <3>1
    <2>2. Bottom(s) = b
        BY <1>6, <2>1 DEF Bottom
    <2>3. 1 \in 1 .. Len(stack) - 1 /\ 1 < Len(stack)
        BY <2>1
    <2>4. Kind(TopTerm) # "function"
        BY <1>2, <1>8, <2>3
    <2>5. b.term # NULL /\ TopTerm < b.term /\ FrameOK(b, program.terms, typed)
        <3>1. 1 \in 1 .. Len(stack) /\ Len(stack) \in 1 .. Len(stack)
            BY <1>6
        <3> QED  BY <1>0, <1>2, <2>3, <3>1 DEF Walk, StackOK, Bottom
    <2>6. typed[b.term] = NULL /\ b.term \in TermAt
        BY <2>5 DEF FrameOK, TermAt
    <2>7. b.term # TopTerm
        BY <2>5, <2>6, <1>2, ProgramFacts, <1>0
    <2> QED  BY <2>1, <2>2, <2>4, <2>6, <2>7
<1>11. Kind(TopTerm) = "function" => s = <<>> /\ b = Head(stack) /\ b.fun # NULL
            /\ y[TopTerm] = b.fun /\ currentReturnType' = b.prev
    BY <1>9, <1>10 DEF ReturnsByRule
<1>12. Kind(TopTerm) # "function" => currentReturnType' = currentReturnType
    BY DEF ReturnsByRule
<1>13. Nested(s, heap', decl, currentReturnType')
    <2>1. CASE s = <<>>
        <3>1. Kind(TopTerm) # "function" => b.fun = NULL
            BY <1>8, <1>9, <2>1 DEF TopTerm
        <3>2. currentReturnType' = NULL
            BY <1>8, <1>11, <1>12, <3>1
        <3> QED  BY <2>1, <3>2 DEF Nested
    <2>2. CASE s # <<>>
        <3>1. /\ \A i \in 1 .. Len(s) : s[i].term # NULL => InDecl(decl, s[i].term)
              /\ \A i \in 1 .. Len(s) - 1 : s[i].term # NULL => Kind(s[i].term) # "function"
            <4>1. \A i \in 1 .. Len(s) : i + 1 \in 1 .. Len(stack) /\ s[i] = stack[i + 1]
                BY <1>6, <1>10, <2>2
            <4>2. \A i \in 1 .. Len(s) - 1 : i \in 1 .. Len(s) /\ i + 1 \in 1 .. Len(stack) - 1
                BY <1>6, <1>10, <2>2
            <4> QED  BY <1>8, <4>1, <4>2
        <3>2. currentReturnType' = currentReturnType
            BY <1>10, <1>12, <2>2
        <3>3. Nested(s, heap', decl, currentReturnType)
            BY <1>0, <1>4, <1>7, <1>10, <2>2, <3>1, NestedKept
        <3> QED  BY <3>2, <3>3
    <2> QED  BY <2>1, <2>2
<1>14. ReturnsBy(heap', y, s, decl)
    <2> SUFFICES ASSUME NEW t \in TermAt, y[t] # NULL, Kind(t) = "return"
                 PROVE  ReturnIn(heap', y, s, decl, t)
        BY DEF ReturnsBy
    <2>1. CASE t # TopTerm
        <3>1. t \in Done /\ ReturnIn(heap, typed, stack, decl, t)
            BY <1>3, <2>1 DEF Done, RulesHold, ReturnsBy
        <3>2. \/ s # <<>> /\ y[Exp(decl)] = NULL /\ Bottom(s).fun = Bottom(stack).fun
              \/ Bottom(stack).fun # NULL => y[Exp(decl)] = Bottom(stack).fun
            <4>1. CASE s # <<>>
                BY <1>3, <1>8, <1>10, <4>1
            <4>2. CASE s = <<>>
                <5>1. b = Head(stack) /\ Exp(decl) = TopTerm
                    BY <1>8, <1>9, <4>2 DEF TopTerm
                <5>2. b.fun # NULL => Kind(TopTerm) = "function"
                    BY <1>8, <5>1
                <5> QED  BY <1>11, <5>1, <5>2
            <4> QED  BY <4>1, <4>2
        <3> QED  BY <1>0, <1>4, <2>1, <3>1, <3>2, ReturnInKept
    <2>2. CASE t = TopTerm
        <3>1. /\ currentReturnType # NULL /\ Kind(TopTerm) # "function"
              /\ Equals(heap', typed[Parts(TopTerm)[1]], currentReturnType)
            BY <2>2 DEF ReturnsByRule
        <3>2. /\ b.fun # NULL /\ Kind(b.term) = "function" /\ b.fun \in Nodes(heap)
              /\ heap.type[b.fun].kind = "fun" /\ currentReturnType = LastType(heap.type[b.fun].parts)
            BY <1>8, <3>1
        <3>3. s # <<>>
            BY <1>9, <3>1, <3>2 DEF TopTerm
        <3>4. y[Exp(decl)] = NULL
            BY <1>3, <1>8, <1>10, <3>3
        <3>5. InDecl(decl, t)
            <4>1. 1 \in 1 .. Len(stack)
                BY <1>6
            <4> QED  BY <1>2, <1>8, <2>2, <4>1
        <3>6. y[Parts(t)[1]] = typed[Parts(t)[1]]
            <4>1. Len(Parts(t)) = 1 /\ DOMAIN Parts(t) = 1 .. Len(Parts(t))
                BY <1>0, <2>2, TermFacts
            <4>2. 1 \in DOMAIN Parts(t) /\ Parts(t)[1] # NULL
                BY <1>0, <2>2, <4>1, LaidOutFacts
            <4>3. Parts(t)[1] \in TermAt /\ Parts(t)[1] < t
                BY <1>0, <4>2, TermFacts
            <4>4. Parts(t)[1] # t
                BY <1>0, <4>3, ProgramFacts
            <4> QED  BY <1>3, <2>2, <4>3, <4>4
        <3>7. Nodes(heap) \subseteq Nodes(heap') /\ \A m \in Nodes(heap) : heap'.type[m] = heap.type[m]
            BY <1>4, LaterNodes
        <3>8. ReturnsTo(heap', y, t, b.fun)
            BY <2>2, <3>1, <3>2, <3>6, <3>7 DEF ReturnsTo
        <3>9. Bottom(s).fun = b.fun /\ Kind(Exp(decl)) = "function"
            BY <1>8, <1>10, <3>2, <3>3
        <3> QED  BY <1>8, <3>2, <3>3, <3>4, <3>5, <3>8, <3>9 DEF ReturnIn
    <2> QED  BY <2>1, <2>2
<1>15. ASSUME ~ignored' PROVE DoneBy(heap', constraint', y) /\ BegunBy(heap', constraint', y, s)
    <2>1. DoneBy(heap, constraint, typed) /\ BegunBy(heap, constraint, typed, stack)
        BY <1>0, <1>15 DEF RulesHold, Grows
    <2>2. PartlyHolds
        BY <1>2, <1>6, <2>1 DEF BegunBy, PartlyHolds
    <2>3. RuleIn(heap', constraint', y, TopTerm)
        BY <1>15, <2>2 DEF ReturnsByRule
    <2>4. ASSUME NEW t \in TermAt, y[t] # NULL PROVE RuleIn(heap', constraint', y, t)
        <3>1. CASE t = TopTerm
            BY <2>3, <3>1
        <3>2. CASE t # TopTerm
            <4>1. t \in Done
                BY <1>3, <2>4, <3>2 DEF Done
            <4> QED  BY <1>0, <1>4, <2>1, <4>1, DoneKept
        <3> QED  BY <3>1, <3>2
    <2>5. ASSUME NEW i \in 1 .. Len(s), s[i].term # NULL PROVE PartlyIn(heap', constraint', y, s[i])
        <3>1. i + 1 \in 1 .. Len(stack) /\ s[i] = stack[i + 1]
            BY <1>6
        <3> QED  BY <1>0, <1>4, <2>1, <2>5, <3>1, BegunKept
    <2> QED  BY <2>4, <2>5 DEF DoneBy, BegunBy
<1> QED  BY <1>0, <1>13, <1>14, <1>15 DEF RulesHoldNext

\* A step of the type checker after which it goes on.
LEMMA TypingKeepsRules ==
    ASSUME TypeSetting, RulesHold, status' = "typing", T!Next
    PROVE  RulesHold'
<1>1. RuleStep
    BY RuleSteps
<1>2. StopsTyping => status' # "typing"
    BY DEF StopsTyping
<1>3. T!ResolveDecls => status' # "typing"
    BY DEF T!ResolveDecls
<1>4. program' = program
    BY <1>1, <1>2, <1>3
       DEF RuleStep, CallsByRule, CallsTerm, TakesByRule, TakesPart, ReturnsByRule, ReturnsType,
           EntersByRule, DeclaresByRule, DeclaresType
<1>5. RulesHoldNext
    BY <1>1, <1>2, <1>3, CallsHold, TakesHold, ReturnsHold, EntersHold, DeclaresHold DEF RuleStep
<1> QED  BY <1>4, <1>5, RulesNext

LEMMA InitRules ==
    ASSUME Init
    PROVE  RulesHold
<1>1. stack = <<>> /\ currentReturnType = NULL /\ typed = [t \in TermAt |-> NULL]
    BY DEF Init, T!Init, TermAt
<1>2. Nested(stack, heap, decl, currentReturnType)
    BY <1>1 DEF Nested
<1>3. ReturnsBy(heap, typed, stack, decl) /\ DoneBy(heap, constraint, typed)
    BY <1>1 DEF ReturnsBy, DoneBy
<1>4. BegunBy(heap, constraint, typed, stack)
    BY <1>1 DEF BegunBy
<1> QED  BY <1>2, <1>3, <1>4 DEF RulesHold

LEMMA SameRules ==
    ASSUME RulesHold, TyperSame
    PROVE  RulesHold'
<1>1. RulesHoldNext
    BY DEF RulesHold, RulesHoldNext, TyperSame
<1> QED  BY <1>1, RulesNext DEF TyperSame

-----------------------------------------------------------------------------
(* When all declarations have been dealt with, so have all terms. *)

LEMMA LastOf ==
    ASSUME NEW n \in Nat, NEW S \in SUBSET (1 .. n), S # {}
    PROVE  \E m \in S : \A k \in S : k <= m
<1> PICK R : R = {n - k : k \in S}
    OBVIOUS
<1>1. R \in SUBSET Nat /\ R # {}
    <2>1. \A k \in 1 .. n : n - k \in Nat
        OBVIOUS
    <2>2. R \subseteq Nat
        BY <2>1
    <2>3. PICK k : k \in S
        OBVIOUS
    <2>4. n - k \in R
        BY <2>3
    <2> QED  BY <2>2, <2>4
<1>2. PICK r \in R : \A k \in R : r <= k
    BY <1>1, FirstOf
<1>3. PICK m \in S : r = n - m
    BY <1>2
<1>4. ASSUME NEW k \in S PROVE k <= m
    <2>1. n - k \in R
        BY <1>4
    <2>2. r <= n - k
        BY <1>2, <2>1
    <2> QED  BY <1>3, <2>2
<1> QED  BY <1>4

LEMMA AllDone ==
    ASSUME TypeSetting, Nested(stack, heap, decl, currentReturnType), decl > Len(program.decls)
    PROVE  stack = <<>> /\ Done = TermAt
<1>0. program \in Programs /\ Walk
    BY DEF TypeSetting
<1>1. /\ DOMAIN program.decls = 1 .. Len(program.decls) /\ Len(program.decls) \in Nat
      /\ TermAt = 1 .. Len(program.terms) /\ Len(program.terms) \in Nat
    BY <1>0, ProgramFacts
<1>2. decl \notin DOMAIN program.decls /\ \A d \in DOMAIN program.decls : d < decl
    BY <1>0, <1>1 DEF Walk
<1>3. stack = <<>>
    BY <1>2 DEF Nested
<1>4. Roots \subseteq Done
    BY <1>0, <1>2 DEF Walk, Roots
<1>5. ASSUME TermAt \ Done # {} PROVE FALSE
    <2>1. PICK t \in TermAt \ Done : \A u \in TermAt \ Done : u <= t
        BY <1>1, <1>5, LastOf
    <2>2. PICK u \in TermAt : \E i \in DOMAIN Parts(u) : Parts(u)[i] = t
        BY <1>0, <1>4, <2>1, LaidOutFacts
    <2>3. t < u
        <3>1. t # NULL
            BY <1>1, BackendAssumption
        <3> QED  BY <1>0, <2>2, <3>1, TermFacts
    <2>4. u \in Done
        BY <1>1, <2>1, <2>3
    <2> QED  BY <1>0, <2>1, <2>2, <2>4 DEF Walk, Closed
<1> QED  BY <1>3, <1>5 DEF Done

\* ResolveDecls puts what a type stands for in its place, or leaves it.
LEMMA AcceptingMoves ==
    ASSUME TypeSetting, T!ResolveDecls
    PROVE  Moves(heap, heap, constraint, constraint', typed, typed')
<1>0. TyperOK
    BY DEF TypeSetting
<1> PICK exps, names : /\ exps = {program.decls[d].exp : d \in DOMAIN program.decls}
                       /\ names = {program.decls[d].name : d \in DOMAIN program.decls}
    OBVIOUS
<1>1. PICK copies \in SUBSET T!Overwritten :
        /\ typed' = [t \in DOMAIN typed |->
                        IF t \in exps \cup copies THEN heap.is[typed[t]] ELSE typed[t]]
        /\ constraint' = [name \in DOMAIN constraint |->
                        IF name \in names THEN heap.is[constraint[name]] ELSE constraint[name]]
    BY DEF T!ResolveDecls
<1>2. DOMAIN typed = TermAt /\ DOMAIN constraint = Idents
    BY <1>0 DEF TyperOK, Types
<1>3. Stays(heap, TermAt, typed, typed')
    BY <1>1, <1>2 DEF Stays
<1>4. Stays(heap, Idents, constraint, constraint')
    BY <1>1, <1>2 DEF Stays
<1>5. Good(heap) /\ Later(heap, heap)
    BY <1>0, LaterItself DEF TyperOK
<1> QED  BY <1>3, <1>4, <1>5 DEF Moves

\* All terms are typed by the rules, and no call is running.
AllTyped == RulesHold /\ stack = <<>> /\ Done = TermAt

LEMMA AcceptingTypes ==
    ASSUME TypeSetting, RulesHold, T!ResolveDecls
    PROVE  AllTyped'
<1>0. /\ TyperOK /\ decl > Len(program.decls)
      /\ UNCHANGED <<program, heap, stack, decl, currentReturnType, ignored>>
    BY DEF TypeSetting, T!ResolveDecls
<1>1. Nested(stack, heap, decl, currentReturnType)
    BY DEF RulesHold
<1>2. stack = <<>> /\ Done = TermAt
    BY <1>0, <1>1, AllDone
<1> PICK d, z : d = constraint' /\ z = typed'
    OBVIOUS
<1>3. Moves(heap, heap, constraint, d, typed, z)
    BY AcceptingMoves
<1>4. \A t \in TermAt : typed[t] \in Nodes(heap) /\ z[t] \in Nodes(heap)
    <2>1. \A t \in TermAt : typed[t] \in Nodes(heap)
        BY <1>0, <1>2 DEF Done, TyperOK
    <2>2. Good(heap) /\ Later(heap, heap) /\ Stays(heap, TermAt, typed, z)
        BY <1>3 DEF Moves
    <2> QED  BY <2>1, <2>2, NodeKept
<1>5. NULL \notin Nodes(heap)
    BY <1>0, NodesFacts DEF TyperOK
<1>6. ReturnsBy(heap, z, stack, decl)
    <2> SUFFICES ASSUME NEW t \in TermAt, z[t] # NULL, Kind(t) = "return"
                 PROVE  ReturnIn(heap, z, stack, decl, t)
        BY DEF ReturnsBy
    <2>1. t \in Done /\ ReturnIn(heap, typed, stack, decl, t)
        BY <1>2 DEF Done, RulesHold, ReturnsBy
    <2> QED  BY <1>2, <1>3, <2>1, ReturnInKept
<1>7. ASSUME ~ignored PROVE DoneBy(heap, d, z) /\ BegunBy(heap, d, z, stack)
    <2>1. DoneBy(heap, constraint, typed)
        BY <1>7 DEF RulesHold
    <2>2. DoneBy(heap, d, z)
        BY <1>2, <1>3, <2>1, DoneKept DEF DoneBy
    <2> QED  BY <1>2, <2>2 DEF BegunBy
<1>8. RulesHoldNext
    BY <1>0, <1>1, <1>6, <1>7 DEF RulesHoldNext
<1>9. Done' = TermAt'
    BY <1>0, <1>4, <1>5 DEF Done, TermAt
<1> QED  BY <1>0, <1>2, <1>8, <1>9, RulesNext DEF AllTyped

-----------------------------------------------------------------------------
(* What is typed by the rules is well typed. *)

LEMMA FunctionStands ==
    ASSUME NEW h, Good(h), NEW n \in Nodes(h), h.type[n].kind = "fun"
    PROVE  h.is[n] = n
BY DEF Good, HeapOK

LEMMA DeclOfIs ==
    ASSUME NEW t, NEW e, InDecl(e, t), program \in Programs, t \in TermAt
    PROVE  DeclOf(program, t) = e
<1>0. /\ DOMAIN program.decls = 1 .. Len(program.decls) /\ Len(program.decls) \in Nat
      /\ TermAt = 1 .. Len(program.terms) /\ Len(program.terms) \in Nat
    BY ProgramFacts
<1>1. DeclOf(program, t) = CHOOSE d \in DOMAIN program.decls : InDecl(d, t)
    <2>1. \A d \in DOMAIN program.decls :
            InDecl(d, t) <=> /\ program.decls[d].exp # NULL /\ program.decls[d].exp >= t
                             /\ \A c \in 1 .. d - 1 : program.decls[c].exp # NULL => program.decls[c].exp < t
        BY DEF InDecl, Exp
    <2> QED  BY ONLY <2>1 DEF DeclOf
<1>2. \A c, d : InDecl(c, t) /\ InDecl(d, t) => ~(c < d)
    <2> SUFFICES ASSUME NEW c, NEW d, InDecl(c, t), InDecl(d, t), c < d PROVE FALSE
        OBVIOUS
    <2>1. /\ c \in DOMAIN program.decls /\ d \in DOMAIN program.decls /\ Exp(c) # NULL /\ Exp(c) >= t
          /\ \A b \in 1 .. d - 1 : Exp(b) # NULL => Exp(b) < t
        BY DEF InDecl
    <2>2. c \in 1 .. d - 1
        BY <1>0, <2>1
    <2>3. Exp(c) \in TermAt
        BY <2>1, LaidOutFacts
    <2> QED  BY <1>0, <2>1, <2>2, <2>3
<1>3. \A d \in DOMAIN program.decls : InDecl(d, t) => d = e
    <2> SUFFICES ASSUME NEW d \in DOMAIN program.decls, InDecl(d, t) PROVE d = e
        OBVIOUS
    <2>1. e \in DOMAIN program.decls
        BY DEF InDecl
    <2>2. ~(d < e)
        BY <1>2
    <2>3. ~(e < d)
        BY <1>2
    <2> QED  BY <1>0, <2>1, <2>2, <2>3
<1>4. e \in DOMAIN program.decls
    BY DEF InDecl
<1> QED  BY <1>1, <1>3, <1>4

LEMMA EqualsIs ==
    ASSUME NEW a, NEW b, Equals(heap, a, b)
    PROVE  Equal(a, b)
BY DEF Equals, Equal

LEMMA KindIs ==
    ASSUME NEW n, NEW kinds, KindIn(heap, n, kinds)
    PROVE  Is(n).kind \in kinds
BY DEF KindIn, As, Is

\* The names of the rules for those of the model.
LEMMA PartFacts ==
    ASSUME NEW t
    PROVE  /\ \A i : KidType(t, i) = typed[Parts(t)[i]] /\ KidIs(t, i) = Is(typed[Parts(t)[i]])
           /\ PartsOf(t) = Is(typed[t]).parts
           /\ program.terms[t].names = Names(t) /\ program.terms[t].notes = Notes(t)
           /\ program.terms[t].kids = Parts(t)
BY DEF KidType, KidIs, PartsOf, Parts, Names, Notes

LEMMA FunctionAgrees ==
    ASSUME program \in Programs, TyperOK, NEW t \in TermAt, Kind(t) = "function",
           FunctionIn(heap, constraint, typed, t)
    PROVE  FunctionOK(t)
<1>0. program \in Programs /\ Good(heap)
    BY DEF TyperOK
<1>1. /\ HeadIn(heap, constraint, typed[t], t)
      /\ Equals(heap, typed[Parts(t)[1]], LastType(heap.type[typed[t]].parts))
    BY DEF FunctionIn
<1>2. /\ typed[t] \in Nodes(heap) /\ heap.type[typed[t]].kind = "fun"
      /\ \A i \in 2 .. Len(Names(t)) :
            Equals(heap, heap.type[typed[t]].parts[i - 1].type, constraint[Names(t)[i]])
      /\ \A i \in 1 .. Len(Names(t)) :
            Notes(t)[i] # NULL => Equals(heap, heap.type[typed[t]].parts[i].type, Notes(t)[i])
    BY <1>1 DEF HeadIn
<1>3. PartsOf(t) = heap.type[typed[t]].parts
    BY <1>0, <1>2, FunctionStands DEF PartsOf, Is
<1>4. DOMAIN Notes(t) = 1 .. Len(Names(t))
    BY <1>0, NoteFacts, ShapeFacts DEF Notes
<1> QED  BY <1>1, <1>2, <1>3, <1>4, EqualsIs, PartFacts DEF FunctionOK

LEMMA ApplicationAgrees ==
    ASSUME program \in Programs, TyperOK, NEW t \in TermAt, Kind(t) = "application",
           ApplicationIn(heap, typed, t)
    PROVE  ApplicationOK(t)
<1>0. program \in Programs /\ Good(heap)
    BY DEF TyperOK
<1> PICK c : c = typed[Parts(t)[1]]
    OBVIOUS
<1>1. /\ c \in Nodes(heap) /\ heap.type[c].kind = "fun"
      /\ Len(heap.type[c].parts) = Len(Parts(t))
      /\ \A i \in 2 .. Len(Parts(t)) : Equals(heap, typed[Parts(t)[i]], heap.type[c].parts[i - 1].type)
      /\ Equals(heap, typed[t], LastType(heap.type[c].parts))
    BY Zenon DEF ApplicationIn, ArgumentsIn
<1>2. KidIs(t, 1).parts = heap.type[c].parts
    BY <1>0, <1>1, FunctionStands, PartFacts DEF Is
<1>3. Len(Parts(t)) \in Nat
    BY <1>0, TermFacts, Zenon
<1>4. ASSUME NEW i \in 1 .. Len(heap.type[c].parts) - 1
      PROVE  Equal(KidType(t, i + 1), heap.type[c].parts[i].type)
    <2>1. i + 1 \in 2 .. Len(Parts(t)) /\ (i + 1) - 1 = i
        BY <1>1, <1>3
    <2>2. Equals(heap, typed[Parts(t)[i + 1]], heap.type[c].parts[i].type)
        BY <1>1, <2>1
    <2> QED  BY <2>2, EqualsIs, PartFacts
<1>5. Equal(typed[t], LastType(heap.type[c].parts))
    BY <1>1, EqualsIs
<1>6. Len(heap.type[c].parts) = Len(program.terms[t].kids)
    BY <1>1, PartFacts
<1> QED  BY <1>2, <1>4, <1>5, <1>6 DEF ApplicationOK

LEMMA ReturnAgrees ==
    ASSUME program \in Programs, TyperOK, AllTyped, NEW t \in TermAt, Kind(t) = "return"
    PROVE  ReturnOK(t)
<1>0. program \in Programs /\ Good(heap)
    BY DEF TyperOK
<1>1. ReturnIn(heap, typed, stack, decl, t) /\ stack = <<>> /\ Done = TermAt
    BY DEF AllTyped, RulesHold, ReturnsBy, Done
<1>2. PICK e \in DOMAIN program.decls :
        InDecl(e, t) /\ Kind(Exp(e)) = "function" /\ ReturnsTo(heap, typed, t, typed[Exp(e)])
    BY <1>1 DEF ReturnIn
<1>3. program.decls[DeclOf(program, t)].exp = Exp(e)
    BY <1>0, <1>2, DeclOfIs DEF Exp
<1> PICK n : n = typed[Exp(e)]
    OBVIOUS
<1>4. /\ n \in Nodes(heap) /\ heap.type[n].kind = "fun"
      /\ Equals(heap, typed[Parts(t)[1]], LastType(heap.type[n].parts))
    BY <1>2 DEF ReturnsTo
<1>5. PartsOf(Exp(e)) = heap.type[n].parts
    BY <1>0, <1>4, FunctionStands DEF PartsOf, Is
<1>6. Equal(KidType(t, 1), LastType(PartsOf(Exp(e))))
    BY <1>4, <1>5, EqualsIs, PartFacts
<1> QED  BY <1>2, <1>3, <1>6 DEF ReturnOK

LEMMA BinaryAgrees ==
    ASSUME NEW t, BinaryIn(heap, typed, t)
    PROVE  BinaryOK(t)
<1> PICK op, a, b, kinds : /\ op = program.terms[t].op
                           /\ a = typed[Parts(t)[1]] /\ b = typed[Parts(t)[2]]
                           /\ kinds = {Is(a).kind, Is(b).kind}
    OBVIOUS
<1>1. /\ Equals(heap, a, b) \/ (op = "+" /\ (KindIn(heap, a, {"pointer"}) \/ KindIn(heap, b, {"pointer"})))
      /\ op \in Relational \cup Equality \cup Logical => KindIn(heap, typed[t], {"bool"})
      /\ op \in Relational \cup Arithmetic => KindIn(heap, a, Numeric) /\ KindIn(heap, b, Numeric)
      /\ op = "%" => KindIn(heap, a, Integral) /\ KindIn(heap, b, Integral)
      /\ op \in Logical => KindIn(heap, a, {"bool"}) /\ KindIn(heap, b, {"bool"})
      /\ op \in Arithmetic \cup {"%"} => Equals(heap, typed[t], a)
    BY DEF BinaryIn, OperandsIn
<1>2. /\ Equal(a, b) \/ (op = "+" /\ "pointer" \in kinds)
      /\ op \in Relational \cup Equality \cup Logical => Is(typed[t]).kind = "bool"
    <2>1. KindIn(heap, a, {"pointer"}) \/ KindIn(heap, b, {"pointer"}) => "pointer" \in kinds
        BY KindIs
    <2>2. KindIn(heap, typed[t], {"bool"}) => Is(typed[t]).kind = "bool"
        BY KindIs
    <2> QED  BY <1>1, <2>1, <2>2, EqualsIs
<1>3. /\ op \in Relational \cup Arithmetic => kinds \subseteq Numeric
      /\ op = "%" => kinds \subseteq Integral
      /\ op \in Logical => kinds = {"bool"}
    <2>1. \A K : KindIn(heap, a, K) /\ KindIn(heap, b, K) => Is(a).kind \in K /\ Is(b).kind \in K
        BY KindIs
    <2>2. \A K : KindIn(heap, a, K) /\ KindIn(heap, b, K) => kinds \subseteq K
        BY <2>1
    <2>3. KindIn(heap, a, {"bool"}) /\ KindIn(heap, b, {"bool"}) => kinds = {"bool"}
        BY <2>1
    <2> QED  BY <1>1, <2>2, <2>3
<1>4. op \in Arithmetic \cup {"%"} => Equal(typed[t], a)
    BY <1>1, EqualsIs
<1>5. KidType(t, 1) = a /\ KidType(t, 2) = b /\ KidIs(t, 1) = Is(a) /\ KidIs(t, 2) = Is(b)
    BY PartFacts
<1> QED  BY <1>2, <1>3, <1>4, <1>5 DEF BinaryOK

LEMMA ConditionalAgrees ==
    ASSUME program \in Programs, TyperOK, NEW t \in TermAt, Kind(t) = "conditional",
           ConditionalIn(heap, typed, t)
    PROVE  ConditionalOK(t)
<1>1. Len(Parts(t)) \in 2 .. 3
    BY ShapeFacts
<1>2. /\ KindIn(heap, typed[Parts(t)[1]], {"bool"}) /\ Equals(heap, typed[t], typed[Parts(t)[2]])
      /\ Len(Parts(t)) = 3 => Equals(heap, typed[Parts(t)[3]], typed[Parts(t)[2]])
    BY <1>1 DEF ConditionalIn, ConditionIn
<1>3. Is(typed[Parts(t)[1]]).kind \in {"bool"}
    BY <1>2, KindIs
<1> QED  BY <1>2, <1>3, EqualsIs, PartFacts DEF ConditionalOK

LEMMA BlockAgrees ==
    ASSUME program \in Programs, TyperOK, NEW t \in TermAt, Kind(t) = "block",
           StatementsIn(heap, constraint, typed, t, Len(Names(t)))
    PROVE  StatementsOK(t)
<1>0. DOMAIN Names(t) = 1 .. Len(Names(t)) /\ Len(Names(t)) \in Nat
    BY NamesFacts
<1>1. ASSUME NEW i \in DOMAIN Names(t)
      PROVE  IF Names(t)[i] = NULL
             THEN KidIs(t, i).kind \in Structs
             ELSE /\ Equal(KidType(t, i), constraint[Names(t)[i]])
                  /\ Notes(t)[i] # NULL => Equal(KidType(t, i), Notes(t)[i])
    <2>1. StatementIn(heap, constraint, typed, t, i)
        BY <1>0, <1>1 DEF StatementsIn
    <2>2. CASE Names(t)[i] = NULL
        <3>1. KindIn(heap, typed[Parts(t)[i]], Structs)
            BY <2>1, <2>2 DEF StatementIn
        <3> QED  BY <2>2, <3>1, KindIs, PartFacts
    <2>3. CASE Names(t)[i] # NULL
        <3>1. /\ Equals(heap, typed[Parts(t)[i]], constraint[Names(t)[i]])
              /\ Notes(t)[i] # NULL => Equals(heap, typed[Parts(t)[i]], Notes(t)[i])
            BY <2>1, <2>3 DEF StatementIn
        <3> QED  BY <2>3, <3>1, EqualsIs, PartFacts
    <2> QED  BY <2>2, <2>3
<1> QED  BY <1>1, PartFacts DEF StatementsOK

LEMMA AllTypedAgree ==
    ASSUME program \in Programs, TyperOK, AllTyped, ~ignored, NEW t \in TermAt
    PROVE  Agrees(t)
<1>1. RuleIn(heap, constraint, typed, t)
    BY DEF AllTyped, RulesHold, DoneBy, Done
<1>2. Kind(t) = "var" => VarOK(t)
    <2>1. Kind(t) = "var" => Equals(heap, typed[t], constraint[Names(t)[1]])
        BY <1>1 DEF RuleIn, VarIn
    <2> QED  BY <2>1, EqualsIs, PartFacts DEF VarOK
<1>3. Kind(t) = "function" => FunctionOK(t)
    BY <1>1, FunctionAgrees DEF RuleIn
<1>4. Kind(t) = "application" => ApplicationOK(t)
    BY <1>1, ApplicationAgrees DEF RuleIn
<1>5. Kind(t) = "return" => ReturnOK(t)
    BY ReturnAgrees
<1>6. Kind(t) = "binary" => BinaryOK(t)
    BY <1>1, BinaryAgrees DEF RuleIn
<1>7. Kind(t) = "conditional" => ConditionalOK(t)
    BY <1>1, ConditionalAgrees DEF RuleIn
<1>8. Kind(t) = "assignment" => Equal(KidType(t, 1), KidType(t, 2))
    <2>1. Kind(t) = "assignment" => Equals(heap, typed[Parts(t)[1]], typed[Parts(t)[2]])
        BY <1>1 DEF RuleIn, AssignmentIn
    <2> QED  BY <2>1, EqualsIs, PartFacts
<1>9. Kind(t) = "block" => StatementsOK(t)
    BY <1>1, BlockAgrees DEF RuleIn
<1> QED  BY <1>2, <1>3, <1>4, <1>5, <1>6, <1>7, <1>8, <1>9 DEF Agrees

-----------------------------------------------------------------------------
(* The whole: a checked program is well typed. *)

RulesInvariant == (status = "typing" => RulesHold) /\ (status = "typed" => AllTyped)

LEMMA TypingSteps ==
    ASSUME TypesInvariant, RulesInvariant, T!Next
    PROVE  RulesInvariant'
<1>1. TypeSetting /\ RulesHold /\ status = "typing"
    BY TyperRuns DEF TypesInvariant, Invariant, TypeSetting, RulesInvariant
<1>2. CASE status' = "typing"
    BY <1>1, <1>2, TypingKeepsRules DEF RulesInvariant
<1>3. CASE status' = "typed"
    <2>1. T!ResolveDecls
        <3>1. RuleStep
            BY <1>1, RuleSteps
        <3> QED  BY <1>1, <1>3, <3>1
                 DEF RuleStep, StopsTyping, CallsByRule, CallsTerm, TakesByRule, TakesPart, ReturnsByRule,
                     ReturnsType, EntersByRule, DeclaresByRule, DeclaresType
    <2> QED  BY <1>1, <1>3, <2>1, AcceptingTypes DEF RulesInvariant
<1> QED  BY <1>2, <1>3 DEF RulesInvariant

LEMMA EmittingSteps ==
    ASSUME TypesInvariant, RulesInvariant, E!Next, UNCHANGED typerVars
    PROVE  RulesInvariant'
<1>1. EmitStep /\ EmitForm
    BY EmitterForms
<1>2. TyperSame
    BY <1>1 DEF EmitForm, TyperSame, typerVars
<1>3. status = "typed" /\ status' # "typing"
    BY <1>1 DEF EmitStep
<1>4. AllTyped
    BY <1>3 DEF RulesInvariant
<1>5. RulesHold'
    BY <1>2, <1>4, SameRules DEF AllTyped
<1>6. stack' = <<>> /\ Done' = TermAt'
    BY <1>2, <1>4 DEF AllTyped, TyperSame, Done, TermAt
<1> QED  BY <1>3, <1>5, <1>6 DEF RulesInvariant, AllTyped

LEMMA SameSteps ==
    ASSUME RulesInvariant, UNCHANGED vars
    PROVE  RulesInvariant'
<1>1. TyperSame /\ status' = status
    BY DEF vars, typerVars, TyperSame
<1>2. RulesHold => RulesHold'
    BY <1>1, SameRules
<1>3. AllTyped => AllTyped'
    BY <1>1, <1>2 DEF AllTyped, TyperSame, Done, TermAt
<1> QED  BY <1>1, <1>2, <1>3 DEF RulesInvariant

LEMMA RulesInvariance == Spec => []RulesInvariant
<1>1. Init => RulesInvariant
    <2>1. Init => status = "typing"
        BY DEF Init, T!Init
    <2> QED  BY <2>1, InitRules DEF RulesInvariant
<1>2. TypesInvariant /\ RulesInvariant /\ [Next]_vars => RulesInvariant'
    BY TypingSteps, EmittingSteps, SameSteps DEF Next
<1> QED  BY <1>1, <1>2, TypesInvariance, PTL DEF Spec

\* Every program that the type checker accepts is well typed, whatever its terms
\* are and in whatever order their types became known: when its last constraint
\* is in, each term agrees with its parts, its identifiers and its function by
\* the typing rules, unless an answer of constrainTypes was false and ignored.
THEOREM AcceptedIsWellTyped == Spec => []WellTyped
<1>1. TypesInvariant /\ RulesInvariant => WellTyped
    BY AllTypedAgree DEF TypesInvariant, Invariant, RulesInvariant, WellTyped
<1> QED  BY <1>1, TypesInvariance, RulesInvariance, PTL

=============================================================================

